------------------------------ MODULE S1Append ------------------------------
(***************************************************************************)
(* The approval chain of an S1 append: approval/append_preflight.py and    *)
(* approval_ledger_db.py record an approval, s1_append_authorization_      *)
(* decision.py reviews it, live_s1_db_initialization.py makes the          *)
(* container, and production_s1_append_circuit.py appends one row through  *)
(* s1_append_execution_db_writer.py.  A library: its callers are tests.    *)
(*                                                                         *)
(* Callers run at once.  The container is a file that is made in several   *)
(* transactions; a crash may leave it half made.                           *)
(***************************************************************************)
EXTENDS Integers, Sequences, FiniteSets

CONSTANTS Commands,     \* append commands: id, actor, window, evidence, expects (rows before),
                        \*   decision (the digest of an evidence snapshot)
          Snapshots,    \* evidence snapshots: digest, complete
          Callers,      \* callers that may record approvals at once
          Makers,       \* calls of the initializer that may run at once
          MaxDuplicates, MaxPerWindow,   \* thresholds of the preflight
          MaxRuns       \* bound: calls of all kinds

ASSUME S1Assumption ==
    /\ IsFiniteSet(Callers) /\ Callers # {}
    /\ MaxDuplicates \in Nat /\ MaxPerWindow \in Nat /\ MaxRuns \in Nat
    /\ \A c \in Commands : c.expects \in Nat

VARIABLES
    ledger,    \* approval_ledger: the commands approved, oldest first
    asking,    \* the command of each caller whose preflight said yes
    decided,   \* snapshots a decision was made of
    file,      \* the container: what is made of it, its mode, a hot journal
    rows,      \* s1_appends
    maker,     \* step of each call of the initializer
    ready,     \* an initializer reported CREATED_EMPTY_LOCKED_CONTAINER
    run,       \* step of each command in the circuit
    lock,      \* the single_flight guard, and whether the callers pass one
    reports,   \* what the circuit reported: command, status, position
    runs

vars == <<ledger, asking, decided, file, rows, maker, ready, run, lock, reports, runs>>
approvals == <<ledger, asking, decided>>
container == <<file, rows, maker, ready>>
circuit == <<run, lock, reports>>

Nobody == [id |-> "none"]

Init ==
    /\ ledger = <<>> /\ asking = [k \in Callers |-> Nobody] /\ decided = {}
    /\ file = [made |-> "nothing", mode |-> FALSE, hot |-> FALSE]
    /\ rows = <<>>
    /\ maker = [m \in Makers |-> "idle"] /\ ready = FALSE
    /\ run = [c \in Commands |-> "idle"]
    /\ \E shared \in BOOLEAN : lock = [shared |-> shared, holder |-> {}]
    /\ reports = {} /\ runs = 0

Count(s, Test(_)) == Cardinality({n \in DOMAIN s : Test(s[n])})

(***************************************************************************)
(* Approval: preflight, ledger, decision.                                  *)
(***************************************************************************)
(* snapshot_from_ledger(): every stored row is a valid attempt of the      *)
(* actor, and of no window.                                                *)
NoWindow == "none"
snapshot_from_ledger ==
    [n \in DOMAIN ledger |-> [actor |-> ledger[n].actor, window |-> NoWindow, signature |-> ledger[n].id]]

Below(n, max) == n < max

(* evaluate_append_preflight(): of the same actor, too many attempts of    *)
(* the same signature, or too many in the window.  Invalid attempts are    *)
(* not in the ledger.                                                      *)
evaluate_append_preflight(c, history) ==
    /\ Below(Count(history, LAMBDA a : a.actor = c.actor /\ a.signature = c.id), MaxDuplicates)
    /\ Below(Count(history, LAMBDA a : a.actor = c.actor /\ a.window = c.window), MaxPerWindow)

Preflight(k, c) ==
    /\ asking[k] = Nobody /\ runs < MaxRuns /\ runs' = runs + 1
    /\ asking' = [asking EXCEPT ![k] = IF evaluate_append_preflight(c, snapshot_from_ledger)
                                        THEN c ELSE Nobody]
    /\ UNCHANGED <<ledger, decided, container, circuit>>

\* append_passive_record()
AppendRecord(k) ==
    /\ asking[k] # Nobody
    /\ ledger' = Append(ledger, asking[k])
    /\ asking' = [asking EXCEPT ![k] = Nobody]
    /\ UNCHANGED <<decided, container, circuit, runs>>

(* evaluate_s1_append_authorization(), a function of a snapshot of the     *)
(* caller: that an approval is in the ledger is one of its Booleans, and   *)
(* nothing compares it with the ledger.                                    *)
Reviewable(s) == s.complete

Decide(s) ==
    /\ runs < MaxRuns /\ runs' = runs + 1
    /\ decided' = decided \cup {s}
    /\ UNCHANGED <<ledger, asking, container, circuit>>

(***************************************************************************)
(* initialize_live_s1_db()                                                 *)
(***************************************************************************)
Canonical == file.made = "triggers"
MakerAt(m, step) == maker[m] = step
MakerGoes(m, step) == maker' = [maker EXCEPT ![m] = step]

(* _suspect_recovery(), then _verify_existing() of a file that is there.   *)
Initialize(m) ==
    /\ MakerAt(m, "idle") /\ runs < MaxRuns /\ runs' = runs + 1
    /\ MakerGoes(m, IF ~file.hot /\ file.made = "nothing" THEN "wal" ELSE "idle")
    /\ ready' = (ready \/ (~file.hot /\ Canonical /\ file.mode /\ rows = <<>>))
    /\ UNCHANGED <<approvals, file, rows, circuit>>

(* _create_container(): the journal mode makes the file, each statement of *)
(* the schema is a transaction, the mode comes last.                       *)
SetWal(m) ==
    /\ MakerAt(m, "wal")
    /\ file' = IF file.made = "nothing" THEN [file EXCEPT !.made = "wal"] ELSE file
    /\ MakerGoes(m, "table")
    /\ UNCHANGED <<approvals, rows, ready, circuit, runs>>

\* CREATE TABLE fails when another call made it.
CreateTable(m) ==
    /\ MakerAt(m, "table")
    /\ IF file.made = "wal" THEN file' = [file EXCEPT !.made = "table"] /\ MakerGoes(m, "triggers")
       ELSE UNCHANGED file /\ MakerGoes(m, "idle")
    /\ UNCHANGED <<approvals, rows, ready, circuit, runs>>

CreateTriggers(m) ==
    /\ MakerAt(m, "triggers")
    /\ file' = [file EXCEPT !.made = "triggers"]
    /\ MakerGoes(m, "chmod")
    /\ UNCHANGED <<approvals, rows, ready, circuit, runs>>

SetMode(m) ==
    /\ MakerAt(m, "chmod")
    /\ file' = [file EXCEPT !.mode = TRUE]
    /\ ready' = TRUE
    /\ MakerGoes(m, "idle")
    /\ UNCHANGED <<approvals, rows, circuit, runs>>

\* initialization_failed: what was made stays.
MakerFails(m) ==
    /\ ~MakerAt(m, "idle")
    /\ MakerGoes(m, "idle")
    /\ UNCHANGED <<approvals, file, rows, ready, circuit, runs>>

(***************************************************************************)
(* run_production_s1_append_circuit()                                      *)
(***************************************************************************)
GuardFree(c) == ~lock.shared \/ lock.holder = {}

Release(c) == lock' = [lock EXCEPT !.holder = @ \ {c}]
Report(c, status, seq) ==
    /\ reports' = reports \cup {[command |-> c, status |-> status, seq |-> seq]}
    /\ run' = [run EXCEPT ![c] = "idle"]
    /\ Release(c)

Advance(c, step) ==
    /\ run' = [run EXCEPT ![c] = step]
    /\ UNCHANGED <<lock, reports>>

(* _bind(): of the decision it looks at the status and at the digest that  *)
(* the command names, so one decision serves any number of commands.       *)
Bound(c, s) == Reviewable(s) /\ c.decision = s.digest /\ ready

(* The caller passes a decision it has.  One that finds the guard held is  *)
(* sent away.                                                              *)
StartCircuit(c, s) ==
    /\ run[c] = "idle" /\ s \in decided /\ runs < MaxRuns /\ runs' = runs + 1
    /\ IF Bound(c, s) /\ GuardFree(c)
       THEN /\ lock' = [lock EXCEPT !.holder = @ \cup {c}]
            /\ run' = [run EXCEPT ![c] = "existing"]
            /\ UNCHANGED reports
       ELSE Report(c, "BLOCKED", 0)
    /\ UNCHANGED <<approvals, container>>

Existing(c) == \E n \in DOMAIN rows : rows[n].evidence = c.evidence

(* _suspect_recovery() and _existing_append(). *)
LookForRow(c) ==
    /\ run[c] = "existing"
    /\ IF file.hot THEN Report(c, "BLOCKED_RECOVERY_REQUIRED", 0)
       ELSE IF Existing(c) THEN Report(c, "BLOCKED_DUPLICATE", 0)
       ELSE Advance(c, "verify")
    /\ UNCHANGED <<approvals, container, runs>>

\* Mutant: the number of rows is not compared.
AnyCount(c) == Canonical /\ file.mode
AsExpected(c) == Canonical /\ file.mode /\ Len(rows) = c.expects

(* verify_canonical_container() with the expected number of rows, and the  *)
(* fingerprint.                                                            *)
Verify(c) ==
    /\ run[c] = "verify"
    /\ IF AsExpected(c) THEN Advance(c, "append") ELSE Report(c, "BLOCKED_TAMPER_SUSPECT", 0)
    /\ UNCHANGED <<approvals, container, runs>>

(* execute_s1_append(): the writer's own preflight does not count the      *)
(* rows; UNIQUE(evidence_digest, s1_target) does the rest.                 *)
AppendRow(c) ==
    /\ run[c] = "append"
    /\ IF file.hot THEN Report(c, "BLOCKED_RECOVERY_REQUIRED", 0) /\ UNCHANGED rows
       ELSE IF Existing(c) THEN Report(c, "BLOCKED_DUPLICATE", 0) /\ UNCHANGED rows
       ELSE /\ rows' = Append(rows, c)
            /\ Report(c, "APPEND_RECORDED_IN_TEST_CONTAINER", Len(rows) + 1)
    /\ UNCHANGED <<approvals, file, maker, ready, runs>>

\* A read or the write raises.
CircuitFails(c) ==
    /\ run[c] \in {"verify", "append"}
    /\ Report(c, "BLOCKED", 0)
    /\ UNCHANGED <<approvals, container, runs>>

(***************************************************************************)
(* A crash ends every call.  It may come after the commit of a row, before *)
(* it is reported, and may leave a hot journal of a file that is being     *)
(* made.                                                                   *)
(***************************************************************************)
Crash ==
    /\ \/ \E c \in Commands : run[c] = "append" /\ ~Existing(c) /\ rows' = Append(rows, c)
       \/ UNCHANGED rows
    /\ \E hot \in {file.hot, file.hot \/ \E m \in Makers : ~MakerAt(m, "idle")} :
        file' = [file EXCEPT !.hot = hot]
    /\ maker' = [m \in Makers |-> "idle"]
    /\ run' = [c \in Commands |-> "idle"]
    /\ lock' = [lock EXCEPT !.holder = {}]
    /\ asking' = [k \in Callers |-> Nobody]
    /\ UNCHANGED <<ledger, decided, ready, reports, runs>>

Next ==
    \/ \E c \in Commands :
        \/ \E k \in Callers : Preflight(k, c)
        \/ \E s \in Snapshots : StartCircuit(c, s)
        \/ LookForRow(c) \/ Verify(c) \/ AppendRow(c) \/ CircuitFails(c)
    \/ \E k \in Callers : AppendRecord(k)
    \/ \E s \in Snapshots : Decide(s)
    \/ \E m \in Makers :
        \/ Initialize(m) \/ SetWal(m) \/ CreateTable(m) \/ CreateTriggers(m) \/ SetMode(m)
        \/ MakerFails(m)
    \/ Crash

Spec == Init /\ [][Next]_vars

(***************************************************************************)
(* Properties.                                                             *)
(***************************************************************************)
(* What the circuit reports is what the container holds: a recorded append *)
(* is the row at its position, a duplicate has a row, and no evidence has  *)
(* two.  With one guard for all, a row is only appended to a container of  *)
(* as many rows as its command expected: verification and append are one   *)
(* critical section, and so they are across a crash.  Nothing ties a row   *)
(* to the ledger.                                                          *)
ReportsMatchRows ==
    /\ \A r \in reports :
        /\ r.status = "APPEND_RECORDED_IN_TEST_CONTAINER" => rows[r.seq] = r.command
        /\ r.status = "BLOCKED_DUPLICATE" => \E n \in DOMAIN rows : rows[n].evidence = r.command.evidence
    /\ \A m, n \in DOMAIN rows : rows[m].evidence = rows[n].evidence => m = n
    /\ lock.shared => \A n \in DOMAIN rows : rows[n].expects = n - 1

(* Preflight and append are two calls: as many more duplicates than the    *)
(* threshold may get in as there are other callers, and no more.           *)
Duplicates(c) == Count(ledger, LAMBDA a : a.actor = c.actor /\ a.id = c.id)
DuplicatesBounded ==
    \A c \in Commands : Duplicates(c) <= MaxDuplicates + Cardinality(Callers) - 1

(* Violated.  The same of the approvals of an actor in one window.         *)
QuotaHolds ==
    \A c \in Commands : Count(ledger, LAMBDA a : a.actor = c.actor /\ a.window = c.window)
                        <= MaxPerWindow + Cardinality(Callers) - 1
=============================================================================
