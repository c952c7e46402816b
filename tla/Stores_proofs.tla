--------------------------- MODULE Stores_proofs ---------------------------
(***************************************************************************)
(* Proofs about what is written once and never changed: the appends of     *)
(* S1Append, for any commands, callers and makers and any number of calls; *)
(* and the blobs of BlobStore (names with BS), for any set of processes    *)
(* and blobs and any number of attempts, deaths and power losses.          *)
(***************************************************************************)
EXTENDS S1Append, BlobStore, FiniteSetTheorems, TLAPS

(***************************************************************************)
(* The append circuit.                                                     *)
(* The argument.  A command is in the circuit as long as it holds the      *)
(* guard (`GuardInv`), and when the guard is shared no row is added        *)
(* between its verification and its append (`CountInv`): the count it      *)
(* verified is the position of its row, also when the process dies after   *)
(* the commit.  The review adds nothing to this: what it says of the       *)
(* ledger is the caller's word.                                            *)
(***************************************************************************)

TypeInv ==
    /\ ledger \in Seq(Commands) /\ rows \in Seq(Commands)
    /\ asking \in [Callers -> Commands \cup {Nobody}]
    /\ run \in [Commands -> {"idle", "existing", "verify", "append"}]
    /\ lock \in [shared : BOOLEAN, holder : SUBSET Commands]

GuardInv ==
    /\ \A c \in Commands : c \in lock.holder <=> run[c] # "idle"
    /\ lock.shared => \A c, d \in lock.holder : c = d

CountInv ==
    lock.shared => /\ \A n \in DOMAIN rows : rows[n].expects = n - 1
                   /\ \A c \in Commands : run[c] = "append" => Len(rows) = c.expects

Recorded(r) == r.status = "APPEND_RECORDED_IN_TEST_CONTAINER"
RowsInv ==
    \A m, n \in DOMAIN rows : rows[m].evidence = rows[n].evidence => m = n

ReportInv ==
    \A r \in reports :
        /\ Recorded(r) => r.seq \in DOMAIN rows /\ rows[r.seq] = r.command
        /\ r.status = "BLOCKED_DUPLICATE" => \E n \in DOMAIN rows : rows[n].evidence = r.command.evidence

IInv == TypeInv /\ GuardInv /\ CountInv /\ RowsInv /\ ReportInv

LEMMA InitIInv == Init => IInv
BY DEF Init, IInv, TypeInv, GuardInv, CountInv, RowsInv, ReportInv, Nobody

(* Approvals and decisions touch neither the container nor the circuit. *)
LEMMA ApprovalInv ==
    ASSUME IInv,
           \/ \E k \in Callers, c \in Commands : Preflight(k, c)
           \/ \E k \in Callers : AppendRecord(k)
           \/ \E s \in Snapshots : Decide(s)
    PROVE  IInv'
<1>1. UNCHANGED <<rows, run, lock, reports>>
  BY DEF Preflight, AppendRecord, Decide, container, circuit
<1>2. /\ ledger' \in Seq(Commands)
      /\ asking' \in [Callers -> Commands \cup {Nobody}]
  <2>1. CASE \E k \in Callers, c \in Commands : Preflight(k, c)
    BY <2>1 DEF Preflight, IInv, TypeInv
  <2>2. CASE \E k \in Callers : AppendRecord(k)
    BY <2>2 DEF AppendRecord, IInv, TypeInv
  <2>3. CASE \E s \in Snapshots : Decide(s)
    BY <2>3 DEF Decide, IInv, TypeInv
  <2> QED
    BY <2>1, <2>2, <2>3
<1> QED
  BY <1>1, <1>2 DEF IInv, TypeInv, GuardInv, CountInv, RowsInv, ReportInv, Recorded

(* The initializer writes no row. *)
LEMMA MakerInv ==
    ASSUME IInv, NEW m \in Makers,
           Initialize(m) \/ SetWal(m) \/ CreateTable(m) \/ CreateTriggers(m) \/ SetMode(m)
             \/ MakerFails(m)
    PROVE  IInv'
<1>1. UNCHANGED <<ledger, asking, rows, run, lock, reports>>
  BY DEF Initialize, SetWal, CreateTable, CreateTriggers, SetMode, MakerFails, approvals, circuit
<1> QED
  BY <1>1 DEF IInv, TypeInv, GuardInv, CountInv, RowsInv, ReportInv, Recorded

(* A command leaves the circuit with a report that is true of the rows. *)
LEMMA ReportStep ==
    ASSUME IInv, NEW c \in Commands, NEW status, NEW seq, Report(c, status, seq),
           UNCHANGED <<ledger, asking, rows>>,
           status # "APPEND_RECORDED_IN_TEST_CONTAINER",
           status = "BLOCKED_DUPLICATE" => Existing(c)
    PROVE  IInv'
<1>1. /\ run' = [run EXCEPT ![c] = "idle"]
      /\ lock'.shared = lock.shared /\ lock'.holder = lock.holder \ {c}
      /\ lock' \in [shared : BOOLEAN, holder : SUBSET Commands]
      /\ reports' = reports \cup {[command |-> c, status |-> status, seq |-> seq]}
  BY DEF Report, Release, IInv, TypeInv
<1>2. TypeInv' /\ GuardInv' /\ CountInv' /\ RowsInv'
  BY <1>1 DEF IInv, TypeInv, GuardInv, CountInv, RowsInv
<1>3. ReportInv'
  BY <1>1 DEF IInv, ReportInv, Recorded, Existing
<1> QED
  BY <1>2, <1>3 DEF IInv

LEMMA StartInv ==
    ASSUME IInv, NEW c \in Commands, NEW s \in Snapshots, StartCircuit(c, s)
    PROVE  IInv'
<1>1. UNCHANGED <<ledger, asking, rows>> /\ run[c] = "idle"
  BY DEF StartCircuit, approvals, container
<1>2. CASE Report(c, "BLOCKED", 0)
  BY <1>1, <1>2, ReportStep
<1>3. CASE ~Report(c, "BLOCKED", 0)
  <2>1. /\ GuardFree(c) /\ UNCHANGED reports
        /\ run' = [run EXCEPT ![c] = "existing"]
        /\ lock'.shared = lock.shared /\ lock'.holder = lock.holder \cup {c}
        /\ lock' \in [shared : BOOLEAN, holder : SUBSET Commands]
    BY <1>3 DEF StartCircuit, IInv, TypeInv
  <2> QED
    BY <1>1, <2>1 DEF GuardFree, IInv, TypeInv, GuardInv, CountInv, RowsInv, ReportInv,
       Recorded
<1> QED
  BY <1>2, <1>3

(* Looking and verifying: the count is compared where the guard is held. *)
LEMMA CheckInv ==
    ASSUME IInv, NEW c \in Commands, LookForRow(c) \/ Verify(c) \/ CircuitFails(c)
    PROVE  IInv'
<1>1. UNCHANGED <<ledger, asking, rows>> /\ run[c] # "idle"
  BY DEF LookForRow, Verify, CircuitFails, approvals, container
<1>2. \/ \E status \in {"BLOCKED_RECOVERY_REQUIRED", "BLOCKED_TAMPER_SUSPECT", "BLOCKED"} :
            Report(c, status, 0)
      \/ Report(c, "BLOCKED_DUPLICATE", 0) /\ Existing(c)
      \/ Advance(c, "verify")
      \/ Advance(c, "append") /\ Len(rows) = c.expects
  BY DEF LookForRow, Verify, CircuitFails, AsExpected
<1>3. ASSUME NEW step \in {"verify", "append"}, Advance(c, step),
             step = "append" => Len(rows) = c.expects
      PROVE  IInv'
  BY <1>1, <1>3 DEF Advance, IInv, TypeInv, GuardInv, CountInv, RowsInv, ReportInv,
     Recorded
<1> QED
  BY <1>1, <1>2, <1>3, ReportStep

(* A row is added by a command that is about to append; what follows is a  *)
(* report or a death.                                                      *)
LEMMA NewRow ==
    ASSUME IInv, NEW c \in Commands, run[c] = "append", ~Existing(c), rows' = Append(rows, c),
           UNCHANGED ledger, lock'.shared = lock.shared
    PROVE  /\ rows' \in Seq(Commands) /\ DOMAIN rows' = 1..(Len(rows) + 1)
           /\ DOMAIN rows = 1..Len(rows)
           /\ rows'[Len(rows) + 1] = c /\ \A n \in DOMAIN rows : rows'[n] = rows[n]
           /\ RowsInv'
           /\ lock.shared => \A n \in DOMAIN rows' : rows'[n].expects = n - 1
<1>1. /\ rows' \in Seq(Commands) /\ DOMAIN rows' = 1..(Len(rows) + 1)
      /\ DOMAIN rows = 1..Len(rows) /\ Len(rows) \in Nat
      /\ rows'[Len(rows) + 1] = c /\ \A n \in DOMAIN rows : rows'[n] = rows[n]
  BY DEF IInv, TypeInv
<1>2. \A n \in DOMAIN rows' : n \in DOMAIN rows \/ n = Len(rows) + 1
  BY <1>1
<1>3. RowsInv'
  BY <1>1, <1>2 DEF IInv, RowsInv, Existing
<1>4. lock.shared => \A n \in DOMAIN rows' : rows'[n].expects = n - 1
  BY <1>1, <1>2 DEF IInv, CountInv
<1> QED
  BY <1>1, <1>3, <1>4

LEMMA AppendRowInv == ASSUME IInv, NEW c \in Commands, AppendRow(c) PROVE IInv'
<1>1. UNCHANGED <<ledger, asking>> /\ run[c] = "append"
  BY DEF AppendRow, approvals
<1>2. CASE UNCHANGED rows /\ (\/ Report(c, "BLOCKED_RECOVERY_REQUIRED", 0)
                              \/ Existing(c) /\ Report(c, "BLOCKED_DUPLICATE", 0))
  BY <1>1, <1>2, ReportStep
<1>3. CASE /\ ~Existing(c) /\ rows' = Append(rows, c)
           /\ Report(c, "APPEND_RECORDED_IN_TEST_CONTAINER", Len(rows) + 1)
  <2>1. /\ run' = [run EXCEPT ![c] = "idle"]
        /\ lock'.shared = lock.shared /\ lock'.holder = lock.holder \ {c}
        /\ lock' \in [shared : BOOLEAN, holder : SUBSET Commands]
        /\ reports' = reports \cup {[command |-> c, seq |-> Len(rows) + 1,
                                     status |-> "APPEND_RECORDED_IN_TEST_CONTAINER"]}
    BY <1>3 DEF Report, Release, IInv, TypeInv
  <2>2. /\ rows' \in Seq(Commands) /\ DOMAIN rows' = 1..(Len(rows) + 1)
        /\ DOMAIN rows = 1..Len(rows) /\ Len(rows) \in Nat
        /\ rows'[Len(rows) + 1] = c /\ \A n \in DOMAIN rows : rows'[n] = rows[n]
        /\ RowsInv'
        /\ lock.shared => \A n \in DOMAIN rows' : rows'[n].expects = n - 1
    BY <1>1, <1>3, <2>1, NewRow DEF IInv, TypeInv
  <2>3. TypeInv' /\ GuardInv'
    BY <1>1, <2>1, <2>2 DEF IInv, TypeInv, GuardInv
  <2>4. CountInv'
    BY <1>1, <2>1, <2>2 DEF IInv, TypeInv, GuardInv, CountInv
  <2>5. ReportInv'
    <3>1. ASSUME NEW r \in reports
          PROVE  /\ Recorded(r) => r.seq \in DOMAIN rows' /\ rows'[r.seq] = r.command
                 /\ r.status = "BLOCKED_DUPLICATE" =>
                       \E n \in DOMAIN rows' : rows'[n].evidence = r.command.evidence
      BY <2>2 DEF IInv, ReportInv
    <3> QED
      BY <2>1, <2>2, <3>1 DEF ReportInv, Recorded
  <2> QED
    BY <2>2, <2>3, <2>4, <2>5 DEF IInv
<1> QED
  BY <1>2, <1>3 DEF AppendRow

LEMMA CrashInv == ASSUME IInv, Crash PROVE IInv'
<1>1. /\ UNCHANGED <<ledger, reports>> /\ run' = [c \in Commands |-> "idle"]
      /\ lock'.shared = lock.shared /\ lock'.holder = {}
      /\ lock' \in [shared : BOOLEAN, holder : SUBSET Commands]
      /\ asking' \in [Callers -> Commands \cup {Nobody}]
  BY DEF Crash, IInv, TypeInv
<1>2. CASE UNCHANGED rows
  BY <1>1, <1>2 DEF IInv, TypeInv, GuardInv, CountInv, RowsInv, ReportInv, Recorded
<1>3. ASSUME NEW c \in Commands, run[c] = "append", ~Existing(c), rows' = Append(rows, c)
      PROVE  IInv'
  <2>1. /\ rows' \in Seq(Commands) /\ DOMAIN rows' = 1..(Len(rows) + 1)
        /\ DOMAIN rows = 1..Len(rows) /\ Len(rows) \in Nat
        /\ \A n \in DOMAIN rows : rows'[n] = rows[n]
        /\ RowsInv'
        /\ lock.shared => \A n \in DOMAIN rows' : rows'[n].expects = n - 1
    BY <1>1, <1>3, NewRow DEF IInv, TypeInv
  <2>2. TypeInv' /\ GuardInv' /\ CountInv'
    BY <1>1, <2>1 DEF IInv, TypeInv, GuardInv, CountInv
  <2>3. ReportInv'
    BY <1>1, <2>1 DEF IInv, ReportInv, Recorded
  <2> QED
    BY <2>1, <2>2, <2>3 DEF IInv
<1> QED
  BY <1>2, <1>3 DEF Crash

LEMMA NextIInv == IInv /\ [Next]_vars => IInv'
<1> SUFFICES ASSUME IInv, [Next]_vars PROVE IInv'
  OBVIOUS
<1>1. CASE Next
  BY <1>1, ApprovalInv, MakerInv, StartInv, CheckInv, AppendRowInv, CrashInv DEF Next
<1>2. CASE UNCHANGED vars
  BY <1>2 DEF vars, IInv, TypeInv, GuardInv, CountInv, RowsInv, ReportInv, Recorded
<1> QED
  BY <1>1, <1>2

(* The inductive invariant holds throughout. *)
THEOREM Inductive == Spec => []IInv
BY InitIInv, NextIInv, PTL DEF Spec

(* The reports of the circuit are what the container holds, whatever the   *)
(* callers do at once and wherever they die.                               *)
THEOREM ReportsAreTrue == Spec => []ReportsMatchRows
<1>1. IInv => ReportsMatchRows
  BY DEF IInv, RowsInv, CountInv, ReportInv, Recorded, ReportsMatchRows
<1> QED
  BY <1>1, Inductive, PTL

(***************************************************************************)
(* The threshold of the preflight.                                         *)
(* The argument.  A caller in whose hands a command is passed the          *)
(* preflight when one more duplicate was still below the threshold;        *)
(* counting what is in the ledger and in the hands of callers together,    *)
(* only the preflight adds, and at most once per caller.                   *)
(***************************************************************************)
Same(a, c) == a.actor = c.actor /\ a.id = c.id
Entries(c) == {n \in DOMAIN ledger : Same(ledger[n], c)}
Holders(c) == {k \in Callers : asking[k] # Nobody /\ Same(asking[k], c)}

DuplicatesInv ==
    /\ ledger \in Seq(Commands)
    /\ asking \in [Callers -> Commands \cup {Nobody}]
    /\ \A c \in Commands :
          \/ Holders(c) = {} /\ Entries(c) = {}
          \/ Cardinality(Entries(c)) + Cardinality(Holders(c))
                <= MaxDuplicates + Cardinality(Callers) - 1

LEMMA Finite ==
    ASSUME DuplicatesInv, NEW c \in Commands
    PROVE  /\ IsFiniteSet(Entries(c)) /\ IsFiniteSet(Holders(c))
           /\ Cardinality(Entries(c)) \in Nat /\ Cardinality(Holders(c)) \in Nat
           /\ Cardinality(Callers) \in Nat /\ Cardinality(Holders(c)) <= Cardinality(Callers)
           /\ Cardinality(Callers) >= 1 /\ MaxDuplicates \in Nat
<1>1. DOMAIN ledger = 1..Len(ledger) /\ Len(ledger) \in Nat
  BY DEF DuplicatesInv
<1>2. IsFiniteSet(DOMAIN ledger)
  BY <1>1, FS_Interval
<1>3. IsFiniteSet(Entries(c)) /\ IsFiniteSet(Holders(c))
      /\ Cardinality(Holders(c)) <= Cardinality(Callers)
  BY <1>2, FS_Subset, S1Assumption DEF Entries, Holders
<1>4. Cardinality(Callers) # 0
  BY FS_EmptySet, S1Assumption
<1> QED
  BY <1>3, <1>4, FS_CardinalityType, S1Assumption

LEMMA PreflightBounded ==
    ASSUME DuplicatesInv, NEW k \in Callers, NEW d \in Commands, Preflight(k, d)
    PROVE  DuplicatesInv'
<1>1. /\ ledger' = ledger /\ asking[k] = Nobody
      /\ asking' \in [Callers -> Commands \cup {Nobody}]
      /\ \A x \in Callers : x # k => asking'[x] = asking[x]
      /\ asking'[k] = Nobody \/ (/\ asking'[k] = d
                                 /\ evaluate_append_preflight(d, snapshot_from_ledger))
  BY DEF Preflight, DuplicatesInv
<1>2. evaluate_append_preflight(d, snapshot_from_ledger) =>
         Cardinality(Entries(d)) < MaxDuplicates
  <2>1. {n \in DOMAIN snapshot_from_ledger :
            snapshot_from_ledger[n].actor = d.actor /\ snapshot_from_ledger[n].signature = d.id}
         = Entries(d)
    BY DEF snapshot_from_ledger, Entries, Same
  <2> QED
    BY <2>1 DEF evaluate_append_preflight, Below, Count
<1>3. ASSUME NEW c \in Commands
      PROVE  \/ Holders(c)' = {} /\ Entries(c)' = {}
             \/ Cardinality(Entries(c)') + Cardinality(Holders(c)')
                   <= MaxDuplicates + Cardinality(Callers) - 1
  <2>1. Entries(c)' = Entries(c)
    BY <1>1 DEF Entries
  <2>2. CASE asking'[k] = Nobody \/ ~Same(d, c)
    <3>1. Holders(c)' = Holders(c)
      BY <1>1, <2>2 DEF Holders
    <3> QED
      BY <2>1, <3>1 DEF DuplicatesInv
  <2>3. CASE asking'[k] = d /\ asking'[k] # Nobody /\ Same(d, c)
    <3>1. Entries(c) = Entries(d)
      BY <2>3 DEF Entries, Same
    <3>2. Cardinality(Entries(c)) < MaxDuplicates
      BY <1>1, <1>2, <2>3, <3>1
    <3>3. Cardinality(Holders(c)') <= Cardinality(Callers) /\ Cardinality(Holders(c)') \in Nat
      BY FS_Subset, FS_CardinalityType, S1Assumption DEF Holders
    <3> QED
      BY <2>1, <3>2, <3>3, Finite
  <2> QED
    BY <1>1, <2>2, <2>3
<1> QED
  BY <1>1, <1>3 DEF DuplicatesInv

(* What a caller held is in the ledger. *)
LEMMA RecordBounded ==
    ASSUME DuplicatesInv, NEW k \in Callers, AppendRecord(k)
    PROVE  DuplicatesInv'
<1> DEFINE d == asking[k]
           last == Len(ledger) + 1
<1>1. /\ d \in Commands /\ d # Nobody /\ ledger' \in Seq(Commands)
      /\ DOMAIN ledger = 1..Len(ledger) /\ Len(ledger) \in Nat
      /\ DOMAIN ledger' = DOMAIN ledger \cup {last} /\ last \notin DOMAIN ledger
      /\ ledger'[last] = d /\ \A n \in DOMAIN ledger : ledger'[n] = ledger[n]
      /\ asking' \in [Callers -> Commands \cup {Nobody}] /\ asking'[k] = Nobody
      /\ \A x \in Callers : x # k => asking'[x] = asking[x]
  BY DEF AppendRecord, DuplicatesInv
<1>2. ASSUME NEW c \in Commands
      PROVE  \/ Holders(c)' = {} /\ Entries(c)' = {}
             \/ Cardinality(Entries(c)') + Cardinality(Holders(c)')
                   <= MaxDuplicates + Cardinality(Callers) - 1
  <2>1. CASE ~Same(d, c)
    <3>1. Holders(c)' = Holders(c) /\ Entries(c)' = Entries(c)
      BY <1>1, <2>1 DEF Holders, Entries
    <3> QED
      BY <3>1 DEF DuplicatesInv
  <2>2. CASE Same(d, c)
    <3>1. /\ Holders(c)' = Holders(c) \ {k} /\ k \in Holders(c)
          /\ Entries(c)' = Entries(c) \cup {last} /\ last \notin Entries(c)
      BY <1>1, <2>2 DEF Holders, Entries
    <3>2. /\ Cardinality(Holders(c)') = Cardinality(Holders(c)) - 1
          /\ Cardinality(Entries(c)') = Cardinality(Entries(c)) + 1
      <4>1. IsFiniteSet(Holders(c)) /\ IsFiniteSet(Entries(c))
        BY Finite
      <4>2. Cardinality(Holders(c) \ {k}) = Cardinality(Holders(c)) - 1
        BY <3>1, <4>1, FS_RemoveElement
      <4>3. Cardinality(Entries(c) \cup {last}) = Cardinality(Entries(c)) + 1
        BY <3>1, <4>1, FS_AddElement
      <4> HIDE DEF last
      <4> QED
        BY <3>1, <4>2, <4>3
    <3> QED
      BY <3>1, <3>2, Finite DEF DuplicatesInv
  <2> QED
    BY <2>1, <2>2
<1> QED
  BY <1>1, <1>2 DEF DuplicatesInv

LEMMA CrashBounded == ASSUME DuplicatesInv, Crash PROVE DuplicatesInv'
<1>1. ledger' = ledger /\ asking' = [k \in Callers |-> Nobody]
  BY DEF Crash
<1>2. ASSUME NEW c \in Commands PROVE Holders(c)' = {} /\ Entries(c)' = Entries(c)
  BY <1>1 DEF Holders, Entries
<1>3. \A c \in Commands : Cardinality(Entries(c)) <= MaxDuplicates + Cardinality(Callers) - 1
                           \/ Entries(c) = {}
  BY Finite DEF DuplicatesInv
<1> QED
  <2>1. ASSUME NEW c \in Commands
        PROVE  \/ Holders(c)' = {} /\ Entries(c)' = {}
               \/ Cardinality(Entries(c)') + Cardinality(Holders(c)')
                     <= MaxDuplicates + Cardinality(Callers) - 1
    <3>1. Cardinality(Entries(c)) \in Nat /\ Cardinality(Holders(c)') = 0
      BY <1>2, FS_EmptySet, Finite
    <3> QED
      BY <1>2, <1>3, <3>1
  <2> QED
    BY <1>1, <2>1 DEF DuplicatesInv

LEMMA StepBounded == DuplicatesInv /\ [Next]_vars => DuplicatesInv'
<1> SUFFICES ASSUME DuplicatesInv, [Next]_vars PROVE DuplicatesInv'
  OBVIOUS
<1>1. CASE UNCHANGED <<ledger, asking>>
  BY <1>1 DEF DuplicatesInv, Entries, Holders
<1>2. \/ UNCHANGED <<ledger, asking>>
      \/ \E k \in Callers, c \in Commands : Preflight(k, c)
      \/ \E k \in Callers : AppendRecord(k)
      \/ Crash
  BY DEF Next, vars, Decide, StartCircuit, LookForRow, Verify, AppendRow, CircuitFails, Initialize,
     SetWal, CreateTable, CreateTriggers, SetMode, MakerFails, approvals
<1> QED
  BY <1>1, <1>2, PreflightBounded, RecordBounded, CrashBounded

(* However many callers ask at once and however often: of one command the  *)
(* ledger gets at most as many records as the threshold and the callers    *)
(* other than one.                                                         *)
THEOREM DuplicatesAreBounded == Spec => []DuplicatesBounded
<1>1. Init => DuplicatesInv
  BY DEF Init, DuplicatesInv, Entries, Holders
<1>2. DuplicatesInv => DuplicatesBounded
  <2> SUFFICES ASSUME DuplicatesInv, NEW c \in Commands
               PROVE  Duplicates(c) <= MaxDuplicates + Cardinality(Callers) - 1
    BY DEF DuplicatesBounded
  <2>1. Duplicates(c) = Cardinality(Entries(c))
    BY DEF Duplicates, Count, Entries, Same
  <2> QED
    BY <2>1, Finite, FS_EmptySet DEF DuplicatesInv
<1> QED
  BY <1>1, <1>2, StepBounded, PTL DEF Spec

(***************************************************************************)
(* The blobs.                                                              *)
(* The argument.  A temporary file belongs to the process that made it and *)
(* is whole and synced when it is renamed (`TempInv`), so a target never   *)
(* is anything but synced (`TargetInv`), in what the file system shows and *)
(* in what it has on disk.  A blob is reported only after both had it      *)
(* (`DoneInv`), and nothing but the loss of its shards takes it away.      *)
(***************************************************************************)

Files == [data : {"none", "partial", "whole", "foreign"}, synced : BOOLEAN,
          by : Procs \cup {"none"}]
Steps == {"shard", "commit_shard", "create", "write", "sync", "rename", "commit", "existing",
          "cleanup", "close"}
Calls == [step : Steps, blob : Blobs, level : Shards, outcome : {"none", "failed", "durable"}]

BSTypeInv ==
    /\ entry \in [Shards -> {"none", "made", "durable"}]
    /\ temp \in [Blobs -> Files] /\ target \in [Blobs -> Files]
    /\ disk \in [temp : [Blobs -> Files], target : [Blobs -> Files]]
    /\ proc \in [Procs -> {Idle} \cup Calls]
    /\ done \subseteq Blobs

(* The file a call made is its own until it is renamed or unlinked. *)
TempInv ==
    \A p \in Procs : proc[p].step \in {"write", "sync", "rename", "existing"} =>
        /\ temp[proc[p].blob].by = p /\ temp[proc[p].blob] # NoFile
        /\ proc[p].step \in {"sync", "rename"} => temp[proc[p].blob].data = "whole"
        /\ proc[p].step = "rename" => temp[proc[p].blob].synced

Good(f) == f = NoFile \/ (f.synced /\ f.data \in {"whole", "foreign"})
TargetInv == \A b \in Blobs : Good(target[b]) /\ Good(disk.target[b])

Kept(b) == target[b].data = "whole" /\ disk.target[b].data = "whole"
DoneInv ==
    /\ \A b \in done : Kept(b)
    /\ \A p \in Procs : proc[p].step \in {"close", "cleanup"} /\ proc[p].outcome = "durable" =>
          Kept(proc[p].blob)

BSInv == BSTypeInv /\ TempInv /\ TargetInv /\ DoneInv

LEMMA BSInitInv == BSInit => BSInv
BY DEF BSInit, BSInv, BSTypeInv, TempInv, TargetInv, DoneInv, Good, Kept, Files, Calls, Steps, NoFile,
   Foreign, Idle, Names, Shards

(* A call is idle, or somewhere with its blob. *)
LEMMA Calling ==
    ASSUME BSTypeInv, NEW p \in Procs, proc[p].step # "idle"
    PROVE  proc[p] \in Calls
BY DEF BSTypeInv, Idle

LEMMA Going ==
    ASSUME BSTypeInv, NEW p \in Procs, NEW s \in Steps, proc[p] \in Calls, Goto(p, s)
    PROVE  /\ proc' \in [Procs -> {Idle} \cup Calls]
           /\ proc'[p].step = s /\ proc'[p].blob = proc[p].blob
           /\ proc'[p].outcome = proc[p].outcome
           /\ \A q \in Procs : q # p => proc'[q] = proc[q]
BY DEF BSTypeInv, Goto, Calls

LEMMA Becoming ==
    ASSUME BSTypeInv, NEW p \in Procs, NEW s \in Steps, NEW o \in {"none", "failed", "durable"},
           proc[p] \in Calls, Becomes(p, s, o)
    PROVE  /\ proc' \in [Procs -> {Idle} \cup Calls]
           /\ proc'[p].step = s /\ proc'[p].blob = proc[p].blob
           /\ proc'[p].outcome = o
           /\ \A q \in Procs : q # p => proc'[q] = proc[q]
<1>1. proc' = [proc EXCEPT ![p] = [[proc[p] EXCEPT !.step = s] EXCEPT !.outcome = o]]
  BY DEF Becomes, BSTypeInv
<1> QED
  BY <1>1 DEF BSTypeInv, Calls

(* A call that ends, with an error or without. *)
LEMMA ReturnInv ==
    ASSUME BSInv, NEW p \in Procs, Return(p), UNCHANGED fs,
           done' = done \/ (/\ done' = done \cup {proc[p].blob} /\ proc[p] \in Calls
                            /\ proc[p].step = "close" /\ proc[p].outcome = "durable")
    PROVE  BSInv'
<1>1. /\ proc'[p] = Idle /\ \A q \in Procs : q # p => proc'[q] = proc[q]
      /\ proc' \in [Procs -> {Idle} \cup Calls]
  BY DEF Return, BSInv, BSTypeInv
<1>2. BSTypeInv'
  BY <1>1 DEF BSInv, BSTypeInv, fs, Calls
<1>3. TempInv' /\ TargetInv' /\ DoneInv'
  BY <1>1 DEF BSInv, TempInv, TargetInv, DoneInv, Good, Kept, fs, Idle
<1> QED
  BY <1>2, <1>3 DEF BSInv

(* The calls that only make shards, or only move on. *)
LEMMA MoveInv ==
    ASSUME BSInv, NEW p \in Procs, proc' \in [Procs -> {Idle} \cup Calls],
           \A q \in Procs : q # p => proc'[q] = proc[q],
           proc'[p].step \in {"shard", "commit_shard", "create"}
             \/ (/\ proc'[p].blob = proc[p].blob
                 /\ proc[p].step = "rename" /\ proc'[p].step = "existing")
             \/ (proc'[p].step = "cleanup" /\ proc'[p].outcome = "failed"),
           entry' \in [Shards -> {"none", "made", "durable"}],
           UNCHANGED <<temp, target, disk, done>>
    PROVE  BSInv'
<1>1. BSTypeInv'
  BY DEF BSInv, BSTypeInv
<1>2. TempInv' /\ TargetInv' /\ DoneInv'
  BY DEF BSInv, TempInv, TargetInv, DoneInv, Good, Kept
<1> QED
  BY <1>1, <1>2 DEF BSInv

LEMMA ShardsInv ==
    ASSUME BSInv, NEW p \in Procs,
           (\E b \in Blobs : Begin(p, b)) \/ MakeShard(p) \/ UseShard(p) \/ CommitShard(p)
    PROVE  BSInv'
<1>1. ASSUME NEW b \in Blobs, Begin(p, b) PROVE BSInv'
  <2>1. /\ proc' \in [Procs -> {Idle} \cup Calls] /\ proc'[p].step = "shard"
        /\ \A q \in Procs : q # p => proc'[q] = proc[q]
    BY <1>1 DEF Begin, BSInv, BSTypeInv, Calls, Steps, Shards
  <2> QED
    BY <1>1, <2>1, MoveInv DEF Begin, fs, BSInv, BSTypeInv
<1>2. CASE MakeShard(p)
  <2>1. proc[p] \in Calls
    BY <1>2, Calling DEF MakeShard, At, BSInv
  <2>2. entry' \in [Shards -> {"none", "made", "durable"}]
    BY <1>2, <2>1 DEF MakeShard, BSInv, BSTypeInv, Calls
  <2> QED
    BY <1>2, <2>1, <2>2, Going, MoveInv DEF MakeShard, BSInv, Steps
<1>3. ASSUME proc[p] \in Calls, NextShard(p)
      PROVE  /\ proc' \in [Procs -> {Idle} \cup Calls]
             /\ proc'[p].step \in {"shard", "create"}
             /\ \A q \in Procs : q # p => proc'[q] = proc[q]
  <2>1. CASE proc[p].level = 2
    BY <1>3, <2>1 DEF NextShard, BSInv, BSTypeInv, Calls, Steps
  <2>2. CASE proc[p].level # 2
    <3>1. proc' = [proc EXCEPT ![p] = [[proc[p] EXCEPT !.step = "shard"] EXCEPT !.level = 2]]
      BY <1>3, <2>2 DEF NextShard, BSInv, BSTypeInv
    <3> QED
      <4>1. [[proc[p] EXCEPT !.step = "shard"] EXCEPT !.level = 2] \in Calls
        <5>1. [proc[p] EXCEPT !.step = "shard"] \in Calls
          BY <1>3 DEF Calls, Steps
        <5>2. \A c \in Calls : [c EXCEPT !.level = 2] \in Calls
          BY DEF Calls, Shards
        <5> QED
          BY <5>1, <5>2
      <4>2. [[proc[p] EXCEPT !.step = "shard"] EXCEPT !.level = 2].step = "shard"
        BY <1>3 DEF Calls
      <4> QED
        BY <3>1, <4>1, <4>2 DEF BSInv, BSTypeInv
  <2> QED
    BY <2>1, <2>2
<1>4. CASE UseShard(p)
  <2>1. proc[p] \in Calls
    BY <1>4, Calling DEF UseShard, At, BSInv
  <2> QED
    BY <1>3, <1>4, <2>1, MoveInv DEF UseShard, fs, BSInv, BSTypeInv
<1>5. CASE CommitShard(p)
  <2>1. proc[p] \in Calls
    BY <1>5, Calling DEF CommitShard, At, BSInv
  <2>2. entry' \in [Shards -> {"none", "made", "durable"}]
    BY <1>5, <2>1 DEF CommitShard, BSInv, BSTypeInv, Calls
  <2> QED
    BY <1>3, <1>5, <2>1, <2>2, MoveInv DEF CommitShard, BSInv, BSTypeInv
<1> QED
  BY <1>1, <1>2, <1>4, <1>5

(* The temporary file: made, written, synced by its owner. *)
LEMMA TempFileInv ==
    ASSUME BSInv, NEW p \in Procs, CreateTemp(p) \/ WriteTemp(p) \/ SyncTemp(p)
    PROVE  BSInv'
<1> DEFINE b == proc[p].blob
<1>1. proc[p] \in Calls /\ b \in Blobs
  BY Calling DEF CreateTemp, WriteTemp, SyncTemp, At, BSInv, Calls
<1>2. UNCHANGED <<entry, target, disk, done>>
  BY DEF CreateTemp, WriteTemp, SyncTemp
<1>3. /\ temp' \in [Blobs -> Files]
      /\ \A c \in Blobs : c # b => temp'[c] = temp[c]
      /\ temp'[b].by = p /\ temp'[b] # NoFile
      /\ \/ proc[p].step = "create" /\ temp[b] = NoFile /\ Goto(p, "write")
         \/ proc[p].step = "write" /\ Goto(p, "sync") /\ temp'[b].data = "whole"
         \/ /\ proc[p].step = "sync" /\ Goto(p, "rename")
            /\ temp'[b].data = "whole" /\ temp'[b].synced
  <2>1. CASE CreateTemp(p)
    BY <1>1, <2>1 DEF CreateTemp, At, Partial, NoFile, Files, BSInv, BSTypeInv
  <2>2. CASE WriteTemp(p)
    BY <1>1, <2>2 DEF WriteTemp, At, NoFile, Files, BSInv, BSTypeInv, TempInv
  <2>3. CASE SyncTemp(p)
    <3>1. /\ temp[b] \in Files /\ temp[b].by = p /\ temp[b].data = "whole"
          /\ temp \in [Blobs -> Files]
          /\ temp' = [temp EXCEPT ![b] = [temp[b] EXCEPT !.synced = TRUE]]
          /\ proc[p].step = "sync" /\ Goto(p, "rename")
      BY <1>1, <2>3 DEF SyncTemp, Synced, At, BSInv, BSTypeInv, TempInv
    <3> QED
      BY <1>1, <3>1 DEF NoFile, Files
  <2> QED
    BY <2>1, <2>2, <2>3
<1>4. /\ proc' \in [Procs -> {Idle} \cup Calls] /\ proc'[p].blob = b
      /\ proc'[p].step \in {"write", "sync", "rename"}
      /\ proc'[p].step \in {"sync", "rename"} => temp'[b].data = "whole"
      /\ proc'[p].step = "rename" => temp'[b].synced
      /\ \A q \in Procs : q # p => proc'[q] = proc[q]
  BY <1>1, <1>3, Going DEF BSInv, Steps
<1>5. \A q \in Procs : q # p /\ proc[q].step \in {"write", "sync", "rename", "existing"} =>
         proc[q].blob # b /\ proc[q].blob \in Blobs
  BY <1>1, <1>3, Calling DEF BSInv, TempInv, Calls, NoFile
<1>6. BSTypeInv'
  BY <1>2, <1>3, <1>4 DEF BSInv, BSTypeInv
<1>7. TempInv'
  BY <1>3, <1>4, <1>5 DEF BSInv, TempInv
<1>8. TargetInv' /\ DoneInv'
  BY <1>2, <1>4 DEF BSInv, TargetInv, DoneInv, Good, Kept
<1> QED
  BY <1>6, <1>7, <1>8 DEF BSInv

LEMMA PublishInv == ASSUME BSInv, NEW p \in Procs, Publish(p) PROVE BSInv'
<1> DEFINE b == proc[p].blob
<1>1. proc[p] \in Calls /\ b \in Blobs
  BY Calling DEF Publish, At, BSInv, Calls
<1>2. /\ UNCHANGED <<entry, disk, done>> /\ target[b] = NoFile
      /\ target' = [target EXCEPT ![b] = temp[b]] /\ temp' = [temp EXCEPT ![b] = NoFile]
      /\ Goto(p, "commit") /\ proc[p].step = "rename"
  BY DEF Publish, At
<1>3. temp[b].data = "whole" /\ temp[b].synced /\ temp[b].by = p /\ temp[b] \in Files
  BY <1>1, <1>2 DEF BSInv, TempInv, BSTypeInv
<1>4. /\ proc' \in [Procs -> {Idle} \cup Calls] /\ proc'[p].step = "commit"
      /\ \A q \in Procs : q # p => proc'[q] = proc[q]
  BY <1>1, <1>2, Going DEF BSInv, Steps
<1>5. \A q \in Procs : q # p /\ proc[q].step \in {"write", "sync", "rename", "existing"} =>
         proc[q].blob # b /\ proc[q].blob \in Blobs
  BY <1>1, <1>3, Calling DEF BSInv, TempInv, Calls
<1>6. BSTypeInv'
  <2>1. NoFile \in Files
    BY DEF NoFile, Files
  <2> QED
    BY <1>1, <1>2, <1>3, <1>4, <2>1 DEF BSInv, BSTypeInv
<1>7. TempInv'
  BY <1>1, <1>2, <1>4, <1>5 DEF BSInv, TempInv, BSTypeInv
<1>8. TargetInv'
  BY <1>1, <1>2, <1>3 DEF BSInv, TargetInv, Good, BSTypeInv
<1>9. \A c \in Blobs : Kept(c) => Kept(c)'
  BY <1>1, <1>2, <1>3 DEF Kept, NoFile, BSInv, BSTypeInv
<1>10. DoneInv'
  BY <1>2, <1>4, <1>9, Calling DEF BSInv, DoneInv, BSTypeInv, Calls
<1> QED
  BY <1>6, <1>7, <1>8, <1>10 DEF BSInv

(* The directory is synced with the target in it: the outcome is durable. *)
LEMMA DurableInv ==
    ASSUME BSInv, NEW p \in Procs, Commit(p) \/ VerifyExisting(p)
    PROVE  BSInv'
<1> DEFINE b == proc[p].blob
<1>1. proc[p] \in Calls /\ b \in Blobs /\ proc[p].step \in {"commit", "existing"}
  BY Calling DEF Commit, VerifyExisting, At, BSInv, Calls
<1>2. /\ UNCHANGED <<entry, temp, done>> /\ target[b].data = "whole"
      /\ disk' = [temp |-> temp, target |-> target']
      /\ target' = target \/ target' = [target EXCEPT ![b] = Synced(target[b])]
      /\ \E s \in {"close", "cleanup"} : Becomes(p, s, "durable")
  BY DEF Commit, VerifyExisting, ShardSynced, Names, BSInv, BSTypeInv
<1>3. target' = target
  <2>1. target[b].synced
    BY <1>1, <1>2 DEF BSInv, TargetInv, Good, NoFile
  <2> QED
    <3>1. target[b] \in Files /\ target[b].synced = TRUE
      BY <1>1, <2>1 DEF BSInv, BSTypeInv, Files
    <3>2. Synced(target[b]) = target[b]
      BY <3>1 DEF Synced, Files
    <3> QED
      BY <1>1, <1>2, <3>2 DEF BSInv, BSTypeInv
<1>4. /\ proc' \in [Procs -> {Idle} \cup Calls] /\ proc'[p].step \in {"close", "cleanup"}
      /\ proc'[p].blob = b
      /\ \A q \in Procs : q # p => proc'[q] = proc[q]
  BY <1>1, <1>2, Becoming DEF BSInv, Steps
<1>6. BSTypeInv'
  BY <1>2, <1>3, <1>4 DEF BSInv, BSTypeInv
<1>7. TempInv' /\ TargetInv'
  BY <1>2, <1>3, <1>4 DEF BSInv, TempInv, TargetInv, Good
<1>9. \A c \in Blobs : target[c].data = "whole" => Kept(c)'
  BY <1>2, <1>3 DEF Kept
<1>10. DoneInv'
  BY <1>1, <1>2, <1>4, <1>9, Calling DEF BSInv, DoneInv, Kept, BSTypeInv, Calls
<1> QED
  BY <1>6, <1>7, <1>10 DEF BSInv

LEMMA CleanupInv == ASSUME BSInv, NEW p \in Procs, Cleanup(p) PROVE BSInv'
<1> DEFINE b == proc[p].blob
<1>1. proc[p] \in Calls /\ b \in Blobs
  BY Calling DEF Cleanup, At, BSInv, Calls
<1>2. /\ UNCHANGED <<entry, target, done>> /\ temp[b].by = p
      /\ temp' = [temp EXCEPT ![b] = NoFile]
      /\ disk' = [temp |-> temp', target |-> target]
      /\ Becomes(p, "close", proc[p].outcome) /\ proc[p].step = "cleanup"
  BY DEF Cleanup, Names, At
<1>4. /\ proc' \in [Procs -> {Idle} \cup Calls] /\ proc'[p].step = "close"
      /\ proc'[p].blob = b /\ proc'[p].outcome = proc[p].outcome
      /\ \A q \in Procs : q # p => proc'[q] = proc[q]
  BY <1>1, <1>2, Becoming DEF BSInv, Steps, Calls
<1>5. \A q \in Procs : q # p /\ proc[q].step \in {"write", "sync", "rename", "existing"} =>
         proc[q].blob # b /\ proc[q].blob \in Blobs
  BY <1>1, <1>2, Calling DEF BSInv, TempInv, Calls
<1>6. BSTypeInv'
  <2>1. NoFile \in Files
    BY DEF NoFile, Files
  <2> QED
    BY <1>1, <1>2, <1>4, <2>1 DEF BSInv, BSTypeInv
<1>7. TempInv' /\ TargetInv'
  BY <1>1, <1>2, <1>4, <1>5 DEF BSInv, TempInv, TargetInv, Good, BSTypeInv
<1>10. DoneInv'
  BY <1>1, <1>2, <1>4, Calling DEF BSInv, DoneInv, Kept, BSTypeInv, Calls
<1> QED
  BY <1>6, <1>7, <1>10 DEF BSInv


(* After a power loss a file is gone, or partial and on disk, or all there. *)
LEMMA Leftover ==
    ASSUME NEW f \in Files
    PROVE  Remains(f) \in Files /\ (Good(f) => Good(Remains(f)) /\ Remains(f).data = f.data)
<1>1. CASE f = NoFile
  BY <1>1 DEF Remains, Good, NoFile, Files
<1>2. CASE f # NoFile /\ f.synced
  BY <1>2 DEF Remains, Good, Files
<1>3. CASE f # NoFile /\ ~f.synced
  BY <1>3 DEF Remains, Good, Files
<1> QED
  BY <1>1, <1>2, <1>3

LEMMA PowerLossInv ==
    ASSUME BSInv, PowerLoss
    PROVE  BSInv' /\ (ShardsOnDisk => \A b \in done : target'[b].data = "whole")
<1> DEFINE after(whole, now, old, current, b) ==
        IF ~whole THEN NoFile ELSE Remains(IF b \in current THEN now[b] ELSE old[b])
<1>0. PICK kept \in SUBSET {l \in Shards : entry[l] = "made"}, current \in SUBSET Blobs :
        LET stays(l) == entry[l] = "durable" \/ l \in kept
            whole    == \A l \in Shards : stays(l)
        IN /\ entry' = [l \in Shards |-> IF \A k \in 1..l : stays(k) THEN "durable" ELSE "none"]
           /\ temp' = [b \in Blobs |-> after(whole, temp, disk.temp, current, b)]
           /\ target' = [b \in Blobs |-> after(whole, target, disk.target, current, b)]
           /\ disk' = [temp |-> temp', target |-> target']
           /\ done' = (IF whole THEN done ELSE {})
           /\ proc' = [p \in Procs |-> Idle]
  BY DEF PowerLoss
<1> DEFINE whole == \A l \in Shards : entry[l] = "durable" \/ l \in kept
<1>1. /\ entry' \in [Shards -> {"none", "made", "durable"}]
      /\ temp' = [b \in Blobs |-> after(whole, temp, disk.temp, current, b)]
      /\ target' = [b \in Blobs |-> after(whole, target, disk.target, current, b)]
      /\ disk' = [temp |-> temp', target |-> target']
      /\ done' = (IF whole THEN done ELSE {})
      /\ proc' = [p \in Procs |-> Idle]
      /\ ShardsOnDisk => whole
  <2>1. entry' \in [Shards -> {"none", "made", "durable"}]
    BY <1>0
  <2> QED
    BY <1>0, <2>1 DEF ShardsOnDisk
<1> HIDE DEF whole
<1>2. NoFile \in Files /\ Good(NoFile)
  BY DEF NoFile, Files, Good
<1>3. ASSUME NEW b \in Blobs
      PROVE  /\ temp'[b] \in Files /\ target'[b] \in Files /\ Good(target'[b])
             /\ whole /\ Kept(b) => target'[b].data = "whole"
  <2>1. /\ temp[b] \in Files /\ disk.temp[b] \in Files /\ target[b] \in Files /\ disk.target[b] \in Files
        /\ Good(target[b]) /\ Good(disk.target[b])
    BY DEF BSInv, BSTypeInv, TargetInv
  <2> QED
    BY <1>1, <1>2, <2>1, Leftover DEF Kept
<1>4. BSTypeInv'
  BY <1>1, <1>3 DEF BSInv, BSTypeInv
<1>5. TempInv' /\ TargetInv'
  BY <1>1, <1>3 DEF BSInv, TempInv, TargetInv, Idle
<1>6. DoneInv'
  BY <1>1, <1>3 DEF BSInv, DoneInv, Kept, Idle, BSTypeInv
<1>7. ShardsOnDisk => \A b \in done : target'[b].data = "whole"
  BY <1>1, <1>3 DEF BSInv, DoneInv, BSTypeInv
<1> QED
  BY <1>4, <1>5, <1>6, <1>7 DEF BSInv

(* Every other step leaves what is whole. *)
LEMMA FailsInv ==
    ASSUME BSInv, NEW p \in Procs,
           TempIsThere(p) \/ CommitFails(p) \/ CleanupFails(p) \/ CallFails(p) \/ ProcessDies(p)
             \/ ReportBlob(p)
    PROVE  BSInv'
<1>1. Return(p) /\ UNCHANGED fs
  BY DEF TempIsThere, CommitFails, CleanupFails, CallFails, ProcessDies, ReportBlob, Fail
<1>2. done' = done \/ (/\ done' = done \cup {proc[p].blob} /\ proc[p].step = "close"
                       /\ proc[p].outcome = "durable")
  BY DEF TempIsThere, CommitFails, CleanupFails, CallFails, ProcessDies, ReportBlob, Fail, At
<1> QED
  BY <1>1, <1>2, Calling, ReturnInv DEF BSInv

LEMMA BranchInv ==
    ASSUME BSInv, NEW p \in Procs, TempFails(p) \/ TargetIsThere(p) \/ ExistingFails(p)
    PROVE  BSInv'
<1>1. proc[p] \in Calls
  BY Calling DEF TempFails, TargetIsThere, ExistingFails, At, BSInv
<1>2. UNCHANGED <<entry, temp, target, disk, done>>
  BY DEF TempFails, TargetIsThere, ExistingFails, fs
<1>3. CASE TargetIsThere(p)
  BY <1>1, <1>2, <1>3, Going, MoveInv DEF TargetIsThere, At, BSInv, Steps, BSTypeInv
<1>4. CASE TempFails(p) \/ ExistingFails(p)
  <2>1. Becomes(p, "cleanup", "failed")
    BY <1>4 DEF TempFails, ExistingFails
  <2> QED
    BY <1>1, <1>2, <2>1, Becoming, MoveInv DEF BSInv, Steps, BSTypeInv
<1> QED
  BY <1>3, <1>4

LEMMA BSNextInv == BSInv /\ [BSNext]_BSvars => BSInv'
<1> SUFFICES ASSUME BSInv, [BSNext]_BSvars PROVE BSInv'
  OBVIOUS
<1>1. CASE PowerLoss
  BY <1>1, PowerLossInv
<1>2. ASSUME NEW p \in Procs, BSNext, ~PowerLoss,
             (\E b \in Blobs : Begin(p, b)) \/ MakeShard(p) \/ UseShard(p) \/ CommitShard(p)
               \/ CreateTemp(p) \/ TempIsThere(p) \/ WriteTemp(p) \/ SyncTemp(p) \/ TempFails(p)
               \/ Publish(p) \/ TargetIsThere(p) \/ Commit(p) \/ CommitFails(p)
               \/ VerifyExisting(p) \/ ExistingFails(p) \/ Cleanup(p) \/ CleanupFails(p)
               \/ ReportBlob(p) \/ CallFails(p) \/ ProcessDies(p)
      PROVE  BSInv'
  BY <1>2, ShardsInv, TempFileInv, PublishInv, DurableInv, CleanupInv, FailsInv, BranchInv
<1>3. CASE UNCHANGED BSvars
  BY <1>3 DEF BSvars, fs, BSInv, BSTypeInv, TempInv, TargetInv, DoneInv, Kept, Good
<1> QED
  BY <1>1, <1>2, <1>3 DEF BSNext

(* The inductive invariant holds throughout. *)
THEOREM BSInductive == BSSpec => []BSInv
BY BSInitInv, BSNextInv, PTL DEF BSSpec

(* No reader ever meets half a blob under its digest. *)
THEOREM NoHalfBlob == BSSpec => []TargetIsWhole
<1>1. BSInv => TargetIsWhole
  BY DEF BSInv, TargetInv, TargetIsWhole, Good, NoFile
<1> QED
  BY <1>1, BSInductive, PTL

(* A step takes a reported blob away only with the shards above it. *)
LEMMA KeptStays ==
    BSInv /\ BSInv' /\ [BSNext]_BSvars =>
        [\A b \in done : ShardsOnDisk => target'[b].data = "whole"]_BSvars
<1> SUFFICES ASSUME BSInv, BSInv', BSNext, NEW b \in done, ShardsOnDisk
             PROVE  target'[b].data = "whole"
  OBVIOUS
<1>1. CASE PowerLoss
  BY <1>1, PowerLossInv
<1>2. CASE ~PowerLoss
  <2>1. done \subseteq done'
    BY <1>2 DEF BSNext, Begin, MakeShard, UseShard, CommitShard, CreateTemp, TempIsThere, WriteTemp,
       SyncTemp, TempFails, Publish, TargetIsThere, Commit, CommitFails, VerifyExisting,
       ExistingFails, Cleanup, CleanupFails, ReportBlob, CallFails, ProcessDies, Fail
  <2> QED
    BY <2>1 DEF BSInv, DoneInv, Kept
<1> QED
  BY <1>1, <1>2

(* What was reported as persisted survives every death of a process and    *)
(* every power loss that its shards survive.                               *)
THEOREM ReportedSurvives == BSSpec => PersistedSurvives
<1>1. BSSpec => []BSInv
  BY BSInductive
<1> QED
  BY <1>1, KeptStays, PTL DEF BSSpec, PersistedSurvives

=============================================================================
