--------------------------- MODULE RawCollection ---------------------------
(***************************************************************************)
(* Collection of public quotes.  raw_acquisition/public_raw_capture.py     *)
(* fetches one source and commits a capture or a failed attempt to the raw *)
(* ledger.  phase6_2_shadow_intent/continuous_raw_collection_scheduler.py  *)
(* runs bounded cycles of two legs, joined with a ledger of their own by   *)
(* bounded_24h_run_execution_wiring.py.  s1_production_ingestion_adapter.py*)
(* makes one S1 row of the raw ledger, for an operator or, with a stream   *)
(* authorization, for the scheduler after each committed pair.             *)
(***************************************************************************)
EXTENDS Naturals, Sequences, SequencesExt, FiniteSets

CONSTANTS MaxCycles, FailureBudget,   \* of the SchedulerConfig
          Bodies,                     \* response bodies, by their digest
          RatifiedPM, RatifiedHL,     \* the two bodies the projection accepts
          Fetchers,                   \* callers of acquire_public_raw_capture()
          MaxFetches                  \* bound: their calls

ASSUME RawAssumption ==
    /\ MaxCycles \in Nat \ {0} /\ FailureBudget \in Nat /\ MaxFetches \in Nat
    /\ {RatifiedPM, RatifiedHL} \subseteq Bodies

VARIABLES
    mode,      \* the transport is https_transport(); S1 ingestion is authorized
    run,       \* run_bounded_collection(): step, cycle and what it holds
    count,     \* its counters, which become the report
    pending,   \* ExecutionWiring._pending: captures by digest
    ledger,    \* continuous_raw_capture
    captures,  \* raw_capture_log
    attempts,  \* raw_fetch_attempt_log
    fetch,     \* the source each fetcher is waiting for
    fetches,
    ingest,    \* each caller of ingest_paired_s1_projection()
    s1         \* the audit rows

scheduler == <<run, count, pending, ledger>>
rawLedger == <<captures, attempts, fetch, fetches>>
vars == <<mode, scheduler, rawLedger, ingest, s1>>

Legs == <<"HL", "PM">>
Sources == Range(Legs)
Ratified(src) == IF src = "PM" THEN RatifiedPM ELSE RatifiedHL
Callers == {"scheduler", "operator"}
\* The counters of CollectionReport.
EmptyReport == [total |-> 0, pairs |-> 0, lone |-> 0, no |-> 0, written |-> 0, noop |-> 0]
NotIngesting == [step |-> "idle", pm |-> 0, hl |-> 0]

Init ==
    /\ mode \in [https : BOOLEAN, stream : BOOLEAN]
    /\ run = [step |-> "clock", cycle |-> 0, out |-> <<>>, soft |-> 0, why |-> "none"]
    /\ count = EmptyReport
    /\ pending = [b \in Bodies |-> <<>>] /\ ledger = <<>>
    /\ captures = <<>> /\ attempts = <<>>
    /\ fetch = [f \in Fetchers |-> "none"] /\ fetches = 0
    /\ ingest = [k \in Callers |-> NotIngesting] /\ s1 = <<>>

(***************************************************************************)
(* acquire_public_raw_capture()                                            *)
(***************************************************************************)
\* The preflight makes the tables in one transaction or finds them right.
BeginFetch(f, src) ==
    /\ fetch[f] = "none" /\ fetches < MaxFetches
    /\ fetch' = [fetch EXCEPT ![f] = src] /\ fetches' = fetches + 1
    /\ UNCHANGED <<mode, scheduler, captures, attempts, ingest, s1>>

EndFetch(f) == fetch' = [fetch EXCEPT ![f] = "none"] /\ UNCHANGED fetches

\* Mutant: two transactions, the second of which may fail.
CommitCaptureAlone(f, body) ==
    /\ captures' = Append(captures, [src |-> fetch[f], body |-> body])
    /\ UNCHANGED attempts
(* _commit_capture(): the capture and its attempt, in one transaction.  A  *)
(* response of any HTTP status is a capture.                               *)
CommitCapture(f, body) ==
    /\ captures' = Append(captures, [src |-> fetch[f], body |-> body])
    /\ attempts' = Append(attempts, [src |-> fetch[f], capture |-> Len(captures) + 1])

Captured(f, body) ==
    /\ fetch[f] # "none"
    /\ CommitCapture(f, body)
    /\ EndFetch(f)
    /\ UNCHANGED <<mode, scheduler, ingest, s1>>

(* _commit_failure_attempt(): a timeout, a transport or protocol failure,  *)
(* or a response that is too large.                                        *)
FetchFailed(f) ==
    /\ fetch[f] # "none"
    /\ attempts' = Append(attempts, [src |-> fetch[f], capture |-> 0])
    /\ EndFetch(f)
    /\ UNCHANGED <<mode, scheduler, captures, ingest, s1>>

(* The preflight or the commit fails, the task is cancelled, the process   *)
(* dies.                                                                   *)
FetchLost(f) ==
    /\ fetch[f] # "none"
    /\ EndFetch(f)
    /\ UNCHANGED <<mode, scheduler, captures, attempts, ingest, s1>>

(***************************************************************************)
(* run_bounded_collection() and its wiring.                                *)
(***************************************************************************)
At(step) == run.step = step
Raise(why) == run' = [run EXCEPT !.step = "raised", !.why = why]

NextCycle == [run EXCEPT !.step = "clock", !.cycle = @ + 1, !.out = <<>>]

StartCycle ==
    /\ At("clock") /\ run.cycle < MaxCycles
    /\ run' = [run EXCEPT !.step = "capture"]
    /\ count' = [count EXCEPT !.total = @ + 1]
    /\ UNCHANGED <<mode, pending, ledger, rawLedger, ingest, s1>>

\* clock() >= stop_time, or the last cycle is over.
Finish ==
    /\ At("clock")
    /\ run' = [run EXCEPT !.step = "done",
                  !.why = IF run.cycle < MaxCycles THEN "STOP_TIME" ELSE "MAX_CYCLES"]
    /\ UNCHANGED <<mode, count, pending, ledger, rawLedger, ingest, s1>>

(* _capture(): the two legs, one after the other.  urlopen() of            *)
(* https_transport() raises on every status that is not 2xx.               *)
Capture(ok, body) ==
    LET leg == Legs[Len(run.out) + 1] IN
    /\ At("capture") /\ (mode.https => ok)
    /\ pending' = [pending EXCEPT ![body] = Append(@, [leg |-> leg, cycle |-> run.cycle])]
    /\ run' = [run EXCEPT !.out = Append(@, [leg |-> leg, ok |-> ok, body |-> body]),
                          !.step = IF leg = "PM" THEN "append" ELSE "capture"]
    /\ UNCHANGED <<mode, count, ledger, rawLedger, ingest, s1>>

\* Nobody catches what the transport raises.
TransportRaises ==
    /\ At("capture")
    /\ Raise("transport")
    /\ UNCHANGED <<mode, count, pending, ledger, rawLedger, ingest, s1>>

RowsOfCycle == {n \in DOMAIN ledger : ledger[n].cycle = run.cycle}

\* Mutant: the last capture of the digest.
Newest(bucket) == Last(bucket)
Oldest(bucket) == Head(bucket)

(* ledger_append() and record_capture(): the row of the scheduler with the *)
(* bytes and the host of the capture of the same digest, committed alone.  *)
AppendRow(wrote) ==
    LET got    == run.out[Cardinality(RowsOfCycle) + 1]
        bucket == pending[got.body]
        from   == Oldest(bucket)
    IN /\ At("append")
       /\ IF bucket = <<>>
          THEN Raise("missing_body") /\ UNCHANGED <<pending, ledger>>
          ELSE /\ pending' = [pending EXCEPT ![got.body] = Tail(@)]
               /\ IF wrote
                  THEN /\ ledger' = Append(ledger, [cycle |-> run.cycle, leg |-> got.leg, ok |-> got.ok,
                                                    body |-> got.body, from |-> from])
                       /\ run' = [run EXCEPT !.step = IF got.leg = "PM" THEN "evaluate" ELSE "append"]
                  ELSE Raise("ledger") /\ UNCHANGED ledger
       /\ UNCHANGED <<mode, count, rawLedger, ingest, s1>>

BothLegs(out) == \A n \in DOMAIN out : out[n].ok
NoLeg(out) == \A n \in DOMAIN out : ~out[n].ok

CommittedPair ==
    /\ At("evaluate") /\ BothLegs(run.out)
    /\ count' = [count EXCEPT !.pairs = @ + 1]
    /\ run' = IF mode.stream THEN [run EXCEPT !.step = "ingest"] ELSE NextCycle
    /\ UNCHANGED <<mode, pending, ledger, rawLedger, ingest, s1>>

SoftFailure ==
    /\ At("evaluate") /\ ~BothLegs(run.out)
    /\ count' = IF NoLeg(run.out) THEN [count EXCEPT !.no = @ + 1] ELSE [count EXCEPT !.lone = @ + 1]
    /\ run' = IF run.soft + 1 > FailureBudget
              THEN [run EXCEPT !.step = "raised", !.why = "budget", !.soft = @ + 1]
              ELSE [NextCycle EXCEPT !.soft = @ + 1]
    /\ UNCHANGED <<mode, pending, ledger, rawLedger, ingest, s1>>

(* run_bounded_24h_collection(): the commits of a source are counted in    *)
(* the statuses of the run, every other one of which is taken for its own. *)
CommittedAt(parity) == Cardinality({n \in DOMAIN ledger : n % 2 = parity /\ ledger[n].ok})
RunReport ==
    LET failed == count.lone + count.no
    IN [hyperliquid |-> CommittedAt(1), polymarket |-> CommittedAt(0), paired |-> count.pairs,
        failed |-> failed, budget |-> FailureBudget - failed]

(***************************************************************************)
(* ingest_paired_s1_projection()                                           *)
(***************************************************************************)
CapturesOf(src) == {n \in DOMAIN captures : captures[n].src = src}
(* _single_committed_capture(): the only capture of a source, or nothing.  *)
Missing == 0
SingleCapture(src) ==
    IF Cardinality(CapturesOf(src)) = 1 THEN CHOOSE n \in CapturesOf(src) : TRUE ELSE Missing

(* The two sources are read one after the other. *)
ReadPM(k) ==
    /\ ingest[k].step = "idle" /\ (k = "scheduler" => At("ingest"))
    /\ ingest' = [ingest EXCEPT ![k].step = "hl", ![k].pm = SingleCapture("PM")]
    /\ UNCHANGED <<mode, scheduler, rawLedger, s1>>

(* project_paired_s1_evidence(): both are there and are the ratified ones; *)
(* anything else raises, out of the scheduler too.                         *)
Projects(pm, hl) ==
    /\ pm # Missing /\ captures[pm].body = Ratified("PM")
    /\ hl # Missing /\ captures[hl].body = Ratified("HL")

ReadHL(k) ==
    LET hl == SingleCapture("HL") IN
    /\ ingest[k].step = "hl"
    /\ IF Projects(ingest[k].pm, hl)
       THEN ingest' = [ingest EXCEPT ![k].step = "insert", ![k].hl = hl] /\ UNCHANGED run
       ELSE /\ ingest' = [ingest EXCEPT ![k] = NotIngesting]
            /\ IF k = "scheduler" THEN Raise("projection") ELSE UNCHANGED run
    /\ UNCHANGED <<mode, count, pending, ledger, rawLedger, s1>>

Key(pm, hl) == <<captures[pm].body, captures[hl].body>>

\* INSERT OR IGNORE on the UNIQUE idempotency_key.
InsertOrIgnore(row) ==
    IF \E n \in DOMAIN s1 : Key(s1[n].pm, s1[n].hl) = Key(row.pm, row.hl) THEN s1 ELSE Append(s1, row)

InsertRow(k, wrote) ==
    LET row   == [pm |-> ingest[k].pm, hl |-> ingest[k].hl]
        after == InsertOrIgnore(row)
    IN /\ ingest[k].step = "insert"
       /\ ingest' = [ingest EXCEPT ![k] = NotIngesting]
       /\ s1' = IF wrote THEN after ELSE s1
       /\ IF k = "operator" THEN UNCHANGED <<run, count>>
          ELSE IF ~wrote THEN Raise("s1_append") /\ UNCHANGED count
          ELSE /\ run' = NextCycle
               /\ count' = IF after = s1 THEN [count EXCEPT !.noop = @ + 1]
                           ELSE [count EXCEPT !.written = @ + 1]
       /\ UNCHANGED <<mode, pending, ledger, rawLedger>>

(* The process of the scheduler dies. *)
Over == run.step \in {"done", "raised"}
Die ==
    /\ ~Over
    /\ Raise("died")
    /\ ingest' = [ingest EXCEPT !["scheduler"] = NotIngesting]
    /\ UNCHANGED <<mode, count, pending, ledger, rawLedger, s1>>

Step ==
    \/ StartCycle \/ Finish \/ CommittedPair \/ SoftFailure \/ TransportRaises
    \/ \E ok \in BOOLEAN, body \in Bodies : Capture(ok, body)
    \/ \E wrote \in BOOLEAN : AppendRow(wrote)
    \/ ReadPM("scheduler") \/ ReadHL("scheduler")
    \/ \E wrote \in BOOLEAN : InsertRow("scheduler", wrote)

Operator ==
    \/ ReadPM("operator") \/ ReadHL("operator")
    \/ \E wrote \in BOOLEAN : InsertRow("operator", wrote)

Fetch ==
    \E f \in Fetchers :
        \/ \E src \in Sources : BeginFetch(f, src)
        \/ \E body \in Bodies : Captured(f, body)
        \/ FetchFailed(f) \/ FetchLost(f)

Next == Step \/ Die \/ Operator \/ Fetch

Spec == Init /\ [][Next]_vars

(***************************************************************************)
(* Properties.                                                             *)
(***************************************************************************)
(* The ledger is a sequence of whole cycles, but for half a cycle at which *)
(* a run was cut off; each row has the bytes and the host that its leg got *)
(* in its cycle, also when bodies repeat, and no row looks for bytes in    *)
(* vain; and a report adds up to the ledger.                               *)
Whole(n) == {m \in DOMAIN ledger : ledger[m].cycle = n /\ ledger[m].ok}
ReportMatchesLedger ==
    /\ \A n \in DOMAIN ledger :
          /\ ledger[n].cycle = (n - 1) \div 2 /\ ledger[n].leg = Legs[((n - 1) % 2) + 1]
          /\ ledger[n].from = [leg |-> ledger[n].leg, cycle |-> ledger[n].cycle]
    /\ run.why # "missing_body"
    /\ At("done") =>
          LET having(m) == Cardinality({n \in 0..(count.total - 1) : Cardinality(Whole(n)) = m}) IN
          /\ Len(ledger) = 2 * count.total
          /\ count.pairs = having(2) /\ count.lone = having(1) /\ count.no = having(0)
          /\ mode.stream => count.pairs = count.written + count.noop
          /\ RunReport.hyperliquid = Cardinality({n \in DOMAIN ledger : ledger[n].leg = "HL" /\ ledger[n].ok})
          /\ RunReport.hyperliquid + RunReport.polymarket = 2 * RunReport.paired + count.lone
          /\ RunReport.paired + RunReport.failed = count.total /\ RunReport.budget >= 0

(* A capture is in the raw ledger with exactly one committed attempt of    *)
(* its source, and no attempt has a capture that is not there; there is    *)
(* one S1 row at most, of two ratified captures of the ledger.             *)
EvidenceIsWhole ==
    /\ \A n \in DOMAIN captures :
          Cardinality({a \in DOMAIN attempts : attempts[a] = [src |-> captures[n].src, capture |-> n]}) = 1
    /\ \A a \in DOMAIN attempts : attempts[a].capture \in {0} \cup DOMAIN captures
    /\ Len(s1) <= 1
    /\ \A n \in DOMAIN s1 : Projects(s1[n].pm, s1[n].hl)

(* Violated.  A transport failure is soft: the run goes on until the       *)
(* failure budget is used up.                                              *)
SoftFailuresAreSurvived == run.why = "transport" => run.soft > FailureBudget
=============================================================================
