--------------------------- MODULE Evidence_proofs ---------------------------
(***************************************************************************)
(* Proofs about the evidence of phase 6: RawCollection, for any bodies,    *)
(* fetchers and bounds, and PassiveShadow, for any stream, manifest, times *)
(* and numbers of runs.                                                    *)
(*                                                                         *)
(* 1. The raw ledger (`IInv`).  Capture and attempt are one transaction    *)
(* and both tables only grow (`AttemptInv`), so what an ingestion has read *)
(* stays what it was while another one goes on (`IngestInv`); every row it *)
(* may insert has the one key that the ratified bodies give (`RowInv`).    *)
(*                                                                         *)
(* 2. The scheduler (`SchedulerInv`).  The step and the cycle say how long *)
(* the ledger is (`CycleInv`), what is pending is exactly the captures of  *)
(* the cycle that have no row yet (`PendingInv`), so that a row never gets *)
(* another capture's bytes, and the counters are the sizes of sets of      *)
(* whole cycles (`CountInv`).                                              *)
(*                                                                         *)
(* 3. Texts of numbers.  Text[n] has the digits of n (`TextDigits`), so    *)
(* comparing and adding texts is comparing and adding numbers (`TextOrder`,*)
(* `AddTextAdds`).                                                         *)
(*                                                                         *)
(* 4. The audit log (`AuditInv`).  Each row is what its line becomes, and  *)
(* a run's rows are in the order of the stream.                            *)
(*                                                                         *)
(* 5. The replay (`ReplayInv`).  What is replayed and what was published   *)
(* is a prefix of the log with the slots that the charter gives it         *)
(* (`Reference`); of a longer prefix the charter says the same or more     *)
(* (`LongerAdvances`).                                                     *)
(***************************************************************************)
EXTENDS RawCollection, PassiveShadow, SequenceTheorems, FiniteSetTheorems, WellFoundedInduction, TLAPS

(***************************************************************************)
(* The raw ledger and S1.                                                  *)
(***************************************************************************)
Captures == [src : Sources, body : Bodies]
Attempts == [src : Sources, capture : Nat]
Reading  == [step : {"idle", "hl", "insert"}, pm : Nat, hl : Nat]
Rows     == [pm : Nat, hl : Nat]

TypeInv ==
    /\ captures \in Seq(Captures) /\ attempts \in Seq(Attempts)
    /\ fetch \in [Fetchers -> Sources \cup {"none"}]
    /\ ingest \in [Callers -> Reading]
    /\ s1 \in Seq(Rows)

AttemptInv ==
    /\ \A n \in DOMAIN captures :
          \E a \in DOMAIN attempts : attempts[a] = [src |-> captures[n].src, capture |-> n]
    /\ \A a \in DOMAIN attempts : attempts[a].capture \in {0} \cup DOMAIN captures
    /\ \A a, b \in DOMAIN attempts :
          attempts[a].capture = attempts[b].capture /\ attempts[a].capture # 0 => a = b

Ready(pm, hl) == {pm, hl} \subseteq DOMAIN captures /\ Projects(pm, hl)

IngestInv ==
    \A k \in Callers :
        /\ ingest[k].step = "hl" => ingest[k].pm \in {Missing} \cup DOMAIN captures
        /\ ingest[k].step = "insert" => Ready(ingest[k].pm, ingest[k].hl)

RowInv == Len(s1) <= 1 /\ \A n \in DOMAIN s1 : Ready(s1[n].pm, s1[n].hl)

IInv == TypeInv /\ AttemptInv /\ IngestInv /\ RowInv

evidence == <<captures, attempts, fetch, ingest, s1>>

LEMMA InitIInv == Init => IInv
BY DEF Init, EmptyReport, IInv, TypeInv, AttemptInv, IngestInv, RowInv, Captures, Attempts, Reading, Rows,
   NotIngesting

(* The scheduler's own tables are not looked at. *)
LEMMA QuietInv == ASSUME IInv, UNCHANGED evidence PROVE IInv'
BY DEF IInv, TypeInv, AttemptInv, IngestInv, RowInv, Ready, Projects, evidence

(* What is committed of a capture is whole and stays. *)
LEMMA Growing ==
    ASSUME IInv, captures' \in Seq(Captures), DOMAIN captures \subseteq DOMAIN captures',
           \A n \in DOMAIN captures : captures'[n] = captures[n],
           UNCHANGED <<ingest, s1>>
    PROVE  IngestInv' /\ RowInv'
BY DEF IInv, IngestInv, RowInv, Ready, Projects

LEMMA CapturedInv ==
    ASSUME IInv, NEW f \in Fetchers, NEW body \in Bodies, Captured(f, body) PROVE IInv'
<1> DEFINE src == fetch[f]
           n   == Len(captures) + 1
           m   == Len(attempts) + 1
<1>1. /\ src \in Sources /\ UNCHANGED <<ingest, s1>>
      /\ captures' = Append(captures, [src |-> src, body |-> body])
      /\ attempts' = Append(attempts, [src |-> src, capture |-> n])
      /\ fetch' \in [Fetchers -> Sources \cup {"none"}]
  BY DEF Captured, CommitCapture, EndFetch, IInv, TypeInv
<1>2. /\ captures' \in Seq(Captures) /\ n \in Nat /\ n # 0
      /\ DOMAIN captures = 1..Len(captures) /\ DOMAIN captures' = 1..n
      /\ n \notin DOMAIN captures
      /\ DOMAIN captures' = DOMAIN captures \cup {n}
      /\ captures'[n].src = src /\ \A i \in DOMAIN captures : captures'[i] = captures[i]
  BY <1>1 DEF IInv, TypeInv, Captures
<1>3. /\ attempts' \in Seq(Attempts)
      /\ m \notin DOMAIN attempts /\ DOMAIN attempts' = DOMAIN attempts \cup {m}
      /\ attempts'[m] = [src |-> src, capture |-> n]
      /\ \A a \in DOMAIN attempts : attempts'[a] = attempts[a]
  BY <1>1, <1>2 DEF IInv, TypeInv, Attempts
<1> HIDE DEF src, n, m
<1>4. TypeInv'
  BY <1>1, <1>2, <1>3 DEF IInv, TypeInv
<1>5. AttemptInv'
  <2>1. \A a \in DOMAIN attempts : attempts[a].capture # n
    BY <1>2 DEF IInv, AttemptInv
  <2>2. ASSUME NEW i \in DOMAIN captures'
        PROVE  \E a \in DOMAIN attempts' : attempts'[a] = [src |-> captures'[i].src, capture |-> i]
    <3>1. CASE i = n
      BY <1>2, <1>3, <3>1
    <3>2. CASE i \in DOMAIN captures
      BY <1>2, <1>3, <3>2 DEF IInv, AttemptInv
    <3> QED
      BY <1>2, <3>1, <3>2
  <2>3. \A a \in DOMAIN attempts' : attempts'[a].capture \in {0} \cup DOMAIN captures'
    BY <1>2, <1>3 DEF IInv, AttemptInv
  <2>4. \A a, b \in DOMAIN attempts' :
          attempts'[a].capture = attempts'[b].capture /\ attempts'[a].capture # 0 => a = b
    BY <1>3, <2>1 DEF IInv, AttemptInv
  <2> QED
    BY <2>2, <2>3, <2>4 DEF AttemptInv
<1>6. IngestInv' /\ RowInv'
  BY <1>1, <1>2, Growing
<1> QED
  BY <1>4, <1>5, <1>6 DEF IInv

LEMMA FetchInv ==
    ASSUME IInv, NEW f \in Fetchers,
           (\E src \in Sources : BeginFetch(f, src)) \/ FetchFailed(f) \/ FetchLost(f)
    PROVE  IInv'
<1>1. CASE UNCHANGED attempts
  <2>1. /\ UNCHANGED <<captures, ingest, s1>>
        /\ fetch' \in [Fetchers -> Sources \cup {"none"}]
    BY <1>1 DEF BeginFetch, FetchFailed, FetchLost, EndFetch, IInv, TypeInv
  <2> QED
    BY <1>1, <2>1 DEF IInv, TypeInv, AttemptInv, IngestInv, RowInv, Ready, Projects
<1>2. CASE ~UNCHANGED attempts
  <2>1. /\ UNCHANGED <<captures, ingest, s1>> /\ fetch[f] \in Sources
        /\ attempts' = Append(attempts, [src |-> fetch[f], capture |-> 0])
        /\ fetch' \in [Fetchers -> Sources \cup {"none"}]
    BY <1>2 DEF BeginFetch, FetchFailed, FetchLost, EndFetch, IInv, TypeInv
  <2>2. /\ attempts' \in Seq(Attempts)
        /\ DOMAIN attempts' = DOMAIN attempts \cup {Len(attempts) + 1}
        /\ attempts'[Len(attempts) + 1].capture = 0
        /\ \A a \in DOMAIN attempts : attempts'[a] = attempts[a]
    BY <2>1 DEF IInv, TypeInv, Attempts
  <2>3. TypeInv' /\ AttemptInv'
    BY <2>1, <2>2 DEF IInv, TypeInv, AttemptInv
  <2>4. IngestInv' /\ RowInv'
    BY <2>1, Growing DEF IInv, TypeInv
  <2> QED
    BY <2>3, <2>4 DEF IInv
<1> QED
  BY <1>1, <1>2

(* The only capture of a source is one of the ledger. *)
LEMMA OnlyCapture ==
    ASSUME TypeInv, NEW src
    PROVE  SingleCapture(src) \in {Missing} \cup DOMAIN captures /\ SingleCapture(src) \in Nat
<1>1. CASE Cardinality(CapturesOf(src)) = 1
  <2>1. CapturesOf(src) # {}
    BY <1>1, FS_EmptySet
  <2>2. SingleCapture(src) \in CapturesOf(src)
    BY <1>1, <2>1 DEF SingleCapture
  <2> QED
    BY <2>2 DEF CapturesOf, TypeInv
<1>2. CASE Cardinality(CapturesOf(src)) # 1
  BY <1>2 DEF SingleCapture, Missing
<1> QED
  BY <1>1, <1>2

LEMMA ReadInv == ASSUME IInv, NEW k \in Callers, ReadPM(k) \/ ReadHL(k) PROVE IInv'
<1>1. UNCHANGED <<captures, attempts, fetch, s1>>
  BY DEF ReadPM, ReadHL, rawLedger
<1>2. AttemptInv' /\ RowInv'
  BY <1>1 DEF IInv, AttemptInv, RowInv, Ready, Projects
<1>3. CASE ReadPM(k)
  <2>1. /\ ingest' \in [Callers -> Reading]
        /\ ingest'[k].step = "hl" /\ ingest'[k].pm = SingleCapture("PM")
        /\ \A j \in Callers : j # k => ingest'[j] = ingest[j]
    <3>1. ingest' = [ingest EXCEPT ![k] = [[ingest[k] EXCEPT !.step = "hl"]
                                              EXCEPT !.pm = SingleCapture("PM")]]
      BY <1>3 DEF ReadPM, IInv, TypeInv
    <3> QED
      BY <3>1, OnlyCapture DEF IInv, TypeInv, Reading
  <2> QED
    BY <1>1, <1>2, <2>1, OnlyCapture DEF IInv, TypeInv, IngestInv, Ready, Projects
<1>4. CASE ReadHL(k)
  <2>1. CASE Projects(ingest[k].pm, SingleCapture("HL"))
    <3>1. ingest' = [ingest EXCEPT ![k] = [[ingest[k] EXCEPT !.step = "insert"]
                                              EXCEPT !.hl = SingleCapture("HL")]]
      BY <1>4, <2>1 DEF ReadHL, IInv, TypeInv
    <3>2. /\ ingest' \in [Callers -> Reading] /\ ingest'[k].step = "insert"
          /\ ingest'[k].hl = SingleCapture("HL") /\ ingest'[k].pm = ingest[k].pm
          /\ \A j \in Callers : j # k => ingest'[j] = ingest[j]
      BY <3>1, OnlyCapture DEF IInv, TypeInv, Reading
    <3>3. Ready(ingest[k].pm, SingleCapture("HL"))
      BY <1>4, <2>1, OnlyCapture DEF ReadHL, Ready, Projects, IInv, IngestInv
    <3> QED
      BY <1>1, <1>2, <3>2, <3>3 DEF IInv, TypeInv, IngestInv, Ready, Projects
  <2>2. CASE ~Projects(ingest[k].pm, SingleCapture("HL"))
    <3>1. ingest' = [ingest EXCEPT ![k] = NotIngesting]
      BY <1>4, <2>2 DEF ReadHL
    <3> QED
      BY <1>1, <1>2, <3>1 DEF IInv, TypeInv, IngestInv, Ready, Projects, Reading, NotIngesting
  <2> QED
    BY <2>1, <2>2
<1> QED
  BY <1>3, <1>4

(* Two callers that have both read insert one row: their keys are equal. *)
LEMMA InsertInv ==
    ASSUME IInv, NEW k \in Callers, NEW wrote \in BOOLEAN, InsertRow(k, wrote) PROVE IInv'
<1> DEFINE r == [pm |-> ingest[k].pm, hl |-> ingest[k].hl]
<1>1. /\ UNCHANGED <<captures, attempts, fetch>> /\ ingest[k].step = "insert"
      /\ ingest' = [ingest EXCEPT ![k] = NotIngesting]
      /\ s1' = s1 \/ s1' = InsertOrIgnore(r)
  BY DEF InsertRow, rawLedger
<1>2. Ready(r.pm, r.hl) /\ r \in Rows
  BY <1>1 DEF IInv, TypeInv, IngestInv, Reading, Rows
<1>3. \A n \in DOMAIN s1 : Key(s1[n].pm, s1[n].hl) = Key(r.pm, r.hl)
  BY <1>2 DEF IInv, RowInv, Ready, Projects, Key
<1>4. s1' = s1 \/ (s1 = <<>> /\ s1' = Append(s1, r))
  <2>1. CASE s1 = <<>>
    BY <1>1, <2>1 DEF InsertOrIgnore
  <2>2. CASE s1 # <<>>
    <3>1. 1 \in DOMAIN s1
      BY <2>2 DEF IInv, TypeInv
    <3>2. \E n \in DOMAIN s1 : Key(s1[n].pm, s1[n].hl) = Key(r.pm, r.hl)
      BY <1>3, <3>1
    <3>3. InsertOrIgnore(r) = s1
      BY <3>2 DEF InsertOrIgnore
    <3> QED
      BY <1>1, <3>3
  <2> QED
    BY <2>1, <2>2
<1>5. /\ s1' \in Seq(Rows) /\ Len(s1') <= 1
      /\ \A n \in DOMAIN s1' : s1' = s1 \/ s1'[n] = r
  BY <1>2, <1>4 DEF IInv, TypeInv, RowInv
<1>6. TypeInv' /\ AttemptInv' /\ IngestInv'
  BY <1>1, <1>5 DEF IInv, TypeInv, AttemptInv, IngestInv, Ready, Projects, Reading, NotIngesting
<1>7. RowInv'
  BY <1>1, <1>2, <1>5 DEF IInv, RowInv, Ready, Projects
<1> QED
  BY <1>6, <1>7 DEF IInv

LEMMA DieInv == ASSUME IInv, Die PROVE IInv'
<1>1. /\ UNCHANGED <<captures, attempts, fetch, s1>>
      /\ ingest' = [ingest EXCEPT !["scheduler"] = NotIngesting]
  BY DEF Die, rawLedger
<1> QED
  BY <1>1 DEF IInv, TypeInv, AttemptInv, IngestInv, RowInv, Ready, Projects, Reading, NotIngesting

LEMMA NextIInv == IInv /\ [Next]_vars => IInv'
<1> SUFFICES ASSUME IInv, [Next]_vars PROVE IInv'
  OBVIOUS
<1>1. CASE Step
  <2>1. \/ UNCHANGED evidence
        \/ ReadPM("scheduler") \/ ReadHL("scheduler")
        \/ \E wrote \in BOOLEAN : InsertRow("scheduler", wrote)
    BY <1>1 DEF Step, StartCycle, Finish, CommittedPair, SoftFailure, TransportRaises, Capture,
       AppendRow, evidence, rawLedger
  <2> QED
    BY <2>1, QuietInv, ReadInv, InsertInv DEF Callers
<1>2. CASE Operator
  BY <1>2, ReadInv, InsertInv DEF Operator, Callers
<1>3. CASE Fetch
  BY <1>3, CapturedInv, FetchInv DEF Fetch
<1>4. CASE UNCHANGED vars
  BY <1>4, QuietInv DEF vars, evidence, rawLedger
<1> QED
  BY <1>1, <1>2, <1>3, <1>4, DieInv DEF Next

(* The inductive invariant holds throughout. *)
THEOREM Inductive == Spec => []IInv
BY InitIInv, NextIInv, PTL DEF Spec

(* Every capture has exactly one attempt, no attempt has a capture that is *)
(* not there, and there is one S1 row at most, of ratified captures.       *)
THEOREM EvidenceStaysWhole == Spec => []EvidenceIsWhole
<1>1. ASSUME IInv, NEW n \in DOMAIN captures
      PROVE  Cardinality({a \in DOMAIN attempts :
                            attempts[a] = [src |-> captures[n].src, capture |-> n]}) = 1
  <2> DEFINE A == {a \in DOMAIN attempts : attempts[a] = [src |-> captures[n].src, capture |-> n]}
  <2>1. PICK a \in A : TRUE
    BY <1>1 DEF IInv, AttemptInv
  <2>2. n # 0
    BY <1>1 DEF IInv, TypeInv
  <2>3. A = {a}
    BY <1>1, <2>1, <2>2 DEF IInv, AttemptInv
  <2> QED
    BY <2>3, FS_Singleton
<1>2. IInv => EvidenceIsWhole
  BY <1>1 DEF IInv, AttemptInv, RowInv, Ready, EvidenceIsWhole
<1> QED
  BY <1>2, Inductive, PTL

(***************************************************************************)
(* The ledger of the scheduler and its report.                             *)
(***************************************************************************)
Steps == {"clock", "capture", "append", "evaluate", "ingest", "done", "raised"}
Whys == {"none", "STOP_TIME", "MAX_CYCLES", "transport", "ledger", "budget", "projection", "s1_append", "died"}
Marks == [leg : {"HL", "PM"}, cycle : Nat]
Results == [leg : {"HL", "PM"}, ok : BOOLEAN, body : Bodies]
LedgerRows == [cycle : Nat, leg : {"HL", "PM"}, ok : BOOLEAN, body : Bodies, from : Marks]

SchedulerTyped ==
    /\ mode \in [https : BOOLEAN, stream : BOOLEAN]
    /\ run \in [step : Steps, cycle : Nat, out : Seq(Results), soft : Nat, why : Whys]
    /\ count \in [total : Nat, pairs : Nat, lone : Nat, no : Nat, written : Nat, noop : Nat]
    /\ pending \in [Bodies -> Seq(Marks)] /\ ledger \in Seq(LedgerRows)

\* The rows of the n-th cycle are at 2n + 1 and 2n + 2.
RowsInOrder ==
    \A n \in 1..Len(ledger) :
        /\ ledger[n].cycle = (n - 1) \div 2
        /\ ledger[n].leg = IF n % 2 = 1 THEN "HL" ELSE "PM"
        /\ ledger[n].from = [leg |-> ledger[n].leg, cycle |-> ledger[n].cycle]

Running == ~Over
\* Rows of the cycle that are in the ledger.
Appended == Len(ledger) - 2 * run.cycle

CycleInv ==
    /\ At("clock") \/ At("done") => run.out = <<>> /\ Appended = 0
    /\ At("capture") => Len(run.out) \in {0, 1} /\ Appended = 0
    /\ At("append") => Len(run.out) = 2 /\ Appended \in {0, 1}
    /\ At("evaluate") \/ At("ingest") => Len(run.out) = 2 /\ Appended = 2
    /\ Running =>
        /\ \A n \in 1..Len(run.out) : run.out[n].leg = Legs[n]
        /\ \A n \in 1..Len(run.out) : n <= Appended => ledger[2 * run.cycle + n].ok = run.out[n].ok
    /\ ingest["scheduler"].step # "idle" => At("ingest")

\* The captures that wait for their row, by digest and oldest first.
Mark(n) == [leg |-> Legs[n], cycle |-> run.cycle]
Waits(n, b) == n \in 1..Len(run.out) /\ n > Appended /\ run.out[n].body = b
PendingInv ==
    Running => \A b \in Bodies :
        pending[b] = IF Waits(1, b) THEN IF Waits(2, b) THEN <<Mark(1), Mark(2)>> ELSE <<Mark(1)>>
                                    ELSE IF Waits(2, b) THEN <<Mark(2)>> ELSE <<>>

\* What the first d cycles of the ledger say, and counters that agree.
OkAt(rows, n) == rows[n].ok
Pairs(rows, d) == {n \in 0..(d - 1) : OkAt(rows, 2 * n + 1) /\ OkAt(rows, 2 * n + 2)}
Lone(rows, d)  == {n \in 0..(d - 1) : OkAt(rows, 2 * n + 1) # OkAt(rows, 2 * n + 2)}
None(rows, d)  == {n \in 0..(d - 1) : ~OkAt(rows, 2 * n + 1) /\ ~OkAt(rows, 2 * n + 2)}
OkRows(rows, d, parity) == {n \in 1..(2 * d) : n % 2 = parity /\ OkAt(rows, n)}
Tallied(rows, d, pairs, lone, no) ==
    /\ Cardinality(Pairs(rows, d)) = pairs /\ Cardinality(Lone(rows, d)) = lone
    /\ Cardinality(None(rows, d)) = no /\ pairs + lone + no = d
    /\ Cardinality(OkRows(rows, d, 0)) + Cardinality(OkRows(rows, d, 1)) = 2 * pairs + lone
Counted == run.cycle + (IF At("ingest") THEN 1 ELSE 0)
CountInv ==
    run.step # "raised" =>
        /\ Tallied(ledger, Counted, count.pairs, count.lone, count.no)
        /\ count.total = run.cycle + (IF At("clock") \/ At("done") THEN 0 ELSE 1)
        /\ count.lone + count.no = run.soft /\ run.soft <= FailureBudget
        /\ mode.stream => count.written + count.noop + (IF At("ingest") THEN 1 ELSE 0) = count.pairs
        /\ At("ingest") => mode.stream

SchedulerInv == SchedulerTyped /\ RowsInOrder /\ CycleInv /\ PendingInv /\ CountInv

LEMMA Numbers ==
    ASSUME NEW c \in Nat
    PROVE  /\ ((2 * c + 1) - 1) \div 2 = c /\ ((2 * c + 2) - 1) \div 2 = c
           /\ (2 * c + 1) % 2 = 1 /\ (2 * c + 2) % 2 = 0
OBVIOUS

LEMMA LegsAre == Legs[1] = "HL" /\ Legs[2] = "PM" /\ Sources = {"HL", "PM"} /\ DOMAIN Legs = {1, 2}
<1>1. DOMAIN Legs = {1, 2} /\ Legs[1] = "HL" /\ Legs[2] = "PM"
  BY DEF Legs
<1> QED
  BY <1>1 DEF Sources, Range

LEMMA TallyFinite ==
    ASSUME NEW rows, NEW d \in Nat
    PROVE  /\ IsFiniteSet(Pairs(rows, d)) /\ IsFiniteSet(Lone(rows, d)) /\ IsFiniteSet(None(rows, d))
           /\ \A parity : IsFiniteSet(OkRows(rows, d, parity))
<1>1. IsFiniteSet(0..(d - 1)) /\ IsFiniteSet(1..(2 * d))
  BY FS_Interval
<1>2. /\ Pairs(rows, d) \subseteq 0..(d - 1) /\ Lone(rows, d) \subseteq 0..(d - 1)
      /\ None(rows, d) \subseteq 0..(d - 1) /\ \A parity : OkRows(rows, d, parity) \subseteq 1..(2 * d)
  BY DEF Pairs, Lone, None, OkRows
<1> QED
  BY <1>1, <1>2, FS_Subset

\* One more element, or not.
LEMMA OneMore ==
    ASSUME NEW S, NEW T, NEW x, NEW p \in BOOLEAN, IsFiniteSet(S), x \notin S,
           T = S \cup (IF p THEN {x} ELSE {})
    PROVE  /\ Cardinality(S) \in Nat
           /\ Cardinality(T) = Cardinality(S) + (IF p THEN 1 ELSE 0)
<1>1. Cardinality(S) \in Nat /\ Cardinality(S \cup {x}) = Cardinality(S) + 1
  BY FS_AddElement, FS_CardinalityType
<1>2. CASE p
  BY <1>1, <1>2
<1>3. CASE ~p
  <2>1. T = S
    BY <1>3
  <2> QED
    BY <1>1, <1>3, <2>1
<1> QED
  BY <1>2, <1>3

\* A whole cycle counts as a pair, as a lone leg or as none.
LEMMA TallyStep ==
    ASSUME NEW rows, NEW d \in Nat, NEW pairs \in Nat, NEW lone \in Nat, NEW no \in Nat,
           Tallied(rows, d, pairs, lone, no),
           OkAt(rows, 2 * d + 1) \in BOOLEAN, OkAt(rows, 2 * d + 2) \in BOOLEAN
    PROVE  LET one == OkAt(rows, 2 * d + 1)
               two == OkAt(rows, 2 * d + 2)
           IN /\ one /\ two => Tallied(rows, d + 1, pairs + 1, lone, no)
              /\ one # two => Tallied(rows, d + 1, pairs, lone + 1, no)
              /\ ~one /\ ~two => Tallied(rows, d + 1, pairs, lone, no + 1)
<1> DEFINE one == OkAt(rows, 2 * d + 1)
           two == OkAt(rows, 2 * d + 2)
<1>1. 0..((d + 1) - 1) = (0..(d - 1)) \cup {d} /\ d \notin 0..(d - 1)
  OBVIOUS
<1>2. /\ 1..(2 * (d + 1)) = (1..(2 * d)) \cup {2 * d + 1, 2 * d + 2}
      /\ 2 * d + 1 \notin 1..(2 * d) /\ 2 * d + 2 \notin 1..(2 * d)
      /\ (2 * d + 1) % 2 = 1 /\ (2 * d + 2) % 2 = 0
  OBVIOUS
<1>3. /\ Pairs(rows, d + 1) = Pairs(rows, d) \cup (IF one /\ two THEN {d} ELSE {})
      /\ Lone(rows, d + 1) = Lone(rows, d) \cup (IF one # two THEN {d} ELSE {})
      /\ None(rows, d + 1) = None(rows, d) \cup (IF ~one /\ ~two THEN {d} ELSE {})
      /\ d \notin Pairs(rows, d) /\ d \notin Lone(rows, d) /\ d \notin None(rows, d)
  BY <1>1 DEF Pairs, Lone, None
<1>4. /\ OkRows(rows, d + 1, 1) = OkRows(rows, d, 1) \cup (IF one THEN {2 * d + 1} ELSE {})
      /\ OkRows(rows, d + 1, 0) = OkRows(rows, d, 0) \cup (IF two THEN {2 * d + 2} ELSE {})
      /\ 2 * d + 1 \notin OkRows(rows, d, 1) /\ 2 * d + 2 \notin OkRows(rows, d, 0)
  BY <1>2 DEF OkRows
<1> HIDE DEF one, two
<1>5. one \in BOOLEAN /\ two \in BOOLEAN
  BY DEF one, two
<1>6. Cardinality(Pairs(rows, d + 1)) = pairs + (IF one /\ two THEN 1 ELSE 0)
  BY <1>3, <1>5, TallyFinite, OneMore DEF Tallied
<1>7. Cardinality(Lone(rows, d + 1)) = lone + (IF one # two THEN 1 ELSE 0)
  BY <1>3, <1>5, TallyFinite, OneMore DEF Tallied
<1>8. Cardinality(None(rows, d + 1)) = no + (IF ~one /\ ~two THEN 1 ELSE 0)
  BY <1>3, <1>5, TallyFinite, OneMore DEF Tallied
<1>9. /\ Cardinality(OkRows(rows, d + 1, 1)) = Cardinality(OkRows(rows, d, 1)) + (IF one THEN 1 ELSE 0)
      /\ Cardinality(OkRows(rows, d, 1)) \in Nat
  BY <1>4, <1>5, TallyFinite, OneMore
<1>10. /\ Cardinality(OkRows(rows, d + 1, 0)) = Cardinality(OkRows(rows, d, 0)) + (IF two THEN 1 ELSE 0)
       /\ Cardinality(OkRows(rows, d, 0)) \in Nat
  BY <1>4, <1>5, TallyFinite, OneMore
<1>11. /\ pairs + lone + no = d
       /\ Cardinality(OkRows(rows, d, 0)) + Cardinality(OkRows(rows, d, 1)) = 2 * pairs + lone
  BY DEF Tallied
<1>12. CASE one /\ two
  BY <1>6, <1>7, <1>8, <1>9, <1>10, <1>11, <1>12 DEF Tallied, one, two
<1>13. CASE one # two
  <2>1. (one /\ ~two) \/ (~one /\ two)
    BY <1>5, <1>13
  <2>2. Cardinality(OkRows(rows, d + 1, 0)) + Cardinality(OkRows(rows, d + 1, 1)) = 2 * pairs + (lone + 1)
    BY <1>9, <1>10, <1>11, <2>1
  <2>3. /\ Cardinality(Pairs(rows, d + 1)) = pairs /\ Cardinality(Lone(rows, d + 1)) = lone + 1
        /\ Cardinality(None(rows, d + 1)) = no /\ pairs + (lone + 1) + no = d + 1
    BY <1>6, <1>7, <1>8, <1>11, <1>13, <2>1
  <2> QED
    BY <2>1, <2>2, <2>3 DEF Tallied, one, two
<1>14. CASE ~one /\ ~two
  BY <1>6, <1>7, <1>8, <1>9, <1>10, <1>11, <1>14 DEF Tallied, one, two
<1> QED
  BY <1>5, <1>12, <1>13, <1>14 DEF one, two

LEMMA TallyAgrees ==
    ASSUME NEW rows, NEW other, NEW d \in Nat, NEW pairs, NEW lone, NEW no,
           Tallied(rows, d, pairs, lone, no), \A n \in 1..(2 * d) : other[n] = rows[n]
    PROVE  Tallied(other, d, pairs, lone, no)
<1>1. \A n \in 1..(2 * d) : OkAt(other, n) = OkAt(rows, n)
  BY DEF OkAt
<1>2. \A n \in 0..(d - 1) : 2 * n + 1 \in 1..(2 * d) /\ 2 * n + 2 \in 1..(2 * d)
  OBVIOUS
<1>3. Pairs(other, d) = Pairs(rows, d) /\ Lone(other, d) = Lone(rows, d) /\ None(other, d) = None(rows, d)
  BY <1>1, <1>2 DEF Pairs, Lone, None
<1>4. \A parity : OkRows(other, d, parity) = OkRows(rows, d, parity)
  BY <1>1 DEF OkRows
<1> QED
  BY <1>3, <1>4 DEF Tallied

LEMMA TallyZero == ASSUME NEW rows PROVE Tallied(rows, 0, 0, 0, 0)
<1>1. /\ Pairs(rows, 0) = {} /\ Lone(rows, 0) = {} /\ None(rows, 0) = {}
      /\ OkRows(rows, 0, 0) = {} /\ OkRows(rows, 0, 1) = {}
  BY DEF Pairs, Lone, None, OkRows
<1>2. Cardinality({}) = 0
  BY FS_EmptySet
<1> QED
  BY <1>1, <1>2 DEF Tallied

LEMMA TwoInARow ==
    ASSUME NEW S, NEW a \in S, NEW b \in S
    PROVE  Append(<<a>>, b) = <<a, b>> /\ Append(<<>>, b) = <<b>>
<1>1. <<a>> \in Seq(S) /\ <<a, b>> \in Seq(S) /\ <<b>> \in Seq(S)
  OBVIOUS
<1> DEFINE t == Append(<<a>>, b)  u == <<a, b>>
<1>2. t \in Seq(S) /\ Len(t) = 2 /\ t[1] = a /\ t[2] = b
  BY <1>1
<1>3. u \in Seq(S) /\ Len(u) = 2 /\ u[1] = a /\ u[2] = b
  BY <1>1
<1> DEFINE v == Append(<<>>, b)  w == <<b>>
<1>4. v \in Seq(S) /\ Len(v) = 1 /\ v[1] = b
  OBVIOUS
<1>5. w \in Seq(S) /\ Len(w) = 1 /\ w[1] = b
  BY <1>1
<1> HIDE DEF t, u, v, w
<1>6. t = u
  BY <1>2, <1>3
<1>7. v = w
  BY <1>4, <1>5
<1> QED
  BY <1>6, <1>7 DEF t, u, v, w

LEMMA SchedulerInit == Init => SchedulerInv
<1> SUFFICES ASSUME Init PROVE SchedulerInv
  OBVIOUS
<1>1. /\ mode \in [https : BOOLEAN, stream : BOOLEAN]
      /\ run = [step |-> "clock", cycle |-> 0, out |-> <<>>, soft |-> 0, why |-> "none"]
      /\ count = [total |-> 0, pairs |-> 0, lone |-> 0, no |-> 0, written |-> 0, noop |-> 0]
      /\ pending = [b \in Bodies |-> <<>>] /\ ledger = <<>> /\ Len(ledger) = 0
      /\ ingest["scheduler"].step = "idle"
  BY DEF Init, EmptyReport, NotIngesting, Callers
<1>2. SchedulerTyped
  BY <1>1 DEF SchedulerTyped, Steps, Whys
<1>3. RowsInOrder
  BY <1>1 DEF RowsInOrder
<1>4. Appended = 0 /\ Len(run.out) = 0
  BY <1>1 DEF Appended
<1>5. CycleInv
  BY <1>1, <1>4 DEF CycleInv, At
<1>6. PendingInv
  BY <1>1, <1>4 DEF PendingInv, Waits
<1>7. CountInv
  BY <1>1, TallyZero, RawAssumption DEF CountInv, Counted, At
<1> QED
  BY <1>2, <1>3, <1>5, <1>6, <1>7 DEF SchedulerInv

\* Once the run was left, only the rows of the ledger count.
LEMMA RaisedInv ==
    ASSUME SchedulerInv, SchedulerTyped', UNCHANGED ledger, run'.step = "raised",
           ingest'["scheduler"].step = "idle"
    PROVE  SchedulerInv'
<1>1. RowsInOrder'
  BY DEF SchedulerInv, RowsInOrder
<1>2. CycleInv' /\ PendingInv' /\ CountInv'
  BY DEF CycleInv, PendingInv, CountInv, At, Running, Over
<1> QED
  BY <1>1, <1>2 DEF SchedulerInv

\* The steps of the others, and those of an ingestion.
LEMMA OthersInv ==
    ASSUME SchedulerInv, UNCHANGED <<mode, run, count, pending, ledger>>,
           ingest'["scheduler"].step = ingest["scheduler"].step \/ At("ingest")
    PROVE  SchedulerInv'
<1>1. SchedulerTyped' /\ RowsInOrder' /\ PendingInv' /\ CountInv'
  BY DEF SchedulerInv, SchedulerTyped, RowsInOrder, PendingInv, Running, Over, Waits, Mark, Appended,
         CountInv, Counted, At
<1>2. CycleInv'
  BY DEF SchedulerInv, CycleInv, Running, Over, Appended, At
<1> QED
  BY <1>1, <1>2 DEF SchedulerInv

LEMMA StartCycleInv == ASSUME SchedulerInv, StartCycle PROVE SchedulerInv'
<1>1. /\ run \in [step : Steps, cycle : Nat, out : Seq(Results), soft : Nat, why : Whys]
      /\ run' = [run EXCEPT !.step = "capture"] /\ count' = [count EXCEPT !.total = @ + 1]
      /\ run.step = "clock" /\ UNCHANGED <<mode, pending, ledger, ingest>>
  BY DEF SchedulerInv, SchedulerTyped, StartCycle, At
<1>2. /\ run'.step = "capture" /\ run'.cycle = run.cycle /\ run'.out = run.out /\ run'.soft = run.soft
      /\ run' \in [step : Steps, cycle : Nat, out : Seq(Results), soft : Nat, why : Whys]
  BY <1>1 DEF Steps
<1>3. /\ count' \in [total : Nat, pairs : Nat, lone : Nat, no : Nat, written : Nat, noop : Nat]
      /\ count'.total = count.total + 1 /\ count'.pairs = count.pairs /\ count'.lone = count.lone
      /\ count'.no = count.no /\ count'.written = count.written /\ count'.noop = count.noop
  <2> DEFINE total == count.total + 1
  <2>1. count \in [total : Nat, pairs : Nat, lone : Nat, no : Nat, written : Nat, noop : Nat]
    BY DEF SchedulerInv, SchedulerTyped
  <2>2. total \in Nat /\ count' = [count EXCEPT !.total = total]
    BY <1>1, <2>1
  <2> HIDE DEF total
  <2>3. /\ count' \in [total : Nat, pairs : Nat, lone : Nat, no : Nat, written : Nat, noop : Nat]
        /\ count'.total = total /\ count'.pairs = count.pairs /\ count'.lone = count.lone
        /\ count'.no = count.no /\ count'.written = count.written /\ count'.noop = count.noop
    BY <2>1, <2>2
  <2> QED
    BY <2>3 DEF total
<1>4. SchedulerTyped' /\ RowsInOrder'
  BY <1>1, <1>2, <1>3 DEF SchedulerInv, SchedulerTyped, RowsInOrder
<1>5. Appended' = Appended
  BY <1>1, <1>2 DEF Appended
<1>6. run.out = <<>> /\ Len(run.out) = 0 /\ Appended = 0
  BY <1>1 DEF SchedulerInv, CycleInv, At
<1>7. CycleInv'
  BY <1>1, <1>2, <1>5, <1>6 DEF SchedulerInv, CycleInv, At
<1>8. PendingInv'
  BY <1>1, <1>2, <1>5, <1>6 DEF SchedulerInv, PendingInv, Running, Over, Waits, Mark
<1>9. CountInv'
  BY <1>1, <1>2, <1>3 DEF SchedulerInv, CountInv, Counted, At
<1> QED
  BY <1>4, <1>7, <1>8, <1>9 DEF SchedulerInv

LEMMA FinishInv == ASSUME SchedulerInv, Finish PROVE SchedulerInv'
<1> DEFINE w == IF run.cycle < MaxCycles THEN "STOP_TIME" ELSE "MAX_CYCLES"
<1>1. /\ run \in [step : Steps, cycle : Nat, out : Seq(Results), soft : Nat, why : Whys]
      /\ run' = [run EXCEPT !.step = "done", !.why = w]
      /\ run.step = "clock" /\ UNCHANGED <<mode, count, pending, ledger, ingest>>
  BY DEF SchedulerInv, SchedulerTyped, Finish, At
<1>2. w \in Whys
  BY DEF Whys
<1> HIDE DEF w
<1>3. /\ run'.step = "done" /\ run'.cycle = run.cycle /\ run'.out = run.out /\ run'.soft = run.soft
      /\ run' \in [step : Steps, cycle : Nat, out : Seq(Results), soft : Nat, why : Whys]
  BY <1>1, <1>2 DEF Steps
<1>4. SchedulerTyped' /\ RowsInOrder'
  BY <1>1, <1>3 DEF SchedulerInv, SchedulerTyped, RowsInOrder
<1>5. Appended' = Appended
  BY <1>1, <1>3 DEF Appended
<1>6. CycleInv'
  BY <1>1, <1>3, <1>5 DEF SchedulerInv, CycleInv, At, Running, Over
<1>7. PendingInv'
  BY <1>3 DEF PendingInv, Running, Over
<1>8. CountInv'
  BY <1>1, <1>3 DEF SchedulerInv, CountInv, Counted, At
<1> QED
  BY <1>4, <1>6, <1>7, <1>8 DEF SchedulerInv

LEMMA CaptureInv ==
    ASSUME SchedulerInv, NEW ok \in BOOLEAN, NEW body \in Bodies, Capture(ok, body) PROVE SchedulerInv'
<1> DEFINE m == Len(run.out)
           leg == Legs[m + 1]
           entry == [leg |-> leg, ok |-> ok, body |-> body]
           step == IF leg = "PM" THEN "append" ELSE "capture"
<1>1. /\ run \in [step : Steps, cycle : Nat, out : Seq(Results), soft : Nat, why : Whys]
      /\ run.step = "capture" /\ m \in {0, 1} /\ Appended = 0
      /\ run' = [run EXCEPT !.out = Append(@, entry), !.step = step]
      /\ pending \in [Bodies -> Seq(Marks)]
      /\ pending' = [pending EXCEPT ![body] = Append(@, [leg |-> leg, cycle |-> run.cycle])]
      /\ UNCHANGED <<mode, count, ledger, ingest>>
  BY DEF SchedulerInv, SchedulerTyped, Capture, At, CycleInv
<1>2. leg \in {"HL", "PM"} /\ (leg = "PM" <=> m = 1) /\ step \in Steps
  <2>1. (m = 0 => leg = "HL") /\ (m = 1 => leg = "PM")
    <3> HIDE DEF m
    <3>1. (m = 0 => m + 1 = 1) /\ (m = 1 => m + 1 = 2)
      OBVIOUS
    <3> QED
      BY <3>1, LegsAre
  <2> QED
    BY <1>1, <2>1 DEF Steps
<1>3. /\ run'.step = step /\ run'.cycle = run.cycle /\ run'.soft = run.soft /\ run'.why = run.why
      /\ run'.out = Append(run.out, entry)
  BY <1>1
<1>4. entry \in Results /\ entry.leg = leg /\ entry.ok = ok /\ entry.body = body
  BY <1>2 DEF Results
<1>5. /\ run'.out \in Seq(Results) /\ Len(run'.out) = m + 1 /\ run'.out[m + 1] = entry
      /\ \A n \in 1..m : run'.out[n] = run.out[n]
  BY <1>1, <1>3, <1>4
<1>6. run' \in [step : Steps, cycle : Nat, out : Seq(Results), soft : Nat, why : Whys]
  <2>1. run' = [step |-> step, cycle |-> run.cycle, out |-> run'.out, soft |-> run.soft, why |-> run.why]
    BY <1>1
  <2> QED
    BY <1>1, <1>2, <1>5, <2>1
<1>7. [leg |-> leg, cycle |-> run.cycle] = Mark(m + 1) /\ Mark(m + 1) \in Marks
  BY <1>1, <1>2 DEF Mark, Marks
<1>8. pending' = [pending EXCEPT ![body] = Append(pending[body], Mark(m + 1))]
  BY <1>1, <1>7
<1>9. /\ pending' \in [Bodies -> Seq(Marks)] /\ pending'[body] = Append(pending[body], Mark(m + 1))
      /\ \A b \in Bodies : b # body => pending'[b] = pending[b]
  BY <1>1, <1>7, <1>8
<1> HIDE DEF m, entry, step
<1>10. SchedulerTyped' /\ RowsInOrder'
  BY <1>1, <1>6, <1>9 DEF SchedulerInv, SchedulerTyped, RowsInOrder
<1>11. Appended' = 0
  BY <1>1, <1>3 DEF Appended
<1>12. CycleInv'
  <2>1. step = (IF m = 1 THEN "append" ELSE "capture")
    BY <1>2 DEF step
  <2>2. \A n \in 1..m : run.out[n].leg = Legs[n]
    BY <1>1 DEF SchedulerInv, CycleInv, Running, Over, m
  <2>3. \A n \in 1..(m + 1) : run'.out[n].leg = Legs[n]
    BY <1>1, <1>4, <1>5, <2>2
  <2>4. ingest["scheduler"].step = "idle"
    BY <1>1 DEF SchedulerInv, CycleInv, At
  <2>5. \A n \in 1..(m + 1) : ~(n <= 0)
    BY <1>1
  <2> QED
    BY <1>1, <1>3, <1>5, <1>11, <2>1, <2>3, <2>4, <2>5 DEF CycleInv, At
<1>13. PendingInv'
  <2> SUFFICES ASSUME NEW b \in Bodies
               PROVE  pending'[b] = IF Waits(1, b)' THEN IF Waits(2, b)' THEN <<Mark(1)', Mark(2)'>> ELSE <<Mark(1)'>>
                                                    ELSE IF Waits(2, b)' THEN <<Mark(2)'>> ELSE <<>>
    BY DEF PendingInv
  <2>1. Mark(1)' = Mark(1) /\ Mark(2)' = Mark(2)
    BY <1>3 DEF Mark
  <2>2. pending[b] = IF Waits(1, b) THEN IF Waits(2, b) THEN <<Mark(1), Mark(2)>> ELSE <<Mark(1)>>
                                    ELSE IF Waits(2, b) THEN <<Mark(2)>> ELSE <<>>
    BY <1>1 DEF SchedulerInv, PendingInv, Running, Over
  <2>3. CASE m = 0
    <3>1. ~Waits(1, b) /\ ~Waits(2, b)
      BY <2>3 DEF Waits, m
    <3>2. (Waits(1, b)' <=> b = body) /\ ~Waits(2, b)'
      BY <1>4, <1>5, <1>11, <2>3 DEF Waits
    <3>3. pending[b] = <<>>
      BY <2>2, <3>1
    <3>4. CASE b = body
      BY <1>9, <2>1, <2>3, <3>2, <3>3, <3>4
    <3>5. CASE b # body
      BY <1>9, <3>2, <3>3, <3>5
    <3> QED
      BY <3>4, <3>5
  <2>4. CASE m = 1
    <3>1. ~Waits(2, b) /\ (Waits(1, b) <=> run.out[1].body = b)
      BY <1>1, <2>4 DEF Waits, m
    <3>2. (Waits(1, b)' <=> run.out[1].body = b) /\ (Waits(2, b)' <=> b = body)
      BY <1>4, <1>5, <1>11, <2>4 DEF Waits
    <3>3. pending[b] = IF Waits(1, b) THEN <<Mark(1)>> ELSE <<>>
      BY <2>2, <3>1
    <3>4. CASE b = body
      <4>1. pending'[b] = Append(pending[b], Mark(2))
        BY <1>9, <2>4, <3>4
      <4>2. /\ Append(<<Mark(1)>>, Mark(2)) = <<Mark(1), Mark(2)>>
            /\ Append(<<>>, Mark(2)) = <<Mark(2)>>
        <5>1. Mark(1) \in Marks /\ Mark(2) \in Marks
          BY <1>1, LegsAre DEF Mark, Marks
        <5> HIDE DEF m
        <5> QED
          BY ONLY <5>1, TwoInARow
      <4>3. /\ Waits(1, b)' <=> Waits(1, b)
            /\ Waits(2, b)'
        BY <3>1, <3>2, <3>4
      <4>4. pending'[b] = IF Waits(1, b) THEN <<Mark(1), Mark(2)>> ELSE <<Mark(2)>>
        BY <3>3, <4>1, <4>2
      <4> QED
        BY <2>1, <4>3, <4>4
    <3>5. CASE b # body
      BY <1>9, <2>1, <3>1, <3>2, <3>3, <3>5
    <3> QED
      BY <3>4, <3>5
  <2> QED
    BY <1>1, <2>3, <2>4
<1>14. CountInv'
  <2>1. step \in {"append", "capture"}
    BY DEF step
  <2> QED
    BY <1>1, <1>3, <2>1 DEF SchedulerInv, CountInv, Counted, At
<1> QED
  BY <1>10, <1>12, <1>13, <1>14 DEF SchedulerInv

\* The rows that the cycle has already are the one before, if any.
LEMMA RowsOfCycleIs ==
    ASSUME SchedulerInv, run.step = "append"
    PROVE  Cardinality(RowsOfCycle) = Appended
<1> DEFINE c == run.cycle
           k == Appended
<1>1. /\ c \in Nat /\ k \in {0, 1} /\ Len(ledger) = 2 * c + k /\ DOMAIN ledger = 1..Len(ledger)
      /\ \A n \in 1..Len(ledger) : ledger[n].cycle = (n - 1) \div 2
  <2>1. c \in Nat /\ Len(ledger) \in Nat /\ DOMAIN ledger = 1..Len(ledger)
    BY DEF SchedulerInv, SchedulerTyped
  <2>2. k \in {0, 1} /\ \A n \in 1..Len(ledger) : ledger[n].cycle = (n - 1) \div 2
    BY DEF SchedulerInv, CycleInv, RowsInOrder, At
  <2>3. Len(ledger) = 2 * c + k
    BY <2>1 DEF Appended
  <2> QED
    BY <2>1, <2>2, <2>3
<1>2. RowsOfCycle = {n \in 1..Len(ledger) : (n - 1) \div 2 = c}
  BY <1>1 DEF RowsOfCycle
<1> HIDE DEF c, k
<1>3. \A n \in 1..Len(ledger) : (n - 1) \div 2 = c <=> n = 2 * c + 1
  BY <1>1
<1>4. CASE k = 0
  <2>1. RowsOfCycle = {}
    BY <1>1, <1>2, <1>3, <1>4
  <2> QED
    BY <1>4, <2>1, FS_EmptySet DEF k
<1>5. CASE k = 1
  <2>1. RowsOfCycle = {2 * c + 1}
    <3>1. 2 * c + 1 \in 1..Len(ledger)
      BY <1>1, <1>5
    <3>2. RowsOfCycle = {n \in 1..Len(ledger) : n = 2 * c + 1}
      BY <1>2, <1>3
    <3> QED
      BY <3>1, <3>2
  <2> QED
    BY <1>5, <2>1, FS_Singleton DEF k
<1> QED
  BY <1>1, <1>4, <1>5

\* The capture that is due is the oldest of its digest.
LEMMA CaptureIsThere ==
    ASSUME SchedulerInv, run.step = "append", NEW k, k = Appended
    PROVE  /\ k \in {0, 1} /\ Len(run.out) = 2 /\ run.out[k + 1] \in Results
           /\ run.out[k + 1].leg = Legs[k + 1]
           /\ pending[run.out[k + 1].body] # <<>>
           /\ Head(pending[run.out[k + 1].body]) = Mark(k + 1)
           /\ \A b \in Bodies :
                (IF b = run.out[k + 1].body THEN Tail(pending[b]) ELSE pending[b]) =
                    IF k = 0 /\ Waits(2, b) THEN <<Mark(2)>> ELSE <<>>
<1>1. k \in {0, 1} /\ Len(run.out) = 2 /\ run.out \in Seq(Results) /\ run.cycle \in Nat
  BY DEF SchedulerInv, SchedulerTyped, CycleInv, At
<1>2. \A n \in 1..2 : run.out[n].leg = Legs[n]
  BY <1>1 DEF SchedulerInv, CycleInv, Running, Over
<1>3. \A b \in Bodies :
          pending[b] = IF Waits(1, b) THEN IF Waits(2, b) THEN <<Mark(1), Mark(2)>> ELSE <<Mark(1)>>
                                      ELSE IF Waits(2, b) THEN <<Mark(2)>> ELSE <<>>
  BY DEF SchedulerInv, PendingInv, Running, Over
<1>4. \A b : /\ Waits(1, b) <=> k = 0 /\ run.out[1].body = b
             /\ Waits(2, b) <=> run.out[2].body = b
  BY <1>1 DEF Waits
<1>5. run.out[1] \in Results /\ run.out[2] \in Results
  BY <1>1
<1>6. \A x, y : /\ Head(<<x, y>>) = x /\ Head(<<x>>) = x /\ Tail(<<x, y>>) = <<y>> /\ Tail(<<x>>) = <<>>
                /\ <<x, y>> # <<>> /\ <<x>> # <<>>
  OBVIOUS
<1>7. CASE k = 0
  <2> DEFINE body == run.out[1].body
  <2>1. body \in Bodies /\ Waits(1, body)
    BY <1>4, <1>5, <1>7 DEF Results
  <2>2. pending[body] = IF Waits(2, body) THEN <<Mark(1), Mark(2)>> ELSE <<Mark(1)>>
    BY <1>3, <2>1
  <2>3. pending[body] # <<>> /\ Head(pending[body]) = Mark(1)
        /\ Tail(pending[body]) = IF Waits(2, body) THEN <<Mark(2)>> ELSE <<>>
    BY <1>6, <2>2
  <2>4. \A b \in Bodies : b # body => pending[b] = IF Waits(2, b) THEN <<Mark(2)>> ELSE <<>>
    BY <1>3, <1>4
  <2>5. k + 1 = 1
    BY <1>7
  <2> QED
    BY <1>1, <1>2, <1>5, <1>7, <2>3, <2>4, <2>5
<1>8. CASE k = 1
  <2> DEFINE body == run.out[2].body
  <2>1. body \in Bodies /\ Waits(2, body) /\ \A b : ~Waits(1, b)
    BY <1>4, <1>5, <1>8 DEF Results
  <2>2. pending[body] = <<Mark(2)>>
    BY <1>3, <2>1
  <2>3. pending[body] # <<>> /\ Head(pending[body]) = Mark(2) /\ Tail(pending[body]) = <<>>
    BY <1>6, <2>2
  <2>4. \A b \in Bodies : b # body => pending[b] = <<>>
    BY <1>3, <1>4, <2>1
  <2>5. k + 1 = 2
    BY <1>8
  <2> QED
    BY <1>1, <1>2, <1>5, <1>8, <2>3, <2>4, <2>5
<1> QED
  BY <1>1, <1>7, <1>8

LEMMA AppendRowInv == ASSUME SchedulerInv, NEW wrote \in BOOLEAN, AppendRow(wrote) PROVE SchedulerInv'
<1> DEFINE c == run.cycle
           k == Appended
           got == run.out[k + 1]
           row == [cycle |-> c, leg |-> got.leg, ok |-> got.ok, body |-> got.body, from |-> Mark(k + 1)]
           step == IF got.leg = "PM" THEN "evaluate" ELSE "append"
           L == Len(ledger)
<1>1. run.step = "append" /\ Cardinality(RowsOfCycle) = k
  BY RowsOfCycleIs DEF AppendRow, At
<1>2. /\ k \in {0, 1} /\ Len(run.out) = 2 /\ got \in Results /\ got.leg = Legs[k + 1]
      /\ pending[got.body] # <<>> /\ Head(pending[got.body]) = Mark(k + 1)
      /\ \A b \in Bodies :
           (IF b = got.body THEN Tail(pending[b]) ELSE pending[b]) =
               IF k = 0 /\ Waits(2, b) THEN <<Mark(2)>> ELSE <<>>
  BY <1>1, CaptureIsThere
<1>3. /\ run \in [step : Steps, cycle : Nat, out : Seq(Results), soft : Nat, why : Whys]
      /\ pending \in [Bodies -> Seq(Marks)] /\ ledger \in Seq(LedgerRows) /\ c \in Nat
      /\ L = 2 * c + k /\ L \in Nat
  <2>1. /\ run \in [step : Steps, cycle : Nat, out : Seq(Results), soft : Nat, why : Whys]
        /\ pending \in [Bodies -> Seq(Marks)] /\ ledger \in Seq(LedgerRows)
    BY DEF SchedulerInv, SchedulerTyped
  <2>2. c \in Nat /\ L \in Nat
    BY <2>1
  <2>3. L = 2 * c + k
    BY <2>2 DEF Appended
  <2> QED
    BY <2>1, <2>2, <2>3
<1>4. /\ pending' = [pending EXCEPT ![got.body] = Tail(pending[got.body])]
      /\ IF wrote THEN ledger' = Append(ledger, row) /\ run' = [run EXCEPT !.step = step]
                  ELSE Raise("ledger") /\ UNCHANGED ledger
      /\ UNCHANGED <<mode, count, ingest>>
  BY <1>1, <1>2 DEF AppendRow, Oldest
<1>5. Mark(1) \in Marks /\ Mark(2) \in Marks /\ Mark(k + 1) \in Marks /\ got.body \in Bodies
      /\ Mark(k + 1) = [leg |-> got.leg, cycle |-> c]
  <2>1. Mark(1) \in Marks /\ Mark(2) \in Marks
    BY <1>3, LegsAre DEF Mark, Marks
  <2>2. Mark(k + 1) = Mark(1) \/ Mark(k + 1) = Mark(2)
    BY <1>2
  <2> QED
    BY <1>2, <2>1, <2>2 DEF Mark, Results
<1>6. \A b \in Bodies : pending'[b] = IF k = 0 /\ Waits(2, b) THEN <<Mark(2)>> ELSE <<>>
  BY <1>2, <1>3, <1>4
<1>7. pending' \in [Bodies -> Seq(Marks)]
  <2>1. \A b \in Bodies : pending'[b] \in Seq(Marks)
    <3> SUFFICES ASSUME NEW b \in Bodies PROVE pending'[b] \in Seq(Marks)
      OBVIOUS
    <3>1. pending'[b] = <<Mark(2)>> \/ pending'[b] = <<>>
      BY <1>6
    <3>2. <<Mark(2)>> \in Seq(Marks) /\ <<>> \in Seq(Marks)
      <4>1. Mark(2) \in Marks
        BY <1>5
      <4> QED
        BY ONLY <4>1
    <3> QED
      BY ONLY <3>1, <3>2
  <2> QED
    BY <1>3, <1>4, <2>1
<1>8. ingest'["scheduler"].step = "idle"
  BY <1>1, <1>4 DEF SchedulerInv, CycleInv, At
<1>9. CASE ~wrote
  <2>1. run' = [run EXCEPT !.step = "raised", !.why = "ledger"] /\ UNCHANGED ledger
    BY <1>4, <1>9 DEF Raise
  <2>2. run' \in [step : Steps, cycle : Nat, out : Seq(Results), soft : Nat, why : Whys] /\ run'.step = "raised"
    BY <1>3, <2>1 DEF Steps, Whys
  <2>3. SchedulerTyped'
    BY <1>3, <1>4, <1>7, <2>1, <2>2 DEF SchedulerInv, SchedulerTyped
  <2> QED
    BY <1>8, <2>1, <2>2, <2>3, RaisedInv
<1>10. CASE wrote
  <2>1. ledger' = Append(ledger, row) /\ run' = [run EXCEPT !.step = step]
    BY <1>4, <1>10
  <2>2. row \in LedgerRows /\ row.cycle = c /\ row.leg = got.leg /\ row.ok = got.ok /\ row.from = Mark(k + 1)
    BY <1>2, <1>3, <1>5 DEF LedgerRows, Results
  <2>3. (k = 0 => got.leg = "HL" /\ step = "append") /\ (k = 1 => got.leg = "PM" /\ step = "evaluate")
    <3>1. (k = 0 => Legs[k + 1] = "HL") /\ (k = 1 => Legs[k + 1] = "PM")
      <4> HIDE DEF k
      <4>1. (k = 0 => k + 1 = 1) /\ (k = 1 => k + 1 = 2)
        OBVIOUS
      <4> QED
        BY <4>1, LegsAre
    <3> QED
      BY <1>2, <3>1
  <2> HIDE DEF row, step
  <2>4. /\ ledger' \in Seq(LedgerRows) /\ Len(ledger') = L + 1 /\ ledger'[L + 1] = row
        /\ \A n \in 1..L : ledger'[n] = ledger[n]
    BY <1>3, <2>1, <2>2
  <2>5. /\ run'.step = step /\ run'.cycle = c /\ run'.out = run.out /\ run'.soft = run.soft
        /\ run' \in [step : Steps, cycle : Nat, out : Seq(Results), soft : Nat, why : Whys]
    <3>1. step \in Steps
      BY DEF step, Steps
    <3> QED
      BY <1>3, <2>1, <3>1
  <2> HIDE DEF L, c, got
  <2>6. Appended' = k + 1
    BY <1>2, <1>3, <2>4, <2>5 DEF Appended
  <2> HIDE DEF k
  <2>7. SchedulerTyped'
    BY <1>4, <1>7, <2>4, <2>5 DEF SchedulerInv, SchedulerTyped
  <2>8. RowsInOrder'
    <3> SUFFICES ASSUME NEW n \in 1..(L + 1)
                 PROVE  /\ ledger'[n].cycle = (n - 1) \div 2
                        /\ ledger'[n].leg = IF n % 2 = 1 THEN "HL" ELSE "PM"
                        /\ ledger'[n].from = [leg |-> ledger'[n].leg, cycle |-> ledger'[n].cycle]
      BY <2>4 DEF RowsInOrder
    <3>1. CASE n = L + 1
      <4>1. (k = 0 => n = 2 * c + 1) /\ (k = 1 => n = 2 * c + 2)
        BY <1>3, <3>1
      <4>2. (n - 1) \div 2 = c /\ (k = 0 => n % 2 = 1) /\ (k = 1 => n % 2 = 0)
        BY <1>2, <1>3, <4>1, Numbers
      <4>3. row.leg = IF n % 2 = 1 THEN "HL" ELSE "PM"
        BY <1>2, <2>2, <2>3, <4>2
      <4> QED
        BY <1>5, <2>2, <2>4, <3>1, <4>2, <4>3
    <3>2. CASE n # L + 1
      <4>1. n \in 1..L
        BY <1>3, <3>2
      <4> QED
        BY <2>4, <4>1 DEF SchedulerInv, RowsInOrder, L
    <3> QED
      BY <3>1, <3>2
  <2>9. CycleInv'
    <3>1. \A n \in 1..2 : run.out[n].leg = Legs[n]
      BY <1>1, <1>2 DEF SchedulerInv, CycleInv, Running, Over
    <3>2. ASSUME NEW n \in 1..2, n <= k + 1 PROVE ledger'[2 * c + n].ok = run.out[n].ok
      <4>1. CASE n = k + 1
        <5>1. 2 * c + n = L + 1
          BY <1>2, <1>3, <4>1
        <5> QED
          BY <2>2, <2>4, <4>1, <5>1 DEF got
      <4>2. CASE n # k + 1
        <5>1. n <= k /\ 2 * c + n \in 1..L
          BY <1>2, <1>3, <3>2, <4>2
        <5>2. ledger[2 * c + n].ok = run.out[n].ok
          BY <1>1, <1>2, <5>1 DEF SchedulerInv, CycleInv, Running, Over, k, c
        <5> QED
          BY <2>4, <5>1, <5>2
      <4> QED
        BY <4>1, <4>2
    <3>3. (step = "append" /\ k + 1 = 1) \/ (step = "evaluate" /\ k + 1 = 2)
      BY <1>2, <2>3
    <3> QED
      BY <1>2, <1>8, <2>5, <2>6, <3>1, <3>2, <3>3 DEF CycleInv, At
  <2>10. PendingInv'
    <3> SUFFICES ASSUME NEW b \in Bodies
                 PROVE  pending'[b] = IF Waits(1, b)' THEN IF Waits(2, b)' THEN <<Mark(1)', Mark(2)'>> ELSE <<Mark(1)'>>
                                                      ELSE IF Waits(2, b)' THEN <<Mark(2)'>> ELSE <<>>
      BY DEF PendingInv
    <3>1. ~Waits(1, b)'
      BY <1>2, <2>6 DEF Waits
    <3>2. Waits(2, b)' <=> k = 0 /\ Waits(2, b)
      BY <1>2, <2>5, <2>6 DEF Waits, k
    <3>3. Mark(2)' = Mark(2)
      BY <2>5 DEF Mark, c
    <3> QED
      BY <1>6, <3>1, <3>2, <3>3
  <2>11. CountInv'
    <3>1. step \in {"append", "evaluate"}
      BY DEF step
    <3>2. Tallied(ledger, c, count.pairs, count.lone, count.no)
      <4>1. Counted = c
        BY <1>1, <1>3 DEF Counted, At, c
      <4> QED
        BY <1>1, <4>1 DEF SchedulerInv, CountInv
    <3>3. \A n \in 1..(2 * c) : ledger'[n] = ledger[n]
      BY <1>2, <1>3, <2>4
    <3>4. Tallied(ledger', c, count.pairs, count.lone, count.no)
      BY <1>3, <3>2, <3>3, TallyAgrees
    <3>5. Counted' = c
      BY <1>3, <2>5, <3>1 DEF Counted, At
    <3>6. /\ count.total = c + 1 /\ count.lone + count.no = run.soft /\ run.soft <= FailureBudget
          /\ mode.stream => count.written + count.noop + 0 = count.pairs
      BY <1>1 DEF SchedulerInv, CountInv, At, c
    <3> QED
      BY <1>4, <2>5, <3>1, <3>4, <3>5, <3>6 DEF CountInv, At
  <2> QED
    BY <2>7, <2>8, <2>9, <2>10, <2>11 DEF SchedulerInv
<1> QED
  BY <1>9, <1>10

RunSet == [step : Steps, cycle : Nat, out : Seq(Results), soft : Nat, why : Whys]
CountSet == [total : Nat, pairs : Nat, lone : Nat, no : Nat, written : Nat, noop : Nat]

\* A cycle whose two rows are in the ledger.
LEMMA CycleIsWhole ==
    ASSUME SchedulerInv, run.step \in {"evaluate", "ingest"}
    PROVE  /\ run.cycle \in Nat /\ Len(ledger) = 2 * run.cycle + 2
           /\ BothLegs(run.out) <=> OkAt(ledger, 2 * run.cycle + 1) /\ OkAt(ledger, 2 * run.cycle + 2)
           /\ NoLeg(run.out) <=> ~OkAt(ledger, 2 * run.cycle + 1) /\ ~OkAt(ledger, 2 * run.cycle + 2)
           /\ OkAt(ledger, 2 * run.cycle + 1) \in BOOLEAN /\ OkAt(ledger, 2 * run.cycle + 2) \in BOOLEAN
           /\ \A b \in Bodies : pending[b] = <<>>
<1> DEFINE c == run.cycle
<1>1. /\ run.out \in Seq(Results) /\ Len(run.out) = 2 /\ c \in Nat /\ Appended = 2
      /\ ledger \in Seq(LedgerRows) /\ Len(ledger) \in Nat
  BY DEF SchedulerInv, SchedulerTyped, CycleInv, At
<1>2. Len(ledger) = 2 * c + 2
  BY <1>1 DEF Appended
<1>3. DOMAIN run.out = {1, 2}
  BY <1>1
<1>4. \A n \in 1..2 : ledger[2 * c + n].ok = run.out[n].ok
  BY <1>1 DEF SchedulerInv, CycleInv, Running, Over
<1>5. ledger[2 * c + 1].ok = run.out[1].ok /\ ledger[2 * c + 2].ok = run.out[2].ok
  BY <1>4
<1>6. ledger[2 * c + 1].ok \in BOOLEAN /\ ledger[2 * c + 2].ok \in BOOLEAN
  <2>1. 2 * c + 1 \in 1..Len(ledger) /\ 2 * c + 2 \in 1..Len(ledger)
    BY <1>1, <1>2
  <2> QED
    <3>1. ledger[2 * c + 1] \in LedgerRows /\ ledger[2 * c + 2] \in LedgerRows
      BY <1>1, <2>1
    <3> QED
      BY <3>1 DEF LedgerRows
<1>7. \A b \in Bodies : pending[b] = <<>>
  <2>1. \A b : ~Waits(1, b) /\ ~Waits(2, b)
    BY <1>1 DEF Waits
  <2> QED
    BY <2>1 DEF SchedulerInv, PendingInv, Running, Over
<1> QED
  BY <1>1, <1>2, <1>3, <1>5, <1>6, <1>7 DEF BothLegs, NoLeg, OkAt

\* The next cycle begins with nothing pending.
LEMMA NextCycleInv ==
    ASSUME SchedulerInv, run.step \in {"evaluate", "ingest"}, UNCHANGED <<mode, pending, ledger>>,
           run' \in RunSet, count' \in CountSet, run'.step = "clock", run'.cycle = run.cycle + 1,
           run'.out = <<>>, ingest'["scheduler"].step = "idle",
           Tallied(ledger, run.cycle + 1, count'.pairs, count'.lone, count'.no),
           count'.total = run.cycle + 1,
           count'.lone + count'.no = run'.soft /\ run'.soft <= FailureBudget,
           mode.stream => count'.written + count'.noop = count'.pairs
    PROVE  SchedulerInv'
<1>1. SchedulerTyped' /\ RowsInOrder'
  BY DEF SchedulerInv, SchedulerTyped, RowsInOrder, RunSet, CountSet
<1>2. run.cycle \in Nat /\ Len(ledger) = 2 * run.cycle + 2 /\ \A b \in Bodies : pending[b] = <<>>
  BY CycleIsWhole
<1>3. Appended' = 0 /\ Len(run'.out) = 0
  BY <1>2 DEF Appended
<1>4. CycleInv'
  BY <1>3 DEF CycleInv, At
<1>5. PendingInv'
  BY <1>2, <1>3 DEF PendingInv, Waits
<1>6. CountInv'
  <2>1. Counted' = run.cycle + 1
    BY <1>2 DEF Counted, At
  <2>2. mode.stream => count'.written + count'.noop + 0 = count'.pairs
    BY DEF CountSet
  <2> QED
    BY <1>2, <2>1, <2>2 DEF CountInv, At
<1> QED
  BY <1>1, <1>4, <1>5, <1>6 DEF SchedulerInv

LEMMA CountsTyped ==
    ASSUME SchedulerInv
    PROVE  /\ run \in RunSet /\ count \in CountSet /\ mode \in [https : BOOLEAN, stream : BOOLEAN]
           /\ run.cycle \in Nat /\ run.soft \in Nat /\ FailureBudget \in Nat
           /\ count.total \in Nat /\ count.pairs \in Nat /\ count.lone \in Nat
           /\ count.no \in Nat /\ count.written \in Nat /\ count.noop \in Nat
<1>1. run \in RunSet /\ count \in CountSet /\ mode \in [https : BOOLEAN, stream : BOOLEAN]
  BY DEF SchedulerInv, SchedulerTyped, RunSet, CountSet
<1> QED
  BY <1>1, RawAssumption DEF RunSet, CountSet

LEMMA NextCycleIs ==
    ASSUME run \in RunSet
    PROVE  NextCycle = [step |-> "clock", cycle |-> run.cycle + 1, out |-> <<>>, soft |-> run.soft,
                        why |-> run.why]
<1> DEFINE d == run.cycle + 1
<1>1. NextCycle = [run EXCEPT !.step = "clock", !.cycle = d, !.out = <<>>]
  BY DEF NextCycle, RunSet
<1> HIDE DEF d
<1>2. NextCycle = [step |-> "clock", cycle |-> d, out |-> <<>>, soft |-> run.soft, why |-> run.why]
  BY <1>1 DEF RunSet
<1> QED
  BY <1>2 DEF d

LEMMA CommittedPairInv == ASSUME SchedulerInv, CommittedPair PROVE SchedulerInv'
<1> DEFINE c == run.cycle
           pairs == count.pairs + 1
<1>1. run.step = "evaluate" /\ BothLegs(run.out) /\ UNCHANGED <<mode, pending, ledger, ingest>>
      /\ count' = [count EXCEPT !.pairs = @ + 1]
      /\ run' = IF mode.stream THEN [run EXCEPT !.step = "ingest"] ELSE NextCycle
  BY DEF CommittedPair, At
<1>2. /\ run \in RunSet /\ count \in CountSet /\ mode \in [https : BOOLEAN, stream : BOOLEAN]
      /\ c \in Nat /\ run.soft \in Nat /\ count.pairs \in Nat /\ count.lone \in Nat
      /\ count.no \in Nat /\ count.written \in Nat /\ count.noop \in Nat
  BY CountsTyped
<1>3. /\ Tallied(ledger, c, count.pairs, count.lone, count.no) /\ count.total = c + 1
      /\ count.lone + count.no = run.soft /\ run.soft <= FailureBudget
      /\ mode.stream => count.written + count.noop + 0 = count.pairs
  <2>1. Counted = c
    BY <1>1, <1>2 DEF Counted, At
  <2> QED
    BY <1>1, <2>1 DEF SchedulerInv, CountInv, At
<1>4. OkAt(ledger, 2 * c + 1) /\ OkAt(ledger, 2 * c + 2) /\ Len(ledger) = 2 * c + 2
  BY <1>1, CycleIsWhole
<1>5. Tallied(ledger, c + 1, count.pairs + 1, count.lone, count.no)
  <2>1. OkAt(ledger, 2 * c + 1) \in BOOLEAN /\ OkAt(ledger, 2 * c + 2) \in BOOLEAN
    BY <1>1, CycleIsWhole
  <2> QED
    BY <1>2, <1>3, <1>4, <2>1, TallyStep
<1>6. pairs \in Nat /\ count' = [count EXCEPT !.pairs = pairs]
  BY <1>1, <1>2 DEF CountSet
<1> HIDE DEF pairs
<1>7. /\ count' \in CountSet /\ count'.total = count.total /\ count'.pairs = pairs
      /\ count'.lone = count.lone /\ count'.no = count.no
      /\ count'.written = count.written /\ count'.noop = count.noop
  BY <1>2, <1>6 DEF CountSet
<1>8. ingest'["scheduler"].step = "idle"
  BY <1>1 DEF SchedulerInv, CycleInv, At
<1>9. CASE mode.stream
  <2>1. /\ run' \in RunSet /\ run'.step = "ingest" /\ run'.cycle = c /\ run'.out = run.out /\ run'.soft = run.soft
    BY <1>1, <1>2, <1>9 DEF RunSet, Steps
  <2>2. SchedulerTyped' /\ RowsInOrder'
    BY <1>1, <1>7, <2>1 DEF SchedulerInv, SchedulerTyped, RowsInOrder, RunSet, CountSet
  <2>3. Appended' = Appended
    BY <1>1, <2>1 DEF Appended
  <2>4. CycleInv'
    BY <1>1, <1>8, <2>1, <2>3 DEF SchedulerInv, CycleInv, At, Running, Over
  <2>5. PendingInv'
    BY <1>1, <2>1, <2>3 DEF SchedulerInv, PendingInv, Running, Over, Waits, Mark
  <2>6. CountInv'
    <3>1. Counted' = c + 1
      BY <1>2, <2>1 DEF Counted, At
    <3>2. count'.written + count'.noop + 1 = count'.pairs
      BY <1>2, <1>3, <1>7, <1>9 DEF pairs
    <3> QED
      BY <1>1, <1>3, <1>5, <1>7, <1>9, <2>1, <3>1, <3>2 DEF CountInv, At, pairs
  <2> QED
    BY <2>2, <2>4, <2>5, <2>6 DEF SchedulerInv
<1>10. CASE ~mode.stream
  <2> DEFINE d == c + 1
  <2>1. d \in Nat /\ run' = [step |-> "clock", cycle |-> d, out |-> <<>>, soft |-> run.soft, why |-> run.why]
    BY <1>1, <1>2, <1>10, NextCycleIs
  <2> HIDE DEF d
  <2>2. /\ run' \in RunSet /\ run'.step = "clock" /\ run'.cycle = d /\ run'.out = <<>> /\ run'.soft = run.soft
    BY <1>2, <2>1 DEF RunSet, Steps
  <2> QED
    BY <1>1, <1>3, <1>5, <1>7, <1>8, <1>10, <2>2, NextCycleInv DEF pairs, d
<1> QED
  BY <1>2, <1>9, <1>10

LEMMA SoftFailureInv == ASSUME SchedulerInv, SoftFailure PROVE SchedulerInv'
<1> DEFINE c == run.cycle
           lone == count.lone + 1
           no == count.no + 1
           soft == run.soft + 1
<1>1. /\ run.step = "evaluate" /\ ~BothLegs(run.out) /\ UNCHANGED <<mode, pending, ledger, ingest>>
      /\ NoLeg(run.out) => count' = [count EXCEPT !.no = no]
      /\ ~NoLeg(run.out) => count' = [count EXCEPT !.lone = lone]
      /\ soft > FailureBudget => run' = [run EXCEPT !.step = "raised", !.why = "budget", !.soft = soft]
      /\ ~(soft > FailureBudget) =>
            run' = [step |-> "clock", cycle |-> c + 1, out |-> <<>>, soft |-> soft, why |-> run.why]
  <2>1. count \in CountSet /\ run \in RunSet
    BY CountsTyped
  <2>2. run.step = "evaluate" /\ ~BothLegs(run.out) /\ UNCHANGED <<mode, pending, ledger, ingest>>
    BY DEF SoftFailure, At
  <2>3. NoLeg(run.out) => count' = [count EXCEPT !.no = no]
    BY <2>1 DEF SoftFailure, CountSet
  <2>4. ~NoLeg(run.out) => count' = [count EXCEPT !.lone = lone]
    BY <2>1 DEF SoftFailure, CountSet
  <2>5. ASSUME soft > FailureBudget
        PROVE  run' = [run EXCEPT !.step = "raised", !.why = "budget", !.soft = soft]
    BY <2>1, <2>5 DEF SoftFailure, RunSet
  <2>6. ASSUME ~(soft > FailureBudget)
        PROVE  run' = [step |-> "clock", cycle |-> c + 1, out |-> <<>>, soft |-> soft, why |-> run.why]
    <3> DEFINE next == NextCycle  d == c + 1
    <3>1. next = [step |-> "clock", cycle |-> d, out |-> <<>>, soft |-> run.soft, why |-> run.why]
      BY <2>1, NextCycleIs
    <3>2. run' = [next EXCEPT !.soft = next.soft + 1]
      BY <2>6 DEF SoftFailure
    <3> HIDE DEF next, d
    <3>3. run' = [next EXCEPT !.soft = soft]
      BY <3>1, <3>2
    <3> HIDE DEF soft
    <3>4. run' = [step |-> "clock", cycle |-> d, out |-> <<>>, soft |-> soft, why |-> run.why]
      BY <3>1, <3>3
    <3> QED
      BY <3>4 DEF d
  <2> HIDE DEF lone, no, soft, c
  <2> QED
    BY <2>2, <2>3, <2>4, <2>5, <2>6
<1>2. /\ run \in RunSet /\ count \in CountSet
      /\ c \in Nat /\ run.soft \in Nat /\ count.pairs \in Nat /\ count.lone \in Nat /\ FailureBudget \in Nat
      /\ count.no \in Nat /\ count.written \in Nat /\ count.noop \in Nat
  BY CountsTyped
<1>3. /\ Tallied(ledger, c, count.pairs, count.lone, count.no) /\ count.total = c + 1
      /\ count.lone + count.no = run.soft /\ run.soft <= FailureBudget
      /\ mode.stream => count.written + count.noop + 0 = count.pairs
  <2>1. Counted = c
    BY <1>1, <1>2 DEF Counted, At
  <2> QED
    BY <1>1, <2>1 DEF SchedulerInv, CountInv, At
<1>4. /\ OkAt(ledger, 2 * c + 1) \in BOOLEAN /\ OkAt(ledger, 2 * c + 2) \in BOOLEAN
      /\ ~(OkAt(ledger, 2 * c + 1) /\ OkAt(ledger, 2 * c + 2))
      /\ NoLeg(run.out) <=> ~OkAt(ledger, 2 * c + 1) /\ ~OkAt(ledger, 2 * c + 2)
  BY <1>1, CycleIsWhole
<1>5. ingest'["scheduler"].step = "idle"
  BY <1>1 DEF SchedulerInv, CycleInv, At
<1>6. soft \in Nat /\ lone \in Nat /\ no \in Nat
  BY <1>2
<1>7. /\ NoLeg(run.out) => Tallied(ledger, c + 1, count.pairs, count.lone, no)
      /\ ~NoLeg(run.out) => Tallied(ledger, c + 1, count.pairs, lone, count.no)
  BY <1>2, <1>3, <1>4, TallyStep
<1>8. lone + count.no = soft /\ count.lone + no = soft
  BY <1>2, <1>3
<1> HIDE DEF lone, no, soft
<1>9. /\ count' \in CountSet /\ count'.total = count.total /\ count'.pairs = count.pairs
      /\ count'.written = count.written /\ count'.noop = count.noop
      /\ count'.lone = IF NoLeg(run.out) THEN count.lone ELSE lone
      /\ count'.no = IF NoLeg(run.out) THEN no ELSE count.no
  <2>1. CASE NoLeg(run.out)
    BY <1>1, <1>2, <1>6, <2>1 DEF CountSet
  <2>2. CASE ~NoLeg(run.out)
    <3>1. count' = [count EXCEPT !.lone = lone]
      BY ONLY <1>1, <2>2
    <3> QED
      BY ONLY <1>2, <1>6, <2>2, <3>1 DEF CountSet
  <2> QED
    BY <2>1, <2>2
<1>10. Tallied(ledger, c + 1, count'.pairs, count'.lone, count'.no) /\ count'.lone + count'.no = soft
  BY <1>7, <1>8, <1>9
<1>11. CASE soft > FailureBudget
  <2>1. run' \in RunSet /\ run'.step = "raised"
    <3>1. run' = [run EXCEPT !.step = "raised", !.why = "budget", !.soft = soft]
      BY ONLY <1>1, <1>11
    <3>2. "raised" \in Steps /\ "budget" \in Whys
      BY DEF Steps, Whys
    <3> QED
      BY ONLY <1>2, <1>6, <3>1, <3>2 DEF RunSet
  <2>2. SchedulerTyped'
    BY <1>1, <1>9, <2>1 DEF SchedulerInv, SchedulerTyped, RunSet, CountSet
  <2> QED
    BY <1>1, <1>5, <2>1, <2>2, RaisedInv
<1>12. CASE ~(soft > FailureBudget)
  <2> DEFINE d == c + 1
  <2>1. d \in Nat /\ soft <= FailureBudget
    BY <1>2, <1>6, <1>12
  <2>2. run' = [step |-> "clock", cycle |-> d, out |-> <<>>, soft |-> soft, why |-> run.why]
    BY ONLY <1>1, <1>12
  <2> HIDE DEF d
  <2>3. run' \in RunSet /\ run'.step = "clock" /\ run'.cycle = d /\ run'.out = <<>> /\ run'.soft = soft
    BY <1>2, <1>6, <2>1, <2>2 DEF RunSet, Steps
  <2>4. mode.stream => count'.written + count'.noop = count'.pairs
    BY <1>2, <1>3, <1>9
  <2> QED
    BY <1>1, <1>3, <1>5, <1>9, <1>10, <2>1, <2>3, <2>4, NextCycleInv DEF d
<1> QED
  BY <1>11, <1>12

\* A run that is left keeps its counters.
LEMMA LeftInv ==
    ASSUME SchedulerInv, NEW why \in Whys, Raise(why), UNCHANGED <<mode, count, pending, ledger>>,
           ingest'["scheduler"].step = "idle"
    PROVE  SchedulerInv'
<1>1. run \in RunSet /\ run' = [run EXCEPT !.step = "raised", !.why = why]
  BY CountsTyped DEF Raise
<1>2. run' \in RunSet /\ run'.step = "raised"
  BY <1>1 DEF RunSet, Steps
<1>3. SchedulerTyped'
  BY <1>2 DEF SchedulerInv, SchedulerTyped, RunSet
<1> QED
  BY <1>2, <1>3, RaisedInv

LEMMA SchedulerReads ==
    ASSUME IInv, SchedulerInv, NEW k \in Callers, ReadPM(k) \/ ReadHL(k) PROVE SchedulerInv'
<1>1. ingest \in [Callers -> Reading] /\ "scheduler" \in Callers /\ Callers = {"scheduler", "operator"}
  BY DEF IInv, TypeInv, Callers
<1>2. UNCHANGED <<mode, count, pending, ledger>>
  BY DEF ReadPM, ReadHL, scheduler
<1>3. CASE UNCHANGED run /\ k = "scheduler"
  <2>1. At("ingest")
    BY <1>3 DEF ReadPM, ReadHL, SchedulerInv, CycleInv
  <2> QED
    BY <1>2, <1>3, <2>1, OthersInv
<1>4. CASE UNCHANGED run /\ k = "operator"
  <2>1. ingest'["scheduler"] = ingest["scheduler"]
    BY <1>1, <1>4 DEF ReadPM, ReadHL
  <2> QED
    BY <1>2, <1>4, <2>1, OthersInv
<1>5. CASE ~UNCHANGED run
  <2>1. k = "scheduler" /\ Raise("projection") /\ ingest' = [ingest EXCEPT ![k] = NotIngesting]
    BY <1>5 DEF ReadPM, ReadHL, scheduler
  <2>2. ingest'["scheduler"].step = "idle"
    BY <1>1, <2>1 DEF NotIngesting
  <2> QED
    BY <1>2, <2>1, <2>2, LeftInv DEF Whys
<1> QED
  BY <1>1, <1>3, <1>4, <1>5

LEMMA SchedulerInserts ==
    ASSUME IInv, SchedulerInv, NEW k \in Callers, NEW wrote \in BOOLEAN, InsertRow(k, wrote)
    PROVE  SchedulerInv'
<1>1. ingest \in [Callers -> Reading] /\ "scheduler" \in Callers /\ Callers = {"scheduler", "operator"}
  BY DEF IInv, TypeInv, Callers
<1>2. UNCHANGED <<mode, pending, ledger>> /\ ingest' = [ingest EXCEPT ![k] = NotIngesting]
  BY DEF InsertRow
<1>3. CASE k = "operator"
  <2>1. ingest'["scheduler"] = ingest["scheduler"] /\ UNCHANGED <<run, count>>
    BY <1>1, <1>2, <1>3 DEF InsertRow
  <2> QED
    BY <1>2, <2>1, OthersInv
<1>4. CASE k = "scheduler"
  <2>1. ingest'["scheduler"].step = "idle"
    BY <1>1, <1>2, <1>4 DEF NotIngesting
  <2>2. run.step = "ingest"
    BY <1>4 DEF InsertRow, SchedulerInv, CycleInv, At
  <2>3. CASE ~wrote
    BY <1>2, <1>4, <2>1, <2>3, LeftInv DEF InsertRow, Whys
  <2>4. CASE wrote
    <3> DEFINE c == run.cycle  d == c + 1
    <3>1. /\ run' = NextCycle
          /\ \/ count' = [count EXCEPT !.noop = count.noop + 1]
             \/ count' = [count EXCEPT !.written = count.written + 1]
      <4>1. count \in CountSet
        BY CountsTyped
      <4> QED
        BY <1>4, <2>4, <4>1 DEF InsertRow, CountSet
    <3>2. /\ run \in RunSet /\ count \in CountSet /\ c \in Nat /\ d \in Nat
          /\ mode \in [https : BOOLEAN, stream : BOOLEAN]
          /\ count.written \in Nat /\ count.noop \in Nat
      BY CountsTyped
    <3>3. run' = [step |-> "clock", cycle |-> d, out |-> <<>>, soft |-> run.soft, why |-> run.why]
      BY <3>1, <3>2, NextCycleIs
    <3>4. /\ Tallied(ledger, d, count.pairs, count.lone, count.no) /\ count.total = d
          /\ count.lone + count.no = run.soft /\ run.soft <= FailureBudget
          /\ mode.stream /\ count.written + count.noop + 1 = count.pairs
      <4>1. Counted = d
        BY <2>2, <3>2 DEF Counted, At
      <4> QED
        BY <2>2, <4>1 DEF SchedulerInv, CountInv, At
    <3> HIDE DEF d
    <3>5. run' \in RunSet /\ run'.step = "clock" /\ run'.cycle = d /\ run'.out = <<>> /\ run'.soft = run.soft
      BY <3>2, <3>3 DEF RunSet, Steps
    <3>6. /\ count' \in CountSet /\ count'.total = count.total /\ count'.pairs = count.pairs
          /\ count'.lone = count.lone /\ count'.no = count.no
          /\ count'.written + count'.noop = count.written + count.noop + 1
      <4> DEFINE noop == count.noop + 1  written == count.written + 1
      <4>1. noop \in Nat /\ written \in Nat
        BY <3>2
      <4>2. CASE count' = [count EXCEPT !.noop = noop]
        <5> HIDE DEF noop
        <5>1. /\ count' \in CountSet /\ count'.total = count.total /\ count'.pairs = count.pairs
              /\ count'.lone = count.lone /\ count'.no = count.no
              /\ count'.written = count.written /\ count'.noop = noop
          BY ONLY <3>2, <4>1, <4>2 DEF CountSet
        <5> QED
          BY <3>2, <5>1 DEF noop
      <4>3. CASE count' = [count EXCEPT !.written = written]
        <5> HIDE DEF written
        <5>1. /\ count' \in CountSet /\ count'.total = count.total /\ count'.pairs = count.pairs
              /\ count'.lone = count.lone /\ count'.no = count.no
              /\ count'.written = written /\ count'.noop = count.noop
          BY ONLY <3>2, <4>1, <4>3 DEF CountSet
        <5> QED
          BY <3>2, <5>1 DEF written
      <4> QED
        BY <3>1, <4>2, <4>3
    <3> QED
      BY <1>2, <2>1, <2>2, <3>4, <3>5, <3>6, NextCycleInv DEF d
  <2> QED
    BY <2>3, <2>4
<1> QED
  BY <1>1, <1>3, <1>4

LEMMA SchedulerNext == IInv /\ SchedulerInv /\ [Next]_vars => SchedulerInv'
<1> SUFFICES ASSUME IInv, SchedulerInv, [Next]_vars PROVE SchedulerInv'
  OBVIOUS
<1>1. CASE Step
  <2>1. CASE TransportRaises
    <3>1. Raise("transport") /\ UNCHANGED <<mode, count, pending, ledger>> /\ ingest'["scheduler"].step = "idle"
      BY <2>1 DEF TransportRaises, SchedulerInv, CycleInv, At
    <3> QED
      BY <3>1, LeftInv DEF Whys
  <2> QED
    BY <1>1, <2>1, StartCycleInv, FinishInv, CommittedPairInv, SoftFailureInv, CaptureInv, AppendRowInv,
       SchedulerReads, SchedulerInserts DEF Step, Callers
<1>2. CASE Die
  <2>1. Raise("died") /\ UNCHANGED <<mode, count, pending, ledger>> /\ ingest'["scheduler"].step = "idle"
    BY <1>2 DEF Die, IInv, TypeInv, Callers, NotIngesting
  <2> QED
    BY <2>1, LeftInv DEF Whys
<1>3. CASE Operator
  BY <1>3, SchedulerReads, SchedulerInserts DEF Operator, Callers
<1>4. CASE Fetch
  BY <1>4, OthersInv DEF Fetch, BeginFetch, Captured, FetchFailed, FetchLost, scheduler
<1>5. CASE UNCHANGED vars
  BY <1>5, OthersInv DEF vars, scheduler
<1> QED
  BY <1>1, <1>2, <1>3, <1>4, <1>5 DEF Next

(* What the scheduler has counted and what waits for its row follow from   *)
(* the rows of its ledger and from the two captures of the cycle.          *)
THEOREM SchedulerInductive == Spec => [](IInv /\ SchedulerInv)
<1>1. Init => IInv /\ SchedulerInv
  BY InitIInv, SchedulerInit
<1>2. IInv /\ SchedulerInv /\ [Next]_vars => (IInv /\ SchedulerInv)'
  BY NextIInv, SchedulerNext
<1> QED
  BY <1>1, <1>2, PTL DEF Spec

\* The rows of a whole cycle that are good.
LEMMA WholeIs ==
    ASSUME SchedulerInv, NEW n \in Nat, 2 * n + 2 <= Len(ledger)
    PROVE  Whole(n) = (IF OkAt(ledger, 2 * n + 1) THEN {2 * n + 1} ELSE {}) \cup
                      (IF OkAt(ledger, 2 * n + 2) THEN {2 * n + 2} ELSE {})
<1>1. /\ DOMAIN ledger = 1..Len(ledger) /\ Len(ledger) \in Nat
      /\ \A m \in 1..Len(ledger) : ledger[m].cycle = (m - 1) \div 2
  <2>1. ledger \in Seq(LedgerRows)
    BY DEF SchedulerInv, SchedulerTyped
  <2>2. \A m \in 1..Len(ledger) : ledger[m].cycle = (m - 1) \div 2
    BY DEF SchedulerInv, RowsInOrder
  <2> QED
    BY <2>1, <2>2
<1>2. \A m \in 1..Len(ledger) : (m - 1) \div 2 = n <=> m \in {2 * n + 1, 2 * n + 2}
  <2>1. \A m \in Nat : m >= 1 => ((m - 1) \div 2 = n <=> m = 2 * n + 1 \/ m = 2 * n + 2)
    BY ONLY n \in Nat
  <2> QED
    BY ONLY <1>1, <2>1
<1>3. 2 * n + 1 \in 1..Len(ledger) /\ 2 * n + 2 \in 1..Len(ledger)
  BY <1>1
<1>4. Whole(n) = {m \in 1..Len(ledger) : m \in {2 * n + 1, 2 * n + 2} /\ OkAt(ledger, m)}
  BY <1>1, <1>2 DEF Whole, OkAt
<1> QED
  BY <1>3, <1>4

LEMMA WholeCounts ==
    ASSUME SchedulerInv, NEW n \in Nat, 2 * n + 2 <= Len(ledger)
    PROVE  LET one == OkAt(ledger, 2 * n + 1)
               two == OkAt(ledger, 2 * n + 2)
           IN /\ Cardinality(Whole(n)) = 2 <=> one /\ two
              /\ Cardinality(Whole(n)) = 1 <=> one # two
              /\ Cardinality(Whole(n)) = 0 <=> ~one /\ ~two
<1> DEFINE one == OkAt(ledger, 2 * n + 1)
           two == OkAt(ledger, 2 * n + 2)
<1>1. one \in BOOLEAN /\ two \in BOOLEAN
  <2>1. 2 * n + 1 \in 1..Len(ledger) /\ 2 * n + 2 \in 1..Len(ledger) /\ ledger \in Seq(LedgerRows)
    BY DEF SchedulerInv, SchedulerTyped
  <2>2. ledger[2 * n + 1] \in LedgerRows /\ ledger[2 * n + 2] \in LedgerRows
    BY <2>1
  <2> QED
    BY <2>2 DEF OkAt, LedgerRows
<1>2. Whole(n) = (IF one THEN {2 * n + 1} ELSE {}) \cup (IF two THEN {2 * n + 2} ELSE {})
  BY WholeIs
<1> HIDE DEF one, two
<1>3. CASE one /\ two
  <2>1. Whole(n) = {2 * n + 1, 2 * n + 2} /\ 2 * n + 1 # 2 * n + 2
    BY <1>2, <1>3
  <2>2. Cardinality(Whole(n)) = 2
    <3>1. Whole(n) = {2 * n + 1} \cup {2 * n + 2} /\ 2 * n + 2 \notin {2 * n + 1}
      BY <2>1
    <3>2. IsFiniteSet({2 * n + 1}) /\ Cardinality({2 * n + 1}) = 1
      BY FS_Singleton
    <3> DEFINE S == {2 * n + 1}  x == 2 * n + 2
    <3>3. IsFiniteSet(S) /\ x \notin S /\ Cardinality(S) = 1
      BY <3>1, <3>2
    <3> HIDE DEF S, x
    <3>4. Cardinality(S \cup {x}) = Cardinality(S) + 1
      BY <3>3, FS_AddElement
    <3> QED
      BY <3>1, <3>3, <3>4 DEF S, x
  <2> QED
    BY <1>1, <1>3, <2>2 DEF one, two
<1>4. CASE one /\ ~two
  <2>1. Cardinality(Whole(n)) = 1
    BY <1>2, <1>4, FS_Singleton
  <2> QED
    BY <1>4, <2>1 DEF one, two
<1>5. CASE ~one /\ two
  <2>1. Cardinality(Whole(n)) = 1
    BY <1>2, <1>5, FS_Singleton
  <2> QED
    BY <1>5, <2>1 DEF one, two
<1>6. CASE ~one /\ ~two
  <2>1. Cardinality(Whole(n)) = 0
    BY <1>2, <1>6, FS_EmptySet
  <2> QED
    BY <1>1, <1>6, <2>1 DEF one, two
<1> QED
  BY <1>1, <1>3, <1>4, <1>5, <1>6

(* The ledger is a sequence of whole cycles, each row has the bytes of its *)
(* own leg and cycle, and the report of a run that ends adds up to it      *)
(* (run_bounded_collection, ExecutionWiring.ledger_append,                 *)
(* run_bounded_24h_collection).                                            *)
THEOREM ReportIsTheLedger == Spec => []ReportMatchesLedger
<1>1. ASSUME SchedulerInv PROVE ReportMatchesLedger
  <2>1. /\ DOMAIN ledger = 1..Len(ledger) /\ Len(ledger) \in Nat /\ run.cycle \in Nat /\ ledger \in Seq(LedgerRows)
        /\ count \in CountSet /\ mode \in [https : BOOLEAN, stream : BOOLEAN]
    BY <1>1, CountsTyped DEF SchedulerInv, SchedulerTyped
  <2>2. ASSUME NEW n \in 1..Len(ledger)
        PROVE  /\ ledger[n].cycle = (n - 1) \div 2 /\ ledger[n].leg = Legs[((n - 1) % 2) + 1]
               /\ ledger[n].from = [leg |-> ledger[n].leg, cycle |-> ledger[n].cycle]
    <3>1. /\ ledger[n].cycle = (n - 1) \div 2
          /\ ledger[n].leg = IF n % 2 = 1 THEN "HL" ELSE "PM"
          /\ ledger[n].from = [leg |-> ledger[n].leg, cycle |-> ledger[n].cycle]
      BY <1>1 DEF SchedulerInv, RowsInOrder
    <3>2. Legs[((n - 1) % 2) + 1] = IF n % 2 = 1 THEN "HL" ELSE "PM"
      <4>1. CASE n % 2 = 1
        <5>1. ((n - 1) % 2) + 1 = 1
          BY <4>1
        <5> QED
          BY <4>1, <5>1, LegsAre
      <4>2. CASE n % 2 # 1
        <5>1. ((n - 1) % 2) + 1 = 2
          BY <4>2
        <5> QED
          BY <4>2, <5>1, LegsAre
      <4> QED
        BY <4>1, <4>2
    <3> QED
      BY <3>1, <3>2
  <2>3. run.why # "missing_body"
    <3>1. run.why \in Whys
      BY <1>1, CountsTyped DEF RunSet
    <3> QED
      BY <3>1 DEF Whys
  <2>4. ASSUME At("done")
        PROVE  LET having(m) == Cardinality({n \in 0..(count.total - 1) : Cardinality(Whole(n)) = m}) IN
          /\ Len(ledger) = 2 * count.total
          /\ count.pairs = having(2) /\ count.lone = having(1) /\ count.no = having(0)
          /\ mode.stream => count.pairs = count.written + count.noop
          /\ RunReport.hyperliquid = Cardinality({n \in DOMAIN ledger : ledger[n].leg = "HL" /\ ledger[n].ok})
          /\ RunReport.hyperliquid + RunReport.polymarket = 2 * RunReport.paired + count.lone
          /\ RunReport.paired + RunReport.failed = count.total /\ RunReport.budget >= 0
    <3> DEFINE d == count.total
    <3>1. /\ run.cycle = d /\ d \in Nat /\ Len(ledger) = 2 * d
          /\ count.pairs \in Nat /\ count.lone \in Nat /\ count.no \in Nat
          /\ count.written \in Nat /\ count.noop \in Nat /\ FailureBudget \in Nat /\ run.soft \in Nat
      <4>1. count.total = run.cycle + 0 /\ Appended = 0
        BY <1>1, <2>4 DEF SchedulerInv, CountInv, CycleInv, At
      <4>2. Len(ledger) = 2 * run.cycle
        <5>1. Len(ledger) - 2 * run.cycle = 0
          BY <4>1 DEF Appended
        <5>2. Len(ledger) \in Nat /\ run.cycle \in Nat
          BY <2>1
        <5> QED
          BY ONLY <5>1, <5>2
      <4> QED
        BY <1>1, <2>1, <4>1, <4>2, CountsTyped
    <3>2. /\ Tallied(ledger, d, count.pairs, count.lone, count.no)
          /\ count.lone + count.no = run.soft /\ run.soft <= FailureBudget
          /\ mode.stream => count.written + count.noop + 0 = count.pairs
      <4>1. Counted = d
        BY <2>4, <3>1 DEF Counted, At
      <4> QED
        BY <1>1, <2>4, <4>1 DEF SchedulerInv, CountInv, At
    <3> HIDE DEF d
    <3>3. /\ {n \in 0..(d - 1) : Cardinality(Whole(n)) = 2} = Pairs(ledger, d)
          /\ {n \in 0..(d - 1) : Cardinality(Whole(n)) = 1} = Lone(ledger, d)
          /\ {n \in 0..(d - 1) : Cardinality(Whole(n)) = 0} = None(ledger, d)
      <4>1. ASSUME NEW n \in 0..(d - 1)
            PROVE  /\ Cardinality(Whole(n)) = 2 <=> OkAt(ledger, 2 * n + 1) /\ OkAt(ledger, 2 * n + 2)
                   /\ Cardinality(Whole(n)) = 1 <=> OkAt(ledger, 2 * n + 1) # OkAt(ledger, 2 * n + 2)
                   /\ Cardinality(Whole(n)) = 0 <=> ~OkAt(ledger, 2 * n + 1) /\ ~OkAt(ledger, 2 * n + 2)
        <5>1. n \in Nat /\ 2 * n + 2 <= Len(ledger)
          BY <3>1
        <5> QED
          BY <1>1, <5>1, WholeCounts
      <4> QED
        BY <4>1 DEF Pairs, Lone, None
    <3>4. /\ {n \in DOMAIN ledger : n % 2 = 1 /\ ledger[n].ok} = OkRows(ledger, d, 1)
          /\ {n \in DOMAIN ledger : n % 2 = 0 /\ ledger[n].ok} = OkRows(ledger, d, 0)
      BY <2>1, <3>1 DEF OkRows, OkAt
    <3>5. {n \in DOMAIN ledger : ledger[n].leg = "HL" /\ ledger[n].ok} = OkRows(ledger, d, 1)
      <4>1. \A n \in 1..Len(ledger) : ledger[n].leg = "HL" <=> n % 2 = 1
        BY <1>1 DEF SchedulerInv, RowsInOrder
      <4> QED
        BY <2>1, <3>4, <4>1
    <3>6. /\ RunReport.hyperliquid = Cardinality(OkRows(ledger, d, 1))
          /\ RunReport.polymarket = Cardinality(OkRows(ledger, d, 0))
          /\ RunReport.paired = count.pairs /\ RunReport.failed = count.lone + count.no
          /\ RunReport.budget = FailureBudget - (count.lone + count.no)
      BY <3>4 DEF RunReport, CommittedAt
    <3>7. Cardinality(OkRows(ledger, d, 0)) \in Nat /\ Cardinality(OkRows(ledger, d, 1)) \in Nat
      BY <3>1, TallyFinite, FS_CardinalityType
    <3>8. /\ Cardinality(Pairs(ledger, d)) = count.pairs /\ Cardinality(Lone(ledger, d)) = count.lone
          /\ Cardinality(None(ledger, d)) = count.no /\ count.pairs + count.lone + count.no = d
          /\ Cardinality(OkRows(ledger, d, 0)) + Cardinality(OkRows(ledger, d, 1)) = 2 * count.pairs + count.lone
      BY <3>2 DEF Tallied
    <3>9. /\ RunReport.hyperliquid + RunReport.polymarket = 2 * RunReport.paired + count.lone
          /\ RunReport.paired + RunReport.failed = d /\ RunReport.budget >= 0
      <4> DEFINE one == Cardinality(OkRows(ledger, d, 1))  two == Cardinality(OkRows(ledger, d, 0))
                 p == count.pairs  q == count.lone  r == count.no  soft == run.soft
      <4>1. /\ one \in Nat /\ two \in Nat /\ p \in Nat /\ q \in Nat /\ r \in Nat /\ FailureBudget \in Nat
            /\ two + one = 2 * p + q /\ p + q + r = d /\ q + r = soft /\ soft <= FailureBudget
        BY <3>1, <3>2, <3>7, <3>8
      <4> HIDE DEF one, two, p, q, r, soft
      <4>2. one + two = 2 * p + q /\ p + (q + r) = d /\ FailureBudget - (q + r) >= 0
        BY ONLY <4>1
      <4> QED
        BY <3>6, <4>2 DEF one, two, p, q, r
    <3>10. mode.stream => count.pairs = count.written + count.noop
      BY <3>1, <3>2
    <3> QED
      BY <3>1, <3>3, <3>5, <3>6, <3>8, <3>9, <3>10 DEF d
  <2> QED
    BY <2>1, <2>2, <2>3, <2>4 DEF ReportMatchesLedger
<1> QED
  BY <1>1, SchedulerInductive, PTL

(* A set of naturals has a least element. *)
LEMMA LeastNatural ==
    ASSUME NEW T, T \subseteq Nat, T # {}
    PROVE  \E x \in T : \A y \in T : x <= y
<1>1. PICK x \in T : \A y \in T : ~(<<y, x>> \in OpToRel(<, Nat))
  BY WFMin, NatLessThanWellFounded
<1>2. \A y \in T : ~(y < x)
  <2> SUFFICES ASSUME NEW y \in T, y < x PROVE FALSE
    OBVIOUS
  <2>1. <<y, x>> \in {ss \in Nat \X Nat : ss[1] < ss[2]}
    OBVIOUS
  <2> QED
    BY <1>1, <2>1, Zenon DEF OpToRel
<1> QED
  BY <1>2

(***************************************************************************)
(* Canonical texts.                                                        *)
(***************************************************************************)
\* f is the text of every number up to n.
TextStep(f, m) == IF m < 10 THEN <<m>> ELSE Append(f[m \div 10], m % 10)
TextTo(f, n) == \A m \in 0..n : f[m] = TextStep(f, m)

LEMMA TextToExists == ASSUME NEW n \in Nat PROVE \E f : TextTo(f, n)
<1> DEFINE T == {m \in Nat : ~ \E f : TextTo(f, m)}
<1> SUFFICES ASSUME T # {} PROVE FALSE
  OBVIOUS
<1>1. PICK m \in T : \A k \in T : m <= k
  <2>1. T \subseteq Nat
    OBVIOUS
  <2> HIDE DEF T
  <2> QED
    BY <2>1, LeastNatural
<1>2. \E f : TextTo(f, m)
  <2>1. CASE m = 0
    <3> DEFINE z == [k \in 0..0 |-> <<0>>]
    <3>1. TextTo(z, 0)
      BY DEF TextTo, TextStep
    <3> QED
      BY <2>1, <3>1
  <2>2. CASE m # 0
    <3>1. m - 1 \in Nat /\ m - 1 \notin T /\ m \in Nat
      <4>1. T \subseteq Nat
        OBVIOUS
      <4> HIDE DEF T
      <4> QED
        BY <1>1, <2>2, <4>1
    <3>2. PICK f : TextTo(f, m - 1)
      BY <3>1
    <3> DEFINE g == [k \in 0..m |-> IF k = m THEN TextStep(f, m) ELSE f[k]]
    <3>3. ASSUME NEW k \in 0..m PROVE g[k] = TextStep(g, k)
      <4>1. k >= 10 => k \div 10 \in 0..(m - 1) /\ g[k \div 10] = f[k \div 10]
        BY <3>1
      <4>2. TextStep(g, k) = TextStep(f, k)
        BY <4>1 DEF TextStep
      <4>3. g[k] = TextStep(f, k)
        BY <3>1, <3>2 DEF TextTo
      <4> QED
        BY <4>2, <4>3
    <3>4. TextTo(g, m)
      BY <3>3 DEF TextTo
    <3> QED
      BY <3>4
  <2> QED
    BY <2>1, <2>2
<1> QED
  BY <1>1, <1>2

LEMMA TextToUnique ==
    ASSUME NEW f, NEW g, NEW n \in Nat, NEW k \in Nat, TextTo(f, n), TextTo(g, k),
           NEW x \in Nat, x <= n, x <= k
    PROVE  f[x] = g[x]
<1> DEFINE T == {m \in Nat : m <= n /\ m <= k /\ f[m] # g[m]}
<1> SUFFICES ASSUME T # {} PROVE FALSE
  OBVIOUS
<1>1. PICK m \in T : \A j \in T : m <= j
  <2>1. T \subseteq Nat
    OBVIOUS
  <2> HIDE DEF T
  <2> QED
    BY <2>1, LeastNatural
<1>2. m \in Nat /\ m \in 0..n /\ m \in 0..k /\ f[m] # g[m]
  OBVIOUS
<1>3. f[m] = TextStep(f, m) /\ g[m] = TextStep(g, m)
  BY <1>2 DEF TextTo
<1>4. m >= 10 => f[m \div 10] = g[m \div 10]
  <2>1. m >= 10 => m \div 10 \in Nat /\ m \div 10 < m
    BY <1>2
  <2>2. m >= 10 => m \div 10 \notin T
    BY <1>1, <1>2, <2>1
  <2> QED
    BY <1>2, <2>1, <2>2
<1> QED
  BY <1>2, <1>3, <1>4 DEF TextStep

(* str() of a number: its last digit and the text of the others. *)
LEMMA TextIs ==
    \A n \in Nat : Text[n] = IF n < 10 THEN <<n>> ELSE Append(Text[n \div 10], n % 10)
<1> DEFINE Is(f) == f = [n \in Nat |-> IF n < 10 THEN <<n>> ELSE Append(f[n \div 10], n % 10)]
           Of(n) == CHOOSE f : TextTo(f, n)
           F == [n \in Nat |-> Of(n)[n]]
<1>1. \A n \in Nat : TextTo(Of(n), n)
  BY TextToExists
<1> HIDE DEF Of
<1>2. ASSUME NEW n \in Nat PROVE F[n] = IF n < 10 THEN <<n>> ELSE Append(F[n \div 10], n % 10)
  <2>1. Of(n)[n] = TextStep(Of(n), n)
    BY <1>1 DEF TextTo
  <2>2. CASE n < 10
    BY <2>1, <2>2 DEF TextStep
  <2>3. CASE n >= 10
    <3>1. n \div 10 \in Nat /\ n \div 10 <= n
      BY <2>3
    <3>2. Of(n)[n \div 10] = Of(n \div 10)[n \div 10]
      BY <1>1, <3>1, TextToUnique
    <3> QED
      BY <2>1, <2>3, <3>1, <3>2 DEF TextStep
  <2> QED
    BY <2>2, <2>3
<1>3. Is(F)
  <2> HIDE DEF F
  <2>1. F = [n \in Nat |-> F[n]]
    BY DEF F
  <2> QED
    BY <1>2, <2>1
<1>4. Text = CHOOSE f : Is(f)
  BY DEF Text
<1>5. Is(Text)
  BY <1>3, <1>4
<1> QED
  BY <1>5

LEMMA TextIsText == \A n \in Nat : Text[n] \in Seq(Nat) /\ Text[n] # <<>>
<1> DEFINE T == {n \in Nat : ~(Text[n] \in Seq(Nat) /\ Text[n] # <<>>)}
<1> SUFFICES ASSUME T # {} PROVE FALSE
  OBVIOUS
<1>1. PICK m \in T : \A j \in T : m <= j
  <2>1. T \subseteq Nat
    OBVIOUS
  <2> HIDE DEF T
  <2> QED
    BY <2>1, LeastNatural
<1>2. m \in Nat /\ ~(Text[m] \in Seq(Nat) /\ Text[m] # <<>>)
  OBVIOUS
<1>3. CASE m < 10
  <2>1. Text[m] = <<m>>
    BY ONLY <1>2, <1>3, TextIs
  <2> QED
    BY <1>2, <2>1
<1>4. CASE m >= 10
  <2>1. m \div 10 \in Nat /\ m \div 10 < m /\ m % 10 \in Nat
    BY <1>2, <1>4
  <2>2. m \div 10 \notin T
    BY <1>1, <1>2, <2>1
  <2>3. Text[m \div 10] \in Seq(Nat)
    BY <2>1, <2>2
  <2>4. Text[m] = Append(Text[m \div 10], m % 10)
    <3>1. ~(m < 10)
      BY <1>2, <1>4
    <3> QED
      BY ONLY <1>2, <3>1, TextIs
  <2>5. ASSUME NEW s \in Seq(Nat), NEW d \in Nat
        PROVE  Append(s, d) \in Seq(Nat) /\ Append(s, d) # <<>>
    OBVIOUS
  <2>6. Text[m] \in Seq(Nat) /\ Text[m] # <<>>
    BY ONLY <2>1, <2>3, <2>4, <2>5
  <2> QED
    BY <1>2, <2>6
<1> QED
  BY <1>2, <1>3, <1>4

LEMMA TextShort == ASSUME NEW n \in Nat, n < 10 PROVE Text[n] = <<n>>
BY TextIs

LEMMA DivMod ==
    ASSUME NEW n \in Nat, NEW q \in Nat, q = n \div 10
    PROVE  n = 10 * q + (n % 10) /\ n % 10 \in 0..9
<1>1. n = 10 * q + (n % 10)
  OBVIOUS
<1>2. n % 10 \in 0..9
  OBVIOUS
<1> QED
  BY <1>1, <1>2

LEMMA TextLong ==
    ASSUME NEW n \in Nat, n >= 10
    PROVE  /\ n \div 10 \in Nat /\ n \div 10 > 0 /\ n \div 10 < n /\ n % 10 \in 0..9
           /\ n = 10 * (n \div 10) + (n % 10)
           /\ Text[n] = Append(Text[n \div 10], n % 10)
           /\ Len(Text[n]) = Len(Text[n \div 10]) + 1
           /\ \A i \in 1..Len(Text[n \div 10]) : Text[n][i] = Text[n \div 10][i]
           /\ Text[n][Len(Text[n])] = n % 10
<1>1. /\ n \div 10 \in Nat /\ n \div 10 > 0 /\ n \div 10 < n /\ n % 10 \in 0..9
      /\ n = 10 * (n \div 10) + (n % 10)
  <2>1. n = 10 * (n \div 10) + (n % 10) /\ n % 10 \in 0..9
    <3>1. n \div 10 \in Nat
      OBVIOUS
    <3> QED
      BY ONLY <3>1, n \in Nat, DivMod
  <2>2. n \div 10 \in Nat
    OBVIOUS
  <2>3. n \div 10 > 0 /\ n \div 10 < n
    BY ONLY <2>1, <2>2, n \in Nat, n >= 10
  <2> QED
    BY <2>1, <2>2, <2>3
<1>2. Text[n] = Append(Text[n \div 10], n % 10)
  <2>1. ~(n < 10)
    OBVIOUS
  <2> QED
    BY ONLY <2>1, n \in Nat, TextIs
<1>3. Text[n \div 10] \in Seq(Nat)
  BY <1>1, TextIsText
<1>4. ASSUME NEW s \in Seq(Nat), NEW d \in Nat
      PROVE  /\ Len(Append(s, d)) = Len(s) + 1
             /\ \A i \in 1..Len(s) : Append(s, d)[i] = s[i]
             /\ Append(s, d)[Len(s) + 1] = d
  OBVIOUS
<1>5. n % 10 \in Nat
  BY <1>1
<1> DEFINE s == Text[n \div 10]  d == n % 10
<1>6. /\ Len(Append(s, d)) = Len(s) + 1
      /\ \A i \in 1..Len(s) : Append(s, d)[i] = s[i]
      /\ Append(s, d)[Len(s) + 1] = d
  BY ONLY <1>3, <1>4, <1>5
<1> QED
  BY ONLY <1>1, <1>2, <1>6

(* Texts are ordered as their numbers are (_compare_canonical). *)
LEMMA TextAscends ==
    ASSUME NEW a \in Nat, NEW b \in Nat, a < b PROVE Precedes(Text[a], Text[b])
<1> DEFINE T == {n \in Nat : \E m \in Nat : m < n /\ ~Precedes(Text[m], Text[n])}
<1> SUFFICES ASSUME T # {} PROVE FALSE
  OBVIOUS
<1>1. PICK n \in T : \A j \in T : n <= j
  <2>1. T \subseteq Nat
    OBVIOUS
  <2> HIDE DEF T
  <2> QED
    BY <2>1, LeastNatural
<1>2. n \in Nat /\ \A k \in Nat : k < n => \A m \in Nat : m < k => Precedes(Text[m], Text[k])
  <2>1. n \in Nat
    OBVIOUS
  <2>2. ASSUME NEW k \in Nat, k < n, NEW m \in Nat, m < k PROVE Precedes(Text[m], Text[k])
    <3>1. k \notin T
      BY <1>1, <2>1, <2>2
    <3> QED
      BY <2>2, <3>1
  <2> QED
    BY <2>1, <2>2
<1>3. PICK m \in Nat : m < n /\ ~Precedes(Text[m], Text[n])
  OBVIOUS
<1> HIDE DEF T
<1>4. CASE n < 10
  <2>1. Text[m] = <<m>> /\ Text[n] = <<n>>
    BY <1>2, <1>3, <1>4, TextShort
  <2>2. 1 \in DOMAIN Text[m] /\ Text[m][1] < Text[n][1] /\ Len(Text[m]) = Len(Text[n])
        /\ \A j \in 1..(1 - 1) : Text[m][j] = Text[n][j]
    BY <1>2, <1>3, <2>1
  <2> QED
    BY <1>3, <2>2 DEF Precedes
<1>5. CASE n >= 10 /\ m < 10
  <2>1. Len(Text[m]) = 1
    BY <1>3, <1>5, TextShort
  <2>2. Len(Text[n]) = Len(Text[n \div 10]) + 1 /\ n \div 10 \in Nat
    BY <1>2, <1>5, TextLong
  <2>3. Len(Text[n \div 10]) > 0
    BY <2>2, TextIsText
  <2>4. Len(Text[n \div 10]) \in Nat
    BY <2>2, TextIsText
  <2>5. Len(Text[m]) < Len(Text[n])
    BY ONLY <2>1, <2>2, <2>3, <2>4
  <2> QED
    BY ONLY <1>3, <2>5 DEF Precedes
<1>6. CASE n >= 10 /\ m >= 10
  <2> DEFINE p == m \div 10  q == n \div 10  s == Text[p]  t == Text[q]
  <2>1. /\ p \in Nat /\ q \in Nat /\ q < n /\ p <= q
        /\ p = q => m % 10 < n % 10
    BY <1>2, <1>3, <1>6
  <2>2. /\ Len(Text[m]) = Len(s) + 1 /\ Len(Text[n]) = Len(t) + 1
        /\ \A i \in 1..Len(s) : Text[m][i] = s[i]
        /\ \A i \in 1..Len(t) : Text[n][i] = t[i]
        /\ Text[m][Len(Text[m])] = m % 10 /\ Text[n][Len(Text[n])] = n % 10
    BY <1>2, <1>3, <1>6, TextLong
  <2>3. /\ s \in Seq(Nat) /\ t \in Seq(Nat) /\ Text[m] \in Seq(Nat) /\ Text[n] \in Seq(Nat)
        /\ Len(s) \in Nat /\ Len(t) \in Nat /\ DOMAIN s = 1..Len(s)
        /\ DOMAIN Text[m] = 1..Len(Text[m])
    <3>1. \A x \in Nat : Text[x] \in Seq(Nat) /\ Len(Text[x]) \in Nat /\ DOMAIN Text[x] = 1..Len(Text[x])
      BY TextIsText
    <3> QED
      BY ONLY <1>2, <1>3, <2>1, <3>1
  <2>4. CASE p = q
    <3> DEFINE i == Len(Text[m])
    <3>1. s = t
      BY <2>4
    <3>2. i \in DOMAIN Text[m] /\ Len(Text[m]) = Len(Text[n])
      BY ONLY <2>2, <2>3, <3>1
    <3>3. Text[m][i] < Text[n][i]
      BY ONLY <2>1, <2>2, <2>4, <3>2
    <3>4. \A j \in 1..(i - 1) : Text[m][j] = Text[n][j]
      <4>1. \A j \in 1..(i - 1) : j \in 1..Len(s)
        BY ONLY <2>2, <2>3
      <4> QED
        BY ONLY <2>2, <3>1, <4>1
    <3>5. Precedes(Text[m], Text[n])
      BY ONLY <3>2, <3>3, <3>4 DEF Precedes
    <3> QED
      BY <1>3, <3>5
  <2>5. CASE p # q
    <3>1. Precedes(s, t)
      <4>1. p < q
        BY <2>1, <2>5
      <4> QED
        BY <1>2, <2>1, <4>1
    <3>2. CASE Len(s) < Len(t)
      <4>1. Len(Text[m]) < Len(Text[n])
        BY ONLY <2>2, <2>3, <3>2
      <4> QED
        BY ONLY <1>3, <4>1 DEF Precedes
    <3>3. CASE ~(Len(s) < Len(t))
      <4>1. PICK i \in DOMAIN s : Len(s) = Len(t) /\ s[i] < t[i] /\ \A j \in 1..(i - 1) : s[j] = t[j]
        BY ONLY <3>1, <3>3 DEF Precedes
      <4>2. i \in 1..Len(s) /\ i \in 1..Len(t) /\ i \in DOMAIN Text[m]
        BY ONLY <2>2, <2>3, <4>1
      <4>3. \A j \in 1..(i - 1) : j \in 1..Len(s) /\ j \in 1..Len(t)
        BY ONLY <2>3, <4>1, <4>2
      <4>4. Text[m][i] < Text[n][i] /\ \A j \in 1..(i - 1) : Text[m][j] = Text[n][j]
        BY ONLY <2>2, <4>1, <4>2, <4>3
      <4>5. Len(Text[m]) = Len(Text[n])
        BY ONLY <2>2, <4>1
      <4> QED
        BY ONLY <1>3, <4>2, <4>4, <4>5 DEF Precedes
    <3> QED
      BY <3>2, <3>3
  <2> QED
    BY <2>4, <2>5
<1> QED
  BY <1>2, <1>3, <1>4, <1>5, <1>6

LEMMA PrecedesIsStrict ==
    ASSUME NEW s \in Seq(Nat), NEW t \in Seq(Nat), Precedes(s, t), Precedes(t, s) PROVE FALSE
<1>1. Len(s) \in Nat /\ Len(t) \in Nat /\ DOMAIN s = 1..Len(s) /\ DOMAIN t = 1..Len(t)
  OBVIOUS
<1>2. Len(s) = Len(t)
  <2>1. Len(s) \in Nat /\ Len(t) \in Nat
    OBVIOUS
  <2>2. Len(s) < Len(t) \/ Len(s) = Len(t)
    BY ONLY Precedes(s, t), Zenon DEF Precedes
  <2>3. Len(t) < Len(s) \/ Len(s) = Len(t)
    BY ONLY Precedes(t, s), Zenon DEF Precedes
  <2> QED
    BY ONLY <2>2, <2>3, <2>1
<1>3. PICK i \in DOMAIN s : s[i] < t[i] /\ \A j \in 1..(i - 1) : s[j] = t[j]
  BY ONLY <1>1, <1>2, Precedes(s, t) DEF Precedes
<1>4. PICK k \in DOMAIN t : t[k] < s[k] /\ \A j \in 1..(k - 1) : t[j] = s[j]
  BY ONLY <1>1, <1>2, Precedes(t, s) DEF Precedes
<1>5. s[i] \in Nat /\ t[i] \in Nat /\ s[k] \in Nat /\ t[k] \in Nat
  BY <1>1, <1>2, <1>3, <1>4
<1>6. i \in Nat /\ k \in Nat /\ i >= 1 /\ k >= 1
  BY <1>1, <1>3, <1>4
<1>7. CASE i < k
  <2>1. i \in 1..(k - 1)
    BY ONLY <1>6, <1>7
  <2>2. t[i] = s[i]
    BY ONLY <1>4, <2>1
  <2> QED
    BY ONLY <1>3, <1>5, <2>2
<1>8. CASE k < i
  <2>1. k \in 1..(i - 1)
    BY ONLY <1>6, <1>8
  <2>2. s[k] = t[k]
    BY ONLY <1>3, <2>1
  <2> QED
    BY ONLY <1>4, <1>5, <2>2
<1>9. CASE i = k
  BY ONLY <1>3, <1>4, <1>5, <1>9
<1> QED
  BY ONLY <1>6, <1>7, <1>8, <1>9

LEMMA TextOrder == \A a, b \in Nat : Precedes(Text[a], Text[b]) <=> a < b
<1> SUFFICES ASSUME NEW a \in Nat, NEW b \in Nat PROVE Precedes(Text[a], Text[b]) <=> a < b
  OBVIOUS
<1>1. ASSUME Precedes(Text[a], Text[b]), ~(a < b) PROVE FALSE
  <2>1. Text[a] \in Seq(Nat) /\ Text[b] \in Seq(Nat)
    BY TextIsText
  <2>2. Precedes(Text[b], Text[a])
    <3>1. CASE a = b
      BY <1>1, <3>1
    <3>2. CASE b < a
      BY <3>2, TextAscends
    <3> QED
      BY <1>1, <3>1, <3>2
  <2> QED
    BY ONLY <1>1, <2>1, <2>2, PrecedesIsStrict
<1> QED
  BY <1>1, TextAscends

\* q[k] is n without its last k digits.
QuotientsOf(q, n, K) ==
    /\ q \in [0..K -> Nat] /\ q[0] = n
    /\ \A k \in 0..(K - 1) : q[k + 1] = q[k] \div 10

LEMMA QuotientsExist == ASSUME NEW n \in Nat, NEW K \in Nat PROVE \E q : QuotientsOf(q, n, K)
<1> DEFINE T == {k \in Nat : ~ \E q : QuotientsOf(q, n, k)}
<1> SUFFICES ASSUME T # {} PROVE FALSE
  OBVIOUS
<1>1. PICK k \in T : \A j \in T : k <= j
  <2>1. T \subseteq Nat
    OBVIOUS
  <2> HIDE DEF T
  <2> QED
    BY <2>1, LeastNatural
<1>2. k \in Nat /\ (k # 0 => \E q : QuotientsOf(q, n, k - 1))
  <2>1. k \in Nat
    OBVIOUS
  <2>2. ASSUME k # 0 PROVE \E q : QuotientsOf(q, n, k - 1)
    <3>1. k - 1 \in Nat /\ ~(k <= k - 1)
      BY <2>1, <2>2
    <3>2. k - 1 \notin T
      BY <1>1, <3>1
    <3> QED
      BY <3>1, <3>2
  <2> QED
    BY <2>1, <2>2
<1>3. ~ \E q : QuotientsOf(q, n, k)
  OBVIOUS
<1> HIDE DEF T
<1>4. CASE k = 0
  <2> DEFINE q == [j \in 0..0 |-> n]
  <2>1. QuotientsOf(q, n, 0)
    BY DEF QuotientsOf
  <2> QED
    BY <1>3, <1>4, <2>1
<1>5. CASE k # 0
  <2>1. PICK p : QuotientsOf(p, n, k - 1)
    BY <1>2, <1>5
  <2> DEFINE q == [j \in 0..k |-> IF j = k THEN p[k - 1] \div 10 ELSE p[j]]
  <2>2. p[k - 1] \in Nat /\ p[k - 1] \div 10 \in Nat
    <3>1. k - 1 \in 0..(k - 1) /\ p \in [0..(k - 1) -> Nat]
      BY <1>2, <1>5, <2>1 DEF QuotientsOf
    <3>2. p[k - 1] \in Nat
      BY <3>1
    <3> QED
      BY ONLY <3>2
  <2>3. q \in [0..k -> Nat] /\ q[0] = n
    BY <1>2, <1>5, <2>1, <2>2 DEF QuotientsOf
  <2>4. ASSUME NEW j \in 0..(k - 1) PROVE q[j + 1] = q[j] \div 10
    <3>1. CASE j = k - 1
      BY <1>2, <1>5, <3>1
    <3>2. CASE j # k - 1
      <4>1. j \in 0..((k - 1) - 1) /\ q[j + 1] = p[j + 1] /\ q[j] = p[j]
        BY <1>2, <1>5, <3>2
      <4> QED
        BY <2>1, <4>1 DEF QuotientsOf
    <3> QED
      BY <3>1, <3>2
  <2>5. QuotientsOf(q, n, k)
    BY <2>3, <2>4 DEF QuotientsOf
  <2> QED
    BY <1>3, <2>5
<1> QED
  BY <1>4, <1>5

\* What is 0 stays 0.
LEMMA QuotientStaysZero ==
    ASSUME NEW n, NEW K \in Nat, NEW q, QuotientsOf(q, n, K), NEW j \in 0..K, q[j] = 0,
           NEW k \in 0..K, j <= k
    PROVE  q[k] = 0
<1> DEFINE T == {i \in Nat : i \in 0..K /\ j <= i /\ q[i] # 0}
<1> SUFFICES ASSUME T # {} PROVE FALSE
  OBVIOUS
<1>1. PICK i \in T : \A m \in T : i <= m
  <2>1. T \subseteq Nat
    OBVIOUS
  <2> HIDE DEF T
  <2> QED
    BY <2>1, LeastNatural
<1>2. i \in Nat /\ i \in 0..K /\ j <= i /\ q[i] # 0
  OBVIOUS
<1>3. i - 1 \in 0..(K - 1) /\ j <= i - 1 /\ i - 1 \in Nat /\ ~(i <= i - 1)
  BY <1>2
<1>4. i - 1 \notin T
  BY <1>1, <1>3
<1>5. q[i - 1] = 0
  BY <1>3, <1>4
<1>6. q[(i - 1) + 1] = 0 \div 10
  BY ONLY <1>3, <1>5, QuotientsOf(q, n, K) DEF QuotientsOf
<1>7. (i - 1) + 1 = i /\ 0 \div 10 = 0
  BY ONLY <1>2
<1> QED
  BY ONLY <1>2, <1>6, <1>7

\* The digits of a text, from the right.
DigitsOf(s, q) ==
    /\ \A k \in 0..(Len(s) - 1) : s[Len(s) - k] = q[k] % 10
    /\ \A k \in 1..(Len(s) - 1) : q[k] > 0
    /\ q[Len(s)] = 0

LEMMA TextDigits ==
    ASSUME NEW n \in Nat, NEW K \in Nat, NEW q, QuotientsOf(q, n, K), Len(Text[n]) <= K
    PROVE  DigitsOf(Text[n], q)
<1> DEFINE Bad(m) == \E k \in Nat : \E p : QuotientsOf(p, m, k) /\ Len(Text[m]) <= k /\ ~DigitsOf(Text[m], p)
           T == {m \in Nat : Bad(m)}
<1> SUFFICES ASSUME T # {} PROVE FALSE
  <2>1. T = {} => ~Bad(n)
    OBVIOUS
  <2> QED
    BY <2>1
<1> HIDE DEF Bad
<1>1. PICK m \in T : \A j \in T : m <= j
  <2>1. T \subseteq Nat
    OBVIOUS
  <2> HIDE DEF T
  <2> QED
    BY <2>1, LeastNatural
<1>2. m \in Nat /\ Bad(m) /\ \A j \in Nat : j < m => ~Bad(j)
  <2>1. m \in Nat /\ Bad(m)
    OBVIOUS
  <2>2. ASSUME NEW j \in Nat, j < m PROVE ~Bad(j)
    <3>1. j \notin T
      BY <1>1, <2>1, <2>2
    <3> QED
      BY <3>1
  <2> QED
    BY <2>1, <2>2
<1> HIDE DEF T
<1>3. PICK k \in Nat : \E p : QuotientsOf(p, m, k) /\ Len(Text[m]) <= k /\ ~DigitsOf(Text[m], p)
  BY <1>2 DEF Bad
<1>4. PICK p : QuotientsOf(p, m, k) /\ Len(Text[m]) <= k /\ ~DigitsOf(Text[m], p)
  BY <1>3
<1>5. p \in [0..k -> Nat] /\ p[0] = m /\ \A j \in 0..(k - 1) : p[j + 1] = p[j] \div 10
  BY <1>4 DEF QuotientsOf
<1>6. CASE m < 10
  <2>1. Text[m] = <<m>>
    BY <1>2, <1>6, TextShort
  <2>2. Len(Text[m]) = 1 /\ Text[m][1] = m
    BY <2>1
  <2>3. p[0 + 1] = m \div 10
    <3>1. 1 <= k /\ 0 \in 0..(k - 1)
      BY <1>4, <2>2
    <3> QED
      BY ONLY <1>5, <3>1
  <2>4. m \div 10 = 0 /\ m % 10 = m
    BY <1>2, <1>6
  <2>5. p[1] = 0
    BY <2>3, <2>4
  <2>6. DigitsOf(Text[m], p)
    BY ONLY <1>2, <1>5, <2>2, <2>4, <2>5 DEF DigitsOf
  <2> QED
    BY <1>4, <2>6
<1>7. CASE m >= 10
  <2> DEFINE s == Text[m]  t == Text[m \div 10]  h == [j \in 0..(k - 1) |-> p[j + 1]]
  <2>1. /\ m \div 10 \in Nat /\ m \div 10 > 0 /\ m \div 10 < m
        /\ Len(s) = Len(t) + 1 /\ \A i \in 1..Len(t) : s[i] = t[i]
        /\ s[Len(s)] = m % 10
    BY <1>2, <1>7, TextLong
  <2>2. Len(t) \in Nat /\ Len(t) # 0
    BY <2>1, TextIsText
  <2>3. k - 1 \in Nat /\ Len(t) <= k - 1
    BY <1>4, <2>1, <2>2
  <2>4. QuotientsOf(h, m \div 10, k - 1)
    <3>1. h \in [0..(k - 1) -> Nat]
      BY <1>4, <1>5
    <3>2. h[0] = m \div 10
      BY <1>4, <1>5, <2>3
    <3>3. \A j \in 0..((k - 1) - 1) : h[j + 1] = h[j] \div 10
      BY <1>4, <1>5, <2>3
    <3> QED
      BY ONLY <3>1, <3>2, <3>3 DEF QuotientsOf
  <2>5. DigitsOf(t, h)
    BY <1>2, <2>1, <2>3, <2>4 DEF Bad
  <2>6. /\ \A j \in 0..(Len(t) - 1) : t[Len(t) - j] = h[j] % 10
        /\ \A j \in 1..(Len(t) - 1) : h[j] > 0
        /\ h[Len(t)] = 0
    BY ONLY <2>5 DEF DigitsOf
  <2>7. \A j \in 0..(k - 1) : h[j] = p[j + 1]
    OBVIOUS
  <2>8. p[1] = m \div 10
    <3>1. 0 \in 0..(k - 1) /\ 0 + 1 = 1
      BY <2>3
    <3> QED
      BY ONLY <1>5, <3>1
  <2> HIDE DEF s, t, h
  <2>9. ASSUME NEW j \in 0..(Len(s) - 1) PROVE s[Len(s) - j] = p[j] % 10
    <3>1. CASE j = 0
      <4>1. Len(s) - 0 = Len(s)
        BY <2>1, <2>2
      <4> QED
        BY ONLY <1>5, <2>1, <3>1, <4>1
    <3>2. CASE j # 0
      <4>1. /\ j - 1 \in 0..(Len(t) - 1) /\ j - 1 \in 0..(k - 1) /\ Len(s) - j = Len(t) - (j - 1)
            /\ Len(s) - j \in 1..Len(t) /\ (j - 1) + 1 = j
        BY ONLY <2>1, <2>2, <2>3, <2>9, <3>2, k \in Nat
      <4>2. t[Len(t) - (j - 1)] = h[j - 1] % 10
        BY ONLY <2>6, <4>1
      <4>3. h[j - 1] = p[j]
        BY ONLY <2>7, <4>1
      <4>4. s[Len(s) - j] = t[Len(s) - j]
        BY ONLY <2>1, <4>1
      <4> QED
        BY ONLY <4>1, <4>2, <4>3, <4>4
    <3> QED
      BY <3>1, <3>2
  <2>10. ASSUME NEW j \in 1..(Len(s) - 1) PROVE p[j] > 0
    <3>1. CASE j = 1
      BY <2>1, <2>8, <3>1
    <3>2. CASE j # 1
      <4>1. j - 1 \in 1..(Len(t) - 1) /\ j - 1 \in 0..(k - 1) /\ (j - 1) + 1 = j
        BY ONLY <2>1, <2>2, <2>3, <2>10, <3>2, k \in Nat
      <4>2. h[j - 1] > 0
        BY ONLY <2>6, <4>1
      <4>3. h[j - 1] = p[j]
        BY ONLY <2>7, <4>1
      <4> QED
        BY ONLY <4>2, <4>3
    <3> QED
      BY <3>1, <3>2
  <2>11. p[Len(s)] = 0
    <3>1. Len(t) \in 0..(k - 1)
      BY ONLY <2>2, <2>3, k \in Nat
    <3>2. h[Len(t)] = p[Len(t) + 1]
      BY ONLY <2>7, <3>1
    <3> QED
      BY ONLY <2>1, <2>6, <3>2
  <2>12. DigitsOf(s, p)
    BY <2>9, <2>10, <2>11 DEF DigitsOf
  <2> QED
    BY <1>4, <2>12 DEF s
<1> QED
  BY <1>2, <1>6, <1>7

Digit(x, k) == IF k < Len(x) THEN x[Len(x) - k] ELSE 0
Wider(s, t) == IF Len(s) < Len(t) THEN Len(t) ELSE Len(s)

\* g is what the addition has in each column.
Columns(g, s, t, W) ==
    \A k \in 0..W : g[k] = Digit(s, k) + Digit(t, k) + (IF k = 0 THEN 0 ELSE g[k - 1] \div 10)
SumText(g, W) ==
    LET length == IF g[W] > 0 THEN W + 1 ELSE W IN [i \in 1..length |-> g[length - i] % 10]

LEMMA AddTextIs ==
    ASSUME NEW s \in Seq(Nat), NEW t \in Seq(Nat)
    PROVE  \E g : Columns(g, s, t, Wider(s, t)) /\ AddText(s, t) = SumText(g, Wider(s, t))
<1> DEFINE W == Wider(s, t)
           At2(g, k) == Digit(s, k) + Digit(t, k) + (IF k = 0 THEN 0 ELSE g[k - 1] \div 10)
           Is(g) == g = [k \in 0..W |-> Digit(s, k) + Digit(t, k) + (IF k = 0 THEN 0 ELSE g[k - 1] \div 10)]
<1>1. W \in Nat
  BY DEF Wider
<1>2. AddText(s, t) = SumText(CHOOSE g : Is(g), W)
  BY DEF AddText, SumText, Digit, Wider
<1> HIDE DEF W
<1>3. \E g : Is(g)
  <2> DEFINE T == {k \in Nat : k <= W /\ ~ \E g : Columns(g, s, t, k)}
  <2>1. T = {}
    <3> SUFFICES ASSUME T # {} PROVE FALSE
      OBVIOUS
    <3>1. PICK k \in T : \A j \in T : k <= j
      <4>1. T \subseteq Nat
        OBVIOUS
      <4> HIDE DEF T
      <4> QED
        BY <4>1, LeastNatural
    <3>2. k \in Nat /\ k <= W /\ ~ \E g : Columns(g, s, t, k)
      OBVIOUS
    <3>3. k # 0 => k - 1 \in Nat /\ k - 1 <= W /\ k - 1 \notin T
      BY <1>1, <3>1, <3>2
    <3>4. CASE k = 0
      <4> DEFINE z == [j \in 0..0 |-> Digit(s, 0) + Digit(t, 0) + 0]
      <4>1. Columns(z, s, t, 0)
        BY DEF Columns
      <4> QED
        BY <3>2, <3>4, <4>1
    <3>5. CASE k # 0
      <4>1. PICK g : Columns(g, s, t, k - 1)
        BY <3>3, <3>5
      <4> DEFINE h == [j \in 0..k |-> IF j = k THEN At2(g, k) ELSE g[j]]
      <4>2. ASSUME NEW j \in 0..k
            PROVE  h[j] = Digit(s, j) + Digit(t, j) + (IF j = 0 THEN 0 ELSE h[j - 1] \div 10)
        <5>1. j # 0 => j - 1 \in 0..k /\ h[j - 1] = g[j - 1]
          BY <3>2
        <5>2. h[j] = At2(g, j)
          <6>1. CASE j = k
            BY <6>1
          <6>2. CASE j # k
            <7>1. j \in 0..(k - 1) /\ h[j] = g[j]
              BY <3>2, <6>2
            <7> QED
              BY <4>1, <7>1 DEF Columns
          <6> QED
            BY <6>1, <6>2
        <5> QED
          BY <5>1, <5>2
      <4>3. Columns(h, s, t, k)
        BY <4>2 DEF Columns
      <4> QED
        BY <3>2, <4>3
    <3> QED
      BY <3>4, <3>5
  <2>2. PICK g : Columns(g, s, t, W)
    <3>1. W \notin T
      BY <2>1
    <3> QED
      BY <1>1, <3>1
  <2> DEFINE h == [k \in 0..W |-> g[k]]
  <2>3. ASSUME NEW k \in 0..W PROVE h[k] = At2(h, k)
    <3>1. k # 0 => k - 1 \in 0..W /\ h[k - 1] = g[k - 1]
      BY <1>1
    <3>2. h[k] = At2(g, k)
      BY <2>2 DEF Columns
    <3> QED
      BY <3>1, <3>2
  <2>4. h = [k \in 0..W |-> At2(h, k)]
    <3>1. h = [k \in 0..W |-> h[k]]
      OBVIOUS
    <3> HIDE DEF h
    <3> QED
      BY <2>3, <3>1
  <2> QED
    BY <2>4
<1>4. PICK g : g = (CHOOSE f : Is(f)) /\ Is(g)
  BY <1>3
<1>5. Columns(g, s, t, W)
  BY <1>4 DEF Columns
<1> QED
  BY <1>2, <1>4, <1>5 DEF W

LEMMA Carry ==
    ASSUME NEW a \in Nat, NEW b \in Nat, NEW c \in {0, 1}
    PROVE  /\ ((a + b + c) \div 10) - (a \div 10) - (b \div 10) \in {0, 1}
           /\ (a + b + c) % 10 = ((a % 10) + (b % 10) + c) % 10
           /\ ((a % 10) + (b % 10) + c) \div 10 = ((a + b + c) \div 10) - (a \div 10) - (b \div 10)
<1> DEFINE p == a \div 10  r == b \div 10  x == a % 10  y == b % 10
<1>1. /\ p \in Nat /\ r \in Nat /\ x \in 0..9 /\ y \in 0..9
      /\ a = 10 * p + x /\ b = 10 * r + y
  <2>1. p \in Nat /\ r \in Nat
    OBVIOUS
  <2> QED
    BY <2>1, DivMod
<1> HIDE DEF p, r, x, y
<1>2. (a + b + c) \div 10 = p + r + ((x + y + c) \div 10)
  BY <1>1
<1>3. (x + y + c) \div 10 \in {0, 1}
  BY <1>1
<1>4. (a + b + c) % 10 = (x + y + c) % 10
  BY <1>1
<1>5. ((a + b + c) \div 10) - p - r = (x + y + c) \div 10
  BY <1>1, <1>2, <1>3
<1> QED
  BY <1>3, <1>4, <1>5 DEF p, r, x, y

(* The texts of two numbers add up to the text of their sum                *)
(* (_add_canonical).                                                       *)
LEMMA AddTextAdds ==
    ASSUME NEW a \in Nat, NEW d \in Nat
    PROVE  AddText(Text[a], Text[d]) = Text[a + d]
<1> DEFINE s == Text[a]  t == Text[d]  u == Text[a + d]
           W == Wider(s, t)  K == W + 2 + Len(u)
<1>1. /\ s \in Seq(Nat) /\ t \in Seq(Nat) /\ u \in Seq(Nat)
      /\ Len(s) \in Nat \ {0} /\ Len(t) \in Nat \ {0} /\ Len(u) \in Nat \ {0}
  <2>1. \A n \in Nat : Text[n] \in Seq(Nat) /\ Len(Text[n]) \in Nat \ {0}
    BY TextIsText
  <2> QED
    BY <2>1
<1> HIDE DEF s, t, u
<1>2. /\ W \in Nat \ {0} /\ Len(s) <= W /\ Len(t) <= W /\ (Len(s) = W \/ Len(t) = W)
      /\ K \in Nat /\ W + 1 <= K /\ Len(u) <= K
  BY <1>1 DEF Wider
<1>3. PICK p : QuotientsOf(p, a, K)
  BY <1>2, QuotientsExist
<1>4. PICK r : QuotientsOf(r, d, K)
  BY <1>2, QuotientsExist
<1>5. PICK q : QuotientsOf(q, a + d, K)
  BY <1>2, QuotientsExist
<1>6. /\ DigitsOf(s, p) /\ DigitsOf(t, r) /\ DigitsOf(u, q)
  <2>1. Len(s) <= K /\ Len(t) <= K /\ a + d \in Nat
    BY <1>1, <1>2
  <2> QED
    BY <1>2, <1>3, <1>4, <1>5, <2>1, TextDigits DEF s, t, u
<1>7. PICK g : Columns(g, s, t, W) /\ AddText(s, t) = SumText(g, W)
  BY <1>1, AddTextIs
<1> HIDE DEF W, K
<1>8. /\ p \in [0..K -> Nat] /\ r \in [0..K -> Nat] /\ q \in [0..K -> Nat]
      /\ p[0] = a /\ r[0] = d /\ q[0] = a + d
      /\ \A k \in 0..(K - 1) : p[k + 1] = p[k] \div 10 /\ r[k + 1] = r[k] \div 10 /\ q[k + 1] = q[k] \div 10
  BY ONLY <1>3, <1>4, <1>5 DEF QuotientsOf
<1>9. \A j, k \in 0..K : j <= k => /\ p[j] = 0 => p[k] = 0
                                   /\ r[j] = 0 => r[k] = 0
                                   /\ q[j] = 0 => q[k] = 0
  <2>1. K \in Nat
    BY <1>2
  <2> QED
    BY ONLY <2>1, <1>3, <1>4, <1>5, QuotientStaysZero
<1>10. p[Len(s)] = 0 /\ r[Len(t)] = 0 /\ q[Len(u)] = 0
  BY ONLY <1>6 DEF DigitsOf
<1>11. \A x, y \in Nat : \A z \in {0, 1} :
          ((x % 10) + (y % 10) + z) \div 10 = ((x + y + z) \div 10) - (x \div 10) - (y \div 10)
  BY ONLY Carry
<1>12. ASSUME NEW k \in 0..W PROVE Digit(s, k) = p[k] % 10 /\ Digit(t, k) = r[k] % 10
  <2>1. 0 % 10 = 0
    OBVIOUS
  <2>2. CASE k < Len(s)
    <3>1. k \in 0..(Len(s) - 1)
      BY ONLY <1>1, <1>2, <1>12, <2>2
    <3> QED
      <4>1. Digit(s, k) = p[k] % 10
        BY ONLY <1>6, <2>2, <3>1 DEF Digit, DigitsOf
      <4>2. Digit(t, k) = r[k] % 10
        <5>1. CASE k < Len(t)
          <6>1. k \in 0..(Len(t) - 1)
            BY ONLY <1>1, <1>2, <1>12, <5>1
          <6> QED
            BY ONLY <1>6, <5>1, <6>1 DEF Digit, DigitsOf
        <5>2. CASE ~(k < Len(t))
          <6>1. Len(t) \in 0..K /\ k \in 0..K /\ Len(t) <= k
            BY ONLY <1>1, <1>2, <1>12, <5>2
          <6>2. r[k] = 0
            BY ONLY <1>9, <1>10, <6>1
          <6> QED
            BY ONLY <2>1, <5>2, <6>2 DEF Digit
        <5> QED
          BY <5>1, <5>2
      <4> QED
        BY <4>1, <4>2
  <2>3. CASE ~(k < Len(s))
    <3>1. Len(s) \in 0..K /\ k \in 0..K /\ Len(s) <= k
      BY ONLY <1>1, <1>2, <1>12, <2>3
    <3>2. p[k] = 0
      BY ONLY <1>9, <1>10, <3>1
    <3>3. Digit(s, k) = p[k] % 10
      BY ONLY <2>1, <2>3, <3>2 DEF Digit
    <3>4. Digit(t, k) = r[k] % 10
      <4>1. CASE k < Len(t)
        <5>1. k \in 0..(Len(t) - 1)
          BY ONLY <1>1, <1>2, <1>12, <4>1
        <5> QED
          BY ONLY <1>6, <4>1, <5>1 DEF Digit, DigitsOf
      <4>2. CASE ~(k < Len(t))
        <5>1. Len(t) \in 0..K /\ Len(t) <= k
          BY ONLY <1>1, <1>2, <1>12, <4>2, <3>1
        <5>2. r[k] = 0
          BY ONLY <1>9, <1>10, <3>1, <5>1
        <5> QED
          BY ONLY <2>1, <4>2, <5>2 DEF Digit
      <4> QED
        BY <4>1, <4>2
    <3> QED
      BY <3>3, <3>4
  <2> QED
    BY <2>2, <2>3
<1> DEFINE c(k) == q[k] - p[k] - r[k]
<1>13. \A k \in 0..K : c(k) \in {0, 1}
  <2> DEFINE T == {k \in Nat : k \in 0..K /\ c(k) \notin {0, 1}}
  <2> SUFFICES ASSUME T # {} PROVE FALSE
    <3>1. \A k \in 0..K : k \in Nat
      BY <1>2
    <3> QED
      BY <3>1
  <2>1. PICK k \in T : \A j \in T : k <= j
    <3>1. T \subseteq Nat
      OBVIOUS
    <3> HIDE DEF T
    <3> QED
      BY <3>1, LeastNatural
  <2>2. k \in Nat /\ k \in 0..K /\ c(k) \notin {0, 1}
    OBVIOUS
  <2>3. CASE k = 0
    <3>1. c(0) = 0
      BY ONLY <1>8, a \in Nat, d \in Nat
    <3> QED
      BY <2>2, <2>3, <3>1
  <2>4. CASE k # 0
    <3> DEFINE j == k - 1
    <3>1. j \in Nat /\ j \in 0..K /\ j \in 0..(K - 1) /\ ~(k <= j) /\ j + 1 = k
      BY ONLY <2>2, <2>4, <1>2
    <3> HIDE DEF j
    <3>2. j \notin T
      BY ONLY <2>1, <3>1
    <3>3. c(j) \in {0, 1}
      BY <3>1, <3>2
    <3>4. p[j] \in Nat /\ r[j] \in Nat /\ q[j] \in Nat
      BY ONLY <1>8, <3>1
    <3>5. q[j] = p[j] + r[j] + c(j)
      BY ONLY <3>4
    <3>6. (q[j] \div 10) - (p[j] \div 10) - (r[j] \div 10) \in {0, 1}
      BY ONLY <3>3, <3>4, <3>5, Carry
    <3>7. p[k] = p[j] \div 10 /\ r[k] = r[j] \div 10 /\ q[k] = q[j] \div 10
      BY ONLY <1>8, <3>1
    <3> QED
      BY ONLY <2>2, <3>6, <3>7
  <2> QED
    BY <2>3, <2>4
<1>14. ASSUME NEW k \in 0..W
       PROVE  g[k] = (p[k] % 10) + (r[k] % 10) + c(k)
  <2>1. g[k] = (p[k] % 10) + (r[k] % 10) + (IF k = 0 THEN 0 ELSE g[k - 1] \div 10)
    BY ONLY <1>7, <1>12, <1>14 DEF Columns
  <2> DEFINE T == {i \in Nat : i \in 0..W /\ g[i] # (p[i] % 10) + (r[i] % 10) + c(i)}
  <2> SUFFICES ASSUME T # {} PROVE FALSE
    <3>1. k \in Nat
      BY <1>2
    <3> QED
      BY <3>1
  <2>2. PICK i \in T : \A j \in T : i <= j
    <3>1. T \subseteq Nat
      OBVIOUS
    <3> HIDE DEF T
    <3> QED
      BY <3>1, LeastNatural
  <2>3. i \in Nat /\ i \in 0..W /\ g[i] # (p[i] % 10) + (r[i] % 10) + c(i)
    OBVIOUS
  <2>4. g[i] = (p[i] % 10) + (r[i] % 10) + (IF i = 0 THEN 0 ELSE g[i - 1] \div 10)
    BY ONLY <1>7, <1>12, <2>3 DEF Columns
  <2>5. CASE i = 0
    <3>1. c(0) = 0
      BY ONLY <1>8, a \in Nat, d \in Nat
    <3> QED
      BY ONLY <2>3, <2>4, <2>5, <3>1
  <2>6. CASE i # 0
    <3> DEFINE j == i - 1
    <3>1. j \in Nat /\ j \in 0..W /\ j \in 0..K /\ j \in 0..(K - 1) /\ ~(i <= j) /\ j + 1 = i
      BY ONLY <1>2, <2>3, <2>6
    <3>2. j \notin T
      BY ONLY <2>2, <3>1
    <3>3. g[j] = (p[j] % 10) + (r[j] % 10) + c(j)
      BY <3>1, <3>2
    <3> HIDE DEF j
    <3>4. p[j] \in Nat /\ r[j] \in Nat /\ q[j] \in Nat /\ c(j) \in {0, 1}
      BY ONLY <1>8, <1>13, <3>1
    <3>5. q[j] = p[j] + r[j] + c(j)
      BY ONLY <3>4
    <3>6. ((p[j] % 10) + (r[j] % 10) + c(j)) \div 10
              = ((p[j] + r[j] + c(j)) \div 10) - (p[j] \div 10) - (r[j] \div 10)
      BY ONLY <1>11, <3>4
    <3>7. p[i] = p[j] \div 10 /\ r[i] = r[j] \div 10 /\ q[i] = q[j] \div 10
      BY ONLY <1>8, <3>1
    <3>8. g[j] \div 10 = c(i)
      BY ONLY <3>3, <3>5, <3>6, <3>7
    <3> QED
      BY ONLY <2>3, <2>4, <2>6, <3>8 DEF j
  <2> QED
    BY <2>5, <2>6
<1>15. ASSUME NEW k \in 0..W PROVE g[k] % 10 = q[k] % 10
  <2>1. k \in 0..K
    BY ONLY <1>2, <1>15
  <2>2. p[k] \in Nat /\ r[k] \in Nat /\ q[k] \in Nat /\ c(k) \in {0, 1}
    BY ONLY <1>8, <1>13, <2>1
  <2>3. q[k] = p[k] + r[k] + c(k)
    BY ONLY <2>2
  <2>4. (p[k] + r[k] + c(k)) % 10 = ((p[k] % 10) + (r[k] % 10) + c(k)) % 10
    BY ONLY <2>2, Carry
  <2> QED
    BY ONLY <1>14, <2>3, <2>4
<1>16. p[W] = 0 /\ r[W] = 0
  <2>1. W \in 0..K /\ Len(s) \in 0..K /\ Len(t) \in 0..K
    BY ONLY <1>1, <1>2
  <2> QED
    BY ONLY <1>2, <1>9, <1>10, <2>1
<1>17. g[W] = q[W] /\ q[W] \in {0, 1}
  <2>1. W \in 0..W /\ W \in 0..K /\ 0 % 10 = 0
    BY ONLY <1>2
  <2>2. q[W] \in Nat /\ q[W] - 0 - 0 \in {0, 1}
    BY ONLY <1>8, <1>13, <1>16, <2>1
  <2>3. g[W] = 0 + 0 + (q[W] - 0 - 0)
    BY ONLY <1>14, <1>16, <2>1
  <2> QED
    BY ONLY <2>2, <2>3
<1>18. q[W + 1] = 0
  <2>1. W \in 0..(K - 1)
    BY ONLY <1>2
  <2>2. q[W + 1] = q[W] \div 10
    BY ONLY <1>8, <2>1
  <2>3. 0 \div 10 = 0 /\ 1 \div 10 = 0
    OBVIOUS
  <2> QED
    BY ONLY <1>17, <2>2, <2>3
<1>19. Len(u) = IF g[W] > 0 THEN W + 1 ELSE W
  <2>1. /\ \A k \in 1..(Len(u) - 1) : q[k] > 0
        /\ q[Len(u)] = 0
    BY ONLY <1>6 DEF DigitsOf
  <2>2. CASE q[W] = 1
    <3>1. ~(Len(u) <= W)
      <4>1. W \in 0..K /\ Len(u) \in 0..K
        BY ONLY <1>1, <1>2
      <4>2. Len(u) <= W => q[W] = 0
        BY ONLY <1>9, <1>10, <4>1
      <4> QED
        BY ONLY <2>2, <4>2
    <3>2. ~(W + 1 < Len(u))
      <4>1. W + 1 < Len(u) => W + 1 \in 1..(Len(u) - 1)
        BY ONLY <1>1, <1>2
      <4> QED
        BY ONLY <1>18, <2>1, <4>1
    <3> QED
      BY ONLY <1>1, <1>2, <1>17, <2>2, <3>1, <3>2
  <2>3. CASE q[W] = 0
    <3>1. ~(W < Len(u))
      <4>1. W < Len(u) => W \in 1..(Len(u) - 1)
        BY ONLY <1>1, <1>2
      <4> QED
        BY ONLY <2>1, <2>3, <4>1
    <3>2. ~(Len(u) < W)
      <4> SUFFICES ASSUME Len(u) < W PROVE FALSE
        OBVIOUS
      <4> DEFINE V == W - 1
      <4>1. V \in 0..K /\ Len(u) \in 0..K /\ Len(u) <= V /\ V >= 1
        BY <1>1, <1>2
      <4> HIDE DEF V
      <4>2. q[V] = 0
        BY ONLY <1>9, <1>10, <4>1
      <4>3. p[V] > 0 \/ r[V] > 0
        <5>1. Len(s) = W => V \in 1..(Len(s) - 1)
          BY ONLY <1>1, <1>2, <4>1 DEF V
        <5>2. Len(t) = W => V \in 1..(Len(t) - 1)
          BY ONLY <1>1, <1>2, <4>1 DEF V
        <5> QED
          BY ONLY <1>2, <1>6, <5>1, <5>2 DEF DigitsOf
      <4>4. p[V] \in Nat /\ r[V] \in Nat /\ c(V) \in {0, 1}
        BY ONLY <1>8, <1>13, <4>1
      <4> QED
        BY ONLY <4>2, <4>3, <4>4
    <3> QED
      BY ONLY <1>1, <1>2, <1>17, <2>3, <3>1, <3>2
  <2> QED
    BY ONLY <1>17, <2>2, <2>3
<1>20. AddText(s, t) = [i \in 1..Len(u) |-> g[Len(u) - i] % 10]
  BY ONLY <1>7, <1>19 DEF SumText
<1>21. ASSUME NEW i \in 1..Len(u) PROVE g[Len(u) - i] % 10 = u[i]
  <2>1. /\ Len(u) - i \in 0..(Len(u) - 1) /\ Len(u) - (Len(u) - i) = i
        /\ Len(u) - i \in 0..W
    BY ONLY <1>1, <1>2, <1>19, <1>21
  <2>2. u[Len(u) - (Len(u) - i)] = q[Len(u) - i] % 10
    BY ONLY <1>6, <2>1 DEF DigitsOf
  <2> QED
    BY ONLY <1>15, <2>1, <2>2
<1>22. u = [i \in 1..Len(u) |-> u[i]]
  BY ONLY <1>1
<1>23. AddText(s, t) = u
  BY ONLY <1>20, <1>21, <1>22
<1> QED
  BY ONLY <1>23 DEF s, t, u

(***************************************************************************)
(* The log and the stream.                                                 *)
(***************************************************************************)
IsScore(line) == line \in Events /\ line.unit = "proportion"
\* The row that a line at pos becomes, with its sums worked out.
ScoreOf(pos, e) ==
    [pos |-> pos, kind |-> "SCORE", at |-> Text[e.at],
     payload |-> [kind |-> "SCORE", at |-> e.at, context |-> e.context, unit |-> e.unit,
                  magnitude |-> e.value]]
RowOfLine(pos, line) == IF IsScore(line) THEN ScoreOf(pos, line) ELSE HaltRow(pos)

LogInv ==
    \A n \in 1..Len(audit) :
        /\ audit[n].pos \in 1..Len(stream)
        /\ audit[n] = RowOfLine(audit[n].pos, stream[audit[n].pos])
OrderInv ==
    /\ \A n \in 1..Len(audit) :
        /\ n = 1 => audit[n].pos = 1
        /\ n > 1 => audit[n].pos \in {1, audit[n - 1].pos + 1}
    /\ reader > 1 => audit # <<>> /\ audit[Len(audit)].pos = reader - 1
FirstRows == {n \in 1..Len(audit) : audit[n].pos = 1}
RunInv == Cardinality(FirstRows) + (IF reader = 1 THEN 1 ELSE 0) <= runs

HaltRows == [pos : Nat, kind : {"HALT"}, payload : [kind : {"HALT"}]]
ScoreRows ==
    [pos : Nat, kind : {"SCORE"}, at : Seq(Nat),
     payload : [kind : {"SCORE"}, at : Nat, context : Contexts, unit : Units, magnitude : Int]]
LogRows == HaltRows \cup ScoreRows
LogTyped ==
    /\ stream \in Seq(Lines) /\ audit \in Seq(LogRows)
    /\ reader \in Nat /\ runs \in Nat /\ reader <= Len(stream) + 1
    /\ manifest \in Manifests

LEMMA EventFacts ==
    ASSUME NEW e \in Events
    PROVE  /\ e.context \in Contexts /\ e.at \in Nat /\ e.unit \in Units /\ e.value \in Int
           /\ e \in Lines
<1>1. e \in AllEvents
  BY DEF Events
<1>2. e \in Lines
  BY DEF Lines
<1>3. Times \subseteq Nat /\ Values \subseteq Int
  BY ShadowAssumption
<1> QED
  BY ONLY <1>1, <1>2, <1>3 DEF AllEvents

LEMMA NotEvents == Garbage \notin Events /\ Broken \notin Events
<1>1. \A e \in AllEvents : DOMAIN e = {"context", "at", "unit", "value"}
  BY DEF AllEvents
<1>2. DOMAIN Garbage = {"line"} /\ DOMAIN Broken = {"line"}
  BY DEF Garbage, Broken
<1>3. {"line"} # {"context", "at", "unit", "value"}
  OBVIOUS
<1> QED
  BY <1>1, <1>2, <1>3 DEF Events

(* A cost of nothing is the only one there is (build_passive_zero_cost_    *)
(* validity_contexts).                                                     *)
LEMMA ZeroTotal == TotalCost(ZeroCosts) = 0
<1> DEFINE Is(f) == f = [n \in 0..1 |-> IF n = 0 THEN 0 ELSE f[n - 1] + ZeroCosts[n].cost.value]
           z == [n \in 0..1 |-> 0]
<1>1. Len(ZeroCosts) = 1 /\ ZeroCosts[1].cost.value = 0
  BY DEF ZeroCosts
<1>2. TotalCost(ZeroCosts) = (CHOOSE f : Is(f))[1]
  BY <1>1 DEF TotalCost
<1>3. Is(z)
  <2>1. ASSUME NEW n \in 0..1 PROVE 0 = IF n = 0 THEN 0 ELSE z[n - 1] + ZeroCosts[n].cost.value
    <3>1. n = 0 \/ n = 1
      OBVIOUS
    <3> QED
      BY <1>1, <3>1
  <2> QED
    BY <2>1
<1>4. ASSUME NEW f, Is(f) PROVE f[1] = 0
  <2>1. f[0] = 0
    BY <1>4
  <2>2. f[1] = f[1 - 1] + ZeroCosts[1].cost.value
    BY <1>4
  <2> QED
    BY <1>1, <2>1, <2>2
<1>5. Is(CHOOSE f : Is(f))
  BY <1>3
<1> HIDE DEF Is
<1> QED
  BY <1>2, <1>4, <1>5

LEMMA ScoredIs ==
    ASSUME NEW e \in Events, NEW pos
    PROVE  /\ Scored(e) <=> IsScore(e)
           /\ ScoreRow(pos, e) = ScoreOf(pos, e)
<1>1. {ZeroCosts[n].cost.unit : n \in DOMAIN ZeroCosts} = {"proportion"}
  <2>1. DOMAIN ZeroCosts = {1} /\ ZeroCosts[1].cost.unit = "proportion"
    BY DEF ZeroCosts
  <2> QED
    BY <2>1
<1>2. UnitVerdict(Binding(e), ZeroCosts) = Pass <=> e.unit = "proportion"
  <2>1. UnitVerdict(Binding(e), ZeroCosts) = UnitBlock(e.unit, {"proportion"})
    BY <1>1 DEF UnitVerdict, Binding
  <2>2. {"proportion"} = {e.unit} <=> e.unit = "proportion"
    OBVIOUS
  <2>3. \A why : Blocked(why) # Pass
    BY DEF Blocked, Pass
  <2> QED
    BY <2>1, <2>2, <2>3 DEF UnitBlock
<1>3. NetEdgeValue(Binding(e), ZeroCosts) = e.value
  <2>1. e.value \in Int
    BY EventFacts
  <2> QED
    BY <2>1, ZeroTotal DEF NetEdgeValue, Binding
<1>4. /\ PassiveInput(e).gross = Binding(e) /\ PassiveInput(e).costs = ZeroCosts
      /\ Material(e).context = e.context /\ Material(e).at = e.at
  BY DEF PassiveInput, Material
<1>5. Scored(e) <=> IsScore(e)
  BY <1>2, <1>4 DEF Scored, IsScore
<1>6. ScoreRow(pos, e) = ScoreOf(pos, e)
  <2>1. Binding(e).unit = e.unit
    BY DEF Binding
  <2>2. /\ ShadowInput(e).magnitude = e.value /\ ShadowInput(e).unit = e.unit
        /\ ShadowInput(e).context = e.context /\ ShadowInput(e).at = e.at
    BY <1>3, <1>4, <2>1 DEF ShadowInput
  <2> QED
    BY <2>2 DEF ScoreRow, ScoreOf
<1> QED
  BY <1>5, <1>6

LEMMA RowOfLineTyped ==
    ASSUME NEW line \in Lines, NEW pos \in Nat
    PROVE  RowOfLine(pos, line) \in LogRows /\ RowOfLine(pos, line).pos = pos
<1>1. CASE IsScore(line)
  <2>1. line \in Events
    BY <1>1 DEF IsScore
  <2>2. Text[line.at] \in Seq(Nat)
    BY <2>1, EventFacts, TextIsText
  <2> QED
    BY <1>1, <2>1, <2>2, EventFacts DEF RowOfLine, ScoreOf, LogRows, ScoreRows
<1>2. CASE ~IsScore(line)
  BY <1>2 DEF RowOfLine, HaltRow, LogRows, HaltRows
<1> QED
  BY <1>1, <1>2

AuditInv == LogTyped /\ LogInv /\ OrderInv /\ RunInv

LEMMA AuditInit == PSInit => AuditInv
<1> SUFFICES ASSUME PSInit PROVE AuditInv
  OBVIOUS
<1>1. /\ stream = <<>> /\ audit = <<>> /\ reader = 0 /\ runs = 0 /\ manifest \in Manifests
      /\ Len(audit) = 0 /\ Len(stream) = 0
  BY DEF PSInit
<1>2. FirstRows = {}
  BY <1>1 DEF FirstRows
<1>3. Cardinality(FirstRows) = 0
  BY <1>2, FS_EmptySet
<1> QED
  BY <1>1, <1>3 DEF AuditInv, LogTyped, LogInv, OrderInv, RunInv

\* What a run reads and what it makes of it.
LEMMA ReadFacts ==
    ASSUME LogTyped, NEW line \in NextLines, ReadAs(line), NextLines \subseteq Lines
    PROVE  /\ reader \in 1..Len(stream') /\ stream' \in Seq(Lines) /\ stream'[reader] = line
           /\ Len(stream) <= Len(stream') /\ Len(stream') \in Nat
           /\ \A n \in 1..Len(stream) : stream'[n] = stream[n]
<1>1. stream \in Seq(Lines) /\ reader \in Nat /\ DOMAIN stream = 1..Len(stream) /\ Len(stream) \in Nat
      /\ reader <= Len(stream) + 1 /\ line \in Lines
  BY DEF LogTyped
<1>2. CASE reader \in DOMAIN stream
  <2>1. line = stream[reader] /\ stream' = stream
    BY <1>2 DEF NextLines, ReadAs
  <2> QED
    BY <1>1, <1>2, <2>1
<1>3. CASE reader \notin DOMAIN stream
  <2>1. reader \in (Len(stream) + 1)..MaxLines
    BY <1>3 DEF NextLines
  <2>2. stream' = Append(stream, line)
    BY <1>3 DEF ReadAs
  <2>3. reader = Len(stream) + 1
    BY <1>1, <2>1, ShadowAssumption
  <2> QED
    BY <1>1, <2>2, <2>3
<1> QED
  BY <1>2, <1>3

LEMMA NextLinesAreLines == ASSUME LogTyped PROVE NextLines \subseteq Lines
<1>1. CASE reader \in DOMAIN stream
  <2>1. NextLines = {stream[reader]}
    BY <1>1 DEF NextLines
  <2> QED
    BY <1>1, <2>1 DEF LogTyped
<1>2. CASE reader \notin DOMAIN stream
  <2>1. NextLines = Lines \/ NextLines = {}
    BY <1>2 DEF NextLines
  <2> QED
    BY <2>1
<1> QED
  BY <1>1, <1>2

LEMMA FirstRowsFinite == ASSUME LogTyped PROVE IsFiniteSet(FirstRows) /\ Cardinality(FirstRows) \in Nat
<1>1. FirstRows \subseteq 1..Len(audit) /\ IsFiniteSet(1..Len(audit))
  BY FS_Interval DEF FirstRows, LogTyped
<1> QED
  BY <1>1, FS_Subset, FS_CardinalityType

LEMMA RecordInv ==
    ASSUME AuditInv, NEW line \in NextLines, ReadAs(line), reader' = reader + 1,
           audit' = Append(audit, RowOfLine(reader, line)), UNCHANGED <<runs, manifest>>
    PROVE  AuditInv'
<1> DEFINE row == RowOfLine(reader, line)
           L == Len(audit)
<1>1. LogTyped /\ LogInv /\ OrderInv /\ RunInv
  BY DEF AuditInv
<1>2. /\ reader \in 1..Len(stream') /\ stream' \in Seq(Lines) /\ stream'[reader] = line
      /\ Len(stream) <= Len(stream') /\ Len(stream') \in Nat
      /\ \A n \in 1..Len(stream) : stream'[n] = stream[n]
  BY <1>1, ReadFacts, NextLinesAreLines
<1>3. row \in LogRows /\ row.pos = reader /\ reader \in Nat /\ line \in Lines
  BY <1>1, <1>2, NextLinesAreLines, RowOfLineTyped
<1> HIDE DEF row
<1>4. /\ audit \in Seq(LogRows) /\ L \in Nat /\ audit' \in Seq(LogRows)
      /\ Len(audit') = L + 1 /\ audit'[L + 1] = row
      /\ \A n \in 1..L : audit'[n] = audit[n]
  BY <1>1, <1>3 DEF LogTyped, row
<1> HIDE DEF L
<1>5. LogTyped'
  BY <1>1, <1>2, <1>3, <1>4 DEF LogTyped
<1>6. LogInv'
  <2> SUFFICES ASSUME NEW n \in 1..(L + 1)
               PROVE  /\ audit'[n].pos \in 1..Len(stream')
                      /\ audit'[n] = RowOfLine(audit'[n].pos, stream'[audit'[n].pos])
    BY <1>4 DEF LogInv
  <2>1. CASE n = L + 1
    BY <1>2, <1>3, <1>4, <2>1 DEF row
  <2>2. CASE n # L + 1
    <3>1. n \in 1..L /\ audit'[n] = audit[n]
      BY <1>4, <2>2
    <3>2. audit[n].pos \in 1..Len(stream) /\ audit[n] = RowOfLine(audit[n].pos, stream[audit[n].pos])
      BY <1>1, <3>1 DEF LogInv, L
    <3>3. stream'[audit[n].pos] = stream[audit[n].pos] /\ audit[n].pos \in 1..Len(stream')
      <4>1. Len(stream) \in Nat
        BY <1>1 DEF LogTyped
      <4> QED
        BY ONLY <1>2, <3>2, <4>1
    <3> QED
      BY ONLY <3>1, <3>2, <3>3
  <2> QED
    BY <2>1, <2>2
<1>7. OrderInv'
  <2>1. L > 0 => (reader > 1 => audit[L].pos = reader - 1)
    BY <1>1 DEF OrderInv, L
  <2>2. L = 0 => reader = 1
    <3>1. L = 0 => audit = <<>>
      BY <1>4 DEF L
    <3> QED
      BY <1>1, <1>2, <3>1 DEF OrderInv
  <2>3. ASSUME NEW n \in 1..(L + 1)
        PROVE  /\ n = 1 => audit'[n].pos = 1
               /\ n > 1 => audit'[n].pos \in {1, audit'[n - 1].pos + 1}
    <3>1. CASE n = L + 1
      <4>1. n > 1 => n - 1 = L /\ audit'[n - 1] = audit[L] /\ L > 0
        BY <1>4, <3>1
      <4>2. audit'[n].pos = reader
        BY <1>3, <1>4, <3>1
      <4>3. n = 1 => L = 0
        BY <1>4, <3>1
      <4>4. reader = 1 \/ reader > 1
        BY <1>2
      <4>5. reader > 1 /\ n > 1 => audit'[n].pos = audit'[n - 1].pos + 1
        <5>1. reader \in Nat
          BY <1>3
        <5>2. reader > 1 /\ n > 1 => audit[L].pos = reader - 1
          BY ONLY <2>1, <4>1
        <5> QED
          BY ONLY <4>1, <4>2, <5>1, <5>2
      <4> QED
        BY ONLY <2>2, <4>2, <4>3, <4>4, <4>5
    <3>2. CASE n # L + 1
      <4>1. n \in 1..L /\ audit'[n] = audit[n] /\ (n > 1 => audit'[n - 1] = audit[n - 1])
        BY <1>4, <3>2
      <4>2. /\ n = 1 => audit[n].pos = 1
            /\ n > 1 => audit[n].pos \in {1, audit[n - 1].pos + 1}
        BY <1>1, <4>1 DEF OrderInv, L
      <4> QED
        BY ONLY <4>1, <4>2
    <3> QED
      BY <3>1, <3>2
  <2>4. audit' # <<>> /\ audit'[Len(audit')].pos = reader' - 1
    BY <1>3, <1>4
  <2> QED
    BY <1>4, <2>3, <2>4 DEF OrderInv
<1>8. RunInv'
  <2>1. IsFiniteSet(FirstRows) /\ Cardinality(FirstRows) \in Nat
    BY <1>1, FirstRowsFinite
  <2>2. FirstRows \subseteq 1..L
    BY DEF FirstRows, L
  <2>3. CASE reader = 1
    <3>1. FirstRows' = FirstRows \cup {L + 1}
      BY <1>3, <1>4, <2>3 DEF FirstRows, L
    <3>2. L + 1 \notin FirstRows
      BY <1>4, <2>2
    <3>3. Cardinality(FirstRows') = Cardinality(FirstRows) + 1
      BY <2>1, <3>1, <3>2, FS_AddElement
    <3>4. runs \in Nat /\ Cardinality(FirstRows) + 1 <= runs
      BY <1>1, <2>3 DEF RunInv, LogTyped
    <3> QED
      BY <2>1, <2>3, <3>3, <3>4 DEF RunInv
  <2>4. CASE reader # 1
    <3>1. FirstRows' = FirstRows
      BY <1>3, <1>4, <2>4 DEF FirstRows, L
    <3>2. reader' # 1 /\ runs \in Nat /\ Cardinality(FirstRows) <= runs
      BY <1>1, <1>2, <2>1, <2>4 DEF RunInv, LogTyped
    <3> QED
      BY <2>1, <3>1, <3>2 DEF RunInv
  <2> QED
    BY <2>3, <2>4
<1> QED
  BY <1>5, <1>6, <1>7, <1>8 DEF AuditInv

\* A run that begins or ends, perhaps after a line that it read in vain.
LEMMA ReaderInv ==
    ASSUME AuditInv, UNCHANGED <<audit, manifest>>,
           \/ reader' = 1 /\ reader = 0 /\ runs' = runs + 1 /\ UNCHANGED stream
           \/ reader' \in {0, reader} /\ UNCHANGED <<runs, stream>>
           \/ reader' = 0 /\ UNCHANGED runs /\ \E line \in NextLines : ReadAs(line)
    PROVE  AuditInv'
<1>1. LogTyped /\ LogInv /\ OrderInv /\ RunInv
  BY DEF AuditInv
<1>2. FirstRows' = FirstRows /\ Cardinality(FirstRows) \in Nat
  BY <1>1, FirstRowsFinite DEF FirstRows
<1>3. /\ stream' \in Seq(Lines) /\ Len(stream) <= Len(stream') /\ Len(stream) \in Nat /\ Len(stream') \in Nat
      /\ \A n \in 1..Len(stream) : stream'[n] = stream[n]
  <2>1. CASE UNCHANGED stream
    BY <1>1, <2>1 DEF LogTyped
  <2>2. CASE \E line \in NextLines : ReadAs(line)
    BY <1>1, <2>2, ReadFacts, NextLinesAreLines DEF LogTyped
  <2> QED
    BY <2>1, <2>2
<1>4. LogTyped'
  BY <1>1, <1>3 DEF LogTyped
<1>5. LogInv'
  <2> SUFFICES ASSUME NEW n \in 1..Len(audit)
               PROVE  /\ audit[n].pos \in 1..Len(stream')
                      /\ audit[n] = RowOfLine(audit[n].pos, stream'[audit[n].pos])
    BY DEF LogInv
  <2>1. audit[n].pos \in 1..Len(stream) /\ audit[n] = RowOfLine(audit[n].pos, stream[audit[n].pos])
    BY <1>1 DEF LogInv
  <2>2. stream'[audit[n].pos] = stream[audit[n].pos] /\ audit[n].pos \in 1..Len(stream')
    BY ONLY <1>3, <2>1
  <2> QED
    BY ONLY <2>1, <2>2
<1>6. OrderInv'
  BY <1>1 DEF OrderInv
<1>7. RunInv'
  BY <1>1, <1>2 DEF RunInv, LogTyped
<1> QED
  BY <1>4, <1>5, <1>6, <1>7 DEF AuditInv

LEMMA AuditNext == AuditInv /\ [PSNext]_PSvars => AuditInv'
<1> SUFFICES ASSUME AuditInv, [PSNext]_PSvars PROVE AuditInv'
  OBVIOUS
<1>1. CASE RecordHalt
  <2>1. PICK line \in NextLines \ {Broken} :
           /\ line # Garbage => ~Scored(line)
           /\ ReadAs(line)
           /\ audit' = Append(audit, HaltRow(reader))
    BY <1>1 DEF RecordHalt
  <2>2. line \in Lines /\ line # Broken
    BY <2>1, NextLinesAreLines DEF AuditInv
  <2>3. ~IsScore(line)
    <3>1. CASE line = Garbage
      BY <3>1, NotEvents DEF IsScore
    <3>2. CASE line # Garbage
      <4>1. line \in Events
        BY <2>2, <3>2 DEF Lines
      <4> QED
        BY <2>1, <3>2, <4>1, ScoredIs
    <3> QED
      BY <3>1, <3>2
  <2>4. HaltRow(reader) = RowOfLine(reader, line)
    BY <2>3 DEF RowOfLine
  <2>5. reader' = reader + 1 /\ UNCHANGED <<runs, manifest>>
    BY <1>1 DEF RecordHalt
  <2> QED
    BY <2>1, <2>4, <2>5, RecordInv
<1>2. CASE RecordScore
  <2>1. PICK line \in NextLines \cap Events :
           Scored(line) /\ ReadAs(line) /\ audit' = Append(audit, ScoreRow(reader, line))
    BY <1>2 DEF RecordScore
  <2>2. ScoreRow(reader, line) = RowOfLine(reader, line)
    BY <2>1, ScoredIs DEF RowOfLine
  <2>3. reader' = reader + 1 /\ UNCHANGED <<runs, manifest>>
    BY <1>2 DEF RecordScore
  <2> QED
    BY <2>1, <2>2, <2>3, RecordInv
<1>3. CASE StartRun
  BY <1>3, ReaderInv DEF StartRun
<1>4. CASE RunRaises
  BY <1>4, ReaderInv DEF RunRaises
<1>5. CASE EndOfStream \/ Crash
  BY <1>5, ReaderInv DEF EndOfStream, Crash
<1>6. CASE StartReplay \/ ReplayRow \/ ReplayFails \/ Publish
  BY <1>6, ReaderInv DEF StartReplay, ReplayRow, ReplayFails, Publish
<1>7. CASE UNCHANGED PSvars
  BY <1>7, ReaderInv DEF PSvars
<1> QED
  BY <1>1, <1>2, <1>3, <1>4, <1>5, <1>6, <1>7 DEF PSNext

(* No line is dropped and none is invented (run_in_memory_shadow_pipeline, *)
(* the durable sink): the audit log is the stream, once more for each run. *)
THEOREM LogIsTheStream == PSSpec => []AuditMatchesStream
<1>1. ASSUME AuditInv PROVE AuditMatchesStream
  <2>1. LogTyped /\ LogInv /\ OrderInv /\ RunInv
    BY <1>1 DEF AuditInv
  <2>2. DOMAIN audit = 1..Len(audit)
    BY <2>1 DEF LogTyped
  <2>3. ASSUME NEW n \in 1..Len(audit)
        PROVE  LET line == stream[audit[n].pos]
                   score == line \in Events /\ line.unit = "proportion"
               IN /\ audit[n].kind = IF score THEN "SCORE" ELSE "HALT"
                  /\ score => /\ audit[n].payload.magnitude = line.value
                              /\ audit[n].payload.context = line.context
                              /\ audit[n].at = Text[line.at]
    <3> DEFINE line == stream[audit[n].pos]
    <3>1. audit[n] = RowOfLine(audit[n].pos, line)
      BY <2>1 DEF LogInv
    <3> HIDE DEF line
    <3>2. CASE IsScore(line)
      <4>1. audit[n] = ScoreOf(audit[n].pos, line)
        BY <3>1, <3>2 DEF RowOfLine
      <4>2. /\ audit[n].kind = "SCORE" /\ audit[n].payload.magnitude = line.value
            /\ audit[n].payload.context = line.context /\ audit[n].at = Text[line.at]
        BY ONLY <4>1 DEF ScoreOf
      <4> QED
        BY <3>2, <4>2 DEF IsScore, line
    <3>3. CASE ~IsScore(line)
      <4>1. audit[n].kind = "HALT"
        BY <3>1, <3>3 DEF RowOfLine, HaltRow
      <4> QED
        BY <3>3, <4>1 DEF IsScore, line
    <3> QED
      BY <3>2, <3>3
  <2>4. Cardinality({n \in DOMAIN audit : audit[n].pos = 1}) <= runs
    <3>1. Cardinality(FirstRows) <= runs
      BY <2>1, FirstRowsFinite DEF RunInv, LogTyped
    <3> QED
      BY <2>2, <3>1 DEF FirstRows
  <2> QED
    BY <2>1, <2>2, <2>3, <2>4 DEF AuditMatchesStream, OrderInv
<1> QED
  BY <1>1, AuditInit, AuditNext, PTL DEF PSSpec

(***************************************************************************)
(* The replay and the charter.                                             *)
(***************************************************************************)
Sound(row) ==
    /\ row.kind \in {"SCORE", "HALT"} /\ Readable(row)
    /\ row.kind = "SCORE" => row.payload.at \in Nat /\ row.payload.magnitude \in Int
AllSound(rows) == \A n \in 1..Len(rows) : Sound(rows[n])

\* The slot of the root at k as the charter has it before the n-th row.
SlotOf(rows, n, k) ==
    IF ~IntentOf(rows[k].pos).inert /\ IntentOf(rows[k].pos).unit # rows[k].payload.unit THEN Unrooted
    ELSE [state |-> StateByCharter(rows, n, k), context |-> rows[k].payload.context,
          anchor |-> Text[rows[k].payload.at]]

Reference(rows, n, slots) ==
    /\ DOMAIN slots = {rows[k].pos : k \in RootsBefore(rows, n)}
    /\ \A k \in RootsBefore(rows, n) : rows[k].kind = "SCORE" /\ slots[rows[k].pos] = SlotOf(rows, n, k)
    /\ \A j, k \in RootsBefore(rows, n) : rows[j].pos = rows[k].pos => j = k

LEMMA IntentTyped ==
    ASSUME manifest \in Manifests, NEW pos \in Targets
    PROVE  IntentOf(pos) \in Intents /\ IntentOf(pos).window \in Nat
<1>1. PICK m \in DOMAIN manifest : manifest[m].pos = pos
  BY DEF Targets, Definitions
<1> DEFINE at == CHOOSE i \in DOMAIN manifest : manifest[i].pos = pos
<1>2. at \in DOMAIN manifest
  BY <1>1
<1>3. IntentOf(pos) = manifest[at].intent
  BY DEF IntentOf, Definitions, Targets
<1> HIDE DEF at
<1>4. IntentOf(pos) \in Intents
  BY <1>2, <1>3, ShadowAssumption
<1>5. \A x \in Intents : x.window \in Durations
  BY DEF Intents
<1> QED
  BY <1>4, <1>5, ShadowAssumption

\* The j-th row counts for the root at k.
Counts(rows, k, j) ==
    /\ rows[j].kind = "SCORE"
    /\ rows[j].payload.context = rows[k].payload.context
    /\ rows[j].payload.at >= rows[k].payload.at

LEMMA LaterGrows ==
    ASSUME NEW rows, NEW n \in Nat, NEW k \in 1..(n - 1)
    PROVE  Later(rows, n + 1, k) = Later(rows, n, k) \cup (IF Counts(rows, k, n) THEN {rows[n]} ELSE {})
<1> DEFINE I(m) == {j \in (k + 1)..(m - 1) : Counts(rows, k, j)}
<1>1. \A m : Later(rows, m, k) = {rows[j] : j \in I(m)}
  BY DEF Later, Counts
<1>2. I(n + 1) = I(n) \cup (IF Counts(rows, k, n) THEN {n} ELSE {})
  <2>1. (k + 1)..((n + 1) - 1) = ((k + 1)..(n - 1)) \cup {n}
    OBVIOUS
  <2> QED
    BY <2>1
<1> HIDE DEF I
<1> QED
  BY <1>1, <1>2

\* The charter in three words: what has come since the root.
Late(rows, n, k) ==
    \E row \in Later(rows, n, k) : row.payload.at > rows[k].payload.at + IntentOf(rows[k].pos).window
Hit(rows, n, k) == \E row \in Later(rows, n, k) : Crosses(IntentOf(rows[k].pos), row)
Comparable(rows, k) == IntentOf(rows[k].pos).inert \/ IntentOf(rows[k].pos).unit = rows[k].payload.unit

LEMMA CharterIs ==
    ASSUME NEW rows, NEW n, NEW k, Comparable(rows, k), IntentOf(rows[k].pos) \in Intents
    PROVE  /\ StateByCharter(rows, n, k) = IF Late(rows, n, k) THEN Expired
                                           ELSE IF Hit(rows, n, k) THEN Met ELSE Recorded
           /\ SlotOf(rows, n, k) = [state |-> StateByCharter(rows, n, k), context |-> rows[k].payload.context,
                                    anchor |-> Text[rows[k].payload.at]]
<1>1. ~(~IntentOf(rows[k].pos).inert /\ IntentOf(rows[k].pos).unit # rows[k].payload.unit)
  BY DEF Comparable
<1> QED
  BY <1>1 DEF StateByCharter, SlotOf, Late, Hit

\* What a row does to a slot that it finds.
Moved(slot, pos, row) ==
    IF Active(slot, row) THEN [slot EXCEPT !.state = Classify(slot, IntentOf(pos), row)] ELSE slot

LEMMA StatesDiffer ==
    /\ Recorded # Met /\ Recorded # Expired /\ Met # Expired
    /\ Unrooted.state \notin {Recorded, Met, Expired}
BY DEF Recorded, Met, Expired, Unrooted

LEMMA WindowIs ==
    ASSUME NEW x \in Nat, NEW y \in Nat, NEW w \in Nat, NEW slot, NEW row,
           slot.anchor = Text[x], row.at = Text[y]
    PROVE  /\ Window(slot, row, w) = "expired" <=> y > x + w
           /\ Window(slot, row, w) = "in window" <=> y >= x /\ ~(y > x + w)
<1>1. Precedes(StampOf(row), slot.anchor) <=> y < x
  BY TextOrder DEF StampOf
<1>2. AddText(slot.anchor, Text[w]) = Text[x + w] /\ x + w \in Nat
  BY AddTextAdds
<1>3. Precedes(AddText(slot.anchor, Text[w]), StampOf(row)) <=> x + w < y
  BY <1>2, TextOrder DEF StampOf
<1> DEFINE early == Precedes(StampOf(row), slot.anchor)
           late  == Precedes(AddText(slot.anchor, Text[w]), StampOf(row))
<1>4. early \in BOOLEAN /\ late \in BOOLEAN
  BY DEF Precedes
<1>5. Window(slot, row, w) = IF early THEN "non comparable" ELSE IF late THEN "expired" ELSE "in window"
  BY DEF Window
<1> HIDE DEF early, late
<1>6. /\ Window(slot, row, w) = "expired" <=> ~early /\ late
      /\ Window(slot, row, w) = "in window" <=> ~early /\ ~late
  BY ONLY <1>4, <1>5
<1>7. (early <=> y < x) /\ (late <=> x + w < y)
  BY <1>1, <1>3 DEF early, late
<1>8. (~early <=> y >= x) /\ (late <=> y > x + w) /\ (late => ~early)
  BY ONLY <1>7, x \in Nat, y \in Nat, w \in Nat
<1> QED
  BY ONLY <1>6, <1>8

LEMMA SlotStep ==
    ASSUME manifest \in Manifests, NEW rows, AllSound(rows), NEW n \in 1..Len(rows), Len(rows) \in Nat,
           NEW k \in 1..(n - 1), rows[k].kind = "SCORE", rows[k].pos \in Targets
    PROVE  /\ Moved(SlotOf(rows, n, k), rows[k].pos, rows[n]) = SlotOf(rows, n + 1, k)
           /\ Legal(SlotOf(rows, n, k).state, SlotOf(rows, n + 1, k).state)
<1> DEFINE row == rows[n]  pos == rows[k].pos  intent == IntentOf(pos)
           slot == SlotOf(rows, n, k)  x == rows[k].payload.at  y == row.payload.at
           S(m) == StateByCharter(rows, m, k)
<1>1. /\ n \in Nat /\ k \in 1..Len(rows) /\ Sound(row) /\ Sound(rows[k])
      /\ x \in Nat /\ intent \in Intents /\ intent.window \in Nat
      /\ row.kind = "SCORE" => y \in Nat /\ row.at = Text[y]
  BY IntentTyped DEF AllSound, Sound, Readable
<1>2. CASE ~Comparable(rows, k)
  <2>1. \A m : SlotOf(rows, m, k) = Unrooted
    BY <1>1, <1>2 DEF Comparable, SlotOf
  <2>2. ~Active(Unrooted, row)
    BY StatesDiffer DEF Active
  <2> QED
    BY <2>1, <2>2 DEF Moved, Legal
<1>3. CASE Comparable(rows, k)
  <2>1. /\ \A m : S(m) = IF Late(rows, m, k) THEN Expired ELSE IF Hit(rows, m, k) THEN Met ELSE Recorded
        /\ \A m : SlotOf(rows, m, k) = [state |-> S(m), context |-> rows[k].payload.context,
                                        anchor |-> Text[x]]
    BY <1>1, <1>3, CharterIs
  <2>2. Later(rows, n + 1, k) = Later(rows, n, k) \cup (IF Counts(rows, k, n) THEN {row} ELSE {})
    BY <1>1, LaterGrows
  <2> DEFINE late == y > x + intent.window  crosses == Crosses(intent, row)
  <2>3. /\ Late(rows, n + 1, k) <=> Late(rows, n, k) \/ (Counts(rows, k, n) /\ late)
        /\ Hit(rows, n + 1, k) <=> Hit(rows, n, k) \/ (Counts(rows, k, n) /\ crosses)
    BY <2>2 DEF Late, Hit
  <2>4. slot.state = S(n) /\ slot.context = rows[k].payload.context /\ slot.anchor = Text[x]
    BY <2>1
  <2>5. Active(slot, row) <=> /\ ~Late(rows, n, k)
                              /\ row.kind = "SCORE" /\ rows[k].payload.context = row.payload.context
    BY <2>1, <2>4, StatesDiffer DEF Active, ContextOf
  <2> DEFINE window == Window(slot, row, intent.window)
  <2>6. ASSUME row.kind = "SCORE"
        PROVE  /\ window = "expired" <=> late
               /\ window = "in window" <=> y >= x /\ ~late
    <3> DEFINE w == intent.window
    <3>1. x \in Nat /\ y \in Nat /\ w \in Nat /\ slot.anchor = Text[x] /\ row.at = Text[y]
      BY <1>1, <2>4, <2>6
    <3> HIDE DEF x, y, w, slot, row
    <3> QED
      BY ONLY <3>1, WindowIs DEF w, late, window
  <2> HIDE DEF window
  <2>7. Classify(slot, intent, row) = IF window = "expired" THEN Expired
                                      ELSE IF window = "in window" /\ crosses THEN Met ELSE slot.state
    BY DEF Classify, window
  <2>8. Active(slot, row) => Classify(slot, intent, row) = S(n + 1)
    <3> SUFFICES ASSUME Active(slot, row) PROVE Classify(slot, intent, row) = S(n + 1)
      OBVIOUS
    <3>1. ~Late(rows, n, k) /\ row.kind = "SCORE" /\ (Counts(rows, k, n) <=> y >= x)
      BY <2>5 DEF Counts
    <3>2. x \in Nat /\ y \in Nat /\ intent.window \in Nat
      BY <1>1, <3>1
    <3>3. (window = "expired" <=> late) /\ (window = "in window" <=> y >= x /\ ~late)
      BY <2>6, <3>1
    <3> HIDE DEF row, intent, x, y, slot, late, crosses, S
    <3>4. CASE y < x
      <4>1. window # "expired" /\ window # "in window" /\ ~Counts(rows, k, n)
        <5>1. ~late
          BY ONLY <3>2, <3>4 DEF late
        <5>2. ~(y >= x)
          BY ONLY <3>2, <3>4
        <5> QED
          BY ONLY <3>1, <3>3, <5>1, <5>2
      <4>2. S(n + 1) = S(n)
        BY <2>1, <2>3, <3>1, <4>1
      <4> QED
        BY <2>4, <2>7, <4>1, <4>2
    <3>5. CASE y >= x
      <4>1. Counts(rows, k, n) /\ (window = "expired" <=> late) /\ (window = "in window" <=> ~late)
        BY ONLY <3>1, <3>5, <3>3
      <4>2. /\ late => S(n + 1) = Expired
            /\ ~late /\ crosses => S(n + 1) = Met
            /\ ~late /\ ~crosses => S(n + 1) = S(n)
        BY <2>1, <2>3, <3>1, <4>1
      <4> QED
        BY <2>4, <2>7, <4>1, <4>2
    <3> QED
      BY <3>2, <3>4, <3>5
  <2>9. ~Active(slot, row) => S(n + 1) = S(n)
    BY <2>1, <2>3, <2>5 DEF Counts
  <2>10. Moved(slot, pos, row) = SlotOf(rows, n + 1, k)
    <3>1. CASE Active(slot, row)
      <4>1. Moved(slot, pos, row) = [slot EXCEPT !.state = S(n + 1)]
        BY <2>8, <3>1 DEF Moved
      <4> QED
        BY <2>1, <4>1
    <3>2. CASE ~Active(slot, row)
      BY <2>1, <2>9, <3>2 DEF Moved
    <3> QED
      BY <3>1, <3>2
  <2>11. Legal(S(n), S(n + 1))
    BY <2>1, <2>3 DEF Legal, Forward
  <2> QED
    BY <2>1, <2>4, <2>10, <2>11
<1> QED
  BY <1>2, <1>3

LEMMA LogIsSound == ASSUME AuditInv PROVE AllSound(audit)
<1> SUFFICES ASSUME NEW n \in 1..Len(audit) PROVE Sound(audit[n])
  BY DEF AllSound
<1> DEFINE pos == audit[n].pos  line == stream[pos]
<1>1. audit[n] = RowOfLine(pos, line)
  BY DEF AuditInv, LogInv
<1> HIDE DEF pos, line
<1>2. CASE IsScore(line)
  <2>1. line \in Events
    BY <1>2 DEF IsScore
  <2>2. line.at \in Nat /\ line.value \in Int
    BY <2>1, EventFacts
  <2>3. audit[n] = ScoreOf(pos, line)
    BY <1>1, <1>2 DEF RowOfLine
  <2> QED
    BY <2>2, <2>3 DEF ScoreOf, Sound, Readable
<1>3. CASE ~IsScore(line)
  <2>1. audit[n] = HaltRow(pos)
    BY <1>1, <1>3 DEF RowOfLine
  <2> QED
    BY <2>1 DEF HaltRow, Sound, Readable
<1> QED
  BY <1>2, <1>3

\* The rows before the n-th are all that counts.
LEMMA ReferenceAgrees ==
    ASSUME NEW rows, NEW other, NEW n \in Nat, NEW slots, Reference(rows, n, slots),
           \A k \in 1..(n - 1) : other[k] = rows[k]
    PROVE  Reference(other, n, slots)
<1>1. RootsBefore(other, n) = RootsBefore(rows, n)
  BY DEF RootsBefore
<1>2. ASSUME NEW k \in RootsBefore(rows, n)
      PROVE  /\ other[k] = rows[k] /\ SlotOf(other, n, k) = SlotOf(rows, n, k)
  <2>1. k \in 1..(n - 1) /\ other[k] = rows[k]
    BY DEF RootsBefore
  <2>2. {j \in (k + 1)..(n - 1) : Counts(other, k, j)} = {j \in (k + 1)..(n - 1) : Counts(rows, k, j)}
    BY <2>1 DEF Counts
  <2>3. Later(other, n, k) = Later(rows, n, k)
    <3> DEFINE I == {j \in (k + 1)..(n - 1) : Counts(rows, k, j)}
    <3>1. Later(other, n, k) = {other[j] : j \in I} /\ Later(rows, n, k) = {rows[j] : j \in I}
      BY <2>2 DEF Later, Counts
    <3>2. \A j \in I : other[j] = rows[j]
      BY <2>1
    <3> HIDE DEF I
    <3> QED
      BY <3>1, <3>2
  <2>4. StateByCharter(other, n, k) = StateByCharter(rows, n, k)
    BY <2>1, <2>3 DEF StateByCharter
  <2> QED
    BY <2>1, <2>4 DEF SlotOf
<1>3. DOMAIN slots = {other[k].pos : k \in RootsBefore(other, n)}
  BY <1>1, <1>2 DEF Reference
<1> QED
  BY <1>1, <1>2, <1>3 DEF Reference

\* The reconstruction at the n-th row of what it reads.
ReadsAt(rows, n) ==
    /\ manifest \in Manifests /\ AllSound(rows) /\ Len(rows) \in Nat /\ n \in 1..Len(rows)
    /\ Reference(rows, n, replay.slots)

LEMMA FoundSlot ==
    ASSUME NEW rows, NEW n, ReadsAt(rows, n), NEW pos \in DOMAIN replay.slots, pos # rows[n].pos
    PROVE  \E k \in RootsBefore(rows, n) :
              /\ pos = rows[k].pos
              /\ replay.slots[pos] = SlotOf(rows, n, k)
              /\ After(rows[n])[pos] = SlotOf(rows, n + 1, k)
              /\ Legal(replay.slots[pos].state, After(rows[n])[pos].state)
<1>1. PICK k \in RootsBefore(rows, n) : pos = rows[k].pos
  BY DEF ReadsAt, Reference
<1>2. k \in 1..(n - 1) /\ rows[k].pos \in Targets
  BY DEF RootsBefore
<1>3. rows[k].kind = "SCORE" /\ replay.slots[pos] = SlotOf(rows, n, k)
  BY <1>1 DEF ReadsAt, Reference
<1>4. /\ Moved(SlotOf(rows, n, k), rows[k].pos, rows[n]) = SlotOf(rows, n + 1, k)
      /\ Legal(SlotOf(rows, n, k).state, SlotOf(rows, n + 1, k).state)
  BY <1>2, <1>3, SlotStep DEF ReadsAt
<1>5. After(rows[n])[pos] = Moved(replay.slots[pos], pos, rows[n])
  BY DEF After, SlotAfter, Moved
<1> QED
  BY <1>1, <1>3, <1>4, <1>5

LEMMA NeverIllegal == ASSUME NEW rows, NEW n, ReadsAt(rows, n) PROVE ~Illegal(rows[n])
BY FoundSlot DEF Illegal

LEMMA ReferenceStep ==
    ASSUME NEW rows, NEW n, ReadsAt(rows, n), ~DuplicateRoot(rows[n]), ~NonScoreRoot(rows[n])
    PROVE  Reference(rows, n + 1, After(rows[n]))
<1> DEFINE row == rows[n]  old == replay.slots  new == After(row)
           B == RootsBefore(rows, n)  C == RootsBefore(rows, n + 1)
<1>1. n \in Nat /\ Sound(row)
  BY DEF ReadsAt, AllSound
<1>2. C = B \cup (IF row.pos \in Targets THEN {n} ELSE {})
  <2>1. 1..((n + 1) - 1) = (1..(n - 1)) \cup {n}
    BY <1>1, n >= 1 DEF ReadsAt
  <2> QED
    BY <2>1 DEF RootsBefore
<1>3. DOMAIN new = DOMAIN old \cup ({row.pos} \cap Targets)
  BY DEF After
<1>4. DOMAIN old = {rows[k].pos : k \in B}
  BY DEF ReadsAt, Reference
<1>5. \A k \in B : rows[k].pos # row.pos
  <2>1. \A k \in B : rows[k].pos \in Targets /\ rows[k].pos \in DOMAIN old
    BY <1>4 DEF RootsBefore
  <2> QED
    BY <2>1 DEF DuplicateRoot
<1>6. \A j, k \in B : rows[j].pos = rows[k].pos => j = k
  BY DEF ReadsAt, Reference
<1>7. ASSUME NEW k \in B PROVE rows[k].kind = "SCORE" /\ new[rows[k].pos] = SlotOf(rows, n + 1, k)
  <2>1. rows[k].pos \in DOMAIN old
    BY <1>4
  <2>2. PICK j \in B : rows[k].pos = rows[j].pos /\ new[rows[k].pos] = SlotOf(rows, n + 1, j)
    BY <1>5, <2>1, FoundSlot
  <2>3. j = k
    BY <1>6, <2>2
  <2> QED
    BY <2>2, <2>3 DEF ReadsAt, Reference
<1>8. ASSUME row.pos \in Targets PROVE row.kind = "SCORE" /\ new[row.pos] = SlotOf(rows, n + 1, n)
  <2>1. row.kind = "SCORE" /\ row.at = Text[row.payload.at]
    BY <1>1, <1>8 DEF NonScoreRoot, Sound, Readable
  <2>2. row.pos \in DOMAIN new
    BY <1>3, <1>8
  <2>3. new[row.pos] = Root(row)
    BY <2>2 DEF After, SlotAfter
  <2>4. Later(rows, n + 1, n) = {}
    <3>1. (n + 1)..((n + 1) - 1) = {}
      BY <1>1
    <3> QED
      BY <3>1 DEF Later
  <2>5. IntentOf(row.pos) \in Intents
    BY <1>8, IntentTyped DEF ReadsAt
  <2>6. CASE ~IntentOf(row.pos).inert /\ IntentOf(row.pos).unit # row.payload.unit
    BY <2>1, <2>3, <2>6 DEF Root, SlotOf, UnitOf
  <2>7. CASE ~(~IntentOf(row.pos).inert /\ IntentOf(row.pos).unit # row.payload.unit)
    <3>1. StateByCharter(rows, n + 1, n) = Recorded
      BY <2>4, <2>7 DEF StateByCharter
    <3> QED
      BY <2>1, <2>3, <2>7, <3>1 DEF Root, SlotOf, UnitOf, ContextOf, StampOf
  <2> QED
    BY <2>1, <2>6, <2>7
<1> HIDE DEF row, old, new, B, C
<1>9. n \notin B
  BY <1>1 DEF B, RootsBefore
<1>10. DOMAIN new = {rows[k].pos : k \in C}
  BY <1>2, <1>3, <1>4 DEF row
<1>11. \A j, k \in C : rows[j].pos = rows[k].pos => j = k
  BY <1>2, <1>5, <1>6 DEF row
<1>12. \A k \in C : rows[k].kind = "SCORE" /\ new[rows[k].pos] = SlotOf(rows, n + 1, k)
  BY <1>2, <1>7, <1>8 DEF row
<1> QED
  BY <1>10, <1>11, <1>12 DEF Reference, C, new, row

\* A longer log says the same of an intent or more.
LEMMA LongerAdvances ==
    ASSUME NEW rows, NEW n \in Nat, NEW m \in Nat, n <= m, NEW old, NEW new,
           Reference(rows, n, old), Reference(rows, m, new), manifest \in Manifests
    PROVE  Advances(old, new)
<1> SUFFICES ASSUME NEW pos \in DOMAIN old
             PROVE  /\ pos \in DOMAIN new
                    /\ Legal(old[pos].state, new[pos].state)
                    /\ [new[pos] EXCEPT !.state = old[pos].state] = old[pos]
  BY DEF Advances
<1>1. PICK k \in RootsBefore(rows, n) : pos = rows[k].pos
  BY DEF Reference
<1>2. k \in 1..(n - 1) /\ pos \in Targets /\ k \in RootsBefore(rows, m)
  BY <1>1 DEF RootsBefore
<1>3. pos \in DOMAIN new /\ old[pos] = SlotOf(rows, n, k) /\ new[pos] = SlotOf(rows, m, k)
  BY <1>1, <1>2 DEF Reference
<1>4. CASE ~Comparable(rows, k)
  <2>1. old[pos] = Unrooted /\ new[pos] = Unrooted
    BY <1>3, <1>4 DEF SlotOf, Comparable
  <2> QED
    BY <1>3, <2>1 DEF Legal, Unrooted
<1>5. CASE Comparable(rows, k)
  <2> DEFINE S(i) == StateByCharter(rows, i, k)
  <2>1. IntentOf(pos) \in Intents
    BY <1>2, IntentTyped
  <2>2. /\ \A i : S(i) = IF Late(rows, i, k) THEN Expired ELSE IF Hit(rows, i, k) THEN Met ELSE Recorded
        /\ \A i : SlotOf(rows, i, k) = [state |-> S(i), context |-> rows[k].payload.context,
                                        anchor |-> Text[rows[k].payload.at]]
    BY <1>1, <1>5, <2>1, CharterIs
  <2> HIDE DEF S
  <2>3. Later(rows, n, k) \subseteq Later(rows, m, k)
    <3>1. (k + 1)..(n - 1) \subseteq (k + 1)..(m - 1)
      BY <1>2
    <3> QED
      BY <3>1 DEF Later
  <2>4. (Late(rows, n, k) => Late(rows, m, k)) /\ (Hit(rows, n, k) => Hit(rows, m, k))
    BY <2>3 DEF Late, Hit
  <2>5. Legal(S(n), S(m))
    BY <2>2, <2>4 DEF Legal, Forward
  <2>6. old[pos].state = S(n) /\ new[pos].state = S(m)
    BY <1>3, <2>2
  <2>7. [new[pos] EXCEPT !.state = S(n)] = old[pos]
    BY <1>3, <2>2
  <2> QED
    BY <1>3, <2>5, <2>6, <2>7
<1> QED
  BY <1>4, <1>5

(***************************************************************************)
(* What is being replayed and what was published are readings of the log   *)
(* that the charter agrees with.                                           *)
(***************************************************************************)
PublishedInv ==
    /\ published.rows \in 0..Len(audit)
    /\ Reference(audit, published.rows + 1, published.slots)
ReadingInv ==
    /\ replay = [step |-> "row", rows |-> replay.rows, next |-> replay.next, slots |-> replay.slots]
    /\ DOMAIN replay.rows = 1..Len(replay.rows) /\ Len(replay.rows) \in published.rows..Len(audit)
    /\ \A n \in 1..Len(replay.rows) : replay.rows[n] = audit[n]
    /\ replay.next \in 1..(Len(replay.rows) + 1)
    /\ Reference(replay.rows, replay.next, replay.slots)
ReplayInv == PublishedInv /\ (replay # Idle => ReadingInv)

\* The log only grows.
LEMMA LogGrows ==
    ASSUME AuditInv, [PSNext]_PSvars
    PROVE  /\ Len(audit) \in Nat /\ Len(audit') \in Nat /\ Len(audit) <= Len(audit')
           /\ \A n \in 1..Len(audit) : audit'[n] = audit[n]
           /\ UNCHANGED manifest
<1>1. LogTyped /\ LogTyped'
  BY AuditNext DEF AuditInv
<1>2. UNCHANGED audit \/ \E row : audit' = Append(audit, row)
  BY DEF PSNext, PSvars, StartRun, RecordHalt, RecordScore, RunRaises, EndOfStream,
         StartReplay, ReplayRow, ReplayFails, Publish, Crash
<1>3. UNCHANGED manifest
  BY DEF PSNext, PSvars, StartRun, RecordHalt, RecordScore, RunRaises, EndOfStream,
         StartReplay, ReplayRow, ReplayFails, Publish, Crash
<1>4. CASE UNCHANGED audit
  BY <1>1, <1>3, <1>4 DEF LogTyped
<1>5. ASSUME NEW row, audit' = Append(audit, row)
      PROVE  Len(audit') = Len(audit) + 1 /\ \A n \in 1..Len(audit) : audit'[n] = audit[n]
  BY <1>1, <1>5 DEF LogTyped
<1> QED
  BY <1>1, <1>2, <1>3, <1>4, <1>5 DEF LogTyped

\* The charter asks nothing but the manifest.
LEMMA CharterStays ==
    ASSUME UNCHANGED manifest
    PROVE  \A rows, n, slots : Reference(rows, n, slots)' <=> Reference(rows, n, slots)
<1>1. Targets' = Targets /\ \A pos : IntentOf(pos)' = IntentOf(pos)
  BY DEF Targets, IntentOf, Definitions
<1>2. \A rows, n : RootsBefore(rows, n)' = RootsBefore(rows, n)
  BY <1>1 DEF RootsBefore
<1>3. \A rows, n, k : StateByCharter(rows, n, k)' = StateByCharter(rows, n, k)
  BY <1>1 DEF StateByCharter, Later, Crosses, UnitOf, MagnitudeOf
<1>4. \A rows, n, k : SlotOf(rows, n, k)' = SlotOf(rows, n, k)
  BY <1>1, <1>3 DEF SlotOf, Unrooted
<1> QED
  BY <1>2, <1>4 DEF Reference

LEMMA ReplayInit == PSInit => ReplayInv
<1> SUFFICES ASSUME PSInit PROVE ReplayInv
  OBVIOUS
<1>1. audit = <<>> /\ replay = Idle /\ published.rows = 0 /\ published.slots = <<>>
  BY DEF PSInit, Result
<1>2. RootsBefore(audit, 0 + 1) = {}
  BY DEF RootsBefore
<1>3. Reference(audit, 0 + 1, <<>>)
  BY <1>2 DEF Reference
<1> QED
  BY <1>1, <1>3 DEF ReplayInv, PublishedInv

\* A reconstruction that goes on reads the same log.
LEMMA ReadingStays ==
    ASSUME AuditInv, ReplayInv, [PSNext]_PSvars, UNCHANGED published
    PROVE  /\ PublishedInv'
           /\ UNCHANGED replay => ReplayInv'
<1>1. /\ Len(audit) \in Nat /\ Len(audit') \in Nat /\ Len(audit) <= Len(audit')
      /\ \A n \in 1..Len(audit) : audit'[n] = audit[n]
      /\ UNCHANGED manifest
  BY LogGrows
<1>2. \A rows, n, slots : Reference(rows, n, slots)' <=> Reference(rows, n, slots)
  BY <1>1, CharterStays
<1>3. PublishedInv'
  <2> DEFINE m == published.rows
  <2>1. m \in 0..Len(audit) /\ Reference(audit, m + 1, published.slots)
    BY DEF ReplayInv, PublishedInv
  <2> HIDE DEF m
  <2>2. m \in Nat /\ m + 1 \in Nat /\ (m + 1) - 1 = m /\ m \in 0..Len(audit')
    BY <1>1, <2>1
  <2>3. \A k \in 1..((m + 1) - 1) : audit'[k] = audit[k]
    BY <1>1, <2>1, <2>2
  <2>4. Reference(audit', m + 1, published.slots)
    BY ONLY <2>1, <2>2, <2>3, ReferenceAgrees
  <2> QED
    BY <1>2, <2>2, <2>4 DEF PublishedInv, m
<1>4. ASSUME UNCHANGED replay, replay # Idle PROVE ReadingInv'
  <2> DEFINE L == Len(replay.rows)
  <2>1. ReadingInv /\ L \in Nat /\ published.rows \in Nat
    BY <1>1, <1>4 DEF ReplayInv, ReadingInv, PublishedInv
  <2>2. L \in published.rows..Len(audit) /\ \A n \in 1..L : replay.rows[n] = audit[n]
    BY <2>1 DEF ReadingInv
  <2> HIDE DEF L
  <2>3. L \in published.rows..Len(audit') /\ \A n \in 1..L : replay.rows[n] = audit'[n]
    BY <1>1, <2>1, <2>2
  <2> QED
    BY <1>2, <1>4, <2>1, <2>3 DEF ReadingInv, L
<1> QED
  BY <1>3, <1>4 DEF ReplayInv

LEMMA IsReading == ASSUME AuditInv, ReadingInv, AtRow PROVE ReadsAt(replay.rows, replay.next)
<1>1. AllSound(audit) /\ Len(audit) \in Nat
  BY LogIsSound DEF AuditInv, LogTyped
<1>2. AllSound(replay.rows)
  BY <1>1 DEF AllSound, ReadingInv
<1> QED
  BY <1>1, <1>2 DEF ReadsAt, ReadingInv, AtRow, AuditInv, LogTyped

LEMMA ReplayNext == AuditInv /\ ReplayInv /\ [PSNext]_PSvars => ReplayInv'
<1> SUFFICES ASSUME AuditInv, ReplayInv, [PSNext]_PSvars PROVE ReplayInv'
  OBVIOUS
<1>1. /\ Len(audit) \in Nat /\ Len(audit') \in Nat /\ Len(audit) <= Len(audit')
      /\ \A n \in 1..Len(audit) : audit'[n] = audit[n]
      /\ UNCHANGED manifest
  BY LogGrows
<1>2. \A rows, n, slots : Reference(rows, n, slots)' <=> Reference(rows, n, slots)
  BY <1>1, CharterStays
<1>3. CASE UNCHANGED <<replay, published>>
  BY <1>3, ReadingStays
<1>4. CASE UNCHANGED published /\ replay' = Idle
  BY <1>4, ReadingStays DEF ReplayInv
<1>5. CASE StartReplay
  <2>1. /\ replay' = [step |-> "row", rows |-> audit, next |-> 1, slots |-> <<>>]
        /\ UNCHANGED <<audit, published>>
    BY <1>5 DEF StartReplay
  <2>2. /\ replay'.rows = audit /\ replay'.next = 1 /\ replay'.slots = <<>>
    BY <2>1
  <2>3. DOMAIN audit = 1..Len(audit) /\ Len(audit) \in published.rows..Len(audit)
    BY <1>1 DEF AuditInv, LogTyped, ReplayInv, PublishedInv
  <2>4. Reference(audit, 1, <<>>)
    <3>1. RootsBefore(audit, 1) = {}
      BY DEF RootsBefore
    <3> QED
      BY <3>1 DEF Reference
  <2>5. ReadingInv'
    BY <1>1, <1>2, <2>1, <2>2, <2>3, <2>4 DEF ReadingInv
  <2> QED
    BY <2>1, <2>5, ReadingStays DEF ReplayInv
<1>6. CASE ReplayRow
  <2>1. AtRow /\ ~Refused(Row) /\ ReadingInv
    BY <1>6 DEF ReplayRow, AtRow, ReplayInv
  <2> DEFINE rows == replay.rows  n == replay.next
  <2>2. ReadsAt(rows, n) /\ ~DuplicateRoot(rows[n]) /\ ~NonScoreRoot(rows[n])
    BY <2>1, IsReading DEF Refused, Row
  <2>3. Reference(rows, n + 1, After(rows[n]))
    BY <2>2, ReferenceStep
  <2>4. replay = [step |-> "row", rows |-> rows, next |-> n, slots |-> replay.slots]
    BY <2>1 DEF ReadingInv
  <2>5. replay' = [replay EXCEPT !.next = n + 1, !.slots = After(rows[n])] /\ UNCHANGED <<audit, published>>
    BY <1>6 DEF ReplayRow, Row
  <2> DEFINE slots == After(rows[n])
  <2> HIDE DEF rows, n, slots
  <2>6. replay' = [step |-> "row", rows |-> rows, next |-> n + 1, slots |-> slots]
    <3> DEFINE old == replay  s == replay.slots
    <3>1. old = [step |-> "row", rows |-> rows, next |-> n, slots |-> s]
      BY <2>4
    <3>2. replay' = [old EXCEPT !.next = n + 1, !.slots = slots]
      BY <2>5 DEF slots
    <3> HIDE DEF old, s
    <3>3. replay' = [[old EXCEPT !.next = n + 1] EXCEPT !.slots = slots]
      BY <3>1, <3>2
    <3>4. [old EXCEPT !.next = n + 1] = [step |-> "row", rows |-> rows, next |-> n + 1, slots |-> s]
      BY <3>1
    <3> QED
      BY ONLY <3>3, <3>4
  <2>7. replay'.rows = rows /\ replay'.next = n + 1 /\ replay'.slots = slots
    BY <2>6
  <2>8. n \in 1..Len(rows) /\ Len(rows) \in Nat
    BY <2>2 DEF ReadsAt
  <2>9. /\ DOMAIN rows = 1..Len(rows) /\ Len(rows) \in published.rows..Len(audit)
        /\ \A k \in 1..Len(rows) : rows[k] = audit[k]
    BY <2>1 DEF ReadingInv, rows
  <2>10. n + 1 \in 1..(Len(rows) + 1) /\ Reference(rows, n + 1, slots)
    BY <2>3, <2>8 DEF slots
  <2>11. ReadingInv'
    BY <1>2, <2>5, <2>6, <2>7, <2>9, <2>10 DEF ReadingInv
  <2> QED
    BY <2>5, <2>11, ReadingStays DEF ReplayInv
<1>7. CASE Publish
  <2>1. /\ replay # Idle /\ replay.next > Len(replay.rows) /\ replay' = Idle
        /\ published' = Result(replay.rows, replay.slots) /\ UNCHANGED audit
    BY <1>7 DEF Publish
  <2>2. ReadingInv
    BY <2>1 DEF ReplayInv
  <2> DEFINE L == Len(replay.rows)
  <2>3. L \in Nat /\ L \in 0..Len(audit) /\ replay.next = L + 1
    BY <1>1, <2>1, <2>2 DEF ReadingInv, ReplayInv, PublishedInv
  <2>4. Reference(replay.rows, L + 1, replay.slots) /\ \A k \in 1..L : audit[k] = replay.rows[k]
    BY <2>2, <2>3 DEF ReadingInv
  <2>5. published'.rows = L /\ published'.slots = replay.slots
    BY <2>1 DEF Result
  <2> HIDE DEF L
  <2>6. Reference(audit, L + 1, replay.slots)
    <3>1. L + 1 \in Nat /\ (L + 1) - 1 = L
      BY <2>3
    <3>2. \A k \in 1..((L + 1) - 1) : audit[k] = replay.rows[k]
      BY <2>4, <3>1
    <3> QED
      BY ONLY <2>4, <3>1, <3>2, ReferenceAgrees
  <2> QED
    BY <1>2, <2>1, <2>3, <2>5, <2>6 DEF ReplayInv, PublishedInv
<1>8. CASE ~(StartReplay \/ ReplayRow \/ Publish)
  <2>1. UNCHANGED <<replay, published>> \/ (UNCHANGED published /\ replay' = Idle)
    BY <1>8 DEF PSNext, PSvars, StartRun, RecordHalt, RecordScore, RunRaises, EndOfStream, ReplayFails, Crash
  <2> QED
    BY <1>3, <1>4, <2>1
<1> QED
  BY <1>5, <1>6, <1>7, <1>8

THEOREM ReplayInductive == PSSpec => [](AuditInv /\ ReplayInv)
<1>1. PSInit => AuditInv /\ ReplayInv
  BY AuditInit, ReplayInit
<1>2. AuditInv /\ ReplayInv /\ [PSNext]_PSvars => (AuditInv /\ ReplayInv)'
  BY AuditNext, ReplayNext
<1> QED
  BY <1>1, <1>2, PTL DEF PSSpec

(* A row by row reconstruction (reconstruct_shadow_intent_state,           *)
(* _classify_slot) gives each intent the state that the charter defines by *)
(* numbers and sets of rows, and refuses no other row than a target that   *)
(* is a halt or was seen before.                                           *)
THEOREM ReplayFollowsCharter == PSSpec => []ReplayIsReference
<1>1. ASSUME AuditInv, ReplayInv PROVE ReplayIsReference
  <2> SUFFICES ASSUME replay # Idle
               PROVE  LET roots == RootsBefore(replay.rows, replay.next)
                      IN /\ DOMAIN replay.slots = {replay.rows[k].pos : k \in roots}
                         /\ \A k \in roots :
                              replay.slots[replay.rows[k].pos].state = StateByCharter(replay.rows, replay.next, k)
                         /\ AtRow /\ (Refused(Row) \/ Illegal(Row)) =>
                              Row.pos \in Targets /\ (Row.kind = "HALT" \/ Row.pos \in DOMAIN replay.slots)
    BY DEF ReplayIsReference
  <2> DEFINE rows == replay.rows  n == replay.next
  <2>1. ReadingInv /\ Reference(rows, n, replay.slots)
    BY <1>1 DEF ReplayInv, ReadingInv
  <2>2. ASSUME NEW k \in RootsBefore(rows, n)
        PROVE  replay.slots[rows[k].pos].state = StateByCharter(rows, n, k)
    <3>1. replay.slots[rows[k].pos] = SlotOf(rows, n, k)
      BY <2>1 DEF Reference
    <3>2. SlotOf(rows, n, k).state = StateByCharter(rows, n, k)
      BY DEF SlotOf, StateByCharter, Unrooted
    <3> QED
      BY <3>1, <3>2
  <2>3. ASSUME AtRow, Refused(Row) \/ Illegal(Row)
        PROVE  Row.pos \in Targets /\ (Row.kind = "HALT" \/ Row.pos \in DOMAIN replay.slots)
    <3>1. ReadsAt(rows, n) /\ Row = rows[n]
      BY <1>1, <2>1, <2>3, IsReading DEF Row
    <3>2. Sound(Row) /\ ~Illegal(Row)
      BY <3>1, NeverIllegal DEF ReadsAt, AllSound
    <3> QED
      BY <2>3, <3>2 DEF Refused, Sound, DuplicateRoot, NonScoreRoot
  <2> QED
    BY <2>1, <2>2, <2>3 DEF Reference
<1> QED
  BY <1>1, ReplayInductive, PTL

(* What is reported of an intent (reconstruct_shadow_intent_state) is      *)
(* reported again, with the same root and in the same state or a later     *)
(* one, whatever was appended, cut off or run again in between.            *)
THEOREM ReportsOnlyAdvance == PSSpec => ResultsOnlyAdvance
<1>1. ASSUME AuditInv, ReplayInv, AuditInv', ReplayInv', [PSNext]_PSvars
      PROVE  [Advances(published.slots, published'.slots)]_published
  <2>1. CASE Publish
    <3>1. replay # Idle /\ published' = Result(replay.rows, replay.slots) /\ UNCHANGED <<audit, manifest>>
      BY <2>1 DEF Publish
    <3> DEFINE m == published.rows  L == Len(replay.rows)
    <3>2. m \in Nat /\ L \in Nat /\ m <= L /\ published'.rows = L
      BY <1>1, <3>1 DEF ReplayInv, ReadingInv, PublishedInv, Result, AuditInv, LogTyped
    <3>3. Reference(audit, m + 1, published.slots)
      BY <1>1 DEF ReplayInv, PublishedInv
    <3>4. Reference(audit, L + 1, published'.slots)
      BY <1>1, <3>1, <3>2, CharterStays DEF ReplayInv, PublishedInv
    <3>5. manifest \in Manifests
      BY <1>1 DEF AuditInv, LogTyped
    <3> HIDE DEF m, L
    <3>6. m + 1 \in Nat /\ L + 1 \in Nat /\ m + 1 <= L + 1
      BY <3>2
    <3> QED
      BY ONLY <3>3, <3>4, <3>5, <3>6, LongerAdvances
  <2>2. CASE ~Publish
    BY <1>1, <2>2 DEF PSNext, PSvars, StartRun, RecordHalt, RecordScore, RunRaises, EndOfStream,
       StartReplay, ReplayRow, ReplayFails, Crash
  <2> QED
    BY <2>1, <2>2
<1> QED
  BY <1>1, ReplayInductive, PTL DEF PSSpec, ResultsOnlyAdvance
=============================================================================
