---------------------------- MODULE PassiveShadow ----------------------------
(***************************************************************************)
(* phase6_1 and phase6_2_shadow_intent.  A run reads the event stream line *)
(* by line (s5_runner.py) and appends one row to the audit log for each; a *)
(* reconstruction replays the rows of the log against a verified manifest  *)
(* and moves hypothetical intents through their lifecycle (atomic_replay_  *)
(* step.py), in memory, for its caller.                                    *)
(*                                                                         *)
(* The content of the stream is fixed, but decided only when a line is     *)
(* read for the first time; it may grow between runs.  A row of the log    *)
(* holds its time stamp twice, as SQLite text and as the number of its     *)
(* payload; texts are sequences of digits.  All rows are of one artifact,  *)
(* so the position of a line is its Silver pair.                           *)
(***************************************************************************)
EXTENDS NetEdge, FiniteSets

CONSTANTS Contexts,   \* pairs of venue and pair
          Times,      \* observed_at_epoch_ms of the events
          Values,     \* gross magnitudes and boundaries
          Durations,  \* hypothetical windows
          Manifests,  \* manifest files: sequences of entries
          MaxLines,   \* bound: lines of the stream
          MaxRuns     \* bound: runs over it

\* build_logical_intent(): what of an intent decides its lifecycle.
Intents == [inert : BOOLEAN, positive : BOOLEAN, boundary : Values, unit : Units, window : Durations]

ASSUME ShadowAssumption ==
    /\ Contexts # {} /\ Times # {} /\ Times \subseteq Nat
    /\ Values # {} /\ Values \subseteq Int /\ Durations \subseteq Nat
    /\ MaxLines \in Nat /\ MaxRuns \in Nat /\ "proportion" \in Units
    /\ \A file \in Manifests : \A i \in DOMAIN file :
        file[i].pos \in 1..MaxLines /\ file[i].intent \in Intents

VARIABLES
    stream,    \* the lines read so far by any run
    reader,    \* the line the run reads next, 0 without a run
    runs,      \* runs begun
    audit,     \* the audit log, one autocommitted row after the other
    manifest,  \* the manifest file
    replay,    \* a reconstruction, or Idle
    published  \* what the last reconstruction returned

PSvars == <<stream, reader, runs, audit, manifest, replay, published>>

(***************************************************************************)
(* Canonical texts of numbers.                                             *)
(***************************************************************************)
\* str() of a number that is not negative.
Text[n \in Nat] == IF n < 10 THEN <<n>> ELSE Append(Text[n \div 10], n % 10)

\* _compare_canonical(s, t) < 0
Precedes(s, t) ==
    \/ Len(s) < Len(t)
    \/ /\ Len(s) = Len(t)
       /\ \E i \in DOMAIN s : s[i] < t[i] /\ \A j \in 1..(i - 1) : s[j] = t[j]

\* _add_canonical(): digit by digit from the right.
AddText(s, t) ==
    LET width == IF Len(s) < Len(t) THEN Len(t) ELSE Len(s)
        digit(x, k) == IF k < Len(x) THEN x[Len(x) - k] ELSE 0
        total[k \in 0..width] ==
            digit(s, k) + digit(t, k) + (IF k = 0 THEN 0 ELSE total[k - 1] \div 10)
        length == IF total[width] > 0 THEN width + 1 ELSE width
    IN [i \in 1..length |-> total[length - i] % 10]

(***************************************************************************)
(* A line of the stream and the row it becomes.                            *)
(***************************************************************************)
Garbage == [line |-> "garbage"]  \* not JSON: a local parse halt
Broken  == [line |-> "broken"]   \* JSON that a later stage raises on

\* What ingest_pass_path_snapshot_record() lets through, of the events in a
\* unit of which every one is blocked alike one for each unit.
AllEvents == [context : Contexts, at : Times, unit : Units, value : Values]
Events == {e \in AllEvents :
              e.unit = "proportion" \/ e = CHOOSE f \in AllEvents : f.unit = e.unit}
Lines == {Garbage, Broken} \cup Events

\* normalize_replay_snapshot_to_evidence_material(): the one GROSS_EDGE binding.
Binding(e) == [unit |-> e.unit, value |-> e.value]
Material(e) == [gross |-> Binding(e), context |-> e.context, at |-> e.at]

\* build_passive_zero_cost_validity_contexts()
ZeroCosts == << [from |-> 0, until |-> 0, cost |-> [unit |-> "proportion", value |-> 0]] >>

\* wire_passive_shadow_input(): the calculator on passive carriers; no
\* preflight is asked, so validity and age do not count.
PassiveInput(e) == [gross |-> Material(e).gross, costs |-> ZeroCosts]
Scored(e) == UnitVerdict(PassiveInput(e).gross, PassiveInput(e).costs) = Pass
ShadowInput(e) ==
    [magnitude |-> NetEdgeValue(PassiveInput(e).gross, PassiveInput(e).costs),
     unit |-> PassiveInput(e).gross.unit, context |-> Material(e).context, at |-> Material(e).at]

\* The observation of either family as the sink projects it.
HaltRow(pos) == [pos |-> pos, kind |-> "HALT", payload |-> [kind |-> "HALT"]]
ScoreRow(pos, e) ==
    [pos |-> pos, kind |-> "SCORE", at |-> Text[ShadowInput(e).at],
     payload |-> [kind |-> "SCORE", at |-> ShadowInput(e).at, context |-> ShadowInput(e).context,
                  unit |-> ShadowInput(e).unit, magnitude |-> ShadowInput(e).magnitude]]

(***************************************************************************)
(* run_in_memory_shadow_pipeline() with the durable sink.                  *)
(***************************************************************************)
NextLines ==
    CASE reader \in DOMAIN stream -> {stream[reader]}
      [] reader \in (Len(stream) + 1)..MaxLines -> Lines
      [] OTHER -> {}

ReadAs(line) == stream' = IF reader \in DOMAIN stream THEN stream ELSE Append(stream, line)

StartRun ==
    /\ reader = 0 /\ runs < MaxRuns
    /\ reader' = 1 /\ runs' = runs + 1
    /\ UNCHANGED <<stream, audit, manifest, replay, published>>

\* Mutant: a line that is not JSON is skipped.
RecordHaltUnlessGarbage ==
    /\ \E line \in NextLines \ {Broken} :
        /\ line # Garbage => ~Scored(line)
        /\ ReadAs(line)
        /\ audit' = IF line = Garbage THEN audit ELSE Append(audit, HaltRow(reader))
    /\ reader' = reader + 1
    /\ UNCHANGED <<runs, manifest, replay, published>>
RecordHalt ==
    /\ \E line \in NextLines \ {Broken} :
        /\ line # Garbage => ~Scored(line)
        /\ ReadAs(line)
        /\ audit' = Append(audit, HaltRow(reader))
    /\ reader' = reader + 1
    /\ UNCHANGED <<runs, manifest, replay, published>>
RecordScore ==
    /\ \E line \in NextLines \cap Events :
        /\ Scored(line)
        /\ ReadAs(line)
        /\ audit' = Append(audit, ScoreRow(reader, line))
    /\ reader' = reader + 1
    /\ UNCHANGED <<runs, manifest, replay, published>>

\* Mutant: the rows of a run are one transaction.
RunRaisesRolledBack ==
    /\ Broken \in NextLines /\ ReadAs(Broken)
    /\ reader' = 0 /\ audit' = SubSeq(audit, 1, Len(audit) - (reader - 1))
    /\ UNCHANGED <<runs, manifest, replay, published>>
\* The exception leaves the runner; the rows recorded before stay.
RunRaises ==
    /\ Broken \in NextLines /\ ReadAs(Broken)
    /\ reader' = 0
    /\ UNCHANGED <<runs, audit, manifest, replay, published>>

EndOfStream ==
    /\ reader > Len(stream) /\ reader' = 0
    /\ UNCHANGED <<stream, runs, audit, manifest, replay, published>>

(***************************************************************************)
(* The manifest: an entry has a position, the kind of the intent, and what *)
(* moves it.                                                               *)
(***************************************************************************)
\* verify_artifact(): of the bytes with the sealed digest, those that list
\* their entries in strictly ascending order.
Verified == \A i, j \in DOMAIN manifest : i < j => manifest[i].pos < manifest[j].pos

\* make_shadow_intent_definition_artifact(): the entries as a map.
Definitions ==
    [pos \in {manifest[i].pos : i \in DOMAIN manifest} |->
        manifest[CHOOSE i \in DOMAIN manifest : manifest[i].pos = pos].intent]
Targets == DOMAIN Definitions
IntentOf(pos) == Definitions[pos]

(***************************************************************************)
(* One row of a reconstruction.                                            *)
(***************************************************************************)
Idle == [step |-> "idle"]
Recorded == "INTENT_RECORDED"
Met == "HYPOTHETICAL_CONDITION_MET"
Expired == "INTENT_EXPIRED"
Unrooted == [state |-> "AUDIT_REPLAYED"]  \* NoRootEvidence, for good

\* The projections read the payload as strict JSON and hold it against the
\* columns of the row.
Readable(row) ==
    /\ row.kind = row.payload.kind
    /\ row.kind = "SCORE" => row.at = Text[row.payload.at]
ContextOf(row)   == row.payload.context
UnitOf(row)      == row.payload.unit
MagnitudeOf(row) == row.payload.magnitude
StampOf(row)     == row.at

\* _establish_slot(), or the slot of a unit that cannot be compared.
Root(row) ==
    IF ~IntentOf(row.pos).inert /\ IntentOf(row.pos).unit # UnitOf(row) THEN Unrooted
    ELSE [state |-> Recorded, context |-> ContextOf(row), anchor |-> StampOf(row)]

DuplicateRoot(row) == row.pos \in Targets /\ row.pos \in DOMAIN replay.slots
NonScoreRoot(row) == row.pos \in Targets /\ row.kind # "SCORE"

\* classify_timestamp_window()
Window(slot, row, duration) ==
    IF Precedes(StampOf(row), slot.anchor) THEN "non comparable"
    ELSE IF Precedes(AddText(slot.anchor, Text[duration]), StampOf(row)) THEN "expired"
    ELSE "in window"

\* unit_comparable() and classify_directional_crossing(); an inert intent has
\* neither.
Crosses(intent, row) ==
    /\ ~intent.inert /\ intent.unit = UnitOf(row)
    /\ IF intent.positive THEN MagnitudeOf(row) >= intent.boundary
                          ELSE MagnitudeOf(row) <= intent.boundary

\* Mutant: the crossing is looked at before the window.
ClassifyCrossingFirst(slot, intent, row) ==
    LET window == Window(slot, row, intent.window)
    IN IF window # "non comparable" /\ Crosses(intent, row) THEN Met
       ELSE IF window = "expired" THEN Expired
       ELSE slot.state
\* _classify_slot()
Classify(slot, intent, row) ==
    LET window == Window(slot, row, intent.window)
    IN IF window = "expired" THEN Expired
       ELSE IF window = "in window" /\ Crosses(intent, row) THEN Met
       ELSE slot.state

Active(slot, row) ==
    slot.state \in {Recorded, Met} /\ row.kind = "SCORE" /\ slot.context = ContextOf(row)

\* _LEGAL_FORWARD; nothing in the code retires an intent.
Forward == {<<Recorded, Met>>, <<Recorded, Expired>>, <<Met, Expired>>}
Legal(old, new) == new = old \/ <<old, new>> \in Forward

\* A slot that the row found, classified if it is active, or the row's root.
SlotAfter(pos, row) ==
    IF pos = row.pos THEN Root(row)
    ELSE LET slot == replay.slots[pos]
         IN IF Active(slot, row)
            THEN [slot EXCEPT !.state = Classify(slot, IntentOf(pos), row)]
            ELSE slot
\* make_shadow_lifecycle_snapshot() of them.
After(row) ==
    [pos \in DOMAIN replay.slots \cup ({row.pos} \cap Targets) |-> SlotAfter(pos, row)]

(***************************************************************************)
(* reconstruct_shadow_intent_state()                                       *)
(***************************************************************************)
StartReplay ==
    /\ replay = Idle /\ Verified
    /\ replay' = [step |-> "row", rows |-> audit, next |-> 1, slots |-> <<>>]
    /\ UNCHANGED <<stream, reader, runs, audit, manifest, published>>

AtRow == replay # Idle /\ replay.next \in DOMAIN replay.rows
Row == replay.rows[replay.next]
Result(rows, slots) == [rows |-> Len(rows), slots |-> slots]
Refused(row) == ~Readable(row) \/ DuplicateRoot(row) \/ NonScoreRoot(row)
Illegal(row) ==
    \E pos \in DOMAIN replay.slots : pos # row.pos /\ ~Legal(replay.slots[pos].state, After(row)[pos].state)

ReplayRow ==
    /\ AtRow /\ ~Refused(Row) /\ ~Illegal(Row)
    /\ replay' = [replay EXCEPT !.next = @ + 1, !.slots = After(Row)]
    /\ UNCHANGED <<stream, reader, runs, audit, manifest, published>>

\* The first row that is refused ends the reconstruction without a result.
ReplayFails ==
    /\ AtRow /\ (Refused(Row) \/ Illegal(Row))
    /\ replay' = Idle
    /\ UNCHANGED <<stream, reader, runs, audit, manifest, published>>

Publish ==
    /\ replay # Idle /\ replay.next > Len(replay.rows)
    /\ published' = Result(replay.rows, replay.slots)
    /\ replay' = Idle
    /\ UNCHANGED <<stream, reader, runs, audit, manifest>>

\* The process dies, with its run and its reconstruction.
Crash ==
    /\ reader # 0 \/ replay # Idle
    /\ reader' = 0 /\ replay' = Idle
    /\ UNCHANGED <<stream, runs, audit, manifest, published>>

PSInit ==
    /\ stream = <<>> /\ reader = 0 /\ runs = 0 /\ audit = <<>>
    /\ manifest \in Manifests
    /\ replay = Idle
    /\ published = Result(<<>>, <<>>)

PSNext ==
    \/ StartRun \/ RecordHalt \/ RecordScore \/ RunRaises \/ EndOfStream
    \/ StartReplay \/ ReplayRow \/ ReplayFails \/ Publish \/ Crash

PSSpec == PSInit /\ [][PSNext]_PSvars

(***************************************************************************)
(* Properties.                                                             *)
(***************************************************************************)
(* No line is dropped and none is invented: each run's rows are the first  *)
(* lines of the stream in order, also when it was cut off, an event in the *)
(* substrate's unit is a score of its own magnitude and time, and every    *)
(* other line is a halt.                                                   *)
AuditMatchesStream ==
    /\ \A n \in DOMAIN audit :
        /\ n = 1 => audit[n].pos = 1
        /\ n > 1 => audit[n].pos \in {1, audit[n - 1].pos + 1}
        /\ LET line == stream[audit[n].pos]
               score == line \in Events /\ line.unit = "proportion"
           IN /\ audit[n].kind = IF score THEN "SCORE" ELSE "HALT"
              /\ score => /\ audit[n].payload.magnitude = line.value
                          /\ audit[n].payload.context = line.context
                          /\ audit[n].at = Text[line.at]
    /\ reader > 1 => audit # <<>> /\ audit[Len(audit)].pos = reader - 1
    /\ Cardinality({n \in DOMAIN audit : audit[n].pos = 1}) <= runs

\* What the charter of the lifecycle says of the rows before the n-th: the
\* order of the rows after the root does not matter.
Later(rows, n, root) ==
    {rows[k] : k \in {k \in (root + 1)..(n - 1) :
        /\ rows[k].kind = "SCORE"
        /\ rows[k].payload.context = rows[root].payload.context
        /\ rows[k].payload.at >= rows[root].payload.at}}
StateByCharter(rows, n, root) ==
    LET intent == IntentOf(rows[root].pos)
        late(row) == row.payload.at > rows[root].payload.at + intent.window
    IN IF ~intent.inert /\ intent.unit # rows[root].payload.unit THEN "AUDIT_REPLAYED"
       ELSE IF \E row \in Later(rows, n, root) : late(row) THEN Expired
       ELSE IF \E row \in Later(rows, n, root) : Crosses(intent, row) THEN Met
       ELSE Recorded
RootsBefore(rows, n) == {k \in 1..(n - 1) : rows[k].pos \in Targets}

(* The state of every intent is the one the charter defines by numbers and *)
(* sets of rows, whatever order they came in, and a row is refused only    *)
(* for a target that is seen twice or is a halt.                           *)
ReplayIsReference ==
    replay # Idle =>
        LET roots == RootsBefore(replay.rows, replay.next)
        IN /\ DOMAIN replay.slots = {replay.rows[k].pos : k \in roots}
           /\ \A k \in roots :
                replay.slots[replay.rows[k].pos].state = StateByCharter(replay.rows, replay.next, k)
           /\ AtRow /\ (Refused(Row) \/ Illegal(Row)) =>
                Row.pos \in Targets /\ (Row.kind = "HALT" \/ Row.pos \in DOMAIN replay.slots)

(* Reconstructions of a growing log agree: an intent that was reported is  *)
(* reported again, with the same root, in the same state or a later one,   *)
(* across crashes, re-runs and concurrent runs.                            *)
Advances(old, new) ==
    \A pos \in DOMAIN old :
        /\ pos \in DOMAIN new
        /\ Legal(old[pos].state, new[pos].state)
        /\ [new[pos] EXCEPT !.state = old[pos].state] = old[pos]
ResultsOnlyAdvance == [][Advances(published.slots, published'.slots)]_published
=============================================================================
