----------------------- MODULE ClobExecutor_proofs -----------------------
(***************************************************************************)
(* The safety of the entry path for every set of intents and tokens, every *)
(* order size and every dust tolerance.  One inductive invariant, IInv,    *)
(* carries all of it; the theorems at the end are its consequences.        *)
(***************************************************************************)
EXTENDS ClobExecutor, TLAPS

(* What the status of an intent says about its order and its row. *)
Unsent(i)  == order[i] = "none" /\ filled[i] = 0 /\ booked[i] = 0
Settled(i) == order[i] = "final" /\ booked[i] = filled[i]
Accounting ==
    \A i \in Intents :
        /\ status[i] \notin {"ACCEPTED", "REJECTED"}
        /\ order[i] = "none" => filled[i] = 0
        /\ status[i] \in {Absent, "INTENT_CREATED"} => Unsent(i)
        /\ status[i] \in UnresolvedStates => booked[i] = 0
        /\ status[i] = "CANCELLED" => Settled(i) /\ booked[i] = 0
        /\ status[i] \in OpenStates => Settled(i) /\ booked[i] > 0

(* What the program counter says about the locals of execute(). *)
Choosing   == {"gate", "cleared", "priced"}
Submitting == {"created", "submitted", "replied", "confirm", "recover", "trip", "opened"}
Locals ==
    /\ pc \in {"idle", "down"} => cur = NoIntent
    /\ pc \in Choosing => tok \in Tokens /\ cur = NoIntent
    /\ pc \in Submitting => cur \in Intents /\ tok \in Tokens /\ tokenOf[cur] = tok
    /\ pc \in {"cleared", "priced", "created"} => ~Unresolved(tok)
    /\ pc = "created" => status[cur] = "INTENT_CREATED"
    /\ pc = "submitted" => status[cur] = "SUBMITTED_UNKNOWN" /\ order[cur] = "none"
    /\ pc \in {"replied", "confirm"} =>
         /\ status[cur] = "SUBMITTED_UNKNOWN"
         /\ reply \in Replies
         /\ Truthful(reply, order[cur], filled[cur])
    /\ pc = "confirm" => Filled
    /\ pc \in {"recover", "trip"} => status[cur] \in UnresolvedStates \cup OpenStates
    /\ pc = "opened" => booked[cur] > 0

PauseIsQuiet == pause.on => pc \in {"idle", "down"}

IInv == /\ TypeOK
        /\ Accounting
        /\ Locals
        /\ OneInDoubtPerToken
        /\ MemoryIsBacked
        /\ PauseIsQuiet
        /\ TripIsAudited

---------------------------------------------------------------------------
(* The branches of classify_fak_fill() are exhaustive and exclusive. *)
LEMMA Branches ==
    ASSUME NEW r \in Responses
    PROVE  /\ Raises(r) \/ Resting(r) \/ Costless(r) \/ NoShares(r) \/ Costed(r)
           /\ Costed(r)   => ~Raises(r) /\ ~Resting(r) /\ ~Costless(r) /\ ~NoShares(r)
           /\ NoShares(r) => ~Raises(r) /\ ~Resting(r) /\ ~Costless(r) /\ ~Costed(r)
           /\ Costed(r)   => r.making \in 1..Requested
           /\ r.making \in Int
BY ExecutorAssumption
DEF Raises, Resting, NoShares, Costless, Costed, Responses, Amounts, Missing, Unparsable

LEMMA Kinds ==
    ASSUME NEW r \in Responses
    PROVE  /\ ClassifyFakFill(r, Requested) \in {"OPEN_FILLED", "OPEN_PARTIAL"} => Costed(r)
           /\ ClassifyFakFill(r, Requested) = "TERMINAL_ZERO" => NoShares(r) /\ ~r.orderId
           /\ ClassifyFakFill(r, Requested) # "no_match"
<1>1. CASE Raises(r)
  BY <1>1, Branches DEF ClassifyFakFill
<1>2. CASE ~Raises(r) /\ (Resting(r) \/ Costless(r))
  BY <1>2, Branches DEF ClassifyFakFill
<1>3. CASE NoShares(r)
  <2>1. r.orderId \in BOOLEAN
    BY DEF Responses
  <2> QED BY <1>3, <2>1, Branches DEF ClassifyFakFill
<1>4. CASE Costed(r)
  <2>1. r.making + Dust >= Requested \/ r.making + Dust < Requested
    BY <1>4, Branches, DustAssumption, ExecutorAssumption
  <2> QED BY <1>4, <2>1, Branches DEF ClassifyFakFill
<1> QED BY <1>1, <1>2, <1>3, <1>4, Branches

(* A decision to open a position rests on a positive cost. *)
LEMMA FilledIsCosted ==
    ASSUME reply \in Replies, Filled
    PROVE  /\ reply \in Responses /\ reply.kind = "response"
           /\ Costed(reply)
           /\ reply.making \in 1..Requested
           /\ FillState \in OpenStates
<1>1. reply \in Responses /\ reply.kind = "response"
  BY DEF Replies, Filled, Kind, NoMatch, NoProof, NoReply, Responses
<1>2. Costed(reply)
  BY <1>1, Kinds DEF Filled, Kind
<1>3. reply.making \in 1..Requested
  BY <1>1, <1>2, Branches
<1>4. FillState \in OpenStates
  BY DEF FillState, OpenStates
<1> QED BY <1>1, <1>2, <1>3, <1>4

(* A decision that the order is void rests on a proof that nothing filled. *)
LEMMA VoidIsProved ==
    ASSUME reply \in Replies, Kind \in {"no_match", "TERMINAL_ZERO"},
           NEW o, NEW q, Truthful(reply, o, q)
    PROVE  o = "final" /\ q = 0
<1>1. CASE reply.kind = "response"
  <2>1. reply \in Responses
    BY <1>1 DEF Replies, NoMatch, NoProof, NoReply
  <2>2. NoShares(reply) /\ ~reply.orderId
    BY <1>1, <2>1, Kinds DEF Kind
  <2> QED BY <1>1, <2>2 DEF Truthful
<1>2. CASE reply.kind # "response"
  <2>1. reply.kind = "no_match"
    BY <1>2 DEF Kind, Replies, Responses, NoMatch, NoProof, NoReply
  <2> QED BY <2>1 DEF Truthful
<1> QED BY <1>1, <1>2

(* What is known of the exchange while a reply is handled stays true when  *)
(* the open order fills further or dies.                                   *)
LEMMA TruthIsStable ==
    ASSUME NEW r \in Replies, NEW q, NEW o, NEW p, Truthful(r, "open", q),
           o \in {"open", "final"}
    PROVE  Truthful(r, o, p)
<1>1. r.kind # "no_match"
  BY DEF Truthful
<1>2. r.kind \in {"response", "no_proof", "no_match"}
  BY DEF Replies, Responses, NoMatch, NoProof, NoReply
<1>3. CASE r.kind = "response"
  BY <1>3 DEF Truthful
<1>4. CASE r.kind = "no_proof"
  BY <1>4 DEF Truthful
<1> QED BY <1>1, <1>2, <1>3, <1>4

(* The status after a guarded write. *)
LEMMA WriteFacts ==
    ASSUME TypeOK, NEW i \in Intents, NEW new \in States, NEW w, Write(i, new, w)
    PROVE  /\ status' \in [Intents -> States \cup {Absent}]
           /\ \A j \in Intents \ {i} : status'[j] = status[j]
           /\ status'[i] \in {status[i], new}
           /\ status[i] \in TerminalStates => status'[i] = status[i]
           /\ Commits(w) /\ status[i] \notin TerminalStates => status'[i] = new
BY DEF TypeOK, Write, Transition

---------------------------------------------------------------------------
LEMMA InitIInv == Init => IInv
BY ExecutorAssumption
DEF Init, IInv, TypeOK, Accounting, Unsent, Locals, OneInDoubtPerToken, MemoryIsBacked,
    PauseIsQuiet, TripIsAudited, States, Absent, Choosing, Submitting, Unresolved,
    UnresolvedStates, OpenStates, TerminalStates, Row, NoReply, Missing

(* Steps of execute() that touch neither the tables nor the exchange. *)
LEMMA PassiveSteps ==
    ASSUME IInv,
           \/ \E t \in Tokens : CheckPause(t)
           \/ CheckUnresolved \/ Prevalidate \/ Decline
           \/ KeepUnknown \/ RefuseFill \/ AcceptFill
           \/ Crash \/ Restart
    PROVE  IInv'
<1>1. UNCHANGED <<db, exchange>>
  BY DEF CheckPause, CheckUnresolved, Prevalidate, Decline, KeepUnknown, RefuseFill,
         AcceptFill, Crash, Restart
<1>2. Accounting' /\ OneInDoubtPerToken'
  BY <1>1 DEF IInv, db, exchange, Accounting, Unsent, Settled, OneInDoubtPerToken
<1>3. TypeOK'
  BY <1>1
  DEF IInv, TypeOK, db, exchange, At, Done, CheckPause, CheckUnresolved, Prevalidate, Decline,
      KeepUnknown, RefuseFill, AcceptFill, Crash, Restart
<1>4. Locals'
  BY <1>1
  DEF IInv, Locals, db, exchange, At, Done, Choosing, Submitting, Unresolved, Filled, Kind,
      CheckPause, CheckUnresolved, Prevalidate, Decline,
      KeepUnknown, RefuseFill, AcceptFill, Crash, Restart, UnresolvedStates
<1>5. MemoryIsBacked'
  BY <1>1
  DEF IInv, MemoryIsBacked, Row, db, CheckPause, CheckUnresolved, Prevalidate, Decline,
      KeepUnknown, RefuseFill, AcceptFill, Crash, Restart
<1>6. PauseIsQuiet' /\ TripIsAudited'
  BY <1>1
  DEF IInv, PauseIsQuiet, TripIsAudited, db, At, Done, CheckPause, CheckUnresolved, Prevalidate,
      Decline, KeepUnknown, RefuseFill, AcceptFill, Crash, Restart
<1> QED BY <1>2, <1>3, <1>4, <1>5, <1>6 DEF IInv

(* Steps that write the tables or reach the exchange, one lemma each. *)
LEMMA CreateIntentStep ==
    ASSUME IInv, NEW i \in Intents, NEW w \in Outcomes, CreateIntent(i, w)
    PROVE  IInv'
<1> USE DEF IInv, CreateIntent, exchange
<1>1. TypeOK'
  BY DEF TypeOK, Done, Locals, Choosing, States
<1>2. Accounting'
  BY DEF TypeOK, Accounting, Unsent, Settled, Absent, UnresolvedStates, OpenStates
<1>3. OneInDoubtPerToken'
  BY DEF TypeOK, OneInDoubtPerToken, UnresolvedStates, Absent
<1>0. ~Unresolved(tok) /\ tok \in Tokens
  BY DEF Locals, Choosing
<1>4. Locals'
  <2>1. CASE Returns(w)
    <3>1. status' = [status EXCEPT ![i] = "INTENT_CREATED"] /\ tokenOf' = [tokenOf EXCEPT ![i] = tok]
      BY <2>1 DEF Returns, Commits
    <3>2. ~Unresolved(tok)'
      BY <2>1, <3>1, <1>0 DEF TypeOK, Unresolved, UnresolvedStates
    <3> QED BY <2>1, <3>1, <3>2, <1>0 DEF TypeOK, Locals, Choosing, Submitting
  <2>2. CASE ~Returns(w)
    BY <2>2 DEF Locals, Choosing, Submitting, Done
  <2> QED BY <2>1, <2>2
<1>5. MemoryIsBacked'
  BY DEF MemoryIsBacked, Row
<1>6. PauseIsQuiet' /\ TripIsAudited'
  BY DEF PauseIsQuiet, TripIsAudited
<1> QED BY <1>1, <1>2, <1>3, <1>4, <1>5, <1>6

LEMMA MarkSubmittedStep ==
    ASSUME IInv, NEW w \in Outcomes, MarkSubmitted(w)
    PROVE  IInv'
<1> USE DEF IInv, MarkSubmitted, exchange
<1>0. cur \in Intents /\ status[cur] = "INTENT_CREATED" /\ tokenOf[cur] = tok
      /\ ~Unresolved(tok)
  BY DEF Locals, Submitting
<1>1. /\ status' \in [Intents -> States \cup {Absent}]
      /\ \A j \in Intents \ {cur} : status'[j] = status[j]
      /\ status'[cur] \in {status[cur], "SUBMITTED_UNKNOWN"}
      /\ Returns(w) => status'[cur] = "SUBMITTED_UNKNOWN"
  BY <1>0, WriteFacts, Zenon
  DEF States, UnresolvedStates, TerminalStates, OpenStates, Returns, Commits
<1>2. TypeOK'
  BY <1>1 DEF TypeOK, Done
<1>3. Accounting'
  BY <1>0, <1>1 DEF TypeOK, Accounting, Unsent, Settled, Absent, UnresolvedStates, OpenStates
<1>4. OneInDoubtPerToken'
  BY <1>0, <1>1 DEF TypeOK, OneInDoubtPerToken, Unresolved
<1>5. Locals'
  BY <1>0, <1>1 DEF TypeOK, Locals, Choosing, Submitting, Done, Accounting, Unsent
<1>6. MemoryIsBacked'
  BY DEF MemoryIsBacked, Row
<1>7. PauseIsQuiet' /\ TripIsAudited'
  BY DEF PauseIsQuiet, TripIsAudited, Done
<1> QED BY <1>2, <1>3, <1>4, <1>5, <1>6, <1>7

LEMMA PostOrderStep ==
    ASSUME IInv, NEW r \in Replies, NEW o \in {"none", "open", "final"},
           NEW q \in 0..Requested, PostOrder(r, o, q)
    PROVE  IInv'
<1> USE DEF IInv, PostOrder, db, At
<1>0. cur \in Intents /\ status[cur] = "SUBMITTED_UNKNOWN"
  BY DEF Locals, Submitting
<1>1. /\ \A j \in Intents \ {cur} : order'[j] = order[j] /\ filled'[j] = filled[j]
      /\ order'[cur] = o /\ filled'[cur] = q
  BY <1>0 DEF TypeOK
<1>2. TypeOK'
  BY <1>0 DEF TypeOK
<1>3. Accounting'
  BY <1>0, <1>1
  DEF Accounting, Unsent, Settled, Absent, UnresolvedStates, OpenStates, Truthful
<1>4. OneInDoubtPerToken'
  BY DEF OneInDoubtPerToken
<1>5. Locals'
  BY <1>0, <1>1 DEF Locals, Choosing, Submitting
<1>6. MemoryIsBacked'
  BY DEF MemoryIsBacked, Row
<1>7. PauseIsQuiet' /\ TripIsAudited'
  BY DEF PauseIsQuiet, TripIsAudited
<1> QED BY <1>2, <1>3, <1>4, <1>5, <1>6, <1>7

LEMMA CancelIntentStep ==
    ASSUME IInv, NEW w \in Outcomes, CancelIntent(w)
    PROVE  IInv'
<1> USE DEF IInv, CancelIntent, exchange, Done
<1>0. /\ cur \in Intents /\ status[cur] = "SUBMITTED_UNKNOWN"
      /\ order[cur] = "final" /\ filled[cur] = 0 /\ booked[cur] = 0
  BY VoidIsProved DEF Locals, Submitting, Accounting, UnresolvedStates
<1>1. /\ status' \in [Intents -> States \cup {Absent}]
      /\ \A j \in Intents \ {cur} : status'[j] = status[j]
      /\ status'[cur] \in {status[cur], "CANCELLED"}
  BY <1>0, WriteFacts, Zenon DEF States, TerminalStates
<1>2. TypeOK'
  BY <1>1 DEF TypeOK
<1>3. Accounting'
  BY <1>0, <1>1 DEF Accounting, Unsent, Settled, Absent, UnresolvedStates, OpenStates
<1>4. OneInDoubtPerToken'
  BY <1>0, <1>1 DEF OneInDoubtPerToken, UnresolvedStates
<1>5. Locals'
  BY DEF Locals, Choosing, Submitting
<1>6. MemoryIsBacked'
  BY DEF MemoryIsBacked, Row
<1>7. PauseIsQuiet' /\ TripIsAudited'
  BY DEF PauseIsQuiet, TripIsAudited
<1> QED BY <1>2, <1>3, <1>4, <1>5, <1>6, <1>7

LEMMA ConfirmFillStep ==
    ASSUME IInv, NEW w \in Outcomes, ConfirmFill(w)
    PROVE  IInv'
<1> USE DEF IInv, ConfirmFill, exchange
<1>0. /\ cur \in Intents /\ status[cur] = "SUBMITTED_UNKNOWN" /\ ~Row(cur)
      /\ reply.making \in 1..Requested /\ FillState \in OpenStates
      /\ order[cur] = "final" /\ filled[cur] = reply.making
  <2>1. /\ cur \in Intents /\ status[cur] = "SUBMITTED_UNKNOWN" /\ reply \in Replies
        /\ Filled /\ Truthful(reply, order[cur], filled[cur])
    BY DEF Locals, Submitting
  <2>2. order[cur] = "final" /\ filled[cur] = reply.making
    BY <2>1, FilledIsCosted DEF Truthful
  <2> QED BY <2>1, <2>2, FilledIsCosted DEF Accounting, Row, UnresolvedStates
<1>1. CASE ~Commits(w)
  <2>1. UNCHANGED <<booked, status, cur, tok, reply>> /\ pc' = "recover"
    BY <1>0, <1>1 DEF Returns, Commits
  <2>2. TypeOK' /\ PauseIsQuiet' /\ TripIsAudited' /\ MemoryIsBacked'
    BY <2>1 DEF TypeOK, PauseIsQuiet, TripIsAudited, MemoryIsBacked, Row
  <2>3. Accounting' /\ OneInDoubtPerToken'
    BY <2>1 DEF Accounting, Unsent, Settled, OneInDoubtPerToken
  <2>4. Locals'
    BY <2>1, <1>0 DEF Locals, Choosing, Submitting, UnresolvedStates
  <2> QED BY <2>2, <2>3, <2>4
<1>2. CASE Commits(w)
  <2>1. /\ booked' = [booked EXCEPT ![cur] = reply.making]
        /\ status' = [status EXCEPT ![cur] = FillState]
        /\ pc' \in {"opened", "recover"} /\ UNCHANGED <<cur, tok, reply>>
    BY <1>0, <1>2
  <2>2. TypeOK'
    BY <2>1, <1>0, ExecutorAssumption DEF TypeOK, States, TerminalStates, OpenStates
  <2>3. Accounting'
    BY <2>1, <1>0
    DEF TypeOK, Accounting, Unsent, Settled, Absent, UnresolvedStates, OpenStates
  <2>4. OneInDoubtPerToken'
    BY <2>1, <1>0 DEF TypeOK, OneInDoubtPerToken, UnresolvedStates, OpenStates
  <2>5. Locals'
    BY <2>1, <1>0 DEF TypeOK, Locals, Choosing, Submitting
  <2>6. MemoryIsBacked' /\ PauseIsQuiet' /\ TripIsAudited'
    BY <2>1, <1>0 DEF TypeOK, MemoryIsBacked, Row, PauseIsQuiet, TripIsAudited
  <2> QED BY <2>2, <2>3, <2>4, <2>5, <2>6
<1> QED BY <1>1, <1>2

LEMMA RememberStep == ASSUME IInv, Remember PROVE IInv'
<1> USE DEF IInv, Remember, db, exchange, Done
<1>1. TypeOK' /\ MemoryIsBacked'
  BY DEF TypeOK, Locals, Submitting, MemoryIsBacked, Row
<1>2. Accounting' /\ OneInDoubtPerToken'
  BY DEF Accounting, Unsent, Settled, OneInDoubtPerToken
<1>3. Locals' /\ PauseIsQuiet' /\ TripIsAudited'
  BY DEF Locals, Choosing, Submitting, PauseIsQuiet, TripIsAudited
<1> QED BY <1>1, <1>2, <1>3

LEMMA RecoverStep ==
    ASSUME IInv, NEW w \in Outcomes, Recover(w)
    PROVE  IInv'
<1> USE DEF IInv, Recover, exchange
<1>0. cur \in Intents /\ status[cur] \in UnresolvedStates \cup OpenStates
  BY DEF Locals, Submitting
<1>1. /\ status' \in [Intents -> States \cup {Absent}]
      /\ \A j \in Intents \ {cur} : status'[j] = status[j]
      /\ status'[cur] \in {status[cur], "RECOVERY_REQUIRED"}
      /\ status[cur] \in TerminalStates => status'[cur] = status[cur]
  BY <1>0, WriteFacts, Zenon DEF States, UnresolvedStates
<1>2. /\ status'[cur] \in OpenStates <=> status[cur] \in OpenStates
      /\ status'[cur] \in UnresolvedStates <=> status[cur] \in UnresolvedStates
      /\ status[cur] \in OpenStates => status'[cur] = status[cur]
      /\ status'[cur] \in UnresolvedStates \cup OpenStates
  BY <1>0, <1>1 DEF UnresolvedStates, OpenStates, TerminalStates
<1>3. TypeOK'
  BY <1>1 DEF TypeOK, Done
<1>4. Accounting'
  BY <1>0, <1>1, <1>2
  DEF Accounting, Unsent, Settled, Absent, UnresolvedStates, OpenStates
<1>5. OneInDoubtPerToken'
  BY <1>0, <1>1, <1>2 DEF OneInDoubtPerToken
<1>6. Locals'
  BY <1>0, <1>2 DEF Locals, Choosing, Submitting, Done
<1>7. MemoryIsBacked' /\ PauseIsQuiet' /\ TripIsAudited'
  BY DEF MemoryIsBacked, Row, PauseIsQuiet, TripIsAudited, Done
<1> QED BY <1>3, <1>4, <1>5, <1>6, <1>7

LEMMA TripPauseStep ==
    ASSUME IInv, NEW w \in Outcomes, TripPause(w)
    PROVE  IInv'
<1> USE DEF IInv, TripPause, exchange, Done
<1>0. cur \in Intents
  BY DEF Locals, Submitting
<1>1. TypeOK'
  BY <1>0 DEF TypeOK
<1>2. Accounting' /\ OneInDoubtPerToken' /\ MemoryIsBacked'
  BY DEF Accounting, Unsent, Settled, OneInDoubtPerToken, MemoryIsBacked, Row
<1>3. Locals' /\ PauseIsQuiet'
  BY DEF Locals, Choosing, Submitting, PauseIsQuiet
<1>4. TripIsAudited'
  BY DEF TripIsAudited
<1> QED BY <1>1, <1>2, <1>3, <1>4

(* The operator acts on the pause and its audit only. *)
LEMMA OperatorSteps ==
    ASSUME IInv, Clear \/ \E i \in Intents, v \in BOOLEAN : Resolve(i, v)
    PROVE  IInv'
<1>1. /\ UNCHANGED <<status, tokenOf, booked, exchange, local, memory, unrecorded>>
      /\ pause' = [pause EXCEPT !.on = FALSE]
      /\ \/ event' = event
         \/ \E i \in Intents, v \in BOOLEAN :
              event' = [type |-> "RESOLVE", intent |-> i, verified |-> v]
  BY DEF Clear, Resolve
<1>2. TypeOK'
  <2>1. pause' \in [on : BOOLEAN, intent : Intents \cup {NoIntent}]
    BY <1>1 DEF IInv, TypeOK
  <2>2. event' \in [type : {"NONE", "TRIP", "RESOLVE"},
                    intent : Intents \cup {NoIntent}, verified : BOOLEAN]
    BY <1>1 DEF IInv, TypeOK
  <2> QED BY <1>1, <2>1, <2>2 DEF IInv, TypeOK, exchange, local
<1>3. Accounting' /\ OneInDoubtPerToken' /\ MemoryIsBacked'
  BY <1>1 DEF IInv, exchange, Accounting, Unsent, Settled, OneInDoubtPerToken,
              MemoryIsBacked, Row
<1>4. Locals'
  BY <1>1 DEF IInv, exchange, local, Locals, Choosing, Submitting, Unresolved, Filled, Kind
<1>5. PauseIsQuiet' /\ TripIsAudited'
  BY <1>1 DEF IInv, TypeOK, local, PauseIsQuiet, TripIsAudited
<1> QED BY <1>2, <1>3, <1>4, <1>5 DEF IInv

(* The exchange goes on with an order that is open. *)
LEMMA ExchangeSteps ==
    ASSUME IInv, NEW i \in Intents,
           LateEnd(i) \/ \E q \in 1..Requested : LateFill(i, q)
    PROVE  IInv'
<1>1. /\ UNCHANGED <<db, local, memory, unrecorded>>
      /\ order[i] = "open"
      /\ order' \in [Intents -> {"none", "open", "final"}]
      /\ filled' \in [Intents -> 0..Requested]
      /\ \A j \in Intents \ {i} : order'[j] = order[j] /\ filled'[j] = filled[j]
      /\ order'[i] \in {"open", "final"}
  BY DEF IInv, TypeOK, LateEnd, LateFill
<1>2. TypeOK'
  BY <1>1 DEF IInv, TypeOK, db, local
<1>3. Accounting'
  BY <1>1 DEF IInv, db, Accounting, Unsent, Settled
<1>4. OneInDoubtPerToken' /\ MemoryIsBacked' /\ PauseIsQuiet' /\ TripIsAudited'
  BY <1>1 DEF IInv, db, local, OneInDoubtPerToken, MemoryIsBacked, Row, PauseIsQuiet,
              TripIsAudited
<1>5. Locals'
  <2>1. pc \in {"replied", "confirm"} =>
          Truthful(reply, order'[cur], filled'[cur])
    BY <1>1, TruthIsStable DEF IInv, Locals, Submitting
  <2> QED BY <1>1, <2>1
      DEF IInv, db, local, Locals, Choosing, Submitting, Unresolved, Filled, Kind
<1> QED BY <1>2, <1>3, <1>4, <1>5 DEF IInv

LEMMA StutterStep == ASSUME IInv, UNCHANGED vars PROVE IInv'
BY DEF vars, db, exchange, local, IInv, TypeOK, Accounting, Unsent, Settled, Locals, Choosing,
       Submitting, Unresolved, Filled, Kind, OneInDoubtPerToken, MemoryIsBacked, Row,
       PauseIsQuiet, TripIsAudited

LEMMA NextIInv == IInv /\ [Next]_vars => IInv'
<1> SUFFICES ASSUME IInv, [Next]_vars PROVE IInv'
  OBVIOUS
<1>1. CASE Execute
  BY <1>1, PassiveSteps, CreateIntentStep, MarkSubmittedStep, PostOrderStep,
     CancelIntentStep, ConfirmFillStep, RecoverStep, TripPauseStep, RememberStep
  DEF Execute
<1>2. CASE Environment
  BY <1>2, PassiveSteps, OperatorSteps, ExchangeSteps DEF Environment
<1>3. CASE UNCHANGED vars
  BY <1>3, StutterStep
<1> QED BY <1>1, <1>2, <1>3 DEF Next

(* The inductive invariant holds of every execution. *)
THEOREM Inductive == Spec => []IInv
BY InitIInv, NextIInv, PTL DEF Spec

---------------------------------------------------------------------------
(* Every variable keeps its type. *)
THEOREM TypeCorrect == Spec => []TypeOK
BY Inductive, PTL DEF IInv

(* A dollar the exchange took is booked to the cent, or its intent still   *)
(* blocks its token (classify_fak_fill, confirm_fill_atomic).              *)
THEOREM MoneyAccounted == Spec => []MoneyIsAccounted
<1>1. IInv => MoneyIsAccounted
  <2> SUFFICES ASSUME IInv, NEW i \in Intents,
                      order[i] = "open" \/ filled[i] # booked[i]
               PROVE  status[i] \in UnresolvedStates
    BY DEF MoneyIsAccounted
  <2>1. status[i] \in States \cup {Absent}
    BY DEF IInv, TypeOK
  <2> QED BY <2>1
      DEF IInv, Accounting, Unsent, Settled, States, TerminalStates, OpenStates
<1> QED BY <1>1, Inductive, PTL

(* A position row exists exactly for an intent in an open state, at every  *)
(* step, crash or not (D5; confirm_fill_atomic).                           *)
THEOREM RowsMatchIntents == Spec => []RowIffOpen
<1>1. IInv => RowIffOpen
  <2> SUFFICES ASSUME IInv, NEW i \in Intents PROVE Row(i) <=> status[i] \in OpenStates
    BY DEF RowIffOpen
  <2>1. status[i] \in States \cup {Absent}
    BY DEF IInv, TypeOK
  <2> QED BY <2>1
      DEF IInv, Accounting, Unsent, Row, States, TerminalStates, OpenStates
<1> QED BY <1>1, Inductive, PTL

(* No token has two orders in doubt (has_unresolved_intent, execute()). *)
THEOREM NoSecondSubmit == Spec => []OneInDoubtPerToken
BY Inductive, PTL DEF IInv

(* No order is at the exchange before its intent is durable as sent. *)
THEOREM WriteAheadHolds == Spec => []WriteAhead
<1>1. IInv => WriteAhead
  BY DEF IInv, WriteAhead, Accounting, Unsent
<1> QED BY <1>1, Inductive, PTL

(* open_positions holds no position without a row (main_loop's envelopes). *)
THEOREM NoPhantom == Spec => []MemoryIsBacked
BY Inductive, PTL DEF IInv

(* A pause that is on has its TRIP event (set_emergency_pause).            *)
THEOREM NoSilentTrip == Spec => []TripIsAudited
BY Inductive, PTL DEF IInv

(* The DUPLICATE answer of confirm_fill_atomic() never reaches execute():  *)
(* when it asks for the row, there is none.                                *)
THEOREM NeverDuplicate == Spec => [](pc = "confirm" => ~Row(cur))
<1>1. IInv => (pc = "confirm" => ~Row(cur))
  BY DEF IInv, Locals, Submitting, Accounting, Row, UnresolvedStates
<1> QED BY <1>1, Inductive, PTL

(* No order is posted while the emergency pause is on. *)
THEOREM PauseHolds == Spec => PauseStopsOrders
<1>1. IInv /\ [Next]_vars => [pause.on => PostsNothing]_vars
  <2> SUFFICES ASSUME IInv, Next, pause.on PROVE PostsNothing
    OBVIOUS
  <2>1. pc \in {"idle", "down"}
    BY DEF IInv, PauseIsQuiet
  <2>2. \/ UNCHANGED order
        \/ \E i \in Intents : LateEnd(i)
    BY <2>1
    DEF Next, Execute, Environment, At, db, exchange, local, CheckPause, CheckUnresolved,
        Prevalidate, Decline, CreateIntent, MarkSubmitted, CancelIntent, ConfirmFill, Recover,
        TripPause, PostOrder, KeepUnknown, RefuseFill, AcceptFill, Remember, Crash, Restart,
        Clear, Resolve, LateFill
  <2> QED BY <2>2 DEF PostsNothing, LateEnd, IInv, TypeOK
<1> QED BY <1>1, Inductive, PTL DEF Spec, PauseStopsOrders

(* A terminal intent keeps its status, the ladder of an unacknowledged     *)
(* confirm included (transition()).                                        *)
THEOREM TerminalHolds == Spec => TerminalIsFinal
<1>1. IInv /\ [Next]_vars =>
        [\A i \in Intents : status[i] \in TerminalStates => status'[i] = status[i]]_vars
  <2> SUFFICES ASSUME IInv, Next, NEW i \in Intents, status[i] \in TerminalStates
               PROVE  status'[i] = status[i]
    OBVIOUS
  <2>1. ASSUME NEW w, NEW new, Write(cur, new, w) PROVE status'[i] = status[i]
    BY <2>1 DEF IInv, TypeOK, Write, Transition
  <2>2. ASSUME NEW j \in Intents, NEW w \in Outcomes, CreateIntent(j, w)
        PROVE  status'[i] = status[i]
    BY <2>2 DEF IInv, TypeOK, CreateIntent, Absent, TerminalStates, OpenStates
  <2>3. ASSUME NEW w \in Outcomes, ConfirmFill(w) PROVE status'[i] = status[i]
    <3>1. status[cur] = "SUBMITTED_UNKNOWN"
      BY <2>3 DEF IInv, Locals, ConfirmFill
    <3> QED BY <2>3, <3>1 DEF IInv, TypeOK, ConfirmFill, TerminalStates, OpenStates
  <2> QED BY <2>1, <2>2, <2>3
      DEF Next, Execute, Environment, db, exchange, local, CheckPause, CheckUnresolved,
          Prevalidate, Decline, MarkSubmitted, CancelIntent, Recover, TripPause, PostOrder,
          KeepUnknown, RefuseFill, AcceptFill, Remember, Crash, Restart, Clear, Resolve,
          LateFill, LateEnd
<1> QED BY <1>1, Inductive, PTL DEF Spec, TerminalIsFinal

---------------------------------------------------------------------------
(* The refinement: every step of ClobExecutor is a step of EntryLedger on  *)
(* the mapped state, or leaves that state as it is.                        *)

LEMMA LineValues ==
    /\ LineOf(Absent) = "absent"
    /\ LineOf("INTENT_CREATED") = "reserved"
    /\ LineOf("CANCELLED") = "void"
    /\ \A s \in UnresolvedStates : LineOf(s) = "exposed"
    /\ \A s \in OpenStates : LineOf(s) = "booked"
BY DEF LineOf, Absent, UnresolvedStates, OpenStates

LEMMA LineFacts ==
    ASSUME TypeOK, NEW i \in Intents
    PROVE  /\ line[i] = LineOf(status[i])
           /\ status[i] = Absent => line[i] = "absent"
           /\ status[i] = "INTENT_CREATED" => line[i] = "reserved"
           /\ status[i] \in UnresolvedStates <=> line[i] = "exposed"
           /\ status[i] \in OpenStates => line[i] = "booked"
           /\ status[i] = "CANCELLED" => line[i] = "void"
BY DEF line, LineOf, TypeOK, States, TerminalStates, OpenStates, UnresolvedStates, Absent

(* A step that leaves the ledger's part of the state alone. *)
LEMMA Quiet ==
    ASSUME UNCHANGED <<tokenOf, filled, booked>>,
           \A i \in Intents : LineOf(status'[i]) = LineOf(status[i])
    PROVE  UNCHANGED Ledger!vars
<1>1. line' = line
  BY DEF line
<1> QED BY <1>1 DEF Ledger!vars

(* A step that changes the line of one intent. *)
LEMMA OneLine ==
    ASSUME TypeOK, NEW i \in Intents, NEW s, status' = [status EXCEPT ![i] = s]
    PROVE  line' = [line EXCEPT ![i] = LineOf(s)]
BY DEF line, TypeOK

LEMMA ReserveStep ==
    ASSUME IInv, NEW i \in Intents, NEW w \in Outcomes, CreateIntent(i, w)
    PROVE  [Ledger!Next]_(Ledger!vars)
<1>1. CASE Commits(w)
  <2>1. tok \in Tokens
    BY DEF IInv, Locals, Choosing, CreateIntent
  <2>2. line' = [line EXCEPT ![i] = "reserved"]
    <3>1. TypeOK /\ status' = [status EXCEPT ![i] = "INTENT_CREATED"]
      BY <1>1 DEF IInv, CreateIntent
    <3>2. line' = [line EXCEPT ![i] = LineOf("INTENT_CREATED")]
      BY <3>1, OneLine
    <3> QED BY <3>2, LineValues
  <2>3. Ledger!Reserve(i, tok)
    BY <1>1, <2>2, LineFacts DEF Ledger!Reserve, CreateIntent, exchange, IInv
  <2> QED BY <2>1, <2>3 DEF Ledger!Next
<1>2. CASE ~Commits(w)
  BY <1>2, Quiet DEF CreateIntent, exchange
<1> QED BY <1>1, <1>2

LEMMA ExposeStep ==
    ASSUME IInv, NEW w \in Outcomes, MarkSubmitted(w)
    PROVE  [Ledger!Next]_(Ledger!vars)
<1>0. cur \in Intents /\ status[cur] = "INTENT_CREATED" /\ tokenOf[cur] = tok
      /\ ~Unresolved(tok)
  BY DEF IInv, Locals, Submitting, MarkSubmitted
<1>1. CASE Commits(w)
  <2>1. status' = [status EXCEPT ![cur] = "SUBMITTED_UNKNOWN"]
    BY <1>0, <1>1 DEF MarkSubmitted, Write, Transition, TerminalStates, OpenStates
  <2>2. line' = [line EXCEPT ![cur] = "exposed"]
    <3>1. line' = [line EXCEPT ![cur] = LineOf("SUBMITTED_UNKNOWN")]
      BY <1>0, <2>1, OneLine DEF IInv
    <3> QED BY <3>1, LineValues DEF UnresolvedStates
  <2>3. \A j \in Intents \ {cur} : tokenOf[j] = tokenOf[cur] => line[j] # "exposed"
    BY <1>0, LineFacts DEF Unresolved, IInv
  <2>4. Ledger!Expose(cur)
    BY <1>0, <2>2, <2>3, LineFacts DEF Ledger!Expose, MarkSubmitted, exchange, IInv
  <2> QED BY <1>0, <2>4 DEF Ledger!Next
<1>2. CASE ~Commits(w)
  BY <1>2, Quiet DEF MarkSubmitted, Write, exchange
<1> QED BY <1>1, <1>2

LEMMA FillSteps ==
    ASSUME IInv,
           \/ \E r \in Replies, o \in {"none", "open", "final"}, q \in 0..Requested :
                PostOrder(r, o, q)
           \/ \E i \in Intents, q \in 1..Requested : LateFill(i, q)
    PROVE  [Ledger!Next]_(Ledger!vars)
<1>1. PICK i \in Intents, q \in 0..Requested :
        /\ filled' = [filled EXCEPT ![i] = q] /\ q >= filled[i]
        /\ status[i] \in UnresolvedStates
        /\ UNCHANGED db
  <2>1. CASE \E r \in Replies, o \in {"none", "open", "final"}, q \in 0..Requested :
               PostOrder(r, o, q)
    <3>1. cur \in Intents /\ status[cur] = "SUBMITTED_UNKNOWN" /\ filled[cur] = 0
      BY <2>1 DEF IInv, Locals, Submitting, Accounting, PostOrder, At
    <3>2. PICK r \in Replies, o \in {"none", "open", "final"}, q \in 0..Requested :
            PostOrder(r, o, q)
      BY <2>1
    <3>3. /\ filled' = [filled EXCEPT ![cur] = q] /\ q >= filled[cur]
          /\ status[cur] \in UnresolvedStates
          /\ UNCHANGED db
      BY <3>1, <3>2, ExecutorAssumption DEF PostOrder, UnresolvedStates
    <3> QED BY <3>1, <3>3
  <2>2. CASE \E i \in Intents, q \in 1..Requested : LateFill(i, q)
    <3>1. PICK i \in Intents, q \in 1..Requested : LateFill(i, q)
      BY <2>2
    <3>2. status[i] \in UnresolvedStates
      BY <3>1 DEF LateFill, IInv, TypeOK, Accounting, Unsent, Settled, States,
                  TerminalStates, OpenStates
    <3>3. q >= filled[i]
      BY <3>1 DEF LateFill, IInv, TypeOK
    <3>4. filled' = [filled EXCEPT ![i] = q] /\ UNCHANGED db /\ q \in 0..Requested
      BY <3>1, ExecutorAssumption DEF LateFill
    <3> QED BY <3>2, <3>3, <3>4
  <2> QED BY <2>1, <2>2
<1>2. line' = line
  BY <1>1 DEF line, db
<1>3. CASE q = filled[i]
  BY <1>1, <1>2, <1>3 DEF Ledger!vars, db, IInv, TypeOK
<1>4. CASE q > filled[i]
  <2>1. Ledger!Fill(i, q)
    BY <1>1, <1>2, <1>4, LineFacts DEF Ledger!Fill, db, IInv
  <2>2. q \in 1..Requested
    BY <1>4, ExecutorAssumption DEF IInv, TypeOK
  <2> QED BY <2>1, <2>2 DEF Ledger!Next
<1>5. filled[i] \in Int /\ q \in Int
  BY ExecutorAssumption DEF IInv, TypeOK
<1> QED BY <1>1, <1>3, <1>4, <1>5

LEMMA BookStep ==
    ASSUME IInv, NEW w \in Outcomes, ConfirmFill(w)
    PROVE  [Ledger!Next]_(Ledger!vars)
<1>0. /\ cur \in Intents /\ status[cur] = "SUBMITTED_UNKNOWN" /\ ~Row(cur)
      /\ FillState \in OpenStates /\ reply.making \in 1..Requested
      /\ filled[cur] = reply.making
  <2>1. /\ cur \in Intents /\ status[cur] = "SUBMITTED_UNKNOWN" /\ reply \in Replies
        /\ Filled /\ Truthful(reply, order[cur], filled[cur])
    BY DEF IInv, Locals, Submitting, ConfirmFill
  <2>2. filled[cur] = reply.making
    BY <2>1, FilledIsCosted DEF Truthful
  <2> QED BY <2>1, <2>2, FilledIsCosted DEF IInv, Accounting, Row, UnresolvedStates
<1>1. CASE Commits(w)
  <2>1. line' = [line EXCEPT ![cur] = "booked"]
    <3>1. status' = [status EXCEPT ![cur] = FillState]
      BY <1>0, <1>1 DEF ConfirmFill
    <3>2. LineOf(FillState) = "booked"
      BY <1>0 DEF LineOf, OpenStates, UnresolvedStates, Absent
    <3> QED BY <1>0, <3>1, <3>2, OneLine DEF IInv
  <2>2. Ledger!Book(cur)
    BY <1>0, <1>1, <2>1, LineFacts, ExecutorAssumption
    DEF Ledger!Book, ConfirmFill, exchange, IInv, UnresolvedStates
  <2> QED BY <1>0, <2>2 DEF Ledger!Next
<1>2. CASE ~Commits(w)
  BY <1>0, <1>2, Quiet DEF ConfirmFill, exchange
<1> QED BY <1>1, <1>2

LEMMA VoidStep ==
    ASSUME IInv, NEW w \in Outcomes, CancelIntent(w)
    PROVE  [Ledger!Next]_(Ledger!vars)
<1>0. cur \in Intents /\ status[cur] = "SUBMITTED_UNKNOWN" /\ filled[cur] = 0
  BY VoidIsProved DEF IInv, Locals, Submitting, CancelIntent
<1>1. CASE Commits(w)
  <2>1. status' = [status EXCEPT ![cur] = "CANCELLED"]
    BY <1>0, <1>1 DEF CancelIntent, Write, Transition, TerminalStates, OpenStates
  <2>2. line' = [line EXCEPT ![cur] = "void"]
    <3>1. line' = [line EXCEPT ![cur] = LineOf("CANCELLED")]
      BY <1>0, <2>1, OneLine DEF IInv
    <3> QED BY <3>1, LineValues
  <2>3. Ledger!Void(cur)
    BY <1>0, <2>2, LineFacts DEF Ledger!Void, CancelIntent, exchange, IInv, UnresolvedStates
  <2> QED BY <1>0, <2>3 DEF Ledger!Next
<1>2. CASE ~Commits(w)
  BY <1>2, Quiet DEF CancelIntent, Write, exchange
<1> QED BY <1>1, <1>2

LEMMA LadderStep ==
    ASSUME IInv, NEW w \in Outcomes, Recover(w)
    PROVE  [Ledger!Next]_(Ledger!vars)
<1>0. cur \in Intents /\ status[cur] \in UnresolvedStates \cup OpenStates
  BY DEF IInv, Locals, Submitting, Recover
<1>1. /\ \A j \in Intents \ {cur} : status'[j] = status[j]
      /\ status'[cur] \in {status[cur], "RECOVERY_REQUIRED"}
      /\ status[cur] \in TerminalStates => status'[cur] = status[cur]
  BY <1>0, WriteFacts, Zenon DEF IInv, Recover, States, UnresolvedStates
<1>2. LineOf(status'[cur]) = LineOf(status[cur])
  BY <1>0, <1>1 DEF LineOf, UnresolvedStates, OpenStates, TerminalStates, Absent
<1> QED BY <1>1, <1>2, Quiet DEF Recover, exchange

LEMMA OtherSteps ==
    ASSUME UNCHANGED <<status, tokenOf, booked, filled>>
    PROVE  UNCHANGED Ledger!vars
BY Quiet

(* The entry path implements the ledger, for every instance. *)
THEOREM Refinement == Spec => ImplementsLedger
<1>1. Init => Ledger!Init
  BY LineValues DEF Init, Ledger!Init, line
<1>2. IInv /\ [Next]_vars => [Ledger!Next]_(Ledger!vars)
  <2> SUFFICES ASSUME IInv, [Next]_vars PROVE [Ledger!Next]_(Ledger!vars)
    OBVIOUS
  <2>1. CASE UNCHANGED <<status, tokenOf, booked, filled>>
    BY <2>1, OtherSteps
  <2>2. CASE UNCHANGED vars
    BY <2>2, OtherSteps DEF vars, db, exchange
  <2>3. CASE Next /\ ~UNCHANGED <<status, tokenOf, booked, filled>>
    <3>1. \/ \E i \in Intents, w \in Outcomes : CreateIntent(i, w)
          \/ \E w \in Outcomes : MarkSubmitted(w) \/ CancelIntent(w) \/ ConfirmFill(w)
                                  \/ Recover(w)
          \/ \E r \in Replies, o \in {"none", "open", "final"}, q \in 0..Requested :
               PostOrder(r, o, q)
          \/ \E i \in Intents, q \in 1..Requested : LateFill(i, q)
      BY <2>3
      DEF Next, Execute, Environment, db, exchange, CheckPause, CheckUnresolved,
          Prevalidate, Decline, TripPause, KeepUnknown, RefuseFill, AcceptFill, Remember,
          Crash, Restart, Clear, Resolve, LateEnd
    <3> QED BY <3>1, ReserveStep, ExposeStep, FillSteps, BookStep, VoidStep, LadderStep
  <2> QED BY <2>1, <2>2, <2>3
<1> QED BY <1>1, <1>2, Inductive, PTL DEF Spec, ImplementsLedger, Ledger!Spec
===========================================================================
