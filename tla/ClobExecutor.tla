---------------------------- MODULE ClobExecutor ----------------------------
(***************************************************************************)
(* The live entry path: execution/clob_executor.py execute(), the tables   *)
(* order_intents, positions, execution_state and execution_state_events    *)
(* it writes through order_intent.py and emergency_pause.py, the list      *)
(* open_positions that main_loop.py keeps, and the exchange.               *)
(*                                                                         *)
(* execute() runs to its end before main_loop calls it again, so one       *)
(* program counter `pc` is enough; between two of its steps the exchange   *)
(* may fill, the operator may act on the pause, and the process may die.   *)
(* A call to SQLite has one of three outcomes: it commits and returns, it  *)
(* raises before the commit, or it raises after it (the close of the       *)
(* connection fails, COMMIT reports an error for a durable transaction).   *)
(***************************************************************************)
EXTENDS OrderIntent

CONSTANTS Intents,     \* the uuids create_intent() may draw
          Tokens,      \* the outcome tokens execute() may be asked to buy
          NoIntent, NoToken,
          Requested    \* risk_result["position_usd"], in units of USD

ASSUME ExecutorAssumption == /\ NoIntent \notin Intents
                             /\ NoToken \notin Tokens
                             /\ Requested \in Nat \ {0}

VARIABLES
    status,      \* order_intents.status, "ABSENT" for no row
    tokenOf,     \* order_intents.market_token_id
    booked,      \* positions.position_usd of the row of an intent, 0 for no row
    pause,       \* execution_state: emergency_paused and order_intent_id
    event,       \* the latest row of execution_state_events
    order,       \* the order at the exchange: none, open or final
    filled,      \* dollars of it the exchange has filled
    pc, cur, tok, reply,   \* execute(): where it is, and its locals
    memory,      \* main_loop's open_positions
    unrecorded   \* history: intents whose recovery ladder wrote nothing

db       == <<status, tokenOf, booked, pause, event>>
exchange == <<order, filled>>
local    == <<pc, cur, tok, reply>>
vars     == <<db, exchange, local, memory, unrecorded>>

Outcomes  == {"ok", "failed", "unacknowledged"}
Commits(w) == w # "failed"
Returns(w) == w = "ok"

Amounts  == Missing..Requested
(* What post_order() came back with: a response, the exception "no orders  *)
(* found to match", or anything that proves nothing (another exception, a  *)
(* falsy response).  takingAmount (shares) matters only by being positive. *)
Responses == [kind : {"response"}, taking : {Unparsable, 0, 1},
              making : Amounts \cup {Unparsable},
              status : {"resting", "matched"}, orderId : BOOLEAN]
NoReply == [kind |-> "none", taking |-> 0, making |-> Missing,
            status |-> "matched", orderId |-> FALSE]
NoMatch == [NoReply EXCEPT !.kind = "no_match"]
NoProof == [NoReply EXCEPT !.kind = "no_proof"]
Replies == Responses \cup {NoMatch, NoProof}

(* What may be true at the exchange (order o, filled q) when post_order()  *)
(* returns r.  A matched FAK is dead once it is reported; an order id with *)
(* no amounts says nothing; and a lost reply may hide anything, even an    *)
(* order that never arrived.                                               *)
Truthful(r, o, q) ==
    /\ o = "none" => q = 0
    /\ CASE r.kind = "no_match" -> o = "final" /\ q = 0
         [] r.kind = "no_proof" -> TRUE
         [] r.kind = "response" ->
              /\ o # "none"
              /\ Costed(r)   => o = "final" /\ q = r.making
              /\ Costless(r) => o = "final" /\ q > 0
              /\ NoShares(r) /\ ~r.orderId => o = "final" /\ q = 0

TypeOK ==
    /\ status  \in [Intents -> States \cup {Absent}]
    /\ tokenOf \in [Intents -> Tokens \cup {NoToken}]
    /\ booked  \in [Intents -> 0..Requested]
    /\ pause   \in [on : BOOLEAN, intent : Intents \cup {NoIntent}]
    /\ event   \in [type : {"NONE", "TRIP", "RESOLVE"},
                    intent : Intents \cup {NoIntent}, verified : BOOLEAN]
    /\ order   \in [Intents -> {"none", "open", "final"}]
    /\ filled  \in [Intents -> 0..Requested]
    /\ pc \in {"down", "idle", "gate", "cleared", "priced", "created",
               "submitted", "replied", "confirm", "recover", "trip", "opened"}
    /\ cur \in Intents \cup {NoIntent}
    /\ tok \in Tokens \cup {NoToken}
    /\ reply \in Replies \cup {NoReply}
    /\ memory \subseteq Intents
    /\ unrecorded \subseteq Intents

Init ==
    /\ status  = [i \in Intents |-> Absent]
    /\ tokenOf = [i \in Intents |-> NoToken]
    /\ booked  = [i \in Intents |-> 0]
    /\ pause   = [on |-> FALSE, intent |-> NoIntent]
    /\ event   = [type |-> "NONE", intent |-> NoIntent, verified |-> FALSE]
    /\ order   = [i \in Intents |-> "none"]
    /\ filled  = [i \in Intents |-> 0]
    /\ pc = "idle" /\ cur = NoIntent /\ tok = NoToken /\ reply = NoReply
    /\ memory = {} /\ unrecorded = {}

(* execute() returns to main_loop. *)
Done == pc' = "idle" /\ cur' = NoIntent /\ tok' = NoToken /\ reply' = NoReply
At(p, q) == pc = p /\ pc' = q

Unresolved(t) == \E i \in Intents : tokenOf[i] = t /\ status[i] \in UnresolvedStates
Row(i) == booked[i] > 0

---------------------------------------------------------------------------
(* execute(), from its entry to the network.                               *)

\* Mutant: the kill switch is not consulted.
CheckPauseUnread(t) == /\ At("idle", "gate")
                       /\ tok' = t
                       /\ UNCHANGED <<db, exchange, cur, reply, memory, unrecorded>>

(* is_emergency_paused() answers "not paused".  When it cannot read the    *)
(* table it answers "paused", and execute() returns at once: a stutter.    *)
CheckPause(t) == /\ At("idle", "gate")
                 /\ ~pause.on
                 /\ tok' = t
                 /\ UNCHANGED <<db, exchange, cur, reply, memory, unrecorded>>

\* Mutant: only SUBMITTED_UNKNOWN blocks a new order for the token.
CheckSubmittedOnly ==
    /\ At("gate", "cleared")
    /\ \A i \in Intents : tokenOf[i] = tok => status[i] # "SUBMITTED_UNKNOWN"
    /\ UNCHANGED <<db, exchange, cur, tok, reply, memory, unrecorded>>

(* has_unresolved_intent() answers no. *)
CheckUnresolved == /\ At("gate", "cleared")
                   /\ ~Unresolved(tok)
                   /\ UNCHANGED <<db, exchange, cur, tok, reply, memory, unrecorded>>

(* The minimum of one dollar, the quote and the tick-safe limit price. *)
Prevalidate == /\ At("cleared", "priced")
               /\ UNCHANGED <<db, exchange, cur, tok, reply, memory, unrecorded>>

(* The early returns before the intent exists: no token id, an unresolved  *)
(* intent or a check that raised, a size below $1, a rejected limit price. *)
Decline == /\ pc \in {"gate", "cleared"}
           /\ Done
           /\ UNCHANGED <<db, exchange, memory, unrecorded>>

CreateIntent(i, w) ==
    /\ pc = "priced"
    /\ status[i] = Absent
    /\ status'  = IF Commits(w) THEN [status EXCEPT ![i] = "INTENT_CREATED"] ELSE status
    /\ tokenOf' = IF Commits(w) THEN [tokenOf EXCEPT ![i] = tok] ELSE tokenOf
    /\ \/ Returns(w) /\ pc' = "created" /\ cur' = i /\ UNCHANGED <<tok, reply>>
       \/ ~Returns(w) /\ Done
    /\ UNCHANGED <<booked, pause, event, exchange, memory, unrecorded>>

(* order_intent.transition(): the guarded write of a new status. *)
Write(i, new, w) ==
    status' = IF Commits(w) THEN [status EXCEPT ![i] = Transition(@, new)] ELSE status

\* Mutant: a failed transition to SUBMITTED_UNKNOWN no longer aborts.
MarkWithoutAbort(w) ==
    /\ At("created", "submitted")
    /\ Write(cur, "SUBMITTED_UNKNOWN", w)
    /\ UNCHANGED <<tokenOf, booked, pause, event, exchange, cur, tok, reply,
                   memory, unrecorded>>

MarkSubmitted(w) ==
    /\ pc = "created"
    /\ Write(cur, "SUBMITTED_UNKNOWN", w)
    /\ \/ Returns(w) /\ pc' = "submitted" /\ UNCHANGED <<cur, tok, reply>>
       \/ ~Returns(w) /\ Done
    /\ UNCHANGED <<tokenOf, booked, pause, event, exchange, memory, unrecorded>>

---------------------------------------------------------------------------
(* The network call and what execute() makes of its result.                *)

PostOrder(r, o, q) ==
    /\ At("submitted", "replied")
    /\ Truthful(r, o, q)
    /\ order'  = [order EXCEPT ![cur] = o]
    /\ filled' = [filled EXCEPT ![cur] = q]
    /\ reply'  = r
    /\ UNCHANGED <<db, cur, tok, memory, unrecorded>>

Kind == IF reply.kind = "response" THEN ClassifyFakFill(reply, Requested) ELSE reply.kind
Filled == Kind \in {"OPEN_FILLED", "OPEN_PARTIAL"}
FillState == IF Kind = "OPEN_FILLED" THEN "FILLED" ELSE "PARTIAL_FILLED"

(* Nothing is proved about the order: the intent stays SUBMITTED_UNKNOWN.  *)
(* An unparsable amount leaves classify_fak_fill() as an exception, which  *)
(* execute() does not catch; main_loop's handler goes on with the loop.    *)
KeepUnknown == /\ pc = "replied"
               /\ Kind \in {"no_proof", "BLOCK_UNKNOWN", "RAISES"}
               /\ Done
               /\ UNCHANGED <<db, exchange, memory, unrecorded>>

(* The exchange proved there is no fill.  A transition that raises is      *)
(* logged and forgotten: the intent stays SUBMITTED_UNKNOWN.               *)
CancelIntent(w) == /\ pc = "replied"
                   /\ Kind \in {"no_match", "TERMINAL_ZERO"}
                   /\ Write(cur, "CANCELLED", w)
                   /\ Done
                   /\ UNCHANGED <<tokenOf, booked, pause, event, exchange,
                                  memory, unrecorded>>

(* A fill that cannot be booked: no cost, a resting order, or a row whose  *)
(* telemetry or fields are missing.                                        *)
RefuseFill == /\ At("replied", "recover")
              /\ Kind = "RECOVERY" \/ Filled
              /\ UNCHANGED <<db, exchange, cur, tok, reply, memory, unrecorded>>

AcceptFill == /\ At("replied", "confirm")
              /\ Filled
              /\ UNCHANGED <<db, exchange, cur, tok, reply, memory, unrecorded>>

\* Mutant: two connections; the row is committed, the intent's update is lost.
ConfirmRowOnly(w) ==
    /\ pc = "confirm"
    /\ booked' = IF ~Row(cur) /\ Commits(w) THEN [booked EXCEPT ![cur] = reply.making]
                 ELSE booked
    /\ pc' = IF Returns(w) THEN "opened" ELSE "recover"
    /\ UNCHANGED <<status, tokenOf, pause, event, exchange, cur, tok, reply,
                   memory, unrecorded>>

\* Mutant: a failed transaction is answered like a committed one.
ConfirmSwallowed(w) ==
    /\ pc = "confirm"
    /\ LET fresh == ~Row(cur) /\ Commits(w) IN
         /\ booked' = IF fresh THEN [booked EXCEPT ![cur] = reply.making] ELSE booked
         /\ status' = IF fresh THEN [status EXCEPT ![cur] = FillState] ELSE status
    /\ pc' = "opened"
    /\ UNCHANGED <<tokenOf, pause, event, exchange, cur, tok, reply,
                   memory, unrecorded>>

(* confirm_fill_atomic(): the row and the terminal status in one           *)
(* transaction, after the precheck that answers DUPLICATE.                 *)
ConfirmFill(w) ==
    /\ pc = "confirm"
    /\ LET fresh == ~Row(cur) /\ Commits(w) IN
         /\ booked' = IF fresh THEN [booked EXCEPT ![cur] = reply.making] ELSE booked
         /\ status' = IF fresh THEN [status EXCEPT ![cur] = FillState] ELSE status
    /\ IF Returns(w) /\ Row(cur)
       THEN Done
       ELSE /\ pc' = IF Returns(w) THEN "opened" ELSE "recover"
            /\ UNCHANGED <<cur, tok, reply>>
    /\ UNCHANGED <<tokenOf, pause, event, exchange, memory, unrecorded>>

(* main_loop appends the position of an OPENED envelope; the await chain   *)
(* from the commit to here has no other writer of open_positions.          *)
Remember == /\ pc = "opened"
            /\ memory' = memory \cup {cur}
            /\ Done
            /\ UNCHANGED <<db, exchange, unrecorded>>

---------------------------------------------------------------------------
(* _recovery_ladder(): mark the intent, else trip the kill switch, else    *)
(* log.  The envelope it returns makes main_loop count a no-fill.          *)

Recover(w) == /\ pc = "recover"
              /\ Write(cur, "RECOVERY_REQUIRED", w)
              /\ \/ Returns(w) /\ Done
                 \/ ~Returns(w) /\ pc' = "trip" /\ UNCHANGED <<cur, tok, reply>>
              /\ UNCHANGED <<tokenOf, booked, pause, event, exchange,
                             memory, unrecorded>>

\* Mutant: the trip is committed without its audit row.
TripUnaudited(w) ==
    /\ pc = "trip"
    /\ pause' = IF Commits(w) THEN [on |-> TRUE, intent |-> cur] ELSE pause
    /\ UNCHANGED unrecorded
    /\ Done
    /\ UNCHANGED <<status, tokenOf, booked, event, exchange, memory>>

(* set_emergency_pause(): idempotent, so the first trip's record survives; *)
(* the flag and the TRIP event are committed together.                     *)
TripPause(w) ==
    /\ pc = "trip"
    /\ LET trips == Commits(w) /\ ~pause.on IN
         /\ pause' = IF trips THEN [on |-> TRUE, intent |-> cur] ELSE pause
         /\ event' = IF trips THEN [type |-> "TRIP", intent |-> cur, verified |-> FALSE]
                     ELSE event
    /\ unrecorded' = IF ~Commits(w) /\ status[cur] = "SUBMITTED_UNKNOWN"
                     THEN unrecorded \cup {cur} ELSE unrecorded
    /\ Done
    /\ UNCHANGED <<status, tokenOf, booked, exchange, memory>>

---------------------------------------------------------------------------
(* The process dies and is started again; main() reloads open_positions    *)
(* from the rows of positions.                                             *)

Crash == /\ pc # "down" /\ pc' = "down"
         /\ cur' = NoIntent /\ tok' = NoToken /\ reply' = NoReply /\ memory' = {}
         /\ UNCHANGED <<db, exchange, unrecorded>>

Restart == /\ At("down", "idle")
           /\ memory' = {i \in Intents : Row(i)}
           /\ UNCHANGED <<db, exchange, cur, tok, reply, unrecorded>>

(* The operator, by hand.  resolve_emergency_pause() looks at the intent   *)
(* it is given, which need not be the one of the pause.                    *)
Resolve(i, verified) ==
    /\ pause.on
    /\ status[i] # Absent
    /\ verified => status[i] \in TerminalStates
    /\ pause' = [pause EXCEPT !.on = FALSE]
    /\ event' = [type |-> "RESOLVE", intent |-> i, verified |-> verified]
    /\ UNCHANGED <<status, tokenOf, booked, exchange, local, memory, unrecorded>>

(* clear_emergency_pause(): no precondition and no event. *)
Clear == /\ pause.on
         /\ pause' = [pause EXCEPT !.on = FALSE]
         /\ UNCHANGED <<status, tokenOf, booked, event, exchange, local,
                        memory, unrecorded>>

(* An order that is still open at the exchange fills further, or dies. *)
LateFill(i, q) == /\ order[i] = "open"
                  /\ q > filled[i]
                  /\ filled' = [filled EXCEPT ![i] = q]
                  /\ UNCHANGED <<db, order, local, memory, unrecorded>>

LateEnd(i) == /\ order[i] = "open"
              /\ order' = [order EXCEPT ![i] = "final"]
              /\ UNCHANGED <<db, filled, local, memory, unrecorded>>

---------------------------------------------------------------------------
Execute ==
    \/ \E t \in Tokens : CheckPause(t)
    \/ CheckUnresolved \/ Prevalidate \/ Decline
    \/ \E i \in Intents, w \in Outcomes : CreateIntent(i, w)
    \/ \E w \in Outcomes : \/ MarkSubmitted(w) \/ CancelIntent(w) \/ ConfirmFill(w)
                           \/ Recover(w) \/ TripPause(w)
    \/ \E r \in Replies, o \in {"none", "open", "final"}, q \in 0..Requested :
         PostOrder(r, o, q)
    \/ KeepUnknown \/ RefuseFill \/ AcceptFill \/ Remember

Environment ==
    \/ Crash \/ Restart \/ Clear
    \/ \E i \in Intents, verified \in BOOLEAN : Resolve(i, verified)
    \/ \E i \in Intents, q \in 1..Requested : LateFill(i, q)
    \/ \E i \in Intents : LateEnd(i)

Next == Execute \/ Environment

Spec == Init /\ [][Next]_vars

---------------------------------------------------------------------------
(* Properties.                                                             *)

(* Every dollar the exchange took is in the books, to the cent, or the     *)
(* intent still blocks its token: an order that may fill further, or whose *)
(* fill differs from its row, is never forgotten (goal line of the Task H  *)
(* plan; classify_fak_fill, confirm_fill_atomic).                          *)
MoneyIsAccounted ==
    \A i \in Intents :
        order[i] = "open" \/ filled[i] # booked[i] => status[i] \in UnresolvedStates

(* Decision D5: no position without a terminal intent and no FILLED or     *)
(* PARTIAL_FILLED intent without its position, whatever fails or dies      *)
(* between the steps of execute() (confirm_fill_atomic).                   *)
RowIffOpen == \A i \in Intents : Row(i) <=> status[i] \in OpenStates

(* A token never has two orders whose fate is unknown: after a timeout the *)
(* second submit is forbidden (has_unresolved_intent, execute()).          *)
OneInDoubtPerToken ==
    \A i, j \in Intents :
        /\ i # j /\ tokenOf[i] = tokenOf[j]
        /\ status[i] \in UnresolvedStates
        => status[j] \notin UnresolvedStates

(* Nothing reaches the exchange before SUBMITTED_UNKNOWN is durable, so a  *)
(* crash cannot leave an order that the tables call unsent (execute(),     *)
(* Tasks B, C and D).                                                      *)
WriteAhead == \A i \in Intents :
                order[i] # "none" => status[i] \notin {Absent, "INTENT_CREATED"}

(* open_positions holds no phantom: main_loop never manages a position     *)
(* that the tables do not have (main_loop, accounting envelopes).          *)
MemoryIsBacked == \A i \in memory : Row(i)

(* A pause that is on was audited: the latest event is the TRIP for the    *)
(* intent the pause names, also after clears and resolves by hand.         *)
TripIsAudited ==
    pause.on => event = [type |-> "TRIP", intent |-> pause.intent, verified |-> FALSE]

(* A terminal intent is never pulled back, in particular not by the        *)
(* recovery ladder after a confirm whose COMMIT went through unacknowledged*)
(* (transition(), monotonic guard).                                        *)
TerminalIsFinal ==
    [][\A i \in Intents : status[i] \in TerminalStates => status'[i] = status[i]]_vars

PostsNothing == \A i \in Intents : order[i] = "none" => order'[i] = "none"

(* The kill switch stops orders at once: none is posted while the pause is *)
(* on, although execute() reads it only at its entry.                      *)
PauseStopsOrders == [][pause.on => PostsNothing]_vars

(* What _recovery_ladder's docstring promises of its last resort: once it  *)
(* could write neither the state nor the pause, no further order is sent.  *)
LastLock == [][unrecorded # {} => PostsNothing]_vars

(* What resolve_emergency_pause's docstring promises: a verified resolve   *)
(* ends the pause only when the offending intent is terminal.              *)
VerifiedMeansTerminal ==
    [][(pause.on /\ ~pause'.on /\ event' # event /\ event'.verified)
         => status[pause.intent] \in TerminalStates]_vars

(* The entry path keeps the promises of EntryLedger.                       *)
LineOf(s) == CASE s = Absent              -> "absent"
               [] s = "INTENT_CREATED"    -> "reserved"
               [] s \in UnresolvedStates  -> "exposed"
               [] s \in OpenStates        -> "booked"
               [] OTHER                   -> "void"
line == [i \in Intents |-> LineOf(status[i])]

Ledger == INSTANCE EntryLedger WITH Lines <- Intents, token <- tokenOf
ImplementsLedger == Ledger!Spec
===========================================================================
