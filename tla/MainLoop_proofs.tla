-------------------------- MODULE MainLoop_proofs --------------------------
(***************************************************************************)
(* Proofs about what main() runs on: the gates of the entry path           *)
(* (EntryGates), for every cap, limit, set of equities and of results, any *)
(* number of days and of hidden rows; and the subscriptions of the price   *)
(* feed (WsPrices, names with WS), for every set of tokens and any number  *)
(* of broken connections.                                                  *)
(***************************************************************************)
EXTENDS EntryGates, WsPrices, TLAPS

(* Positions: memory never passes the cap but for rows that a recovery hid *)
(* and a restart brought back; an order is considered below the cap only.  *)
CapInv ==
    /\ open \in Nat /\ hidden \in Nat /\ recovered \in Nat
    /\ CapHolds
    /\ pc = "down" => open = 0
    /\ pc \in {"council", "execute"} => open < MaxOpen
    /\ pc # "down" => hidden <= recovered

(* The row while a scan goes on: it is the one of the scan's sync. *)
RowInv ==
    pc \in {"scan", "council", "execute"} =>
        /\ row # NoRow
        /\ row.blockers \subseteq Blocker
        /\ row.mode = reduce_risk_mode(row.blockers)
        /\ daily_loss_halt(row.equity, today) => "daily_loss" \in row.blockers
        /\ underPause => "cooldown" \in row.blockers

IInv == CapInv /\ RowInv

---------------------------------------------------------------------------
(* What the mode says about the blockers (risk_state.py). *)

LEMMA ModePriorities ==
    /\ ModePriority("Operational") = 0 /\ ModePriority("Cooldown") = 1
    /\ ModePriority("Exit-Only") = 2 /\ ModePriority("Halted") = 3
    /\ ModePriority("Kill-Switch") = 4
BY DEF ModePriority

LEMMA BlockerModes ==
    /\ BlockerMode("kill_switch") = "Kill-Switch"
    /\ BlockerMode("manual_review") = "Halted" /\ BlockerMode("halted") = "Halted"
    /\ BlockerMode("daily_loss") = "Exit-Only" /\ BlockerMode("cooldown") = "Cooldown"
BY DEF BlockerMode

Reduced(bs, m) ==
    /\ m \in {BlockerMode(b) : b \in bs} \cup {"Operational"}
    /\ \A b \in bs : ModePriority(BlockerMode(b)) <= ModePriority(m)

(* The mode of a set of blockers is that of one of them or Operational, and *)
(* none of them has one of a higher priority.                              *)
LEMMA ModeOfBlockers ==
    ASSUME NEW bs, bs \subseteq Blocker
    PROVE  Reduced(bs, reduce_risk_mode(bs))
<1>1. \E m \in Modes : Reduced(bs, m)
  <2>1. CASE "kill_switch" \in bs
    <3>1. Reduced(bs, "Kill-Switch")
      BY <2>1, ModePriorities, BlockerModes DEF Reduced, Blocker
    <3> QED BY <3>1 DEF Modes
  <2>2. CASE "kill_switch" \notin bs /\ ("halted" \in bs \/ "manual_review" \in bs)
    <3>1. Reduced(bs, "Halted")
      BY <2>2, ModePriorities, BlockerModes DEF Reduced, Blocker
    <3> QED BY <3>1 DEF Modes
  <2>3. CASE /\ "kill_switch" \notin bs /\ "halted" \notin bs /\ "manual_review" \notin bs
             /\ "daily_loss" \in bs
    <3>1. Reduced(bs, "Exit-Only")
      BY <2>3, ModePriorities, BlockerModes DEF Reduced, Blocker
    <3> QED BY <3>1 DEF Modes
  <2>4. CASE bs = {"cooldown"}
    <3>1. Reduced(bs, "Cooldown")
      BY <2>4, ModePriorities, BlockerModes DEF Reduced
    <3> QED BY <3>1 DEF Modes
  <2>5. CASE bs = {}
    <3>1. Reduced(bs, "Operational")
      BY <2>5 DEF Reduced
    <3> QED BY <3>1 DEF Modes
  <2> QED BY <2>1, <2>2, <2>3, <2>4, <2>5 DEF Blocker
<1> QED BY <1>1 DEF Reduced, reduce_risk_mode

(* The mode is Operational only without a blocker (_effective_risk_mode). *)
LEMMA OperationalIsFree ==
    ASSUME NEW bs, bs \subseteq Blocker
    PROVE  reduce_risk_mode(bs) = "Operational" <=> bs = {}
<1>1. Reduced(bs, reduce_risk_mode(bs))
  BY ModeOfBlockers
<1>2. ASSUME NEW b \in bs PROVE ModePriority(BlockerMode(b)) \in 1..4
  BY ModePriorities, BlockerModes DEF Blocker
<1> QED BY <1>1, <1>2, ModePriorities DEF Reduced

(* A row that was built is not the missing one. *)
LEMMA BuiltRow ==
    ASSUME NEW d, NEW equity, NEW pnl, NEW bs, bs \subseteq Blocker
    PROVE  /\ RiskState(d, equity, pnl, bs) # NoRow
           /\ RiskState(d, equity, pnl, bs).equity = equity
           /\ RiskState(d, equity, pnl, bs).blockers = bs
           /\ RiskState(d, equity, pnl, bs).mode = reduce_risk_mode(bs)
<1>1. bs = {} => reduce_risk_mode(bs) = "Operational"
  BY OperationalIsFree
<1> QED BY <1>1 DEF RiskState, NoRow

(* What sync_risk_state_from_runtime_signals() leaves in the row. *)
LEMMA SyncedRow ==
    ASSUME NEW equity
    PROVE  /\ Synced(equity) # NoRow
           /\ Synced(equity).blockers \subseteq Blocker
           /\ Synced(equity).mode = reduce_risk_mode(Synced(equity).blockers)
           /\ daily_loss_halt(Synced(equity).equity, today) => "daily_loss" \in Synced(equity).blockers
           /\ flags.soft => "cooldown" \in Synced(equity).blockers
<1> DEFINE base == rollover_risk_state_if_new_day(row, equity)
           bs == build_active_blockers(daily_loss_halt(base.equity, today), flags.soft, kill)
<1>1. Synced(equity) = RiskState(day, base.equity, today, bs)
  BY DEF Synced
<1>2. bs \subseteq Blocker
  BY DEF build_active_blockers
<1>3. /\ daily_loss_halt(base.equity, today) => "daily_loss" \in bs
      /\ flags.soft => "cooldown" \in bs
  BY DEF build_active_blockers, Blocker
<1> HIDE DEF base, bs
<1> QED BY <1>1, <1>2, <1>3, BuiltRow

---------------------------------------------------------------------------
(* The invariant holds at first and after every step. *)
LEMMA InitIInv == Init => IInv
BY GatesAssumption DEF Init, IInv, CapInv, RowInv, CapHolds

LEMMA NextCapInv == IInv /\ [Next]_vars => CapInv'
<1> SUFFICES ASSUME IInv, [Next]_vars PROVE CapInv'
  OBVIOUS
<1> USE GatesAssumption DEF IInv, CapInv, CapHolds
<1>1. CASE Loop
  BY <1>1
  DEF Loop, Reconciled, Stop, Stops, Down, Start, Flattened, BreakerHears, PauseCheck,
      SyncRiskState, _sync_runtime_risk_state, save_risk_state,
      Consider, ScanDone, Gate, CouncilRejects, Opened, NotOpened, Duplicate, Heal, NothingToHeal,
      HandleLoopError, Hides, Step, memory, risk, books
<1>2. CASE \E r \in Results : Close(r)
  BY <1>2 DEF Close
<1>3. CASE Operator
  BY <1>3
  DEF Operator, Pause, Resume, RequestFlatten, HardKill, Signal, Command, Disarm, Bootstrap,
      save_risk_state, memory, risk, books
<1>4. CASE Startup
  BY <1>4 DEF Startup, Restart, ReconcileClose, ReconcileExpire, Step
<1>5. CASE Midnight
  BY <1>5 DEF Midnight, memory
<1>6. CASE Crash
  BY <1>6 DEF Crash, Stops, Down
<1>7. CASE UNCHANGED vars
  BY <1>7 DEF vars, memory, risk, books
<1> QED BY <1>1, <1>2, <1>3, <1>4, <1>5, <1>6, <1>7 DEF Next

LEMMA NextRowInv == IInv /\ [Next]_vars => RowInv'
<1> SUFFICES ASSUME IInv, [Next]_vars PROVE RowInv'
  OBVIOUS
<1> USE DEF IInv, RowInv
<1>1. CASE \E equity \in Equities : SyncRiskState(equity)
  <2> PICK equity \in Equities : SyncRiskState(equity)
    BY <1>1
  <2>1. pc' = "heal" \/ (pc' = "scan" /\ row' = Synced(equity) /\ row # NoRow)
    BY DEF SyncRiskState, _sync_runtime_risk_state, save_risk_state
  <2>2. underPause' = flags.soft /\ today' = today
    BY DEF SyncRiskState, _sync_runtime_risk_state, save_risk_state
  <2> QED BY <2>1, <2>2, SyncedRow DEF daily_loss_halt
<1>2. CASE Consider \/ ScanDone \/ Opened \/ NotOpened \/ Duplicate
           \/ CouncilRejects \/ \E readable \in BOOLEAN : Gate(readable)
  BY <1>2
  DEF Consider, ScanDone, Opened, NotOpened, Duplicate, CouncilRejects, Gate, Step, memory, risk, books,
      daily_loss_halt
<1>3. CASE Reconciled \/ Stop \/ Start \/ Flattened \/ PauseCheck \/ NothingToHeal \/ HandleLoopError
           \/ (\E r \in Results : Heal(r))
           \/ \E bankroll, starting \in Equities : BreakerHears(bankroll, starting)
  BY <1>3
  DEF Reconciled, Stop, Stops, Down, Start, Flattened, PauseCheck, NothingToHeal, HandleLoopError, Heal,
      BreakerHears, Step
<1>4. CASE \E r \in Results : Close(r)
  BY <1>4 DEF Close
<1>5. CASE Operator
  BY <1>5
  DEF Operator, Pause, Resume, RequestFlatten, HardKill, Signal, Command, Disarm, Bootstrap,
      save_risk_state, memory, risk, books, daily_loss_halt
<1>6. CASE Startup \/ Crash
  BY <1>6 DEF Startup, Restart, ReconcileClose, ReconcileExpire, Step, Crash, Stops, Down
<1>7. CASE Midnight \/ UNCHANGED vars
  BY <1>7 DEF Midnight, vars, memory, risk, daily_loss_halt
<1> QED BY <1>1, <1>2, <1>3, <1>4, <1>5, <1>6, <1>7 DEF Next, Loop

(* The inductive invariant holds in every reachable state. *)
THEOREM Inductive == Spec => []IInv
BY InitIInv, NextCapInv, NextRowInv, PTL DEF Spec, IInv

---------------------------------------------------------------------------
(* The cap on open positions (_scan_and_execute). *)
THEOREM CapIsKept == Spec => []CapHolds
BY Inductive, PTL DEF IInv, CapInv

(* A step that starts an order passes the gates of a scan with an          *)
(* operational row.                                                        *)
LEMMA OrdersPassTheGate ==
    ASSUME Next, StartsOrder
    PROVE  \E readable \in BOOLEAN : Gate(readable) /\ Open(readable)
BY DEF StartsOrder, Next, Loop, Operator, Startup, Reconciled, Stop, Stops, Down, Start, Flattened,
       BreakerHears, PauseCheck, SyncRiskState, _sync_runtime_risk_state,
       save_risk_state, Consider, ScanDone, Gate, CouncilRejects, Opened,
       NotOpened, Duplicate, Heal, NothingToHeal, HandleLoopError, Close, Pause, Resume,
       RequestFlatten, HardKill, Signal, Command, Disarm, Bootstrap, Restart, ReconcileClose,
       ReconcileExpire, Midnight, Crash, Step

(* At the gate the row has no blocker. *)
LEMMA NoBlockerAtTheGate ==
    ASSUME IInv, Next, StartsOrder
    PROVE  row.blockers = {}
<1> PICK readable \in BOOLEAN : Gate(readable) /\ Open(readable)
  BY OrdersPassTheGate
<1>1. row.mode = "Operational"
  BY DEF Open, Operational, effective_risk_mode
<1>2. row.blockers \subseteq Blocker /\ row.mode = reduce_risk_mode(row.blockers)
  BY DEF IInv, RowInv, StartsOrder
<1> QED BY <1>1, <1>2, OperationalIsFree

(* The daily loss that is known stops every order (main_loop.py).          *)
THEOREM LossStops == Spec => KnownLossStops
<1>1. IInv /\ [Next]_vars => [StartsOrder => ~daily_loss_halt(row.equity, today)]_vars
  <2> SUFFICES ASSUME IInv, Next, StartsOrder PROVE ~daily_loss_halt(row.equity, today)
    OBVIOUS
  <2>1. daily_loss_halt(row.equity, today) => "daily_loss" \in row.blockers
    BY DEF IInv, RowInv, StartsOrder
  <2> QED BY <2>1, NoBlockerAtTheGate
<1> QED BY <1>1, Inductive, PTL DEF Spec, KnownLossStops

(* A scan that began under a pause starts no order.                        *)
THEOREM PauseStopsScan == Spec => PauseReachesScan
<1>1. IInv /\ [Next]_vars => [StartsOrder => ~underPause]_vars
  <2> SUFFICES ASSUME IInv, Next, StartsOrder PROVE ~underPause
    OBVIOUS
  <2>1. underPause => "cooldown" \in row.blockers
    BY DEF IInv, RowInv, StartsOrder
  <2> QED BY <2>1, NoBlockerAtTheGate
<1> QED BY <1>1, Inductive, PTL DEF Spec, PauseReachesScan

(***************************************************************************)
(* The subscriptions.                                                      *)
(***************************************************************************)
(* Without a connection nothing is awaited and nothing streamed. *)
DownIsQuiet == link = "down" => flush = NoFlush /\ server = {}

(* What the server streams while a send is awaited: the tokens of          *)
(* _subscribed, and at most those whose unsubscription is queued or being  *)
(* sent, which _subscribed no longer has.                                  *)
Leaving == IF flush.step = "unsub" THEN flush.batch ELSE {}
Streams ==
    link = "up" =>
        /\ subscribed \subseteq server
        /\ subscribed \cap Leaving = {}
        /\ server \subseteq subscribed \cup unsub \cup Leaving

WSInv == DownIsQuiet /\ Streams /\ OnlyBatchesAreLost /\ link \in {"up", "down"}

---------------------------------------------------------------------------
LEMMA WSInitInv == WSInit => WSInv
BY DEF WSInit, WSInv, DownIsQuiet, Streams, OnlyBatchesAreLost, Tracked

(* _flush_pending() keeps track of what it takes, from the sets that       *)
(* subscribe() and unsubscribe() left, or from those of a new connection.  *)
LEMMA BeginFlushInv ==
    ASSUME NEW initial, NEW sub, NEW pen, BeginFlush(initial, sub, pen),
           flush = NoFlush, link' = "up", server' = server, wanted' = wanted,
           wanted \ lost \subseteq pen \cup sub,
           sub \subseteq server, server \subseteq sub \cup unsub
    PROVE  WSInv'
<1>1. CASE unsub # {}
  <2>1. TakeUnsub(initial, sub, pen)
    BY <1>1 DEF BeginFlush
  <2>2. flush'.step = "unsub" /\ flush'.batch = unsub
    BY <2>1 DEF TakeUnsub
  <2>3. Streams'
    BY <2>1, <2>2 DEF TakeUnsub, Streams, Leaving
  <2>4. OnlyBatchesAreLost'
    BY <2>1, <2>2 DEF TakeUnsub, OnlyBatchesAreLost, Tracked, InFlight
  <2> QED BY <2>3, <2>4 DEF WSInv, DownIsQuiet
<1>2. CASE unsub = {}
  <2>1. TakePending(initial, sub, pen) /\ unsub' = unsub /\ lost' = lost
    BY <1>2 DEF BeginFlush
  <2>2. flush'.step # "unsub" /\ (pen # {} => flush'.step = "sub" /\ flush'.batch = pen)
    BY <2>1 DEF TakePending, NoFlush
  <2>3. Streams'
    BY <2>1, <2>2 DEF TakePending, Streams, Leaving
  <2>4. OnlyBatchesAreLost'
    BY <2>1, <2>2 DEF TakePending, OnlyBatchesAreLost, Tracked, InFlight
  <2> QED BY <2>3, <2>4 DEF WSInv, DownIsQuiet
<1> QED BY <1>1, <1>2

LEMMA WSNextInv == WSInv /\ [WSNext]_WSvars => WSInv'
<1> SUFFICES ASSUME WSInv, [WSNext]_WSvars PROVE WSInv'
  OBVIOUS
<1> USE DEF WSInv
<1>1. ASSUME NEW t \in Tokens, Subscribe(t) PROVE WSInv'
  BY <1>1 DEF Subscribe, DownIsQuiet, Streams, Leaving, OnlyBatchesAreLost, Tracked, InFlight
<1>2. ASSUME NEW t \in Tokens, Unsubscribe(t) PROVE WSInv'
  BY <1>2 DEF Unsubscribe, DownIsQuiet, Streams, Leaving, OnlyBatchesAreLost, Tracked, InFlight
<1>3. CASE Connect
  <2>1. flush = NoFlush /\ server = {}
    BY <1>3 DEF Connect, DownIsQuiet
  <2>2. wanted \ lost \subseteq (pending \cup subscribed) \cup {}
    BY <2>1 DEF OnlyBatchesAreLost, Tracked, InFlight, NoFlush
  <2> QED BY <1>3, <2>1, <2>2, BeginFlushInv DEF Connect
<1>4. CASE FlushTick
  <2>1. wanted \ lost \subseteq pending \cup subscribed
    BY <1>4 DEF FlushTick, OnlyBatchesAreLost, Tracked, InFlight, NoFlush
  <2>2. subscribed \subseteq server /\ server \subseteq subscribed \cup unsub
    BY <1>4 DEF FlushTick, Streams, Leaving, NoFlush
  <2> QED BY <1>4, <2>1, <2>2, BeginFlushInv DEF FlushTick
<1>5. CASE UnsubSent
  <2>1. CASE subscribed = {} /\ pending = {}
    BY <1>5, <2>1
    DEF UnsubSent, client, DownIsQuiet, Streams, OnlyBatchesAreLost, Tracked, InFlight
  <2>2. CASE ~(subscribed = {} /\ pending = {})
    <3>1. /\ TakePending(flush.initial, subscribed, pending)
          /\ server' = server \ flush.batch /\ link' = link /\ unsub' = unsub
          /\ wanted' = wanted /\ lost' = lost /\ flush.step = "unsub"
      BY <1>5, <2>2 DEF UnsubSent
    <3>2. flush'.step # "unsub" /\ (pending # {} => flush'.step = "sub" /\ flush'.batch = pending)
      BY <3>1 DEF TakePending, NoFlush
    <3>3. link = "up"
      BY <3>1 DEF DownIsQuiet, NoFlush
    <3>4. Streams'
      BY <3>1, <3>2 DEF TakePending, Streams, Leaving
    <3>5. OnlyBatchesAreLost'
      BY <3>1, <3>2 DEF TakePending, OnlyBatchesAreLost, Tracked, InFlight
    <3> QED BY <3>1, <3>3, <3>4, <3>5 DEF DownIsQuiet
  <2> QED BY <2>1, <2>2
<1>6. CASE SubSent
  <2>1. link = "up"
    BY <1>6 DEF SubSent, DownIsQuiet, NoFlush
  <2>2. flush'.step = "none"
    BY <1>6 DEF SubSent, NoFlush
  <2> QED BY <1>6, <2>1, <2>2
      DEF SubSent, DownIsQuiet, Streams, Leaving, OnlyBatchesAreLost, Tracked, InFlight
<1>7. CASE Break
  <2>1. flush'.step = "none"
    BY <1>7 DEF Break, NoFlush
  <2> QED BY <1>7, <2>1
      DEF Break, client, DownIsQuiet, Streams, OnlyBatchesAreLost, Tracked, InFlight
<1>8. CASE UNCHANGED WSvars
  BY <1>8 DEF WSvars, client, DownIsQuiet, Streams, Leaving, OnlyBatchesAreLost, Tracked, InFlight
<1> QED BY <1>1, <1>2, <1>3, <1>4, <1>5, <1>6, <1>7, <1>8 DEF WSNext, Callers, Run

(* The inductive invariant holds in every reachable state. *)
THEOREM WSInductive == WSSpec => []WSInv
BY WSInitInv, WSNextInv, PTL DEF WSSpec

---------------------------------------------------------------------------
(* Between two sends _subscribed is what the server streams, but for what  *)
(* is about to be unsubscribed.                                            *)
THEOREM ServerIsKnown == WSSpec => []ServerMatches
<1>1. WSInv => ServerMatches
  BY DEF WSInv, Streams, ServerMatches, Leaving, NoFlush
<1> QED BY <1>1, WSInductive, PTL

(* No wanted token is forgotten but with a batch that is lost.             *)
THEOREM OnlyLostBatchesForget == WSSpec => []OnlyBatchesAreLost
BY WSInductive, PTL DEF WSInv
=============================================================================
