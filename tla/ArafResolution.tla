--------------------------- MODULE ArafResolution ---------------------------
(***************************************************************************)
(* What becomes of an order intent of unknown fate: the pure decisions of  *)
(* data/clob_reconcile.py over an order record and a page of trades, and   *)
(* the driver of execution/araf_resolve_driver.py that writes them to      *)
(* araf_resolution_shadow (execution/araf_resolve_shadow.py).  Nothing in  *)
(* the running program calls the driver yet.                               *)
(*                                                                         *)
(* The exchange moves on between the two requests of a decision, a trade   *)
(* may be visible only some time after it was matched, and a page may      *)
(* repeat a trade.                                                         *)
(***************************************************************************)
EXTENDS Integers, Sequences, SequencesExt, FiniteSets

CONSTANTS Queue,    \* unresolved intents, oldest first
          Unnamed,  \* intents without an exchange_order_id
          Trades,   \* trades that may happen: id, order, role, size, price
          Target    \* original_size of every order

Intents == Range(Queue)
TradesOf(i) == {t \in Trades : t.order = i}
Size(ts) == SumFunction([t \in ts |-> t.size])

ASSUME ArafAssumption ==
    /\ Queue \in Seq(Intents) /\ Target \in Nat \ {0} /\ IsFiniteSet(Trades)
    /\ Unnamed \subseteq Intents
    /\ \A t \in Trades : t.order \in Intents /\ t.role \in {"taker", "maker"}
    /\ \A t \in Trades : t.size \in Nat \ {0} /\ t.price \in Nat
    /\ \A i \in Intents : Size(TradesOf(i)) <= Target
    /\ \A t, u \in Trades : t.id = u.id => t = u

VARIABLES
    fate,      \* status of each trade
    visible,   \* trades the trade feed shows
    live,      \* orders that still rest at the exchange
    driver,    \* the batch: step, intents left, order record at hand
    shadow,    \* araf_resolution_shadow: the row of an intent
    first,     \* zero-fill cancel: what the first observation said
    cancelled  \* intents the two observations declared CANCELLED

exchange == <<fate, visible, live>>
ARvars == <<exchange, driver, shadow, first, cancelled>>

(* Accounting evidence: what rows of trades add up to, in page order.      *)
Fills(rs) ==
    [kind |-> "fills",
     size |-> SumFunction([n \in DOMAIN rs |-> rs[n].size]),
     notional |-> SumFunction([n \in DOMAIN rs |-> rs[n].size * rs[n].t.price]),
     trades |-> [n \in DOMAIN rs |-> rs[n].t]]
Nothing == [kind |-> "nothing", size |-> 0, notional |-> 0, trades |-> <<>>]
Clash   == [Nothing EXCEPT !.kind = "conflict"]

Decision(state, fills) == [state |-> state, fills |-> fills]
NoDecision == Decision("none", Nothing)
Recovery == Decision("RECOVERY_REQUIRED", Nothing)

NoBatch == [step |-> "idle", todo |-> <<>>, status |-> ""]

ARInit ==
    /\ fate = [t \in Trades |-> "none"] /\ visible = {} /\ live = Intents
    /\ driver = NoBatch /\ shadow = [i \in Intents |-> NoDecision]
    /\ first = [i \in Intents |-> "none"] /\ cancelled = {}

(***************************************************************************)
(* The exchange.                                                           *)
(***************************************************************************)
Matched(i) == {t \in TradesOf(i) : fate[t] \in {"MATCHED", "CONFIRMED"}}
Confirmed(i) == {t \in TradesOf(i) : fate[t] = "CONFIRMED"}

MatchTrade(t) ==
    /\ fate[t] = "none" /\ t.order \in live
    /\ fate' = [fate EXCEPT ![t] = "MATCHED"]
    /\ UNCHANGED <<visible, live, driver, shadow, first, cancelled>>

SettleTrade(t, s) ==
    /\ fate[t] = "MATCHED"
    /\ fate' = [fate EXCEPT ![t] = s]
    /\ UNCHANGED <<visible, live, driver, shadow, first, cancelled>>

Show(t) ==
    /\ fate[t] # "none" /\ t \notin visible
    /\ visible' = visible \cup {t}
    /\ UNCHANGED <<fate, live, driver, shadow, first, cancelled>>

CancelOrder(i) ==
    /\ i \in live
    /\ live' = live \ {i}
    /\ UNCHANGED <<fate, visible, driver, shadow, first, cancelled>>

\* get_order(): the status as it is now; the matched size may be as old as
\* the trade feed.
OrderStatus(i) ==
    IF Size(Matched(i)) = Target THEN "MATCHED" ELSE IF i \in live THEN "LIVE" ELSE "CANCELED"
MatchedSizes(i) == {Size(Matched(i)), Size(Matched(i) \cap visible)}

(* get_trades_paginated(): the visible trades in any order, one of them    *)
(* perhaps twice, with the same payload or another, or without a size.     *)
RowOf(t) == [t |-> t, status |-> fate[t], size |-> t.size]
NoSize == -1
Pages ==
    LET rows == {RowOf(t) : t \in visible} IN
    UNION {LET echo(r) == Append(s, r)
           IN {s} \cup {echo(r) : r \in rows} \cup {echo([r EXCEPT !.size = @ + 1]) : r \in rows}
              \cup {[s EXCEPT ![n].size = NoSize] : n \in DOMAIN s}
           : s \in SetToSeqs(rows)}

(***************************************************************************)
(* decide_araf_resolution()                                                *)
(***************************************************************************)
\* The rows at the positions K, in their order.
Picked(rows, K) ==
    LET picked[n \in 0..Len(rows)] ==
            IF n = 0 THEN <<>>
            ELSE IF n \in K THEN Append(picked[n - 1], rows[n]) ELSE picked[n - 1]
    IN picked[Len(rows)]
FirstOfEach(rows) == Picked(rows, {n \in DOMAIN rows : \A m \in 1..(n - 1) : rows[m] # rows[n]})

\* Mutant: a repeated row is added up again.
AggregateEchoes(rows) ==
    IF rows = <<>> \/ \E n \in DOMAIN rows : rows[n].size = NoSize THEN Nothing
    ELSE Fills(rows)
(* _aggregate_taker_confirmed_fills() and the same of makers: identical    *)
(* rows count once, two rows of one id are a conflict, a row without a     *)
(* size makes it nothing, whichever of the two comes first.                *)
Aggregate(rows) ==
    LET clashes == {n \in DOMAIN rows : \E m \in 1..(n - 1) : rows[m].t = rows[n].t /\ rows[m] # rows[n]}
        bad     == {n \in DOMAIN rows : rows[n].size = NoSize}
    IN IF clashes # {} /\ \A n \in bad : \E m \in clashes : m <= n THEN Clash
       ELSE IF bad # {} \/ rows = <<>> THEN Nothing
       ELSE Fills(FirstOfEach(rows))

ConfirmedFills(page, i) ==
    Picked(page, {n \in DOMAIN page : page[n].t.order = i /\ page[n].status = "CONFIRMED"})
OfRole(rows, role) == Picked(rows, {n \in DOMAIN rows : rows[n].t.role = role})

(* decide_araf_resolution(): the first confirmed row tells whether the     *)
(* order took or made; FILLED needs all of Target, a partial fill an order *)
(* that is not known to be open.                                           *)
decide_araf_resolution(i, status, page) ==
    LET ours == ConfirmedFills(page, i)
        fills(role) == Aggregate(OfRole(ours, role))
        side == fills(ours[1].t.role)
        rest == IF fills("taker") = Nothing THEN fills("maker") ELSE fills("taker")
    IN IF ours = <<>> \/ ours[1].size = NoSize \/ side = Clash THEN Recovery
       ELSE IF side.size = Target THEN Decision("FILLED", side)
       ELSE IF ours[1].size = Target THEN Decision("FILLED", Fills(<<ours[1]>>))
       ELSE IF ours[1].size < Target /\ status \in {"LIVE", "MATCHED"} THEN Recovery
       ELSE IF rest = Clash THEN Recovery
       ELSE Decision("PARTIAL_FILLED", rest)

(***************************************************************************)
(* decide_zero_fill_cancel_with_stability()                                *)
(***************************************************************************)
\* As taker or as maker, whatever its status.
has_any_order_trace(i) == TradesOf(i) \cap visible # {}
(* _zero_fill_cancel_evidence(): cancelled, nothing matched, the scan      *)
(* complete and no trace of a trade, confirmed or not.                     *)
ZeroFillCancel(i, matched, complete) ==
    /\ OrderStatus(i) = "CANCELED" /\ matched = 0
    /\ complete
    /\ ~has_any_order_trace(i)

\* Mutant: the second observation is not compared with the first.
FirstDecides(i, now) == first[i] = "cancel"
Stable(i, now) == first[i] = "cancel" /\ now

(***************************************************************************)
(* run_araf_resolution(): the intents one after the other.                 *)
(***************************************************************************)
StartBatch ==
    /\ driver.step = "idle" /\ Queue # <<>>
    /\ driver' = [driver EXCEPT !.step = "order", !.todo = Queue]
    /\ UNCHANGED <<exchange, shadow, first, cancelled>>

BatchEnds == driver' = NoBatch
NextIntent ==
    driver' = IF Len(driver.todo) = 1 THEN NoBatch
              ELSE [step |-> "order", todo |-> Tail(driver.todo), status |-> ""]

(* record_araf_resolution(): the first decision of an intent stays.  A     *)
(* different one is an ArafShadowConflictError, which nobody catches: the  *)
(* intents behind it are not looked at.                                    *)
Record(d) ==
    LET i == Head(driver.todo) IN
    /\ shadow' = IF shadow[i] = NoDecision THEN [shadow EXCEPT ![i] = d] ELSE shadow
    /\ IF shadow[i] \in {NoDecision, d} THEN NextIntent ELSE BatchEnds
    /\ UNCHANGED <<exchange, first, cancelled>>

MissingOrderId ==
    /\ driver.step = "order" /\ Head(driver.todo) \in Unnamed
    /\ Record(Recovery)

\* A page of the wrong shape, or one with more pages to come.
CannotScan ==
    /\ driver.step = "trades"
    /\ Record(Recovery)

\* A request raises: the batch is over.
RequestRaises ==
    /\ driver.step \in {"order", "trades"} /\ Head(driver.todo) \notin Unnamed
    /\ BatchEnds
    /\ UNCHANGED <<exchange, shadow, first, cancelled>>

\* get_order() may also answer None, which is read as an empty record.
FetchOrder(answered) ==
    /\ driver.step = "order" /\ Head(driver.todo) \notin Unnamed
    /\ driver' = [driver EXCEPT !.step = "trades",
                     !.status = IF answered THEN OrderStatus(Head(driver.todo)) ELSE ""]
    /\ UNCHANGED <<exchange, shadow, first, cancelled>>

FetchTrades(page) ==
    /\ driver.step = "trades"
    /\ Record(decide_araf_resolution(Head(driver.todo), driver.status, page))

(* The two observations of a zero-fill cancel.  They are the caller's, far *)
(* enough apart for a trade matched before the first to be visible at the  *)
(* second.                                                                 *)
ObserveFirst(i, matched, complete) ==
    /\ first[i] = "none"
    /\ first' = [first EXCEPT ![i] = IF ZeroFillCancel(i, matched, complete) THEN "cancel" ELSE "other"]
    /\ UNCHANGED <<exchange, driver, shadow, cancelled>>

ObserveSecond(i, matched, complete) ==
    /\ first[i] # "none"
    /\ {t \in TradesOf(i) : fate[t] # "none"} \subseteq visible
    /\ cancelled' = IF Stable(i, ZeroFillCancel(i, matched, complete))
                    THEN cancelled \cup {i} ELSE cancelled
    /\ first' = [first EXCEPT ![i] = "none"]
    /\ UNCHANGED <<exchange, driver, shadow>>

Exchange ==
    \/ \E t \in Trades : MatchTrade(t) \/ Show(t) \/ \E s \in {"CONFIRMED", "FAILED"} : SettleTrade(t, s)
    \/ \E i \in Intents : CancelOrder(i)

Batch ==
    \/ StartBatch \/ MissingOrderId \/ CannotScan \/ RequestRaises
    \/ \E answered \in BOOLEAN : FetchOrder(answered)
    \/ \E page \in Pages : FetchTrades(page)

Observe ==
    \E i \in Intents \ Unnamed, complete \in BOOLEAN : \E matched \in MatchedSizes(i) :
        ObserveFirst(i, matched, complete) \/ ObserveSecond(i, matched, complete)

ARNext == Exchange \/ Batch \/ Observe
ARSpec == ARInit /\ [][ARNext]_ARvars

(***************************************************************************)
(* Properties.                                                             *)
(***************************************************************************)
(* The recorded size and notional are those of distinct CONFIRMED trades   *)
(* of the order: no trade counts twice, none that may still fail counts;   *)
(* and an intent is FILLED only when they make up the whole order,         *)
(* whatever the order record said and however the page was read.           *)
FilledIsProven ==
    \A i \in Intents :
        LET ev == shadow[i].fills
            ts == Range(ev.trades)
        IN /\ ts \subseteq Confirmed(i)
           /\ ev.size = Size(ts)
           /\ ev.notional = SumFunction([t \in ts |-> t.size * t.price])
           /\ shadow[i].state = "FILLED" => Size(Confirmed(i)) = Target

(* An order is declared CANCELLED without a fill only when no trade of it  *)
(* ever happened or can happen.                                            *)
ZeroFillSound ==
    \A i \in cancelled : i \notin live /\ \A t \in TradesOf(i) : fate[t] = "none"

(* Violated.  A recorded PARTIAL_FILLED is what its comment calls it, the  *)
(* final exposure of the order: no trade of it confirms later.             *)
PartialIsFinal ==
    [][\A i \in Intents : shadow[i].state = "PARTIAL_FILLED" => Confirmed(i)' = Confirmed(i)]_ARvars
=============================================================================
