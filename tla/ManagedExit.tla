----------------------------- MODULE ManagedExit -----------------------------
(***************************************************************************)
(* tools/gateg9_managed_position_runner.py on top of analysis/forensic/    *)
(* gateg9_managed_exit.py.  A run admits the best paper position of each   *)
(* window from the G8 ledger and polls its market; every overlay, a way of *)
(* leaving the position, triggers at one poll and sells at the next, and   *)
(* what it still holds is settled at the resolution.  Every write is a     *)
(* commit of its own and inserts a row or finds it; a run that ended or    *)
(* died is resumed from the rows.                                          *)
(*                                                                         *)
(* Prices are cents, quantities shares; a book is one bid level.  Positions *)
(* do not interact after admission, so they are polled in any order.       *)
(***************************************************************************)
EXTENDS Integers, Sequences, FiniteSets, FiniteSetsExt, Functions

CONSTANTS Positions,  \* the paper positions of the G8 ledger, by condition
          WindowOf, EdgeOf, AskOf, QuantityOf,  \* of each position
          FeeRate,    \* percent
          Simple,     \* the simple overlays in use, in order
          Bids,       \* levels a book may have
          Fairs,      \* probabilities of the selected side, in cents; NoFair: none
          MaxPolls,   \* bound: polls of each position
          MaxStarts   \* bound: runs

Tranches == <<"STAGED#0", "STAGED#1", "STAGED#2">>
Keys == Simple \o Tranches
KeySet == {Keys[i] : i \in DOMAIN Keys}
TrancheSet == {Tranches[i] : i \in DOMAIN Tranches}
Staged == "STAGED"

NoFair == -1  \* no model value at this poll

\* TP_PCTS, the tranches as _TRIGGER_KIND has them.
Percent(k) ==
    CASE k \in {"TP_15_FULL", Tranches[1]} -> 15
      [] k \in {"TP_20_FULL", Tranches[2]} -> 20
      [] k \in {"TP_30_FULL", Tranches[3]} -> 30

ASSUME ManagedAssumption ==
    /\ \A p \in Positions : EdgeOf[p] \in Int /\ AskOf[p] \in 1..100
    \* Quantities are many steps of 1e-8: no tranche is empty.
    /\ \A p \in Positions : QuantityOf[p] \in Nat /\ QuantityOf[p] >= 3
    /\ \A p, q \in Positions :
          WindowOf[p] = WindowOf[q] /\ EdgeOf[p] = EdgeOf[q] => p = q
    /\ FeeRate \in Nat /\ MaxStarts \in Nat /\ MaxPolls \in [Positions -> Nat]
    /\ Simple \in Seq({"HOLD_CONTROL", "TP_15_FULL", "TP_20_FULL", "TP_30_FULL", "TIME_STOP_T120",
                       "MODEL_PREMIUM_EXIT", "ENTRY_THESIS_INVALIDATION"})
    /\ \A i, j \in DOMAIN Simple : Simple[i] = Simple[j] => i = j
    /\ \A b \in Bids : b.price \in 1..100 /\ b.size \in Nat
    /\ Fairs \subseteq 0..100 \cup {NoFair}

VARIABLES
    g8,        \* PAPER_OPEN rows of the G8 ledger
    clock,     \* of each window, {"early", "late", "ended"}: time to expiry
    winner,    \* [Positions -> BOOLEAN]: the selected side won, once ended
    starts,    \* runs so far; the first makes the ledger file
    row,       \* gateg9_managed_positions: state of each, or "none"
    polls,     \* gateg9_monitoring_snapshots: MAX(poll_seq) of each
    events,    \* gateg9_overlay_events of each position and overlay
    terminal,  \* gateg9_overlay_terminal, the staged aggregate included
    run        \* the process, or Down

tables == <<row, polls, events, terminal>>
world == <<g8, clock, winner>>
vars == <<world, starts, tables, run>>

Windows == {WindowOf[p] : p \in Positions}
NoRow == [status |-> "none", known |-> FALSE, pnl |-> 0]  \* ~known: a NULL profit
Down == [step |-> "down"]
At(step) == run.step = step

(***************************************************************************)
(* Fees, fills and profits.                                                *)
(***************************************************************************)
Fee(quantity, price) == (quantity * price * (100 - price) * FeeRate) \div 10000
EntryCost(p) == AskOf[p] * QuantityOf[p] + Fee(QuantityOf[p], AskOf[p])
NetProceeds(quantity, price) == quantity * price - Fee(quantity, price)
Filled(quantity, bid) == IF bid.size < quantity THEN bid.size ELSE quantity

\* split_into_thirds() and allocate_tranche_costs(): the last takes the rest.
Third(p) == (QuantityOf[p] + 1) \div 3
ThirdCost(p) == (EntryCost(p) * Third(p)) \div QuantityOf[p]
FullQuantity(p, k) ==
    CASE k \notin TrancheSet -> QuantityOf[p]
      [] k = Tranches[3]     -> QuantityOf[p] - 2 * Third(p)
      [] OTHER               -> Third(p)
FullCost(p, k) ==
    CASE k \notin TrancheSet -> EntryCost(p)
      [] k = Tranches[3]     -> EntryCost(p) - 2 * ThirdCost(p)
      [] OTHER               -> ThirdCost(p)

\* Mutant: the cost of a leg is its share of the whole position's.
LegOfFullCost(p, k, rt, bid) ==
    LET quantity == Filled(rt.quantity, bid)
        cost == (FullCost(p, k) * quantity) \div rt.quantity
    IN [quantity |-> quantity, cost |-> cost,
        pnl |-> NetProceeds(quantity, bid.price) - cost,
        left |-> rt.quantity - quantity, costLeft |-> rt.cost - cost]
\* execute_exit_fill() of an overlay that holds something: the cost of the
\* leg is rounded, the rest is exact.
Leg(p, k, rt, bid) ==
    LET quantity == Filled(rt.quantity, bid)
        cost == (rt.cost * quantity) \div rt.quantity
    IN [quantity |-> quantity, cost |-> cost,
        pnl |-> NetProceeds(quantity, bid.price) - cost,
        left |-> rt.quantity - quantity, costLeft |-> rt.cost - cost]

Payout(p, quantity) == IF winner[p] THEN 100 * quantity ELSE 0

(***************************************************************************)
(* Triggers: poll K only.                                                  *)
(***************************************************************************)
Absorbed(rt, snap) == snap.bid.size >= rt.quantity
TakesProfit(k, rt, snap) ==
    /\ Absorbed(rt, snap) /\ rt.cost > 0
    /\ 100 * (NetProceeds(rt.quantity, snap.bid.price) - rt.cost) >= Percent(k) * rt.cost
BeatsModel(rt, snap) ==
    /\ snap.fair # NoFair /\ Absorbed(rt, snap)
    /\ NetProceeds(rt.quantity, snap.bid.price) >= snap.fair * rt.quantity
ThesisFails(rt, snap) == snap.fair # NoFair /\ snap.fair * rt.quantity <= rt.cost

Triggered(k, rt, snap) ==
    CASE k = "HOLD_CONTROL"              -> FALSE
      [] k = "TIME_STOP_T120"            -> snap.late
      [] k = "MODEL_PREMIUM_EXIT"        -> BeatsModel(rt, snap)
      [] k = "ENTRY_THESIS_INVALIDATION" -> ThesisFails(rt, snap)
      [] OTHER                           -> TakesProfit(k, rt, snap)
FilledStatus(k) ==
    CASE k = "TIME_STOP_T120"            -> "TIME_STOP_FILLED"
      [] k = "MODEL_PREMIUM_EXIT"        -> "MODEL_PREMIUM_EXIT_FILLED"
      [] k = "ENTRY_THESIS_INVALIDATION" -> "ENTRY_THESIS_INVALIDATION_FILLED"
      [] OTHER                           -> "TP_EXIT_FILLED"

(***************************************************************************)
(* The runtime of an overlay, fresh or from the rows.                      *)
(***************************************************************************)
Fresh(p, k) == [state |-> "monitoring", quantity |-> FullQuantity(p, k), cost |-> FullCost(p, k), pnl |-> 0]
Closed(p, k) == [Fresh(p, k) EXCEPT !.state = "closed", !.quantity = 0, !.cost = 0]

OfType(p, k, type) == {e \in events[p][k] : e.type = type}
LastSeq(es) == Max({0} \cup {e.seq : e \in es})
Attempts(p, k) == OfType(p, k, "FILL") \cup OfType(p, k, "NO_FILL")

\* Mutant: the latest trigger is pending, whatever came after it.
RehydratedByTrigger(p, k) ==
    LET legs == OfType(p, k, "FILL")
        last == CHOOSE e \in legs : e.seq = LastSeq(legs)
    IN IF terminal[p][k] # NoRow THEN Closed(p, k)
       ELSE [state |-> IF OfType(p, k, "TRIGGER") # {} THEN "pending" ELSE "monitoring",
             quantity |-> IF legs = {} THEN FullQuantity(p, k) ELSE last.leg.left,
             cost |-> IF legs = {} THEN FullCost(p, k) ELSE last.leg.costLeft,
             pnl |-> SumFunction([e \in legs |-> e.leg.pnl])]
\* Mutant: the legs sold before the restart are forgotten.
RehydratedWhole(p, k) ==
    IF terminal[p][k] # NoRow THEN Closed(p, k)
    ELSE [Fresh(p, k) EXCEPT !.state =
             IF LastSeq(OfType(p, k, "TRIGGER")) > LastSeq(Attempts(p, k)) THEN "pending" ELSE "monitoring"]
\* rehydrate_position_overlay_runtimes()
Rehydrated(p, k) ==
    LET legs == OfType(p, k, "FILL")
        last == CHOOSE e \in legs : e.seq = LastSeq(legs)
    IN IF terminal[p][k] # NoRow THEN Closed(p, k)
       ELSE [state |-> IF LastSeq(OfType(p, k, "TRIGGER")) > LastSeq(Attempts(p, k))
                       THEN "pending" ELSE "monitoring",
             quantity |-> IF legs = {} THEN FullQuantity(p, k) ELSE last.leg.left,
             cost |-> IF legs = {} THEN FullCost(p, k) ELSE last.leg.costLeft,
             pnl |-> SumFunction([e \in legs |-> e.leg.pnl])]

(***************************************************************************)
(* Writes: _insert_or_noop() on the unique indexes.                        *)
(***************************************************************************)
Write(p, k, event) ==
    events' = IF \E e \in events[p][k] : e.type = event.type /\ e.seq = event.seq
              THEN events ELSE [events EXCEPT ![p][k] = @ \cup {event}]
WriteTerminal(p, k, status, known, pnl) ==
    terminal' = IF terminal[p][k] # NoRow THEN terminal
                ELSE [terminal EXCEPT ![p][k] = [status |-> status, known |-> known, pnl |-> pnl]]
Event(type, seq) == [type |-> type, seq |-> seq]
FillEvent(seq, leg) == [type |-> "FILL", seq |-> seq, leg |-> leg]
SettleEvent(rt, pnl) == [type |-> "RESOLUTION_SETTLE", seq |-> 0, quantity |-> rt.quantity, pnl |-> pnl]

\* The run done with the position it is at.
Idle(open, seq) ==
    [step |-> "cycle", todo |-> run.todo \ {run.at}, open |-> open,
     mem |-> Restrict(run.mem, open), seq |-> Restrict(seq, open)]

(***************************************************************************)
(* The driver.                                                             *)
(***************************************************************************)
\* select_shared_entry_cohort(): the best positive edge of each window.
Cohort ==
    {p \in g8 : EdgeOf[p] > 0 /\ \A q \in g8 : WindowOf[q] = WindowOf[p] => EdgeOf[q] <= EdgeOf[p]}

\* run() up to the admission: resumed if the ledger is there, else made.
Resumed == starts > 1
Start ==
    /\ run = Down /\ starts < MaxStarts
    /\ starts' = starts + 1
    /\ run' = [step |-> "admit", todo |-> Cohort, open |-> {}, mem |-> <<>>, seq |-> <<>>]
    /\ UNCHANGED <<world, tables>>

Admit(p) ==
    /\ At("admit") /\ p \in run.todo
    /\ row' = IF row[p] = "none" THEN [row EXCEPT ![p] = "PAPER_OPEN"] ELSE row
    /\ run' = [run EXCEPT
                 !.todo = @ \ {p}, !.open = @ \cup {p},
                 !.mem = [q \in run.open \cup {p} |-> IF q # p THEN @[q]
                            ELSE [k \in KeySet |-> IF Resumed THEN Rehydrated(p, k) ELSE Fresh(p, k)]],
                 !.seq = [q \in run.open \cup {p} |-> IF q # p THEN @[q]
                            ELSE IF Resumed THEN polls[p] + 1 ELSE 1]]
    /\ UNCHANGED <<world, starts, polls, events, terminal>>

\* The top of the loop; the bounds of the run or the operator may end it.
Cycle ==
    /\ At("admit") \/ At("cycle")
    /\ run.todo = {} /\ run.open # {}
    /\ run' = [run EXCEPT !.step = "cycle", !.todo = run.open]
    /\ UNCHANGED <<world, starts, tables>>
End ==
    /\ At("admit") \/ At("cycle")
    /\ run.todo = {} /\ run' = Down
    /\ UNCHANGED <<world, starts, tables>>

\* What Gamma's gamma_decide() and the CLOB's clob_decide() make of an answer
\* about a market; prices are in the order of the tokens.
Tokens == {"selected", "opposite"}
TokenIds == <<"selected", "opposite">>
Decided(status, token) == [status |-> status, token |-> token]
Undecided(status) == Decided(status, "none")
gamma_decide(m) ==
    LET winners == {i \in DOMAIN m.prices : m.prices[i] >= 99} IN
    IF ~m.found THEN Undecided("RES_MISSING")
    ELSE IF ~(m.closed /\ m.final) THEN Undecided("RES_NOT_FINAL")
    ELSE IF Len(m.prices) # 2 THEN Undecided("VOID_OR_REFUND")
    ELSE IF Cardinality(winners) = 1 THEN Decided("RESOLVED", TokenIds[CHOOSE i \in winners : TRUE])
    ELSE IF \A i \in DOMAIN m.prices : m.prices[i] \in 40..60 THEN Undecided("VOID_OR_REFUND")
    ELSE Undecided("RES_NOT_FINAL")
clob_decide(m) ==
    IF ~m.found THEN Undecided("CLOB_MISSING")
    ELSE IF ~m.closed THEN Undecided("RES_NOT_FINAL")
    ELSE IF Cardinality(m.winners) # 1 THEN Undecided("VOID_OR_REFUND")
    ELSE Decided("RESOLVED", CHOOSE t \in m.winners : TRUE)

resolve_selected_side(gamma, clob) ==
    IF gamma.status # "RESOLVED" \/ clob.status # "RESOLVED" THEN "pending"
    ELSE IF gamma.token # clob.token THEN "conflict" ELSE "resolved"

\* The answers Gamma and the CLOB may give: before the end the market is
\* open.  Of the two, Gamma may name a token that did not win.
GammaMarkets(p) ==
    LET ended == clock[WindowOf[p]] = "ended" IN
    [found : BOOLEAN, closed : {FALSE, ended}, final : {FALSE, ended},
     prices : {<<>>, <<50, 50>>, <<100, 0>>, <<0, 100>>, <<70, 30>>}]
ClobMarkets(p) ==
    [found : BOOLEAN, closed : {FALSE, clock[WindowOf[p]] = "ended"},
     winners : {{}, Tokens, {IF winner[p] THEN "selected" ELSE "opposite"}}]
Answers(p) ==
    {resolve_selected_side(g, c) : g \in {gamma_decide(m) : m \in GammaMarkets(p)},
                                   c \in {clob_decide(m) : m \in ClobMarkets(p)}}

Turn(p) == At("cycle") /\ p \in run.todo
\* The run taken up with p, given the market's answer or a snapshot.
Busy(p, step, given) ==
    [step |-> step, todo |-> run.todo, open |-> run.open, mem |-> run.mem, seq |-> run.seq,
     at |-> p, keys |-> Keys, given |-> given]
Resolve(p) ==
    /\ Turn(p)
    /\ \E answer \in Answers(p) \ {"pending"} : run' = Busy(p, "settle", answer)
    /\ UNCHANGED <<world, starts, tables>>

\* How old the time stamps of a poll are when it is taken, in units of
\* QUOTE_STALE_MS; an age below zero is a stamp of the future.
NoStamp == -2
Ages == {NoStamp, -1, 0, 1, 2}
BookStamps == {"selected_quote_ts", "opposite_quote_ts"}
Stamps == [BookStamps \cup {"capture_completed", "hl_feed_ts", "entry_ts"} -> Ages]
validate_monitoring_timing(ages) ==
    /\ \A stamp \in DOMAIN ages : ages[stamp] # NoStamp /\ ages[stamp] >= 0
    /\ \A stamp \in BookStamps : ages[stamp] <= 1
\* Whether a poll may be judged in time, or not: both.
Judgements == {validate_monitoring_timing(ages) : ages \in Stamps}

\* capture_monitoring_snapshot() and its row, which a poll with rejected time
\* stamps gets as well.  An exception of a request ends the run, as Die does.
Snaps(p) ==
    [bid : Bids, late : {clock[WindowOf[p]] # "early"},
     fair : IF clock[WindowOf[p]] = "ended" THEN {NoFair} ELSE Fairs]
Snapshot(p) ==
    /\ Turn(p) /\ run.seq[p] <= MaxPolls[p]
    /\ polls' = [polls EXCEPT ![p] = run.seq[p]]
    /\ \E inTime \in Judgements :
          IF inTime
          THEN \E snap \in Snaps(p) : run' = Busy(p, "advance", snap)
          ELSE run' = [run EXCEPT !.todo = @ \ {p}, !.seq[p] = @ + 1]
    /\ UNCHANGED <<world, starts, row, events, terminal>>

Key == Head(run.keys)
Runtime == run.mem[run.at][Key]
Advancing(state) == At("advance") /\ run.keys # <<>> /\ Runtime.state = state
\* The runtime of the key after its turn, and the next key.
Went(runtime, step) ==
    run' = [run EXCEPT !.step = step, !.mem[run.at][Key] = runtime, !.keys = Tail(@)]

\* _advance_overlay_one_poll()
Skip ==
    /\ Advancing("closed") /\ Went(Runtime, "advance")
    /\ UNCHANGED <<world, starts, tables>>

Monitor ==
    /\ Advancing("monitoring")
    /\ IF Triggered(Key, Runtime, run.given)
       THEN /\ Write(run.at, Key, Event("TRIGGER", run.seq[run.at]))
            /\ Went([Runtime EXCEPT !.state = "pending"], "advance")
       ELSE Went(Runtime, "advance") /\ UNCHANGED events
    /\ UNCHANGED <<world, starts, row, polls, terminal>>

SellNothing ==
    /\ Advancing("pending") /\ Filled(Runtime.quantity, run.given.bid) = 0
    /\ Write(run.at, Key, Event("NO_FILL", run.seq[run.at]))
    /\ Went([Runtime EXCEPT !.state = "monitoring"], "advance")
    /\ UNCHANGED <<world, starts, row, polls, terminal>>

After(leg) ==
    [state |-> "monitoring", quantity |-> leg.left, cost |-> leg.costLeft, pnl |-> Runtime.pnl + leg.pnl]
Sell ==
    /\ Advancing("pending") /\ Filled(Runtime.quantity, run.given.bid) > 0
    /\ LET leg == Leg(run.at, Key, Runtime, run.given.bid) IN
       /\ Write(run.at, Key, FillEvent(run.seq[run.at], leg))
       /\ IF leg.left > 0 THEN Went(After(leg), "advance")
          ELSE run' = [run EXCEPT !.step = "close", !.mem[run.at][Key] = After(leg)]
    /\ UNCHANGED <<world, starts, row, polls, terminal>>

\* The terminal row of an overlay that has sold everything.
CloseFilled ==
    /\ At("close")
    /\ WriteTerminal(run.at, Key, FilledStatus(Key), TRUE, Runtime.pnl)
    /\ Went([Runtime EXCEPT !.state = "closed", !.cost = 0], "advance")
    /\ UNCHANGED <<world, starts, row, polls, events>>

\* _maybe_write_staged_aggregate(): the sum, unless a tranche failed closed.
combine_staged_tranche_pnls(rows) ==
    LET known == \A k \in TrancheSet : rows[k].known
    IN [known |-> known,
        pnl |-> IF known THEN SumFunction([k \in TrancheSet |-> rows[k].pnl]) ELSE 0]
WriteAggregate(p) ==
    IF \E k \in TrancheSet : terminal[p][k] = NoRow THEN UNCHANGED terminal
    ELSE LET combined == combine_staged_tranche_pnls(terminal[p])
         IN WriteTerminal(p, Staged, "STAGED_AGGREGATE", combined.known, combined.pnl)
PollDone ==
    /\ At("advance") /\ run.keys = <<>>
    /\ WriteAggregate(run.at)
    /\ run' = Idle(run.open, [run.seq EXCEPT ![run.at] = @ + 1])
    /\ UNCHANGED <<world, starts, row, polls, events>>

\* finalize_position_at_resolution(), key by key
Settling(step) == At(step) /\ run.keys # <<>>
SkipClosed ==
    /\ Settling("settle") /\ Runtime.state = "closed" /\ Went(Runtime, "settle")
    /\ UNCHANGED <<world, starts, tables>>
FailClosed ==
    /\ Settling("settle") /\ Runtime.state # "closed" /\ run.given = "conflict"
    /\ WriteTerminal(run.at, Key, "GAMMA_CLOB_CONFLICT_FAIL_CLOSED", FALSE, 0)
    /\ Went([Runtime EXCEPT !.state = "closed"], "settle")
    /\ UNCHANGED <<world, starts, row, polls, events>>
SettlementPnl == Payout(run.at, Runtime.quantity) - Runtime.cost
Settle ==
    /\ Settling("settle") /\ Runtime.state # "closed" /\ run.given = "resolved"
    /\ Write(run.at, Key, SettleEvent(Runtime, SettlementPnl))
    /\ run' = [run EXCEPT !.step = "settled"]
    /\ UNCHANGED <<world, starts, row, polls, terminal>>
CloseSettled ==
    /\ Settling("settled")
    /\ WriteTerminal(run.at, Key,
          IF Runtime.quantity = FullQuantity(run.at, Key) THEN "RESOLVED_HOLD" ELSE "RESOLVED_RESIDUAL",
          TRUE, Runtime.pnl + SettlementPnl)
    /\ Went(Closed(run.at, Key), "settle")
    /\ UNCHANGED <<world, starts, row, polls, events>>

ClosePosition ==
    /\ At("settle") /\ run.keys = <<>>
    /\ row' = [row EXCEPT ![run.at] = "PAPER_CLOSED"]
    /\ run' = [run EXCEPT !.step = "drop"]
    /\ UNCHANGED <<world, starts, polls, events, terminal>>
DropPosition ==
    /\ At("drop")
    /\ WriteAggregate(run.at)
    /\ run' = Idle(run.open \ {run.at}, run.seq)
    /\ UNCHANGED <<world, starts, row, polls, events>>

Die ==
    /\ run # Down /\ run' = Down
    /\ UNCHANGED <<world, starts, tables>>

\* What goes on outside: the G8 capture, and time.
Captured(p) ==
    /\ p \notin g8 /\ g8' = g8 \cup {p}
    /\ UNCHANGED <<clock, winner, starts, tables, run>>
Tick(w) ==
    /\ \/ clock[w] = "early" /\ clock' = [clock EXCEPT ![w] = "late"] /\ UNCHANGED winner
       \/ /\ clock[w] = "late" /\ clock' = [clock EXCEPT ![w] = "ended"]
          /\ winner' \in {o \in [Positions -> BOOLEAN] :
                             \A p \in Positions : WindowOf[p] # w => o[p] = winner[p]}
    /\ UNCHANGED <<g8, starts, tables, run>>

Init ==
    /\ g8 = {} /\ clock = [w \in Windows |-> "early"] 
    /\ winner = [p \in Positions |-> FALSE]
    /\ starts = 0
    /\ row = [p \in Positions |-> "none"]
    /\ polls = [p \in Positions |-> 0]
    /\ events = [p \in Positions |-> [k \in KeySet |-> {}]]
    /\ terminal = [p \in Positions |-> [k \in KeySet \cup {Staged} |-> NoRow]]
    /\ run = Down

Next ==
    \/ Start \/ Cycle \/ End \/ Die
    \/ Skip \/ Monitor \/ SellNothing \/ Sell \/ CloseFilled \/ PollDone
    \/ SkipClosed \/ FailClosed \/ Settle \/ CloseSettled \/ ClosePosition \/ DropPosition
    \/ \E p \in Positions : Admit(p) \/ Resolve(p) \/ Snapshot(p) \/ Captured(p)
    \/ \E w \in Windows : Tick(w)

Spec == Init /\ [][Next]_vars

(***************************************************************************)
(* Properties.                                                             *)
(***************************************************************************)
SoldOf(p, k)   == SumFunction([e \in OfType(p, k, "FILL") |-> e.leg.quantity])
CostOf(p, k)   == SumFunction([e \in OfType(p, k, "FILL") |-> e.leg.cost])
ProfitOf(p, k) == SumFunction([e \in OfType(p, k, "FILL") |-> e.leg.pnl])

(* No share and no cent is lost or sold twice: the profit of a terminal    *)
(* row is that of all the legs ever sold plus, at a resolution, what is    *)
(* left at its payout against the cost that is left, across any number of  *)
(* partial legs, deaths and resumed runs; the staged aggregate is the sum  *)
(* of its tranches.                                                        *)
LegsAddUp ==
    \A p \in Positions :
        /\ \A k \in KeySet :
              LET left == FullQuantity(p, k) - SoldOf(p, k)
                  costLeft == FullCost(p, k) - CostOf(p, k)
              IN /\ left >= 0 /\ costLeft >= 0
                 /\ left = 0 => costLeft = 0
                 /\ terminal[p][k].known =>
                      \/ /\ terminal[p][k].status \in {"RESOLVED_HOLD", "RESOLVED_RESIDUAL"}
                         /\ terminal[p][k].pnl = ProfitOf(p, k) + Payout(p, left) - costLeft
                      \/ terminal[p][k].pnl = ProfitOf(p, k) /\ left = 0
        /\ terminal[p][Staged].known =>
              terminal[p][Staged].pnl = SumFunction([k \in TrancheSet |-> terminal[p][k].pnl])
        /\ row[p] = "PAPER_CLOSED" => \A k \in KeySet : terminal[p][k] # NoRow

(* A sale never looks at the book of its own trigger, nor is a trigger     *)
(* used for two attempts: each attempt has a trigger of an earlier poll    *)
(* and no attempt between them, also when the run died at either.          *)
FillFollowsTrigger ==
    \A p \in Positions, k \in KeySet : \A e \in Attempts(p, k) :
        \E t \in OfType(p, k, "TRIGGER") :
            t.seq < e.seq /\ \A f \in Attempts(p, k) : f.seq < e.seq => f.seq < t.seq

(* A restart forgets nothing: whenever the run may die, what a resumed run *)
(* would make of the rows of a position is what this one has in memory.    *)
RestartForgetsNothing ==
    run # Down => \A p \in run.open, k \in KeySet :
        \/ run.mem[p][k].state = "closed" /\ terminal[p][k] # NoRow
        \/ run.mem[p][k] = Rehydrated(p, k)

(* Violated.  run() admits "one per correlated 15m window": a resumed run  *)
(* selects anew from a ledger that has grown, and leaves the position it   *)
(* had opened in the window to nobody.                                     *)
OnePerWindow ==
    \A p, q \in Positions :
        row[p] = "PAPER_OPEN" /\ row[q] = "PAPER_OPEN" /\ WindowOf[p] = WindowOf[q] => p = q

(* Violated.  The settlement that was recorded is the one that was booked: *)
(* a death between the two writes, and a sale before the next answer of    *)
(* the market, leave the old residual in the event.                        *)
SettledOnce ==
    \A p \in Positions, k \in KeySet : \A e \in OfType(p, k, "RESOLUTION_SETTLE") :
        terminal[p][k].known => e.quantity = FullQuantity(p, k) - SoldOf(p, k)

(* Violated.  An overlay that has sold everything is closed as filled: a   *)
(* death before its terminal row leaves it open with nothing, to be closed *)
(* at the resolution as a residual.                                        *)
FilledIsReported ==
    \A p \in Positions, k \in KeySet :
        terminal[p][k].status = "RESOLVED_RESIDUAL" => SoldOf(p, k) < FullQuantity(p, k)
=============================================================================
