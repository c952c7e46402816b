---------------------------- MODULE PositionExit ----------------------------
(***************************************************************************)
(* How a live position ends: the monitor, flatten and settlement paths of  *)
(* main_loop.py, sell_position() of execution/position_store.py, the       *)
(* startup reconcile, the late heal, and the rows of `positions` they      *)
(* write through db/logger.py.                                             *)
(*                                                                         *)
(* The main loop handles one position at a time, so a program counter and  *)
(* the position it works on are enough; between its steps the market may   *)
(* resolve and the process may die.  The wallet (shares held, cash         *)
(* received) is the truth; the memory and the row are what the program     *)
(* believes.                                                               *)
(***************************************************************************)
EXTENDS Integers

CONSTANTS Positions, NoPosition,
          Initial,     \* shares a position is opened with
          SellSizes,   \* sizes of a fill, besides everything that is held
          Prices,      \* price of a share in a sale
          Payouts,     \* price of a share a request finds in a closed market
          Whole        \* price of a winning share: 1.0

Null     == -1         \* NULL in a row, None in memory
AllPrices == Prices \cup Payouts \cup {0, Whole}
MaxPrice == CHOOSE x \in AllPrices : \A y \in AllPrices : y <= x

ASSUME ExitAssumption == /\ NoPosition \notin Positions
                         /\ Initial \in Nat \ {0}
                         /\ SellSizes \subseteq 1..Initial
                         /\ Prices \subseteq Nat \ {0}
                         /\ Payouts \subseteq Nat
                         /\ Whole \in Nat \ {0}

VARIABLES
    row,       \* positions: status, shares, usdc (partial_realized_usdc),
               \*   exit (pm_exit_price), recorded (realized_pnl + position_usd),
               \*   late (exit_reason is market_resolved_late)
    mem,       \* open_positions: listed, shares, usdc, closing (_closing)
    wallet,    \* at the exchange: shares held, cash received for sold ones
    resolved,  \* the positions whose market is closed
    pc, cur, path, deal,   \* the step of the loop and its locals
    todo,      \* positions startup_reconcile() has not looked at
    unbooked   \* history: positions with a sale the program did not record

loop == <<pc, cur, path, deal>>
vars == <<row, mem, wallet, resolved, loop, todo, unbooked>>

NoDeal   == [reply |-> "none", q |-> 0, px |-> 0]
Unlisted == [listed |-> FALSE, shares |-> 0, usdc |-> 0, closing |-> FALSE]
Commits(w) == w # "failed"
Returns(w) == w = "ok"
Outcomes   == {"ok", "failed", "unacknowledged"}

TypeOK ==
    /\ row \in [Positions -> [status : {"open", "closed"}, shares : 0..Initial,
                              usdc : Null..Initial * MaxPrice,
                              exit : AllPrices \cup {Null},
                              recorded : Null..Initial * MaxPrice, late : BOOLEAN]]
    /\ mem \in [Positions -> [listed : BOOLEAN, shares : 0..Initial,
                              usdc : Null..Initial * MaxPrice, closing : BOOLEAN]]
    /\ wallet \in [Positions -> [held : 0..Initial, cash : 0..Initial * MaxPrice]]
    /\ resolved \subseteq Positions
    /\ pc \in {"down", "reconcile", "idle", "selling", "sold", "logging", "closing"}
    /\ cur \in Positions \cup {NoPosition}
    /\ path \in {"none", "monitor", "flatten"}
    /\ deal \in [reply : {"none", "filled", "bare"}, q : 0..Initial, px : Prices \cup {0}]
    /\ todo \subseteq Positions
    /\ unbooked \subseteq Positions

(* Every position has just been opened: its row is committed, memory has   *)
(* the dict of the OPENED envelope, in which partial_* are absent and read *)
(* as zero, while the row has NULL there.                                  *)
Init ==
    /\ row = [p \in Positions |-> [status |-> "open", shares |-> Initial, usdc |-> Null,
                                   exit |-> Null, recorded |-> Null, late |-> FALSE]]
    /\ mem = [p \in Positions |-> [listed |-> TRUE, shares |-> Initial, usdc |-> 0,
                                   closing |-> FALSE]]
    /\ wallet = [p \in Positions |-> [held |-> Initial, cash |-> 0]]
    /\ resolved = {}
    /\ pc = "idle" /\ cur = NoPosition /\ path = "none" /\ deal = NoDeal
    /\ todo = {} /\ unbooked = {}

Amount(x) == IF x = Null THEN 0 ELSE x
Synced(p) == row[p].shares = mem[p].shares /\ Amount(row[p].usdc) = Amount(mem[p].usdc)

\* Mutant: any fill counts as a full close.
AnyFill(q, shares) == q > 0
(* 98 % of the shares make a full close; the rest is dust that nobody sells. *)
Full(q, shares) == 100 * q >= 98 * shares

\* Mutant: partial proceeds are forgotten.
RecordedLast(shares, usdc, px) == Initial * px
(* log_position_close(): proceeds of the partial sales plus the remaining  *)
(* shares at the exit price; without partials, the whole stake at it.      *)
Recorded(shares, usdc, px) ==
    IF Amount(usdc) > 0 THEN usdc + shares * px ELSE Initial * px

(* The row log_position_close() writes for the dict m closed at px. *)
Closed(r, m, px) ==
    [status |-> "closed", shares |-> r.shares, usdc |-> m.usdc, exit |-> px,
     recorded |-> IF px = Null THEN Null ELSE Recorded(m.shares, m.usdc, px),
     late |-> FALSE]

Continue == pc' = "idle" /\ cur' = NoPosition /\ path' = "none" /\ deal' = NoDeal
Sold == pc \in {"sold", "closing"} /\ deal.reply # "none"

(* The process ends, killed or by an exception main() does not catch: the  *)
(* sale in progress and the partial sales no row has are lost.             *)
Die == /\ pc' = "down" /\ cur' = NoPosition /\ path' = "none" /\ deal' = NoDeal
       /\ mem' = [p \in Positions |-> Unlisted]
       /\ todo' = {}
       /\ unbooked' = unbooked \cup {p \in Positions : mem[p].listed /\ ~Synced(p)}
                               \cup (IF Sold THEN {cur} ELSE {})

(***************************************************************************)
(* A sale: _monitor_positions() on an exit reason, _do_flatten() on        *)
(* /flatten.                                                               *)
(***************************************************************************)
StartSell(p, how) ==
    /\ pc = "idle" /\ mem[p].listed /\ ~mem[p].closing
    /\ mem' = [mem EXCEPT ![p].closing = TRUE]
    /\ pc' = "selling" /\ cur' = p /\ path' = how
    /\ UNCHANGED <<row, wallet, resolved, deal, todo, unbooked>>

(* create_and_post_order() of the FAK sale and what sell_position() makes  *)
(* of the answer.  "none" stands for a kill, an exception and an empty     *)
(* answer, whether or not shares were sold; "bare" for a match without     *)
(* amounts, taken for a sale of everything.                                *)
Answer(reply, q, px) ==
    /\ pc = "selling"
    /\ q <= wallet[cur].held /\ q <= mem[cur].shares
    /\ cur \in resolved => q = 0
    /\ reply # "none" => q > 0
    /\ wallet' = [wallet EXCEPT ![cur] = [held |-> @.held - q, cash |-> @.cash + q * px]]
    /\ deal' = CASE reply = "none"   -> NoDeal
                 [] reply = "filled" -> [reply |-> reply, q |-> q, px |-> px]
                 [] reply = "bare"   -> [reply |-> reply, q |-> mem[cur].shares, px |-> px]
    /\ unbooked' = IF reply # "filled" /\ q > 0 THEN unbooked \cup {cur} ELSE unbooked
    /\ pc' = "sold"
    /\ UNCHANGED <<row, mem, resolved, cur, path, todo>>

Unsold ==
    /\ pc = "sold" /\ deal.reply = "none"
    /\ mem' = [mem EXCEPT ![cur].closing = FALSE]
    /\ Continue
    /\ UNCHANGED <<row, wallet, resolved, todo, unbooked>>

(* _apply_partial_fill() on a dict that carries the partial_* amounts, or  *)
(* none of them as after an entry.  Only the monitor logs the result.      *)
PartialFill ==
    /\ pc = "sold" /\ deal.reply # "none" /\ ~Full(deal.q, mem[cur].shares)
    /\ mem[cur].usdc # Null
    /\ mem' = [mem EXCEPT ![cur] = [listed |-> TRUE, shares |-> @.shares - deal.q,
                                    usdc |-> @.usdc + deal.q * deal.px, closing |-> FALSE]]
    /\ \/ /\ path = "monitor"
          /\ pc' = "logging"
          /\ UNCHANGED <<cur, path, deal>>
       \/ path = "flatten" /\ Continue
    /\ UNCHANGED <<row, wallet, resolved, todo, unbooked>>

(* The same on a dict loaded from a row with NULL partial_*: None + float  *)
(* raises after the shares are reduced.  The monitor swallows it, flatten  *)
(* runs outside the try of main().                                         *)
PartialRaises ==
    /\ pc = "sold" /\ deal.reply # "none" /\ ~Full(deal.q, mem[cur].shares)
    /\ mem[cur].usdc = Null
    /\ \/ /\ path = "monitor"
          /\ mem' = [mem EXCEPT ![cur].shares = @ - deal.q, ![cur].closing = FALSE]
          /\ unbooked' = unbooked \cup {cur}
          /\ Continue
          /\ UNCHANGED todo
       \/ path = "flatten" /\ Die
    /\ UNCHANGED <<row, wallet, resolved>>

\* Mutant: the shares sold instead of the shares left.
LogSoldShares(w) ==
    /\ pc = "logging"
    /\ row' = IF Commits(w) /\ row[cur].status = "open"
              THEN [row EXCEPT ![cur].shares = deal.q, ![cur].usdc = mem[cur].usdc]
              ELSE row
    /\ Continue
    /\ UNCHANGED <<mem, wallet, resolved, todo, unbooked>>
(* log_partial_fill_update(); its exceptions are swallowed. *)
LogPartial(w) ==
    /\ pc = "logging"
    /\ row' = IF Commits(w) /\ row[cur].status = "open"
              THEN [row EXCEPT ![cur].shares = mem[cur].shares, ![cur].usdc = mem[cur].usdc]
              ELSE row
    /\ Continue
    /\ UNCHANGED <<mem, wallet, resolved, todo, unbooked>>

(* close_position() appends to a file, then the position leaves memory     *)
(* before the row is written.                                              *)
CloseSold ==
    /\ pc = "sold" /\ deal.reply # "none" /\ Full(deal.q, mem[cur].shares)
    /\ mem' = [mem EXCEPT ![cur].listed = FALSE]
    /\ pc' = "closing"
    /\ UNCHANGED <<row, wallet, resolved, cur, path, deal, todo, unbooked>>

(* close_position() raises: _closing stays set under the monitor. *)
CloseRaises ==
    /\ pc = "sold" /\ deal.reply # "none" /\ Full(deal.q, mem[cur].shares)
    /\ \/ path = "monitor" /\ unbooked' = unbooked \cup {cur} /\ Continue
          /\ UNCHANGED <<mem, todo>>
       \/ path = "flatten" /\ Die
    /\ UNCHANGED <<row, wallet, resolved>>

(* log_position_close(); its exceptions are swallowed on both paths. *)
LogClose(w) ==
    /\ pc = "closing"
    /\ row' = IF Commits(w) THEN [row EXCEPT ![cur] = Closed(@, mem[cur], deal.px)] ELSE row
    /\ unbooked' = IF Commits(w) THEN unbooked ELSE unbooked \cup {cur}
    /\ mem' = [mem EXCEPT ![cur] = Unlisted]
    /\ Continue
    /\ UNCHANGED <<wallet, resolved, todo>>

(***************************************************************************)
(* Settlement: the row is written first, and only a write that returns     *)
(* takes the position out of memory.                                       *)
(***************************************************************************)
CloseAt(p, px, w) ==
    /\ row' = IF Commits(w) THEN [row EXCEPT ![p] = Closed(@, mem[p], px)] ELSE row
    /\ mem' = IF Returns(w) THEN [mem EXCEPT ![p] = Unlisted] ELSE mem

(* The monitor finds no window and a closed market: the position is closed *)
(* at its outcomePrices, any numbers, which need not be the same next time.*)
MonitorSettle(p, px, w) ==
    /\ pc = "idle" /\ mem[p].listed /\ ~mem[p].closing /\ p \in resolved
    /\ CloseAt(p, px, w)
    /\ UNCHANGED <<wallet, resolved, loop, todo, unbooked>>

(* _handle_ws_resolved(): all or nothing by the name of the winning        *)
(* outcome, whatever a request says; it does not look at _closing.         *)
WsSettle(p, wins, w) ==
    /\ pc = "idle" /\ mem[p].listed /\ p \in resolved
    /\ CloseAt(p, IF wins THEN Whole ELSE 0, w)
    /\ UNCHANGED <<wallet, resolved, loop, todo, unbooked>>

(* _heal_pending_resolutions(): the whole stake at the late price. *)
Heal(p, px, w) ==
    /\ pc = "idle" /\ p \in resolved
    /\ row[p].status = "closed" /\ row[p].exit = Null
    /\ row' = IF Commits(w)
              THEN [row EXCEPT ![p].exit = px, ![p].late = TRUE,
                               ![p].recorded = Initial * px]
              ELSE row
    /\ UNCHANGED <<mem, wallet, resolved, loop, todo, unbooked>>

(***************************************************************************)
(* Restart: _load_open_positions(), then startup_reconcile().              *)
(***************************************************************************)
\* Mutant: the status of the row is not part of the query.
LoadEveryRow == Positions
OpenRows == {p \in Positions : row[p].status = "open"}

Restart ==
    /\ pc = "down"
    /\ mem' = [p \in Positions |->
                 IF p \in OpenRows
                 THEN [listed |-> TRUE, shares |-> row[p].shares,
                       usdc |-> row[p].usdc, closing |-> FALSE]
                 ELSE Unlisted]
    /\ todo' = OpenRows
    /\ pc' = IF OpenRows = {} THEN "idle" ELSE "reconcile"
    /\ UNCHANGED <<row, wallet, resolved, cur, path, deal, unbooked>>

Reconciled(p) ==
    /\ todo' = todo \ {p}
    /\ pc' = IF todo' = {} THEN "idle" ELSE pc
    /\ UNCHANGED <<wallet, resolved, cur, path, deal, unbooked>>

(* The market still has a window, or a request or a write raised. *)
ReconcileSkip(p) ==
    /\ pc = "reconcile" /\ p \in todo
    /\ Reconciled(p)
    /\ UNCHANGED <<row, mem>>

ReconcileResolved(p, px, w) ==
    /\ pc = "reconcile" /\ p \in todo /\ p \in resolved
    /\ CloseAt(p, px, w)
    /\ Reconciled(p)

(* Neither request had an answer: closed without an exit price. *)
ReconcileSilent(p, w) ==
    /\ pc = "reconcile" /\ p \in todo
    /\ CloseAt(p, Null, w)
    /\ Reconciled(p)

(***************************************************************************)
(* Around the process.                                                     *)
(***************************************************************************)
Resolve(p) ==
    /\ p \notin resolved
    /\ resolved' = resolved \cup {p}
    /\ UNCHANGED <<row, mem, wallet, loop, todo, unbooked>>

Crash ==
    /\ pc # "down"
    /\ Die
    /\ UNCHANGED <<row, wallet, resolved>>

Sizes == SellSizes \cup (IF cur \in Positions THEN {wallet[cur].held} ELSE {}) \cup {0}

Sale ==
    \/ \E p \in Positions, how \in {"monitor", "flatten"} : StartSell(p, how)
    \/ \E reply \in {"none", "filled", "bare"}, q \in Sizes, px \in Prices : Answer(reply, q, px)
    \/ Unsold
    \/ PartialFill
    \/ PartialRaises
    \/ \E w \in Outcomes : LogPartial(w)
    \/ CloseSold
    \/ CloseRaises
    \/ \E w \in Outcomes : LogClose(w)

Settlement ==
    \E p \in Positions, w \in Outcomes :
        \/ \E px \in Payouts : MonitorSettle(p, px, w) \/ Heal(p, px, w)
        \/ \E wins \in BOOLEAN : WsSettle(p, wins, w)

Startup ==
    \/ Restart
    \/ \E p \in Positions : ReconcileSkip(p)
    \/ \E p \in Positions, w \in Outcomes :
          ReconcileSilent(p, w) \/ \E px \in Payouts : ReconcileResolved(p, px, w)

Next ==
    \/ Sale
    \/ Settlement
    \/ Startup
    \/ \E p \in Positions : Resolve(p)
    \/ Crash

Spec == Init /\ [][Next]_vars

(***************************************************************************)
(* Properties.                                                             *)
(***************************************************************************)
(* Every position whose row is open is watched: between two steps of the   *)
(* loop memory has it and the double-sell guard lets it be sold again,     *)
(* unless a sale of it was not recorded.                                   *)
Watched ==
    pc = "idle" => \A p \in Positions :
        row[p].status = "open" /\ p \notin unbooked => mem[p].listed /\ ~mem[p].closing

(* What is still held is never more than memory and the open row say: a    *)
(* sale that failed to be written leads to asking for too much, never to   *)
(* shares nobody will ever sell.                                           *)
NothingOrphaned ==
    \A p \in Positions :
        /\ mem[p].listed => wallet[p].held <= mem[p].shares
        /\ row[p].status = "open" => wallet[p].held <= row[p].shares

(* A row closed with an exit price is of a position that is gone: settled, *)
(* or sold down to the 2 % the close tolerates.                            *)
ClosedMeansGone ==
    \A p \in Positions :
        row[p].status = "closed" /\ row[p].exit # Null /\ p \notin unbooked =>
            p \in resolved \/ 50 * wallet[p].held <= Initial

CashOf(p) == wallet[p].cash + row[p].exit * wallet[p].held

(* The profit a closed row records is the cash received plus the shares    *)
(* left at the exit price, over any sequence of partial sales, crashes and *)
(* restarts whose sales were recorded (the late heal: HealIsCumulative).   *)
BooksMatchCash ==
    \A p \in Positions :
        row[p].exit # Null /\ p \notin unbooked /\ ~row[p].late => row[p].recorded = CashOf(p)

(* A row closed with an exit price is never reopened and never loses its   *)
(* price, whatever the crashes and restarts.  The price itself can be      *)
(* written a second time, and be another one, since the stream and the     *)
(* requests price a resolution independently: but only by a settlement of  *)
(* a position memory kept because the write of the first price was not     *)
(* acknowledged.  Once memory has let go of it, the price is final.        *)
ClosedIsFinal ==
    [][\A p \in Positions : row[p].exit # Null =>
          /\ row'[p].status = "closed" /\ row'[p].exit # Null
          /\ row'[p].exit # row[p].exit => mem[p].listed /\ p \in resolved]_vars

(* Violated.  db/logger.py says that log_partial_fill_update() is called   *)
(* right after every partial fill, so that a restart does not lose it.     *)
PartialIsLogged ==
    [][\A p \in Positions :
          mem[p].listed /\ mem'[p].listed /\ mem'[p].shares < mem[p].shares
              => pc' = "logging"]_vars

(* Violated.  db/logger.py says that the profit of a position with partial *)
(* fills is cumulative; the heal writes it for the whole stake.            *)
HealIsCumulative ==
    \A p \in Positions : row[p].late /\ p \notin unbooked => row[p].recorded = CashOf(p)
=============================================================================
