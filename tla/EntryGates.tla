----------------------------- MODULE EntryGates -----------------------------
(***************************************************************************)
(* When main() of main_loop.py starts a new order: the operator's flags    *)
(* (monitor/state.py, monitor/telegram_commands.py, kill_switch.py), the   *)
(* persisted risk state (monitor/risk_sync.py, risk_state.py), the session *)
(* counters (execution_stats.py) and their breakers (circuit_breaker.py).  *)
(*                                                                         *)
(* The loop and the telegram task share one event loop: a command runs at  *)
(* any await of an iteration, that is, between any two steps below.        *)
(* COUNCIL_DECISION_AUTHORITY_ENABLED and NEW_ENTRIES_ENABLED are assumed  *)
(* on: with either off no order is ever started.                           *)
(***************************************************************************)
EXTENDS Integers

CONSTANTS MaxOpen,          \* MAX_OPEN_POSITIONS
          MaxTrades,        \* MAX_TRADES_FIRST_SESSION
          NoFillLimit,      \* NO_FILL_BURST_LIMIT
          MinSubmissions,   \* FILL_TO_SUBMIT_MIN_SUBMISSIONS
          FloorInverse,     \* 1 / FILL_TO_SUBMIT_FLOOR_RATIO
          LossInverse,      \* 1 / DAILY_LOSS_LIMIT
          BustInverse,      \* 1 / BUST_PROTECTION_PCT
          StreakLimit,      \* STREAK_WARN_COUNT
          Equities,         \* what get_effective_bankroll() may answer
          Results,          \* profits of a closed position
          Findings,         \* bound: findings of one scan
          MaxDay,           \* bound: midnights
          MaxSum,           \* bound: absolute profit of a day
          MaxHidden         \* bound: rows hidden from open_positions

ASSUME GatesAssumption ==
    /\ MaxOpen \in Nat \ {0} /\ MaxTrades \in Nat \ {0} /\ NoFillLimit \in Nat \ {0}
    /\ MinSubmissions \in Nat \ {0} /\ FloorInverse \in Nat \ {0}
    /\ LossInverse \in Nat \ {0} /\ BustInverse \in Nat \ {0} /\ StreakLimit \in Nat \ {0}
    /\ Equities \subseteq Nat \ {0}
    /\ Findings \in Nat /\ MaxDay \in Nat /\ MaxSum \in Nat /\ MaxHidden \in Nat
    /\ Results \subseteq Int

VARIABLES
    pc,        \* the await the loop is at
    left,      \* findings of the scan not yet considered
    flags,     \* monitor.state: soft, flatten, shutdown
    kill,      \* logs/KILL exists
    day,       \* the UTC day
    row,       \* the risk_state row, or NoRow
    stats,     \* opened (trade_count), submitted, noFill of this process
    open,      \* len(open_positions)
    hidden,    \* open rows memory does not have
    today,     \* sum of realized_pnl over closed_today
    booked,    \* sum of realized_pnl over the rows closed today
    late,      \* where a row closed without a price is waiting for the heal
    underPause, \* history: a pause was in force when the scan began
    recovered  \* history: rows a recovery hid from open_positions

memory == <<left, flags, stats, open, today, underPause>>
risk   == <<day, row>>
books   == <<hidden, booked, late, recovered>>
vars   == <<pc, memory, kill, risk, books>>

Sums   == -MaxSum..MaxSum

(***************************************************************************)
(* monitor/risk_state.py: blockers and the mode they reduce to.            *)
(***************************************************************************)
Blocker == {"kill_switch", "manual_review", "halted", "daily_loss", "cooldown"}
BlockerMode(b) ==
    CASE b = "kill_switch"                -> "Kill-Switch"
      [] b \in {"manual_review", "halted"} -> "Halted"
      [] b = "daily_loss"                 -> "Exit-Only"
      [] b = "cooldown"                   -> "Cooldown"
Modes == {"Operational", "Cooldown", "Exit-Only", "Halted", "Kill-Switch"}
ModePriority(m) ==
    CASE m = "Kill-Switch" -> 4
      [] m = "Halted"      -> 3
      [] m = "Exit-Only"   -> 2
      [] m = "Cooldown"    -> 1
      [] m = "Operational" -> 0
reduce_risk_mode(bs) ==
    CHOOSE m \in Modes :
        /\ m \in {BlockerMode(b) : b \in bs} \cup {"Operational"}
        /\ \A b \in bs : ModePriority(BlockerMode(b)) <= ModePriority(m)

\* Without a row that can be read the mode is Halted.
NoRow == [day |-> 0, equity |-> 0, pnl |-> 0, blockers |-> {}, mode |-> "Halted"]
RiskState(d, equity, pnl, bs) ==
    [day |-> d, equity |-> equity, pnl |-> pnl, blockers |-> bs, mode |-> reduce_risk_mode(bs)]
(* What _validate() demands of a row that is saved or loaded. *)
Valid(r) == r.blockers \subseteq Blocker /\ r.mode = reduce_risk_mode(r.blockers)
(* The first row, of the operator's day-zero bootstrap. *)
DayZero(equity) == RiskState(day, equity, 0, {})
(* A new day begins with the bankroll of its first sync. *)
rollover_risk_state_if_new_day(r, equity) ==
    IF day > r.day THEN RiskState(day, equity, 0, r.blockers \ {"daily_loss"}) ELSE r

TypeOK ==
    /\ pc \in {"down", "reconcile", "top", "flatten", "monitor", "paused?", "bankroll",
               "scan", "council", "execute", "heal"}
    /\ left \in 0..Findings
    /\ flags \in [soft : BOOLEAN, flatten : BOOLEAN, shutdown : BOOLEAN]
    /\ kill \in BOOLEAN
    /\ day \in 0..MaxDay
    /\ row = NoRow \/ (Valid(row) /\ row.day \in 0..day /\ row.equity \in Equities /\ row.pnl \in Sums)
    /\ stats \in [opened : Nat, submitted : Nat, noFill : Nat]
    /\ open \in 0..MaxOpen + MaxHidden /\ hidden \in 0..MaxOpen + MaxHidden
    /\ today \in Sums /\ booked \in Sums
    /\ late \in {"none", "row", "both", "dict"}
    /\ underPause \in BOOLEAN /\ recovered \in 0..MaxHidden

NoFlags == [soft |-> FALSE, flatten |-> FALSE, shutdown |-> FALSE]
NoStats == [opened |-> 0, submitted |-> 0, noFill |-> 0]

(* A first start, before or after the operator's day-zero bootstrap of the *)
(* risk row.                                                               *)
Init ==
    /\ pc = "top" /\ left = 0
    /\ flags = NoFlags /\ kill = FALSE
    /\ day = 0 /\ row \in {NoRow} \cup {DayZero(e) : e \in Equities}
    /\ stats = NoStats /\ open = 0 /\ hidden = 0
    /\ today = 0 /\ booked = 0 /\ late = "none" /\ underPause = FALSE
    /\ recovered = 0

(***************************************************************************)
(* The pure breakers.                                                      *)
(***************************************************************************)
daily_loss_halt(equity, pnl) == -pnl * LossInverse >= equity
max_trades_first_session_halt(n) == n >= MaxTrades
no_fill_burst_halt(n) == n >= NoFillLimit
fill_to_submit_halt(opened, submitted) ==
    submitted >= MinSubmissions /\ opened * FloorInverse < submitted
(* What a closed trade does to the streak of losses, and which pause it    *)
(* sets.                                                                   *)
on_trade_closed(streak, pnl, bankroll, starting) ==
    LET losses == streak + 1
    IN IF pnl >= 0 THEN [streak |-> 0, pause |-> "none"]
       ELSE IF bankroll * BustInverse < starting THEN [streak |-> streak, pause |-> "hard"]
       ELSE [streak |-> losses, pause |-> IF losses >= StreakLimit THEN "soft" ELSE "none"]

\* Mutant: the flags of the pause are not passed.
BlockersWithoutPause(lossy, soft, killed) ==
    {b \in Blocker : \/ b = "kill_switch" /\ killed
                     \/ b = "daily_loss" /\ lossy}
(* build_active_blockers() of the signals main() passes.  "halted" needs   *)
(* HARD_PAUSED, which only the circuit breaker sets and never does (see    *)
(* BreakerHears); manual review is never passed.                           *)
build_active_blockers(lossy, soft, killed) ==
    {b \in Blocker : \/ b = "kill_switch" /\ killed
                     \/ b = "daily_loss" /\ lossy
                     \/ b = "cooldown" /\ soft}

\* Mutant: the loss is compared with the bankroll of the moment.
SyncedUnlocked(equity) ==
    LET base == rollover_risk_state_if_new_day(row, equity)
    IN RiskState(day, base.equity, today,
                 build_active_blockers(daily_loss_halt(equity, today), flags.soft, kill))
(* sync_risk_state_from_runtime_signals(): the row is rolled over to a new *)
(* day, its blockers are the signals', whatever blockers it had, and the   *)
(* equity the loss is compared with is that of the day's first sync.  A    *)
(* row that is the same is not written again.                              *)
Synced(equity) ==
    LET base == rollover_risk_state_if_new_day(row, equity)
    IN RiskState(day, base.equity, today,
                 build_active_blockers(daily_loss_halt(base.equity, today), flags.soft, kill))

\* save_risk_state(): an UPSERT of the one row, in a transaction of its own.
save_risk_state(r) == row' = r
\* _sync_runtime_risk_state(); without a row it raises.
_sync_runtime_risk_state(equity) ==
    IF row = NoRow THEN UNCHANGED row ELSE save_risk_state(Synced(equity))

(* _effective_risk_mode(): a row that cannot be read counts as Halted. *)
effective_risk_mode(readable) == IF readable /\ Valid(row) THEN row.mode ELSE "Halted"
Operational(readable) == effective_risk_mode(readable) = "Operational"

(***************************************************************************)
(* One iteration of main().                                                *)
(***************************************************************************)
Down ==
    /\ pc' = "down" /\ left' = 0 /\ flags' = NoFlags /\ stats' = NoStats
    /\ today' = 0 /\ underPause' = FALSE

(* The process ends: open positions remain as rows. *)
Stops ==
    /\ Down
    /\ open' = 0 /\ hidden' = hidden + open

Step(from, to) == pc = from /\ pc' = to

should_stop_for_shutdown == flags.shutdown
ToldToStop == kill \/ should_stop_for_shutdown

Stop ==
    /\ pc = "top" /\ ToldToStop
    /\ Stops
    /\ UNCHANGED <<kill, risk, booked, late, recovered>>

\* Mutant: the request is not taken down.
StartUncleared ==
    /\ pc = "top" /\ ~ToldToStop
    /\ pc' = IF flags.flatten THEN "flatten" ELSE "monitor"
    /\ UNCHANGED <<memory, kill, risk, books>>
Start ==
    /\ pc = "top" /\ ~ToldToStop
    /\ pc' = IF flags.flatten THEN "flatten" ELSE "monitor"
    /\ flags' = [flags EXCEPT !.flatten = FALSE]
    /\ UNCHANGED <<left, kill, stats, open, today, underPause, risk, books>>

(* A position is closed by flatten, by the monitor or by a ws resolution.  *)
(* close_position() puts no realized_pnl in the dict that closed_today     *)
(* gets: the profit reaches the row only.                                  *)
Close(r) ==
    /\ pc \in {"flatten", "monitor"} /\ open > 0
    /\ booked + r \in Sums
    /\ open' = open - 1 /\ booked' = booked + r
    /\ UNCHANGED <<pc, left, flags, kill, stats, today, underPause, risk, hidden, late, recovered>>

Flattened ==
    /\ Step("flatten", "monitor")
    /\ UNCHANGED <<memory, kill, risk, books>>

(* on_trade_closed() of each closed dict: without realized_pnl it is       *)
(* called with 0, so the streak stays 0 and no pause is ever set.          *)
BreakerHears(bankroll, starting) ==
    /\ Step("monitor", "paused?")
    /\ LET heard == on_trade_closed(0, 0, bankroll, starting)
       IN flags' = [flags EXCEPT !.soft = @ \/ heard.pause # "none"]
    /\ UNCHANGED <<left, stats, open, today, underPause, kill, risk, books>>

(* is_paused() ends the iteration, and so does the websocket path. *)
PauseCheck ==
    /\ pc = "paused?"
    /\ pc' \in IF flags.soft THEN {"top"} ELSE {"top", "bankroll"}
    /\ UNCHANGED <<memory, kill, risk, books>>

(* scan_edges() may find any number (bound: Findings). *)
ScanFindings == 0..Findings

(* After the await of the bankroll: no row, no scan. *)
SyncRiskState(equity) ==
    /\ pc = "bankroll"
    /\ underPause' = flags.soft
    /\ _sync_runtime_risk_state(equity)
    /\ IF row = NoRow \/ open >= MaxOpen
       THEN pc' = "heal" /\ UNCHANGED left
       ELSE pc' = "scan" /\ left' \in ScanFindings
    /\ UNCHANGED <<flags, kill, day, stats, open, today, books>>

\* Mutant: the cap is checked once per scan.
ConsiderOverCap ==
    /\ pc = "scan" /\ left > 0
    /\ left' = left - 1
    /\ pc' \in {"scan", "council"}
    /\ UNCHANGED <<flags, kill, stats, open, today, underPause, risk, books>>
(* The next finding goes to the council, unless it is open or failed. *)
Consider ==
    /\ pc = "scan" /\ left > 0 /\ open < MaxOpen
    /\ left' = left - 1
    /\ pc' \in {"scan", "council"}
    /\ UNCHANGED <<flags, kill, stats, open, today, underPause, risk, books>>

ScanDone ==
    /\ pc = "scan" /\ (left = 0 \/ open >= MaxOpen)
    /\ pc' = "heal"
    /\ UNCHANGED <<memory, kill, risk, books>>

Open(readable) ==
    /\ Operational(readable)
    /\ ~max_trades_first_session_halt(stats.opened)
    /\ ~no_fill_burst_halt(stats.noFill)
    /\ ~fill_to_submit_halt(stats.opened, stats.submitted)

(* The gates after the council; is_paused() is not among them. *)
Gate(readable) ==
    /\ pc = "council"
    /\ pc' = IF Open(readable) THEN "execute" ELSE "scan"
    /\ UNCHANGED <<memory, kill, risk, books>>

CouncilRejects ==
    /\ Step("council", "scan")
    /\ UNCHANGED <<memory, kill, risk, books>>

Hides == \/ UNCHANGED <<hidden, recovered>>
         \/ /\ recovered < MaxHidden
            /\ hidden' = hidden + 1 /\ recovered' = recovered + 1
increment_session_submit_count(s) == [s EXCEPT !.submitted = @ + 1]
increment_session_trade_count(s) == [s EXCEPT !.opened = @ + 1]
increment_no_fill_streak(s) == [s EXCEPT !.noFill = @ + 1]
reset_no_fill_streak(s) == [s EXCEPT !.noFill = 0]
Submitted == increment_session_submit_count(stats)
(* OPENED, or the flat dict of the dry path. *)
Opened ==
    /\ Step("execute", "scan")
    /\ open' = open + 1
    /\ stats' = reset_no_fill_streak(increment_session_trade_count(Submitted))
    /\ UNCHANGED <<left, flags, kill, today, underPause, risk, books>>

(* None or RECOVERY_REQUIRED.  A recovery may leave a committed row that   *)
(* memory does not have (bound: MaxHidden).                                *)
NotOpened ==
    /\ Step("execute", "scan")
    /\ stats' = increment_no_fill_streak(Submitted)
    /\ Hides
    /\ UNCHANGED <<left, flags, kill, open, today, underPause, risk, booked, late>>

Duplicate ==
    /\ Step("execute", "scan")
    /\ stats' = Submitted
    /\ UNCHANGED <<left, flags, kill, open, today, underPause, risk, books>>

(* patch_position_resolution() and the dict of closed_today, when there is *)
(* a row without a price and an answer for it.                             *)
Heal(r) ==
    /\ Step("heal", "top")
    /\ late # "none"
    /\ booked + r \in Sums /\ today + r \in Sums
    /\ booked' = IF late \in {"row", "both"} THEN booked + r ELSE booked
    /\ today'  = IF late \in {"dict", "both"} THEN today + r ELSE today
    /\ late' = "none"
    /\ UNCHANGED <<left, flags, kill, stats, open, underPause, risk, hidden, recovered>>

NothingToHeal ==
    /\ Step("heal", "top")
    /\ UNCHANGED <<memory, kill, risk, books>>

(* An exception ends the iteration, not the loop.  After an order it is of *)
(* log_position_open(), which may have committed its row.                  *)
HandleLoopError ==
    /\ pc \in {"monitor", "bankroll", "scan", "council", "execute", "heal"}
    /\ pc' = "top" /\ left' = 0
    /\ \/ UNCHANGED <<stats, hidden, recovered>>
       \/ pc = "execute" /\ stats' = Submitted /\ Hides
    /\ UNCHANGED <<flags, kill, open, today, underPause, risk, booked, late>>

(***************************************************************************)
(* Restart: _load_open_positions(), load_closed_today(), then              *)
(* startup_reconcile(), whose closes do not reach closed_today.            *)
(***************************************************************************)
Restart ==
    /\ Step("down", "reconcile")
    /\ open' = hidden /\ hidden' = 0
    /\ today' = booked
    /\ late' = IF late \in {"row", "both"} THEN "both" ELSE "none"
    /\ UNCHANGED <<left, flags, kill, stats, underPause, risk, booked, recovered>>

ReconcileClose(r) ==
    /\ pc = "reconcile" /\ open > 0
    /\ booked + r \in Sums
    /\ open' = open - 1 /\ booked' = booked + r
    /\ UNCHANGED <<pc, left, flags, kill, stats, today, underPause, risk, hidden, late, recovered>>

(* Closed without a price (bound: one such row at a time). *)
ReconcileExpire ==
    /\ pc = "reconcile" /\ open > 0 /\ late = "none"
    /\ open' = open - 1 /\ late' = "row"
    /\ UNCHANGED <<pc, left, flags, kill, stats, today, underPause, risk, hidden, booked, recovered>>

Reconciled ==
    /\ Step("reconcile", "top")
    /\ UNCHANGED <<memory, kill, risk, books>>

(***************************************************************************)
(* handle_command(), run by the telegram task while main() awaits, and the *)
(* other things that happen meanwhile.                                     *)
(***************************************************************************)
Command(f, k) ==
    /\ pc # "down"
    /\ flags' = f /\ kill' = k
    /\ UNCHANGED <<pc, left, stats, open, today, underPause, risk, books>>

Pause == Command([flags EXCEPT !.soft = TRUE], kill)
\* /devam and /baslat also disarm the kill switch.
Resume == Command([flags EXCEPT !.soft = FALSE], FALSE)
RequestFlatten == Command([flags EXCEPT !.soft = TRUE, !.flatten = TRUE], kill)
HardKill == Command(flags, TRUE)
Signal == Command([flags EXCEPT !.shutdown = TRUE], kill)

(* The operator removes logs/KILL before a restart, or bootstraps the row. *)
Disarm ==
    /\ pc = "down" /\ kill
    /\ kill' = FALSE
    /\ UNCHANGED <<pc, memory, risk, books>>

Bootstrap(equity) ==
    /\ row = NoRow
    /\ save_risk_state(DayZero(equity))
    /\ UNCHANGED <<pc, memory, kill, day, books>>

(* UTC midnight: closed_today keeps yesterday's closes. *)
Midnight ==
    /\ day < MaxDay /\ day' = day + 1
    /\ booked' = 0
    /\ late' = CASE late = "row" -> "none" [] late = "both" -> "dict" [] OTHER -> late
    /\ UNCHANGED <<pc, memory, kill, row, hidden, recovered>>

Crash ==
    /\ pc # "down"
    /\ Stops
    /\ UNCHANGED <<kill, risk, booked, late, recovered>>

Loop ==
    \/ Reconciled
    \/ Stop
    \/ Start
    \/ Flattened
    \/ \E bankroll, starting \in Equities : BreakerHears(bankroll, starting)
    \/ PauseCheck
    \/ \E equity \in Equities : SyncRiskState(equity)
    \/ Consider
    \/ ScanDone
    \/ \E readable \in BOOLEAN : Gate(readable)
    \/ CouncilRejects
    \/ Opened
    \/ NotOpened
    \/ Duplicate
    \/ \E r \in Results : Heal(r)
    \/ NothingToHeal
    \/ HandleLoopError

Operator ==
    \/ Pause
    \/ Resume
    \/ RequestFlatten
    \/ HardKill
    \/ Signal
    \/ Disarm
    \/ \E equity \in Equities : Bootstrap(equity)

Startup ==
    \/ Restart
    \/ \E r \in Results : ReconcileClose(r)
    \/ ReconcileExpire

Next ==
    \/ Loop
    \/ \E r \in Results : Close(r)
    \/ Operator
    \/ Startup
    \/ Midnight
    \/ Crash

(* Every await of an iteration has a timeout, so the loop goes on; nobody  *)
(* is obliged to restart the process or to send a command.                 *)
Spec == Init /\ [][Next]_vars /\ WF_vars(Loop)

(***************************************************************************)
(* Properties.                                                             *)
(***************************************************************************)
StartsOrder == pc = "council" /\ pc' = "execute"

(* The open rows exceed MAX_OPEN_POSITIONS by no more than the rows a      *)
(* recovery hid from open_positions, across restarts.                      *)
CapHolds == open + hidden <= MaxOpen + recovered

(* The session counters stay within their limits and consistent, so that   *)
(* fill_to_submit_halt() never raises for opened > submitted.              *)
CountersHold ==
    /\ stats.opened <= MaxTrades
    /\ stats.noFill <= NoFillLimit
    /\ stats.opened + stats.noFill <= stats.submitted

(* No order is started while the losses of closed_today reach their limit, *)
(* a share of the equity the day began with, although they were read       *)
(* several awaits before.                                                  *)
KnownLossStops == [][StartsOrder => ~daily_loss_halt(row.equity, today)]_vars

(* A scan that begins under a pause starts no order, although is_paused()  *)
(* was asked before the await of the bankroll: the pause is in the row.    *)
PauseReachesScan == [][StartsOrder => ~underPause]_vars

(* A flatten request is taken up (or the process ends). *)
FlattenServed == flags.flatten ~> ~flags.flatten

(* A kill switch that stays armed ends the process. *)
KillServed == []<>(pc = "down" \/ ~kill)

(* Violated.  The reply to /pause says that no new trade is opened.        *)
PauseStopsEntries == [][StartsOrder => ~flags.soft]_vars

(* Violated.  DAILY_LOSS_LIMIT is the limit of the day's net realized      *)
(* loss, at which new entries stop.                                        *)
DailyLossStops == [][StartsOrder => ~daily_loss_halt(row.equity, booked)]_vars
=============================================================================
