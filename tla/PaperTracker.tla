---------------------------- MODULE PaperTracker ----------------------------
(***************************************************************************)
(* execution/paper_tracker.py: paper positions, opened for findings below  *)
(* the live threshold, followed by a monitor of their own and closed with  *)
(* a profit per exit model.                                                *)
(*                                                                         *)
(* _active is the only list the monitor looks at; the rows of              *)
(* shadow_positions are what the evaluation reads.  Every write has a      *)
(* timeout (it may commit all the same), and an exception is swallowed:    *)
(* the paper leaves _active whatever its row says.                         *)
(***************************************************************************)
EXTENDS Integers, FiniteSets

CONSTANTS Keys,          \* (slug, asset, action)
          Ids,           \* paper_id
          Models,        \* the exit models followed, of ModelNames
          Drawdowns,     \* returns of a quote, in percent of the entry price
          TpLevels,      \* TP_LEVELS
          MaxPapers,     \* MAX_PAPER_POSITIONS
          StaleLimit     \* STALE_LIMIT

ModelNames == {"current", "conservative", "balanced", "mfe_breakeven"}

ASSUME PaperAssumption ==
    /\ Models \subseteq ModelNames /\ Models # {}
    /\ Drawdowns \subseteq Int /\ TpLevels \subseteq Nat
    /\ MaxPapers \in Nat \ {0} /\ StaleLimit \in Nat \ {0}
    /\ Ids # {} /\ "none" \notin Ids

VARIABLES
    active,   \* _active: key -> what is held in memory
    row,      \* shadow_positions: mfe_peak and status, which here also tells
              \*   close_reason invalidated_api_contract from the monitor's
    profit,   \* shadow_model_pnl: lines of an id and a model
    tasks,    \* tp ladders being measured
    ladder,   \* tp_size_ladder: levels an id has lines of
    monitor,  \* the cycle: step, keys still to look at, key and exit at hand
    up,       \* the process runs
    stray     \* history: ids whose row a failed write or a death left open

vars == <<active, row, profit, tasks, ladder, monitor, up, stray>>
tables == <<row, profit, ladder>>

Ages == {"early", "late", "over"}   \* under MIN_HOLD_SECS, later, over MAX_TTL_SECS
Reasons == {"none", "market_resolved", "expired", "ttl_exceeded", "stale_price"}
NoPaper == [id |-> "none", status |-> "none"]
Peaks == {0} \cup Drawdowns
Held == [id : Ids, status : {"open", "closed"}, age : Ages, peak : Peaks, trough : Peaks,
         expired : BOOLEAN, stale : 0..StaleLimit, exits : SUBSET Models, hits : SUBSET TpLevels]
Idle == [step |-> "sleep", todo |-> {}, key |-> "none", reason |-> "none", left |-> {}]

TypeOK ==
    /\ active \in [Keys -> {NoPaper} \cup [id : Ids, status : {"reserving"}] \cup Held]
    /\ row \in [Ids -> [status : {"none", "open", "closed", "invalidated"}, peak : Peaks]]
    /\ profit \in [Ids -> [Models -> Nat]]
    /\ tasks \subseteq Ids \X TpLevels /\ ladder \subseteq Ids \X TpLevels
    /\ monitor \in [step : {"sleep", "look", "resolve", "close", "finalize"}, todo : SUBSET Keys,
                    key : Keys \cup {"none"}, reason : Reasons, left : SUBSET Models]
    /\ up \in BOOLEAN /\ stray \subseteq Ids
    /\ ~up => monitor = Idle /\ tasks = {} /\ active = [k \in Keys |-> NoPaper]

Init ==
    /\ active = [k \in Keys |-> NoPaper]
    /\ row = [i \in Ids |-> [status |-> "none", peak |-> 0]]
    /\ profit = [i \in Ids |-> [m \in Models |-> 0]]
    /\ tasks = {} /\ ladder = {} /\ stray = {}
    /\ monitor = Idle /\ up = TRUE

Outcomes == {"ok", "fail", "silent"}    \* silent: committed, yet it raised
Commits(o) == o # "fail"
Returns(o) == o = "ok"

InMemory == {k \in Keys : active[k] # NoPaper}
\* uuid4(): which of the unused ids does not matter.
FreshIds == {i \in Ids : row[i].status = "none" /\ \A k \in Keys : active[k].id # i}
Fresh == CHOOSE i \in FreshIds : TRUE

(***************************************************************************)
(* Opening.                                                                *)
(***************************************************************************)
(* schedule_paper_open(): no duplicate of a key, a bound, and the place is *)
(* taken before the worker is started.                                     *)
Schedule(k) ==
    /\ up /\ FreshIds # {}
    /\ k \notin InMemory /\ Cardinality(InMemory) < MaxPapers
    /\ active' = [active EXCEPT ![k] = [id |-> Fresh, status |-> "reserving"]]
    /\ UNCHANGED <<tables, tasks, monitor, up, stray>>

Opened(i) == [id |-> i, status |-> "open", age |-> "early", peak |-> 0, trough |-> 0,
              expired |-> FALSE, stale |-> 0, exits |-> {}, hits |-> {}]
Reserved(k) == up /\ active[k].status = "reserving"

(* _paper_open_worker() finds no price, or raises before its insert. *)
OpenFails(k) ==
    /\ Reserved(k)
    /\ active' = [active EXCEPT ![k] = NoPaper]
    /\ UNCHANGED <<tables, tasks, monitor, up, stray>>

\* Mutant: an insert that raised is ignored.
OpenAnyway(k, o) ==
    LET i == active[k].id IN
    /\ Reserved(k)
    /\ row' = IF Commits(o) THEN [row EXCEPT ![i].status = "open"] ELSE row
    /\ active' = [active EXCEPT ![k] = Opened(i)]
    /\ UNCHANGED <<profit, ladder, tasks, monitor, up, stray>>
(* It inserts the row and puts the open paper in place of the reservation. *)
Open(k, o) ==
    LET i == active[k].id IN
    /\ Reserved(k)
    /\ row' = IF Commits(o) THEN [row EXCEPT ![i].status = "open"] ELSE row
    /\ active' = [active EXCEPT ![k] = IF Returns(o) THEN Opened(i) ELSE NoPaper]
    /\ stray' = IF o = "silent" THEN stray \cup {i} ELSE stray
    /\ UNCHANGED <<profit, ladder, tasks, monitor, up>>

(***************************************************************************)
(* The exit models, with returns and the elapsed share of the market's     *)
(* life in percent.                                                        *)
(***************************************************************************)
_model_current(dd, frac) == 100 * dd <= -(2500 - 13 * frac)
_model_conservative(dd, against, elapsed) == elapsed >= 30 /\ (against \/ dd <= -35)
_model_balanced(dd, against, frac) == against \/ 100 * dd <= -4000 + 20 * frac
_mfe_breakeven_decide(dd, peak, trough, secs, elapsed) ==
    \/ trough < -45
    \/ elapsed >= 15 /\ secs >= 90 /\ dd <= IF peak >= 15 THEN -3 ELSE -35

(* A quote: the return it means, the drift of the asset against the        *)
(* action, and the seconds the market has left.                            *)
Quotes == [dd : Drawdowns, against : BOOLEAN, secs : {0, 60, 600}]
Elapsed(age) == CASE age = "early" -> 5 [] age = "late" -> 100 [] age = "over" -> 1900
Frac(q, age) == (100 * Elapsed(age)) \div (Elapsed(age) + IF q.secs > 1 THEN q.secs ELSE 1)

Exits(q, p) ==
    {m \in Models :
       CASE m = "current"      -> _model_current(q.dd, Frac(q, p.age))
         [] m = "conservative" -> _model_conservative(q.dd, q.against, Elapsed(p.age))
         [] m = "balanced"     -> _model_balanced(q.dd, q.against, Frac(q, p.age))
         [] m = "mfe_breakeven" -> _mfe_breakeven_decide(q.dd, p.peak, p.trough, q.secs, Elapsed(p.age))}

(* _stamp_mfe_mae_time() *)
Stamped(p, dd) == [p EXCEPT !.peak = IF dd > @ THEN dd ELSE @, !.trough = IF dd < @ THEN dd ELSE @]

\* Mutant: the return is used without its peak.
UpdatedUnstamped(p, q) ==
    [p EXCEPT !.stale = 0, !.expired = q.secs <= 0, !.exits = @ \cup Exits(q, p),
              !.hits = @ \cup {t \in TpLevels : q.dd >= t}]
(* update_paper_position() *)
Updated(p, q) ==
    LET s == Stamped(p, q.dd) IN
    [s EXCEPT !.stale = 0, !.expired = q.secs <= 0, !.exits = @ \cup Exits(q, s),
              !.hits = @ \cup {t \in TpLevels : q.dd >= t}]

Stale(p) == [p EXCEPT !.stale = IF @ < StaleLimit THEN @ + 1 ELSE @]

\* Mutant: without MAX_TTL_SECS.
ShouldCloseWithoutTtl(p) ==
    IF p.expired THEN "expired"
    ELSE IF p.stale >= StaleLimit THEN "stale_price" ELSE "none"
(* _should_close() *)
ShouldClose(p) ==
    IF p.expired THEN "expired"
    ELSE IF p.age = "over" THEN "ttl_exceeded"
    ELSE IF p.stale >= StaleLimit THEN "stale_price" ELSE "none"

(***************************************************************************)
(* _paper_monitor_cycle()                                                  *)
(***************************************************************************)
Cycle ==
    /\ up /\ monitor.step = "sleep"
    /\ monitor' = [Idle EXCEPT !.step = "look",
                      !.todo = {k \in Keys : active[k].status = "open"}]
    /\ UNCHANGED <<active, tables, tasks, up, stray>>

CycleDone ==
    /\ monitor.step = "look" /\ monitor.todo = {}
    /\ monitor' = Idle
    /\ UNCHANGED <<active, tables, tasks, up, stray>>

At(k) == monitor.step = "look" /\ k \in monitor.todo
NextKey == [monitor EXCEPT !.step = "look", !.key = "none", !.reason = "none", !.left = {}]
Go(k, step, reason) ==
    [monitor EXCEPT !.todo = @ \ {k}, !.step = IF reason = "none" THEN "look" ELSE step,
                    !.key = IF reason = "none" THEN "none" ELSE k, !.reason = reason]

(* Anything raises before the paper is updated: the next one is looked at. *)
LookRaises(k) ==
    /\ At(k)
    /\ monitor' = Go(k, "look", "none")
    /\ UNCHANGED <<active, tables, tasks, up, stray>>

(* The market is gone and resolved. *)
LookResolved(k) ==
    /\ At(k)
    /\ monitor' = Go(k, "close", "market_resolved")
    /\ UNCHANGED <<active, tables, tasks, up, stray>>

(* There is no market and no resolution, or a market without a bid. *)
LookNothing(k, market) ==
    LET p == Stale(active[k]) IN
    /\ At(k)
    /\ active' = [active EXCEPT ![k] = p]
    /\ monitor' = Go(k, IF market /\ p.expired THEN "resolve" ELSE "close", ShouldClose(p))
    /\ UNCHANGED <<tables, tasks, up, stray>>

(* A quote: peaks, models and ladders first, then the reasons to close. *)
LookQuote(k, q) ==
    LET p == Updated(active[k], q) IN
    /\ At(k)
    /\ active' = [active EXCEPT ![k] = p]
    /\ tasks' = tasks \cup {p.id} \X (p.hits \ active[k].hits)
    /\ monitor' = Go(k, IF p.expired THEN "resolve" ELSE "close", ShouldClose(p))
    /\ UNCHANGED <<tables, up, stray>>

(* An expired market is asked for its resolution; without one the bid is   *)
(* the exit price.                                                         *)
Resolution(raises) ==
    /\ monitor.step = "resolve"
    /\ monitor' = IF raises THEN NextKey ELSE [monitor EXCEPT !.step = "close"]
    /\ UNCHANGED <<active, tables, tasks, up, stray>>

\* Mutant: the profits are written whatever became of the row.
CloseFinalizes(o) ==
    LET k == monitor.key  p == active[k] IN
    /\ monitor.step = "close"
    /\ row' = IF Commits(o)
              THEN [row EXCEPT ![p.id] = [status |-> "closed", peak |-> p.peak]]
              ELSE row
    /\ active' = [active EXCEPT ![k].status = "closed"]
    /\ monitor' = [monitor EXCEPT !.step = "finalize", !.left = Models]
    /\ stray' = IF o = "fail" THEN stray \cup {p.id} ELSE stray
    /\ UNCHANGED <<profit, ladder, tasks, up>>
(* _close_and_finalize(): the row; when that raises, no profit is written  *)
(* and the paper is forgotten.                                             *)
Close(o) ==
    LET k == monitor.key  p == active[k] IN
    /\ monitor.step = "close"
    /\ row' = IF Commits(o)
              THEN [row EXCEPT ![p.id] = [status |-> "closed", peak |-> p.peak]]
              ELSE row
    /\ active' = [active EXCEPT ![k] = IF Returns(o) THEN [p EXCEPT !.status = "closed"] ELSE NoPaper]
    /\ monitor' = IF Returns(o) THEN [monitor EXCEPT !.step = "finalize", !.left = Models] ELSE NextKey
    /\ stray' = IF o = "fail" THEN stray \cup {p.id} ELSE stray
    /\ UNCHANGED <<profit, ladder, tasks, up>>

\* _record_model_pnl(): a plain INSERT.
ModelPnlOf(i, m) == [profit EXCEPT ![i][m] = @ + 1]
(* _finalize_models(): a line per model, each on its own. *)
Finalize(m, wrote) ==
    /\ monitor.step = "finalize" /\ m \in monitor.left
    /\ profit' = IF wrote THEN ModelPnlOf(active[monitor.key].id, m) ELSE profit
    /\ monitor' = [monitor EXCEPT !.left = @ \ {m}]
    /\ UNCHANGED <<active, row, ladder, tasks, up, stray>>

Forget ==
    /\ monitor.step = "finalize" /\ monitor.left = {}
    /\ active' = [active EXCEPT ![monitor.key] = NoPaper]
    /\ monitor' = NextKey
    /\ UNCHANGED <<tables, tasks, up, stray>>

\* _write_tp_ladder(): INSERT OR IGNORE.
LadderOf(t) == ladder \cup {t}
(* _measure_tp_ladder(), on its own, sooner or later or never. *)
Measure(t) ==
    /\ t \in tasks
    /\ tasks' = tasks \ {t} /\ ladder' = LadderOf(t)
    /\ UNCHANGED <<active, row, profit, monitor, up, stray>>

Age(k) ==
    /\ active[k].status = "open" /\ active[k].age # "over"
    /\ active' = [active EXCEPT ![k].age = IF @ = "early" THEN "late" ELSE "over"]
    /\ UNCHANGED <<tables, tasks, monitor, up, stray>>

(***************************************************************************)
(* Death and restart.                                                      *)
(***************************************************************************)
Crash ==
    /\ up /\ up' = FALSE
    /\ active' = [k \in Keys |-> NoPaper]
    /\ monitor' = Idle /\ tasks' = {}
    /\ stray' = stray \cup {i \in Ids : row[i].status = "open"}
    /\ UNCHANGED tables

(* main() calls invalidate_pre_patch_open_paper() and then                 *)
(* recover_orphan_open_paper(), which finds open rows only when the first  *)
(* one failed (it marks their times; the rows stay open).                  *)
Restart(done) ==
    /\ ~up /\ up' = TRUE
    /\ row' = IF done
              THEN [i \in Ids |-> IF row[i].status = "open"
                                  THEN [row[i] EXCEPT !.status = "invalidated"]
                                  ELSE row[i]]
              ELSE row
    /\ UNCHANGED <<active, profit, ladder, tasks, monitor, stray>>

Look ==
    \/ CycleDone
    \/ \E k \in Keys : LookResolved(k)
    \/ \E k \in Keys, market \in BOOLEAN : LookNothing(k, market)
    \/ \E k \in Keys, q \in Quotes : LookQuote(k, q)

Write ==
    \/ \E o \in Outcomes : Close(o)
    \/ \E m \in Models, wrote \in BOOLEAN : Finalize(m, wrote)
    \/ Forget

Next ==
    \/ \E k \in Keys : Schedule(k)
    \/ \E k \in Keys : OpenFails(k)
    \/ \E k \in Keys, o \in Outcomes : Open(k, o)
    \/ Cycle
    \/ Look
    \/ \E k \in Keys : LookRaises(k)
    \/ \E raises \in BOOLEAN : Resolution(raises)
    \/ Write
    \/ \E t \in tasks : Measure(t)
    \/ \E k \in Keys : Age(k)
    \/ Crash
    \/ \E done \in BOOLEAN : Restart(done)

(* The workers and the monitor have timeouts on every await and time goes  *)
(* on.  That requests do not raise for ever is an assumption.              *)
Fairness ==
    /\ WF_vars(Cycle) /\ WF_vars(Write) /\ WF_vars(CycleDone)
    /\ WF_vars(\E raises \in BOOLEAN : Resolution(raises)) /\ SF_vars(Resolution(FALSE))
    /\ \A k \in Keys :
          /\ WF_vars(OpenFails(k) \/ \E o \in Outcomes : Open(k, o))
          /\ WF_vars(Age(k))
          /\ SF_vars(LookResolved(k) \/ (\E market \in BOOLEAN : LookNothing(k, market))
                     \/ \E q \in Quotes : LookQuote(k, q))

Spec == Init /\ [][Next]_vars /\ Fairness

(***************************************************************************)
(* Properties.                                                             *)
(***************************************************************************)
(* No paper is followed twice; a paper that is followed has its open row;  *)
(* an open row without a paper is one a failed write or a death left       *)
(* behind, never one the monitor let go.                                   *)
MemoryMatchesRows ==
    /\ \A k, l \in InMemory : active[k].id = active[l].id => k = l
    /\ \A k \in Keys : active[k].status = "open" => row[active[k].id].status = "open"
    /\ \A i \in Ids : row[i].status = "open" /\ i \notin stray =>
           \E k \in Keys : active[k].id = i /\ active[k].status = "open"

(* A model's profit is written once, and only for a paper that the monitor *)
(* closed, never for one that is open or was invalidated.                  *)
ProfitOnce ==
    \A i \in Ids, m \in Models :
       /\ profit[i][m] <= 1
       /\ profit[i][m] = 1 => row[i].status = "closed"

(* A measured take-profit level was reached: it is below the mfe_peak that *)
(* the row of the paper was closed with, however late it is measured.      *)
LadderBacked ==
    \A t \in ladder \cup tasks :
       row[t[1]].status = "closed" => row[t[1]].peak >= t[2]

(* Every paper leaves the list, resolved or not. *)
PaperEnds == \A k \in Keys : k \in InMemory ~> k \notin InMemory

(* Violated.  invalidate_pre_patch_open_paper() is said to close the       *)
(* papers opened before the quote patch, and a restart to keep the others  *)
(* open with invalid times; every paper here is opened by the new code.    *)
OnlyPrePatchInvalidated == \A i \in Ids : row[i].status # "invalidated"
=============================================================================
