------------------------ MODULE PaperTracker_proofs ------------------------
(***************************************************************************)
(* Proofs about PaperTracker, for any keys, ids, quotes and bounds.        *)
(*                                                                         *)
(* The argument.  An id goes from unused to reserved to an open row, and   *)
(* from there once to closed or invalidated; the monitor holds at most one *)
(* paper, which no other key shares an id with (`MonitorInv`, `IdsInv`).   *)
(* Profits wait for the row to be closed and each model is taken from the  *)
(* list once (`ProfitInv`); a level that is measured was reached by the    *)
(* peak of the open paper, which only rises until the row takes it over    *)
(* (`LadderInv`).                                                          *)
(***************************************************************************)
EXTENDS PaperTracker, TLAPS

\* What the monitor has at hand is open, or closed and about to be forgotten.
MonitorInv ==
    /\ \A k \in monitor.todo : active[k].status = "open"
    /\ monitor.step \in {"resolve", "close"} =>
          monitor.key \in Keys /\ active[monitor.key].status = "open"
    /\ monitor.step = "finalize" => monitor.key \in Keys /\ active[monitor.key].status = "closed"
    /\ monitor.step # "look" => monitor.step = "sleep" \/ monitor.key \notin monitor.todo
    /\ \A k \in Keys : active[k].status = "closed" => monitor.step = "finalize" /\ monitor.key = k

\* A reserved id has no row yet, a paper that is closed in memory has a closed one.
IdsInv ==
    \A k \in Keys : /\ active[k].status = "reserving" => row[active[k].id].status = "none"
                    /\ active[k].status = "closed" => row[active[k].id].status = "closed"

\* A profit that is still to be written has not been written.
ProfitInv ==
    /\ ProfitOnce
    /\ monitor.step = "finalize" =>
          \A m \in monitor.left : profit[active[monitor.key].id][m] = 0

\* A level belongs to a paper that was opened, and its peak has reached it.
LadderInv ==
    /\ LadderBacked
    /\ \A t \in ladder \cup tasks :
          /\ row[t[1]].status # "none"
          /\ \A k \in Keys : active[k].id = t[1] /\ active[k].status = "open" => active[k].peak >= t[2]

IInv == TypeOK /\ MonitorInv /\ IdsInv /\ MemoryMatchesRows /\ ProfitInv /\ LadderInv

----------------------------------------------------------------------------
(* What a key can hold. *)
LEMMA KindsOfPaper ==
    ASSUME TypeOK, NEW k \in Keys
    PROVE  /\ \/ active[k] = NoPaper /\ active[k].status = "none" /\ active[k].id = "none"
              \/ active[k].status = "reserving" /\ active[k].id \in Ids
                 /\ active[k] = [id |-> active[k].id, status |-> "reserving"]
              \/ active[k] \in Held /\ active[k].id \in Ids /\ active[k].status \in {"open", "closed"}
           /\ active[k].status \in {"open", "closed"} => active[k] \in Held
           /\ k \in InMemory <=> active[k].status # "none"
           /\ active[k].id \in Ids <=> k \in InMemory
<1>1. active[k] \in {NoPaper} \cup [id : Ids, status : {"reserving"}] \cup Held
  BY DEF TypeOK
<1>2. CASE active[k] = NoPaper
  <2>1. active[k].status = "none" /\ active[k].id = "none" /\ "none" \notin Ids
    BY <1>2, PaperAssumption DEF NoPaper
  <2> QED
    BY <1>2, <2>1 DEF InMemory
<1>3. CASE active[k] \in [id : Ids, status : {"reserving"}]
  BY <1>3 DEF NoPaper, InMemory
<1>4. CASE active[k] \in Held
  <2>1. active[k].id \in Ids /\ active[k].status \in {"open", "closed"}
    BY <1>4 DEF Held
  <2>2. active[k] # NoPaper
    BY <2>1 DEF NoPaper
  <2> QED
    BY <1>4, <2>1, <2>2 DEF InMemory
<1> QED
  BY <1>1, <1>2, <1>3, <1>4

(* A paper that a look finds without a price is the same paper.            *)
LEMMA StaleIsThePaper ==
    ASSUME NEW p \in Held
    PROVE  /\ Stale(p) \in Held /\ Stale(p).id = p.id /\ Stale(p).status = p.status
           /\ Stale(p).peak = p.peak /\ p.peak \in Int
<1>1. p.stale \in 0..StaleLimit /\ p.peak \in Peaks
  BY DEF Held
<1>2. (IF p.stale < StaleLimit THEN p.stale + 1 ELSE p.stale) \in 0..StaleLimit
  BY <1>1, PaperAssumption
<1>3. \A x \in Peaks : x \in Int
  BY PaperAssumption DEF Peaks
<1> QED
  BY <1>1, <1>2, <1>3 DEF Stale, Held

(* One that a quote updates too; its peak only rises, and has reached the  *)
(* levels it newly hit.                                                    *)
LEMMA UpdatedIsThePaper ==
    ASSUME NEW p \in Held, NEW q \in Quotes
    PROVE  /\ Updated(p, q) \in Held /\ Updated(p, q).id = p.id /\ Updated(p, q).status = p.status
           /\ Updated(p, q).peak >= p.peak
           /\ \A t \in Updated(p, q).hits \ p.hits : t \in TpLevels /\ Updated(p, q).peak >= t
<1>1. /\ p.peak \in Peaks /\ p.trough \in Peaks
      /\ p.hits \subseteq TpLevels /\ p.exits \subseteq Models
  BY DEF Held
<1>2. q.dd \in Peaks /\ (q.secs <= 0) \in BOOLEAN
  BY DEF Quotes, Peaks
<1>3. p.peak \in Int /\ q.dd \in Int
  <2>1. \A x \in Peaks : x \in Int
    BY PaperAssumption DEF Peaks
  <2> QED
    BY <1>1, <1>2, <2>1
<1> DEFINE s == Stamped(p, q.dd)
<1>5. s \in Held /\ s.id = p.id /\ s.status = p.status /\ s.hits = p.hits
  BY <1>1, <1>2 DEF Stamped, Held
<1>6. s.peak = IF q.dd > p.peak THEN q.dd ELSE p.peak
  BY DEF Stamped, Held
<1>7. s.peak \in Int /\ s.peak >= p.peak /\ s.peak >= q.dd
  BY <1>3, <1>6
<1> DEFINE x == s.exits \cup Exits(q, s)
           h == s.hits \cup {t \in TpLevels : q.dd >= t}
<1>8. x \subseteq Models /\ h \subseteq TpLevels
  <2>1. Exits(q, s) \subseteq Models
    BY DEF Exits
  <2>2. s.exits \subseteq Models
    BY <1>5 DEF Held
  <2> QED
    BY <1>1, <1>5, <2>1, <2>2
<1>9. Updated(p, q) = [s EXCEPT !.stale = 0, !.expired = q.secs <= 0, !.exits = x, !.hits = h]
  BY DEF Updated
<1> HIDE DEF s, x, h
<1>10. /\ Updated(p, q) \in Held /\ Updated(p, q).id = s.id /\ Updated(p, q).status = s.status
       /\ Updated(p, q).peak = s.peak /\ Updated(p, q).hits = h
  <2>1. 0 \in 0..StaleLimit
    BY PaperAssumption
  <2> QED
    BY <1>2, <1>5, <1>8, <1>9, <2>1 DEF Held
<1>11. \A t \in h \ p.hits : t \in TpLevels /\ s.peak >= t
  <2>1. \A t \in h \ p.hits : t \in TpLevels /\ q.dd >= t
    BY <1>5 DEF h
  <2>2. \A t \in TpLevels : t \in Int
    BY PaperAssumption
  <2> QED
    BY <1>3, <1>7, <2>1, <2>2
<1> QED
  BY <1>5, <1>7, <1>10, <1>11

Papers == {NoPaper} \cup [id : Ids, status : {"reserving"}] \cup Held

LEMMA OneKeyChanges ==
    ASSUME TypeOK, NEW k \in Keys, NEW p \in Papers, active' = [active EXCEPT ![k] = p]
    PROVE  /\ active' \in [Keys -> Papers]
           /\ active'[k] = p /\ \A j \in Keys : j # k => active'[j] = active[j]
BY DEF TypeOK, Papers

(* The monitor moves on, and nothing else changes. *)
LEMMA MonitorMoves ==
    ASSUME IInv, up, UNCHANGED <<active, tables, tasks, up, stray>>,
           monitor'.step \in {"sleep", "look", "resolve", "close"}, monitor'.reason \in Reasons,
           monitor' = [step |-> monitor'.step, todo |-> monitor'.todo, key |-> monitor'.key,
                       reason |-> monitor'.reason, left |-> monitor'.left],
           monitor'.left \subseteq Models, monitor'.key \in Keys \cup {"none"},
           monitor'.todo \subseteq Keys, \A k \in monitor'.todo : active[k].status = "open",
           \A k \in Keys : active[k].status # "closed",
           monitor'.step \in {"resolve", "close"} =>
              monitor'.key \in Keys \ monitor'.todo /\ active[monitor'.key].status = "open"
    PROVE  IInv'
<1> USE DEF IInv, tables
<1>1. TypeOK'
  BY DEF TypeOK
<1>2. MonitorInv'
  BY DEF MonitorInv
<1>3. IdsInv'
  BY DEF IdsInv
<1>4. MemoryMatchesRows'
  BY DEF MemoryMatchesRows, InMemory
<1>5. ProfitInv'
  BY DEF ProfitInv, ProfitOnce
<1>6. LadderInv'
  BY DEF LadderInv, LadderBacked
<1> QED
  BY <1>1, <1>2, <1>3, <1>4, <1>5, <1>6

LEMMA NothingClosed ==
    ASSUME MonitorInv, monitor.step # "finalize"
    PROVE  \A k \in Keys : active[k].status # "closed"
BY DEF MonitorInv

LEMMA CycleInv ==
    ASSUME IInv, Cycle
    PROVE  IInv'
<1>1. \A k \in Keys : active[k].status # "closed"
  BY NothingClosed DEF IInv, Cycle
<1>2. monitor' = [step |-> "look", todo |-> {k \in Keys : active[k].status = "open"}, key |-> "none",
                  reason |-> "none", left |-> {}]
  BY DEF Cycle, Idle
<1>3. /\ monitor' = [step |-> monitor'.step, todo |-> monitor'.todo, key |-> monitor'.key,
                      reason |-> monitor'.reason, left |-> monitor'.left]
      /\ monitor'.step = "look" /\ monitor'.todo \subseteq Keys /\ monitor'.key = "none"
      /\ monitor'.reason \in Reasons /\ monitor'.left \subseteq Models
      /\ \A k \in monitor'.todo : active[k].status = "open"
  BY <1>2 DEF Reasons
<1> QED
  BY <1>1, <1>3, MonitorMoves DEF Cycle

LEMMA CycleDoneInv ==
    ASSUME IInv, CycleDone
    PROVE  IInv'
<1>1. up /\ \A k \in Keys : active[k].status # "closed"
  BY NothingClosed DEF IInv, CycleDone, TypeOK, Idle
<1>2. monitor' = [step |-> "sleep", todo |-> {}, key |-> "none", reason |-> "none", left |-> {}]
  BY DEF CycleDone, Idle
<1> QED
  BY <1>1, <1>2, MonitorMoves DEF CycleDone, Reasons

(* Where the monitor goes after a look. *)
LEMMA GoesOn ==
    ASSUME IInv, NEW k \in Keys, At(k), NEW step \in {"look", "resolve", "close"}, NEW reason \in Reasons,
           monitor' = Go(k, step, reason)
    PROVE  /\ up /\ k \in monitor.todo /\ active[k].status = "open"
           /\ \A j \in Keys : active[j].status # "closed"
           /\ monitor' = [step |-> monitor'.step, todo |-> monitor.todo \ {k}, key |-> monitor'.key,
                          reason |-> reason, left |-> monitor'.left]
           /\ monitor'.step \in {"look", step} /\ monitor'.left \subseteq Models
           /\ monitor'.key \in {k, "none"}
           /\ monitor'.step # "look" => monitor'.key = k
           /\ monitor.todo \subseteq Keys /\ \A j \in monitor.todo : active[j].status = "open"
<1>1. up /\ k \in monitor.todo /\ active[k].status = "open"
  BY DEF IInv, At, TypeOK, Idle, MonitorInv
<1>2. \A j \in Keys : active[j].status # "closed"
  BY NothingClosed DEF IInv, At
<1>3. monitor \in [step : {"sleep", "look", "resolve", "close", "finalize"}, todo : SUBSET Keys,
                    key : Keys \cup {"none"}, reason : Reasons, left : SUBSET Models]
  BY DEF IInv, TypeOK
<1>4. /\ monitor' = [step |-> monitor'.step, todo |-> monitor.todo \ {k}, key |-> monitor'.key,
                      reason |-> reason, left |-> monitor.left]
      /\ monitor'.step = (IF reason = "none" THEN "look" ELSE step)
      /\ monitor'.key = (IF reason = "none" THEN "none" ELSE k)
  BY <1>3 DEF Go
<1> QED
  BY <1>1, <1>2, <1>3, <1>4 DEF IInv, MonitorInv

LEMMA LookRaisesInv ==
    ASSUME IInv, NEW k \in Keys, LookRaises(k)
    PROVE  IInv'
<1>1. "none" \in Reasons /\ At(k) /\ monitor' = Go(k, "look", "none")
  BY DEF LookRaises, Reasons
<1>2. monitor'.step = "look"
  BY <1>1, GoesOn
<1> QED
  BY <1>1, <1>2, GoesOn, MonitorMoves DEF LookRaises

LEMMA LookResolvedInv ==
    ASSUME IInv, NEW k \in Keys, LookResolved(k)
    PROVE  IInv'
<1>1. "market_resolved" \in Reasons /\ At(k) /\ monitor' = Go(k, "close", "market_resolved")
  BY DEF LookResolved, Reasons
<1>2. monitor'.step \in {"look", "close"}
  BY <1>1, GoesOn
<1> QED
  BY <1>1, <1>2, GoesOn, MonitorMoves DEF LookResolved

LEMMA ResolutionInv ==
    ASSUME IInv, NEW raises \in BOOLEAN, Resolution(raises)
    PROVE  IInv'
<1>1. monitor.step = "resolve" /\ up /\ \A k \in Keys : active[k].status # "closed"
  BY NothingClosed DEF IInv, Resolution, TypeOK, Idle
<1>2. monitor \in [step : {"sleep", "look", "resolve", "close", "finalize"}, todo : SUBSET Keys,
                    key : Keys \cup {"none"}, reason : Reasons, left : SUBSET Models]
  BY DEF IInv, TypeOK
<1>3. /\ monitor.key \in Keys \ monitor.todo /\ active[monitor.key].status = "open"
      /\ \A k \in monitor.todo : active[k].status = "open"
  BY <1>1 DEF IInv, MonitorInv
<1>4. CASE raises
  <2>1. monitor' = NextKey
    BY <1>4 DEF Resolution
  <2>2. /\ monitor' = [step |-> monitor'.step, todo |-> monitor'.todo, key |-> monitor'.key,
                        reason |-> monitor'.reason, left |-> monitor'.left]
        /\ monitor'.step = "look" /\ monitor'.todo = monitor.todo /\ monitor'.key = "none"
        /\ monitor'.reason = "none" /\ monitor'.left = {}
    BY <1>2, <2>1 DEF NextKey
  <2> QED
    BY <1>1, <1>2, <1>3, <2>2, MonitorMoves DEF Resolution, Reasons
<1>5. CASE ~raises
  <2>1. monitor' = [monitor EXCEPT !.step = "close"]
    BY <1>5 DEF Resolution
  <2>2. /\ monitor' = [step |-> monitor'.step, todo |-> monitor'.todo, key |-> monitor'.key,
                        reason |-> monitor'.reason, left |-> monitor'.left]
        /\ monitor'.step = "close" /\ monitor'.todo = monitor.todo /\ monitor'.key = monitor.key
        /\ monitor'.reason = monitor.reason /\ monitor'.left = monitor.left
    BY <1>2, <2>1
  <2> QED
    BY <1>1, <1>2, <1>3, <2>2, MonitorMoves DEF Resolution
<1> QED
  BY <1>4, <1>5

----------------------------------------------------------------------------
LEMMA ScheduleInv ==
    ASSUME IInv, NEW k \in Keys, Schedule(k)
    PROVE  IInv'
<1> DEFINE p == [id |-> Fresh, status |-> "reserving"]
<1>1. /\ Fresh \in Ids /\ row[Fresh].status = "none"
      /\ \A j \in Keys : active[j].id # Fresh
  <2>1. Fresh \in FreshIds
    BY DEF Schedule, Fresh
  <2> QED
    BY <2>1 DEF FreshIds
<1>2. p \in Papers /\ p.status = "reserving" /\ p.id = Fresh
  BY <1>1 DEF Papers
<1>3. /\ active' \in [Keys -> Papers] /\ active'[k] = p
      /\ \A j \in Keys : j # k => active'[j] = active[j]
  BY <1>2, OneKeyChanges DEF Schedule, IInv
<1> HIDE DEF p
<1>4. active[k].status = "none"
  BY KindsOfPaper DEF Schedule, IInv
<1> USE DEF IInv
<1>5. TypeOK'
  BY <1>3 DEF Schedule, TypeOK, tables, Papers
<1>6. MonitorInv'
  <2>1. \A j \in monitor.todo : j \in Keys /\ j # k
    BY <1>4 DEF MonitorInv, TypeOK
  <2> QED
    BY <1>2, <1>3, <1>4, <2>1 DEF Schedule, MonitorInv
<1>7. IdsInv'
  BY <1>1, <1>2, <1>3 DEF Schedule, IdsInv, tables
<1>8. MemoryMatchesRows'
  <2>1. \A j, l \in Keys : j \in InMemory' /\ l \in InMemory' /\ active'[j].id = active'[l].id => j = l
    BY <1>1, <1>2, <1>3 DEF MemoryMatchesRows, InMemory
  <2>2. \A i \in Ids : row[i].status = "open" /\ i \notin stray =>
            \E j \in Keys : j # k /\ active[j].id = i /\ active[j].status = "open"
    BY <1>4 DEF MemoryMatchesRows
  <2> QED
    BY <1>2, <1>3, <2>1, <2>2 DEF Schedule, MemoryMatchesRows, InMemory, tables
<1>9. ProfitInv'
  <2>1. monitor.step = "finalize" => monitor.key \in Keys /\ monitor.key # k
    BY <1>4 DEF MonitorInv
  <2> QED
    BY <1>3, <2>1 DEF Schedule, ProfitInv, ProfitOnce, tables
<1>10. LadderInv'
  BY <1>2, <1>3 DEF Schedule, LadderInv, LadderBacked, tables
<1> QED
  BY <1>5, <1>6, <1>7, <1>8, <1>9, <1>10

LEMMA OpenFailsInv ==
    ASSUME IInv, NEW k \in Keys, OpenFails(k)
    PROVE  IInv'
<1>1. /\ active' \in [Keys -> Papers] /\ active'[k] = NoPaper
      /\ \A j \in Keys : j # k => active'[j] = active[j]
  BY OneKeyChanges DEF OpenFails, IInv, Papers
<1>2. active'[k].status = "none" /\ active'[k].id \notin Ids /\ active[k].status = "reserving"
  BY <1>1, PaperAssumption DEF NoPaper, OpenFails, Reserved
<1> USE DEF IInv
<1>3. TypeOK'
  BY <1>1 DEF OpenFails, Reserved, TypeOK, tables, Papers
<1>4. MonitorInv'
  <2>1. \A j \in monitor.todo : j \in Keys /\ j # k
    BY <1>2 DEF MonitorInv, TypeOK
  <2> QED
    BY <1>1, <1>2, <2>1 DEF OpenFails, MonitorInv
<1>5. IdsInv'
  BY <1>1, <1>2 DEF OpenFails, IdsInv, tables
<1>6. MemoryMatchesRows'
  <2>1. \A j, l \in Keys : j \in InMemory' /\ l \in InMemory' /\ active'[j].id = active'[l].id => j = l
    BY <1>1 DEF MemoryMatchesRows, InMemory
  <2>2. \A i \in Ids : row[i].status = "open" /\ i \notin stray =>
            \E j \in Keys : j # k /\ active[j].id = i /\ active[j].status = "open"
    BY <1>2 DEF MemoryMatchesRows
  <2> QED
    BY <1>1, <1>2, <2>1, <2>2 DEF OpenFails, MemoryMatchesRows, InMemory, tables
<1>7. ProfitInv'
  <2>1. monitor.step = "finalize" => monitor.key \in Keys /\ monitor.key # k
    BY <1>2 DEF MonitorInv
  <2> QED
    BY <1>1, <2>1 DEF OpenFails, ProfitInv, ProfitOnce, tables
<1>8. LadderInv'
  BY <1>1, <1>2 DEF OpenFails, LadderInv, LadderBacked, tables
<1> QED
  BY <1>3, <1>4, <1>5, <1>6, <1>7, <1>8

(* The insert: the id was reserved, so its row was unused and no level,    *)
(* no profit and no other key belongs to it.                               *)
LEMMA OpenInv ==
    ASSUME IInv, NEW k \in Keys, NEW o \in Outcomes, Open(k, o)
    PROVE  IInv'
<1> DEFINE i == active[k].id
           p == IF Returns(o) THEN Opened(i) ELSE NoPaper
<1>1. /\ i \in Ids /\ active[k].status = "reserving" /\ row[i].status = "none"
      /\ k \in InMemory /\ up
  BY KindsOfPaper DEF IInv, IdsInv, Open, Reserved
<1>2. Opened(i) \in Held
  <2>1. 0 \in Peaks /\ 0 \in 0..StaleLimit /\ "early" \in Ages
    BY PaperAssumption DEF Peaks, Ages
  <2> QED
    BY <1>1, <2>1 DEF Opened, Held
<1>3. /\ Opened(i).id = i /\ Opened(i).status = "open" /\ Opened(i).peak = 0
      /\ NoPaper.status = "none" /\ NoPaper.id \notin Ids /\ Opened(i) # NoPaper
  BY PaperAssumption DEF Opened, NoPaper
<1>4. /\ active' \in [Keys -> Papers] /\ active'[k] = p
      /\ \A j \in Keys : j # k => active'[j] = active[j]
  <2>1. p \in Papers
    BY <1>2 DEF Papers
  <2> QED
    BY <2>1, OneKeyChanges DEF Open, IInv
<1>5. \A j \in Keys : j # k => active[j].id # i
  <2>1. \A j \in Keys : active[j].id = i => j \in InMemory
    BY <1>1, KindsOfPaper DEF IInv
  <2> QED
    BY <1>1, <2>1 DEF IInv, MemoryMatchesRows
<1>6. /\ row' \in [Ids -> [status : {"none", "open", "closed", "invalidated"}, peak : Peaks]]
      /\ \A j \in Ids : j # i => row'[j] = row[j]
      /\ Commits(o) => row'[i].status = "open"
      /\ ~Commits(o) => row'[i].status = "none"
  BY <1>1 DEF Open, IInv, TypeOK
<1>7. /\ Returns(o) => Commits(o) /\ stray' = stray
      /\ Commits(o) /\ ~Returns(o) => stray' = stray \cup {i}
      /\ stray' \in {stray, stray \cup {i}}
  BY DEF Open, Returns, Commits, Outcomes
<1>8. UNCHANGED <<profit, ladder, tasks, monitor, up>>
  BY DEF Open
<1>9. p.status \in {"open", "none"} /\ (p.status = "open" => Returns(o) /\ p = Opened(i))
  BY <1>3
<1> HIDE DEF i, p
<1> USE DEF IInv
<1>10. TypeOK'
  BY <1>1, <1>4, <1>6, <1>7, <1>8 DEF TypeOK, Papers
<1>11. MonitorInv'
  <2>1. \A j \in monitor.todo : j \in Keys /\ j # k
    BY <1>1 DEF MonitorInv, TypeOK
  <2> QED
    BY <1>1, <1>4, <1>8, <1>9, <2>1 DEF MonitorInv
<1>12. IdsInv'
  <2>1. \A j \in Keys : j # k /\ active[j].status \in {"reserving", "closed"} =>
           active[j].id \in Ids /\ active[j].id # i
    BY <1>5, KindsOfPaper
  <2> QED
    BY <1>4, <1>6, <1>9, <2>1 DEF IdsInv
<1>13. MemoryMatchesRows'
  <2>1. \A j \in Keys : j # k => (j \in InMemory' <=> j \in InMemory)
    BY <1>4 DEF InMemory
  <2>2. \A j, l \in Keys : j \in InMemory' /\ l \in InMemory' /\ active'[j].id = active'[l].id => j = l
    <3>1. k \in InMemory' => active'[k].id = i
      BY <1>3, <1>4 DEF InMemory, p
    <3> QED
      BY <1>4, <1>5, <2>1, <3>1 DEF MemoryMatchesRows
  <2>3. \A j \in Keys : active'[j].status = "open" => row'[active'[j].id].status = "open"
    <3>1. active'[k].status = "open" => row'[active'[k].id].status = "open"
      BY <1>3, <1>4, <1>6, <1>7, <1>9
    <3>2. \A j \in Keys : j # k /\ active[j].status = "open" => active[j].id \in Ids /\ active[j].id # i
      BY <1>5, KindsOfPaper
    <3> QED
      BY <1>4, <1>6, <3>1, <3>2 DEF MemoryMatchesRows
  <2>4. \A j \in Ids : row'[j].status = "open" /\ j \notin stray' =>
           \E l \in Keys : active'[l].id = j /\ active'[l].status = "open"
    <3> SUFFICES ASSUME NEW j \in Ids, row'[j].status = "open", j \notin stray'
                 PROVE  \E l \in Keys : active'[l].id = j /\ active'[l].status = "open"
      OBVIOUS
    <3>1. CASE j = i
      BY <1>3, <1>4, <1>6, <1>7, <3>1 DEF p
    <3>2. CASE j # i
      <4>1. PICK l \in Keys : active[l].id = j /\ active[l].status = "open"
        BY <1>6, <1>7, <3>2 DEF MemoryMatchesRows
      <4> QED
        BY <1>4, <3>2, <4>1 DEF i
    <3> QED
      BY <3>1, <3>2
  <2> QED
    BY <2>2, <2>3, <2>4 DEF MemoryMatchesRows, InMemory
<1>14. ProfitInv'
  <2>1. monitor.step = "finalize" => monitor.key \in Keys /\ monitor.key # k
    BY <1>1 DEF MonitorInv
  <2>2. \A j \in Ids : row[j].status = "closed" => row'[j].status = "closed"
    BY <1>1, <1>6
  <2> QED
    BY <1>4, <1>8, <2>1, <2>2 DEF ProfitInv, ProfitOnce
<1>15. LadderInv'
  <2>1. \A t \in ladder \cup tasks : t[1] \in Ids /\ t[1] # i
    BY <1>1 DEF LadderInv, TypeOK
  <2> QED
    BY <1>3, <1>4, <1>6, <1>8, <1>9, <2>1 DEF LadderInv, LadderBacked
<1> QED
  BY <1>10, <1>11, <1>12, <1>13, <1>14, <1>15

(* A paper that is followed stays the same paper, and its peak only rises; *)
(* the levels that are to be measured now are below it.                    *)
LEMMA SamePaper ==
    ASSUME IInv, NEW k \in Keys, active[k].status = "open",
           NEW p \in Held, p.id = active[k].id, p.status = "open", p.peak >= active[k].peak,
           active' = [active EXCEPT ![k] = p], UNCHANGED <<tables, up, stray>>, up,
           tasks' \subseteq Ids \X TpLevels,
           \A t \in tasks' \ tasks : t[1] = p.id /\ p.peak >= t[2],
           monitor' \in [step : {"sleep", "look", "resolve", "close", "finalize"}, todo : SUBSET Keys,
                         key : Keys \cup {"none"}, reason : Reasons, left : SUBSET Models],
           MonitorInv', monitor'.step = "finalize" => monitor' = monitor
    PROVE  IInv'
<1>1. /\ active' \in [Keys -> Papers] /\ active'[k] = p
      /\ \A j \in Keys : j # k => active'[j] = active[j]
  BY OneKeyChanges DEF IInv, Papers
<1>2. \A j \in Keys : active'[j].id = active[j].id /\ active'[j].status = active[j].status
  BY <1>1
<1>3. \A j \in Keys : j \in InMemory' <=> j \in InMemory
  <2>1. k \in InMemory
    BY KindsOfPaper DEF IInv
  <2>2. p # NoPaper
    BY DEF NoPaper
  <2> QED
    BY <1>1, <2>1, <2>2 DEF InMemory
<1> USE DEF IInv, tables
<1>4. TypeOK'
  BY <1>1 DEF TypeOK, Papers
<1>5. IdsInv'
  BY <1>2 DEF IdsInv
<1>6. MemoryMatchesRows'
  BY <1>2, <1>3 DEF MemoryMatchesRows, InMemory
<1>7. ProfitInv'
  BY <1>2 DEF ProfitInv, ProfitOnce, MonitorInv
<1>8. LadderInv'
  <2>1. row[p.id].status = "open"
    BY DEF MemoryMatchesRows
  <2>2. \A t \in ladder \cup tasks, j \in Keys :
           active'[j].id = t[1] /\ active'[j].status = "open" => active'[j].peak >= t[2]
    <3> SUFFICES ASSUME NEW t \in ladder \cup tasks, NEW j \in Keys,
                        active'[j].id = t[1], active'[j].status = "open"
                 PROVE  active'[j].peak >= t[2]
      OBVIOUS
    <3>1. active[j].peak >= t[2]
      BY <1>2 DEF LadderInv
    <3>2. t[2] \in Int /\ p.peak \in Int /\ active[k].peak \in Int
      <4>1. \A x \in Peaks : x \in Int
        BY PaperAssumption DEF Peaks
      <4>2. active[k] \in Held
        BY KindsOfPaper
      <4>3. p.peak \in Peaks /\ active[k].peak \in Peaks
        BY <4>2 DEF Held
      <4>4. t[2] \in TpLevels
        BY DEF TypeOK
      <4>5. \A x \in TpLevels : x \in Int
        BY PaperAssumption
      <4> QED
        BY <4>1, <4>3, <4>4, <4>5
    <3> QED
      BY <1>1, <3>1, <3>2
  <2>3. \A t \in tasks' \ tasks, j \in Keys :
           active'[j].id = t[1] /\ active'[j].status = "open" => active'[j].peak >= t[2]
    <3>1. \A j \in Keys : active'[j].id = p.id /\ active'[j].status = "open" => j = k
      <4>1. \A j \in Keys : active[j].status = "open" => j \in InMemory
        BY KindsOfPaper
      <4> QED
        BY <1>2, <4>1 DEF MemoryMatchesRows
    <3> QED
      BY <1>1, <3>1
  <2> QED
    BY <2>1, <2>2, <2>3 DEF LadderInv, LadderBacked
<1> QED
  BY <1>4, <1>5, <1>6, <1>7, <1>8

(* Before and after a look that keeps the paper at k. *)
LEMMA LookKeeps ==
    ASSUME IInv, NEW k \in Keys, At(k), NEW p \in Held, p.id = active[k].id, p.status = "open",
           active' = [active EXCEPT ![k] = p],
           NEW step \in {"resolve", "close"}, NEW reason \in Reasons, monitor' = Go(k, step, reason)
    PROVE  /\ monitor' \in [step : {"sleep", "look", "resolve", "close", "finalize"}, todo : SUBSET Keys,
                             key : Keys \cup {"none"}, reason : Reasons, left : SUBSET Models]
           /\ MonitorInv' /\ monitor'.step # "finalize"
<1>1. /\ active' \in [Keys -> Papers] /\ active'[k] = p
      /\ \A j \in Keys : j # k => active'[j] = active[j]
  BY OneKeyChanges DEF IInv, Papers
<1>2. \A j \in Keys : active[j].status # "closed"
  BY GoesOn
<1>3. /\ monitor' = [step |-> monitor'.step, todo |-> monitor.todo \ {k}, key |-> monitor'.key,
                      reason |-> reason, left |-> monitor'.left]
      /\ monitor'.step \in {"look", step} /\ monitor'.left \subseteq Models
      /\ monitor'.key \in {k, "none"} /\ (monitor'.step # "look" => monitor'.key = k)
      /\ monitor.todo \subseteq Keys /\ \A j \in monitor.todo : active[j].status = "open"
  BY GoesOn
<1>4. monitor'.todo = monitor.todo \ {k} /\ monitor'.reason = reason
  BY <1>3
<1> QED
  BY <1>1, <1>2, <1>3, <1>4 DEF MonitorInv

LEMMA LookNothingInv ==
    ASSUME IInv, NEW k \in Keys, NEW market \in BOOLEAN, LookNothing(k, market)
    PROVE  IInv'
<1> DEFINE p == Stale(active[k])
           step == IF market /\ p.expired THEN "resolve" ELSE "close"
           reason == ShouldClose(p)
<1>1. At(k) /\ up /\ active[k].status = "open"
  BY DEF LookNothing, IInv, At, TypeOK, Idle, MonitorInv
<1>2. active[k] \in Held
  BY <1>1, KindsOfPaper DEF IInv
<1>3. p \in Held /\ p.id = active[k].id /\ p.status = "open" /\ p.peak = active[k].peak /\ p.peak >= active[k].peak
  BY <1>1, <1>2, StaleIsThePaper
<1>4. step \in {"resolve", "close"} /\ reason \in Reasons
  BY DEF ShouldClose, Reasons
<1> HIDE DEF p, step, reason
<1>5. active' = [active EXCEPT ![k] = p] /\ monitor' = Go(k, step, reason)
  BY DEF LookNothing, p, step, reason
<1>6. /\ monitor' \in [step : {"sleep", "look", "resolve", "close", "finalize"}, todo : SUBSET Keys,
                        key : Keys \cup {"none"}, reason : Reasons, left : SUBSET Models]
      /\ MonitorInv' /\ monitor'.step # "finalize"
  BY <1>1, <1>3, <1>4, <1>5, LookKeeps
<1>7. UNCHANGED <<tables, tasks, up, stray>> /\ tasks \subseteq Ids \X TpLevels
  BY DEF LookNothing, IInv, TypeOK
<1> QED
  BY <1>1, <1>3, <1>5, <1>6, <1>7, SamePaper

LEMMA LookQuoteInv ==
    ASSUME IInv, NEW k \in Keys, NEW q \in Quotes, LookQuote(k, q)
    PROVE  IInv'
<1> DEFINE p == Updated(active[k], q)
           step == IF p.expired THEN "resolve" ELSE "close"
           reason == ShouldClose(p)
<1>1. At(k) /\ up /\ active[k].status = "open"
  BY DEF LookQuote, IInv, At, TypeOK, Idle, MonitorInv
<1>2. active[k] \in Held /\ active[k].id \in Ids
  BY <1>1, KindsOfPaper DEF IInv, Held
<1>3. /\ p \in Held /\ p.id = active[k].id /\ p.status = "open" /\ p.peak >= active[k].peak
      /\ \A t \in p.hits \ active[k].hits : t \in TpLevels /\ p.peak >= t
  BY <1>1, <1>2, UpdatedIsThePaper
<1>4. step \in {"resolve", "close"} /\ reason \in Reasons
  BY DEF ShouldClose, Reasons
<1> HIDE DEF p, step, reason
<1>5. /\ active' = [active EXCEPT ![k] = p] /\ monitor' = Go(k, step, reason)
      /\ tasks' = tasks \cup {p.id} \X (p.hits \ active[k].hits)
  BY DEF LookQuote, p, step, reason
<1>6. /\ monitor' \in [step : {"sleep", "look", "resolve", "close", "finalize"}, todo : SUBSET Keys,
                        key : Keys \cup {"none"}, reason : Reasons, left : SUBSET Models]
      /\ MonitorInv' /\ monitor'.step # "finalize"
  BY <1>1, <1>3, <1>4, <1>5, LookKeeps
<1>7. UNCHANGED <<tables, up, stray>> /\ tasks \subseteq Ids \X TpLevels
  BY DEF LookQuote, IInv, TypeOK
<1>8. tasks' \subseteq Ids \X TpLevels /\ \A t \in tasks' \ tasks : t[1] = p.id /\ p.peak >= t[2]
  BY <1>2, <1>3, <1>5, <1>7
<1> QED
  BY <1>1, <1>3, <1>5, <1>6, <1>7, <1>8, SamePaper

LEMMA AgeInv ==
    ASSUME IInv, NEW k \in Keys, Age(k)
    PROVE  IInv'
<1> DEFINE a == IF active[k].age = "early" THEN "late" ELSE "over"
           p == [active[k] EXCEPT !.age = a]
<1>1. active[k].status = "open" /\ active[k] \in Held
  BY KindsOfPaper DEF Age, IInv
<1>2. up
  BY <1>1 DEF IInv, TypeOK, NoPaper
<1>3. p \in Held /\ p.id = active[k].id /\ p.status = "open" /\ p.peak = active[k].peak
  <2>1. a \in Ages
    BY DEF Ages
  <2> HIDE DEF a
  <2> QED
    BY <1>1, <2>1 DEF Held
<1>4. p.peak >= active[k].peak
  <2>1. active[k].peak \in Int
    BY <1>1, StaleIsThePaper
  <2> QED
    BY <1>3, <2>1
<1>5. active' = [active EXCEPT ![k] = p]
  BY <1>1 DEF Age, IInv, TypeOK
<1> HIDE DEF a, p
<1>6. \A j \in Keys : active'[j].status = active[j].status
  BY <1>1, <1>3, <1>5 DEF IInv, TypeOK
<1>7. /\ monitor' = monitor /\ UNCHANGED <<tables, tasks, up, stray>>
      /\ tasks \subseteq Ids \X TpLevels
      /\ monitor' \in [step : {"sleep", "look", "resolve", "close", "finalize"}, todo : SUBSET Keys,
                        key : Keys \cup {"none"}, reason : Reasons, left : SUBSET Models]
  BY DEF Age, IInv, TypeOK
<1>8. MonitorInv'
  BY <1>6, <1>7 DEF IInv, TypeOK, MonitorInv
<1> QED
  BY <1>1, <1>2, <1>3, <1>4, <1>5, <1>7, <1>8, SamePaper

----------------------------------------------------------------------------
(* What the monitor has at hand, in the step where it writes the row.      *)
LEMMA AtHand ==
    ASSUME IInv, monitor.step \in {"close", "finalize"}
    PROVE  /\ up /\ monitor.key \in Keys \ monitor.todo /\ active[monitor.key] \in Held
           /\ active[monitor.key].id \in Ids
           /\ monitor.step = "close" => active[monitor.key].status = "open"
           /\ monitor.step = "finalize" => active[monitor.key].status = "closed"
           /\ monitor \in [step : {"sleep", "look", "resolve", "close", "finalize"}, todo : SUBSET Keys,
                            key : Keys \cup {"none"}, reason : Reasons, left : SUBSET Models]
           /\ \A j \in Keys : j # monitor.key => active[j].status # "closed"
           /\ \A j \in Keys : j # monitor.key => active[j].id # active[monitor.key].id
<1>1. /\ up /\ monitor.key \in Keys \ monitor.todo
      /\ monitor \in [step : {"sleep", "look", "resolve", "close", "finalize"}, todo : SUBSET Keys,
                        key : Keys \cup {"none"}, reason : Reasons, left : SUBSET Models]
      /\ monitor.step = "close" => active[monitor.key].status = "open"
      /\ monitor.step = "finalize" => active[monitor.key].status = "closed"
      /\ \A j \in Keys : j # monitor.key => active[j].status # "closed"
  BY DEF IInv, TypeOK, MonitorInv, Idle
<1>2. active[monitor.key] \in Held /\ active[monitor.key].id \in Ids /\ monitor.key \in InMemory
  BY <1>1, KindsOfPaper DEF IInv
<1>3. \A j \in Keys : active[j].id = active[monitor.key].id => j \in InMemory
  BY <1>2, KindsOfPaper DEF IInv
<1> QED
  BY <1>1, <1>2, <1>3 DEF IInv, MemoryMatchesRows

LEMMA CloseInv ==
    ASSUME IInv, NEW o \in Outcomes, Close(o)
    PROVE  IInv'
<1> DEFINE k == monitor.key
           i == active[k].id
           p == IF Returns(o) THEN [active[k] EXCEPT !.status = "closed"] ELSE NoPaper
<1>1. /\ up /\ monitor.step = "close" /\ k \in Keys \ monitor.todo /\ active[k] \in Held /\ i \in Ids
      /\ active[k].status = "open" /\ row[i].status = "open"
      /\ monitor \in [step : {"sleep", "look", "resolve", "close", "finalize"}, todo : SUBSET Keys,
                       key : Keys \cup {"none"}, reason : Reasons, left : SUBSET Models]
      /\ \A j \in Keys : active[j].status # "closed"
      /\ \A j \in Keys : j # k => active[j].id # i
  BY AtHand DEF Close, IInv, MemoryMatchesRows
<1>2. /\ NoPaper.status = "none" /\ NoPaper.id \notin Ids
      /\ Returns(o) => p \in Held /\ p.id = i /\ p.status = "closed" /\ p # NoPaper
      /\ ~Returns(o) => p = NoPaper
  BY <1>1, PaperAssumption DEF Held, NoPaper
<1>3. /\ active' \in [Keys -> Papers] /\ active'[k] = p
      /\ \A j \in Keys : j # k => active'[j] = active[j]
  <2>1. p \in Papers
    BY <1>2 DEF Papers
  <2>2. active' = [active EXCEPT ![k] = p]
    BY DEF Close
  <2> QED
    BY <1>1, <2>1, <2>2, OneKeyChanges DEF IInv
<1>4. active[k].peak \in Peaks
  BY <1>1 DEF Held
<1>5. /\ row' \in [Ids -> [status : {"none", "open", "closed", "invalidated"}, peak : Peaks]]
      /\ \A j \in Ids : j # i => row'[j] = row[j]
      /\ Commits(o) => row'[i] = [status |-> "closed", peak |-> active[k].peak]
      /\ ~Commits(o) => row'[i] = row[i] /\ i \in stray' /\ ~Returns(o)
      /\ stray \subseteq stray' /\ stray' \subseteq Ids
  BY <1>1, <1>4 DEF Close, IInv, TypeOK, Commits, Returns
<1>6. /\ monitor' \in [step : {"sleep", "look", "resolve", "close", "finalize"}, todo : SUBSET Keys,
                        key : Keys \cup {"none"}, reason : Reasons, left : SUBSET Models]
      /\ monitor'.todo = monitor.todo
      /\ Returns(o) => monitor'.step = "finalize" /\ monitor'.key = k
      /\ ~Returns(o) => monitor'.step = "look"
  BY <1>1 DEF Close, NextKey, Reasons
<1>7. UNCHANGED <<profit, ladder, tasks, up>>
  BY DEF Close
<1> HIDE DEF k, i, p
<1>8. i = active[k].id /\ k = monitor.key
  BY DEF i, k
<1> USE DEF IInv
<1>9. TypeOK'
  BY <1>1, <1>3, <1>5, <1>6, <1>7 DEF TypeOK, Papers
<1>10. MonitorInv'
  <2>1. \A j \in monitor.todo : j \in Keys /\ j # k /\ active[j].status = "open"
    BY <1>1 DEF MonitorInv
  <2>2. Returns(o) => active'[k].status = "closed"
    BY <1>2, <1>3
  <2>3. ~Returns(o) => active'[k].status = "none"
    BY <1>2, <1>3
  <2>4. \A j \in Keys : active'[j].status = "closed" => j = k /\ Returns(o)
    BY <1>1, <1>3, <2>3
  <2>5. \A j \in monitor'.todo : active'[j].status = "open"
    BY <1>3, <1>6, <2>1
  <2> QED
    BY <1>1, <1>6, <2>1, <2>2, <2>4, <2>5 DEF MonitorInv
<1>11. IdsInv'
  <2>1. Returns(o) => Commits(o)
    BY <1>5
  <2>2. \A j \in Keys : j # k /\ active[j].status = "reserving" => active[j].id \in Ids
    BY KindsOfPaper
  <2> QED
    BY <1>1, <1>2, <1>3, <1>5, <2>1, <2>2 DEF IdsInv
<1>12. MemoryMatchesRows'
  <2>1. \A j \in Keys : j # k => (j \in InMemory' <=> j \in InMemory)
    BY <1>3 DEF InMemory
  <2>2. \A j, l \in Keys : j \in InMemory' /\ l \in InMemory' /\ active'[j].id = active'[l].id => j = l
    <3>1. k \in InMemory' => active'[k].id = i
      BY <1>2, <1>3 DEF InMemory
    <3> QED
      BY <1>1, <1>3, <2>1, <3>1 DEF MemoryMatchesRows
  <2>3. \A j \in Keys : active'[j].status = "open" => row'[active'[j].id].status = "open"
    <3>1. \A j \in Keys : j # k /\ active[j].status = "open" => active[j].id \in Ids /\ active[j].id # i
      BY <1>1, KindsOfPaper
    <3> QED
      BY <1>2, <1>3, <1>5, <3>1 DEF MemoryMatchesRows
  <2>4. \A j \in Ids : row'[j].status = "open" /\ j \notin stray' =>
           \E l \in Keys : active'[l].id = j /\ active'[l].status = "open"
    <3> SUFFICES ASSUME NEW j \in Ids, row'[j].status = "open", j \notin stray'
                 PROVE  \E l \in Keys : active'[l].id = j /\ active'[l].status = "open"
      OBVIOUS
    <3>1. j # i
      BY <1>5
    <3>2. PICK l \in Keys : active[l].id = j /\ active[l].status = "open"
      BY <1>5, <3>1 DEF MemoryMatchesRows
    <3> QED
      BY <1>3, <1>8, <3>1, <3>2
  <2> QED
    BY <2>2, <2>3, <2>4 DEF MemoryMatchesRows, InMemory
<1>13. ProfitInv'
  <2>1. \A m \in Models : profit[i][m] = 0
    <3> TAKE m \in Models
    <3>1. profit[i][m] \in Nat
      BY <1>1 DEF TypeOK
    <3>2. profit[i][m] <= 1 /\ profit[i][m] # 1
      BY <1>1 DEF ProfitInv, ProfitOnce
    <3> QED
      BY <3>1, <3>2
  <2>2. \A j \in Ids : row[j].status = "closed" => row'[j].status = "closed"
    BY <1>1, <1>5
  <2>3. monitor'.step = "finalize" => active'[monitor'.key].id = i /\ monitor'.left \subseteq Models
    BY <1>2, <1>3, <1>6
  <2> QED
    BY <1>7, <2>1, <2>2, <2>3 DEF ProfitInv, ProfitOnce
<1>14. LadderInv'
  <2>1. \A t \in ladder \cup tasks : t[1] \in Ids /\ (t[1] = i => active[k].peak >= t[2])
    BY <1>1, <1>8 DEF LadderInv, TypeOK
  <2>2. \A t \in ladder \cup tasks :
           row'[t[1]].status # "none" /\ (row'[t[1]].status = "closed" => row'[t[1]].peak >= t[2])
    BY <1>1, <1>5, <2>1 DEF LadderInv, LadderBacked
  <2>3. \A t \in ladder \cup tasks, j \in Keys :
           active'[j].id = t[1] /\ active'[j].status = "open" => active'[j].peak >= t[2]
    BY <1>2, <1>3 DEF LadderInv
  <2> QED
    BY <1>7, <2>2, <2>3 DEF LadderInv, LadderBacked
<1> QED
  BY <1>9, <1>10, <1>11, <1>12, <1>13, <1>14

LEMMA FinalizeInv ==
    ASSUME IInv, NEW m \in Models, NEW wrote \in BOOLEAN, Finalize(m, wrote)
    PROVE  IInv'
<1> DEFINE k == monitor.key
           i == active[k].id
<1>1. /\ up /\ monitor.step = "finalize" /\ k \in Keys \ monitor.todo /\ i \in Ids
      /\ active[k].status = "closed" /\ row[i].status = "closed"
      /\ monitor \in [step : {"sleep", "look", "resolve", "close", "finalize"}, todo : SUBSET Keys,
                       key : Keys \cup {"none"}, reason : Reasons, left : SUBSET Models]
  BY AtHand DEF Finalize, IInv, IdsInv
<1>2. m \in monitor.left /\ profit[i][m] = 0
  BY <1>1 DEF Finalize, IInv, ProfitInv
<1>3. /\ monitor'.step = "finalize" /\ monitor'.key = k /\ monitor'.left = monitor.left \ {m}
      /\ monitor'.todo = monitor.todo
      /\ monitor' \in [step : {"sleep", "look", "resolve", "close", "finalize"}, todo : SUBSET Keys,
                       key : Keys \cup {"none"}, reason : Reasons, left : SUBSET Models]
  BY <1>1 DEF Finalize
<1>4. /\ profit' \in [Ids -> [Models -> Nat]] /\ profit'[i][m] \in {0, 1}
      /\ \A j \in Ids, n \in Models : j # i \/ n # m => profit'[j][n] = profit[j][n]
  BY <1>1, <1>2 DEF Finalize, ModelPnlOf, IInv, TypeOK
<1>5. UNCHANGED <<active, row, ladder, tasks, up, stray>>
  BY DEF Finalize
<1> HIDE DEF k, i
<1>6. i = active[k].id /\ k = monitor.key
  BY DEF i, k
<1> USE DEF IInv
<1>7. TypeOK'
  BY <1>1, <1>3, <1>4, <1>5 DEF TypeOK
<1>8. MonitorInv'
  BY <1>1, <1>3, <1>5, <1>6 DEF MonitorInv
<1>9. IdsInv' /\ MemoryMatchesRows' /\ LadderInv'
  BY <1>5 DEF IdsInv, MemoryMatchesRows, InMemory, LadderInv, LadderBacked
<1>10. ProfitInv'
  <2>1. \A j \in Ids, n \in Models :
           profit'[j][n] <= 1 /\ (profit'[j][n] = 1 => row'[j].status = "closed")
    BY <1>1, <1>4, <1>5 DEF ProfitInv, ProfitOnce
  <2>2. \A n \in monitor'.left : profit'[i][n] = 0
    <3>1. \A n \in monitor'.left : n \in Models /\ n # m /\ profit[i][n] = 0
      BY <1>1, <1>3, <1>6 DEF ProfitInv
    <3> QED
      BY <1>1, <1>4, <3>1
  <2> QED
    BY <1>3, <1>5, <1>6, <2>1, <2>2 DEF ProfitInv, ProfitOnce
<1> QED
  BY <1>7, <1>8, <1>9, <1>10

LEMMA ForgetInv ==
    ASSUME IInv, Forget
    PROVE  IInv'
<1> DEFINE k == monitor.key
<1>1. /\ up /\ monitor.step = "finalize" /\ k \in Keys \ monitor.todo /\ active[k].status = "closed"
      /\ monitor \in [step : {"sleep", "look", "resolve", "close", "finalize"}, todo : SUBSET Keys,
                       key : Keys \cup {"none"}, reason : Reasons, left : SUBSET Models]
      /\ \A j \in Keys : j # k => active[j].status # "closed"
  BY AtHand DEF Forget
<1>2. /\ active' \in [Keys -> Papers] /\ active'[k] = NoPaper
      /\ \A j \in Keys : j # k => active'[j] = active[j]
  BY <1>1, OneKeyChanges DEF Forget, IInv, Papers
<1>3. active'[k].status = "none" /\ active'[k].id \notin Ids
  BY <1>2, PaperAssumption DEF NoPaper
<1>4. /\ monitor'.step = "look" /\ monitor'.todo = monitor.todo
      /\ monitor' \in [step : {"sleep", "look", "resolve", "close", "finalize"}, todo : SUBSET Keys,
                       key : Keys \cup {"none"}, reason : Reasons, left : SUBSET Models]
  BY <1>1 DEF Forget, NextKey, Reasons
<1>5. UNCHANGED <<tables, tasks, up, stray>>
  BY DEF Forget
<1> HIDE DEF k
<1> USE DEF IInv, tables
<1>6. TypeOK'
  BY <1>1, <1>2, <1>4, <1>5 DEF TypeOK, Papers
<1>7. MonitorInv'
  BY <1>1, <1>2, <1>3, <1>4 DEF MonitorInv
<1>8. IdsInv'
  BY <1>2, <1>3, <1>5 DEF IdsInv
<1>9. MemoryMatchesRows'
  <2>1. \A j, l \in Keys : j \in InMemory' /\ l \in InMemory' /\ active'[j].id = active'[l].id => j = l
    BY <1>2 DEF MemoryMatchesRows, InMemory
  <2>2. \A i \in Ids : row[i].status = "open" /\ i \notin stray =>
            \E j \in Keys : j # k /\ active[j].id = i /\ active[j].status = "open"
    BY <1>1 DEF MemoryMatchesRows
  <2> QED
    BY <1>2, <1>3, <1>5, <2>1, <2>2 DEF MemoryMatchesRows, InMemory
<1>10. ProfitInv' /\ LadderInv'
  BY <1>2, <1>3, <1>4, <1>5 DEF ProfitInv, ProfitOnce, LadderInv, LadderBacked
<1> QED
  BY <1>6, <1>7, <1>8, <1>9, <1>10

LEMMA MeasureInv ==
    ASSUME IInv, NEW t \in tasks, Measure(t)
    PROVE  IInv'
<1>1. /\ tasks' = tasks \ {t} /\ ladder' = ladder \cup {t}
      /\ UNCHANGED <<active, row, profit, monitor, up, stray>>
  BY DEF Measure, LadderOf
<1> QED
  BY <1>1 DEF IInv, TypeOK, MonitorInv, IdsInv, MemoryMatchesRows, InMemory, ProfitInv, ProfitOnce,
              LadderInv, LadderBacked

(* Death and restart: nothing is in memory. *)
LEMMA DownInv ==
    ASSUME IInv, active' = [k \in Keys |-> NoPaper], monitor' = Idle, tasks' = {}, up' \in BOOLEAN,
           UNCHANGED <<profit, ladder>>, stray' \subseteq Ids,
           row' \in [Ids -> [status : {"none", "open", "closed", "invalidated"}, peak : Peaks]],
           \A i \in Ids : row'[i] = row[i] \/ (/\ row[i].status = "open"
                                             /\ row'[i].status = "invalidated"),
           \A i \in Ids : row'[i].status = "open" => i \in stray'
    PROVE  IInv'
<1>1. \A k \in Keys : active'[k].status = "none" /\ active'[k].id \notin Ids
  BY PaperAssumption DEF NoPaper
<1> USE DEF IInv
<1>2. TypeOK'
  <2>1. active' \in [Keys -> {NoPaper} \cup [id : Ids, status : {"reserving"}] \cup Held]
    OBVIOUS
  <2>2. monitor' \in [step : {"sleep", "look", "resolve", "close", "finalize"}, todo : SUBSET Keys,
                      key : Keys \cup {"none"}, reason : Reasons, left : SUBSET Models]
    BY DEF Idle, Reasons
  <2> QED
    BY <2>1, <2>2 DEF TypeOK
<1>3. MonitorInv' /\ IdsInv'
  BY <1>1 DEF MonitorInv, IdsInv, Idle
<1>4. MemoryMatchesRows'
  BY <1>1 DEF MemoryMatchesRows, InMemory
<1>5. ProfitInv'
  BY DEF ProfitInv, ProfitOnce, Idle
<1>6. LadderInv'
  <2>1. \A t \in ladder : t[1] \in Ids
    BY DEF TypeOK
  <2> QED
    BY <1>1, <2>1 DEF LadderInv, LadderBacked
<1> QED
  BY <1>2, <1>3, <1>4, <1>5, <1>6

LEMMA CrashInv ==
    ASSUME IInv, Crash
    PROVE  IInv'
BY DownInv DEF Crash, IInv, TypeOK, tables

LEMMA RestartInv ==
    ASSUME IInv, NEW done \in BOOLEAN, Restart(done)
    PROVE  IInv'
<1>1. /\ active' = [k \in Keys |-> NoPaper] /\ monitor' = Idle /\ tasks' = {} /\ up' = TRUE
      /\ UNCHANGED <<profit, ladder>> /\ stray' = stray /\ stray \subseteq Ids
      /\ row \in [Ids -> [status : {"none", "open", "closed", "invalidated"}, peak : Peaks]]
  BY DEF Restart, IInv, TypeOK
<1>2. \A i \in Ids : row[i].status = "open" => i \in stray
  <2>1. \A k \in Keys : active[k].status = "none"
    BY <1>1 DEF Restart, NoPaper
  <2> QED
    BY <2>1 DEF IInv, MemoryMatchesRows
<1>3. /\ row' \in [Ids -> [status : {"none", "open", "closed", "invalidated"}, peak : Peaks]]
      /\ \A i \in Ids : row'[i] = row[i] \/ (row[i].status = "open" /\ row'[i].status = "invalidated")
  BY <1>1 DEF Restart
<1> QED
  BY <1>1, <1>2, <1>3, DownInv

----------------------------------------------------------------------------
LEMMA InitIInv ==
    ASSUME Init
    PROVE  IInv
<1>1. \A k \in Keys : active[k].status = "none" /\ active[k].id \notin Ids
  BY PaperAssumption DEF Init, NoPaper
<1>2. TypeOK
  BY DEF Init, TypeOK, Idle, Reasons, Peaks
<1> QED
  BY <1>1, <1>2 DEF Init, IInv, MonitorInv, IdsInv, MemoryMatchesRows, InMemory, ProfitInv, ProfitOnce,
                    LadderInv, LadderBacked, Idle

LEMMA NextIInv ==
    ASSUME IInv, [Next]_vars
    PROVE  IInv'
<1>1. CASE UNCHANGED vars
  BY <1>1 DEF vars, IInv, TypeOK, MonitorInv, IdsInv, MemoryMatchesRows, InMemory, ProfitInv, ProfitOnce,
              LadderInv, LadderBacked
<1>2. ASSUME NEW k \in Keys, Schedule(k) PROVE IInv'
  BY <1>2, ScheduleInv
<1>3. ASSUME NEW k \in Keys, OpenFails(k) PROVE IInv'
  BY <1>3, OpenFailsInv
<1>4. ASSUME NEW k \in Keys, NEW o \in Outcomes, Open(k, o) PROVE IInv'
  BY <1>4, OpenInv
<1>5. CASE Cycle
  BY <1>5, CycleInv
<1>6. CASE Look
  BY <1>6, CycleDoneInv, LookResolvedInv, LookNothingInv, LookQuoteInv DEF Look
<1>7. ASSUME NEW k \in Keys, LookRaises(k) PROVE IInv'
  BY <1>7, LookRaisesInv
<1>8. ASSUME NEW raises \in BOOLEAN, Resolution(raises) PROVE IInv'
  BY <1>8, ResolutionInv
<1>9. CASE Write
  BY <1>9, CloseInv, FinalizeInv, ForgetInv DEF Write
<1>10. ASSUME NEW t \in tasks, Measure(t) PROVE IInv'
  BY <1>10, MeasureInv
<1>11. ASSUME NEW k \in Keys, Age(k) PROVE IInv'
  BY <1>11, AgeInv
<1>12. CASE Crash
  BY <1>12, CrashInv
<1>13. ASSUME NEW done \in BOOLEAN, Restart(done) PROVE IInv'
  BY <1>13, RestartInv
<1> QED
  BY <1>1, <1>2, <1>3, <1>4, <1>5, <1>6, <1>7, <1>8, <1>9, <1>10, <1>11, <1>12, <1>13 DEF Next

LEMMA Inductive == Spec => []IInv
<1>1. Init => IInv
  BY InitIInv
<1>2. IInv /\ [Next]_vars => IInv'
  BY NextIInv
<1> QED
  BY <1>1, <1>2, PTL DEF Spec

(* What is in memory, in the tables and at the monitor's hand has its      *)
(* type; a process that is down holds nothing.                             *)
THEOREM PaperTypeCorrect == Spec => []TypeOK
<1>1. IInv => TypeOK
  BY DEF IInv
<1> QED
  BY <1>1, Inductive, PTL

(* _active and shadow_positions agree, through failed and silent writes,   *)
(* deaths and restarts: no id is followed twice, what is followed has its  *)
(* open row, and an open row that nothing follows is one that a failed     *)
(* write or a death left.                                                  *)
THEOREM MemoryFollowsRows == Spec => []MemoryMatchesRows
<1>1. IInv => MemoryMatchesRows
  BY DEF IInv
<1> QED
  BY <1>1, Inductive, PTL

(* However the monitor is interrupted, a model's profit is inserted at     *)
(* most once for an id, and only for a row that _close_and_finalize()      *)
(* closed.                                                                 *)
THEOREM ProfitWrittenOnce == Spec => []ProfitOnce
<1>1. IInv => ProfitOnce
  BY DEF IInv, ProfitInv
<1> QED
  BY <1>1, Inductive, PTL

(* A take-profit line is below the mfe_peak of the row, however late       *)
(* _measure_tp_ladder() writes it.                                         *)
THEOREM LaddersBelowPeak == Spec => []LadderBacked
<1>1. IInv => LadderBacked
  BY DEF IInv, LadderInv
<1> QED
  BY <1>1, Inductive, PTL
=============================================================================
