---------------------------- MODULE Fills_proofs ----------------------------
(***************************************************************************)
(* Proofs about what fills add up to: the legs of the managed runner       *)
(* (ManagedExit) and the confirmed trades of an order of unknown fate      *)
(* (ArafResolution, names with AR).                                        *)
(*                                                                         *)
(* The events of an overlay say all there is to say about it: what the     *)
(* invariant IInv adds to the types is that the runtime in memory is the   *)
(* one its events make (MemoryIsRows), that what the latest leg calls left *)
(* is what all the legs have not taken (Balance), that an attempt has its  *)
(* own trigger (Follows), and that a run is ahead of what it polled        *)
(* (SeqsAhead), so that no two events of a type share a poll and a sum     *)
(* over events is one over legs.                                           *)
(*                                                                         *)
(* The rows of a page are honest: one that does not have the size of its   *)
(* trade has none or repeats one that has it (Honest).  Picking rows by    *)
(* their trade keeps them so, and honest rows without a clash are those of *)
(* distinct trades (Genuine), over which a sum of rows is one of trades.   *)
(***************************************************************************)
EXTENDS ManagedExit, ArafResolution,
        FiniteSetTheorems, SequenceTheorems, WellFoundedInduction, TLAPS

(***************************************************************************)
(* Sums over finite sets.  SumFunction takes the elements in the order in  *)
(* which CHOOSE yields them; what follows is that the order is of no       *)
(* consequence.                                                            *)
(***************************************************************************)
Some(s) == CHOOSE x \in s : TRUE
Sums(g, S, f) == g = [s \in SUBSET S |-> IF s = {} THEN 0 ELSE f[Some(s)] + g[s \ {Some(s)}]]
Total(S, f) == (CHOOSE g : Sums(g, S, f))[S]

LEMMA SomeMember ==
    ASSUME NEW s, s # {}
    PROVE  Some(s) \in s
BY DEF Some

(* A family of finite sets has a member of which no proper subset is one.  *)
LEMMA MinimalSet ==
    ASSUME NEW S, IsFiniteSet(S), NEW T, T \subseteq SUBSET S, T # {}
    PROVE  \E s \in T : \A u \in T : u \subseteq s => u = s
<1>1. IsWellFoundedOn(StrictSubsetOrdering(S), SUBSET S)
  BY FS_StrictSubsetOrderingWellFounded, FS_FiniteSubsetsOfFinite
<1>2. PICK s \in T : \A u \in T : ~(<<u, s>> \in StrictSubsetOrdering(S))
  BY <1>1, WFMin
<1> QED
  BY <1>2 DEF StrictSubsetOrdering

(* The sum of a set is the same wherever the set is part of. *)
LEMMA SumsAgree ==
    ASSUME NEW S, NEW R, NEW f, NEW h, NEW g, NEW e, Sums(g, S, f), Sums(e, R, h),
           NEW v, v \subseteq S, v \subseteq R, IsFiniteSet(v), \A x \in v : f[x] = h[x]
    PROVE  g[v] = e[v]
<1> DEFINE T == {s \in SUBSET v : g[s] # e[s]}
<1> SUFFICES ASSUME T # {} PROVE FALSE
  OBVIOUS
<1>1. PICK s \in T : \A u \in T : u \subseteq s => u = s
  <2>1. T \subseteq SUBSET v
    OBVIOUS
  <2> HIDE DEF T
  <2> QED
    BY <2>1, MinimalSet
<1>2. g[s] = IF s = {} THEN 0 ELSE f[Some(s)] + g[s \ {Some(s)}]
  BY <1>1 DEF Sums
<1>3. e[s] = IF s = {} THEN 0 ELSE h[Some(s)] + e[s \ {Some(s)}]
  BY <1>1 DEF Sums
<1>4. s # {}
  BY <1>1, <1>2, <1>3
<1>5. Some(s) \in s
  BY <1>4, SomeMember
<1>6. s \ {Some(s)} \in SUBSET v /\ s \ {Some(s)} # s
  BY <1>1, <1>5
<1>7. g[s \ {Some(s)}] = e[s \ {Some(s)}]
  BY <1>1, <1>6
<1> QED
  BY <1>1, <1>2, <1>3, <1>4, <1>5, <1>7

LEMMA SumExists ==
    ASSUME NEW S, IsFiniteSet(S), NEW f
    PROVE  \E g : Sums(g, S, f)
<1> DEFINE T == {s \in SUBSET S : ~\E g : Sums(g, s, f)}
<1> SUFFICES ASSUME T # {} PROVE FALSE
  BY DEF T
<1>1. PICK s \in T : \A u \in T : u \subseteq s => u = s
  <2>1. T \subseteq SUBSET S
    OBVIOUS
  <2> HIDE DEF T
  <2> QED
    BY <2>1, MinimalSet
<1> DEFINE G(u) == (CHOOSE g : Sums(g, u, f))[u]
           g == [u \in SUBSET s |-> IF u = {} THEN 0
                                    ELSE f[Some(u)] + G(u \ {Some(u)})]
<1>2. ASSUME NEW u \in SUBSET s, u # s
      PROVE  G(u) = g[u]
  <2>1. \E e : Sums(e, u, f)
    BY <1>1, <1>2
  <2>2. PICK e : e = (CHOOSE h : Sums(h, u, f)) /\ Sums(e, u, f)
    BY <2>1
  <2>3. G(u) = e[u]
    BY <2>2
  <2>4. e[u] = IF u = {} THEN 0 ELSE f[Some(u)] + e[u \ {Some(u)}]
    BY <2>2 DEF Sums
  <2>5. CASE u = {}
    BY <2>3, <2>4, <2>5
  <2>6. CASE u # {}
    <3> DEFINE w == u \ {Some(u)}
    <3>1. Some(u) \in u
      BY <2>6, SomeMember
    <3>2. w \in SUBSET S /\ w \subseteq s /\ w # s /\ IsFiniteSet(w)
      BY <1>1, <1>2, <3>1, FS_Subset
    <3>3. \E h : Sums(h, w, f)
      BY <1>1, <3>2
    <3>4. PICK h : h = (CHOOSE z : Sums(z, w, f)) /\ Sums(h, w, f)
      BY <3>3
    <3>5. e[w] = h[w]
      BY <2>2, <3>2, <3>4, SumsAgree
    <3>6. G(w) = h[w]
      BY <3>4
    <3> HIDE DEF G
    <3> QED
      BY <2>3, <2>4, <2>6, <3>5, <3>6
  <2> QED
    BY <2>5, <2>6
<1>3. ASSUME NEW u \in SUBSET s, u # {}
      PROVE  G(u \ {Some(u)}) = g[u \ {Some(u)}]
  <2>1. Some(u) \in u
    BY <1>3, SomeMember
  <2>2. u \ {Some(u)} \in SUBSET s /\ u \ {Some(u)} # s
    BY <2>1
  <2> HIDE DEF G, g
  <2> QED
    BY <1>2, <2>2
<1>4. Sums(g, s, f)
  <2> HIDE DEF G
  <2> QED
    BY <1>3 DEF Sums
<1> QED
  BY <1>1, <1>4

LEMMA TotalIsASum ==
    ASSUME NEW S, IsFiniteSet(S), NEW f
    PROVE  \E g : Sums(g, S, f) /\ Total(S, f) = g[S]
BY SumExists DEF Total

LEMMA TotalType ==
    ASSUME NEW S, IsFiniteSet(S), NEW f, \A x \in S : f[x] \in Int
    PROVE  Total(S, f) \in Int
<1>1. PICK g : Sums(g, S, f) /\ Total(S, f) = g[S]
  BY TotalIsASum
<1> DEFINE T == {s \in SUBSET S : g[s] \notin Int}
<1> SUFFICES ASSUME T # {} PROVE FALSE
  BY <1>1
<1>2. PICK s \in T : \A u \in T : u \subseteq s => u = s
  <2>1. T \subseteq SUBSET S
    OBVIOUS
  <2> HIDE DEF T
  <2> QED
    BY <2>1, MinimalSet
<1>3. g[s] = IF s = {} THEN 0 ELSE f[Some(s)] + g[s \ {Some(s)}]
  BY <1>1, <1>2 DEF Sums
<1>4. s # {} /\ Some(s) \in s
  BY <1>2, <1>3, SomeMember
<1>5. g[s \ {Some(s)}] \in Int
  BY <1>2, <1>4
<1> QED
  BY <1>2, <1>3, <1>4, <1>5

(* One element more, wherever CHOOSE finds it. *)
LEMMA SumsAdd ==
    ASSUME NEW S, IsFiniteSet(S), NEW f, \A y \in S : f[y] \in Int,
           NEW g, Sums(g, S, f), NEW z \in S
    PROVE  g[S] = f[z] + g[S \ {z}]
<1> DEFINE Bad(s, x) == g[s] # f[x] + g[s \ {x}]
           T == {s \in SUBSET S : \E x \in s : Bad(s, x)}
<1> SUFFICES ASSUME T # {} PROVE FALSE
  OBVIOUS
<1>1. PICK s \in T : \A u \in T : u \subseteq s => u = s
  <2>1. T \subseteq SUBSET S
    OBVIOUS
  <2> HIDE DEF T
  <2> QED
    BY <2>1, MinimalSet
<1>2. PICK x \in s : Bad(s, x)
  BY <1>1
<1>3. \A u \in SUBSET S : g[u] \in Int
  <2> TAKE u \in SUBSET S
  <2>1. IsFiniteSet(u) /\ \A y \in u : f[y] \in Int
    BY FS_Subset
  <2>2. PICK h : Sums(h, u, f) /\ Total(u, f) = h[u]
    BY <2>1, TotalIsASum
  <2>3. h[u] = g[u]
    BY <2>1, <2>2, SumsAgree
  <2>4. Total(u, f) \in Int
    BY <2>1, TotalType
  <2> QED
    BY <2>2, <2>3, <2>4
<1> DEFINE y == Some(s)
<1>4. y \in s /\ s \subseteq S
  BY <1>1, <1>2, SomeMember
<1>5. g[s] = f[y] + g[s \ {y}]
  BY <1>1, <1>2 DEF Sums
<1> HIDE DEF y
<1>6. y # x
  BY <1>2, <1>5
<1>7. g[s \ {y}] = f[x] + g[(s \ {y}) \ {x}]
  <2>1. s \ {y} \in SUBSET S /\ s \ {y} # s /\ x \in s \ {y}
    BY <1>2, <1>4, <1>6
  <2> QED
    BY <1>1, <2>1
<1>8. g[s \ {x}] = f[y] + g[(s \ {x}) \ {y}]
  <2>1. s \ {x} \in SUBSET S /\ s \ {x} # s /\ y \in s \ {x}
    BY <1>2, <1>4, <1>6
  <2> QED
    BY <1>1, <2>1
<1>9. (s \ {x}) \ {y} = (s \ {y}) \ {x}
  OBVIOUS
<1>10. f[x] \in Int /\ f[y] \in Int /\ g[(s \ {y}) \ {x}] \in Int
  BY <1>2, <1>3, <1>4
<1> DEFINE c == g[(s \ {y}) \ {x}]
<1>11. g[s] = f[y] + (f[x] + c) /\ g[s \ {x}] = f[y] + c /\ c \in Int
  BY <1>5, <1>7, <1>8, <1>9, <1>10
<1>12. g[s] # f[x] + g[s \ {x}]
  BY <1>2
<1> HIDE DEF c
<1> QED
  BY <1>10, <1>11, <1>12

LEMMA TotalEmpty ==
    ASSUME NEW f
    PROVE  Total({}, f) = 0
BY TotalIsASum, FS_EmptySet DEF Sums

(* Terms that agree give one sum. *)
LEMMA TotalAgrees ==
    ASSUME NEW S, IsFiniteSet(S), NEW f, NEW h, \A x \in S : f[x] = h[x]
    PROVE  Total(S, f) = Total(S, h)
<1>1. PICK g : Sums(g, S, f) /\ Total(S, f) = g[S]
  BY TotalIsASum
<1>2. PICK e : Sums(e, S, h) /\ Total(S, h) = e[S]
  BY TotalIsASum
<1> QED
  BY <1>1, <1>2, SumsAgree

LEMMA TotalAdd ==
    ASSUME NEW S, IsFiniteSet(S), NEW x, x \notin S, NEW f, \A y \in S \cup {x} : f[y] \in Int
    PROVE  Total(S \cup {x}, f) = f[x] + Total(S, f)
<1> DEFINE R == S \cup {x}
<1>1. IsFiniteSet(R) /\ R \ {x} = S /\ x \in R /\ S \subseteq R /\ \A y \in R : f[y] \in Int
  BY FS_AddElement
<1> HIDE DEF R
<1>2. PICK g : Sums(g, R, f) /\ Total(R, f) = g[R]
  BY <1>1, TotalIsASum
<1>3. g[R] = f[x] + g[S]
  <2>1. g[R] = f[x] + g[R \ {x}]
    BY <1>1, <1>2, SumsAdd
  <2> QED
    BY <1>1, <2>1
<1>4. PICK e : Sums(e, S, f) /\ Total(S, f) = e[S]
  BY TotalIsASum
<1>5. g[S] = e[S]
  BY <1>1, <1>2, <1>4, SumsAgree
<1> QED
  BY <1>2, <1>3, <1>4, <1>5 DEF R

----------------------------------------------------------------------------
(* The library's sum of a function is this one. *)
LEMMA SumIsTotal ==
    ASSUME NEW f, IsFiniteSet(DOMAIN f)
    PROVE  SumFunction(f) = Total(DOMAIN f, f)
<1> DEFINE S == DOMAIN f
           Is(g) == g = [s \in SUBSET S |-> IF s = {} THEN 0
                          ELSE f[CHOOSE x \in s : TRUE] + g[s \ {CHOOSE x \in s : TRUE}]]
<1>1. SumFunction(f) = (CHOOSE z : Is(z))[S]
  BY DEF SumFunction, SumFunctionOnSet, FoldFunctionOnSet, MapThenFoldSet
<1>2. \A g : Is(g) <=> Sums(g, S, f)
  BY DEF Sums, Some
<1>3. PICK g : Sums(g, S, f) /\ Total(S, f) = g[S]
  BY TotalIsASum
<1> HIDE DEF Is
<1>4. Is(CHOOSE z : Is(z))
  BY <1>2, <1>3
<1>5. (CHOOSE z : Is(z))[S] = g[S]
  <2> DEFINE e == CHOOSE z : Is(z)
  <2>1. Sums(e, S, f)
    BY <1>2, <1>4
  <2> HIDE DEF e
  <2>2. e[S] = g[S]
    BY <1>3, <2>1, SumsAgree
  <2> QED
    BY <2>2 DEF e
<1> QED
  BY <1>1, <1>3, <1>5

(* A sum is moved along an injection, ... *)
LEMMA TotalMoved ==
    ASSUME NEW S, IsFiniteSet(S), NEW f, NEW h, NEW m,
           \A x, y \in S : m[x] = m[y] => x = y,
           \A x \in S : f[x] \in Int /\ f[x] = h[m[x]]
    PROVE  Total({m[x] : x \in S}, h) = Total(S, f)
<1> DEFINE To(s) == {m[x] : x \in s}
           T == {s \in SUBSET S : Total(To(s), h) # Total(s, f)}
<1> SUFFICES ASSUME T # {} PROVE FALSE
  OBVIOUS
<1>1. PICK s \in T : \A u \in T : u \subseteq s => u = s
  <2>1. T \subseteq SUBSET S
    OBVIOUS
  <2> HIDE DEF T
  <2> QED
    BY <2>1, MinimalSet
<1>2. s \subseteq S /\ IsFiniteSet(s)
  BY FS_Subset
<1>3. s # {}
  <2>1. To({}) = {}
    OBVIOUS
  <2> QED
    BY <2>1, TotalEmpty
<1>4. PICK x : x \in s
  BY <1>3
<1> DEFINE r == s \ {x}
<1>5. Total(To(r), h) = Total(r, f)
  BY <1>1, <1>2, <1>4
<1>6. IsFiniteSet(r) /\ IsFiniteSet(To(r))
  <2>1. IsFiniteSet(r)
    BY <1>2, FS_RemoveElement
  <2>2. [y \in r |-> m[y]] \in Surjection(r, To(r))
    BY DEF Surjection
  <2> QED
    BY <2>1, <2>2, FS_Surjection
<1>7. Total(s, f) = f[x] + Total(r, f)
  <2>1. s = r \cup {x} /\ x \notin r /\ \A y \in r \cup {x} : f[y] \in Int
    BY <1>2, <1>4
  <2> HIDE DEF r
  <2> QED
    BY <2>1, <1>6, TotalAdd
<1>8. Total(To(s), h) = h[m[x]] + Total(To(r), h)
  <2> DEFINE q == To(r)  z == m[x]
  <2>1. To(s) = q \cup {z} /\ z \notin q
    BY <1>2, <1>4
  <2>2. \A y \in q \cup {z} : h[y] \in Int
    BY <1>2, <1>4
  <2>3. IsFiniteSet(q)
    BY <1>6
  <2> HIDE DEF q, z
  <2>4. Total(q \cup {z}, h) = h[z] + Total(q, h)
    BY <2>1, <2>2, <2>3, TotalAdd
  <2> QED
    BY <2>1, <2>4 DEF q, z
<1> QED
  BY <1>1, <1>2, <1>4, <1>5, <1>7, <1>8

(* ... and does not fall when the set grows by terms that are not negative. *)
LEMMA TotalGrows ==
    ASSUME NEW S, IsFiniteSet(S), NEW R, R \subseteq S, NEW f, \A x \in S : f[x] \in Nat
    PROVE  Total(R, f) \in Int /\ Total(S, f) \in Int /\ Total(R, f) <= Total(S, f)
<1>1. \A s \in SUBSET S : IsFiniteSet(s) /\ Total(s, f) \in Int
  <2> TAKE s \in SUBSET S
  <2>1. IsFiniteSet(s) /\ \A x \in s : f[x] \in Int
    BY FS_Subset
  <2> QED
    BY <2>1, TotalType
<1> DEFINE T == {s \in SUBSET (S \ R) : ~(Total(R, f) <= Total(R \cup s, f))}
<1>2. T = {}
  <2> SUFFICES ASSUME T # {} PROVE FALSE
    OBVIOUS
  <2>1. PICK s \in T : \A u \in T : u \subseteq s => u = s
    <3>1. T \subseteq SUBSET S
      OBVIOUS
    <3> HIDE DEF T
    <3> QED
      BY <3>1, MinimalSet
  <2>2. s \subseteq S \ R
    OBVIOUS
  <2>3. s # {}
    <3>1. R \cup {} = R
      OBVIOUS
    <3> QED
      BY <1>1, <3>1
  <2>4. PICK x : x \in s
    BY <2>3
  <2> DEFINE r == R \cup (s \ {x})
  <2>5. Total(R, f) <= Total(r, f)
    <3>1. s \ {x} \in SUBSET (S \ R) /\ s \ {x} # s
      BY <2>2, <2>4
    <3>2. s \ {x} \notin T
      BY <2>1, <3>1
    <3> QED
      BY <3>1, <3>2
  <2>6. Total(R \cup s, f) = f[x] + Total(r, f)
    <3>1. R \cup s = r \cup {x} /\ x \notin r /\ \A y \in r \cup {x} : f[y] \in Int
      BY <2>2, <2>4
    <3>2. IsFiniteSet(r)
      BY <1>1, <2>2
    <3> HIDE DEF r
    <3>3. Total(r \cup {x}, f) = f[x] + Total(r, f)
      BY <3>1, <3>2, TotalAdd
    <3> QED
      BY <3>1, <3>3
  <2>7. r \subseteq S /\ x \in S
    BY <2>2, <2>4
  <2> HIDE DEF r
  <2> QED
    BY <1>1, <2>1, <2>2, <2>5, <2>6, <2>7
<1>3. S = R \cup (S \ R)
  OBVIOUS
<1> QED
  BY <1>1, <1>2, <1>3

----------------------------------------------------------------------------
(* Largest numbers, quotients. *)
LEMMA MaxFact ==
    ASSUME NEW S, S \subseteq Int, IsFiniteSet(S), S # {}
    PROVE  Max(S) \in S /\ \A y \in S : y <= Max(S)
<1> DEFINE Above(x) == {y \in S : y > x}
           T == {Above(x) : x \in S}
<1>1. PICK s \in T : \A u \in T : u \subseteq s => u = s
  <2>1. T \subseteq SUBSET S
    OBVIOUS
  <2>2. T # {}
    OBVIOUS
  <2> HIDE DEF T
  <2>3. \E s \in T : \A u \in T : u \subseteq s => u = s
    BY ONLY <2>1, <2>2, IsFiniteSet(S), MinimalSet
  <2> QED
    BY <2>3
<1>2. PICK x \in S : s = Above(x)
  BY <1>1
<1>3. ASSUME NEW y \in S, y > x
      PROVE  FALSE
  <2>1. y \in Above(x) /\ ~(y > y)
    BY <1>3
  <2>2. \A z \in S : z > y => z > x
    BY <1>3
  <2>3. Above(y) \in T
    OBVIOUS
  <2> QED
    BY <1>1, <1>2, <2>1, <2>2, <2>3
<1>4. \A y \in S : y <= x
  BY <1>3
<1>5. \E z \in S : \A y \in S : z >= y
  BY <1>4
<1> QED
  BY <1>5 DEF Max

LEMMA Share ==
    ASSUME NEW a \in Nat, NEW q \in Nat, NEW d \in Nat \ {0}, q <= d
    PROVE  /\ (a * q) \div d \in Nat /\ (a * q) \div d <= a
           /\ q = d => (a * q) \div d = a
OBVIOUS
----------------------------------------------------------------------------
(***************************************************************************)
(* The inductive invariant.  What is in the events of an overlay, E, ...   *)
(***************************************************************************)
Of(E, type) == {e \in E : e.type = type}
Tries(E) == Of(E, "FILL") \cup Of(E, "NO_FILL")
Pnl(E) == Total(Of(E, "FILL"), [e \in Of(E, "FILL") |-> e.leg.pnl])
Sold(E) == Total(Of(E, "FILL"), [e \in Of(E, "FILL") |-> e.leg.quantity])
Spent(E) == Total(Of(E, "FILL"), [e \in Of(E, "FILL") |-> e.leg.cost])
Latest(E) == CHOOSE e \in Of(E, "FILL") : e.seq = LastSeq(Of(E, "FILL"))
Left(E, p, k) == IF Of(E, "FILL") = {} THEN FullQuantity(p, k) ELSE Latest(E).leg.left
CostLeft(E, p, k) == IF Of(E, "FILL") = {} THEN FullCost(p, k) ELSE Latest(E).leg.costLeft
Pending(E) == LastSeq(Of(E, "TRIGGER")) > LastSeq(Tries(E))
Built(E, p, k) ==
    [state |-> IF Pending(E) THEN "pending" ELSE "monitoring",
     quantity |-> Left(E, p, k), cost |-> CostLeft(E, p, k), pnl |-> Pnl(E)]

Legs == [quantity : Nat, cost : Nat, pnl : Int, left : Nat, costLeft : Nat]
Events == [type : {"TRIGGER", "NO_FILL"}, seq : Nat \ {0}]
          \cup [type : {"FILL"}, seq : Nat \ {0}, leg : Legs]
          \cup [type : {"RESOLUTION_SETTLE"}, seq : {0}, quantity : Nat, pnl : Int]

EventsOk(E) ==
    /\ IsFiniteSet(E) /\ E \subseteq Events
    /\ \A e, f \in E : e.type = f.type /\ e.seq = f.seq => e = f
Follows(E) ==
    \A e \in Tries(E) : \E t \in Of(E, "TRIGGER") :
        t.seq < e.seq /\ \A f \in Tries(E) : f.seq < e.seq => f.seq < t.seq
Balance(E, p, k) ==
    /\ Left(E, p, k) \in Nat /\ CostLeft(E, p, k) \in Nat
    /\ Left(E, p, k) = 0 => CostLeft(E, p, k) = 0
    /\ Left(E, p, k) = FullQuantity(p, k) - Sold(E)
    /\ CostLeft(E, p, k) = FullCost(p, k) - Spent(E)
Sound(E, p, k) == EventsOk(E) /\ Follows(E) /\ Balance(E, p, k)

(***************************************************************************)
(* ... the types of the rest, ...                                          *)
(***************************************************************************)
Runtimes == [state : {"monitoring", "pending", "closed"}, quantity : Nat, cost : Nat, pnl : Int]
FilledStatuses ==
    {"TIME_STOP_FILLED", "MODEL_PREMIUM_EXIT_FILLED", "ENTRY_THESIS_INVALIDATION_FILLED", "TP_EXIT_FILLED"}
Statuses ==
    FilledStatuses \cup {"none", "STAGED_AGGREGATE", "GAMMA_CLOB_CONFLICT_FAIL_CLOSED",
                        "RESOLVED_HOLD", "RESOLVED_RESIDUAL"}
TerminalRows == [status : Statuses, known : BOOLEAN, pnl : Int]
Mems == [run.open -> [KeySet -> Runtimes]]
Seqs == [run.open -> Nat \ {0}]
IdleSteps == {"admit", "cycle"}
SettleSteps == {"settle", "settled", "drop"}
SellSteps == {"advance", "close"}
IdleRuns == [step : IdleSteps, todo : SUBSET Positions, open : SUBSET Positions, mem : Mems, seq : Seqs]
BusyRuns(steps, given) ==
    [step : steps, todo : SUBSET Positions, open : SUBSET Positions, mem : Mems, seq : Seqs,
     at : Positions, keys : Seq(KeySet), given : given]
Snapshots == [bid : Bids, late : BOOLEAN, fair : Fairs \cup {NoFair}]

TablesTyped ==
    /\ starts \in Nat /\ g8 \subseteq Positions
    /\ clock \in [Windows -> {"early", "late", "ended"}]
    /\ winner \in [Positions -> BOOLEAN]
    /\ row \in [Positions -> {"none", "PAPER_OPEN", "PAPER_CLOSED"}]
    /\ polls \in [Positions -> Nat]
    /\ events \in [Positions -> [KeySet -> SUBSET Events]]
    /\ terminal \in [Positions -> [KeySet \cup {Staged} -> TerminalRows]]
RunTyped ==
    /\ run.step \in {"down"} \cup IdleSteps \cup SettleSteps \cup SellSteps
    /\ run.step = "down" => run = Down
    /\ run.step \in IdleSteps => run \in IdleRuns
    /\ run.step \in SettleSteps => run \in BusyRuns(SettleSteps, {"resolved", "conflict"})
    /\ run.step \in SellSteps => run \in BusyRuns(SellSteps, Snapshots)

Distinct(s) == \A i, j \in DOMAIN s : s[i] = s[j] => i = j
Members(s) == {s[i] : i \in DOMAIN s}
RunShaped ==
    run # Down =>
        /\ run.step # "admit" => run.todo \subseteq run.open
        /\ run.step \notin IdleSteps => run.at \in run.open /\ Distinct(run.keys)
        /\ run.step \in {"close", "settled"} => run.keys # <<>> /\ Runtime.state # "closed"

(***************************************************************************)
(* ... and how they agree.                                                 *)
(***************************************************************************)
Pristine ==
    \A p \in Positions :
        polls[p] = 0 /\ \A k \in KeySet : events[p][k] = {} /\ terminal[p][k] = NoRow
FirstRun ==
    /\ starts = 0 => Pristine /\ run = Down
    /\ run.step = "admit" /\ ~Resumed => Pristine

EventsSound == \A p \in Positions, k \in KeySet : Sound(events[p][k], p, k)
EventsPolled == \A p \in Positions, k \in KeySet : \A e \in events[p][k] : e.seq <= polls[p]

\* The overlays whose turn is yet to come.
Waiting == IF run.step = "close" THEN Members(Tail(run.keys)) ELSE Members(run.keys)
Selling(p) == run.step \in SellSteps /\ run.at = p
SeqsAhead ==
    run # Down => \A p \in run.open :
        IF Selling(p)
        THEN /\ polls[p] = run.seq[p]
             /\ \A k \in Waiting : \A e \in events[p][k] : e.seq < run.seq[p]
        ELSE polls[p] < run.seq[p]

MemoryIsRows ==
    run # Down => \A p \in run.open, k \in KeySet :
        \/ run.mem[p][k].state = "closed" /\ terminal[p][k] # NoRow
        \/ run.mem[p][k] = Built(events[p][k], p, k) /\ terminal[p][k] = NoRow

SoldOut == run.step = "close" => Runtime.quantity = 0
Answered ==
    /\ run.step \in {"settle", "settled"} /\ run.given = "resolved" => clock[WindowOf[run.at]] = "ended"
    /\ run.step = "settled" => run.given = "resolved"
Settled ==
    run.step \in {"settle", "settled"} =>
        \A k \in KeySet : k \in Members(run.keys) \/ terminal[run.at][k] # NoRow

TerminalAddsUp(p, k) ==
    terminal[p][k].known =>
        \/ /\ terminal[p][k].status \in {"RESOLVED_HOLD", "RESOLVED_RESIDUAL"}
           /\ clock[WindowOf[p]] = "ended"
           /\ terminal[p][k].pnl =
                 Pnl(events[p][k]) + Payout(p, Left(events[p][k], p, k)) - CostLeft(events[p][k], p, k)
        \/ terminal[p][k].pnl = Pnl(events[p][k]) /\ Left(events[p][k], p, k) = 0
TrancheSum(rows) == Total(TrancheSet, [k \in TrancheSet |-> rows[k].pnl])
StagedAddsUp(p) ==
    terminal[p][Staged] # NoRow =>
        /\ \A k \in TrancheSet : terminal[p][k] # NoRow
        /\ terminal[p][Staged].known => terminal[p][Staged].pnl = TrancheSum(terminal[p])
TerminalsAddUp ==
    \A p \in Positions :
        /\ \A k \in KeySet : TerminalAddsUp(p, k)
        /\ StagedAddsUp(p)
        /\ row[p] = "PAPER_CLOSED" => \A k \in KeySet : terminal[p][k] # NoRow

IInv ==
    /\ TablesTyped /\ RunTyped /\ RunShaped
    /\ FirstRun /\ EventsSound /\ EventsPolled /\ SeqsAhead
    /\ MemoryIsRows /\ SoldOut /\ Answered /\ Settled /\ TerminalsAddUp
----------------------------------------------------------------------------
(* Keys and amounts. *)
LEMMA KeyFacts ==
    /\ Keys \in Seq(KeySet) /\ Members(Keys) = KeySet /\ Distinct(Keys)
    /\ TrancheSet \subseteq KeySet /\ IsFiniteSet(TrancheSet) /\ Staged \notin KeySet
<1> DEFINE names == {"HOLD_CONTROL", "TP_15_FULL", "TP_20_FULL", "TP_30_FULL", "TIME_STOP_T120",
                     "MODEL_PREMIUM_EXIT", "ENTRY_THESIS_INVALIDATION"}
           n == Len(Simple)
<1>1. Simple \in Seq(names) /\ Distinct(Simple)
  BY ManagedAssumption DEF Distinct
<1> HIDE DEF names
<1>2. n \in Nat /\ DOMAIN Simple = 1..n /\ \A i \in 1..n : Simple[i] \in names
  BY <1>1
<1>3. Len(Tranches) = 3 /\ DOMAIN Tranches = 1..3 /\ Tranches \in Seq(TrancheSet)
  BY DEF Tranches, TrancheSet
<1>4. Tranches[1] = "STAGED#0" /\ Tranches[2] = "STAGED#1" /\ Tranches[3] = "STAGED#2"
  BY DEF Tranches
<1>5. TrancheSet = {"STAGED#0", "STAGED#1", "STAGED#2"}
  BY <1>3, <1>4 DEF TrancheSet
<1>6. names \cap TrancheSet = {} /\ Staged \notin names /\ Staged \notin TrancheSet
  BY <1>5 DEF names, Staged
<1>7. Keys \in Seq(names \cup TrancheSet) /\ Len(Keys) = n + 3
  <2>1. Simple \in Seq(names \cup TrancheSet) /\ Tranches \in Seq(names \cup TrancheSet)
    BY <1>1, <1>2, <1>3
  <2>2. Simple \o Tranches \in Seq(names \cup TrancheSet)
    BY <2>1
  <2>3. Len(Simple \o Tranches) = Len(Simple) + Len(Tranches)
    BY <2>1
  <2> QED
    BY <2>2, <2>3, <1>3 DEF Keys
<1>8. /\ DOMAIN Keys = 1..(n + 3)
      /\ \A i \in 1..n : Keys[i] = Simple[i]
      /\ \A i \in (n + 1)..(n + 3) : Keys[i] = Tranches[i - n]
  <2>1. Simple \in Seq(names \cup TrancheSet) /\ Tranches \in Seq(names \cup TrancheSet)
    BY <1>1, <1>2, <1>3
  <2> QED
    BY <2>1, <1>2, <1>3, <1>7 DEF Keys
<1>9. Distinct(Keys)
  <2> SUFFICES ASSUME NEW i \in 1..(n + 3), NEW j \in 1..(n + 3), Keys[i] = Keys[j]
               PROVE  i = j
    BY <1>8 DEF Distinct
  <2>1. CASE i \in 1..n /\ j \in 1..n
    BY <2>1, <1>1, <1>2, <1>8 DEF Distinct
  <2>2. CASE i \notin 1..n /\ j \notin 1..n
    <3>1. i - n \in 1..3 /\ j - n \in 1..3 /\ Tranches[i - n] = Tranches[j - n]
      BY <2>2, <1>2, <1>8
    <3>2. i - n = j - n
      BY <3>1, <1>4
    <3> QED
      BY <3>2, <1>2
  <2>3. \A a \in 1..n, b \in (n + 1)..(n + 3) : Keys[a] # Keys[b]
    <3> TAKE a \in 1..n, b \in (n + 1)..(n + 3)
    <3>1. Keys[a] \in names
      BY <1>2, <1>8
    <3>2. b - n \in 1..3
      BY <1>2
    <3>3. Keys[b] \in TrancheSet
      BY <3>2, <1>3, <1>8 DEF TrancheSet
    <3> QED
      BY <3>1, <3>3, <1>6
  <2> QED
    BY <2>1, <2>2, <2>3, <1>2
<1>10. KeySet = Members(Keys)
  BY DEF KeySet, Members
<1>11. \A i \in 1..(n + 3) : Keys[i] \in KeySet
  BY <1>8 DEF KeySet
<1>12. Keys \in Seq(KeySet)
  BY <1>7, <1>8, <1>11
<1>13. TrancheSet \subseteq KeySet
  <2>1. \A i \in 1..3 : n + i \in 1..(n + 3) /\ Keys[n + i] = Tranches[i]
    BY <1>2, <1>8
  <2>2. \A i \in 1..3 : Tranches[i] \in KeySet
    BY <2>1, <1>11
  <2> QED
    BY <2>2, <1>3 DEF TrancheSet
<1>14. KeySet \subseteq names \cup TrancheSet
  BY <1>7, <1>8 DEF KeySet
<1>15. IsFiniteSet(TrancheSet)
  <2>1. IsFiniteSet({"STAGED#0"})
    BY FS_Singleton
  <2>2. IsFiniteSet({"STAGED#0"} \cup {"STAGED#1"})
    BY <2>1, FS_AddElement
  <2>3. IsFiniteSet(({"STAGED#0"} \cup {"STAGED#1"}) \cup {"STAGED#2"})
    BY <2>2, FS_AddElement
  <2>4. TrancheSet = ({"STAGED#0"} \cup {"STAGED#1"}) \cup {"STAGED#2"}
    BY <1>5
  <2> QED
    BY <2>3, <2>4
<1> QED
  BY <1>6, <1>9, <1>10, <1>12, <1>13, <1>14, <1>15

LEMMA FeeFact ==
    ASSUME NEW q \in Nat, NEW price \in 1..100
    PROVE  Fee(q, price) \in Nat
<1>1. FeeRate \in Nat
  BY ManagedAssumption
<1>2. 100 - price \in Nat /\ price \in Nat
  OBVIOUS
<1>3. q * price \in Nat
  BY <1>2
<1>4. q * price * (100 - price) \in Nat
  BY <1>2, <1>3
<1>5. q * price * (100 - price) * FeeRate \in Nat
  BY <1>1, <1>4
<1> QED
  BY <1>5 DEF Fee

LEMMA Amounts ==
    ASSUME NEW p \in Positions, NEW k \in KeySet
    PROVE  /\ FullQuantity(p, k) \in Nat /\ FullQuantity(p, k) > 0
           /\ FullCost(p, k) \in Nat
<1>1. AskOf[p] \in 1..100 /\ QuantityOf[p] \in Nat /\ QuantityOf[p] >= 3
  BY ManagedAssumption
<1>2. EntryCost(p) \in Nat
  <2>1. AskOf[p] * QuantityOf[p] \in Nat
    BY <1>1
  <2>2. Fee(QuantityOf[p], AskOf[p]) \in Nat
    BY <1>1, FeeFact
  <2> QED
    BY <2>1, <2>2 DEF EntryCost
<1>3. Third(p) \in Nat /\ Third(p) > 0 /\ 2 * Third(p) < QuantityOf[p]
  BY <1>1 DEF Third
<1>4. ThirdCost(p) \in Nat /\ 2 * ThirdCost(p) <= EntryCost(p)
  <2> DEFINE c == EntryCost(p)
             t == Third(p)
             q == QuantityOf[p]
             d == (c * t) \div q
  <2>1. c \in Nat /\ t \in Nat /\ q \in Nat \ {0} /\ 2 * t < q
    BY <1>1, <1>2, <1>3
  <2> HIDE DEF c, t, q
  <2>2. c * t \in Nat
    BY <2>1
  <2>3. d \in Nat /\ d * q <= c * t
    BY <2>1, <2>2
  <2> HIDE DEF d
  <2>4. ASSUME 2 * d > c
        PROVE  FALSE
    <3>1. (2 * d) * q = 2 * (d * q) /\ c * (2 * t) = 2 * (c * t)
      BY <2>1, <2>3
    <3>2. c * (2 * t) <= c * q
      BY <2>1
    <3>3. (2 * d) * q > c * q
      BY <2>1, <2>3, <2>4
    <3> QED
      BY <2>1, <2>2, <2>3, <3>1, <3>2, <3>3
  <2>5. d = ThirdCost(p)
    BY DEF d, c, t, q, ThirdCost
  <2> QED
    BY <2>1, <2>3, <2>4, <2>5 DEF c
<1> QED
  BY <1>1, <1>2, <1>3, <1>4 DEF FullQuantity, FullCost

----------------------------------------------------------------------------
(* Events of one overlay. *)
LEMMA SeqType ==
    ASSUME NEW e \in Events
    PROVE  e.seq \in Nat
BY DEF Events

LEMMA LastSeqFact ==
    ASSUME NEW es, es \subseteq Events, IsFiniteSet(es)
    PROVE  /\ LastSeq(es) \in Nat
           /\ \A e \in es : e.seq <= LastSeq(es)
           /\ LastSeq(es) = 0 \/ \E e \in es : e.seq = LastSeq(es)
<1> DEFINE S == {0} \cup {e.seq : e \in es}
<1>1. \A e \in es : e.seq \in Nat
  BY SeqType
<1>2. S \subseteq Int /\ S # {}
  BY <1>1
<1>3. IsFiniteSet(S)
  <2>1. IsFiniteSet({e.seq : e \in es})
    <3> DEFINE T == {e.seq : e \in es}
    <3>1. [e \in es |-> e.seq] \in Surjection(es, T)
      BY DEF Surjection
    <3> HIDE DEF T
    <3>2. IsFiniteSet(T)
      BY <3>1, FS_Surjection
    <3> QED
      BY <3>2 DEF T
  <2>2. IsFiniteSet({e.seq : e \in es} \cup {0})
    BY <2>1, FS_AddElement
  <2>3. S = {e.seq : e \in es} \cup {0}
    OBVIOUS
  <2> QED
    BY <2>2, <2>3
<1>4. LastSeq(es) = Max(S)
  BY DEF LastSeq
<1>5. Max(S) \in S /\ \A y \in S : y <= Max(S)
  <2> HIDE DEF S
  <2>1. Max(S) \in S /\ \A y \in S : y <= Max(S)
    BY ONLY <1>2, <1>3, MaxFact
  <2> QED
    BY <2>1
<1> DEFINE m == Max(S)
<1> HIDE DEF m
<1>6. m \in S /\ (\A y \in S : y <= m) /\ LastSeq(es) = m
  BY <1>4, <1>5 DEF m
<1> QED
  BY <1>1, <1>6

LEMMA LastSeqIs ==
    ASSUME NEW es, es \subseteq Events, IsFiniteSet(es), NEW e \in es, \A f \in es : f.seq <= e.seq
    PROVE  LastSeq(es) = e.seq
<1>1. e.seq \in Nat /\ LastSeq(es) \in Nat /\ e.seq <= LastSeq(es)
  BY LastSeqFact, SeqType
<1>2. LastSeq(es) <= e.seq
  BY <1>1, LastSeqFact
<1> QED
  BY <1>1, <1>2

LEMMA OfFinite ==
    ASSUME NEW E, EventsOk(E), NEW type
    PROVE  Of(E, type) \subseteq Events /\ IsFiniteSet(Of(E, type)) /\ Of(E, type) \subseteq E
<1>1. IsFiniteSet(E) /\ Of(E, type) \subseteq E
  BY DEF EventsOk, Of
<1> QED
  BY <1>1, FS_Subset DEF EventsOk

LEMMA TriesFinite ==
    ASSUME NEW E, EventsOk(E)
    PROVE  Tries(E) \subseteq Events /\ IsFiniteSet(Tries(E)) /\ Tries(E) \subseteq E
<1>1. Tries(E) \subseteq E
  BY DEF Tries, Of
<1> QED
  BY <1>1, FS_Subset DEF EventsOk

LEMMA SameFills ==
    ASSUME NEW E, NEW F, Of(F, "FILL") = Of(E, "FILL"), NEW p, NEW k
    PROVE  /\ Pnl(F) = Pnl(E) /\ Sold(F) = Sold(E) /\ Spent(F) = Spent(E)
           /\ Left(F, p, k) = Left(E, p, k) /\ CostLeft(F, p, k) = CostLeft(E, p, k)
<1>1. Pnl(F) = Pnl(E) /\ Sold(F) = Sold(E) /\ Spent(F) = Spent(E)
  BY DEF Pnl, Sold, Spent
<1>2. Latest(F) = Latest(E)
  BY DEF Latest
<1> QED
  BY <1>1, <1>2 DEF Left, CostLeft

LEMMA EventAdded ==
    ASSUME NEW E, EventsOk(E), NEW x \in Events, \A e \in E : ~(e.type = x.type /\ e.seq = x.seq)
    PROVE  EventsOk(E \cup {x})
<1>1. IsFiniteSet(E \cup {x})
  BY FS_AddElement DEF EventsOk
<1> QED
  BY <1>1 DEF EventsOk

LEMMA RehydratedIs ==
    ASSUME NEW p \in Positions, NEW k \in KeySet, EventsOk(events[p][k]), terminal[p][k] = NoRow
    PROVE  Rehydrated(p, k) = Built(events[p][k], p, k)
<1> DEFINE E == events[p][k]
           L == Of(E, "FILL")
<1>1. IsFiniteSet(L)
  BY OfFinite
<1>2. SumFunction([e \in L |-> e.leg.pnl]) = Pnl(E)
  BY <1>1, SumIsTotal DEF Pnl
<1>3. /\ OfType(p, k, "FILL") = L
      /\ OfType(p, k, "TRIGGER") = Of(E, "TRIGGER")
      /\ Attempts(p, k) = Tries(E)
  BY DEF OfType, Of, Attempts, Tries
<1>4. SumFunction([e \in OfType(p, k, "FILL") |-> e.leg.pnl]) = Pnl(E)
  <2>1. OfType(p, k, "FILL") = L
    BY <1>3
  <2> HIDE DEF L
  <2> QED
    BY <1>1, <2>1, SumIsTotal DEF Pnl, L
<1> DEFINE legs == OfType(p, k, "FILL")
           last == CHOOSE e \in legs : e.seq = LastSeq(legs)
           sum == SumFunction([e \in legs |-> e.leg.pnl])
<1>5. Rehydrated(p, k) =
         [state |-> IF LastSeq(OfType(p, k, "TRIGGER")) > LastSeq(Attempts(p, k))
                    THEN "pending" ELSE "monitoring",
          quantity |-> IF legs = {} THEN FullQuantity(p, k) ELSE last.leg.left,
          cost |-> IF legs = {} THEN FullCost(p, k) ELSE last.leg.costLeft,
          pnl |-> sum]
  BY DEF Rehydrated
<1>6. last = Latest(E)
  BY <1>3 DEF Latest
<1>7. sum = Pnl(E)
  BY <1>4
<1> HIDE DEF sum, last, legs
<1>8. legs = Of(E, "FILL")
  BY <1>3 DEF legs
<1> QED
  BY <1>3, <1>5, <1>6, <1>7, <1>8 DEF Built, Left, CostLeft, Pending

(* What a new event adds. *)
Later(E, s) == s \in Nat \ {0} /\ \A e \in E : e.seq < s

LEMMA FollowsSame ==
    ASSUME NEW E, NEW F, Follows(E), Tries(F) = Tries(E), Of(E, "TRIGGER") \subseteq Of(F, "TRIGGER")
    PROVE  Follows(F)
BY DEF Follows

LEMMA AddTrigger ==
    ASSUME NEW p, NEW k, NEW E, Sound(E, p, k), NEW s, Later(E, s),
           NEW F, F = E \cup {Event("TRIGGER", s)}
    PROVE  /\ Sound(F, p, k)
           /\ Built(F, p, k) = [Built(E, p, k) EXCEPT !.state = "pending"]
           /\ Pnl(F) = Pnl(E) /\ Left(F, p, k) = Left(E, p, k) /\ CostLeft(F, p, k) = CostLeft(E, p, k)
<1> DEFINE x == Event("TRIGGER", s)
<1>1. x.type = "TRIGGER" /\ x.seq = s /\ x \in Events /\ F = E \cup {x}
  BY DEF Later, Event, Events
<1> HIDE DEF x
<1>2. EventsOk(E) /\ Follows(E) /\ Balance(E, p, k)
  BY DEF Sound
<1>3. \A e \in E : e.seq \in Nat /\ e.seq < s
  BY <1>2, SeqType DEF EventsOk, Later
<1>4. EventsOk(F)
  BY <1>1, <1>2, <1>3, EventAdded DEF Later
<1>5. /\ Of(F, "FILL") = Of(E, "FILL") /\ Of(F, "NO_FILL") = Of(E, "NO_FILL")
      /\ Of(F, "TRIGGER") = Of(E, "TRIGGER") \cup {x}
  BY <1>1 DEF Of
<1>6. Tries(F) = Tries(E)
  BY <1>5 DEF Tries
<1>7. /\ Pnl(F) = Pnl(E) /\ Sold(F) = Sold(E) /\ Spent(F) = Spent(E)
      /\ Left(F, p, k) = Left(E, p, k) /\ CostLeft(F, p, k) = CostLeft(E, p, k)
  BY <1>5, SameFills
<1>8. Pending(F)
  <2>1. LastSeq(Of(F, "TRIGGER")) = s
    <3>1. Of(F, "TRIGGER") \subseteq Events /\ IsFiniteSet(Of(F, "TRIGGER")) /\ Of(F, "TRIGGER") \subseteq F
      BY <1>4, OfFinite
    <3>2. x \in Of(F, "TRIGGER") /\ \A e \in Of(F, "TRIGGER") : e.seq <= x.seq
      BY <1>1, <1>3, <1>5, <3>1 DEF Later
    <3> QED
      BY <1>1, <3>1, <3>2, LastSeqIs
  <2>2. LastSeq(Tries(E)) \in Nat /\ LastSeq(Tries(E)) < s
    <3>1. Tries(E) \subseteq Events /\ IsFiniteSet(Tries(E)) /\ Tries(E) \subseteq E
      BY <1>2, TriesFinite
    <3> QED
      BY <3>1, <1>3, LastSeqFact DEF Later
  <2> QED
    BY <1>6, <2>1, <2>2 DEF Pending, Later
<1>9. Follows(F)
  BY <1>2, <1>5, <1>6, FollowsSame
<1>10. Balance(F, p, k)
  BY <1>2, <1>7 DEF Balance
<1> QED
  BY <1>4, <1>7, <1>8, <1>9, <1>10 DEF Sound, Built

(* An attempt after a pending trigger. *)
LEMMA AddTry ==
    ASSUME NEW E, EventsOk(E), Follows(E), Pending(E), NEW s, Later(E, s), NEW x \in Events,
           x.type \in {"FILL", "NO_FILL"}, x.seq = s, NEW F, F = E \cup {x}
    PROVE  EventsOk(F) /\ Follows(F) /\ ~Pending(F)
<1>1. \A e \in E : e.seq \in Nat /\ e.seq < s
  BY SeqType DEF EventsOk, Later
<1>2. EventsOk(F)
  BY <1>1, EventAdded DEF Later
<1>3. Tries(F) = Tries(E) \cup {x} /\ Of(F, "TRIGGER") = Of(E, "TRIGGER")
  BY DEF Tries, Of
<1>4. Tries(E) \subseteq E /\ Of(E, "TRIGGER") \subseteq E
  BY DEF Tries, Of
<1>5. /\ LastSeq(Of(E, "TRIGGER")) \in Nat /\ LastSeq(Tries(E)) \in Nat
      /\ LastSeq(Of(E, "TRIGGER")) > LastSeq(Tries(E))
      /\ \A e \in Tries(E) : e.seq <= LastSeq(Tries(E))
      /\ LastSeq(Of(E, "TRIGGER")) = 0 \/ \E t \in Of(E, "TRIGGER") : t.seq = LastSeq(Of(E, "TRIGGER"))
  BY OfFinite, TriesFinite, LastSeqFact DEF Pending
<1>6. PICK t \in Of(E, "TRIGGER") : t.seq = LastSeq(Of(E, "TRIGGER"))
  BY <1>5
<1>7. t.seq < s /\ \A f \in Tries(E) : f.seq < t.seq
  BY <1>1, <1>4, <1>5, <1>6
<1>8. Follows(F)
  <2> SUFFICES ASSUME NEW e \in Tries(F)
               PROVE  \E u \in Of(F, "TRIGGER") :
                          u.seq < e.seq /\ \A f \in Tries(F) : f.seq < e.seq => f.seq < u.seq
    BY DEF Follows
  <2>1. CASE e = x
    <3>1. \A f \in Tries(F) : f.seq < e.seq => f.seq < t.seq
      BY <2>1, <1>3, <1>7 DEF Later
    <3> QED
      BY <2>1, <3>1, <1>3, <1>7
  <2>2. CASE e # x
    <3>1. e \in Tries(E)
      BY <2>2, <1>3
    <3>2. PICK u \in Of(E, "TRIGGER") :
              u.seq < e.seq /\ \A f \in Tries(E) : f.seq < e.seq => f.seq < u.seq
      BY <3>1 DEF Follows
    <3>3. ~(x.seq < e.seq)
      BY <1>1, <1>4, <3>1 DEF Later
    <3> QED
      BY <1>3, <3>2, <3>3
  <2> QED
    BY <2>1, <2>2
<1>9. ~Pending(F)
  <2>1. LastSeq(Tries(F)) = s
    <3>1. Tries(F) \subseteq Events /\ IsFiniteSet(Tries(F))
      BY <1>2, TriesFinite
    <3>2. x \in Tries(F) /\ \A e \in Tries(F) : e = x \/ e.seq < x.seq
      BY <1>1, <1>3, <1>4
    <3>3. \A e \in Tries(F) : e.seq \in Nat
      BY <3>1, SeqType
    <3>4. \A e \in Tries(F) : e.seq <= x.seq
      BY <3>2, <3>3
    <3> QED
      BY <3>1, <3>2, <3>4, LastSeqIs
  <2>2. LastSeq(Of(F, "TRIGGER")) < s
    BY <1>1, <1>3, <1>4, <1>6
  <2> QED
    BY <1>3, <1>5, <2>1, <2>2 DEF Pending, Later
<1> QED
  BY <1>2, <1>8, <1>9

LEMMA AddNoFill ==
    ASSUME NEW p, NEW k, NEW E, Sound(E, p, k), Pending(E), NEW s, Later(E, s),
           NEW F, F = E \cup {Event("NO_FILL", s)}
    PROVE  /\ Sound(F, p, k)
           /\ Built(F, p, k) = [Built(E, p, k) EXCEPT !.state = "monitoring"]
           /\ Pnl(F) = Pnl(E) /\ Left(F, p, k) = Left(E, p, k) /\ CostLeft(F, p, k) = CostLeft(E, p, k)
<1> DEFINE x == Event("NO_FILL", s)
<1>1. x.type = "NO_FILL" /\ x.seq = s /\ x \in Events /\ F = E \cup {x}
  BY DEF Later, Event, Events
<1> HIDE DEF x
<1>2. EventsOk(E) /\ Follows(E) /\ Balance(E, p, k)
  BY DEF Sound
<1>3. EventsOk(F) /\ Follows(F) /\ ~Pending(F)
  BY <1>1, <1>2, AddTry
<1>4. Of(F, "FILL") = Of(E, "FILL")
  BY <1>1 DEF Of
<1>5. /\ Pnl(F) = Pnl(E) /\ Sold(F) = Sold(E) /\ Spent(F) = Spent(E)
      /\ Left(F, p, k) = Left(E, p, k) /\ CostLeft(F, p, k) = CostLeft(E, p, k)
  BY <1>4, SameFills
<1>6. Balance(F, p, k)
  BY <1>2, <1>5 DEF Balance
<1> QED
  BY <1>3, <1>5, <1>6 DEF Sound, Built

LEMMA AddSettle ==
    ASSUME NEW p, NEW k, NEW E, Sound(E, p, k), NEW x \in Events, x.type = "RESOLUTION_SETTLE",
           \A e \in E : ~(e.type = x.type /\ e.seq = x.seq), NEW F, F = E \cup {x}
    PROVE  /\ Sound(F, p, k)
           /\ Built(F, p, k) = Built(E, p, k)
           /\ Pnl(F) = Pnl(E) /\ Left(F, p, k) = Left(E, p, k) /\ CostLeft(F, p, k) = CostLeft(E, p, k)
<1>1. EventsOk(E) /\ Follows(E) /\ Balance(E, p, k)
  BY DEF Sound
<1>2. EventsOk(F)
  BY <1>1, EventAdded
<1>3. /\ Of(F, "FILL") = Of(E, "FILL") /\ Of(F, "NO_FILL") = Of(E, "NO_FILL")
      /\ Of(F, "TRIGGER") = Of(E, "TRIGGER")
  BY DEF Of
<1>4. Tries(F) = Tries(E)
  BY <1>3 DEF Tries
<1>5. /\ Pnl(F) = Pnl(E) /\ Sold(F) = Sold(E) /\ Spent(F) = Spent(E)
      /\ Left(F, p, k) = Left(E, p, k) /\ CostLeft(F, p, k) = CostLeft(E, p, k)
  BY <1>3, SameFills
<1>6. Follows(F) /\ Balance(F, p, k) /\ (Pending(F) <=> Pending(E))
  BY <1>1, <1>3, <1>4, <1>5, FollowsSame DEF Balance, Pending
<1> QED
  BY <1>2, <1>5, <1>6 DEF Sound, Built

LEMMA LegFact ==
    ASSUME NEW p, NEW k, NEW rt, rt.quantity \in Nat, rt.cost \in Nat, NEW bid \in Bids,
           Filled(rt.quantity, bid) > 0, NEW leg, leg = Leg(p, k, rt, bid)
    PROVE  /\ leg \in Legs
           /\ leg.left = rt.quantity - leg.quantity /\ leg.costLeft = rt.cost - leg.cost
           /\ leg.left = 0 => leg.costLeft = 0
<1>1. bid.price \in 1..100 /\ bid.size \in Nat
  BY ManagedAssumption
<1> DEFINE q == Filled(rt.quantity, bid)
           c == (rt.cost * q) \div rt.quantity
<1>2. q \in Nat /\ q <= rt.quantity /\ rt.quantity \in Nat \ {0}
  BY <1>1 DEF Filled
<1>3. NetProceeds(q, bid.price) \in Int
  <2>1. Fee(q, bid.price) \in Nat
    BY <1>1, <1>2, FeeFact
  <2>2. q * bid.price \in Int
    BY <1>1, <1>2
  <2> QED
    BY <2>1, <2>2 DEF NetProceeds
<1>4. leg = [quantity |-> q, cost |-> c, pnl |-> NetProceeds(q, bid.price) - c,
             left |-> rt.quantity - q, costLeft |-> rt.cost - c]
  BY DEF Leg
<1> HIDE DEF q
<1>5. c \in Nat /\ c <= rt.cost /\ (q = rt.quantity => c = rt.cost)
  BY <1>2, Share
<1> HIDE DEF c
<1> QED
  BY <1>2, <1>3, <1>4, <1>5 DEF Legs

LEMMA AddFill ==
    ASSUME NEW p, NEW k, FullQuantity(p, k) \in Nat, FullCost(p, k) \in Nat,
           NEW E, Sound(E, p, k), Pending(E), NEW s, Later(E, s),
           NEW leg \in Legs, leg.left = Left(E, p, k) - leg.quantity,
           leg.costLeft = CostLeft(E, p, k) - leg.cost, leg.left = 0 => leg.costLeft = 0,
           NEW F, F = E \cup {FillEvent(s, leg)}
    PROVE  /\ Sound(F, p, k)
           /\ Built(F, p, k) = [state |-> "monitoring", quantity |-> leg.left,
                                cost |-> leg.costLeft, pnl |-> Pnl(E) + leg.pnl]
           /\ Pnl(F) = Pnl(E) + leg.pnl /\ Left(F, p, k) = leg.left
<1> DEFINE x == FillEvent(s, leg)
           L == Of(E, "FILL")
           M == Of(F, "FILL")
<1>1. x.type = "FILL" /\ x.seq = s /\ x.leg = leg /\ x \in Events /\ F = E \cup {x}
  BY DEF Later, FillEvent, Events
<1> HIDE DEF x
<1>2. EventsOk(E) /\ Follows(E) /\ Balance(E, p, k)
  BY DEF Sound
<1>3. EventsOk(F) /\ Follows(F) /\ ~Pending(F)
  BY <1>1, <1>2, AddTry
<1>4. M = L \cup {x}
  BY <1>1 DEF Of
<1>5. L \subseteq E /\ L \subseteq Events /\ IsFiniteSet(L) /\ M \subseteq Events /\ IsFiniteSet(M)
  BY <1>2, <1>3, OfFinite
<1>6. \A e \in M : e.leg.pnl \in Int /\ e.leg.quantity \in Int /\ e.leg.cost \in Int
  <2>1. \A e \in M : e.type = "FILL"
    BY DEF Of
  <2>2. \A e \in M : e.leg \in Legs
    BY <1>5, <2>1 DEF Events
  <2> QED
    BY <2>2 DEF Legs
<1>7. \A e \in E : e.seq \in Nat /\ e.seq < s
  BY <1>2, SeqType DEF EventsOk, Later
<1>8. x \notin L
  BY <1>1, <1>5, <1>7 DEF Later
<1>9. Latest(F) = x
  <2>1. x \in M /\ \A e \in M : e.seq <= x.seq
    <3>1. x \in M /\ x.seq = s /\ s \in Nat
      BY <1>1, <1>4 DEF Later
    <3>2. \A e \in L : e.seq \in Nat /\ e.seq < s
      BY <1>5, <1>7
    <3> HIDE DEF L, M
    <3> QED
      BY <3>1, <3>2, <1>4
  <2>2. LastSeq(M) = x.seq
    BY <1>5, <2>1, LastSeqIs
  <2>3. \A e \in L : e.seq # x.seq
    <3>1. \A e \in E : e.seq # s
      BY <1>7 DEF Later
    <3> HIDE DEF L
    <3> QED
      BY <3>1, <1>1, <1>5
  <2> QED
    BY <1>4, <2>1, <2>2, <2>3 DEF Latest
<1>10. Left(F, p, k) = leg.left /\ CostLeft(F, p, k) = leg.costLeft
  BY <1>1, <1>4, <1>9 DEF Left, CostLeft
<1>11. Pnl(F) = leg.pnl + Pnl(E) /\ Pnl(E) \in Int
  <2> DEFINE f == [e \in M |-> e.leg.pnl]
             h == [e \in L |-> e.leg.pnl]
  <2>1. (\A y \in L : h[y] = f[y]) /\ (\A y \in L \cup {x} : f[y] \in Int) /\ f[x] = leg.pnl
    BY <1>1, <1>4, <1>6
  <2>2. \A y \in L : h[y] \in Int
    BY <2>1
  <2> HIDE DEF f, h, L, M
  <2>3. Total(L \cup {x}, f) = f[x] + Total(L, f)
    BY <1>5, <1>8, <2>1, TotalAdd
  <2>4. Total(L, h) = Total(L, f)
    BY <1>5, <2>1, TotalAgrees
  <2>5. Total(L, h) \in Int
    BY <1>5, <2>2, TotalType
  <2> QED
    BY <1>4, <2>1, <2>3, <2>4, <2>5 DEF Pnl, f, h, L, M
<1>12. Sold(F) = leg.quantity + Sold(E) /\ Sold(E) \in Int
  <2> DEFINE f == [e \in M |-> e.leg.quantity]
             h == [e \in L |-> e.leg.quantity]
  <2>1. (\A y \in L : h[y] = f[y]) /\ (\A y \in L \cup {x} : f[y] \in Int) /\ f[x] = leg.quantity
    BY <1>1, <1>4, <1>6
  <2>2. \A y \in L : h[y] \in Int
    BY <2>1
  <2> HIDE DEF f, h, L, M
  <2>3. Total(L \cup {x}, f) = f[x] + Total(L, f)
    BY <1>5, <1>8, <2>1, TotalAdd
  <2>4. Total(L, h) = Total(L, f)
    BY <1>5, <2>1, TotalAgrees
  <2>5. Total(L, h) \in Int
    BY <1>5, <2>2, TotalType
  <2> QED
    BY <1>4, <2>1, <2>3, <2>4, <2>5 DEF Sold, f, h, L, M
<1>13. Spent(F) = leg.cost + Spent(E) /\ Spent(E) \in Int
  <2> DEFINE f == [e \in M |-> e.leg.cost]
             h == [e \in L |-> e.leg.cost]
  <2>1. (\A y \in L : h[y] = f[y]) /\ (\A y \in L \cup {x} : f[y] \in Int) /\ f[x] = leg.cost
    BY <1>1, <1>4, <1>6
  <2>2. \A y \in L : h[y] \in Int
    BY <2>1
  <2> HIDE DEF f, h, L, M
  <2>3. Total(L \cup {x}, f) = f[x] + Total(L, f)
    BY <1>5, <1>8, <2>1, TotalAdd
  <2>4. Total(L, h) = Total(L, f)
    BY <1>5, <2>1, TotalAgrees
  <2>5. Total(L, h) \in Int
    BY <1>5, <2>2, TotalType
  <2> QED
    BY <1>4, <2>1, <2>3, <2>4, <2>5 DEF Spent, f, h, L, M
<1>14. leg.quantity \in Nat /\ leg.cost \in Nat /\ leg.pnl \in Int /\ leg.left \in Nat /\ leg.costLeft \in Nat
  BY DEF Legs
<1> HIDE DEF x, L, M
<1>15. Balance(F, p, k)
  BY <1>2, <1>10, <1>12, <1>13, <1>14 DEF Balance
<1>16. Pnl(F) = Pnl(E) + leg.pnl
  BY <1>11, <1>14
<1> QED
  BY <1>3, <1>10, <1>15, <1>16 DEF Sound, Built

LEMMA NoEvents ==
    ASSUME NEW p \in Positions, NEW k \in KeySet
    PROVE  Sound({}, p, k) /\ Built({}, p, k) = Fresh(p, k)
<1>1. /\ \A type : Of({}, type) = {}
      /\ Tries({}) = {}
  BY DEF Of, Tries
<1>2. EventsOk({}) /\ Follows({})
  BY <1>1, FS_EmptySet DEF EventsOk, Follows
<1>3. Pnl({}) = 0 /\ Sold({}) = 0 /\ Spent({}) = 0
  BY <1>1, TotalEmpty DEF Pnl, Sold, Spent
<1>4. Left({}, p, k) = FullQuantity(p, k) /\ CostLeft({}, p, k) = FullCost(p, k)
  BY <1>1 DEF Left, CostLeft
<1>5. Balance({}, p, k)
  BY <1>3, <1>4, Amounts DEF Balance
<1>6. ~Pending({})
  <2>1. LastSeq({}) \in Nat
    BY FS_EmptySet, LastSeqFact
  <2> QED
    BY <1>1, <2>1 DEF Pending
<1> QED
  BY <1>2, <1>3, <1>4, <1>5, <1>6 DEF Sound, Built, Fresh

LEMMA BuiltType ==
    ASSUME NEW p, NEW k, NEW E, Sound(E, p, k)
    PROVE  /\ Built(E, p, k) \in Runtimes /\ Built(E, p, k).state # "closed"
           /\ Pnl(E) \in Int /\ Left(E, p, k) \in Nat /\ CostLeft(E, p, k) \in Nat
           /\ Built(E, p, k).state = "pending" => Pending(E)
<1> DEFINE L == Of(E, "FILL")
           h == [e \in L |-> e.leg.pnl]
<1>1. L \subseteq Events /\ IsFiniteSet(L) /\ \A e \in L : e.type = "FILL"
  BY OfFinite DEF Sound, Of
<1>2. \A e \in L : e.leg.pnl \in Int
  BY <1>1 DEF Events, Legs
<1>3. \A e \in L : h[e] \in Int
  BY <1>2
<1> HIDE DEF h, L
<1>4. Total(L, h) \in Int
  BY <1>1, <1>3, TotalType
<1>5. Pnl(E) \in Int
  BY <1>4 DEF Pnl, h, L
<1>6. Left(E, p, k) \in Nat /\ CostLeft(E, p, k) \in Nat
  BY DEF Sound, Balance
<1> QED
  BY <1>5, <1>6 DEF Built, Runtimes

----------------------------------------------------------------------------
(* What the invariant says of a run that is busy with a position. *)
BusySteps == SettleSteps \cup SellSteps

LEMMA BusyFacts ==
    ASSUME IInv, run.step \in BusySteps
    PROVE  /\ run # Down /\ run.at \in Positions /\ run.at \in run.open /\ run.open \subseteq Positions
           /\ run.todo \subseteq run.open
           /\ run.mem \in [run.open -> [KeySet -> Runtimes]] /\ run.seq \in [run.open -> Nat \ {0}]
           /\ run.keys \in Seq(KeySet) /\ Distinct(run.keys)
           /\ starts > 0 /\ starts \in Nat
<1>1. run # Down
  BY DEF BusySteps, SettleSteps, SellSteps, Down
<1>2. RunTyped /\ RunShaped /\ FirstRun /\ TablesTyped
  BY DEF IInv
<1>3. run.step \notin IdleSteps /\ run.step # "admit"
  BY DEF BusySteps, SettleSteps, SellSteps, IdleSteps
<1>4. starts \in Nat /\ starts # 0
  BY <1>1, <1>2 DEF FirstRun, TablesTyped
<1>5. CASE run.step \in SettleSteps
  <2>1. run \in BusyRuns(SettleSteps, {"resolved", "conflict"})
    BY <1>2, <1>5 DEF RunTyped
  <2> QED
    BY <1>1, <1>2, <1>3, <1>4, <2>1 DEF BusyRuns, Mems, Seqs, RunShaped
<1>6. CASE run.step \in SellSteps
  <2>1. run \in BusyRuns(SellSteps, Snapshots)
    BY <1>2, <1>6 DEF RunTyped
  <2> QED
    BY <1>1, <1>2, <1>3, <1>4, <2>1 DEF BusyRuns, Mems, Seqs, RunShaped
<1> QED
  BY <1>5, <1>6 DEF BusySteps

LEMMA FirstKey ==
    ASSUME NEW s \in Seq(KeySet), s # <<>>, Distinct(s)
    PROVE  /\ Head(s) \in KeySet /\ Tail(s) \in Seq(KeySet) /\ Distinct(Tail(s))
           /\ Members(s) = {Head(s)} \cup Members(Tail(s)) /\ Head(s) \notin Members(Tail(s))
<1>1. Tail(s) \in Seq(KeySet) /\ Head(s) \in KeySet /\ Len(Tail(s)) = Len(s) - 1 /\ Len(s) > 0 /\ Head(s) = s[1]
  OBVIOUS
<1>2. \A i \in DOMAIN Tail(s) : Tail(s)[i] = s[i + 1]
  OBVIOUS
<1>3. DOMAIN s = 1..Len(s) /\ DOMAIN Tail(s) = 1..(Len(s) - 1) /\ Len(s) \in Nat
  BY <1>1
<1> DEFINE t == Tail(s)
           n == Len(s)
<1>4. /\ \A i \in 1..(n - 1) : t[i] = s[i + 1] /\ i + 1 \in 1..n /\ i + 1 # 1
      /\ DOMAIN t = 1..(n - 1) /\ DOMAIN s = 1..n /\ n \in Nat /\ n > 0 /\ Head(s) = s[1]
  BY <1>1, <1>2, <1>3
<1>5. \A i \in 2..n : i - 1 \in 1..(n - 1) /\ s[i] = t[i - 1]
  BY <1>2, <1>3
<1> HIDE DEF t, n
<1>6. \A i \in 1..n : i = 1 \/ i \in 2..n
  BY <1>4
<1>7. Members(s) = {Head(s)} \cup Members(t)
  <2>1. \A i \in 1..n : s[i] \in {Head(s)} \cup Members(t)
    BY <1>4, <1>5, <1>6 DEF Members
  <2>2. \A i \in 1..(n - 1) : t[i] \in Members(s)
    BY <1>4 DEF Members
  <2>3. Head(s) \in Members(s)
    BY <1>4 DEF Members
  <2> QED
    BY <2>1, <2>2, <2>3, <1>4 DEF Members
<1>8. Head(s) \notin Members(t)
  BY <1>4 DEF Members, Distinct
<1>9. Distinct(t)
  <2> SUFFICES ASSUME NEW i \in 1..(n - 1), NEW j \in 1..(n - 1), t[i] = t[j]
               PROVE  i = j
    BY <1>4 DEF Distinct
  <2>1. s[i + 1] = s[j + 1] /\ i + 1 \in 1..n /\ j + 1 \in 1..n
    BY <1>4
  <2>2. i + 1 = j + 1
    BY <2>1, <1>4 DEF Distinct
  <2> QED
    BY <2>2
<1> QED
  BY <1>1, <1>7, <1>8, <1>9 DEF t

LEMMA BusyKey ==
    ASSUME IInv, run.step \in BusySteps, run.keys # <<>>
    PROVE  /\ Key \in KeySet /\ Tail(run.keys) \in Seq(KeySet) /\ Distinct(Tail(run.keys))
           /\ Members(run.keys) = {Key} \cup Members(Tail(run.keys)) /\ Key \notin Members(Tail(run.keys))
           /\ Runtime \in Runtimes
           /\ Runtime.state # "closed" =>
                terminal[run.at][Key] = NoRow /\ Runtime = Built(events[run.at][Key], run.at, Key)
           /\ Sound(events[run.at][Key], run.at, Key)
<1>1. /\ run # Down /\ run.at \in Positions /\ run.at \in run.open
      /\ run.mem \in [run.open -> [KeySet -> Runtimes]] /\ run.keys \in Seq(KeySet) /\ Distinct(run.keys)
  BY BusyFacts
<1>2. /\ Key \in KeySet /\ Tail(run.keys) \in Seq(KeySet) /\ Distinct(Tail(run.keys))
      /\ Members(run.keys) = {Key} \cup Members(Tail(run.keys)) /\ Key \notin Members(Tail(run.keys))
  BY <1>1, FirstKey DEF Key
<1>3. Runtime \in Runtimes
  BY <1>1, <1>2 DEF Runtime
<1>4. MemoryIsRows /\ EventsSound
  BY DEF IInv
<1>5. \/ Runtime.state = "closed" /\ terminal[run.at][Key] # NoRow
      \/ Runtime = Built(events[run.at][Key], run.at, Key) /\ terminal[run.at][Key] = NoRow
  BY <1>1, <1>2, <1>4 DEF MemoryIsRows, Runtime
<1>6. Sound(events[run.at][Key], run.at, Key)
  BY <1>1, <1>2, <1>4 DEF EventsSound
<1> QED
  BY <1>2, <1>3, <1>5, <1>6

----------------------------------------------------------------------------
(* Frames. *)
LEMMA TrancheSumKept ==
    ASSUME NEW r, NEW q, \A k \in TrancheSet : r[k] = q[k]
    PROVE  TrancheSum(r) = TrancheSum(q)
<1> DEFINE f == [k \in TrancheSet |-> r[k].pnl]
           h == [k \in TrancheSet |-> q[k].pnl]
<1>1. \A k \in TrancheSet : f[k] = h[k]
  OBVIOUS
<1> HIDE DEF f, h
<1>2. Total(TrancheSet, f) = Total(TrancheSet, h)
  BY <1>1, KeyFacts, TotalAgrees
<1> QED
  BY <1>2 DEF TrancheSum, f, h

\* Tables and world unchanged.
LEMMA TablesSame ==
    ASSUME IInv, UNCHANGED <<world, starts, tables>>
    PROVE  TablesTyped' /\ EventsSound' /\ EventsPolled' /\ TerminalsAddUp'
<1> USE DEF IInv, world, tables
<1>1. TablesTyped'
  BY DEF TablesTyped
<1>2. EventsSound' /\ EventsPolled'
  BY DEF EventsSound, EventsPolled
<1>3. TerminalsAddUp'
  BY DEF TerminalsAddUp, TerminalAddsUp, StagedAddsUp, Payout
<1> QED
  BY <1>1, <1>2, <1>3

\* One overlay written, that had no terminal row.
LEMMA TerminalsStep ==
    ASSUME IInv, NEW p0 \in Positions, NEW k0 \in KeySet, terminal[p0][k0] = NoRow,
           UNCHANGED world, row' = row,
           \A p \in Positions, k \in KeySet : p # p0 \/ k # k0 =>
               events'[p][k] = events[p][k] /\ terminal'[p][k] = terminal[p][k],
           \A p \in Positions : terminal'[p][Staged] = terminal[p][Staged],
           TerminalAddsUp(p0, k0)'
    PROVE  TerminalsAddUp'
<1>1. TerminalsAddUp /\ clock' = clock /\ winner' = winner
  BY DEF IInv, world
<1>2. ASSUME NEW p \in Positions, NEW k \in KeySet
      PROVE  TerminalAddsUp(p, k)'
  <2>1. CASE p = p0 /\ k = k0
    BY <2>1
  <2>2. CASE p # p0 \/ k # k0
    <3>1. TerminalAddsUp(p, k)
      BY <1>1 DEF TerminalsAddUp
    <3>2. events'[p][k] = events[p][k] /\ terminal'[p][k] = terminal[p][k]
      BY <2>2
    <3> QED
      BY <1>1, <3>1, <3>2 DEF TerminalAddsUp, Payout
  <2> QED
    BY <2>1, <2>2
<1>3. ASSUME NEW p \in Positions
      PROVE  StagedAddsUp(p)'
  <2>1. StagedAddsUp(p)
    BY <1>1 DEF TerminalsAddUp
  <2>2. CASE terminal[p][Staged] = NoRow
    BY <2>2 DEF StagedAddsUp
  <2>3. CASE terminal[p][Staged] # NoRow
    <3>1. \A k \in TrancheSet : k \in KeySet /\ terminal[p][k] # NoRow
      BY <2>1, <2>3, KeyFacts DEF StagedAddsUp
    <3>2. \A k \in TrancheSet : terminal'[p][k] = terminal[p][k]
      BY <3>1
    <3>3. TrancheSum(terminal'[p]) = TrancheSum(terminal[p])
      BY <3>2, TrancheSumKept
    <3> QED
      BY <2>1, <2>3, <3>1, <3>2, <3>3 DEF StagedAddsUp
  <2> QED
    BY <2>2, <2>3
<1>4. ASSUME NEW p \in Positions, row'[p] = "PAPER_CLOSED", NEW k \in KeySet
      PROVE  terminal'[p][k] # NoRow
  BY <1>1, <1>4 DEF TerminalsAddUp
<1> QED
  BY <1>2, <1>3, <1>4 DEF TerminalsAddUp

\* The memory of one overlay changed.
LEMMA MemoryStep ==
    ASSUME IInv, run # Down, NEW p0 \in run.open, NEW k0 \in KeySet, run'.open = run.open,
           \A p \in run.open, k \in KeySet : p # p0 \/ k # k0 =>
               /\ run'.mem[p][k] = run.mem[p][k]
               /\ events'[p][k] = events[p][k] /\ terminal'[p][k] = terminal[p][k],
           \/ run'.mem[p0][k0].state = "closed" /\ terminal'[p0][k0] # NoRow
           \/ run'.mem[p0][k0] = Built(events'[p0][k0], p0, k0) /\ terminal'[p0][k0] = NoRow
    PROVE  MemoryIsRows'
<1>1. MemoryIsRows
  BY DEF IInv
<1> QED
  BY <1>1 DEF MemoryIsRows

LEMMA EventWritten ==
    ASSUME IInv, NEW p \in Positions, NEW k \in KeySet, NEW x \in Events,
           \A e \in events[p][k] : ~(e.type = x.type /\ e.seq = x.seq),
           Write(p, k, x), UNCHANGED <<world, starts, row, polls, terminal>>
    PROVE  /\ TablesTyped' /\ events'[p][k] = events[p][k] \cup {x}
           /\ \A q \in Positions, j \in KeySet : q # p \/ j # k => events'[q][j] = events[q][j]
<1>1. events \in [Positions -> [KeySet -> SUBSET Events]] /\ TablesTyped
  BY DEF IInv, TablesTyped
<1>2. events' = [events EXCEPT ![p][k] = @ \cup {x}]
  BY DEF Write
<1>3. events' \in [Positions -> [KeySet -> SUBSET Events]]
  BY <1>1, <1>2
<1>4. TablesTyped'
  BY <1>1, <1>3 DEF TablesTyped, world
<1> QED
  BY <1>1, <1>2, <1>4

LEMMA TerminalWritten ==
    ASSUME IInv, NEW p \in Positions, NEW k \in KeySet \cup {Staged}, terminal[p][k] = NoRow,
           NEW status \in Statuses, status # "none", NEW known \in BOOLEAN, NEW pnl \in Int,
           WriteTerminal(p, k, status, known, pnl), UNCHANGED <<world, starts, row, polls, events>>
    PROVE  /\ TablesTyped' /\ terminal'[p][k] # NoRow
           /\ terminal'[p][k] = [status |-> status, known |-> known, pnl |-> pnl]
           /\ \A q \in Positions, j \in KeySet \cup {Staged} : q # p \/ j # k => terminal'[q][j] = terminal[q][j]
<1>1. terminal \in [Positions -> [KeySet \cup {Staged} -> TerminalRows]] /\ TablesTyped
  BY DEF IInv, TablesTyped
<1> DEFINE r == [status |-> status, known |-> known, pnl |-> pnl]
<1>2. r \in TerminalRows /\ r # NoRow
  BY DEF TerminalRows, NoRow
<1>3. terminal' = [terminal EXCEPT ![p][k] = r]
  BY DEF WriteTerminal
<1> HIDE DEF r
<1>4. terminal' \in [Positions -> [KeySet \cup {Staged} -> TerminalRows]]
  BY <1>1, <1>2, <1>3
<1>5. TablesTyped'
  BY <1>1, <1>4 DEF TablesTyped, world
<1>6. terminal'[p][k] = r
  BY <1>1, <1>3
<1> QED
  BY <1>1, <1>2, <1>3, <1>5, <1>6 DEF r

(* The turn of one overlay, in a poll or a settlement. *)
LEMMA WentFacts ==
    ASSUME IInv, NEW step, NEW rt \in Runtimes, run.keys # <<>>, Went(rt, step),
           \/ step = "settle" /\ run.step \in SettleSteps
           \/ step = "advance" /\ run.step \in SellSteps
    PROVE  /\ RunTyped' /\ RunShaped' /\ run' # Down /\ run'.step = step
           /\ run'.open = run.open /\ run'.seq = run.seq /\ run'.at = run.at /\ run'.given = run.given
           /\ run'.keys = Tail(run.keys)
           /\ run'.mem[run.at][Key] = rt
           /\ \A p \in run.open, k \in KeySet : p # run.at \/ k # Key => run'.mem[p][k] = run.mem[p][k]
<1>1. run.step \in BusySteps /\ run.step \notin IdleSteps
  BY DEF BusySteps, SettleSteps, SellSteps, IdleSteps
<1>2. /\ run.at \in run.open /\ run.open \subseteq Positions /\ run.todo \subseteq run.open
      /\ run.mem \in [run.open -> [KeySet -> Runtimes]]
  BY <1>1, BusyFacts
<1>3. Key \in KeySet /\ Tail(run.keys) \in Seq(KeySet) /\ Distinct(Tail(run.keys))
  BY <1>1, BusyKey
<1>4. run' = [run EXCEPT !.step = step, !.mem[run.at][Key] = rt, !.keys = Tail(@)]
  BY DEF Went
<1>5. RunTyped
  BY DEF IInv
<1> DEFINE mem == [run.mem EXCEPT ![run.at][Key] = rt]
<1>6. mem \in [run.open -> [KeySet -> Runtimes]]
  BY <1>2, <1>3
<1>7. run' = [run EXCEPT !.step = step, !.mem = mem, !.keys = Tail(run.keys)]
  <2>1. CASE run.step \in SettleSteps
    BY <2>1, <1>4, <1>5 DEF RunTyped, BusyRuns
  <2>2. CASE run.step \in SellSteps
    BY <2>2, <1>4, <1>5 DEF RunTyped, BusyRuns
  <2> QED
    BY <2>1, <2>2
<1>8. \A p \in run.open, k \in KeySet : mem[p][k] = IF p = run.at /\ k = Key THEN rt ELSE run.mem[p][k]
  BY <1>2, <1>3
<1> HIDE DEF mem
<1>9. /\ run'.step = step /\ run'.mem = mem /\ run'.keys = Tail(run.keys) /\ run'.open = run.open
      /\ run'.seq = run.seq /\ run'.at = run.at /\ run'.given = run.given /\ run'.todo = run.todo
      /\ RunTyped'
  <2>1. CASE run.step \in SettleSteps
    <3>1. run \in BusyRuns(SettleSteps, {"resolved", "conflict"}) /\ step = "settle"
      BY <2>1, <1>5 DEF RunTyped, SettleSteps, SellSteps
    <3> HIDE DEF Key
    <3>2. /\ run'.step = step /\ run'.mem = mem /\ run'.keys = Tail(run.keys) /\ run'.open = run.open
          /\ run'.seq = run.seq /\ run'.at = run.at /\ run'.given = run.given /\ run'.todo = run.todo
      BY <3>1, <1>7 DEF BusyRuns
    <3>3. run' \in BusyRuns(SettleSteps, {"resolved", "conflict"})'
      BY <3>1, <3>2, <1>3, <1>6, <1>7 DEF BusyRuns, SettleSteps, Mems, Seqs
    <3> QED
      BY <3>1, <3>2, <3>3 DEF RunTyped, SettleSteps, SellSteps, IdleSteps
  <2>2. CASE run.step \in SellSteps
    <3>1. run \in BusyRuns(SellSteps, Snapshots) /\ step = "advance"
      BY <2>2, <1>5 DEF RunTyped, SettleSteps, SellSteps
    <3> HIDE DEF Key
    <3>2. /\ run'.step = step /\ run'.mem = mem /\ run'.keys = Tail(run.keys) /\ run'.open = run.open
          /\ run'.seq = run.seq /\ run'.at = run.at /\ run'.given = run.given /\ run'.todo = run.todo
      BY <3>1, <1>7 DEF BusyRuns
    <3>3. run' \in BusyRuns(SellSteps, Snapshots)'
      BY <3>1, <3>2, <1>3, <1>6, <1>7 DEF BusyRuns, SellSteps, Mems, Seqs
    <3> QED
      BY <3>1, <3>2, <3>3 DEF RunTyped, SettleSteps, SellSteps, IdleSteps
  <2> QED
    BY <2>1, <2>2
<1>10. run' # Down
  BY <1>9 DEF Down
<1>11. RunShaped'
  BY <1>1, <1>2, <1>3, <1>9 DEF RunShaped
<1> QED
  BY <1>2, <1>3, <1>8, <1>9, <1>10, <1>11

LEMMA SellingFacts ==
    ASSUME IInv, run.step \in SellSteps
    PROVE  /\ polls[run.at] = run.seq[run.at] /\ run.seq[run.at] \in Nat \ {0}
           /\ \A k \in Waiting : \A e \in events[run.at][k] : e.seq < run.seq[run.at]
           /\ run.given.bid \in Bids
<1>1. run # Down /\ run.at \in run.open /\ run.seq \in [run.open -> Nat \ {0}]
  BY BusyFacts DEF BusySteps
<1>2. SeqsAhead /\ RunTyped
  BY DEF IInv
<1>3. run.given \in Snapshots
  <2>1. run \in BusyRuns(SellSteps, Snapshots)
    BY <1>2 DEF RunTyped
  <2> QED
    BY <2>1 DEF BusyRuns
<1> QED
  BY <1>1, <1>2, <1>3 DEF SeqsAhead, Selling, Snapshots

LEMMA SellStep ==
    ASSUME IInv, run.step \in SellSteps, run.keys # <<>>, NEW rt \in Runtimes, Went(rt, "advance"),
           UNCHANGED <<world, starts, row, polls>>, TablesTyped', TerminalsAddUp',
           \A p \in Positions, k \in KeySet : p # run.at \/ k # Key =>
               events'[p][k] = events[p][k] /\ terminal'[p][k] = terminal[p][k],
           Sound(events'[run.at][Key], run.at, Key),
           \A e \in events'[run.at][Key] : e.seq <= run.seq[run.at],
           \/ rt.state = "closed" /\ terminal'[run.at][Key] # NoRow
           \/ rt = Built(events'[run.at][Key], run.at, Key) /\ terminal'[run.at][Key] = NoRow
    PROVE  IInv'
<1>1. run.step \in BusySteps
  BY DEF BusySteps
<1>2. /\ run # Down /\ run.at \in Positions /\ run.at \in run.open /\ run.open \subseteq Positions
      /\ starts > 0 /\ starts \in Nat
  BY <1>1, BusyFacts
<1>3. /\ Key \in KeySet /\ Members(run.keys) = {Key} \cup Members(Tail(run.keys))
      /\ Key \notin Members(Tail(run.keys))
  BY <1>1, BusyKey
<1>4. /\ RunTyped' /\ RunShaped' /\ run' # Down /\ run'.step = "advance"
      /\ run'.open = run.open /\ run'.seq = run.seq /\ run'.at = run.at
      /\ run'.keys = Tail(run.keys) /\ run'.mem[run.at][Key] = rt
      /\ \A p \in run.open, k \in KeySet : p # run.at \/ k # Key => run'.mem[p][k] = run.mem[p][k]
  BY WentFacts
<1>5. polls[run.at] = run.seq[run.at] /\ polls' = polls
  BY SellingFacts
<1> HIDE DEF Key
<1>6. FirstRun'
  BY <1>2, <1>4 DEF FirstRun
<1>7. EventsSound'
  <2>1. EventsSound
    BY DEF IInv
  <2> QED
    BY <2>1 DEF EventsSound
<1>8. EventsPolled'
  <2>1. EventsPolled
    BY DEF IInv
  <2> QED
    BY <1>5, <2>1 DEF EventsPolled
<1>9. SeqsAhead'
  <2>1. SeqsAhead
    BY DEF IInv
  <2> SUFFICES ASSUME NEW p \in run.open
               PROVE  IF Selling(p)'
                      THEN /\ polls'[p] = run'.seq[p]
                           /\ \A k \in Waiting' : \A e \in events'[p][k] : e.seq < run'.seq[p]
                      ELSE polls'[p] < run'.seq[p]
    BY <1>4 DEF SeqsAhead
  <2>2. CASE p = run.at
    <3>1. Waiting' = Members(Tail(run.keys))
      BY <1>4 DEF Waiting
    <3>2. Members(Tail(run.keys)) \subseteq Waiting
      BY <1>3 DEF Waiting
    <3>3. \A k \in Waiting : \A e \in events[run.at][k] : e.seq < run.seq[run.at]
      BY SellingFacts
    <3>4. Members(Tail(run.keys)) \subseteq KeySet
      <4>1. Tail(run.keys) \in Seq(KeySet)
        BY <1>1, BusyKey
      <4> QED
        BY <4>1 DEF Members
    <3>5. \A k \in Waiting' : events'[run.at][k] = events[run.at][k]
      BY <1>2, <1>3, <3>1, <3>4
    <3>6. Selling(p)'
      BY <2>2, <1>4 DEF Selling, SellSteps
    <3> QED
      BY <2>2, <1>4, <1>5, <3>1, <3>2, <3>3, <3>5, <3>6
  <2>3. CASE p # run.at
    <3>1. ~Selling(p) /\ ~Selling(p)'
      BY <2>3, <1>4 DEF Selling
    <3>2. polls[p] < run.seq[p]
      BY <3>1, <2>1, <1>2 DEF SeqsAhead
    <3> QED
      BY <3>1, <3>2, <1>4, <1>5
  <2> QED
    BY <2>2, <2>3
<1>10. MemoryIsRows'
  BY <1>2, <1>3, <1>4, MemoryStep
<1>11. SoldOut' /\ Answered' /\ Settled'
  BY <1>4 DEF SoldOut, Answered, Settled
<1> QED
  BY <1>4, <1>6, <1>7, <1>8, <1>9, <1>10, <1>11 DEF IInv

LEMMA SkipStep ==
    ASSUME IInv, Skip
    PROVE  IInv'
<1>1. /\ run.step \in SellSteps /\ run.keys # <<>> /\ Runtime.state = "closed"
      /\ Went(Runtime, "advance") /\ UNCHANGED <<world, starts, tables>>
  BY DEF Skip, Advancing, At, SellSteps
<1>2. TablesTyped' /\ TerminalsAddUp'
  BY <1>1, TablesSame
<1>3. Runtime \in Runtimes /\ Sound(events[run.at][Key], run.at, Key) /\ Key \in KeySet /\ Key \in Members(run.keys)
  BY <1>1, BusyKey DEF BusySteps
<1>4. run.at \in Positions /\ run.at \in run.open /\ run # Down
  BY <1>1, BusyFacts DEF BusySteps
<1>5. MemoryIsRows /\ EventsPolled
  BY DEF IInv
<1>6. \A e \in events[run.at][Key] : e.seq <= run.seq[run.at]
  BY <1>1, <1>3, <1>4, <1>5, SellingFacts DEF EventsPolled
<1>7. Runtime.state = "closed" /\ terminal[run.at][Key] # NoRow
  <2>1. Built(events[run.at][Key], run.at, Key).state # "closed"
    BY <1>3, BuiltType
  <2> QED
    BY <2>1, <1>1, <1>3, <1>4, <1>5 DEF MemoryIsRows, Runtime
<1> HIDE DEF Key, Runtime
<1>8. events' = events /\ terminal' = terminal /\ UNCHANGED <<world, starts, row, polls>>
  BY <1>1 DEF tables
<1> QED
  BY <1>1, <1>2, <1>3, <1>6, <1>7, <1>8, SellStep

(* What an event of an open overlay leaves in the tables. *)
LEMMA OpenEvent ==
    ASSUME IInv, run.step \in BusySteps, run.keys # <<>>, terminal[run.at][Key] = NoRow,
           NEW x \in Events, \A e \in events[run.at][Key] : ~(e.type = x.type /\ e.seq = x.seq),
           Write(run.at, Key, x), UNCHANGED <<world, starts, row, polls, terminal>>
    PROVE  /\ TablesTyped' /\ TerminalsAddUp'
           /\ events'[run.at][Key] = events[run.at][Key] \cup {x}
           /\ terminal'[run.at][Key] = NoRow
           /\ \A p \in Positions, k \in KeySet : p # run.at \/ k # Key =>
                  events'[p][k] = events[p][k] /\ terminal'[p][k] = terminal[p][k]
<1>1. run.at \in Positions /\ Key \in KeySet
  BY BusyFacts, BusyKey
<1> HIDE DEF Key
<1>2. /\ TablesTyped' /\ events'[run.at][Key] = events[run.at][Key] \cup {x}
      /\ \A q \in Positions, j \in KeySet : q # run.at \/ j # Key => events'[q][j] = events[q][j]
  BY <1>1, EventWritten
<1>4. ASSUME NEW p \in Positions, NEW k \in KeySet, p = run.at, k = Key
      PROVE  TerminalAddsUp(p, k)'
  BY <1>4 DEF TerminalAddsUp, NoRow
<1>5. ASSUME NEW p \in Positions, NEW k \in KeySet, p = run.at, k = Key
      PROVE  TerminalsAddUp'
  <2>1. TerminalAddsUp(p, k)'
    BY <1>4, <1>5
  <2>2. \A q \in Positions, j \in KeySet : q # p \/ j # k =>
            events'[q][j] = events[q][j] /\ terminal'[q][j] = terminal[q][j]
    BY <1>2, <1>5
  <2>3. \A q \in Positions : terminal'[q][Staged] = terminal[q][Staged]
    OBVIOUS
  <2> QED
    BY <2>1, <2>2, <2>3, <1>5, TerminalsStep
<1> QED
  BY <1>1, <1>2, <1>5

(* The overlay whose turn it is in a poll. *)
LEMMA AdvancingFacts ==
    ASSUME IInv, run.step = "advance", run.keys # <<>>, Runtime.state # "closed"
    PROVE  /\ run.step \in SellSteps /\ run.step \in BusySteps
           /\ run.at \in Positions /\ run.at \in run.open /\ run # Down /\ Key \in KeySet
           /\ terminal[run.at][Key] = NoRow /\ Runtime = Built(events[run.at][Key], run.at, Key)
           /\ Sound(events[run.at][Key], run.at, Key) /\ Runtime \in Runtimes
           /\ Later(events[run.at][Key], run.seq[run.at])
           /\ \A e \in events[run.at][Key] : e.seq \in Nat /\ e.seq < run.seq[run.at]
           /\ run.seq[run.at] \in Nat
<1>1. run.step \in SellSteps /\ run.step \in BusySteps
  BY DEF SellSteps, BusySteps
<1>2. /\ Key \in KeySet /\ Key \in Members(run.keys) /\ terminal[run.at][Key] = NoRow
      /\ Runtime = Built(events[run.at][Key], run.at, Key) /\ Runtime \in Runtimes
      /\ Sound(events[run.at][Key], run.at, Key)
  BY <1>1, BusyKey
<1>3. Key \in Waiting
  BY <1>2 DEF Waiting
<1>4. run.seq[run.at] \in Nat \ {0} /\ \A e \in events[run.at][Key] : e.seq < run.seq[run.at]
  BY <1>1, <1>3, SellingFacts
<1>5. \A e \in events[run.at][Key] : e.seq \in Nat
  BY <1>2, SeqType DEF Sound, EventsOk
<1> HIDE DEF Key, Runtime
<1> QED
  BY <1>1, <1>2, <1>4, <1>5, BusyFacts DEF Later

LEMMA MonitorStep ==
    ASSUME IInv, Monitor
    PROVE  IInv'
<1>1. /\ run.step = "advance" /\ run.keys # <<>> /\ Runtime.state = "monitoring"
      /\ UNCHANGED <<world, starts, row, polls, terminal>>
  BY DEF Monitor, Advancing, At
<1> DEFINE E == events[run.at][Key]
           s == run.seq[run.at]
<1>2. /\ run.step \in SellSteps /\ run.step \in BusySteps
      /\ run.at \in Positions /\ run.at \in run.open /\ run # Down /\ Key \in KeySet
      /\ terminal[run.at][Key] = NoRow /\ Runtime = Built(E, run.at, Key)
      /\ Sound(E, run.at, Key) /\ Runtime \in Runtimes
      /\ Later(E, s) /\ (\A e \in E : e.seq \in Nat /\ e.seq < s) /\ s \in Nat
  BY <1>1, AdvancingFacts
<1>3. CASE Triggered(Key, Runtime, run.given)
  <2> DEFINE x == Event("TRIGGER", s)
             rt == [Runtime EXCEPT !.state = "pending"]
  <2>1. Write(run.at, Key, x) /\ Went(rt, "advance")
    BY <1>3 DEF Monitor
  <2>2. x \in Events /\ x.seq = s
    BY <1>2 DEF Event, Events, Later
  <2>3. rt \in Runtimes
    BY <1>2 DEF Runtimes
  <2> HIDE DEF x
  <2>4. \A e \in E : ~(e.type = x.type /\ e.seq = x.seq)
    BY <1>2, <2>2
  <2>5. /\ TablesTyped' /\ TerminalsAddUp' /\ events'[run.at][Key] = E \cup {x}
        /\ terminal'[run.at][Key] = NoRow
        /\ \A p \in Positions, k \in KeySet : p # run.at \/ k # Key =>
               events'[p][k] = events[p][k] /\ terminal'[p][k] = terminal[p][k]
    BY <1>1, <1>2, <2>1, <2>2, <2>4, OpenEvent
  <2>6. /\ Sound(events'[run.at][Key], run.at, Key)
        /\ Built(events'[run.at][Key], run.at, Key) = [Built(E, run.at, Key) EXCEPT !.state = "pending"]
    BY <1>2, <2>5, AddTrigger DEF x
  <2>7. rt = Built(events'[run.at][Key], run.at, Key)
    BY <1>2, <2>6
  <2>8. \A e \in events'[run.at][Key] : e.seq <= s
    BY <1>2, <2>2, <2>5
  <2> HIDE DEF rt, Key, Runtime
  <2> QED
    BY <1>1, <1>2, <2>1, <2>3, <2>5, <2>6, <2>7, <2>8, SellStep
<1>4. CASE ~Triggered(Key, Runtime, run.given)
  <2>1. Went(Runtime, "advance") /\ events' = events
    BY <1>4 DEF Monitor
  <2>2. TablesTyped' /\ TerminalsAddUp'
    BY <1>1, <2>1, TablesSame DEF tables
  <2>3. \A e \in events'[run.at][Key] : e.seq <= s
    BY <1>2, <2>1
  <2> HIDE DEF Key, Runtime
  <2> QED
    BY <1>1, <1>2, <2>1, <2>2, <2>3, SellStep
<1> QED
  BY <1>3, <1>4

LEMMA SellNothingStep ==
    ASSUME IInv, SellNothing
    PROVE  IInv'
<1> DEFINE E == events[run.at][Key]
           s == run.seq[run.at]
           x == Event("NO_FILL", s)
           rt == [Runtime EXCEPT !.state = "monitoring"]
<1>1. /\ run.step = "advance" /\ run.keys # <<>> /\ Runtime.state = "pending"
      /\ UNCHANGED <<world, starts, row, polls, terminal>>
      /\ Write(run.at, Key, x) /\ Went(rt, "advance")
  BY DEF SellNothing, Advancing, At
<1>2. /\ run.step \in SellSteps /\ run.step \in BusySteps
      /\ run.at \in Positions /\ run.at \in run.open /\ run # Down /\ Key \in KeySet
      /\ terminal[run.at][Key] = NoRow /\ Runtime = Built(E, run.at, Key)
      /\ Sound(E, run.at, Key) /\ Runtime \in Runtimes
      /\ Later(E, s) /\ (\A e \in E : e.seq \in Nat /\ e.seq < s) /\ s \in Nat
  BY <1>1, AdvancingFacts
<1>3. x \in Events /\ x.seq = s
  BY <1>2 DEF Event, Events, Later
<1>4. rt \in Runtimes
  BY <1>2 DEF Runtimes
<1>5. Pending(E)
  BY <1>1, <1>2, BuiltType
<1> HIDE DEF x
<1>6. \A e \in E : ~(e.type = x.type /\ e.seq = x.seq)
  BY <1>2, <1>3
<1>7. /\ TablesTyped' /\ TerminalsAddUp' /\ events'[run.at][Key] = E \cup {x}
      /\ terminal'[run.at][Key] = NoRow
      /\ \A p \in Positions, k \in KeySet : p # run.at \/ k # Key =>
             events'[p][k] = events[p][k] /\ terminal'[p][k] = terminal[p][k]
  BY <1>1, <1>2, <1>3, <1>6, OpenEvent
<1>8. /\ Sound(events'[run.at][Key], run.at, Key)
      /\ Built(events'[run.at][Key], run.at, Key) = [Built(E, run.at, Key) EXCEPT !.state = "monitoring"]
  BY <1>2, <1>5, <1>7, AddNoFill DEF x
<1>9. rt = Built(events'[run.at][Key], run.at, Key)
  BY <1>2, <1>8
<1>10. \A e \in events'[run.at][Key] : e.seq <= s
  BY <1>2, <1>3, <1>7
<1> HIDE DEF rt, Key, Runtime
<1> QED
  BY <1>1, <1>2, <1>4, <1>7, <1>8, <1>9, <1>10, SellStep

(* The last leg: the terminal row is a commit of its own. *)
LEMMA SoldOutStep ==
    ASSUME IInv, run.step = "advance", run.keys # <<>>, NEW rt \in Runtimes,
           run' = [run EXCEPT !.step = "close", !.mem[run.at][Key] = rt],
           rt.quantity = 0, rt.state # "closed",
           UNCHANGED <<world, starts, row, polls>>, TablesTyped', TerminalsAddUp',
           \A p \in Positions, k \in KeySet : p # run.at \/ k # Key =>
               events'[p][k] = events[p][k] /\ terminal'[p][k] = terminal[p][k],
           Sound(events'[run.at][Key], run.at, Key),
           \A e \in events'[run.at][Key] : e.seq <= run.seq[run.at],
           rt = Built(events'[run.at][Key], run.at, Key), terminal'[run.at][Key] = NoRow
    PROVE  IInv'
<1>1. run.step \in BusySteps /\ run.step \in SellSteps
  BY DEF BusySteps, SellSteps
<1>2. /\ run # Down /\ run.at \in Positions /\ run.at \in run.open /\ run.open \subseteq Positions
      /\ run.mem \in [run.open -> [KeySet -> Runtimes]] /\ run.todo \subseteq run.open
      /\ run.keys \in Seq(KeySet) /\ Distinct(run.keys) /\ starts > 0 /\ starts \in Nat
  BY <1>1, BusyFacts
<1>3. /\ Key \in KeySet /\ Members(run.keys) = {Key} \cup Members(Tail(run.keys))
      /\ Key \notin Members(Tail(run.keys)) /\ Tail(run.keys) \in Seq(KeySet)
  BY <1>1, BusyKey
<1> DEFINE mem == [run.mem EXCEPT ![run.at][Key] = rt]
<1>4. mem \in [run.open -> [KeySet -> Runtimes]]
  BY <1>2, <1>3
<1>5. run \in BusyRuns(SellSteps, Snapshots)
  BY <1>1 DEF IInv, RunTyped
<1>6. run' = [run EXCEPT !.step = "close", !.mem = mem]
  BY <1>5 DEF BusyRuns
<1>7. \A p \in run.open, k \in KeySet : mem[p][k] = IF p = run.at /\ k = Key THEN rt ELSE run.mem[p][k]
  BY <1>2, <1>3
<1>8. Key' = Key
  BY <1>5, <1>6 DEF Key, BusyRuns
<1> HIDE DEF mem, Key
<1>9. /\ run'.step = "close" /\ run'.mem = mem /\ run'.keys = run.keys /\ run'.open = run.open
      /\ run'.seq = run.seq /\ run'.at = run.at /\ run'.given = run.given /\ run'.todo = run.todo
  BY <1>5, <1>6 DEF BusyRuns
<1>10. RunTyped'
  <2>1. run' \in BusyRuns(SellSteps, Snapshots)'
    BY <1>4, <1>5, <1>6, <1>9 DEF BusyRuns, SellSteps, Mems, Seqs
  <2> QED
    BY <1>9, <2>1 DEF RunTyped, SettleSteps, SellSteps, IdleSteps
<1>11. run' # Down
  BY <1>9 DEF Down
<1>12. Runtime' = rt
  BY <1>2, <1>3, <1>7, <1>8, <1>9 DEF Runtime
<1>13. RunShaped'
  BY <1>2, <1>9, <1>12 DEF RunShaped, IdleSteps
<1>14. polls[run.at] = run.seq[run.at] /\ polls' = polls
  BY <1>1, SellingFacts
<1>15. FirstRun'
  BY <1>2, <1>9 DEF FirstRun
<1>16. EventsSound' /\ EventsPolled'
  BY <1>14 DEF IInv, EventsSound, EventsPolled
<1>17. SeqsAhead'
  <2>1. SeqsAhead
    BY DEF IInv
  <2> SUFFICES ASSUME NEW p \in run.open
               PROVE  IF Selling(p)'
                      THEN /\ polls'[p] = run'.seq[p]
                           /\ \A k \in Waiting' : \A e \in events'[p][k] : e.seq < run'.seq[p]
                      ELSE polls'[p] < run'.seq[p]
    BY <1>9 DEF SeqsAhead
  <2>2. CASE p = run.at
    <3>1. Waiting' = Members(Tail(run.keys)) /\ Waiting = Members(run.keys)
      BY <1>9 DEF Waiting
    <3>2. \A k \in Waiting : \A e \in events[run.at][k] : e.seq < run.seq[run.at]
      BY <1>1, SellingFacts
    <3>3. Members(Tail(run.keys)) \subseteq KeySet
      BY <1>3 DEF Members
    <3>4. \A k \in Waiting' : k \in Waiting /\ events'[run.at][k] = events[run.at][k]
      BY <1>2, <1>3, <3>1, <3>3
    <3>5. Selling(p)'
      BY <2>2, <1>9 DEF Selling, SellSteps
    <3> QED
      BY <2>2, <1>9, <1>14, <3>2, <3>4, <3>5
  <2>3. CASE p # run.at
    <3>1. ~Selling(p) /\ ~Selling(p)'
      BY <2>3, <1>9 DEF Selling
    <3>2. polls[p] < run.seq[p]
      BY <3>1, <2>1, <1>2 DEF SeqsAhead
    <3> QED
      BY <3>1, <3>2, <1>9, <1>14
  <2> QED
    BY <2>2, <2>3
<1>18. MemoryIsRows'
  <2>1. run'.mem[run.at][Key] = rt
    BY <1>2, <1>3, <1>7, <1>9
  <2>2. \A p \in run.open, k \in KeySet : p # run.at \/ k # Key => run'.mem[p][k] = run.mem[p][k]
    BY <1>7, <1>9
  <2> QED
    BY <1>2, <1>3, <1>9, <2>1, <2>2, MemoryStep
<1>19. SoldOut' /\ Answered' /\ Settled'
  BY <1>9, <1>12 DEF SoldOut, Answered, Settled
<1> QED
  BY <1>10, <1>13, <1>15, <1>16, <1>17, <1>18, <1>19 DEF IInv

LEMMA SellStepped ==
    ASSUME IInv, Sell
    PROVE  IInv'
<1> DEFINE E == events[run.at][Key]
           s == run.seq[run.at]
           leg == Leg(run.at, Key, Runtime, run.given.bid)
           x == FillEvent(s, leg)
           rt == After(leg)
<1>1. /\ run.step = "advance" /\ run.keys # <<>> /\ Runtime.state = "pending"
      /\ Filled(Runtime.quantity, run.given.bid) > 0
      /\ UNCHANGED <<world, starts, row, polls, terminal>>
      /\ Write(run.at, Key, x)
      /\ IF leg.left > 0 THEN Went(rt, "advance")
         ELSE run' = [run EXCEPT !.step = "close", !.mem[run.at][Key] = rt]
  BY DEF Sell, Advancing, At
<1>2. /\ run.step \in SellSteps /\ run.step \in BusySteps
      /\ run.at \in Positions /\ run.at \in run.open /\ run # Down /\ Key \in KeySet
      /\ terminal[run.at][Key] = NoRow /\ Runtime = Built(E, run.at, Key)
      /\ Sound(E, run.at, Key) /\ Runtime \in Runtimes
      /\ Later(E, s) /\ (\A e \in E : e.seq \in Nat /\ e.seq < s) /\ s \in Nat
  BY <1>1, AdvancingFacts
<1>3. run.given.bid \in Bids
  BY <1>2, SellingFacts
<1>4. Pending(E)
  BY <1>1, <1>2, BuiltType
<1>5. /\ Runtime.quantity = Left(E, run.at, Key) /\ Runtime.cost = CostLeft(E, run.at, Key)
      /\ Runtime.pnl = Pnl(E) /\ Runtime.quantity \in Nat /\ Runtime.cost \in Nat /\ Runtime.pnl \in Int
  BY <1>2 DEF Built, Runtimes
<1>6. /\ leg \in Legs /\ leg.left = Left(E, run.at, Key) - leg.quantity
      /\ leg.costLeft = CostLeft(E, run.at, Key) - leg.cost /\ (leg.left = 0 => leg.costLeft = 0)
  BY <1>1, <1>3, <1>5, LegFact
<1>7. rt = [state |-> "monitoring", quantity |-> leg.left, cost |-> leg.costLeft, pnl |-> Pnl(E) + leg.pnl]
  BY <1>5 DEF After
<1> HIDE DEF leg, rt
<1>8. rt \in Runtimes /\ leg.left \in Nat
  BY <1>5, <1>6, <1>7 DEF Runtimes, Legs
<1>9. x \in Events /\ x.seq = s
  BY <1>2, <1>6 DEF FillEvent, Events, Later
<1> HIDE DEF x
<1>10. \A e \in E : ~(e.type = x.type /\ e.seq = x.seq)
  BY <1>2, <1>9
<1>11. /\ TablesTyped' /\ TerminalsAddUp' /\ events'[run.at][Key] = E \cup {x}
       /\ terminal'[run.at][Key] = NoRow
       /\ \A p \in Positions, k \in KeySet : p # run.at \/ k # Key =>
              events'[p][k] = events[p][k] /\ terminal'[p][k] = terminal[p][k]
  BY <1>1, <1>2, <1>9, <1>10, OpenEvent
<1>12. /\ Sound(events'[run.at][Key], run.at, Key)
       /\ Built(events'[run.at][Key], run.at, Key) = rt
  <2>1. FullQuantity(run.at, Key) \in Nat /\ FullCost(run.at, Key) \in Nat
    BY <1>2, Amounts
  <2>2. events'[run.at][Key] = E \cup {FillEvent(s, leg)}
    BY <1>11 DEF x
  <2> HIDE DEF Key, Runtime
  <2> QED
    BY <1>2, <1>4, <1>6, <1>7, <2>1, <2>2, AddFill
<1>13. \A e \in events'[run.at][Key] : e.seq <= s
  BY <1>2, <1>9, <1>11
<1> HIDE DEF Key, Runtime
<1>14. CASE leg.left > 0
  BY <1>1, <1>2, <1>8, <1>11, <1>12, <1>13, <1>14, SellStep
<1>15. CASE ~(leg.left > 0)
  <2>1. rt.quantity = 0 /\ rt.state # "closed"
    BY <1>7, <1>8, <1>15
  <2>2. run' = [run EXCEPT !.step = "close", !.mem[run.at][Key] = rt]
    BY <1>1, <1>15
  <2> QED
    BY <1>1, <1>2, <1>8, <1>11, <1>12, <1>13, <2>1, <2>2, SoldOutStep
<1> QED
  BY <1>14, <1>15

(* What the terminal row of an open overlay leaves in the tables. *)
LEMMA OpenTerminal ==
    ASSUME IInv, run.step \in BusySteps, run.keys # <<>>, terminal[run.at][Key] = NoRow,
           NEW status \in Statuses, status # "none", NEW known \in BOOLEAN, NEW pnl \in Int,
           WriteTerminal(run.at, Key, status, known, pnl),
           UNCHANGED <<world, starts, row, polls, events>>,
           known =>
               LET E == events[run.at][Key] IN
               \/ /\ status \in {"RESOLVED_HOLD", "RESOLVED_RESIDUAL"}
                  /\ clock[WindowOf[run.at]] = "ended"
                  /\ pnl = Pnl(E) + Payout(run.at, Left(E, run.at, Key)) - CostLeft(E, run.at, Key)
               \/ pnl = Pnl(E) /\ Left(E, run.at, Key) = 0
    PROVE  /\ TablesTyped' /\ TerminalsAddUp' /\ terminal'[run.at][Key] # NoRow
           /\ \A p \in Positions, k \in KeySet : p # run.at \/ k # Key =>
                  events'[p][k] = events[p][k] /\ terminal'[p][k] = terminal[p][k]
<1>1. run.at \in Positions /\ Key \in KeySet
  BY BusyFacts, BusyKey
<1> HIDE DEF Key
<1>2. /\ TablesTyped' /\ terminal'[run.at][Key] # NoRow
      /\ terminal'[run.at][Key] = [status |-> status, known |-> known, pnl |-> pnl]
      /\ \A q \in Positions, j \in KeySet \cup {Staged} :
             q # run.at \/ j # Key => terminal'[q][j] = terminal[q][j]
  BY <1>1, TerminalWritten
<1>3. ASSUME NEW p \in Positions, NEW k \in KeySet, p = run.at, k = Key
      PROVE  TerminalAddsUp(p, k)'
  BY <1>2, <1>3 DEF TerminalAddsUp, Payout, world
<1>4. ASSUME NEW p \in Positions, NEW k \in KeySet, p = run.at, k = Key
      PROVE  TerminalsAddUp'
  <2>1. TerminalAddsUp(p, k)'
    BY <1>3, <1>4
  <2>2. \A q \in Positions, j \in KeySet : q # p \/ j # k =>
            events'[q][j] = events[q][j] /\ terminal'[q][j] = terminal[q][j]
    BY <1>2, <1>4
  <2>3. \A q \in Positions : terminal'[q][Staged] = terminal[q][Staged]
    BY <1>1, <1>2, KeyFacts
  <2> QED
    BY <2>1, <2>2, <2>3, <1>4, TerminalsStep
<1> QED
  BY <1>1, <1>2, <1>4

LEMMA FilledStatusFact ==
    ASSUME NEW k
    PROVE  FilledStatus(k) \in Statuses /\ FilledStatus(k) # "none"
<1>1. FilledStatus(k) \in FilledStatuses
  <2>1. CASE k \in {"TIME_STOP_T120", "MODEL_PREMIUM_EXIT", "ENTRY_THESIS_INVALIDATION"}
    BY <2>1 DEF FilledStatus, FilledStatuses
  <2>2. CASE k \notin {"TIME_STOP_T120", "MODEL_PREMIUM_EXIT", "ENTRY_THESIS_INVALIDATION"}
    BY <2>2 DEF FilledStatus, FilledStatuses
  <2> QED
    BY <2>1, <2>2
<1> QED
  BY <1>1 DEF FilledStatuses, Statuses

LEMMA CloseFilledStep ==
    ASSUME IInv, CloseFilled
    PROVE  IInv'
<1> DEFINE E == events[run.at][Key]
           rt == [Runtime EXCEPT !.state = "closed", !.cost = 0]
<1>1. /\ run.step = "close" /\ WriteTerminal(run.at, Key, FilledStatus(Key), TRUE, Runtime.pnl)
      /\ Went(rt, "advance") /\ UNCHANGED <<world, starts, row, polls, events>>
  BY DEF CloseFilled, At
<1>2. run.step \in SellSteps /\ run.step \in BusySteps
  BY <1>1 DEF SellSteps, BusySteps
<1>3. run # Down /\ run.at \in Positions /\ run.at \in run.open
  BY <1>2, BusyFacts
<1>4. run.keys # <<>> /\ Runtime.state # "closed" /\ Runtime.quantity = 0
  BY <1>1, <1>3 DEF IInv, RunShaped, SoldOut
<1>5. /\ Key \in KeySet /\ terminal[run.at][Key] = NoRow /\ Runtime = Built(E, run.at, Key)
      /\ Sound(E, run.at, Key) /\ Runtime \in Runtimes
  BY <1>2, <1>4, BusyKey
<1>6. rt \in Runtimes /\ rt.state = "closed"
  BY <1>5 DEF Runtimes
<1>7. Runtime.pnl = Pnl(E) /\ Left(E, run.at, Key) = 0 /\ Runtime.pnl \in Int
  BY <1>4, <1>5 DEF Built, Runtimes
<1>8. FilledStatus(Key) \in Statuses /\ FilledStatus(Key) # "none"
  BY FilledStatusFact
<1> HIDE DEF rt
<1>9. /\ TablesTyped' /\ TerminalsAddUp' /\ terminal'[run.at][Key] # NoRow
      /\ \A p \in Positions, k \in KeySet : p # run.at \/ k # Key =>
             events'[p][k] = events[p][k] /\ terminal'[p][k] = terminal[p][k]
  <2> DEFINE status == FilledStatus(Key)
             pnl == Runtime.pnl
  <2>1. status \in Statuses /\ status # "none" /\ pnl \in Int /\ TRUE \in BOOLEAN
        /\ WriteTerminal(run.at, Key, status, TRUE, pnl) /\ pnl = Pnl(E) /\ Left(E, run.at, Key) = 0
    BY <1>1, <1>7, <1>8
  <2> HIDE DEF Key, Runtime, status, pnl
  <2> QED
    BY <1>1, <1>2, <1>4, <1>5, <2>1, OpenTerminal
<1>10. polls[run.at] = run.seq[run.at]
  BY <1>2, SellingFacts
<1>11. \A e \in E : e.seq <= run.seq[run.at]
  BY <1>3, <1>5, <1>10 DEF IInv, EventsPolled
<1> HIDE DEF Key, Runtime
<1> QED
  BY <1>1, <1>2, <1>4, <1>5, <1>6, <1>9, <1>11, SellStep

(* The aggregate of the tranches. *)
LEMMA AggregateStep ==
    ASSUME IInv, NEW p \in Positions, WriteAggregate(p), UNCHANGED <<world, starts, row, polls, events>>
    PROVE  /\ TablesTyped' /\ TerminalsAddUp'
           /\ \A q \in Positions, k \in KeySet : terminal'[q][k] = terminal[q][k]
<1>1. TerminalsAddUp /\ TablesTyped
  BY DEF IInv
<1> DEFINE c == combine_staged_tranche_pnls(terminal[p])
<1>2. CASE terminal' = terminal
  BY <1>2, TablesSame DEF tables
<1>3. CASE terminal' # terminal
  <2>1. /\ \A k \in TrancheSet : terminal[p][k] # NoRow
        /\ WriteTerminal(p, Staged, "STAGED_AGGREGATE", c.known, c.pnl)
    BY <1>3 DEF WriteAggregate
  <2>2. terminal[p][Staged] = NoRow
    BY <1>3, <2>1 DEF WriteTerminal
  <2>3. \A k \in TrancheSet : terminal[p][k] \in TerminalRows
    BY <1>1, KeyFacts DEF TablesTyped
  <2>4. TrancheSum(terminal[p]) \in Int
    <3> DEFINE f == [k \in TrancheSet |-> terminal[p][k].pnl]
    <3>1. \A k \in TrancheSet : f[k] \in Int
      BY <2>3 DEF TerminalRows
    <3> HIDE DEF f
    <3>2. Total(TrancheSet, f) \in Int
      BY <3>1, KeyFacts, TotalType
    <3> QED
      BY <3>2 DEF TrancheSum, f
  <2>5. c.known \in BOOLEAN /\ c.pnl \in Int /\ (c.known => c.pnl = TrancheSum(terminal[p]))
    <3> DEFINE rows == terminal[p]
               sum == SumFunction([k \in TrancheSet |-> rows[k].pnl])
               known == \A k \in TrancheSet : rows[k].known
    <3>1. c = [known |-> known, pnl |-> IF known THEN sum ELSE 0]
      BY DEF combine_staged_tranche_pnls
    <3>2. sum = TrancheSum(terminal[p])
      <4>1. IsFiniteSet(TrancheSet)
        BY KeyFacts
      <4> HIDE DEF rows
      <4>2. SumFunction([k \in TrancheSet |-> rows[k].pnl]) = Total(TrancheSet, [k \in TrancheSet |-> rows[k].pnl])
        BY <4>1, SumIsTotal
      <4> QED
        BY <4>2 DEF TrancheSum, rows
    <3>3. known \in BOOLEAN
      OBVIOUS
    <3> HIDE DEF sum, known, c, rows
    <3>4. c.known = known /\ c.pnl = IF known THEN sum ELSE 0
      BY <3>1
    <3> QED
      BY <3>2, <3>3, <3>4, <2>4
  <2> DEFINE known == c.known
             pnl == c.pnl
  <2>6. /\ known \in BOOLEAN /\ pnl \in Int /\ (known => pnl = TrancheSum(terminal[p]))
        /\ WriteTerminal(p, Staged, "STAGED_AGGREGATE", known, pnl)
    BY <2>1, <2>5
  <2> HIDE DEF known, pnl, c
  <2>7. /\ TablesTyped'
        /\ terminal'[p][Staged] = [status |-> "STAGED_AGGREGATE", known |-> known, pnl |-> pnl]
        /\ \A q \in Positions, j \in KeySet \cup {Staged} : q # p \/ j # Staged => terminal'[q][j] = terminal[q][j]
    <3> DEFINE k == Staged
               status == "STAGED_AGGREGATE"
    <3>1. k \in KeySet \cup {Staged} /\ status \in Statuses /\ status # "none"
      BY DEF Statuses
    <3>2. terminal[p][k] = NoRow /\ WriteTerminal(p, k, status, known, pnl)
      BY <2>2, <2>6
    <3> HIDE DEF k, status
    <3>3. /\ TablesTyped'
          /\ terminal'[p][k] = [status |-> status, known |-> known, pnl |-> pnl]
          /\ \A q \in Positions, j \in KeySet \cup {Staged} : q # p \/ j # k => terminal'[q][j] = terminal[q][j]
      BY <2>6, <3>1, <3>2, TerminalWritten
    <3> QED
      BY <3>3 DEF k, status
  <2>8. \A q \in Positions, k \in KeySet : terminal'[q][k] = terminal[q][k]
    BY <2>7, KeyFacts
  <2>9. UNCHANGED <<clock, winner, row, events>>
    BY DEF world
  <2>10. \A q \in Positions, k \in KeySet : TerminalAddsUp(q, k)'
    BY <1>1, <2>8, <2>9 DEF TerminalsAddUp, TerminalAddsUp, Payout
  <2>11. \A q \in Positions : row'[q] = "PAPER_CLOSED" => \A k \in KeySet : terminal'[q][k] # NoRow
    BY <1>1, <2>8, <2>9 DEF TerminalsAddUp
  <2>12. ASSUME NEW q \in Positions
         PROVE  StagedAddsUp(q)'
    <3>1. \A k \in TrancheSet : terminal'[q][k] = terminal[q][k]
      BY <2>8, KeyFacts
    <3>2. TrancheSum(terminal'[q]) = TrancheSum(terminal[q])
      BY <3>1, TrancheSumKept
    <3>3. CASE q = p
      BY <3>1, <3>2, <3>3, <2>1, <2>6, <2>7 DEF StagedAddsUp
    <3>4. CASE q # p
      <4>1. StagedAddsUp(q) /\ terminal'[q][Staged] = terminal[q][Staged]
        BY <3>4, <1>1, <2>7 DEF TerminalsAddUp
      <4> QED
        BY <4>1, <3>1, <3>2 DEF StagedAddsUp
    <3> QED
      BY <3>3, <3>4
  <2> QED
    BY <2>7, <2>8, <2>10, <2>11, <2>12 DEF TerminalsAddUp
<1> QED
  BY <1>2, <1>3

(* Done with a position. *)
LEMMA IdleStep ==
    ASSUME IInv, run.step \in BusySteps, NEW open, NEW seq, run' = Idle(open, seq),
           open \subseteq run.open, run.todo \ {run.at} \subseteq open,
           \A p \in open : seq[p] \in Nat \ {0} /\ polls[p] < seq[p],
           WriteAggregate(run.at), UNCHANGED <<world, starts, row, polls, events>>
    PROVE  IInv'
<1>1. /\ run # Down /\ run.at \in Positions /\ run.at \in run.open /\ run.open \subseteq Positions
      /\ run.mem \in [run.open -> [KeySet -> Runtimes]] /\ run.todo \subseteq run.open
      /\ starts > 0 /\ starts \in Nat
  BY BusyFacts
<1>2. /\ TablesTyped' /\ TerminalsAddUp'
      /\ \A q \in Positions, k \in KeySet : terminal'[q][k] = terminal[q][k]
  BY <1>1, AggregateStep
<1>3. run' = [step |-> "cycle", todo |-> run.todo \ {run.at}, open |-> open,
              mem |-> [p \in open |-> run.mem[p]], seq |-> [p \in open |-> seq[p]]]
  BY DEF Idle, Restrict
<1>4. /\ run'.step = "cycle" /\ run'.todo = run.todo \ {run.at} /\ run'.open = open
      /\ run'.mem = [p \in open |-> run.mem[p]] /\ run'.seq = [p \in open |-> seq[p]]
  BY <1>3
<1>5. run'.mem \in [open -> [KeySet -> Runtimes]] /\ run'.seq \in [open -> Nat \ {0}]
  BY <1>1, <1>4
<1>6. RunTyped'
  <2>1. run' \in IdleRuns'
    BY <1>1, <1>3, <1>4, <1>5 DEF IdleRuns, IdleSteps, Mems, Seqs
  <2> QED
    BY <1>4, <2>1 DEF RunTyped, SettleSteps, SellSteps, IdleSteps
<1>7. RunShaped' /\ FirstRun'
  BY <1>1, <1>4 DEF RunShaped, IdleSteps, FirstRun
<1>8. EventsSound' /\ EventsPolled'
  BY DEF IInv, EventsSound, EventsPolled
<1>9. SeqsAhead'
  BY <1>4 DEF SeqsAhead, Selling, SellSteps
<1>10. MemoryIsRows'
  <2>1. MemoryIsRows
    BY DEF IInv
  <2> QED
    BY <1>1, <1>2, <1>4, <2>1 DEF MemoryIsRows
<1>11. SoldOut' /\ Answered' /\ Settled'
  BY <1>4 DEF SoldOut, Answered, Settled
<1> QED
  BY <1>2, <1>6, <1>7, <1>8, <1>9, <1>10, <1>11 DEF IInv

LEMMA PollDoneStep ==
    ASSUME IInv, PollDone
    PROVE  IInv'
<1> DEFINE seq == [run.seq EXCEPT ![run.at] = @ + 1]
<1>1. /\ run.step = "advance" /\ run' = Idle(run.open, seq)
      /\ WriteAggregate(run.at) /\ UNCHANGED <<world, starts, row, polls, events>>
  BY DEF PollDone, At
<1>2. run.step \in SellSteps /\ run.step \in BusySteps
  BY <1>1 DEF SellSteps, BusySteps
<1>3. /\ run.at \in run.open /\ run.open \subseteq Positions /\ run.todo \subseteq run.open
      /\ run.seq \in [run.open -> Nat \ {0}] /\ run # Down
  BY <1>2, BusyFacts
<1>4. polls[run.at] = run.seq[run.at] /\ SeqsAhead /\ polls \in [Positions -> Nat]
  BY <1>2, SellingFacts DEF IInv, TablesTyped
<1>5. \A p \in run.open : seq[p] \in Nat \ {0} /\ polls[p] < seq[p]
  <2> TAKE p \in run.open
  <2>1. CASE p = run.at
    BY <2>1, <1>3, <1>4
  <2>2. CASE p # run.at
    BY <2>2, <1>3, <1>4 DEF SeqsAhead, Selling
  <2> QED
    BY <2>1, <2>2
<1> HIDE DEF seq
<1> QED
  BY <1>1, <1>2, <1>3, <1>5, IdleStep

LEMMA DropPositionStep ==
    ASSUME IInv, DropPosition
    PROVE  IInv'
<1>1. /\ run.step = "drop" /\ run' = Idle(run.open \ {run.at}, run.seq)
      /\ WriteAggregate(run.at) /\ UNCHANGED <<world, starts, row, polls, events>>
  BY DEF DropPosition, At
<1>2. run.step \in SettleSteps /\ run.step \in BusySteps /\ run.step \notin SellSteps
  BY <1>1 DEF SettleSteps, BusySteps, SellSteps
<1>3. /\ run.open \subseteq Positions /\ run.todo \subseteq run.open
      /\ run.seq \in [run.open -> Nat \ {0}] /\ run # Down
  BY <1>2, BusyFacts
<1>4. SeqsAhead
  BY DEF IInv
<1>5. \A p \in run.open : run.seq[p] \in Nat \ {0} /\ polls[p] < run.seq[p]
  BY <1>2, <1>3, <1>4 DEF SeqsAhead, Selling
<1> DEFINE open == run.open \ {run.at}
           seq == run.seq
<1>6. /\ open \subseteq run.open /\ run.todo \ {run.at} \subseteq open
      /\ \A p \in open : seq[p] \in Nat \ {0} /\ polls[p] < seq[p]
  BY <1>3, <1>5
<1>7. run' = Idle(open, seq)
  BY <1>1
<1> HIDE DEF open, seq
<1> QED
  BY <1>1, <1>2, <1>6, <1>7, IdleStep

(* The turn of one overlay in a settlement. *)
LEMMA SettleKeyStep ==
    ASSUME IInv, run.step \in {"settle", "settled"}, run.keys # <<>>, NEW rt \in Runtimes, Went(rt, "settle"),
           UNCHANGED <<world, starts, row, polls, events>>, TablesTyped', TerminalsAddUp',
           \A p \in Positions, k \in KeySet : p # run.at \/ k # Key => terminal'[p][k] = terminal[p][k],
           rt.state = "closed", terminal'[run.at][Key] # NoRow
    PROVE  IInv'
<1>1. run.step \in BusySteps /\ run.step \in SettleSteps /\ run.step \notin SellSteps
  BY DEF BusySteps, SettleSteps, SellSteps
<1>2. /\ run # Down /\ run.at \in Positions /\ run.at \in run.open /\ run.open \subseteq Positions
      /\ starts > 0 /\ starts \in Nat
  BY <1>1, BusyFacts
<1>3. Key \in KeySet /\ Members(run.keys) = {Key} \cup Members(Tail(run.keys))
  BY <1>1, BusyKey
<1>4. /\ RunTyped' /\ RunShaped' /\ run' # Down /\ run'.step = "settle"
      /\ run'.open = run.open /\ run'.seq = run.seq /\ run'.at = run.at /\ run'.given = run.given
      /\ run'.keys = Tail(run.keys) /\ run'.mem[run.at][Key] = rt
      /\ \A p \in run.open, k \in KeySet : p # run.at \/ k # Key => run'.mem[p][k] = run.mem[p][k]
  BY <1>1, WentFacts
<1> HIDE DEF Key
<1>5. FirstRun'
  BY <1>2, <1>4 DEF FirstRun
<1>6. EventsSound' /\ EventsPolled'
  BY DEF IInv, EventsSound, EventsPolled
<1>7. SeqsAhead'
  <2>1. SeqsAhead
    BY DEF IInv
  <2> QED
    BY <1>1, <1>2, <1>4, <2>1 DEF SeqsAhead, Selling, SellSteps
<1>8. MemoryIsRows'
  BY <1>2, <1>3, <1>4, MemoryStep
<1>9. SoldOut'
  BY <1>4 DEF SoldOut
<1>10. Answered'
  <2>1. Answered
    BY DEF IInv
  <2> QED
    BY <1>4, <2>1 DEF Answered, world
<1>11. Settled'
  <2>1. Settled
    BY DEF IInv
  <2> QED
    BY <1>2, <1>3, <1>4, <2>1 DEF Settled
<1> QED
  BY <1>4, <1>5, <1>6, <1>7, <1>8, <1>9, <1>10, <1>11 DEF IInv

LEMMA SkipClosedStep ==
    ASSUME IInv, SkipClosed
    PROVE  IInv'
<1>1. /\ run.step = "settle" /\ run.keys # <<>> /\ Runtime.state = "closed"
      /\ Went(Runtime, "settle") /\ UNCHANGED <<world, starts, tables>>
  BY DEF SkipClosed, Settling, At
<1>2. run.step \in BusySteps
  BY <1>1 DEF BusySteps, SettleSteps
<1>3. TablesTyped' /\ TerminalsAddUp'
  BY <1>1, TablesSame
<1>4. Runtime \in Runtimes /\ Sound(events[run.at][Key], run.at, Key) /\ Key \in KeySet
  BY <1>1, <1>2, BusyKey
<1>5. run.at \in Positions /\ run.at \in run.open /\ run # Down
  BY <1>2, BusyFacts
<1>6. Runtime.state = "closed" /\ terminal[run.at][Key] # NoRow
  <2>1. Built(events[run.at][Key], run.at, Key).state # "closed"
    BY <1>4, BuiltType
  <2>2. MemoryIsRows
    BY DEF IInv
  <2> QED
    BY <2>1, <2>2, <1>1, <1>4, <1>5 DEF MemoryIsRows, Runtime
<1> HIDE DEF Key, Runtime
<1>7. events' = events /\ terminal' = terminal /\ UNCHANGED <<world, starts, row, polls>>
  BY <1>1 DEF tables
<1> QED
  BY <1>1, <1>3, <1>4, <1>6, <1>7, SettleKeyStep

LEMMA FailClosedStep ==
    ASSUME IInv, FailClosed
    PROVE  IInv'
<1> DEFINE rt == [Runtime EXCEPT !.state = "closed"]
           status == "GAMMA_CLOB_CONFLICT_FAIL_CLOSED"
<1>1. /\ run.step = "settle" /\ run.keys # <<>> /\ Runtime.state # "closed"
      /\ WriteTerminal(run.at, Key, status, FALSE, 0)
      /\ Went(rt, "settle") /\ UNCHANGED <<world, starts, row, polls, events>>
  BY DEF FailClosed, Settling, At
<1>2. run.step \in BusySteps
  BY <1>1 DEF BusySteps, SettleSteps
<1>3. Runtime \in Runtimes /\ Key \in KeySet /\ terminal[run.at][Key] = NoRow
  BY <1>1, <1>2, BusyKey
<1>4. rt \in Runtimes /\ rt.state = "closed"
  BY <1>3 DEF Runtimes
<1>5. status \in Statuses /\ status # "none" /\ FALSE \in BOOLEAN /\ 0 \in Int
  BY DEF Statuses
<1> HIDE DEF rt, status, Key, Runtime
<1>6. /\ TablesTyped' /\ TerminalsAddUp' /\ terminal'[run.at][Key] # NoRow
      /\ \A p \in Positions, k \in KeySet : p # run.at \/ k # Key =>
             events'[p][k] = events[p][k] /\ terminal'[p][k] = terminal[p][k]
  BY <1>1, <1>2, <1>3, <1>5, OpenTerminal
<1> QED
  BY <1>1, <1>4, <1>6, SettleKeyStep

(* A settlement moves on, with the same overlay. *)
LEMMA SettleMoves ==
    ASSUME IInv, NEW step \in SettleSteps, run.step \in SettleSteps, run' = [run EXCEPT !.step = step],
           step = "settled" => run.keys # <<>> /\ Runtime.state # "closed"
    PROVE  /\ RunTyped' /\ RunShaped' /\ run' # Down /\ run'.step = step
           /\ run'.open = run.open /\ run'.seq = run.seq /\ run'.at = run.at /\ run'.given = run.given
           /\ run'.keys = run.keys /\ run'.mem = run.mem
<1>1. run.step \in BusySteps
  BY DEF BusySteps
<1>2. run.at \in run.open /\ run.todo \subseteq run.open /\ Distinct(run.keys)
  BY <1>1, BusyFacts
<1>3. run \in BusyRuns(SettleSteps, {"resolved", "conflict"})
  BY DEF IInv, RunTyped
<1>4. /\ run'.step = step /\ run'.mem = run.mem /\ run'.keys = run.keys /\ run'.open = run.open
      /\ run'.seq = run.seq /\ run'.at = run.at /\ run'.given = run.given /\ run'.todo = run.todo
  BY <1>3 DEF BusyRuns
<1>5. RunTyped'
  <2>1. run' \in BusyRuns(SettleSteps, {"resolved", "conflict"})'
    BY <1>3, <1>4 DEF BusyRuns, Mems, Seqs
  <2> QED
    BY <1>4, <2>1 DEF RunTyped, SettleSteps, SellSteps, IdleSteps
<1>6. run' # Down
  BY <1>4 DEF Down, SettleSteps
<1>7. Runtime' = Runtime
  BY <1>4 DEF Runtime, Key
<1>8. RunShaped'
  BY <1>2, <1>4, <1>7 DEF RunShaped, SettleSteps, IdleSteps
<1> QED
  BY <1>4, <1>5, <1>6, <1>8

LEMMA PayoutType ==
    ASSUME NEW p, NEW q \in Nat
    PROVE  Payout(p, q) \in Int
BY DEF Payout

LEMMA SettleStepped ==
    ASSUME IInv, Settle
    PROVE  IInv'
<1> DEFINE E == events[run.at][Key]
           x == SettleEvent(Runtime, SettlementPnl)
<1>1. /\ run.step = "settle" /\ run.keys # <<>> /\ Runtime.state # "closed" /\ run.given = "resolved"
      /\ Write(run.at, Key, x) /\ run' = [run EXCEPT !.step = "settled"]
      /\ UNCHANGED <<world, starts, row, polls, terminal>>
  BY DEF Settle, Settling, At
<1>2. run.step \in BusySteps /\ run.step \in SettleSteps /\ "settled" \in SettleSteps
  BY <1>1 DEF BusySteps, SettleSteps
<1>3. /\ run # Down /\ run.at \in Positions /\ run.at \in run.open /\ run.open \subseteq Positions
      /\ starts > 0 /\ starts \in Nat
  BY <1>2, BusyFacts
<1>4. /\ Key \in KeySet /\ Runtime \in Runtimes /\ terminal[run.at][Key] = NoRow
      /\ Runtime = Built(E, run.at, Key) /\ Sound(E, run.at, Key)
  BY <1>1, <1>2, BusyKey
<1>5. /\ RunTyped' /\ RunShaped' /\ run' # Down /\ run'.step = "settled"
      /\ run'.open = run.open /\ run'.seq = run.seq /\ run'.at = run.at /\ run'.given = run.given
      /\ run'.keys = run.keys /\ run'.mem = run.mem
  <2> DEFINE step == "settled"
  <2>1. step \in SettleSteps /\ run' = [run EXCEPT !.step = step]
    BY <1>1, <1>2
  <2> HIDE DEF step
  <2>2. /\ RunTyped' /\ RunShaped' /\ run' # Down /\ run'.step = step
        /\ run'.open = run.open /\ run'.seq = run.seq /\ run'.at = run.at /\ run'.given = run.given
        /\ run'.keys = run.keys /\ run'.mem = run.mem
    BY <1>1, <1>2, <2>1, SettleMoves
  <2> QED
    BY <2>2 DEF step
<1>6. SettlementPnl \in Int
  <2>1. Runtime.quantity \in Nat /\ Runtime.cost \in Nat
    BY <1>4 DEF Runtimes
  <2> QED
    BY <2>1, PayoutType DEF SettlementPnl
<1>7. x \in Events /\ x.type = "RESOLUTION_SETTLE" /\ x.seq = 0
  BY <1>4, <1>6 DEF SettleEvent, Events, Runtimes
<1> HIDE DEF x, Key, Runtime
<1>8. /\ TablesTyped' /\ TerminalsAddUp'
      /\ Sound(events'[run.at][Key], run.at, Key)
      /\ Built(events'[run.at][Key], run.at, Key) = Built(E, run.at, Key)
      /\ \A p \in Positions, k \in KeySet : p # run.at \/ k # Key => events'[p][k] = events[p][k]
      /\ \A e \in events'[run.at][Key] : e \in E \/ e.seq = 0
  <2>1. CASE \E e \in E : e.type = x.type /\ e.seq = x.seq
    <3>1. events' = events
      BY <1>1, <2>1 DEF Write
    <3>2. UNCHANGED <<world, starts, tables>>
      BY <1>1, <3>1 DEF tables
    <3>3. TablesTyped' /\ TerminalsAddUp'
      BY <3>2, TablesSame
    <3> QED
      BY <1>4, <3>1, <3>3
  <2>2. CASE ~\E e \in E : e.type = x.type /\ e.seq = x.seq
    <3>1. \A e \in E : ~(e.type = x.type /\ e.seq = x.seq)
      BY <2>2
    <3>2. /\ TablesTyped' /\ TerminalsAddUp' /\ events'[run.at][Key] = E \cup {x}
          /\ \A p \in Positions, k \in KeySet : p # run.at \/ k # Key =>
                 events'[p][k] = events[p][k] /\ terminal'[p][k] = terminal[p][k]
      BY <1>1, <1>2, <1>4, <1>7, <3>1, OpenEvent
    <3>3. /\ Sound(events'[run.at][Key], run.at, Key)
          /\ Built(events'[run.at][Key], run.at, Key) = Built(E, run.at, Key)
      BY <1>4, <1>7, <3>1, <3>2, AddSettle
    <3> QED
      BY <1>7, <3>2, <3>3
  <2> QED
    BY <2>1, <2>2
<1>9. FirstRun'
  BY <1>1, <1>3, <1>5 DEF FirstRun
<1>10. EventsSound'
  <2>1. EventsSound
    BY DEF IInv
  <2> QED
    BY <1>8, <2>1 DEF EventsSound
<1>11. EventsPolled'
  <2>1. EventsPolled /\ polls \in [Positions -> Nat] /\ polls' = polls
    BY <1>1 DEF IInv, TablesTyped
  <2> QED
    BY <1>3, <1>4, <1>8, <2>1 DEF EventsPolled
<1>12. SeqsAhead'
  <2>1. SeqsAhead /\ polls' = polls
    BY <1>1 DEF IInv
  <2> QED
    BY <1>1, <1>3, <1>5, <2>1 DEF SeqsAhead, Selling, SellSteps
<1>13. MemoryIsRows'
  <2>1. run'.mem[run.at][Key] = Built(events'[run.at][Key], run.at, Key)
    BY <1>4, <1>5, <1>8 DEF Runtime
  <2> QED
    BY <1>1, <1>3, <1>4, <1>5, <1>8, <2>1, MemoryStep
<1>14. SoldOut'
  BY <1>5 DEF SoldOut
<1>15. Answered' /\ Settled'
  <2>1. Answered /\ Settled
    BY DEF IInv
  <2> QED
    BY <1>1, <1>5, <2>1 DEF Answered, Settled, world
<1> QED
  BY <1>5, <1>8, <1>9, <1>10, <1>11, <1>12, <1>13, <1>14, <1>15 DEF IInv

LEMMA ClosedType ==
    ASSUME NEW p, NEW k
    PROVE  Closed(p, k) \in Runtimes /\ Closed(p, k).state = "closed"
<1> DEFINE f == Fresh(p, k)
<1>1. f = [state |-> "monitoring", quantity |-> FullQuantity(p, k), cost |-> FullCost(p, k), pnl |-> 0]
  BY DEF Fresh
<1>2. Closed(p, k) = [f EXCEPT !.state = "closed", !.quantity = 0, !.cost = 0]
  BY DEF Closed
<1> HIDE DEF f
<1>3. Closed(p, k) = [state |-> "closed", quantity |-> 0, cost |-> 0, pnl |-> 0]
  BY <1>1, <1>2
<1> QED
  BY <1>3 DEF Runtimes

LEMMA CloseSettledStep ==
    ASSUME IInv, CloseSettled
    PROVE  IInv'
<1> DEFINE E == events[run.at][Key]
           rt == Closed(run.at, Key)
           status == IF Runtime.quantity = FullQuantity(run.at, Key) THEN "RESOLVED_HOLD" ELSE "RESOLVED_RESIDUAL"
           pnl == Runtime.pnl + SettlementPnl
<1>1. /\ run.step = "settled" /\ run.keys # <<>>
      /\ WriteTerminal(run.at, Key, status, TRUE, pnl) /\ Went(rt, "settle")
      /\ UNCHANGED <<world, starts, row, polls, events>>
  BY DEF CloseSettled, Settling, At
<1>2. run.step \in BusySteps
  BY <1>1 DEF BusySteps, SettleSteps
<1>3. run # Down
  BY <1>2, BusyFacts
<1>4. Runtime.state # "closed"
  BY <1>1, <1>3 DEF IInv, RunShaped
<1>5. /\ Key \in KeySet /\ Runtime \in Runtimes /\ terminal[run.at][Key] = NoRow
      /\ Runtime = Built(E, run.at, Key) /\ Sound(E, run.at, Key)
  BY <1>1, <1>2, <1>4, BusyKey
<1>6. /\ Runtime.quantity = Left(E, run.at, Key) /\ Runtime.cost = CostLeft(E, run.at, Key)
      /\ Runtime.pnl = Pnl(E) /\ Runtime.quantity \in Nat /\ Runtime.cost \in Nat /\ Runtime.pnl \in Int
  BY <1>5 DEF Built, Runtimes
<1>7. Payout(run.at, Runtime.quantity) \in Int
  BY <1>6, PayoutType
<1>8. /\ pnl \in Int
      /\ pnl = Pnl(E) + Payout(run.at, Left(E, run.at, Key)) - CostLeft(E, run.at, Key)
  BY <1>6, <1>7 DEF SettlementPnl
<1>9. status \in Statuses /\ status # "none" /\ status \in {"RESOLVED_HOLD", "RESOLVED_RESIDUAL"}
  BY DEF Statuses
<1>10. clock[WindowOf[run.at]] = "ended"
  BY <1>1 DEF IInv, Answered
<1>11. rt \in Runtimes /\ rt.state = "closed"
  BY ClosedType
<1> HIDE DEF rt, status, pnl, Key, Runtime
<1>12. /\ TablesTyped' /\ TerminalsAddUp' /\ terminal'[run.at][Key] # NoRow
       /\ \A p \in Positions, k \in KeySet : p # run.at \/ k # Key =>
              events'[p][k] = events[p][k] /\ terminal'[p][k] = terminal[p][k]
  BY <1>1, <1>2, <1>5, <1>8, <1>9, <1>10, OpenTerminal
<1> QED
  BY <1>1, <1>11, <1>12, SettleKeyStep

LEMMA ClosePositionStep ==
    ASSUME IInv, ClosePosition
    PROVE  IInv'
<1>1. /\ run.step = "settle" /\ run.keys = <<>>
      /\ row' = [row EXCEPT ![run.at] = "PAPER_CLOSED"] /\ run' = [run EXCEPT !.step = "drop"]
      /\ UNCHANGED <<world, starts, polls, events, terminal>>
  BY DEF ClosePosition, At
<1>2. run.step \in BusySteps /\ run.step \in SettleSteps
  BY <1>1 DEF BusySteps, SettleSteps
<1>3. /\ run # Down /\ run.at \in Positions /\ run.at \in run.open /\ run.open \subseteq Positions
      /\ starts > 0 /\ starts \in Nat
  BY <1>2, BusyFacts
<1>4. /\ RunTyped' /\ RunShaped' /\ run' # Down /\ run'.step = "drop"
      /\ run'.open = run.open /\ run'.seq = run.seq /\ run'.at = run.at /\ run'.mem = run.mem
  <2> DEFINE step == "drop"
  <2>1. step \in SettleSteps /\ run' = [run EXCEPT !.step = step] /\ step # "settled"
    BY <1>1 DEF SettleSteps
  <2> HIDE DEF step
  <2>2. /\ RunTyped' /\ RunShaped' /\ run' # Down /\ run'.step = step
        /\ run'.open = run.open /\ run'.seq = run.seq /\ run'.at = run.at /\ run'.mem = run.mem
    BY <1>2, <2>1, SettleMoves
  <2> QED
    BY <2>2 DEF step
<1>5. TablesTyped'
  BY <1>1, <1>3 DEF IInv, TablesTyped, world
<1>6. FirstRun' /\ EventsSound' /\ EventsPolled'
  BY <1>1, <1>3, <1>4 DEF IInv, FirstRun, EventsSound, EventsPolled
<1>7. SeqsAhead'
  <2>1. SeqsAhead
    BY DEF IInv
  <2> QED
    BY <1>1, <1>3, <1>4, <2>1 DEF SeqsAhead, Selling, SellSteps
<1>8. MemoryIsRows'
  <2>1. MemoryIsRows
    BY DEF IInv
  <2> QED
    BY <1>1, <1>3, <1>4, <2>1 DEF MemoryIsRows
<1>9. SoldOut' /\ Answered' /\ Settled'
  BY <1>4 DEF SoldOut, Answered, Settled
<1>10. TerminalsAddUp'
  <2>1. TerminalsAddUp /\ Settled /\ row \in [Positions -> {"none", "PAPER_OPEN", "PAPER_CLOSED"}]
    BY DEF IInv, TablesTyped
  <2>2. \A k \in KeySet : terminal[run.at][k] # NoRow
    <3>1. Members(run.keys) = {}
      BY <1>1 DEF Members
    <3> QED
      BY <1>1, <2>1, <3>1 DEF Settled
  <2>3. UNCHANGED <<clock, winner>>
    BY <1>1 DEF world
  <2>4. \A p \in Positions, k \in KeySet : TerminalAddsUp(p, k)'
    BY <1>1, <2>1, <2>3 DEF TerminalsAddUp, TerminalAddsUp, Payout
  <2>5. \A p \in Positions : StagedAddsUp(p)'
    BY <1>1, <2>1 DEF TerminalsAddUp, StagedAddsUp
  <2>6. \A p \in Positions : row'[p] = "PAPER_CLOSED" => \A k \in KeySet : terminal'[p][k] # NoRow
    BY <1>1, <2>1, <2>2 DEF TerminalsAddUp
  <2> QED
    BY <2>4, <2>5, <2>6 DEF TerminalsAddUp
<1> QED
  BY <1>4, <1>5, <1>6, <1>7, <1>8, <1>9, <1>10 DEF IInv

(* The driver. *)
LEMMA StartStep ==
    ASSUME IInv, Start
    PROVE  IInv'
<1>1. /\ run = Down /\ starts' = starts + 1 /\ UNCHANGED <<world, tables>>
      /\ run' = [step |-> "admit", todo |-> Cohort, open |-> {}, mem |-> <<>>, seq |-> <<>>]
  BY DEF Start
<1>2. /\ run'.step = "admit" /\ run'.todo = Cohort /\ run'.open = {}
      /\ run'.mem = <<>> /\ run'.seq = <<>>
  BY <1>1
<1>3. starts \in Nat /\ g8 \subseteq Positions
  BY DEF IInv, TablesTyped
<1>4. TablesTyped'
  <2>1. starts' \in Nat
    BY <1>1, <1>3
  <2>2. TablesTyped
    BY DEF IInv
  <2> QED
    BY <1>1, <2>1, <2>2 DEF TablesTyped, world, tables
<1>5. RunTyped'
  <2>1. Cohort \subseteq Positions
    BY <1>3 DEF Cohort
  <2>2. <<>> \in [{} -> [KeySet -> Runtimes]] /\ <<>> \in [{} -> Nat \ {0}]
    OBVIOUS
  <2>3. run' \in IdleRuns'
    BY <1>1, <1>2, <2>1, <2>2 DEF IdleRuns, IdleSteps, Mems, Seqs
  <2> QED
    BY <1>2, <2>3 DEF RunTyped, SettleSteps, SellSteps, IdleSteps
<1>6. RunShaped'
  BY <1>2 DEF RunShaped, IdleSteps
<1>7. FirstRun'
  <2>1. starts' # 0 /\ (~Resumed' => starts = 0)
    BY <1>1, <1>3 DEF Resumed
  <2>2. starts = 0 => Pristine
    BY DEF IInv, FirstRun
  <2>3. Pristine => Pristine'
    BY <1>1 DEF Pristine, tables
  <2> QED
    BY <2>1, <2>2, <2>3 DEF FirstRun
<1>8. EventsSound' /\ EventsPolled' /\ TerminalsAddUp'
  <2>1. UNCHANGED <<clock, winner, row, polls, events, terminal>>
    BY <1>1 DEF world, tables
  <2>2. EventsSound' /\ EventsPolled'
    BY <2>1 DEF IInv, EventsSound, EventsPolled
  <2>3. TerminalsAddUp'
    BY <2>1 DEF IInv, TerminalsAddUp, TerminalAddsUp, StagedAddsUp, Payout
  <2> QED
    BY <2>2, <2>3
<1>9. SeqsAhead' /\ MemoryIsRows'
  BY <1>2 DEF SeqsAhead, MemoryIsRows
<1>10. SoldOut' /\ Answered' /\ Settled'
  BY <1>2 DEF SoldOut, Answered, Settled
<1> QED
  BY <1>4, <1>5, <1>6, <1>7, <1>8, <1>9, <1>10 DEF IInv

LEMMA StopStep ==
    ASSUME IInv, run' = Down, UNCHANGED <<world, starts, tables>>
    PROVE  IInv'
<1>1. run'.step = "down"
  BY DEF Down
<1>2. TablesTyped' /\ EventsSound' /\ EventsPolled' /\ TerminalsAddUp'
  BY TablesSame
<1>3. RunTyped' /\ RunShaped'
  BY <1>1 DEF RunTyped, RunShaped, SettleSteps, SellSteps, IdleSteps
<1>4. FirstRun'
  <2>1. starts = 0 => Pristine
    BY DEF IInv, FirstRun
  <2>2. Pristine => Pristine'
    BY DEF Pristine, tables
  <2> QED
    BY <1>1, <2>1, <2>2 DEF FirstRun
<1>5. SeqsAhead' /\ MemoryIsRows' /\ SoldOut' /\ Answered' /\ Settled'
  BY <1>1 DEF SeqsAhead, MemoryIsRows, SoldOut, Answered, Settled
<1> QED
  BY <1>2, <1>3, <1>4, <1>5 DEF IInv

LEMMA IdleFacts ==
    ASSUME IInv, run.step \in IdleSteps
    PROVE  /\ run # Down /\ run \in IdleRuns /\ run.todo \subseteq Positions /\ run.open \subseteq Positions
           /\ run.mem \in [run.open -> [KeySet -> Runtimes]] /\ run.seq \in [run.open -> Nat \ {0}]
           /\ run.step = "cycle" => run.todo \subseteq run.open
           /\ \A p \in run.open : polls[p] < run.seq[p]
           /\ MemoryIsRows /\ starts # 0 /\ starts \in Nat
<1>1. run # Down /\ run.step \notin SellSteps
  BY DEF Down, IdleSteps, SellSteps
<1>2. run \in IdleRuns
  BY DEF IInv, RunTyped
<1>3. SeqsAhead /\ RunShaped /\ MemoryIsRows /\ FirstRun /\ starts \in Nat
  BY DEF IInv, TablesTyped
<1> QED
  BY <1>1, <1>2, <1>3 DEF IdleRuns, Mems, Seqs, SeqsAhead, Selling, RunShaped, FirstRun

LEMMA CycleStep ==
    ASSUME IInv, Cycle
    PROVE  IInv'
<1>1. /\ run.step \in IdleSteps /\ UNCHANGED <<world, starts, tables>>
      /\ run' = [run EXCEPT !.step = "cycle", !.todo = run.open]
  BY DEF Cycle, At, IdleSteps
<1>2. /\ run # Down /\ run \in IdleRuns /\ run.open \subseteq Positions /\ MemoryIsRows /\ starts # 0
      /\ \A p \in run.open : polls[p] < run.seq[p]
  BY <1>1, IdleFacts
<1>3. /\ run'.step = "cycle" /\ run'.todo = run.open /\ run'.open = run.open
      /\ run'.mem = run.mem /\ run'.seq = run.seq
  BY <1>1, <1>2 DEF IdleRuns
<1>4. TablesTyped' /\ EventsSound' /\ EventsPolled' /\ TerminalsAddUp'
  BY <1>1, TablesSame
<1>5. RunTyped'
  <2>1. run' \in IdleRuns'
    BY <1>1, <1>2, <1>3 DEF IdleRuns, IdleSteps, Mems, Seqs
  <2> QED
    BY <1>3, <2>1 DEF RunTyped, SettleSteps, SellSteps, IdleSteps
<1>6. RunShaped' /\ FirstRun'
  BY <1>1, <1>2, <1>3 DEF RunShaped, IdleSteps, FirstRun
<1>7. SeqsAhead' /\ MemoryIsRows'
  BY <1>1, <1>2, <1>3 DEF SeqsAhead, Selling, SellSteps, MemoryIsRows, tables
<1>8. SoldOut' /\ Answered' /\ Settled'
  BY <1>3 DEF SoldOut, Answered, Settled
<1> QED
  BY <1>4, <1>5, <1>6, <1>7, <1>8 DEF IInv

LEMMA AdmitStep ==
    ASSUME IInv, NEW p \in Positions, Admit(p)
    PROVE  IInv'
<1> DEFINE fresh == [k \in KeySet |-> IF Resumed THEN Rehydrated(p, k) ELSE Fresh(p, k)]
           opening == IF Resumed THEN polls[p] + 1 ELSE 1
           mem == [q \in run.open \cup {p} |-> IF q # p THEN run.mem[q] ELSE fresh]
           seq == [q \in run.open \cup {p} |-> IF q # p THEN run.seq[q] ELSE opening]
<1>1. /\ run.step = "admit" /\ p \in run.todo /\ UNCHANGED <<world, starts, polls, events, terminal>>
      /\ row' = IF row[p] = "none" THEN [row EXCEPT ![p] = "PAPER_OPEN"] ELSE row
      /\ run' = [run EXCEPT !.todo = @ \ {p}, !.open = @ \cup {p},
                   !.mem = [q \in run.open \cup {p} |-> IF q # p THEN @[q]
                              ELSE [k \in KeySet |-> IF Resumed THEN Rehydrated(p, k) ELSE Fresh(p, k)]],
                   !.seq = [q \in run.open \cup {p} |-> IF q # p THEN @[q]
                              ELSE IF Resumed THEN polls[p] + 1 ELSE 1]]
  BY DEF Admit, At
<1>2. run.step \in IdleSteps
  BY <1>1 DEF IdleSteps
<1>3. /\ run # Down /\ run \in IdleRuns /\ run.todo \subseteq Positions /\ run.open \subseteq Positions
      /\ run.mem \in [run.open -> [KeySet -> Runtimes]] /\ run.seq \in [run.open -> Nat \ {0}]
      /\ (\A q \in run.open : polls[q] < run.seq[q]) /\ MemoryIsRows /\ starts # 0
  BY <1>2, IdleFacts
<1>4. run' = [run EXCEPT !.todo = run.todo \ {p}, !.open = run.open \cup {p}, !.mem = mem, !.seq = seq]
  BY <1>1, <1>3 DEF IdleRuns
<1>5. polls \in [Positions -> Nat] /\ EventsSound
  BY DEF IInv, TablesTyped
<1>6. Pristine \/ Resumed
  BY <1>1 DEF IInv, FirstRun
<1>7. opening \in Nat \ {0} /\ polls[p] < opening
  BY <1>5, <1>6 DEF Pristine
<1>8. ASSUME NEW k \in KeySet
      PROVE  /\ fresh[k] \in Runtimes
             /\ \/ fresh[k].state = "closed" /\ terminal[p][k] # NoRow
                \/ fresh[k] = Built(events[p][k], p, k) /\ terminal[p][k] = NoRow
  <2>1. Sound(events[p][k], p, k) /\ EventsOk(events[p][k])
    BY <1>5 DEF EventsSound, Sound
  <2>2. Built(events[p][k], p, k) \in Runtimes
    BY <2>1, BuiltType
  <2>3. CASE ~Resumed
    <3>1. events[p][k] = {} /\ terminal[p][k] = NoRow
      BY <1>6, <2>3 DEF Pristine
    <3>2. fresh[k] = Fresh(p, k)
      BY <2>3
    <3>3. Fresh(p, k) = Built({}, p, k)
      BY NoEvents
    <3> HIDE DEF fresh
    <3> QED
      BY <2>2, <3>1, <3>2, <3>3
  <2>4. CASE Resumed /\ terminal[p][k] = NoRow
    <3>1. fresh[k] = Rehydrated(p, k)
      BY <2>4
    <3>2. Rehydrated(p, k) = Built(events[p][k], p, k)
      BY <2>1, <2>4, RehydratedIs
    <3> HIDE DEF fresh
    <3> QED
      BY <2>2, <2>4, <3>1, <3>2
  <2>5. CASE Resumed /\ terminal[p][k] # NoRow
    <3>1. fresh[k] = Rehydrated(p, k)
      BY <2>5
    <3>2. Rehydrated(p, k) = Closed(p, k)
      BY <2>5 DEF Rehydrated
    <3>3. Closed(p, k) \in Runtimes /\ Closed(p, k).state = "closed"
      BY ClosedType
    <3> HIDE DEF fresh
    <3> QED
      BY <2>5, <3>1, <3>2, <3>3
  <2> QED
    BY <2>3, <2>4, <2>5
<1>9. fresh \in [KeySet -> Runtimes]
  BY <1>8
<1> HIDE DEF fresh, opening
<1>10. /\ mem \in [run.open \cup {p} -> [KeySet -> Runtimes]] /\ seq \in [run.open \cup {p} -> Nat \ {0}]
       /\ mem[p] = fresh /\ seq[p] = opening
       /\ \A q \in run.open : q # p => mem[q] = run.mem[q] /\ seq[q] = run.seq[q]
  BY <1>3, <1>7, <1>9
<1> HIDE DEF mem, seq
<1>11. /\ run'.step = "admit" /\ run'.todo = run.todo \ {p} /\ run'.open = run.open \cup {p}
       /\ run'.mem = mem /\ run'.seq = seq
  BY <1>1, <1>3, <1>4 DEF IdleRuns
<1>12. RunTyped'
  <2>1. run' \in IdleRuns'
    BY <1>3, <1>4, <1>10, <1>11 DEF IdleRuns, IdleSteps, Mems, Seqs
  <2> QED
    BY <1>11, <2>1 DEF RunTyped, SettleSteps, SellSteps, IdleSteps
<1>13. RunShaped'
  BY <1>11 DEF RunShaped, IdleSteps
<1>14. TablesTyped'
  <2>1. row' \in [Positions -> {"none", "PAPER_OPEN", "PAPER_CLOSED"}]
    BY <1>1 DEF IInv, TablesTyped
  <2> QED
    BY <1>1, <2>1 DEF IInv, TablesTyped, world
<1>15. FirstRun'
  <2>1. Pristine => Pristine'
    BY <1>1 DEF Pristine
  <2> QED
    BY <1>1, <1>3, <1>6, <2>1 DEF FirstRun, Resumed
<1>16. EventsSound' /\ EventsPolled'
  BY <1>1 DEF IInv, EventsSound, EventsPolled
<1>17. SeqsAhead'
  BY <1>1, <1>3, <1>7, <1>10, <1>11 DEF SeqsAhead, Selling, SellSteps
<1>18. MemoryIsRows'
  <2> SUFFICES ASSUME NEW q \in run.open \cup {p}, NEW k \in KeySet
               PROVE  \/ mem[q][k].state = "closed" /\ terminal[q][k] # NoRow
                      \/ mem[q][k] = Built(events[q][k], q, k) /\ terminal[q][k] = NoRow
    BY <1>1, <1>11 DEF MemoryIsRows
  <2>1. CASE q = p
    BY <2>1, <1>8, <1>10
  <2>2. CASE q # p
    BY <2>2, <1>3, <1>10 DEF MemoryIsRows
  <2> QED
    BY <2>1, <2>2
<1>19. SoldOut' /\ Answered' /\ Settled'
  BY <1>11 DEF SoldOut, Answered, Settled
<1>20. TerminalsAddUp'
  <2>1. TerminalsAddUp /\ row \in [Positions -> {"none", "PAPER_OPEN", "PAPER_CLOSED"}]
    BY DEF IInv, TablesTyped
  <2>2. UNCHANGED <<clock, winner>>
    BY <1>1 DEF world
  <2>3. \A q \in Positions, k \in KeySet : TerminalAddsUp(q, k)'
    BY <1>1, <2>1, <2>2 DEF TerminalsAddUp, TerminalAddsUp, Payout
  <2>4. \A q \in Positions : StagedAddsUp(q)'
    BY <1>1, <2>1 DEF TerminalsAddUp, StagedAddsUp
  <2>5. \A q \in Positions : row'[q] = "PAPER_CLOSED" => \A k \in KeySet : terminal'[q][k] # NoRow
    BY <1>1, <2>1 DEF TerminalsAddUp
  <2> QED
    BY <2>3, <2>4, <2>5 DEF TerminalsAddUp
<1> QED
  BY <1>12, <1>13, <1>14, <1>15, <1>16, <1>17, <1>18, <1>19, <1>20 DEF IInv

LEMMA GammaEnds ==
    ASSUME NEW m, gamma_decide(m).status = "RESOLVED"
    PROVE  m.closed
BY DEF gamma_decide, Undecided, Decided

LEMMA AnswerFact ==
    ASSUME NEW p, NEW answer \in Answers(p), answer # "pending"
    PROVE  answer \in {"resolved", "conflict"} /\ (answer = "resolved" => clock[WindowOf[p]] = "ended")
<1>1. PICK m \in GammaMarkets(p), n \in ClobMarkets(p) :
          answer = resolve_selected_side(gamma_decide(m), clob_decide(n))
  BY DEF Answers
<1>2. gamma_decide(m).status = "RESOLVED" /\ answer \in {"resolved", "conflict"}
  BY <1>1 DEF resolve_selected_side
<1>3. m.closed
  BY <1>2, GammaEnds
<1>4. m.closed \in {FALSE, clock[WindowOf[p]] = "ended"}
  BY DEF GammaMarkets
<1> QED
  BY <1>2, <1>3, <1>4

LEMMA ResolveStep ==
    ASSUME IInv, NEW p \in Positions, Resolve(p)
    PROVE  IInv'
<1>1. PICK answer \in Answers(p) \ {"pending"} : run' = Busy(p, "settle", answer)
  BY DEF Resolve
<1>2. run.step = "cycle" /\ p \in run.todo /\ UNCHANGED <<world, starts, tables>>
  BY DEF Resolve, Turn, At
<1>3. answer \in {"resolved", "conflict"} /\ (answer = "resolved" => clock[WindowOf[p]] = "ended")
  BY AnswerFact
<1>4. run.step \in IdleSteps
  BY <1>2 DEF IdleSteps
<1>5. /\ run # Down /\ run \in IdleRuns /\ run.todo \subseteq run.open /\ run.open \subseteq Positions
      /\ run.mem \in [run.open -> [KeySet -> Runtimes]] /\ run.seq \in [run.open -> Nat \ {0}]
      /\ (\A q \in run.open : polls[q] < run.seq[q]) /\ MemoryIsRows /\ starts # 0
  BY <1>2, <1>4, IdleFacts
<1>6. Keys \in Seq(KeySet) /\ Members(Keys) = KeySet /\ Distinct(Keys)
  BY KeyFacts
<1>7. run' = [step |-> "settle", todo |-> run.todo, open |-> run.open, mem |-> run.mem, seq |-> run.seq,
              at |-> p, keys |-> Keys, given |-> answer]
  BY <1>1 DEF Busy
<1> HIDE DEF Keys
<1>8. /\ run'.step = "settle" /\ run'.todo = run.todo /\ run'.open = run.open /\ run'.mem = run.mem
      /\ run'.seq = run.seq /\ run'.at = p /\ run'.keys = Keys /\ run'.given = answer
  BY <1>7
<1>9. TablesTyped' /\ EventsSound' /\ EventsPolled' /\ TerminalsAddUp'
  BY <1>2, TablesSame
<1>10. RunTyped'
  <2>1. run' \in BusyRuns(SettleSteps, {"resolved", "conflict"})'
    BY <1>3, <1>5, <1>6, <1>7, <1>8 DEF BusyRuns, SettleSteps, Mems, Seqs
  <2> QED
    BY <1>8, <2>1 DEF RunTyped, SettleSteps, SellSteps, IdleSteps
<1>11. RunShaped' /\ FirstRun'
  BY <1>2, <1>5, <1>6, <1>8 DEF RunShaped, FirstRun
<1>12. SeqsAhead' /\ MemoryIsRows'
  BY <1>2, <1>5, <1>8 DEF SeqsAhead, Selling, SellSteps, MemoryIsRows, tables
<1>13. SoldOut' /\ Answered' /\ Settled'
  BY <1>2, <1>3, <1>6, <1>8 DEF SoldOut, Answered, Settled, world
<1> QED
  BY <1>9, <1>10, <1>11, <1>12, <1>13 DEF IInv

LEMMA SnapshotStep ==
    ASSUME IInv, NEW p \in Positions, Snapshot(p)
    PROVE  IInv'
<1>1. /\ run.step = "cycle" /\ p \in run.todo /\ UNCHANGED <<world, starts, row, events, terminal>>
      /\ polls' = [polls EXCEPT ![p] = run.seq[p]]
  BY DEF Snapshot, Turn, At
<1>2. run.step \in IdleSteps
  BY <1>1 DEF IdleSteps
<1>3. /\ run # Down /\ run \in IdleRuns /\ run.todo \subseteq run.open /\ run.open \subseteq Positions
      /\ run.mem \in [run.open -> [KeySet -> Runtimes]] /\ run.seq \in [run.open -> Nat \ {0}]
      /\ (\A q \in run.open : polls[q] < run.seq[q]) /\ MemoryIsRows /\ starts # 0 /\ starts \in Nat
  BY <1>1, <1>2, IdleFacts
<1>4. polls \in [Positions -> Nat] /\ TablesTyped /\ EventsSound /\ EventsPolled
  BY DEF IInv, TablesTyped
<1>5. /\ polls' \in [Positions -> Nat] /\ polls'[p] = run.seq[p] /\ polls[p] <= polls'[p]
      /\ \A q \in Positions : q # p => polls'[q] = polls[q]
  BY <1>1, <1>3, <1>4
<1>6. TablesTyped' /\ EventsSound'
  BY <1>1, <1>4, <1>5 DEF TablesTyped, EventsSound, world
<1>7. EventsPolled'
  <2> SUFFICES ASSUME NEW q \in Positions, NEW k \in KeySet, NEW e \in events[q][k]
               PROVE  e.seq <= polls'[q]
    BY <1>1 DEF EventsPolled
  <2>1. e.seq <= polls[q] /\ e \in Events
    BY <1>4 DEF EventsPolled, TablesTyped
  <2>2. e.seq \in Nat
    BY <2>1, SeqType
  <2> QED
    BY <2>1, <2>2, <1>4, <1>5
<1>8. TerminalsAddUp'
  BY <1>1 DEF IInv, world, TerminalsAddUp, TerminalAddsUp, StagedAddsUp, Payout
<1>9. PICK inTime \in Judgements :
          IF inTime THEN \E snap \in Snaps(p) : run' = Busy(p, "advance", snap)
          ELSE run' = [run EXCEPT !.todo = @ \ {p}, !.seq[p] = @ + 1]
  BY DEF Snapshot
<1>10. CASE inTime
  <2>1. PICK snap \in Snaps(p) : run' = Busy(p, "advance", snap)
    BY <1>9, <1>10
  <2>2. snap \in Snapshots
    <3>1. snap.bid \in Bids /\ snap.late \in BOOLEAN /\ snap.fair \in Fairs \cup {NoFair}
      BY DEF Snaps
    <3> QED
      BY <3>1 DEF Snaps, Snapshots
  <2>3. Keys \in Seq(KeySet) /\ Members(Keys) = KeySet /\ Distinct(Keys)
    BY KeyFacts
  <2>4. run' = [step |-> "advance", todo |-> run.todo, open |-> run.open, mem |-> run.mem, seq |-> run.seq,
                at |-> p, keys |-> Keys, given |-> snap]
    BY <2>1 DEF Busy
  <2> HIDE DEF Keys
  <2>5. /\ run'.step = "advance" /\ run'.todo = run.todo /\ run'.open = run.open /\ run'.mem = run.mem
        /\ run'.seq = run.seq /\ run'.at = p /\ run'.keys = Keys /\ run'.given = snap
    BY <2>4
  <2>6. RunTyped'
    <3>1. run' \in BusyRuns(SellSteps, Snapshots)'
      BY <2>2, <2>3, <2>4, <2>5, <1>3 DEF BusyRuns, SellSteps, Mems, Seqs
    <3> QED
      BY <2>5, <3>1 DEF RunTyped, SettleSteps, SellSteps, IdleSteps
  <2>7. RunShaped' /\ FirstRun'
    BY <1>1, <1>3, <2>3, <2>5 DEF RunShaped, FirstRun
  <2>8. SeqsAhead'
    <3> SUFFICES ASSUME NEW q \in run.open
                 PROVE  IF Selling(q)'
                        THEN /\ polls'[q] = run'.seq[q]
                             /\ \A k \in Waiting' : \A e \in events'[q][k] : e.seq < run'.seq[q]
                        ELSE polls'[q] < run'.seq[q]
      BY <2>5 DEF SeqsAhead
    <3>1. CASE q = p
      <4>1. Waiting' = KeySet
        BY <2>3, <2>5 DEF Waiting
      <4>2. ASSUME NEW k \in KeySet, NEW e \in events[p][k]
            PROVE  e.seq < run.seq[p]
        <5>1. e.seq <= polls[p] /\ e \in Events
          BY <1>4, <4>2 DEF EventsPolled, TablesTyped
        <5>2. e.seq \in Nat
          BY <5>1, SeqType
        <5> QED
          BY <5>1, <5>2, <1>1, <1>3, <1>4
      <4>3. Selling(q)'
        BY <3>1, <2>5 DEF Selling, SellSteps
      <4> QED
        BY <3>1, <4>1, <4>2, <4>3, <1>1, <1>5, <2>5
    <3>2. CASE q # p
      <4>1. ~Selling(q)'
        BY <3>2, <2>5 DEF Selling
      <4> QED
        BY <3>2, <4>1, <1>3, <1>5, <2>5
    <3> QED
      BY <3>1, <3>2
  <2>9. MemoryIsRows'
    BY <1>1, <1>3, <2>5 DEF MemoryIsRows
  <2>10. SoldOut' /\ Answered' /\ Settled'
    BY <2>5 DEF SoldOut, Answered, Settled
  <2> QED
    BY <1>6, <1>7, <1>8, <2>6, <2>7, <2>8, <2>9, <2>10 DEF IInv
<1>11. CASE ~inTime
  <2> DEFINE seq == [run.seq EXCEPT ![p] = @ + 1]
  <2>1. run' = [run EXCEPT !.todo = run.todo \ {p}, !.seq = seq]
    BY <1>3, <1>9, <1>11 DEF IdleRuns
  <2>2. /\ seq \in [run.open -> Nat \ {0}] /\ seq[p] = run.seq[p] + 1
        /\ \A q \in run.open : q # p => seq[q] = run.seq[q]
    BY <1>1, <1>3
  <2> HIDE DEF seq
  <2>3. /\ run'.step = "cycle" /\ run'.todo = run.todo \ {p} /\ run'.open = run.open
        /\ run'.mem = run.mem /\ run'.seq = seq
    BY <1>1, <1>3, <2>1 DEF IdleRuns
  <2>4. RunTyped'
    <3>1. run' \in IdleRuns'
      BY <1>3, <2>1, <2>2, <2>3 DEF IdleRuns, IdleSteps, Mems, Seqs
    <3> QED
      BY <2>3, <3>1 DEF RunTyped, SettleSteps, SellSteps, IdleSteps
  <2>5. RunShaped' /\ FirstRun'
    BY <1>1, <1>3, <2>3 DEF RunShaped, FirstRun, IdleSteps
  <2>6. SeqsAhead'
    <3>1. \A q \in run.open : polls'[q] < seq[q]
      BY <1>1, <1>3, <1>5, <2>2
    <3> QED
      BY <2>3, <3>1 DEF SeqsAhead, Selling, SellSteps
  <2>7. MemoryIsRows'
    BY <1>1, <1>3, <2>3 DEF MemoryIsRows
  <2>8. SoldOut' /\ Answered' /\ Settled'
    BY <2>3 DEF SoldOut, Answered, Settled
  <2> QED
    BY <1>6, <1>7, <1>8, <2>4, <2>5, <2>6, <2>7, <2>8 DEF IInv
<1> QED
  BY <1>10, <1>11

(* What goes on outside. *)
LEMMA WorldStep ==
    ASSUME IInv, UNCHANGED <<starts, tables, run>>, g8' \subseteq Positions,
           clock' \in [Windows -> {"early", "late", "ended"}], winner' \in [Positions -> BOOLEAN],
           \A p \in Positions : clock[WindowOf[p]] = "ended" =>
               clock'[WindowOf[p]] = "ended" /\ winner'[p] = winner[p]
    PROVE  IInv'
<1>1. UNCHANGED <<row, polls, events, terminal, Runtime, Key>>
  BY DEF tables, Runtime, Key
<1>2. TablesTyped'
  BY <1>1 DEF IInv, TablesTyped
<1>3. RunTyped'
  BY DEF IInv, RunTyped, IdleRuns, BusyRuns, Mems, Seqs
<1>4. RunShaped'
  BY <1>1 DEF IInv, RunShaped
<1>5. FirstRun'
  BY <1>1 DEF IInv, FirstRun, Pristine, Resumed
<1>6. EventsSound' /\ EventsPolled'
  BY <1>1 DEF IInv, EventsSound, EventsPolled
<1>7. SeqsAhead' /\ MemoryIsRows' /\ SoldOut' /\ Settled'
  BY <1>1 DEF IInv, SeqsAhead, Selling, Waiting, MemoryIsRows, SoldOut, Settled
<1>8. Answered'
  <2>1. Answered
    BY DEF IInv
  <2>2. run.step \in {"settle", "settled"} => run.at \in Positions
    BY BusyFacts DEF BusySteps, SettleSteps
  <2> QED
    BY <2>1, <2>2 DEF Answered
<1>9. TerminalsAddUp'
  <2>1. TerminalsAddUp
    BY DEF IInv
  <2>2. ASSUME NEW p \in Positions, NEW k \in KeySet
        PROVE  TerminalAddsUp(p, k)'
    BY <1>1, <2>1 DEF TerminalsAddUp, TerminalAddsUp, Payout
  <2>3. \A p \in Positions : StagedAddsUp(p)'
    BY <1>1, <2>1 DEF TerminalsAddUp, StagedAddsUp
  <2>4. \A p \in Positions : row'[p] = "PAPER_CLOSED" => \A k \in KeySet : terminal'[p][k] # NoRow
    BY <1>1, <2>1 DEF TerminalsAddUp
  <2> QED
    BY <2>2, <2>3, <2>4 DEF TerminalsAddUp
<1> QED
  BY <1>2, <1>3, <1>4, <1>5, <1>6, <1>7, <1>8, <1>9 DEF IInv

LEMMA OutsideStep ==
    ASSUME IInv, (\E p \in Positions : Captured(p)) \/ (\E w \in Windows : Tick(w))
    PROVE  IInv'
<1>1. /\ clock \in [Windows -> {"early", "late", "ended"}] /\ winner \in [Positions -> BOOLEAN]
      /\ g8 \subseteq Positions
  BY DEF IInv, TablesTyped
<1>2. ASSUME NEW p \in Positions, Captured(p)
      PROVE  IInv'
  <2>1. UNCHANGED <<clock, winner, starts, tables, run>> /\ g8' \subseteq Positions
    BY <1>1, <1>2 DEF Captured
  <2> QED
    BY <1>1, <2>1, WorldStep
<1>3. ASSUME NEW w \in Windows, Tick(w)
      PROVE  IInv'
  <2>1. /\ UNCHANGED <<g8, starts, tables, run>> /\ clock[w] # "ended"
        /\ \E time \in {"late", "ended"} : clock' = [clock EXCEPT ![w] = time]
        /\ winner' \in [Positions -> BOOLEAN]
        /\ \A p \in Positions : WindowOf[p] # w => winner'[p] = winner[p]
    BY <1>1, <1>3 DEF Tick
  <2>2. clock' \in [Windows -> {"early", "late", "ended"}] /\ \A v \in Windows : v # w => clock'[v] = clock[v]
    BY <1>1, <2>1
  <2>3. \A p \in Positions : WindowOf[p] \in Windows
    BY DEF Windows
  <2>4. \A p \in Positions : clock[WindowOf[p]] = "ended" =>
            clock'[WindowOf[p]] = "ended" /\ winner'[p] = winner[p]
    BY <2>1, <2>2, <2>3
  <2> QED
    BY <1>1, <2>1, <2>2, <2>4, WorldStep
<1> QED
  BY <1>2, <1>3

----------------------------------------------------------------------------
(* The theorems. *)
LEMMA InitIInv ==
    ASSUME Init
    PROVE  IInv
<1> USE DEF Init
<1>1. run.step = "down"
  BY DEF Down
<1>2. NoRow \in TerminalRows
  BY DEF NoRow, TerminalRows, Statuses
<1>3. TablesTyped
  <2>1. events \in [Positions -> [KeySet -> SUBSET Events]]
    OBVIOUS
  <2>2. terminal \in [Positions -> [KeySet \cup {Staged} -> TerminalRows]]
    BY <1>2
  <2> QED
    BY <2>1, <2>2 DEF TablesTyped
<1>4. RunTyped /\ RunShaped
  BY <1>1 DEF RunTyped, RunShaped, SettleSteps, SellSteps, IdleSteps
<1>5. Pristine /\ FirstRun
  BY <1>1 DEF FirstRun, Pristine
<1>6. EventsSound /\ EventsPolled
  BY NoEvents DEF EventsSound, EventsPolled
<1>7. SeqsAhead /\ MemoryIsRows /\ SoldOut /\ Answered /\ Settled
  BY <1>1 DEF SeqsAhead, MemoryIsRows, SoldOut, Answered, Settled
<1>8. TerminalsAddUp
  <2>1. Staged \in KeySet \cup {Staged}
    OBVIOUS
  <2>2. \A p \in Positions : terminal[p][Staged] = NoRow
    BY <2>1
  <2>3. \A p \in Positions, k \in KeySet : terminal[p][k] = NoRow
    OBVIOUS
  <2> QED
    BY <2>2, <2>3 DEF TerminalsAddUp, TerminalAddsUp, StagedAddsUp, NoRow
<1> QED
  BY <1>3, <1>4, <1>5, <1>6, <1>7, <1>8 DEF IInv

LEMMA NextIInv ==
    ASSUME IInv, [Next]_vars
    PROVE  IInv'
<1>1. CASE UNCHANGED vars
  <2>1. UNCHANGED <<starts, tables, run, g8, clock, winner>>
    BY <1>1 DEF vars, world
  <2>2. /\ clock \in [Windows -> {"early", "late", "ended"}] /\ winner \in [Positions -> BOOLEAN]
        /\ g8 \subseteq Positions
    BY DEF IInv, TablesTyped
  <2> QED
    BY <2>1, <2>2, WorldStep
<1>2. CASE Start
  BY <1>2, StartStep
<1>3. CASE Cycle
  BY <1>3, CycleStep
<1>4. CASE End \/ Die
  <2>1. run' = Down /\ UNCHANGED <<world, starts, tables>>
    BY <1>4 DEF End, Die
  <2> QED
    BY <2>1, StopStep
<1>5. CASE Skip
  BY <1>5, SkipStep
<1>6. CASE Monitor
  BY <1>6, MonitorStep
<1>7. CASE SellNothing
  BY <1>7, SellNothingStep
<1>8. CASE Sell
  BY <1>8, SellStepped
<1>9. CASE CloseFilled
  BY <1>9, CloseFilledStep
<1>10. CASE PollDone
  BY <1>10, PollDoneStep
<1>11. CASE SkipClosed
  BY <1>11, SkipClosedStep
<1>12. CASE FailClosed
  BY <1>12, FailClosedStep
<1>13. CASE Settle
  BY <1>13, SettleStepped
<1>14. CASE CloseSettled
  BY <1>14, CloseSettledStep
<1>15. CASE ClosePosition
  BY <1>15, ClosePositionStep
<1>16. CASE DropPosition
  BY <1>16, DropPositionStep
<1>17. ASSUME NEW p \in Positions, Admit(p)
       PROVE  IInv'
  BY <1>17, AdmitStep
<1>18. ASSUME NEW p \in Positions, Resolve(p)
       PROVE  IInv'
  BY <1>18, ResolveStep
<1>19. ASSUME NEW p \in Positions, Snapshot(p)
       PROVE  IInv'
  BY <1>19, SnapshotStep
<1>20. CASE (\E p \in Positions : Captured(p)) \/ (\E w \in Windows : Tick(w))
  BY <1>20, OutsideStep
<1> QED
  BY <1>1, <1>2, <1>3, <1>4, <1>5, <1>6, <1>7, <1>8, <1>9, <1>10, <1>11, <1>12, <1>13, <1>14, <1>15,
     <1>16, <1>17, <1>18, <1>19, <1>20 DEF Next

(* The rows of every overlay account for what was bought and the memory of *)
(* a run agrees with them, after every step of the runner and the market.  *)
THEOREM Inductive == Spec => []IInv
BY InitIInv, NextIInv, PTL DEF Spec

(* A sale never looks at the book of its own trigger, nor is a trigger     *)
(* used for two attempts, over any number of polls, deaths and runs        *)
(* (_advance_overlay_one_poll, rehydrate_position_overlay_runtimes).       *)
THEOREM SaleFollowsTrigger == Spec => []FillFollowsTrigger
<1>1. IInv => FillFollowsTrigger
  <2> SUFFICES ASSUME IInv, NEW p \in Positions, NEW k \in KeySet, NEW e \in Attempts(p, k)
               PROVE  \E t \in OfType(p, k, "TRIGGER") :
                          t.seq < e.seq /\ \A f \in Attempts(p, k) : f.seq < e.seq => f.seq < t.seq
    BY DEF FillFollowsTrigger
  <2>1. Follows(events[p][k])
    BY DEF IInv, EventsSound, Sound
  <2>2. /\ Attempts(p, k) = Tries(events[p][k])
        /\ OfType(p, k, "TRIGGER") = Of(events[p][k], "TRIGGER")
    BY DEF Attempts, Tries, OfType, Of
  <2> QED
    BY <2>1, <2>2 DEF Follows
<1> QED
  BY <1>1, Inductive, PTL

(* Whenever a run may die, what the next one makes of the rows is what     *)
(* this one has in memory (rehydrate_position_overlay_runtimes).           *)
THEOREM ResumedRunIsTheSame == Spec => []RestartForgetsNothing
<1>1. IInv => RestartForgetsNothing
  <2> SUFFICES ASSUME IInv, run # Down, NEW p \in run.open, NEW k \in KeySet
               PROVE  \/ run.mem[p][k].state = "closed" /\ terminal[p][k] # NoRow
                      \/ run.mem[p][k] = Rehydrated(p, k)
    BY DEF RestartForgetsNothing
  <2>1. run.open \subseteq Positions
    BY BusyFacts, IdleFacts DEF IInv, RunTyped, BusySteps
  <2>2. EventsOk(events[p][k])
    BY <2>1 DEF IInv, EventsSound, Sound
  <2>3. \/ run.mem[p][k].state = "closed" /\ terminal[p][k] # NoRow
        \/ run.mem[p][k] = Built(events[p][k], p, k) /\ terminal[p][k] = NoRow
    BY DEF IInv, MemoryIsRows
  <2> QED
    BY <2>1, <2>2, <2>3, RehydratedIs
<1> QED
  BY <1>1, Inductive, PTL

(* No share and no cent is lost or sold twice, for any quantities, prices, *)
(* books and fee, any number of legs, deaths and runs                      *)
(* (execute_exit_fill, finalize_position_at_resolution).                   *)
THEOREM SalesAddUp == Spec => []LegsAddUp
<1>1. IInv => LegsAddUp
  <2> SUFFICES ASSUME IInv PROVE LegsAddUp
    OBVIOUS
  <2>1. ASSUME NEW p \in Positions, NEW k \in KeySet
        PROVE  /\ SoldOf(p, k) = Sold(events[p][k]) /\ CostOf(p, k) = Spent(events[p][k])
               /\ ProfitOf(p, k) = Pnl(events[p][k])
    <3> DEFINE E == events[p][k]
               L == OfType(p, k, "FILL")
    <3>1. L = Of(E, "FILL") /\ EventsOk(E)
      BY DEF OfType, Of, IInv, EventsSound, Sound
    <3>2. IsFiniteSet(L)
      BY <3>1, OfFinite
    <3> HIDE DEF L
    <3>3. SoldOf(p, k) = Total(L, [e \in L |-> e.leg.quantity])
      BY <3>2, SumIsTotal DEF SoldOf, L
    <3>4. CostOf(p, k) = Total(L, [e \in L |-> e.leg.cost])
      BY <3>2, SumIsTotal DEF CostOf, L
    <3>5. ProfitOf(p, k) = Total(L, [e \in L |-> e.leg.pnl])
      BY <3>2, SumIsTotal DEF ProfitOf, L
    <3> QED
      BY <3>1, <3>3, <3>4, <3>5 DEF Sold, Spent, Pnl
  <2>2. ASSUME NEW p \in Positions, NEW k \in KeySet
        PROVE  LET left == FullQuantity(p, k) - SoldOf(p, k)
                   costLeft == FullCost(p, k) - CostOf(p, k)
               IN /\ left >= 0 /\ costLeft >= 0
                  /\ left = 0 => costLeft = 0
                  /\ terminal[p][k].known =>
                       \/ /\ terminal[p][k].status \in {"RESOLVED_HOLD", "RESOLVED_RESIDUAL"}
                          /\ terminal[p][k].pnl = ProfitOf(p, k) + Payout(p, left) - costLeft
                       \/ terminal[p][k].pnl = ProfitOf(p, k) /\ left = 0
    <3> DEFINE E == events[p][k]
    <3>1. Balance(E, p, k) /\ TerminalAddsUp(p, k)
      BY DEF IInv, EventsSound, Sound, TerminalsAddUp
    <3>2. /\ FullQuantity(p, k) - SoldOf(p, k) = Left(E, p, k)
          /\ FullCost(p, k) - CostOf(p, k) = CostLeft(E, p, k)
          /\ ProfitOf(p, k) = Pnl(E)
      BY <2>1, <3>1 DEF Balance
    <3> QED
      BY <3>1, <3>2 DEF Balance, TerminalAddsUp
  <2>3. ASSUME NEW p \in Positions, terminal[p][Staged].known
        PROVE  terminal[p][Staged].pnl = SumFunction([k \in TrancheSet |-> terminal[p][k].pnl])
    <3> DEFINE rows == terminal[p]
    <3>1. rows[Staged] # NoRow
      BY <2>3 DEF NoRow
    <3>2. rows[Staged].pnl = TrancheSum(rows)
      BY <2>3, <3>1 DEF IInv, TerminalsAddUp, StagedAddsUp
    <3> HIDE DEF rows
    <3>3. SumFunction([k \in TrancheSet |-> rows[k].pnl]) = TrancheSum(rows)
      BY KeyFacts, SumIsTotal DEF TrancheSum
    <3> QED
      BY <3>2, <3>3 DEF rows
  <2>4. \A p \in Positions : row[p] = "PAPER_CLOSED" => \A k \in KeySet : terminal[p][k] # NoRow
    BY DEF IInv, TerminalsAddUp
  <2> QED
    BY <2>2, <2>3, <2>4 DEF LegsAddUp
<1> QED
  BY <1>1, Inductive, PTL

----------------------------------------------------------------------------
(* The resolution of orders of unknown fate. *)
(* A set of naturals has a least element. *)
LEMMA LeastNatural ==
    ASSUME NEW T, T \subseteq Nat, T # {}
    PROVE  \E x \in T : \A y \in T : x <= y
<1>1. PICK x \in T : \A y \in T : ~(<<y, x>> \in OpToRel(<, Nat))
  BY WFMin, NatLessThanWellFounded
<1>2. \A y \in T : ~(y < x)
  <2> SUFFICES ASSUME NEW y \in T, y < x PROVE FALSE
    OBVIOUS
  <2>1. <<y, x>> \in {ss \in Nat \X Nat : ss[1] < ss[2]}
    OBVIOUS
  <2> QED
    BY <1>1, <2>1 DEF OpToRel
<1>3. \A y \in T : x \in Nat /\ y \in Nat
  OBVIOUS
<1> QED
  BY <1>2, <1>3

(***************************************************************************)
(* Rows picked from a page.                                                *)
(***************************************************************************)
\* out is what the first n rows have at the positions K, in order.
PickOf(out, rows, K, n) ==
    \E f \in Seq(1..n) :
        /\ \A i \in 1..Len(f) : f[i] \in K
        /\ \A i, j \in 1..Len(f) : i < j => f[i] < f[j]
        /\ \A k \in K : k \in 1..n => \E i \in 1..Len(f) : f[i] = k
        /\ out = [i \in 1..Len(f) |-> rows[f[i]]]

LEMMA PickNothing ==
    ASSUME NEW rows, NEW K
    PROVE  PickOf(<<>>, rows, K, 0)
<1>1. <<>> \in Seq(1..0) /\ Len(<<>>) = 0
  OBVIOUS
<1>2. 1..0 = {}
  OBVIOUS
<1> DEFINE e == <<>>
<1>3. e \in Seq(1..0) /\ Len(e) = 0
  OBVIOUS
<1>4. <<>> = [i \in 1..Len(e) |-> rows[e[i]]]
  BY <1>2, <1>3
<1> HIDE DEF e
<1>5. \E f \in Seq(1..0) : Len(f) = 0 /\ <<>> = [i \in 1..Len(f) |-> rows[f[i]]]
  BY <1>3, <1>4
<1> QED
  BY <1>2, <1>5 DEF PickOf

LEMMA PickNext ==
    ASSUME NEW rows, NEW K, NEW n \in Nat, NEW out, PickOf(out, rows, K, n)
    PROVE  PickOf(IF n + 1 \in K THEN Append(out, rows[n + 1]) ELSE out, rows, K, n + 1)
<1>1. PICK f \in Seq(1..n) :
          /\ \A i \in 1..Len(f) : f[i] \in K
          /\ \A i, j \in 1..Len(f) : i < j => f[i] < f[j]
          /\ \A k \in K : k \in 1..n => \E i \in 1..Len(f) : f[i] = k
          /\ out = [i \in 1..Len(f) |-> rows[f[i]]]
  BY DEF PickOf
<1>2. CASE n + 1 \in K
  <2> DEFINE g == Append(f, n + 1)
  <2>1. g \in Seq(1..(n + 1)) /\ Len(g) = Len(f) + 1 /\ Len(f) \in Nat
    <3>1. f \in Seq(1..(n + 1)) /\ n + 1 \in 1..(n + 1)
      <4>1. 1..n \subseteq 1..(n + 1)
        OBVIOUS
      <4> QED
        BY <4>1, SeqMonotonic
    <3> QED
      BY <3>1
  <2>2. /\ \A i \in 1..Len(f) : g[i] = f[i] /\ f[i] \in 1..n
        /\ g[Len(f) + 1] = n + 1
    OBVIOUS
  <2> HIDE DEF g
  <2>a. \A i \in 1..Len(g) : i \in 1..Len(f) \/ i = Len(f) + 1
    BY <2>1
  <2>3. \A i \in 1..Len(g) : g[i] \in K
    BY <1>1, <1>2, <2>a, <2>2
  <2>4. \A i, j \in 1..Len(g) : i < j => g[i] < g[j]
    <3> TAKE i, j \in 1..Len(g)
    <3> HAVE i < j
    <3>1. i \in 1..Len(f)
      BY <2>1
    <3>2. CASE j \in 1..Len(f)
      BY <1>1, <3>1, <3>2, <2>2
    <3>3. CASE j = Len(f) + 1
      <4>1. g[i] \in 1..n /\ g[j] = n + 1
        BY <3>1, <3>3, <2>2
      <4> QED
        BY <4>1
    <3> QED
      BY <3>2, <3>3, <2>a
  <2>5. \A k \in K : k \in 1..(n + 1) => \E i \in 1..Len(g) : g[i] = k
    <3> TAKE k \in K
    <3> HAVE k \in 1..(n + 1)
    <3>1. CASE k = n + 1
      BY <3>1, <2>1, <2>2
    <3>2. CASE k \in 1..n
      <4>1. PICK i \in 1..Len(f) : f[i] = k
        BY <1>1, <3>2
      <4> QED
        BY <4>1, <2>1, <2>2
    <3> QED
      BY <3>1, <3>2
  <2>6. Append(out, rows[n + 1]) = [i \in 1..Len(g) |-> rows[g[i]]]
    <3>1. DOMAIN out = 1..Len(f) /\ Len(out) = Len(f)
      BY <1>1, <2>1
    <3>2. out = [i \in 1..Len(f) |-> out[i]]
      BY <1>1
    <3>3. Append(out, rows[n + 1]) = [i \in 1..(Len(f) + 1) |-> IF i <= Len(f) THEN out[i] ELSE rows[n + 1]]
      BY <3>1, <3>2, <2>1
    <3> QED
      BY <1>1, <2>1, <2>2, <3>3
  <2> QED
    BY <1>2, <2>1, <2>3, <2>4, <2>5, <2>6 DEF PickOf
<1>3. CASE n + 1 \notin K
  <2>1. f \in Seq(1..(n + 1))
    <3>1. 1..n \subseteq 1..(n + 1)
      OBVIOUS
    <3> QED
      BY <3>1, SeqMonotonic
  <2>2. \A k \in K : k \in 1..(n + 1) => \E i \in 1..Len(f) : f[i] = k
    BY <1>1, <1>3
  <2> QED
    BY <1>1, <1>3, <2>1, <2>2 DEF PickOf
<1> QED
  BY <1>2, <1>3

LEMMA PickedFact ==
    ASSUME NEW R, NEW rows \in Seq(R), NEW K
    PROVE  PickOf(Picked(rows, K), rows, K, Len(rows))
<1> DEFINE L == Len(rows)
           Step(out, n) == IF n \in K THEN Append(out, rows[n]) ELSE out
           Is(g) == g = [n \in 0..L |-> IF n = 0 THEN <<>>
                              ELSE IF n \in K THEN Append(g[n - 1], rows[n]) ELSE g[n - 1]]
           \* g is built up to n.
           To(g, n) == \A m \in 0..n : g[m] = IF m = 0 THEN <<>> ELSE Step(g[m - 1], m)
<1>1. L \in Nat
  OBVIOUS
<1>2. Picked(rows, K) = (CHOOSE z : Is(z))[L]
  BY DEF Picked
<1> HIDE DEF L, Step
<1>3. \E g : Is(g)
  <2> DEFINE T == {n \in 0..L : ~ \E g : To(g, n)}
  <2>1. T = {}
    <3> SUFFICES ASSUME T # {} PROVE FALSE
      OBVIOUS
    <3>1. PICK n \in T : \A m \in T : n <= m
      <4>1. T \subseteq Nat
        BY <1>1
      <4> HIDE DEF T
      <4> QED
        BY <4>1, LeastNatural
    <3>2. n # 0
      <4> DEFINE z == [m \in 0..0 |-> <<>>]
      <4>1. \A m \in 0..0 : m = 0 /\ z[m] = <<>>
        OBVIOUS
      <4> HIDE DEF z
      <4>2. To(z, 0)
        BY <4>1
      <4>3. \E g : To(g, 0)
        BY <4>2
      <4> QED
        BY <4>3
    <3>3. n - 1 \in 0..L /\ n - 1 \notin T /\ n \in Nat
      <4>1. T \subseteq 0..L
        OBVIOUS
      <4> HIDE DEF T
      <4> QED
        BY <1>1, <3>1, <3>2, <4>1
    <3>4. PICK g : To(g, n - 1)
      BY <3>3
    <3> DEFINE h == [m \in 0..n |-> IF m = n THEN Step(g[n - 1], n) ELSE g[m]]
    <3>5. To(h, n)
      <4> SUFFICES ASSUME NEW m \in 0..n PROVE h[m] = IF m = 0 THEN <<>> ELSE Step(h[m - 1], m)
        OBVIOUS
      <4>1. CASE m = n
        BY <4>1, <3>2, <3>3
      <4>2. CASE m # n
        <5>1. m \in 0..(n - 1) /\ h[m] = g[m] /\ (m # 0 => h[m - 1] = g[m - 1])
          BY <4>2, <3>3
        <5> QED
          BY <5>1, <3>4
      <4> QED
        BY <4>1, <4>2
    <3> HIDE DEF h
    <3>6. \E e : To(e, n)
      BY <3>5
    <3> QED
      BY <3>1, <3>6
  <2>2. PICK g : To(g, L)
    <3>1. L \in 0..L
      BY <1>1
    <3>2. L \notin T
      BY <2>1
    <3> QED
      BY <3>1, <3>2
  <2> DEFINE h == [n \in 0..L |-> g[n]]
  <2>3. Is(h)
    <3>1. \A n \in 0..L : g[n] = IF n = 0 THEN <<>> ELSE Step(g[n - 1], n)
      BY <2>2
    <3>2. \A n \in 0..L : n # 0 => n - 1 \in 0..L
      BY <1>1
    <3> QED
      BY <3>1, <3>2 DEF Step
  <2> QED
    BY <2>3
<1>4. PICK g : g = (CHOOSE z : Is(z)) /\ Is(g)
  BY <1>3
<1>5. \A n \in 0..L : g[n] = IF n = 0 THEN <<>> ELSE Step(g[n - 1], n)
  BY <1>4 DEF Step
<1> HIDE DEF Is
<1> DEFINE T == {n \in 0..L : ~PickOf(g[n], rows, K, n)}
<1>6. T = {}
  <2> SUFFICES ASSUME T # {} PROVE FALSE
    OBVIOUS
  <2>1. PICK n \in T : \A m \in T : n <= m
    <3>1. T \subseteq Nat
      BY <1>1
    <3> HIDE DEF T
    <3> QED
      BY <3>1, LeastNatural
  <2>2. n # 0
    <3>1. g[0] = <<>>
      BY <1>1, <1>5
    <3> QED
      BY <3>1, PickNothing
  <2>3. n - 1 \in Nat /\ n - 1 \in 0..L /\ n - 1 \notin T /\ n \in 0..L
    BY <1>1, <2>1, <2>2
  <2>4. PickOf(g[n - 1], rows, K, n - 1)
    BY <2>3
  <2>5. PickOf(IF (n - 1) + 1 \in K THEN Append(g[n - 1], rows[(n - 1) + 1]) ELSE g[n - 1], rows, K, (n - 1) + 1)
    BY ONLY <2>3, <2>4, PickNext
  <2>6. (n - 1) + 1 = n
    BY <2>3
  <2>7. g[n] = Step(g[n - 1], n)
    BY <1>5, <2>2, <2>3
  <2> QED
    BY <2>5, <2>6, <2>7 DEF Step
<1>7. L \in 0..L
  BY <1>1
<1> QED
  BY <1>2, <1>4, <1>6, <1>7 DEF L

\* f names the rows of out, in their order.
PickedBy(f, out, rows, K) ==
    /\ Len(out) = Len(f)
    /\ \A i \in 1..Len(out) : f[i] \in K /\ f[i] \in 1..Len(rows) /\ out[i] = rows[f[i]]
    /\ \A i, j \in 1..Len(out) : i < j => f[i] < f[j]
    /\ \A k \in K : k \in 1..Len(rows) => \E i \in 1..Len(out) : f[i] = k

LEMMA PickedRows ==
    ASSUME NEW R, NEW rows \in Seq(R), NEW K
    PROVE  /\ Picked(rows, K) \in Seq(R)
           /\ \E f \in Seq(1..Len(rows)) : PickedBy(f, Picked(rows, K), rows, K)
<1> DEFINE out == Picked(rows, K)
           L == Len(rows)
<1>1. PICK f \in Seq(1..L) :
          /\ \A i \in 1..Len(f) : f[i] \in K
          /\ \A i, j \in 1..Len(f) : i < j => f[i] < f[j]
          /\ \A k \in K : k \in 1..L => \E i \in 1..Len(f) : f[i] = k
          /\ out = [i \in 1..Len(f) |-> rows[f[i]]]
  BY PickedFact DEF PickOf
<1>2. Len(f) \in Nat /\ \A i \in 1..Len(f) : f[i] \in 1..L
  OBVIOUS
<1>3. \A i \in 1..Len(f) : rows[f[i]] \in R
  BY <1>2
<1> HIDE DEF out, L
<1>4. out \in Seq(R) /\ Len(out) = Len(f)
  <2>1. out \in [1..Len(f) -> R]
    BY <1>1, <1>3
  <2> QED
    BY <1>2, <2>1
<1>5. \A i \in 1..Len(out) : out[i] = rows[f[i]]
  BY <1>1, <1>4
<1>6. /\ \A i \in 1..Len(out) : f[i] \in K /\ f[i] \in 1..L /\ out[i] = rows[f[i]]
      /\ \A i, j \in 1..Len(out) : i < j => f[i] < f[j]
      /\ \A k \in K : k \in 1..L => \E i \in 1..Len(out) : f[i] = k
  BY <1>1, <1>2, <1>4, <1>5
<1>7. PickedBy(f, out, rows, K)
  BY <1>4, <1>6 DEF PickedBy, L
<1> QED
  BY <1>4, <1>7 DEF out, L

(***************************************************************************)
(* Pages of the trade feed.                                                *)
(***************************************************************************)
Fates == {"none", "MATCHED", "CONFIRMED", "FAILED"}
Rows == [t : Trades, status : Fates, size : Int]
\* A row has the size of its trade, or none, or repeats a row that has it.
Honest(rows) ==
    /\ rows \in Seq(Rows)
    /\ \A n \in 1..Len(rows) :
          /\ rows[n].status = fate[rows[n].t]
          /\ \/ rows[n].size \in {rows[n].t.size, NoSize}
             \/ \E m \in 1..(n - 1) : rows[m].t = rows[n].t /\ rows[m].size # rows[n].size

LEMMA TradeFacts ==
    /\ IsFiniteSet(Trades)
    /\ \A t \in Trades : t.size \in Nat \ {0} /\ t.price \in Nat /\ t.order \in Intents
    /\ \A t \in Trades : t.size * t.price \in Nat
    /\ Target \in Nat \ {0}
    /\ \A i \in Intents : Size(TradesOf(i)) <= Target
<1>1. \A t \in Trades : t.size \in Nat \ {0} /\ t.price \in Nat /\ t.order \in Intents
  BY ArafAssumption
<1>2. \A a, b \in Nat : a * b \in Nat
  OBVIOUS
<1> QED
  BY <1>1, <1>2, ArafAssumption

LEMMA PageHonest ==
    ASSUME fate \in [Trades -> Fates], visible \subseteq Trades, NEW page \in Pages
    PROVE  Honest(page)
<1> DEFINE rows == {RowOf(t) : t \in visible}
           c == Cardinality(rows)
<1>1. \A r \in rows : r \in Rows /\ r.status = fate[r.t] /\ r.size = r.t.size
  BY TradeFacts DEF RowOf, Rows
<1>2. IsFiniteSet(rows) /\ c \in Nat
  <2>1. IsFiniteSet(visible)
    BY TradeFacts, FS_Subset
  <2>2. [t \in visible |-> RowOf(t)] \in Surjection(visible, rows)
    BY DEF Surjection
  <2>3. IsFiniteSet(rows)
    BY <2>1, <2>2, FS_Surjection
  <2> QED
    BY <2>3, FS_CardinalityType
<1>3. PICK s \in SetToSeqs(rows) :
          \/ page = s
          \/ \E r \in rows : page = Append(s, r)
          \/ \E r \in rows : page = Append(s, [r EXCEPT !.size = @ + 1])
          \/ \E n \in DOMAIN s : page = [s EXCEPT ![n].size = NoSize]
  BY DEF Pages
<1>4. s \in [1..c -> rows]
  BY DEF SetToSeqs
<1> HIDE DEF rows, c
<1>5. s \in Seq(Rows) /\ Len(s) = c /\ \A n \in 1..c : s[n] \in rows /\ s[n] \in Rows
  <2>1. s \in [1..c -> Rows]
    BY <1>1, <1>4
  <2> QED
    BY <1>2, <1>4, <2>1
<1>6. CASE page = s
  BY <1>1, <1>5, <1>6 DEF Honest
<1>7. ASSUME NEW r \in Rows, page = Append(s, r), r.status = fate[r.t],
             r.size = r.t.size \/ \E m \in 1..c : s[m].t = r.t /\ s[m].size # r.size
      PROVE  Honest(page)
  <2>1. page \in Seq(Rows) /\ Len(page) = c + 1 /\ page[c + 1] = r /\ \A n \in 1..c : page[n] = s[n]
    BY <1>2, <1>5, <1>7
  <2>2. \A n \in 1..(c + 1) : n \in 1..c \/ n = c + 1
    BY <1>2
  <2>3. \A n \in 1..c : page[n].status = fate[page[n].t] /\ page[n].size = page[n].t.size
    BY <1>1, <1>5, <2>1
  <2>4. \/ r.size = r.t.size
        \/ \E m \in 1..((c + 1) - 1) : page[m].t = r.t /\ page[m].size # r.size
    BY <1>2, <1>7, <2>1
  <2>5. \A n \in 1..(c + 1) :
          /\ page[n].status = fate[page[n].t]
          /\ \/ page[n].size \in {page[n].t.size, NoSize}
             \/ \E m \in 1..(n - 1) : page[m].t = page[n].t /\ page[m].size # page[n].size
    <3> TAKE n \in 1..(c + 1)
    <3>1. CASE n \in 1..c
      BY <2>3, <3>1
    <3>2. CASE n = c + 1
      BY <1>7, <2>1, <2>4, <3>2
    <3> QED
      BY <2>2, <3>1, <3>2
  <2> QED
    BY <2>1, <2>5 DEF Honest
<1>8. ASSUME NEW r \in rows, page = Append(s, r)
      PROVE  Honest(page)
  BY <1>1, <1>7, <1>8
<1>9. ASSUME NEW r \in rows, page = Append(s, [r EXCEPT !.size = @ + 1])
      PROVE  Honest(page)
  <2> DEFINE e == [r EXCEPT !.size = @ + 1]
  <2>1. e \in Rows /\ e.t = r.t /\ e.status = r.status /\ e.size = r.size + 1 /\ r.size \in Int
    BY <1>1 DEF Rows
  <2>2. PICK m \in 1..c : s[m] = r
    <3>1. \A i, j \in 1..c : i # j => s[i] # s[j]
      BY DEF SetToSeqs, c
    <3>2. s \in Injection(1..c, rows)
      BY <1>4, <3>1 DEF Injection, IsInjective
    <3>3. IsFiniteSet(1..c) /\ Cardinality(1..c) = c
      BY <1>2, FS_Interval
    <3>4. s \in Surjection(1..c, rows)
      BY <1>2, <3>2, <3>3, FS_Injection DEF c
    <3> QED
      BY <3>4 DEF Surjection
  <2> HIDE DEF e
  <2> QED
    BY <1>1, <1>7, <1>9, <2>1, <2>2 DEF e
<1>10. ASSUME NEW n \in DOMAIN s, page = [s EXCEPT ![n].size = NoSize]
       PROVE  Honest(page)
  <2>1. n \in 1..c /\ NoSize \in Int
    BY <1>4 DEF NoSize
  <2>2. page = [s EXCEPT ![n] = [s[n] EXCEPT !.size = NoSize]]
    BY <1>10
  <2>3. [s[n] EXCEPT !.size = NoSize] \in Rows
    BY <1>5, <2>1 DEF Rows
  <2>4. page \in Seq(Rows) /\ Len(page) = c /\ \A m \in 1..c : m # n => page[m] = s[m]
    BY <1>2, <1>5, <2>1, <2>2, <2>3
  <2>5. page[n].t = s[n].t /\ page[n].status = s[n].status /\ page[n].size = NoSize
    BY <1>5, <2>1, <2>2 DEF Rows
  <2> QED
    BY <1>1, <1>5, <2>1, <2>4, <2>5 DEF Honest
<1> QED
  BY <1>3, <1>6, <1>8, <1>9, <1>10

LEMMA HonestPicked ==
    ASSUME NEW rows, Honest(rows), NEW K,
           \A m, n \in 1..Len(rows) : rows[m].t = rows[n].t /\ n \in K => m \in K
    PROVE  /\ Honest(Picked(rows, K))
           /\ \A i \in 1..Len(Picked(rows, K)) : \E n \in 1..Len(rows) : n \in K /\ Picked(rows, K)[i] = rows[n]
<1> DEFINE out == Picked(rows, K)
           L == Len(rows)
<1>1. rows \in Seq(Rows)
  BY DEF Honest
<1>2. PICK f \in Seq(1..L) :
          /\ Len(out) = Len(f)
          /\ \A i \in 1..Len(out) : f[i] \in K /\ f[i] \in 1..L /\ out[i] = rows[f[i]]
          /\ \A i, j \in 1..Len(out) : i < j => f[i] < f[j]
          /\ \A k \in K : k \in 1..L => \E i \in 1..Len(out) : f[i] = k
  <2>1. PICK f \in Seq(1..Len(rows)) : PickedBy(f, Picked(rows, K), rows, K)
    BY <1>1, PickedRows
  <2> QED
    BY <2>1 DEF PickedBy
<1>3. out \in Seq(Rows) /\ Len(out) \in Nat /\ L \in Nat
  BY <1>1, PickedRows
<1>4. \A n \in 1..L :
          /\ rows[n].status = fate[rows[n].t]
          /\ \/ rows[n].size \in {rows[n].t.size, NoSize}
             \/ \E m \in 1..(n - 1) : rows[m].t = rows[n].t /\ rows[m].size # rows[n].size
  BY DEF Honest
<1> HIDE DEF out
<1>5. ASSUME NEW i \in 1..Len(out), out[i].size \notin {out[i].t.size, NoSize}
      PROVE  \E j \in 1..(i - 1) : out[j].t = out[i].t /\ out[j].size # out[i].size
  <2>1. f[i] \in 1..L /\ out[i] = rows[f[i]] /\ f[i] \in K
    BY <1>2
  <2>2. PICK m \in 1..(f[i] - 1) : rows[m].t = rows[f[i]].t /\ rows[m].size # rows[f[i]].size
    BY <1>4, <1>5, <2>1
  <2>3. m \in 1..L /\ m < f[i]
    BY <1>3, <2>1
  <2>4. m \in K
    BY <2>1, <2>2, <2>3
  <2>5. PICK j \in 1..Len(out) : f[j] = m
    BY <1>2, <2>3, <2>4
  <2>6. j < i
    <3>1. i # j /\ ~(i < j)
      BY <1>2, <2>1, <2>3, <2>5
    <3> QED
      BY <1>3, <3>1
  <2>7. j \in 1..(i - 1)
    BY <1>3, <2>6
  <2>8. out[j] = rows[m]
    BY <1>2, <2>5
  <2> QED
    BY <2>1, <2>2, <2>7, <2>8
<1>6. \A i \in 1..Len(out) : out[i].status = fate[out[i].t]
  BY <1>2, <1>4
<1>7. Honest(out)
  BY <1>3, <1>5, <1>6 DEF Honest
<1> QED
  BY <1>2, <1>7 DEF out

(***************************************************************************)
(* Evidence.                                                               *)
(***************************************************************************)
\* Distinct trades, each with its own size.
Genuine(rs) ==
    /\ rs \in Seq(Rows)
    /\ \A n \in 1..Len(rs) : rs[n].size = rs[n].t.size
    /\ \A m, n \in 1..Len(rs) : rs[m].t = rs[n].t => m = n
\* What is summed up are trades of C, each once.
Backed(ev, C) ==
    LET ts == Range(ev.trades) IN
    /\ ts \subseteq C
    /\ ev.size = Size(ts)
    /\ ev.notional = SumFunction([t \in ts |-> t.size * t.price])

LEMMA FillsBacked ==
    ASSUME NEW rs, Genuine(rs), NEW C, \A n \in 1..Len(rs) : rs[n].t \in C
    PROVE  Backed(Fills(rs), C)
<1> DEFINE D == 1..Len(rs)
           m == [n \in D |-> rs[n].t]
           ts == {m[n] : n \in D}
           sizes == [n \in D |-> rs[n].size]
           values == [n \in D |-> rs[n].size * rs[n].t.price]
           sizeOf == [t \in ts |-> t.size]
           valueOf == [t \in ts |-> t.size * t.price]
<1>1. rs \in Seq(Rows) /\ Len(rs) \in Nat /\ DOMAIN rs = D /\ \A n \in D : rs[n] \in Rows /\ rs[n].t \in Trades
  <2>1. rs \in Seq(Rows)
    BY DEF Genuine
  <2>2. \A n \in D : rs[n] \in Rows
    BY <2>1
  <2>3. \A r \in Rows : r.t \in Trades
    BY DEF Rows
  <2> QED
    BY <2>1, <2>2, <2>3
<1>2. /\ Fills(rs).size = SumFunction(sizes) /\ Fills(rs).notional = SumFunction(values)
      /\ Fills(rs).trades = m
  BY <1>1 DEF Fills
<1>3. Range(m) = ts
  BY DEF Range
<1>4. IsFiniteSet(D)
  BY <1>1, FS_Interval
<1>5. IsFiniteSet(ts)
  <2>1. m \in Surjection(D, ts)
    BY DEF Surjection
  <2> QED
    BY <1>4, <2>1, FS_Surjection
<1>6. \A x, y \in D : m[x] = m[y] => x = y
  BY DEF Genuine
<1>7. \A n \in D : sizes[n] = m[n].size /\ values[n] = m[n].size * m[n].price
  BY DEF Genuine
<1>8. \A n \in D : sizes[n] \in Int /\ values[n] \in Int
  BY <1>1, <1>7, TradeFacts
<1>9. \A n \in D : sizes[n] = sizeOf[m[n]] /\ values[n] = valueOf[m[n]]
  BY <1>7
<1>10. DOMAIN sizes = D /\ DOMAIN values = D /\ DOMAIN sizeOf = ts /\ DOMAIN valueOf = ts
  OBVIOUS
<1>11. Size(ts) = SumFunction(sizeOf)
  BY DEF Size
<1>12. ts \subseteq C
  OBVIOUS
<1> DEFINE image == {m[n] : n \in D}
<1>13. ts = image
  OBVIOUS
<1> HIDE DEF D, m, sizes, values, sizeOf, valueOf, ts
<1>14. Total(image, sizeOf) = Total(D, sizes) /\ Total(image, valueOf) = Total(D, values)
  BY <1>4, <1>6, <1>8, <1>9, TotalMoved
<1>15. SumFunction(sizes) = Total(D, sizes) /\ SumFunction(values) = Total(D, values)
  BY <1>4, <1>10, SumIsTotal
<1>16. SumFunction(sizeOf) = Total(ts, sizeOf) /\ SumFunction(valueOf) = Total(ts, valueOf)
  BY <1>5, <1>10, SumIsTotal
<1>17. Fills(rs).notional = SumFunction(valueOf) /\ Fills(rs).size = Size(ts)
  BY <1>2, <1>11, <1>13, <1>14, <1>15, <1>16
<1> QED
  BY <1>2, <1>3, <1>12, <1>17 DEF Backed, valueOf

LEMMA NothingBacked ==
    ASSUME NEW C
    PROVE  Backed(Nothing, C) /\ Nothing.size = 0 /\ Nothing.kind = "nothing" /\ Clash.kind = "conflict"
<1>1. Nothing.size = 0 /\ Nothing.notional = 0 /\ Nothing.trades = <<>> /\ Nothing.kind = "nothing" /\ Clash.kind = "conflict"
  BY DEF Nothing, Clash
<1>2. Range(<<>>) = {}
  BY DEF Range
<1>3. ASSUME NEW f, DOMAIN f = {}
      PROVE  SumFunction(f) = 0
  <2>1. Total({}, f) = 0 /\ IsFiniteSet({})
    BY TotalEmpty, FS_EmptySet
  <2> QED
    BY <1>3, <2>1, SumIsTotal
<1> DEFINE f == [t \in {} |-> t.size]  g == [t \in {} |-> t.size * t.price]
<1>4. DOMAIN f = {} /\ DOMAIN g = {}
  OBVIOUS
<1>5. Size({}) = SumFunction(f)
  BY DEF Size
<1> HIDE DEF f, g
<1>6. SumFunction(f) = 0 /\ SumFunction(g) = 0
  BY <1>3, <1>4
<1> QED
  BY <1>1, <1>2, <1>5, <1>6 DEF Backed, g

LEMMA FirstOfEachGenuine ==
    ASSUME NEW rows \in Seq(Rows), \A n \in 1..Len(rows) : rows[n].size = rows[n].t.size,
           \A m, n \in 1..Len(rows) : m < n /\ rows[m].t = rows[n].t => rows[m] = rows[n]
    PROVE  /\ Genuine(FirstOfEach(rows))
           /\ \A i \in 1..Len(FirstOfEach(rows)) : \E n \in 1..Len(rows) : FirstOfEach(rows)[i] = rows[n]
<1> DEFINE K == {n \in DOMAIN rows : \A m \in 1..(n - 1) : rows[m] # rows[n]}
           out == FirstOfEach(rows)
           L == Len(rows)
<1>1. \A n \in K : \A m \in 1..(n - 1) : rows[m] # rows[n]
  OBVIOUS
<1>2. out = Picked(rows, K)
  BY DEF FirstOfEach
<1> HIDE DEF K, out
<1>3. PICK f \in Seq(1..L) :
          /\ Len(out) = Len(f)
          /\ \A i \in 1..Len(out) : f[i] \in K /\ f[i] \in 1..L /\ out[i] = rows[f[i]]
          /\ \A i, j \in 1..Len(out) : i < j => f[i] < f[j]
          /\ \A k \in K : k \in 1..L => \E i \in 1..Len(out) : f[i] = k
  <2>1. PICK f \in Seq(1..Len(rows)) : PickedBy(f, Picked(rows, K), rows, K)
    BY PickedRows
  <2> QED
    BY <1>2, <2>1 DEF PickedBy
<1>4. out \in Seq(Rows) /\ Len(out) \in Nat /\ L \in Nat
  BY <1>2, PickedRows
<1>5. ASSUME NEW i \in 1..Len(out), NEW j \in 1..Len(out), i < j, out[i].t = out[j].t
      PROVE  FALSE
  <2>1. f[i] \in 1..L /\ f[j] \in 1..L /\ f[i] < f[j] /\ f[j] \in K
    BY <1>3, <1>5
  <2>2. rows[f[i]] = rows[f[j]]
    <3>1. out[i] = rows[f[i]] /\ out[j] = rows[f[j]]
      BY <1>3
    <3> QED
      BY <1>5, <2>1, <3>1
  <2>3. f[i] \in 1..(f[j] - 1)
    BY <1>4, <2>1
  <2> QED
    BY <1>1, <2>1, <2>2, <2>3
<1>6. \A i, j \in 1..Len(out) : out[i].t = out[j].t => i = j
  <2> TAKE i, j \in 1..Len(out)
  <2>1. i < j \/ j < i \/ i = j
    BY <1>4
  <2> QED
    BY <1>5, <2>1
<1>7. \A i \in 1..Len(out) : out[i].size = out[i].t.size /\ \E n \in 1..L : out[i] = rows[n]
  BY <1>3
<1> QED
  BY <1>4, <1>6, <1>7 DEF Genuine, out

LEMMA AggregateBacked ==
    ASSUME NEW rows, Honest(rows), NEW C, \A n \in 1..Len(rows) : rows[n].t \in C
    PROVE  Aggregate(rows) = Clash \/ Backed(Aggregate(rows), C)
<1> DEFINE clashes == {n \in DOMAIN rows : \E m \in 1..(n - 1) : rows[m].t = rows[n].t /\ rows[m] # rows[n]}
           bad     == {n \in DOMAIN rows : rows[n].size = NoSize}
           out     == FirstOfEach(rows)
<1>1. \/ Aggregate(rows) \in {Clash, Nothing}
      \/ Aggregate(rows) = Fills(out) /\ clashes = {} /\ bad = {}
  <2>1. Aggregate(rows) =
           IF clashes # {} /\ \A n \in bad : \E m \in clashes : m <= n THEN Clash
           ELSE IF bad # {} \/ rows = <<>> THEN Nothing
           ELSE Fills(out)
    BY DEF Aggregate
  <2> HIDE DEF clashes, bad, out
  <2> QED
    BY <2>1
<1>2. ASSUME clashes = {}, bad = {}
      PROVE  Backed(Fills(out), C)
  <2>1. rows \in Seq(Rows) /\ DOMAIN rows = 1..Len(rows) /\ Len(rows) \in Nat
    BY DEF Honest
  <2>2. \A m, n \in 1..Len(rows) : m < n /\ rows[m].t = rows[n].t => rows[m] = rows[n]
    <3> TAKE m, n \in 1..Len(rows)
    <3> HAVE m < n /\ rows[m].t = rows[n].t
    <3>1. m \in 1..(n - 1)
      BY <2>1
    <3>2. n \notin clashes
      BY <1>2
    <3> QED
      BY <2>1, <3>1, <3>2
  <2>3. \A n \in 1..Len(rows) : rows[n].size = rows[n].t.size
    <3> TAKE n \in 1..Len(rows)
    <3>1. rows[n].size # NoSize
      BY <1>2, <2>1
    <3>2. \A m \in 1..(n - 1) : m \in 1..Len(rows) /\ m < n
      BY <2>1
    <3>3. \/ rows[n].size \in {rows[n].t.size, NoSize}
          \/ \E m \in 1..(n - 1) : rows[m].t = rows[n].t /\ rows[m].size # rows[n].size
      BY DEF Honest
    <3> QED
      BY <2>2, <3>1, <3>2, <3>3
  <2> HIDE DEF clashes, bad
  <2>4. Genuine(out) /\ \A i \in 1..Len(out) : \E n \in 1..Len(rows) : out[i] = rows[n]
    BY <2>1, <2>2, <2>3, FirstOfEachGenuine
  <2>5. \A i \in 1..Len(out) : out[i].t \in C
    BY <2>4
  <2> HIDE DEF out
  <2> QED
    BY <2>4, <2>5, FillsBacked
<1> HIDE DEF clashes, bad, out
<1> QED
  BY <1>1, <1>2, NothingBacked

LEMMA DecisionBacked ==
    ASSUME fate \in [Trades -> Fates], visible \subseteq Trades, NEW page \in Pages,
           NEW i \in Intents, NEW status, NEW d, d = decide_araf_resolution(i, status, page)
    PROVE  /\ Backed(d.fills, Confirmed(i))
           /\ d.state \in {"RECOVERY_REQUIRED", "FILLED", "PARTIAL_FILLED"}
           /\ d.state = "FILLED" => d.fills.size = Target
<1> DEFINE ours == ConfirmedFills(page, i)
           C == Confirmed(i)
           fills(role) == Aggregate(OfRole(ours, role))
           side == fills(ours[1].t.role)
           rest == IF fills("taker") = Nothing THEN fills("maker") ELSE fills("taker")
<1>1. Honest(page)
  BY PageHonest
<1>2. Honest(ours) /\ \A n \in 1..Len(ours) : ours[n].t \in C
  <2> DEFINE K == {n \in DOMAIN page : page[n].t.order = i /\ page[n].status = "CONFIRMED"}
  <2>1. /\ page \in Seq(Rows) /\ DOMAIN page = 1..Len(page)
        /\ \A n \in 1..Len(page) : page[n] \in Rows /\ page[n].status = fate[page[n].t]
    <3>1. page \in Seq(Rows) /\ \A n \in 1..Len(page) : page[n].status = fate[page[n].t]
      BY <1>1 DEF Honest
    <3> QED
      BY <3>1
  <2>2. \A m, n \in 1..Len(page) : page[m].t = page[n].t /\ n \in K => m \in K
    BY <2>1
  <2>3. \A n \in 1..Len(page) : n \in K => page[n].t \in C
    BY <2>1 DEF Confirmed, TradesOf, Rows
  <2>4. ours = Picked(page, K)
    BY DEF ConfirmedFills
  <2> HIDE DEF K, ours, C
  <2>5. /\ Honest(Picked(page, K))
        /\ \A j \in 1..Len(Picked(page, K)) : \E n \in 1..Len(page) : n \in K /\ Picked(page, K)[j] = page[n]
    BY ONLY <1>1, <2>2, HonestPicked
  <2> QED
    BY <2>3, <2>4, <2>5
<1>3. ASSUME NEW role
      PROVE  fills(role) = Clash \/ Backed(fills(role), C)
  <2> DEFINE K == {n \in DOMAIN ours : ours[n].t.role = role}
  <2>1. ours \in Seq(Rows)
    BY <1>2 DEF Honest
  <2> HIDE DEF ours
  <2>2. \A m, n \in 1..Len(ours) : ours[m].t = ours[n].t /\ n \in K => m \in K
    BY <2>1
  <2>3. OfRole(ours, role) = Picked(ours, K)
    BY DEF OfRole
  <2> HIDE DEF K, C
  <2>4. /\ Honest(Picked(ours, K))
        /\ \A j \in 1..Len(Picked(ours, K)) : \E n \in 1..Len(ours) : n \in K /\ Picked(ours, K)[j] = ours[n]
    BY ONLY <1>2, <2>2, HonestPicked
  <2> DEFINE out == OfRole(ours, role)
  <2>5. Honest(out) /\ \A j \in 1..Len(out) : out[j].t \in C
    BY <1>2, <2>3, <2>4
  <2> HIDE DEF out
  <2>6. Aggregate(out) = Clash \/ Backed(Aggregate(out), C)
    BY <2>5, AggregateBacked
  <2> QED
    BY <2>6 DEF out
<1>4. ASSUME ours # <<>>, ours[1].size # NoSize
      PROVE  Backed(Fills(<<ours[1]>>), C)
  <2> DEFINE rs == <<ours[1]>>
  <2>1. ours \in Seq(Rows) /\ \A n \in 1..Len(ours) :
           \/ ours[n].size \in {ours[n].t.size, NoSize}
           \/ \E m \in 1..(n - 1) : ours[m].t = ours[n].t /\ ours[m].size # ours[n].size
    BY <1>2 DEF Honest
  <2> HIDE DEF ours, C
  <2>2. 1 \in 1..Len(ours) /\ ours[1] \in Rows
    BY <1>4, <2>1
  <2>3. ours[1].size = ours[1].t.size
    BY <1>4, <2>1, <2>2
  <2>4. rs \in Seq(Rows) /\ Len(rs) = 1 /\ \A n \in 1..Len(rs) : n = 1 /\ rs[n] = ours[1]
    BY <2>2
  <2> HIDE DEF rs
  <2>5. Genuine(rs)
    BY <2>3, <2>4 DEF Genuine
  <2>6. \A n \in 1..Len(rs) : rs[n].t \in C
    BY <1>2, <2>2, <2>4
  <2>7. Backed(Fills(rs), C)
    BY <2>5, <2>6, FillsBacked
  <2> QED
    BY <2>7 DEF rs
<1>5. ours # <<>> /\ ours[1].size = Target /\ ours[1].size # NoSize => Fills(<<ours[1]>>).size = Target
  <2> SUFFICES ASSUME ours # <<>>, ours[1].size = Target
               PROVE  Fills(<<ours[1]>>).size = Target
    OBVIOUS
  <2> DEFINE rs == <<ours[1]>>
             f == [n \in DOMAIN rs |-> rs[n].size]
  <2>1. Fills(rs).size = SumFunction(f)
    BY DEF Fills
  <2>2. DOMAIN f = {} \cup {1} /\ f[1] = Target
    OBVIOUS
  <2> HIDE DEF f, rs
  <2>3. IsFiniteSet({}) /\ IsFiniteSet({} \cup {1})
    <3>1. {} \cup {1} = {1}
      OBVIOUS
    <3> QED
      BY FS_EmptySet, FS_AddElement
  <2>4. SumFunction(f) = Total({} \cup {1}, f)
    BY <2>2, <2>3, SumIsTotal
  <2>5. \A y \in {} \cup {1} : f[y] \in Int
    BY <2>2, TradeFacts
  <2>6. Total({} \cup {1}, f) = f[1] + Total({}, f)
    BY <2>3, <2>5, TotalAdd
  <2>7. Total({}, f) = 0
    BY TotalEmpty
  <2> QED
    BY <2>1, <2>2, <2>4, <2>6, <2>7, TradeFacts DEF rs
<1>6. d = IF ours = <<>> \/ ours[1].size = NoSize \/ side = Clash THEN Recovery
          ELSE IF side.size = Target THEN Decision("FILLED", side)
          ELSE IF ours[1].size = Target THEN Decision("FILLED", Fills(<<ours[1]>>))
          ELSE IF ours[1].size < Target /\ status \in {"LIVE", "MATCHED"} THEN Recovery
          ELSE IF rest = Clash THEN Recovery
          ELSE Decision("PARTIAL_FILLED", rest)
  BY DEF decide_araf_resolution
<1>7. /\ side = Clash \/ Backed(side, C)
      /\ rest = Clash \/ Backed(rest, C)
  BY <1>3
<1> DEFINE alone == Fills(<<ours[1]>>)
<1>8. \A state, ev : Decision(state, ev).state = state /\ Decision(state, ev).fills = ev
  BY DEF Decision
<1>9. Recovery = Decision("RECOVERY_REQUIRED", Nothing)
  BY DEF Recovery
<1> HIDE DEF ours, C, side, rest, alone
<1>10. \/ d = Decision("RECOVERY_REQUIRED", Nothing)
       \/ d = Decision("FILLED", side) /\ side.size = Target /\ side # Clash
       \/ d = Decision("FILLED", alone) /\ ours # <<>> /\ ours[1].size = Target /\ ours[1].size # NoSize
       \/ d = Decision("PARTIAL_FILLED", rest) /\ rest # Clash
  BY <1>6, <1>9 DEF alone
<1>11. Backed(d.fills, C)
  BY <1>4, <1>7, <1>8, <1>10, NothingBacked DEF alone
<1>12. d.state \in {"RECOVERY_REQUIRED", "FILLED", "PARTIAL_FILLED"}
  BY <1>8, <1>10
<1>13. d.state = "FILLED" => d.fills.size = Target
  BY <1>5, <1>8, <1>10 DEF alone
<1> QED
  BY <1>11, <1>12, <1>13 DEF C

\* Evidence of the whole order is all that was confirmed of it.
LEMMA WholeOrder ==
    ASSUME NEW i \in Intents, NEW ts, ts \subseteq Confirmed(i), Size(ts) = Target
    PROVE  Size(Confirmed(i)) = Target
<1>1. Confirmed(i) \subseteq TradesOf(i) /\ TradesOf(i) \subseteq Trades
  BY DEF Confirmed, TradesOf
<1>2. ASSUME NEW R, NEW S, R \subseteq S, S \subseteq Trades
      PROVE  Size(R) <= Size(S) /\ Size(R) \in Int /\ Size(S) \in Int
  <2> DEFINE f == [t \in R |-> t.size]  h == [t \in S |-> t.size]
  <2>1. IsFiniteSet(S) /\ IsFiniteSet(R)
    BY <1>2, TradeFacts, FS_Subset
  <2>2. Size(R) = SumFunction(f) /\ Size(S) = SumFunction(h)
    BY DEF Size
  <2>3. DOMAIN f = R /\ DOMAIN h = S
    OBVIOUS
  <2>4. \A t \in S : h[t] \in Nat
    BY <1>2, TradeFacts
  <2>5. \A t \in R : f[t] = h[t]
    BY <1>2
  <2> HIDE DEF f, h
  <2>6. SumFunction(f) = Total(R, f) /\ SumFunction(h) = Total(S, h)
    BY <2>1, <2>3, SumIsTotal
  <2>7. Total(R, f) = Total(R, h)
    BY <2>1, <2>5, TotalAgrees
  <2>8. Total(R, h) \in Int /\ Total(S, h) \in Int /\ Total(R, h) <= Total(S, h)
    BY <1>2, <2>1, <2>4, TotalGrows
  <2> QED
    BY <2>2, <2>6, <2>7, <2>8
<1> DEFINE A == Confirmed(i)  B == TradesOf(i)
<1>3. A \subseteq B /\ B \subseteq Trades /\ ts \subseteq A /\ A \subseteq Trades
  BY <1>1
<1> HIDE DEF A, B
<1>4. Size(ts) <= Size(A) /\ Size(A) <= Size(B) /\ Size(A) \in Int /\ Size(B) \in Int
  BY <1>2, <1>3
<1>5. Size(B) <= Target /\ Target \in Nat
  BY TradeFacts DEF B
<1> QED
  BY <1>4, <1>5 DEF A

(***************************************************************************)
(* The driver.                                                             *)
(***************************************************************************)
States == {"none", "RECOVERY_REQUIRED", "FILLED", "PARTIAL_FILLED"}
ARTyped ==
    /\ fate \in [Trades -> Fates] /\ visible \subseteq Trades /\ live \subseteq Intents
    /\ driver.step \in {"idle", "order", "trades"}
    /\ driver.step # "idle" => driver.todo \in Seq(Intents) /\ driver.todo # <<>>
    /\ DOMAIN shadow = Intents
    /\ cancelled \subseteq Intents
ShadowBacked ==
    \A i \in Intents :
        /\ Backed(shadow[i].fills, Confirmed(i))
        /\ shadow[i].state = "FILLED" => shadow[i].fills.size = Target
ARInv == ARTyped /\ ShadowBacked /\ ZeroFillSound

LEMMA QueueFacts == Queue \in Seq(Intents) /\ \A t \in Trades : t.order \in Intents
BY ArafAssumption

\* The evidence stays good as long as no confirmed trade is lost.
LEMMA BackedStays ==
    ASSUME ShadowBacked, shadow' = shadow,
           \A i \in Intents : Confirmed(i) \subseteq Confirmed(i)'
    PROVE  ShadowBacked'
BY DEF ShadowBacked, Backed, Size

LEMMA ARInitInv == ARInit => ARInv
<1> SUFFICES ASSUME ARInit PROVE ARInv
  OBVIOUS
<1> USE DEF ARInit
<1>1. ARTyped
  BY DEF ARTyped, Fates, NoBatch
<1>2. ShadowBacked
  <2>1. \A i \in Intents : shadow[i].fills = Nothing /\ shadow[i].state = "none"
    BY DEF NoDecision, Decision
  <2> QED
    BY <2>1, NothingBacked DEF ShadowBacked
<1>3. ZeroFillSound
  BY DEF ZeroFillSound
<1> QED
  BY <1>1, <1>2, <1>3 DEF ARInv

\* The exchange: a trade that is confirmed stays so, one of a dead order
\* does not happen.
LEMMA ExchangeStep ==
    ASSUME ARInv, Exchange
    PROVE  ARInv'
<1> USE DEF ARInv
<1>1. ASSUME NEW t \in Trades, MatchTrade(t)
      PROVE  ARInv'
  <2> USE <1>1 DEF MatchTrade
  <2>1. ARTyped'
    BY DEF ARTyped, Fates
  <2>2. ShadowBacked'
    <3>1. \A i \in Intents : Confirmed(i) \subseteq Confirmed(i)'
      BY DEF ARTyped, Confirmed, TradesOf
    <3> QED
      BY <3>1, BackedStays
  <2>3. ZeroFillSound'
    BY DEF ARTyped, ZeroFillSound, TradesOf
  <2> QED
    BY <2>1, <2>2, <2>3
<1>2. ASSUME NEW t \in Trades, Show(t)
      PROVE  ARInv'
  <2> USE <1>2 DEF Show
  <2>1. ARTyped'
    BY DEF ARTyped
  <2>2. ShadowBacked'
    <3>1. \A i \in Intents : Confirmed(i) \subseteq Confirmed(i)'
      BY DEF Confirmed
    <3> QED
      BY <3>1, BackedStays
  <2>3. ZeroFillSound'
    BY DEF ZeroFillSound
  <2> QED
    BY <2>1, <2>2, <2>3
<1>3. ASSUME NEW t \in Trades, NEW s \in {"CONFIRMED", "FAILED"}, SettleTrade(t, s)
      PROVE  ARInv'
  <2> USE <1>3 DEF SettleTrade
  <2>1. ARTyped'
    BY DEF ARTyped, Fates
  <2>2. ShadowBacked'
    <3>1. \A i \in Intents : Confirmed(i) \subseteq Confirmed(i)'
      BY DEF ARTyped, Confirmed, TradesOf
    <3> QED
      BY <3>1, BackedStays
  <2>3. ZeroFillSound'
    BY DEF ARTyped, ZeroFillSound, TradesOf
  <2> QED
    BY <2>1, <2>2, <2>3
<1>4. ASSUME NEW i \in Intents, CancelOrder(i)
      PROVE  ARInv'
  <2> USE <1>4 DEF CancelOrder
  <2>1. ARTyped'
    BY DEF ARTyped
  <2>2. ShadowBacked'
    <3>1. \A j \in Intents : Confirmed(j) \subseteq Confirmed(j)'
      BY DEF Confirmed
    <3> QED
      BY <3>1, BackedStays
  <2>3. ZeroFillSound'
    BY DEF ZeroFillSound
  <2> QED
    BY <2>1, <2>2, <2>3
<1> QED
  BY <1>1, <1>2, <1>3, <1>4 DEF Exchange

\* A decision that is backed may be recorded.
LEMMA RecordStep ==
    ASSUME ARInv, driver.step \in {"order", "trades"}, NEW d, Record(d),
           Backed(d.fills, Confirmed(Head(driver.todo))),
           d.state = "FILLED" => d.fills.size = Target
    PROVE  ARInv'
<1> DEFINE i == Head(driver.todo)
<1> USE DEF ARInv
<1>1. i \in Intents /\ UNCHANGED <<exchange, first, cancelled>>
  BY DEF Record, ARTyped
<1>2. driver' = NoBatch \/ (Len(driver.todo) # 1 /\ driver' = [step |-> "order", todo |-> Tail(driver.todo), status |-> ""])
  BY DEF Record, NextIntent, BatchEnds
<1>3. shadow' = shadow \/ shadow' = [shadow EXCEPT ![i] = d]
  BY DEF Record
<1> HIDE DEF i
<1>4. ARTyped'
  <2>1. driver'.step \in {"idle", "order"} /\ (driver'.step # "idle" => driver'.todo \in Seq(Intents) /\ driver'.todo # <<>>)
    <3>1. driver.todo \in Seq(Intents) /\ driver.todo # <<>>
      BY DEF ARTyped
    <3>2. CASE driver' = NoBatch
      BY <3>2 DEF NoBatch
    <3>3. CASE Len(driver.todo) # 1 /\ driver' = [step |-> "order", todo |-> Tail(driver.todo), status |-> ""]
      <4>1. Tail(driver.todo) \in Seq(Intents) /\ Tail(driver.todo) # <<>>
        <5> DEFINE q == driver.todo
        <5>1. q \in Seq(Intents) /\ q # <<>> /\ Len(q) # 1
          BY <3>1, <3>3
        <5> HIDE DEF q
        <5>2. Tail(q) \in Seq(Intents) /\ Len(Tail(q)) = Len(q) - 1 /\ Len(q) \in Nat /\ Len(q) # 0
          BY <5>1
        <5>3. Len(Tail(q)) # 0 /\ Len(<<>>) = 0
          BY <5>1, <5>2
        <5> QED
          BY <5>2, <5>3 DEF q
      <4> QED
        BY <3>3, <4>1
    <3> QED
      BY <1>2, <3>2, <3>3
  <2> QED
    BY <1>1, <1>3, <2>1 DEF ARTyped, exchange
<1>5. ShadowBacked'
  <2>1. \A j \in Intents : Confirmed(j)' = Confirmed(j)
    BY <1>1 DEF Confirmed, exchange
  <2>2. \A j \in Intents : shadow'[j] = shadow[j] \/ (j = i /\ shadow'[j] = d)
    BY <1>3 DEF ARTyped
  <2>3. Backed(d.fills, Confirmed(i)) /\ (d.state = "FILLED" => d.fills.size = Target)
    BY DEF i
  <2>4. ASSUME NEW j \in Intents
        PROVE  /\ Backed(shadow'[j].fills, Confirmed(j))
               /\ shadow'[j].state = "FILLED" => shadow'[j].fills.size = Target
    BY <2>2, <2>3 DEF ShadowBacked
  <2> QED
    BY <2>1, <2>4 DEF ShadowBacked, Backed, Size
<1>6. ZeroFillSound'
  BY <1>1 DEF ZeroFillSound, exchange
<1> QED
  BY <1>4, <1>5, <1>6

LEMMA BatchStep ==
    ASSUME ARInv, Batch
    PROVE  ARInv'
<1> DEFINE i == Head(driver.todo)
<1>1. ASSUME UNCHANGED <<exchange, shadow, cancelled>>,
             driver'.step \in {"idle", "order", "trades"},
             driver'.step # "idle" => driver'.todo \in Seq(Intents) /\ driver'.todo # <<>>
      PROVE  ARInv'
  <2>1. ARTyped'
    BY <1>1 DEF ARInv, ARTyped, exchange
  <2>2. ShadowBacked'
    <3>1. \A j \in Intents : Confirmed(j) \subseteq Confirmed(j)'
      BY <1>1 DEF Confirmed, exchange
    <3> QED
      BY <1>1, <3>1, BackedStays DEF ARInv
  <2>3. ZeroFillSound'
    BY <1>1 DEF ARInv, ZeroFillSound, exchange
  <2> QED
    BY <2>1, <2>2, <2>3 DEF ARInv
<1>2. CASE StartBatch
  <2>1. driver'.step = "order" /\ driver'.todo = Queue /\ Queue # <<>>
    BY <1>2 DEF StartBatch, ARInv, ARTyped
  <2> QED
    BY <1>1, <1>2, <2>1, QueueFacts DEF StartBatch
<1>3. ASSUME Record(Recovery), driver.step \in {"order", "trades"}
      PROVE  ARInv'
  <2>1. Recovery.fills = Nothing /\ Recovery.state = "RECOVERY_REQUIRED"
    BY DEF Recovery, Decision
  <2> QED
    BY <1>3, <2>1, NothingBacked, RecordStep
<1>4. CASE MissingOrderId
  BY <1>3, <1>4 DEF MissingOrderId
<1>5. CASE CannotScan
  BY <1>3, <1>5 DEF CannotScan
<1>6. CASE RequestRaises
  BY <1>1, <1>6 DEF RequestRaises, BatchEnds, NoBatch
<1>7. ASSUME NEW answered \in BOOLEAN, FetchOrder(answered)
      PROVE  ARInv'
  <2>1. driver.todo \in Seq(Intents) /\ driver.todo # <<>>
    BY <1>7 DEF FetchOrder, ARInv, ARTyped
  <2>2. driver'.step = "trades" /\ driver'.todo = driver.todo
    BY <1>7 DEF FetchOrder
  <2> QED
    BY <1>1, <1>7, <2>1, <2>2 DEF FetchOrder
<1>8. ASSUME NEW page \in Pages, FetchTrades(page)
      PROVE  ARInv'
  <2> DEFINE d == decide_araf_resolution(i, driver.status, page)
  <2>1. i \in Intents /\ fate \in [Trades -> Fates] /\ visible \subseteq Trades /\ driver.step = "trades"
    BY <1>8 DEF FetchTrades, ARInv, ARTyped
  <2>2. Record(d)
    BY <1>8 DEF FetchTrades
  <2> HIDE DEF i
  <2>3. Backed(d.fills, Confirmed(i)) /\ (d.state = "FILLED" => d.fills.size = Target)
    BY <2>1, DecisionBacked
  <2> HIDE DEF d
  <2> QED
    BY <2>1, <2>2, <2>3, RecordStep DEF i
<1> QED
  BY <1>2, <1>4, <1>5, <1>6, <1>7, <1>8 DEF Batch

\* An order is found dead and without a trade twice, the second time when
\* no trade can be unseen.
LEMMA ObserveStep ==
    ASSUME ARInv, Observe
    PROVE  ARInv'
<1>a. PICK i \in Intents \ Unnamed, complete \in BOOLEAN :
          \E matched \in MatchedSizes(i) :
              ObserveFirst(i, matched, complete) \/ ObserveSecond(i, matched, complete)
  BY DEF Observe
<1>1. PICK matched \in MatchedSizes(i) :
          ObserveFirst(i, matched, complete) \/ ObserveSecond(i, matched, complete)
  BY <1>a
<1>2. UNCHANGED <<exchange, driver, shadow>>
  BY <1>1 DEF ObserveFirst, ObserveSecond
<1>3. /\ cancelled' \subseteq cancelled \cup {i}
      /\ i \in cancelled' =>
            i \in cancelled \/ (i \notin live /\ \A t \in TradesOf(i) : fate[t] = "none")
  <2>1. CASE ObserveFirst(i, matched, complete)
    BY <2>1 DEF ObserveFirst
  <2>2. CASE ObserveSecond(i, matched, complete)
    <3>1. CASE Stable(i, ZeroFillCancel(i, matched, complete))
      <4>1. OrderStatus(i) = "CANCELED" /\ TradesOf(i) \cap visible = {}
        BY <3>1 DEF Stable, ZeroFillCancel, has_any_order_trace
      <4>2. i \notin live
        BY <4>1 DEF OrderStatus
      <4>3. \A t \in TradesOf(i) : fate[t] = "none"
        BY <2>2, <4>1 DEF ObserveSecond
      <4> QED
        BY <2>2, <3>1, <4>2, <4>3 DEF ObserveSecond
    <3>2. CASE ~Stable(i, ZeroFillCancel(i, matched, complete))
      BY <2>2, <3>2 DEF ObserveSecond
    <3> QED
      BY <3>1, <3>2
  <2> QED
    BY <1>1, <2>1, <2>2
<1>4. ARTyped'
  BY <1>2, <1>3 DEF ARInv, ARTyped, exchange
<1>5. ShadowBacked'
  <2>1. \A j \in Intents : Confirmed(j) \subseteq Confirmed(j)'
    BY <1>2 DEF Confirmed, exchange
  <2> QED
    BY <1>2, <2>1, BackedStays DEF ARInv
<1>6. ZeroFillSound'
  BY <1>2, <1>3 DEF ARInv, ZeroFillSound, exchange
<1> QED
  BY <1>4, <1>5, <1>6 DEF ARInv

LEMMA ARNextInv == ARInv /\ [ARNext]_ARvars => ARInv'
<1> SUFFICES ASSUME ARInv, [ARNext]_ARvars PROVE ARInv'
  OBVIOUS
<1>1. CASE UNCHANGED ARvars
  <2>1. ARTyped'
    BY <1>1 DEF ARInv, ARTyped, ARvars, exchange
  <2>2. ShadowBacked'
    <3>1. \A i \in Intents : Confirmed(i) \subseteq Confirmed(i)'
      BY <1>1 DEF Confirmed, ARvars, exchange
    <3> QED
      BY <1>1, <3>1, BackedStays DEF ARInv, ARvars
  <2>3. ZeroFillSound'
    BY <1>1 DEF ARInv, ZeroFillSound, ARvars, exchange
  <2> QED
    BY <2>1, <2>2, <2>3 DEF ARInv
<1> QED
  BY <1>1, ExchangeStep, BatchStep, ObserveStep DEF ARNext

(* What the shadow table holds is backed by confirmed trades of its order, *)
(* and an order called cancelled without a fill had none, for any queue,   *)
(* trades and pages (run_araf_resolution, decide_araf_resolution).         *)
THEOREM ARInductive == ARSpec => []ARInv
BY ARInitInv, ARNextInv, PTL DEF ARSpec

(* No trade counts twice and none that may still fail counts; FILLED means *)
(* that confirmed trades make up the whole order                           *)
(* (_aggregate_taker_confirmed_fills, decide_araf_resolution).             *)
THEOREM FillsAreProven == ARSpec => []FilledIsProven
<1>1. ARInv => FilledIsProven
  <2> SUFFICES ASSUME ARInv, NEW i \in Intents
               PROVE  LET ev == shadow[i].fills
                          ts == Range(ev.trades)
                      IN /\ ts \subseteq Confirmed(i)
                         /\ ev.size = Size(ts)
                         /\ ev.notional = SumFunction([t \in ts |-> t.size * t.price])
                         /\ shadow[i].state = "FILLED" => Size(Confirmed(i)) = Target
    BY DEF FilledIsProven
  <2>1. Backed(shadow[i].fills, Confirmed(i)) /\ (shadow[i].state = "FILLED" => shadow[i].fills.size = Target)
    BY DEF ARInv, ShadowBacked
  <2> QED
    BY <2>1, WholeOrder DEF Backed
<1> QED
  BY <1>1, ARInductive, PTL

(* An order declared cancelled without a fill can never trade, although    *)
(* the record and the trades are read at different times                   *)
(* (decide_zero_fill_cancel_with_stability).                               *)
THEOREM ZeroFillsAreSound == ARSpec => []ZeroFillSound
BY ARInductive, PTL DEF ARInv
=============================================================================
