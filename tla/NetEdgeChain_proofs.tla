------------------------ MODULE NetEdgeChain_proofs ------------------------
(***************************************************************************)
(* Proofs about NetEdgeChain, for any units, labels, values, thresholds,   *)
(* sizes and numbers of costs.                                             *)
(*                                                                         *)
(* The argument.  What a boundary has let through, it would let through    *)
(* again: the carriers held are the ones it saw (`PassedInv`); and a halt  *)
(* carrier that ends an evaluation is the verdict on the carriers that are *)
(* kept with it (`HaltInv`).  The rest is about single verdicts, and about *)
(* the sum of the costs, which is a number (TotalIsANumber).               *)
(***************************************************************************)
EXTENDS NetEdgeChain, SequenceTheorems, WellFoundedInduction, TLAPS

(* A set of naturals has a least element. *)
LEMMA LeastNatural ==
    ASSUME NEW T, T \subseteq Nat, T # {}
    PROVE  \E x \in T : \A y \in T : x <= y
<1>1. PICK x \in T : \A y \in T : ~(<<y, x>> \in OpToRel(<, Nat))
  BY WFMin, NatLessThanWellFounded
<1>2. \A y \in T : ~(y < x)
  <2> SUFFICES ASSUME NEW y \in T, y < x PROVE FALSE
    OBVIOUS
  <2>1. <<y, x>> \in {ss \in Nat \X Nat : ss[1] < ss[2]}
    OBVIOUS
  <2> QED
    BY <1>1, <2>1, Zenon DEF OpToRel
<1> QED
  BY <1>2

(* The sum of any tuple of costs exists and is a number. *)
LEMMA TotalIsANumber ==
    ASSUME NEW costs \in Seq(Costs)
    PROVE  TotalCost(costs) \in Int
<1> DEFINE N == Len(costs)
           Sums(f, n) == f = [i \in 0..n |-> IF i = 0 THEN 0 ELSE f[i - 1] + costs[i].cost.value]
<1>1. N \in Nat /\ \A i \in 1..N : costs[i].cost.value \in Int
  <2>1. \A c \in Costs : c.cost.value \in Int
    BY ChainAssumption DEF Costs, CostObservations, CostSources
  <2> QED
    BY <2>1
<1>2. \A f : Sums(f, N) => f[N] \in Int
  <2> SUFFICES ASSUME NEW f, Sums(f, N), f[N] \notin Int PROVE FALSE
    OBVIOUS
  <2> DEFINE T == {i \in 0..N : f[i] \notin Int}
  <2>1. PICK i \in T : \A j \in T : i <= j
    <3>1. T \subseteq Nat /\ N \in T
      BY <1>1
    <3> QED
      BY <3>1, LeastNatural
  <2>2. CASE i = 0
    BY <1>1, <2>1, <2>2
  <2>3. CASE i # 0
    <3>1. i \in 1..N /\ i - 1 \in 0..N /\ ~(i <= i - 1)
      BY <1>1, <2>1, <2>3
    <3>2. f[i - 1] \in Int
      <4>1. i - 1 \notin T
        <5> HIDE DEF T
        <5> QED
          BY <2>1, <3>1
      <4> QED
        BY <3>1, <4>1
    <3>3. f[i] = f[i - 1] + costs[i].cost.value
      BY <2>3, <3>1
    <3> QED
      BY <1>1, <2>1, <3>1, <3>2, <3>3
  <2> QED
    BY <2>2, <2>3
<1>3. \E f : Sums(f, N)
  <2> DEFINE T == {n \in 0..N : ~\E f : Sums(f, n)}
  <2> SUFFICES ASSUME N \in T PROVE FALSE
    BY <1>1
  <2>1. PICK n \in T : \A j \in T : n <= j
    <3>1. T \subseteq Nat /\ N \in T
      BY <1>1
    <3> QED
      BY <3>1, LeastNatural
  <2>2. CASE n = 0
    <3>1. Sums([i \in 0..0 |-> 0], 0)
      OBVIOUS
    <3> QED
      BY <2>1, <2>2, <3>1
  <2>3. CASE n # 0
    <3>1. n - 1 \in 0..N /\ n - 1 \notin T
      BY <1>1, <2>1, <2>3
    <3>2. PICK f : Sums(f, n - 1)
      BY <3>1
    <3> DEFINE g == [i \in 0..n |-> IF i = n THEN f[n - 1] + costs[n].cost.value ELSE f[i]]
    <3>3. Sums(g, n)
      <4>1. ASSUME NEW i \in 0..n
            PROVE  g[i] = IF i = 0 THEN 0 ELSE g[i - 1] + costs[i].cost.value
        <5>1. CASE i = n
          BY <2>1, <2>3, <5>1
        <5>2. CASE i # n
          BY <2>1, <2>3, <3>2, <5>2
        <5> QED
          BY <5>1, <5>2
      <4> QED
        BY <4>1
    <3> QED
      BY <2>1, <3>3
  <2> QED
    BY <2>2, <2>3
<1>4. TotalCost(costs) = (CHOOSE f : Sums(f, N))[N]
  BY DEF TotalCost
<1> QED
  BY <1>2, <1>3, <1>4

----------------------------------------------------------------------------
Steps == {"record", "observe", "preflight", "calculate", "gate", "envelope", "readiness",
          "liquidity", "capital", "converge", "admitted"}

\* The preflight passed, or ended the evaluation.
Timed  == step \in {"calculate", "gate", "envelope"} \/ (step = "preflight" /\ halt.kind = "no_eligible")
Priced == step = "envelope" \/ (step = "gate" /\ halt.kind = "no_eligible")
Sized  == step \in {"readiness", "liquidity", "capital", "converge", "admitted"}
Listed == step \in {"liquidity", "capital", "converge", "admitted"}
           \/ (step = "readiness" /\ halt.kind = "no_eligible")
Booked == step \in {"capital", "converge", "admitted"} \/ (step = "liquidity" /\ halt.kind = "no_eligible")
Funded == step \in {"converge", "admitted"} \/ (step = "capital" /\ halt.kind = "no_eligible")

TypeInv ==
    /\ now \in Times /\ step \in Steps
    /\ DOMAIN held = {"gross", "costs", "at", "policy", "env", "ready", "liquidity", "capital"}
    /\ step = "preflight" \/ Timed => held.gross \in GrossEdges
    /\ Timed => held.at \in Times /\ \E n \in 1..MaxCosts : held.costs \in Inputs(n)
    /\ Priced => held.policy \in Policies
    /\ Sized => held.env \in Envelopes
    /\ Listed => held.ready \in Readiness
    /\ Booked => held.liquidity \in Liquidities
    /\ Funded => held.capital \in Capitals

PassedInv ==
    /\ step \in {"calculate", "gate", "envelope"} =>
          InputPreflight(held.gross, held.costs, held.at) = Pass
    /\ step \in {"gate", "envelope"} => UnitVerdict(held.gross, held.costs) = Pass
    /\ step = "envelope" => Profitability(held.gross, held.costs, held.policy) = Pass
    /\ step \in {"liquidity", "capital", "converge", "admitted"} =>
          VenueReadiness(held.env, held.ready) = Pass
    /\ step \in {"capital", "converge", "admitted"} =>
          LiquidityCapacity(held.env, held.liquidity) = Pass
    /\ step \in {"converge", "admitted"} => CapitalMargin(held.env, held.capital) = Pass

HaltInv ==
    /\ halt.kind = "no_eligible" =>
          step \in {"preflight", "gate", "readiness", "liquidity", "capital"}
    /\ halt.kind = "no_eligible" /\ step = "preflight" =>
          InputPreflight(held.gross, held.costs, held.at) = halt
    /\ halt.kind = "no_eligible" /\ step = "gate" =>
          Profitability(held.gross, held.costs, held.policy) = halt
    /\ halt.kind = "no_eligible" /\ step = "readiness" => VenueReadiness(held.env, held.ready) = halt
    /\ halt.kind = "no_eligible" /\ step = "liquidity" =>
          LiquidityCapacity(held.env, held.liquidity) = halt
    /\ halt.kind = "no_eligible" /\ step = "capital" => CapitalMargin(held.env, held.capital) = halt
    /\ step = "calculate" => halt \in {Pass, UnitVerdict(held.gross, held.costs)}
    /\ step = "converge" =>
          halt \in {Pass, Convergence(held.env, held.ready, held.liquidity, held.capital)}
    /\ step = "envelope" => halt = Pass

IInv == TypeInv /\ PassedInv /\ HaltInv

----------------------------------------------------------------------------
(* What the verdicts say.                                                  *)

LEMMA Kinds ==
    /\ Pass.kind = "pass"
    /\ \A why : Blocked(why).kind = "blocked" /\ Violation(why).kind = "violation"
                  /\ NoEligible(why).kind = "no_eligible"
    /\ \A why : Blocked(why) # Pass /\ Violation(why) # Pass /\ NoEligible(why) # Pass
BY DEF Pass, Blocked, Violation, NoEligible

LEMMA PreflightSays ==
    ASSUME NEW g \in GrossEdges, NEW n \in 1..MaxCosts, NEW costs \in Inputs(n), NEW t \in Times
    PROVE  /\ InputPreflight(g, costs, t).kind \in {"pass", "no_eligible"} =>
                /\ g.at <= t /\ Spans(costs, g.at) /\ Spans(costs, t)
                /\ \A i \in DOMAIN costs : Netable(g, costs[i])
           /\ InputPreflight(g, costs, t) = Pass => Fresh(g, t)
           /\ InputPreflight(g, costs, t).kind = "no_eligible" => ~Fresh(g, t)
<1>1. ~(t < g.at) => g.at <= t
  BY ChainAssumption DEF GrossEdges, GrossSources, Times
<1> QED
  BY <1>1, Kinds DEF InputPreflight

LEMMA TupleOfCosts ==
    ASSUME NEW n \in 1..MaxCosts, NEW costs \in Inputs(n)
    PROVE  costs \in Seq(Costs) /\ DOMAIN costs = 1..n /\ 1 \in DOMAIN costs
BY SeqDef, ChainAssumption DEF Inputs

LEMMA UnitsSay ==
    ASSUME NEW g, NEW n \in 1..MaxCosts, NEW costs \in Inputs(n)
    PROVE  /\ UnitVerdict(g, costs) = Pass => \A i \in DOMAIN costs : costs[i].cost.unit = g.unit
           /\ (\A i \in DOMAIN costs : Netable(g, costs[i])) =>
                 UnitVerdict(g, costs) \in {Pass} \cup
                    {Blocked(why) : why \in {"unit vocabulary", "mixed proportional", "no notional"}}
           /\ UnitVerdict(g, costs).kind # "no_eligible"
<1> DEFINE us == {costs[i].cost.unit : i \in DOMAIN costs}
<1>1. UnitVerdict(g, costs) = UnitBlock(g.unit, us) /\ us # {}
  BY TupleOfCosts DEF UnitVerdict
<1>2. UnitVerdict(g, costs) = Pass => us = {g.unit}
  BY <1>1, Kinds DEF UnitBlock
<1>3. ASSUME \A i \in DOMAIN costs : Netable(g, costs[i])
      PROVE  UnitVerdict(g, costs) \in {Pass} \cup
                {Blocked(why) : why \in {"unit vocabulary", "mixed proportional", "no notional"}}
  <2>1. us \subseteq {g.unit} \cup Proportional
    BY <1>3 DEF Netable
  <2>2. g.unit \in Proportional => us \subseteq Proportional
    BY <2>1
  <2>3. us \cap Proportional = {} /\ g.unit \notin Proportional => us = {g.unit}
    BY <1>1, <2>1
  <2> HIDE DEF us
  <2> QED
    BY <1>1, <2>2, <2>3 DEF UnitBlock
<1>4. UnitVerdict(g, costs).kind # "no_eligible"
  BY <1>1, Kinds DEF UnitBlock
<1> QED
  BY <1>2, <1>3, <1>4

LEMMA GateSays ==
    ASSUME NEW g \in GrossEdges, NEW n \in 1..MaxCosts, NEW costs \in Inputs(n), NEW p \in Policies
    PROVE  /\ Profitability(g, costs, p) = Pass =>
                /\ p.unit = g.unit /\ p.value # Malformed
                /\ g.value >= p.value + TotalCost(costs)
           /\ Profitability(g, costs, p).kind = "no_eligible" =>
                p.unit = g.unit /\ g.value < p.value + TotalCost(costs)
<1>1. TotalCost(costs) \in Int
  BY TupleOfCosts, TotalIsANumber
<1>2. g.value \in Int /\ p.value \in Int
  <2>1. g.value \in Values /\ p.value \in Values \cup {Malformed}
    BY DEF GrossEdges, GrossSources, Policies
  <2>2. Malformed \in Int /\ Values \subseteq Int
    BY ChainAssumption DEF Malformed
  <2> QED
    BY <2>1, <2>2
<1> DEFINE total == TotalCost(costs)
<1>3. Profitability(g, costs, p) =
        IF p.value = Malformed THEN Blocked("policy")
        ELSE IF g.unit # p.unit THEN Blocked("unit")
        ELSE IF g.value - total < p.value THEN NoEligible("below threshold")
        ELSE Pass
  BY DEF Profitability, NetEdgeValue
<1>4. (g.value - total < p.value) <=> (g.value < p.value + total)
  BY <1>1, <1>2
<1>5. ~(g.value - total < p.value) <=> (g.value >= p.value + total)
  BY <1>1, <1>2
<1> HIDE DEF total
<1>6. /\ Profitability(g, costs, p) = Pass =>
            p.unit = g.unit /\ p.value # Malformed /\ ~(g.value - total < p.value)
      /\ Profitability(g, costs, p).kind = "no_eligible" =>
            p.unit = g.unit /\ g.value - total < p.value
  BY <1>3, Kinds, Zenon
<1> QED
  BY <1>4, <1>5, <1>6 DEF total

LEMMA ReadinessSays ==
    ASSUME NEW e, NEW r
    PROVE  /\ VenueReadiness(e, r) = Pass => Fits(e, r) /\ r.status = "ACTIVE"
           /\ VenueReadiness(e, r).kind = "no_eligible" => Fits(e, r) /\ r.status # "ACTIVE"
BY Kinds DEF VenueReadiness, Fits

LEMMA LiquiditySays ==
    ASSUME NEW e \in Envelopes, NEW l \in Liquidities
    PROVE  /\ LiquidityCapacity(e, l).kind \in {"pass", "no_eligible"} =>
                /\ Fits(e, l) /\ l.size = e.size /\ l.tolerance # Malformed
                /\ l.unit = e.unit /\ l.capacity_unit = e.unit
                /\ Within(e.at, l.at, l.tolerance)
           /\ LiquidityCapacity(e, l) = Pass => e.size \in 1..l.capacity
           /\ LiquidityCapacity(e, l).kind = "no_eligible" => l.capacity \in 1..(e.size - 1)
<1>1. e.size \in Nat /\ l.size \in Nat /\ l.capacity \in Nat
  BY ChainAssumption DEF Envelopes, Liquidities
<1> QED
  BY <1>1, Kinds DEF LiquidityCapacity, Fits

LEMMA CapitalSays ==
    ASSUME NEW e \in Envelopes, NEW c \in Capitals
    PROVE  /\ CapitalMargin(e, c).kind \in {"pass", "no_eligible"} =>
                /\ Fits(e, c) /\ c.scope /\ c.size = e.size /\ c.unit = e.unit
                /\ c.tolerance # Malformed /\ c.required_unit = c.free_unit
                /\ Within(e.at, c.at, c.tolerance) /\ Within(e.at, c.free_at, c.tolerance)
           /\ CapitalMargin(e, c) = Pass => c.required \in 1..c.free
           /\ CapitalMargin(e, c).kind = "no_eligible" => c.free \in 0..(c.required - 1)
<1>1. e.size \in Nat /\ c.size \in Nat /\ c.required \in Nat /\ (c.free # Malformed => c.free \in Nat)
  BY ChainAssumption DEF Envelopes, Capitals
<1> QED
  BY <1>1, Kinds DEF CapitalMargin, Fits

(* Carriers that passed the gates converge, but for a padded label or unit *)
(* and for figures in other digits.                                        *)
LEMMA ConvergenceSays ==
    ASSUME NEW e \in Envelopes, NEW r \in Readiness, NEW l \in Liquidities, NEW c \in Capitals,
           VenueReadiness(e, r) = Pass, LiquidityCapacity(e, l) = Pass, CapitalMargin(e, c) = Pass
    PROVE  \/ Convergence(e, r, l, c) = Pass
           \/ /\ Convergence(e, r, l, c) = Blocked("malformed")
              /\ \/ {e.label, e.unit, c.required_unit} \cap Padded # {}
                 \/ ~(e.ascii /\ l.ascii /\ c.ascii)
<1>1. /\ r.label = e.label /\ l.label = e.label /\ c.label = e.label
      /\ l.size = e.size /\ c.size = e.size
      /\ l.unit = e.unit /\ c.unit = e.unit /\ l.capacity_unit = e.unit
      /\ c.required_unit = c.free_unit
      /\ l.tolerance # Malformed /\ c.tolerance # Malformed
      /\ Within(e.at, l.at, l.tolerance) /\ Within(e.at, c.at, c.tolerance)
      /\ Within(e.at, c.free_at, c.tolerance)
  BY ReadinessSays, LiquiditySays, CapitalSays, Kinds DEF Fits
<1>2. LabelsOf(e, r, l, c) = {e.label, e.unit, c.required_unit}
  BY <1>1 DEF LabelsOf
<1>3. /\ {r.label, l.label, c.label} = {e.label} /\ {l.size, c.size} = {e.size}
      /\ {l.unit, c.unit, l.capacity_unit} = {e.unit}
      /\ ~(Malformed \in {l.tolerance, c.tolerance})
  BY <1>1
<1> QED
  BY <1>1, <1>2, <1>3 DEF Convergence

----------------------------------------------------------------------------
(* A verdict is a pass, the economic refusal or a packet. *)
IsVerdict(v) ==
    \/ v = Pass
    \/ v # Pass /\ v.kind = "no_eligible"
    \/ v # Pass /\ v.kind \in {"blocked", "violation", "raised"}

LEMMA Verdicts ==
    /\ \A r : IsVerdict(IF Provenance(r) = Pass THEN Pass ELSE BlockedPacket(r))
    /\ \A r : (IF Provenance(r) = Pass THEN Pass ELSE BlockedPacket(r)).kind # "no_eligible"
    /\ \A g, costs, t : IsVerdict(InputPreflight(g, costs, t))
    /\ \A g, costs : IsVerdict(UnitVerdict(g, costs))
    /\ \A g, costs, p : IsVerdict(Profitability(g, costs, p))
    /\ \A e, r : IsVerdict(VenueReadiness(e, r))
    /\ \A e, l : IsVerdict(LiquidityCapacity(e, l))
    /\ \A e, c : IsVerdict(CapitalMargin(e, c))
    /\ \A e, r, l, c : IsVerdict(Convergence(e, r, l, c))
<1>1. \A r : /\ IsVerdict(IF Provenance(r) = Pass THEN Pass ELSE BlockedPacket(r))
             /\ (IF Provenance(r) = Pass THEN Pass ELSE BlockedPacket(r)).kind # "no_eligible"
  <2> SUFFICES ASSUME NEW r
               PROVE  /\ IsVerdict(IF Provenance(r) = Pass THEN Pass ELSE BlockedPacket(r))
                      /\ (IF Provenance(r) = Pass THEN Pass ELSE BlockedPacket(r)).kind # "no_eligible"
    OBVIOUS
  <2>1. \/ Provenance(r) = Pass
        \/ Provenance(r) # Pass /\ Provenance(r).kind \in {"blocked", "violation"}
    BY Kinds DEF Provenance
  <2>2. [kind |-> "raised", why |-> Provenance(r).why].kind = "raised"
    OBVIOUS
  <2> QED
    BY <2>1, <2>2, Kinds DEF IsVerdict, BlockedPacket
<1>2. \A g, costs, t : IsVerdict(InputPreflight(g, costs, t))
  <2> SUFFICES ASSUME NEW g, NEW costs, NEW t PROVE IsVerdict(InputPreflight(g, costs, t))
    OBVIOUS
  <2>1. \/ InputPreflight(g, costs, t) \in {Pass, NoEligible("stale")}
        \/ InputPreflight(g, costs, t) \in {Violation("causality"), Violation("interval")}
        \/ \E why : InputPreflight(g, costs, t) = Blocked(why)
    BY Zenon DEF InputPreflight
  <2> QED
    BY <2>1, Kinds DEF IsVerdict
<1>3. \A g, costs : IsVerdict(UnitVerdict(g, costs))
  BY Kinds DEF IsVerdict, UnitVerdict, UnitBlock
<1>4. \A g, costs, p : IsVerdict(Profitability(g, costs, p))
  BY Kinds DEF IsVerdict, Profitability
<1>5. \A e, r : IsVerdict(VenueReadiness(e, r))
  BY Kinds DEF IsVerdict, VenueReadiness
<1>6. \A e, l : IsVerdict(LiquidityCapacity(e, l))
  BY Kinds DEF IsVerdict, LiquidityCapacity
<1>7. \A e, c : IsVerdict(CapitalMargin(e, c))
  BY Kinds DEF IsVerdict, CapitalMargin
<1>8. \A e, r, l, c : IsVerdict(Convergence(e, r, l, c))
  BY Kinds DEF IsVerdict, Convergence
<1> QED
  BY <1>1, <1>2, <1>3, <1>4, <1>5, <1>6, <1>7, <1>8

(* What a boundary's answer does. *)
LEMMA Answers ==
    ASSUME NEW v, NEW h, NEW next, IsVerdict(v), Answer(v, h, next)
    PROVE  /\ halt' = v /\ now' = now
           /\ v = Pass => step' = next /\ held' = h
           /\ v # Pass => step' = step
           /\ v # Pass /\ v.kind = "no_eligible" => held' = h
           /\ v # Pass /\ v.kind # "no_eligible" =>
                 held' = held /\ v.kind \in {"blocked", "violation", "raised"}
BY Kinds DEF IsVerdict, Answer

LEMMA InitIInv == Init => IInv
<1> SUFFICES ASSUME Init PROVE IInv
  OBVIOUS
<1>1. now \in Times
  BY ChainAssumption DEF Init, Times
<1>2. DOMAIN held = {"gross", "costs", "at", "policy", "env", "ready", "liquidity", "capital"}
  BY DEF Init, Empty
<1>3. step = "record" /\ halt.kind = "pass"
  BY Kinds DEF Init
<1> QED
  BY <1>1, <1>2, <1>3
     DEF IInv, TypeInv, PassedInv, HaltInv, Steps, Timed, Priced, Sized, Listed, Booked, Funded

LEMMA RecordStep == IInv /\ CheckRecord => IInv'
<1> SUFFICES ASSUME IInv, CheckRecord PROVE IInv'
  OBVIOUS
<1> DEFINE V(r) == IF Provenance(r) = Pass THEN Pass ELSE BlockedPacket(r)
<1>1. PICK r \in Records : Answer(V(r), held, "observe")
  BY DEF CheckRecord
<1>2. IsVerdict(V(r)) /\ V(r).kind # "no_eligible"
  BY Verdicts
<1> HIDE DEF V
<1>3. /\ held' = held /\ now' = now /\ halt'.kind # "no_eligible"
      /\ step' \in {"record", "observe"}
  BY <1>1, <1>2, Answers, Kinds DEF CheckRecord, At
<1> QED
  BY <1>3 DEF IInv, TypeInv, PassedInv, HaltInv, Steps, Timed, Priced, Sized, Listed, Booked, Funded

LEMMA ObserveStep == IInv /\ Observe => IInv'
<1> SUFFICES ASSUME IInv, Observe PROVE IInv'
  OBVIOUS
<1>1. PICK g \in GrossEdges : Answer(Pass, [held EXCEPT !.gross = g], "preflight")
  BY DEF Observe
<1>2. halt' = Pass /\ now' = now /\ step' = "preflight" /\ held' = [held EXCEPT !.gross = g]
  BY <1>1, Answers DEF IsVerdict
<1> QED
  BY <1>2, Kinds DEF IInv, TypeInv, PassedInv, HaltInv, Steps, Timed, Priced, Sized, Listed, Booked, Funded

LEMMA PreflightStep == IInv /\ Preflight => IInv'
<1> SUFFICES ASSUME IInv, Preflight PROVE IInv'
  OBVIOUS
<1> DEFINE V(costs) == InputPreflight(held.gross, costs, now)
<1>1. PICK n \in 1..MaxCosts : \E costs \in Inputs(n) :
         Answer(V(costs), [held EXCEPT !.costs = costs, !.at = now], "calculate")
  BY DEF Preflight
<1>2. PICK costs \in Inputs(n) :
         Answer(V(costs), [held EXCEPT !.costs = costs, !.at = now], "calculate")
  BY <1>1
<1>3. IsVerdict(V(costs)) /\ step = "preflight"
  BY Verdicts DEF Preflight, At
<1> DEFINE h == [held EXCEPT !.costs = costs, !.at = now]
<1>4. /\ h.gross = held.gross /\ h.costs = costs /\ h.at = now /\ DOMAIN h = DOMAIN held
      /\ held.gross \in GrossEdges /\ now \in Times
      /\ DOMAIN held = {"gross", "costs", "at", "policy", "env", "ready", "liquidity", "capital"}
  BY <1>3 DEF IInv, TypeInv
<1>5. InputPreflight(h.gross, h.costs, h.at) = V(costs)
  BY <1>4
<1> HIDE DEF V, h
<1>6. CASE V(costs) = Pass
  <2>1. halt' = Pass /\ now' = now /\ step' = "calculate" /\ held' = h
    BY <1>2, <1>3, <1>6, Answers DEF h
  <2> QED
    BY <1>4, <1>5, <1>6, <2>1, Kinds
       DEF IInv, TypeInv, PassedInv, HaltInv, Steps, Timed, Priced, Sized, Listed, Booked, Funded
<1>7. CASE V(costs) # Pass /\ V(costs).kind = "no_eligible"
  <2>1. halt' = V(costs) /\ now' = now /\ step' = "preflight" /\ held' = h
    BY <1>2, <1>3, <1>7, Answers DEF h
  <2> QED
    BY <1>4, <1>5, <1>7, <2>1
       DEF IInv, TypeInv, PassedInv, HaltInv, Steps, Timed, Priced, Sized, Listed, Booked, Funded
<1>8. CASE V(costs) # Pass /\ V(costs).kind # "no_eligible"
  <2>1. halt' = V(costs) /\ now' = now /\ step' = "preflight" /\ held' = held
    BY <1>2, <1>3, <1>8, Answers DEF h
  <2> QED
    BY <1>4, <1>8, <2>1
       DEF IInv, TypeInv, PassedInv, HaltInv, Steps, Timed, Priced, Sized, Listed, Booked, Funded
<1> QED
  BY <1>6, <1>7, <1>8

LEMMA CalculateStep == IInv /\ Calculate => IInv'
<1> SUFFICES ASSUME IInv, Calculate PROVE IInv'
  OBVIOUS
<1> DEFINE v == UnitVerdict(held.gross, held.costs)
<1>1. /\ Answer(v, held, "gate") /\ step = "calculate"
      /\ IsVerdict(v) /\ v.kind # "no_eligible"
  <2>1. \E n \in 1..MaxCosts : held.costs \in Inputs(n)
    BY DEF Calculate, At, IInv, TypeInv, Timed
  <2> QED
    BY <2>1, UnitsSay, Verdicts DEF Calculate, At
<1> HIDE DEF v
<1>2. /\ halt' = v /\ now' = now /\ held' = held /\ halt'.kind # "no_eligible"
      /\ step' = IF v = Pass THEN "gate" ELSE "calculate"
  BY <1>1, Answers
<1> QED
  BY <1>1, <1>2, Kinds
     DEF IInv, TypeInv, PassedInv, HaltInv, Steps, Timed, Priced, Sized, Listed, Booked, Funded, v

LEMMA GateStep == IInv /\ Gate => IInv'
<1> SUFFICES ASSUME IInv, Gate PROVE IInv'
  OBVIOUS
<1> DEFINE V(p) == Profitability(held.gross, held.costs, p)
<1>1. PICK p \in Policies : Answer(V(p), [held EXCEPT !.policy = p], "envelope")
  BY DEF Gate
<1> DEFINE h == [held EXCEPT !.policy = p]
<1>2. IsVerdict(V(p)) /\ step = "gate"
  BY Verdicts DEF Gate, At
<1>3. /\ h.policy = p /\ DOMAIN h = DOMAIN held
      /\ h.gross = held.gross /\ h.costs = held.costs /\ h.at = held.at /\ h.env = held.env
      /\ h.ready = held.ready /\ h.liquidity = held.liquidity /\ h.capital = held.capital
  BY DEF IInv, TypeInv
<1>4. Profitability(h.gross, h.costs, h.policy) = V(p)
  BY <1>3
<1> HIDE DEF V, h
<1>5. CASE V(p) = Pass
  <2>1. halt' = Pass /\ now' = now /\ step' = "envelope" /\ held' = h
    BY <1>1, <1>2, <1>5, Answers DEF h
  <2> QED
    BY <1>2, <1>3, <1>4, <1>5, <2>1, Kinds
       DEF IInv, TypeInv, PassedInv, HaltInv, Steps, Timed, Priced, Sized, Listed, Booked, Funded
<1>6. CASE V(p) # Pass /\ V(p).kind = "no_eligible"
  <2>1. halt' = V(p) /\ now' = now /\ step' = "gate" /\ held' = h
    BY <1>1, <1>2, <1>6, Answers DEF h
  <2> QED
    BY <1>2, <1>3, <1>4, <1>6, <2>1
       DEF IInv, TypeInv, PassedInv, HaltInv, Steps, Timed, Priced, Sized, Listed, Booked, Funded
<1>7. CASE V(p) # Pass /\ V(p).kind # "no_eligible"
  <2>1. halt' = V(p) /\ now' = now /\ step' = "gate" /\ held' = held
    BY <1>1, <1>2, <1>7, Answers DEF h
  <2> QED
    BY <1>2, <1>7, <2>1
       DEF IInv, TypeInv, PassedInv, HaltInv, Steps, Timed, Priced, Sized, Listed, Booked, Funded
<1> QED
  BY <1>5, <1>6, <1>7

LEMMA EnvelopeStep == IInv /\ MakeEnvelope => IInv'
<1> SUFFICES ASSUME IInv, MakeEnvelope PROVE IInv'
  OBVIOUS
<1>1. PICK e \in Envelopes : Answer(Pass, [Empty EXCEPT !.env = e], "readiness")
  BY DEF MakeEnvelope
<1>2. halt' = Pass /\ now' = now /\ step' = "readiness" /\ held' = [Empty EXCEPT !.env = e]
  BY <1>1, Answers DEF IsVerdict
<1>3. /\ held'.env = e
      /\ DOMAIN held' = {"gross", "costs", "at", "policy", "env", "ready", "liquidity", "capital"}
  BY <1>2 DEF Empty
<1> QED
  BY <1>2, <1>3, Kinds
     DEF IInv, TypeInv, PassedInv, HaltInv, Steps, Timed, Priced, Sized, Listed, Booked, Funded

LEMMA ReadinessStep == IInv /\ CheckReadiness => IInv'
<1> SUFFICES ASSUME IInv, CheckReadiness PROVE IInv'
  OBVIOUS
<1> DEFINE V(r) == VenueReadiness(held.env, r)
<1>1. PICK r \in Readiness : Answer(V(r), [held EXCEPT !.ready = r], "liquidity")
  BY DEF CheckReadiness
<1> DEFINE h == [held EXCEPT !.ready = r]
<1>2. IsVerdict(V(r)) /\ step = "readiness"
  BY Verdicts DEF CheckReadiness, At
<1>3. /\ h.ready = r /\ DOMAIN h = DOMAIN held
      /\ h.gross = held.gross /\ h.costs = held.costs /\ h.at = held.at /\ h.policy = held.policy
      /\ h.env = held.env /\ h.liquidity = held.liquidity /\ h.capital = held.capital
  BY DEF IInv, TypeInv
<1>4. VenueReadiness(h.env, h.ready) = V(r)
  BY <1>3
<1> HIDE DEF V, h
<1>5. CASE V(r) = Pass
  <2>1. halt' = Pass /\ now' = now /\ step' = "liquidity" /\ held' = h
    BY <1>1, <1>2, <1>5, Answers DEF h
  <2> QED
    BY <1>2, <1>3, <1>4, <1>5, <2>1, Kinds
       DEF IInv, TypeInv, PassedInv, HaltInv, Steps, Timed, Priced, Sized, Listed, Booked, Funded
<1>6. CASE V(r) # Pass /\ V(r).kind = "no_eligible"
  <2>1. halt' = V(r) /\ now' = now /\ step' = "readiness" /\ held' = h
    BY <1>1, <1>2, <1>6, Answers DEF h
  <2> QED
    BY <1>2, <1>3, <1>4, <1>6, <2>1
       DEF IInv, TypeInv, PassedInv, HaltInv, Steps, Timed, Priced, Sized, Listed, Booked, Funded
<1>7. CASE V(r) # Pass /\ V(r).kind # "no_eligible"
  <2>1. halt' = V(r) /\ now' = now /\ step' = "readiness" /\ held' = held
    BY <1>1, <1>2, <1>7, Answers DEF h
  <2> QED
    BY <1>2, <1>7, <2>1
       DEF IInv, TypeInv, PassedInv, HaltInv, Steps, Timed, Priced, Sized, Listed, Booked, Funded
<1> QED
  BY <1>5, <1>6, <1>7

LEMMA LiquidityStep == IInv /\ CheckLiquidity => IInv'
<1> SUFFICES ASSUME IInv, CheckLiquidity PROVE IInv'
  OBVIOUS
<1> DEFINE V(l) == LiquidityCapacity(held.env, l)
<1>1. PICK l \in Liquidities : Answer(V(l), [held EXCEPT !.liquidity = l], "capital")
  BY DEF CheckLiquidity
<1> DEFINE h == [held EXCEPT !.liquidity = l]
<1>2. IsVerdict(V(l)) /\ step = "liquidity"
  BY Verdicts DEF CheckLiquidity, At
<1>3. /\ h.liquidity = l /\ DOMAIN h = DOMAIN held
      /\ h.gross = held.gross /\ h.costs = held.costs /\ h.at = held.at /\ h.policy = held.policy
      /\ h.env = held.env /\ h.ready = held.ready /\ h.capital = held.capital
  BY DEF IInv, TypeInv
<1>4. LiquidityCapacity(h.env, h.liquidity) = V(l)
  BY <1>3
<1> HIDE DEF V, h
<1>5. CASE V(l) = Pass
  <2>1. halt' = Pass /\ now' = now /\ step' = "capital" /\ held' = h
    BY <1>1, <1>2, <1>5, Answers DEF h
  <2> QED
    BY <1>2, <1>3, <1>4, <1>5, <2>1, Kinds
       DEF IInv, TypeInv, PassedInv, HaltInv, Steps, Timed, Priced, Sized, Listed, Booked, Funded
<1>6. CASE V(l) # Pass /\ V(l).kind = "no_eligible"
  <2>1. halt' = V(l) /\ now' = now /\ step' = "liquidity" /\ held' = h
    BY <1>1, <1>2, <1>6, Answers DEF h
  <2> QED
    BY <1>2, <1>3, <1>4, <1>6, <2>1
       DEF IInv, TypeInv, PassedInv, HaltInv, Steps, Timed, Priced, Sized, Listed, Booked, Funded
<1>7. CASE V(l) # Pass /\ V(l).kind # "no_eligible"
  <2>1. halt' = V(l) /\ now' = now /\ step' = "liquidity" /\ held' = held
    BY <1>1, <1>2, <1>7, Answers DEF h
  <2> QED
    BY <1>2, <1>7, <2>1
       DEF IInv, TypeInv, PassedInv, HaltInv, Steps, Timed, Priced, Sized, Listed, Booked, Funded
<1> QED
  BY <1>5, <1>6, <1>7

LEMMA CapitalStep == IInv /\ CheckCapital => IInv'
<1> SUFFICES ASSUME IInv, CheckCapital PROVE IInv'
  OBVIOUS
<1> DEFINE V(c) == CapitalMargin(held.env, c)
<1>1. PICK c \in Capitals : Answer(V(c), [held EXCEPT !.capital = c], "converge")
  BY DEF CheckCapital
<1> DEFINE h == [held EXCEPT !.capital = c]
<1>2. IsVerdict(V(c)) /\ step = "capital"
  BY Verdicts DEF CheckCapital, At
<1>3. /\ h.capital = c /\ DOMAIN h = DOMAIN held
      /\ h.gross = held.gross /\ h.costs = held.costs /\ h.at = held.at /\ h.policy = held.policy
      /\ h.env = held.env /\ h.ready = held.ready /\ h.liquidity = held.liquidity
  BY DEF IInv, TypeInv
<1>4. CapitalMargin(h.env, h.capital) = V(c)
  BY <1>3
<1> HIDE DEF V, h
<1>5. CASE V(c) = Pass
  <2>1. halt' = Pass /\ now' = now /\ step' = "converge" /\ held' = h
    BY <1>1, <1>2, <1>5, Answers DEF h
  <2> QED
    BY <1>2, <1>3, <1>4, <1>5, <2>1, Kinds
       DEF IInv, TypeInv, PassedInv, HaltInv, Steps, Timed, Priced, Sized, Listed, Booked, Funded
<1>6. CASE V(c) # Pass /\ V(c).kind = "no_eligible"
  <2>1. halt' = V(c) /\ now' = now /\ step' = "capital" /\ held' = h
    BY <1>1, <1>2, <1>6, Answers DEF h
  <2> QED
    BY <1>2, <1>3, <1>4, <1>6, <2>1
       DEF IInv, TypeInv, PassedInv, HaltInv, Steps, Timed, Priced, Sized, Listed, Booked, Funded
<1>7. CASE V(c) # Pass /\ V(c).kind # "no_eligible"
  <2>1. halt' = V(c) /\ now' = now /\ step' = "capital" /\ held' = held
    BY <1>1, <1>2, <1>7, Answers DEF h
  <2> QED
    BY <1>2, <1>7, <2>1
       DEF IInv, TypeInv, PassedInv, HaltInv, Steps, Timed, Priced, Sized, Listed, Booked, Funded
<1> QED
  BY <1>5, <1>6, <1>7

LEMMA ConvergeStep == IInv /\ Converge => IInv'
<1> SUFFICES ASSUME IInv, Converge PROVE IInv'
  OBVIOUS
<1> DEFINE v == Convergence(held.env, held.ready, held.liquidity, held.capital)
<1>1. /\ Answer(v, held, "admitted") /\ step = "converge"
      /\ IsVerdict(v) /\ v.kind # "no_eligible"
  <2>1. v.kind # "no_eligible"
    BY Kinds DEF Convergence
  <2> QED
    BY <2>1, Verdicts DEF Converge, At
<1> HIDE DEF v
<1>2. /\ halt' = v /\ now' = now /\ held' = held /\ halt'.kind # "no_eligible"
      /\ step' = IF v = Pass THEN "admitted" ELSE "converge"
  BY <1>1, Answers
<1> QED
  BY <1>1, <1>2, Kinds
     DEF IInv, TypeInv, PassedInv, HaltInv, Steps, Timed, Priced, Sized, Listed, Booked, Funded, v

LEMMA RetryStep == IInv /\ Retry => IInv'
<1> SUFFICES ASSUME IInv, Retry PROVE IInv'
  OBVIOUS
<1>1. halt.kind = "blocked" /\ halt' = Pass /\ now' = now /\ step # "converge"
  BY DEF Retry
<1>2. CASE step = "calculate"
  <2>1. step' = "preflight" /\ held' = [held EXCEPT !.costs = <<>>, !.at = 0]
    BY <1>2 DEF Retry
  <2>2. held'.gross = held.gross /\ DOMAIN held' = DOMAIN held /\ held.gross \in GrossEdges
    BY <1>2, <2>1 DEF IInv, TypeInv, Timed
  <2> QED
    BY <1>1, <1>2, <2>1, <2>2, Kinds
       DEF IInv, TypeInv, PassedInv, HaltInv, Steps, Timed, Priced, Sized, Listed, Booked, Funded
<1>3. CASE step # "calculate"
  <2>1. step' = step /\ held' = held
    BY <1>3 DEF Retry
  <2> QED
    BY <1>1, <1>3, <2>1, Kinds
       DEF IInv, TypeInv, PassedInv, HaltInv, Steps, Timed, Priced, Sized, Listed, Booked, Funded
<1> QED
  BY <1>2, <1>3

LEMMA TickStep == IInv /\ Tick => IInv'
<1> SUFFICES ASSUME IInv, Tick PROVE IInv'
  OBVIOUS
<1>1. now' \in Times /\ step' = step /\ held' = held /\ halt' = halt
  BY ChainAssumption DEF Tick, Times, IInv, TypeInv
<1> QED
  BY <1>1
     DEF IInv, TypeInv, PassedInv, HaltInv, Steps, Timed, Priced, Sized, Listed, Booked, Funded

LEMMA NextIInv == IInv /\ [Next]_vars => IInv'
<1> SUFFICES ASSUME IInv, [Next]_vars PROVE IInv'
  OBVIOUS
<1>1. CASE UNCHANGED vars
  <2>1. now' = now /\ step' = step /\ held' = held /\ halt' = halt
    BY <1>1 DEF vars
  <2> QED
    BY <2>1
       DEF IInv, TypeInv, PassedInv, HaltInv, Steps, Timed, Priced, Sized, Listed, Booked, Funded
<1>2. CASE Next
  BY <1>2, RecordStep, ObserveStep, PreflightStep, CalculateStep, GateStep, EnvelopeStep, ReadinessStep,
     LiquidityStep, CapitalStep, ConvergeStep, RetryStep, TickStep DEF Next
<1> QED
  BY <1>1, <1>2

(* Every reachable state has carriers of the kinds its step needs, carriers *)
(* that passed would pass again, and a final refusal is the verdict on what *)
(* is kept with it.                                                         *)
THEOREM Inductive == Spec => []IInv
BY InitIInv, NextIInv, PTL DEF Spec

----------------------------------------------------------------------------
LEMMA TimelyEdge ==
    ASSUME IInv, step \in {"calculate", "gate", "envelope"}
    PROVE  EdgeIsTimely
<1>1. /\ held.gross \in GrossEdges /\ held.at \in Times
      /\ InputPreflight(held.gross, held.costs, held.at) = Pass
  BY DEF IInv, TypeInv, PassedInv, Timed
<1>2. PICK n \in 1..MaxCosts : held.costs \in Inputs(n)
  BY DEF IInv, TypeInv, Timed
<1> QED
  BY <1>1, <1>2, PreflightSays, Kinds DEF EdgeIsTimely

LEMMA SoundIInv == IInv => StagesAreSound
<1> SUFFICES ASSUME IInv PROVE StagesAreSound
  OBVIOUS
<1>1. Judged /\ halt = Pass => EdgeIsTimely
  BY TimelyEdge DEF Judged
<1>2. ASSUME step = "envelope" PROVE EdgeIsProfitable
  <2>1. /\ held.gross \in GrossEdges /\ held.policy \in Policies
        /\ UnitVerdict(held.gross, held.costs) = Pass
        /\ Profitability(held.gross, held.costs, held.policy) = Pass
    BY <1>2 DEF IInv, TypeInv, PassedInv, Timed, Priced
  <2>2. PICK n \in 1..MaxCosts : held.costs \in Inputs(n)
    BY <1>2 DEF IInv, TypeInv, Timed
  <2>3. \A i \in DOMAIN held.costs : held.costs[i].cost.unit = held.gross.unit
    BY <2>1, <2>2, UnitsSay
  <2>4. /\ held.policy.unit = held.gross.unit /\ held.policy.value # Malformed
        /\ held.gross.value >= held.policy.value + TotalCost(held.costs)
    BY <2>1, <2>2, GateSays
  <2> QED
    BY <2>3, <2>4 DEF EdgeIsProfitable
<1>3. step \in {"liquidity", "capital", "converge", "admitted"} => MarketIsActive
  BY ReadinessSays DEF IInv, PassedInv, MarketIsActive
<1>4. ASSUME step \in {"capital", "converge", "admitted"} PROVE SizeFitsBook
  <2>1. /\ held.env \in Envelopes /\ held.liquidity \in Liquidities
        /\ LiquidityCapacity(held.env, held.liquidity) = Pass
    BY <1>4 DEF IInv, TypeInv, PassedInv, Sized, Booked
  <2>2. /\ Fits(held.env, held.liquidity) /\ held.env.size \in 1..held.liquidity.capacity
        /\ held.liquidity.unit = held.env.unit /\ held.liquidity.capacity_unit = held.env.unit
    BY <2>1, LiquiditySays, Kinds
  <2> QED
    BY <2>2 DEF SizeFitsBook
<1>5. ASSUME step \in {"converge", "admitted"} PROVE CapitalSuffices
  <2>1. /\ held.env \in Envelopes /\ held.capital \in Capitals
        /\ CapitalMargin(held.env, held.capital) = Pass
    BY <1>5 DEF IInv, TypeInv, PassedInv, Sized, Funded
  <2> QED
    BY <2>1, CapitalSays, Kinds DEF CapitalSuffices
<1> QED
  BY <1>1, <1>2, <1>3, <1>4, <1>5 DEF StagesAreSound

LEMMA EconomicIInv == IInv => RefusalIsEconomic
<1> SUFFICES ASSUME IInv, halt.kind = "no_eligible" PROVE RefusalIsEconomic
  BY DEF RefusalIsEconomic
<1>1. step \in {"preflight", "gate", "readiness", "liquidity", "capital"}
  BY DEF IInv, HaltInv
<1>2. CASE step = "preflight"
  <2>1. /\ held.gross \in GrossEdges /\ held.at \in Times
        /\ InputPreflight(held.gross, held.costs, held.at).kind = "no_eligible"
    BY <1>2 DEF IInv, TypeInv, HaltInv, Timed
  <2>2. PICK n \in 1..MaxCosts : held.costs \in Inputs(n)
    BY <1>2 DEF IInv, TypeInv, Timed
  <2> QED
    BY <1>2, <2>1, <2>2, PreflightSays DEF RefusalIsEconomic
<1>3. CASE step = "gate"
  <2>1. /\ held.gross \in GrossEdges /\ held.policy \in Policies
        /\ Profitability(held.gross, held.costs, held.policy).kind = "no_eligible"
    BY <1>3 DEF IInv, TypeInv, HaltInv, Timed, Priced
  <2>2. PICK n \in 1..MaxCosts : held.costs \in Inputs(n)
    BY <1>3 DEF IInv, TypeInv, Timed
  <2>3. EdgeIsTimely
    BY <1>3, TimelyEdge
  <2>4. held.policy.unit = held.gross.unit /\ held.gross.value < held.policy.value + TotalCost(held.costs)
    BY <2>1, <2>2, GateSays
  <2> QED
    BY <1>3, <2>3, <2>4 DEF RefusalIsEconomic
<1>4. CASE step = "readiness"
  BY <1>4, ReadinessSays DEF IInv, HaltInv, RefusalIsEconomic
<1>5. CASE step = "liquidity"
  <2>1. /\ held.env \in Envelopes /\ held.liquidity \in Liquidities
        /\ LiquidityCapacity(held.env, held.liquidity).kind = "no_eligible"
    BY <1>5 DEF IInv, TypeInv, HaltInv, Sized, Booked
  <2>2. /\ Fits(held.env, held.liquidity) /\ held.liquidity.capacity \in 1..(held.env.size - 1)
        /\ held.liquidity.unit = held.env.unit /\ held.liquidity.capacity_unit = held.env.unit
    BY <2>1, LiquiditySays
  <2> QED
    BY <1>5, <2>2 DEF RefusalIsEconomic
<1>6. CASE step = "capital"
  <2>1. /\ held.env \in Envelopes /\ held.capital \in Capitals
        /\ CapitalMargin(held.env, held.capital).kind = "no_eligible"
    BY <1>6 DEF IInv, TypeInv, HaltInv, Sized, Funded
  <2>2. /\ Fits(held.env, held.capital) /\ held.capital.scope
        /\ held.capital.required_unit = held.capital.free_unit
        /\ held.capital.free \in 0..(held.capital.required - 1)
    BY <2>1, CapitalSays
  <2> QED
    BY <1>6, <2>2 DEF RefusalIsEconomic
<1> QED
  BY <1>1, <1>2, <1>3, <1>4, <1>5, <1>6

LEMMA AgreeIInv == IInv => LaterStagesAgree
<1> SUFFICES ASSUME IInv PROVE LaterStagesAgree
  OBVIOUS
<1>1. ASSUME step = "calculate"
      PROVE  halt \in {Pass} \cup
                {Blocked(why) : why \in {"unit vocabulary", "mixed proportional", "no notional"}}
  <2>1. /\ held.gross \in GrossEdges /\ held.at \in Times
        /\ InputPreflight(held.gross, held.costs, held.at) = Pass
        /\ halt \in {Pass, UnitVerdict(held.gross, held.costs)}
    BY <1>1 DEF IInv, TypeInv, PassedInv, HaltInv, Timed
  <2>2. PICK n \in 1..MaxCosts : held.costs \in Inputs(n)
    BY <1>1 DEF IInv, TypeInv, Timed
  <2>3. \A i \in DOMAIN held.costs : Netable(held.gross, held.costs[i])
    BY <2>1, <2>2, PreflightSays, Kinds
  <2>4. UnitVerdict(held.gross, held.costs) \in {Pass} \cup
           {Blocked(why) : why \in {"unit vocabulary", "mixed proportional", "no notional"}}
    BY <2>2, <2>3, UnitsSay
  <2> QED
    BY <2>1, <2>4
<1>2. ASSUME step = "converge", halt # Pass
      PROVE  /\ halt = Blocked("malformed")
             /\ \/ {held.env.label, held.env.unit, held.capital.required_unit} \cap Padded # {}
                \/ ~(held.env.ascii /\ held.liquidity.ascii /\ held.capital.ascii)
  <2>1. /\ held.env \in Envelopes /\ held.ready \in Readiness
        /\ held.liquidity \in Liquidities /\ held.capital \in Capitals
    BY <1>2 DEF IInv, TypeInv, Sized, Listed, Booked, Funded
  <2>2. /\ VenueReadiness(held.env, held.ready) = Pass
        /\ LiquidityCapacity(held.env, held.liquidity) = Pass
        /\ CapitalMargin(held.env, held.capital) = Pass
        /\ halt = Convergence(held.env, held.ready, held.liquidity, held.capital)
    BY <1>2 DEF IInv, PassedInv, HaltInv
  <2> QED
    BY <1>2, <2>1, <2>2, ConvergenceSays
<1> QED
  BY <1>1, <1>2 DEF LaterStagesAgree

(* What the boundaries let through is timely, in one unit, profitable, for *)
(* an active market and covered by book and capital: the checks of         *)
(* net_edge_input_preflight, net_edge_profitability_preflight and the      *)
(* three gates, whatever evidence the caller brings and however late.      *)
THEOREM ChainIsSound == Spec => []StagesAreSound
BY Inductive, SoundIInv, PTL

(* A NO_ELIGIBLE answer is about complete and consistent evidence.         *)
THEOREM RefusalsAreEconomic == Spec => []RefusalIsEconomic
BY Inductive, EconomicIInv, PTL

(* The calculator and the capacity constraint never contradict the gates   *)
(* before them, but for units without a vocabulary, padded labels and      *)
(* units, and figures in other digits.                                     *)
THEOREM StagesAgree == Spec => []LaterStagesAgree
BY Inductive, AgreeIInv, PTL
=============================================================================
