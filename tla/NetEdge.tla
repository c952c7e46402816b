------------------------------- MODULE NetEdge -------------------------------
(***************************************************************************)
(* The pure part of phase5: which units can be netted against each other   *)
(* (net_edge_calculator_boundary.py) and the net edge itself.  A decimal   *)
(* string is an integer number of its last place; the context of 60 digits *)
(* that the code computes in is never exhausted by such numbers.           *)
(***************************************************************************)
EXTENDS Integers, Sequences

CONSTANTS Units,        \* unit labels in use
          Proportional, \* labels of _PROPORTIONAL_UNITS
          Recognized    \* labels that _RECOGNIZED_UNIT_TOKEN matches

ASSUME UnitAssumption == Proportional \subseteq Recognized /\ Recognized \subseteq Units

\* What a boundary answers: its argument, a packet that asks for evidence, a
\* packet that ends the evaluation, or the economic refusal.
Pass            == [kind |-> "pass", why |-> ""]
Blocked(why)    == [kind |-> "blocked", why |-> why]
Violation(why)  == [kind |-> "violation", why |-> why]
NoEligible(why) == [kind |-> "no_eligible", why |-> why]

(* _unit_compatibility_block(): u is the unit of the gross edge, us the    *)
(* set of the units of the costs.                                          *)
UnitBlock(u, us) ==
    IF us = {u} THEN Pass
    ELSE IF ~(us \cup {u} \subseteq Recognized) THEN Blocked("unit vocabulary")
    ELSE IF u \in Proportional /\ us \subseteq Proportional THEN Blocked("mixed proportional")
    ELSE IF u \notin Proportional /\ us \cap Proportional # {} THEN Blocked("no notional")
    ELSE IF u \in Proportional THEN Blocked("no conversion basis")
    ELSE Blocked("incompatible absolute")

TotalCost(costs) ==
    LET sum[n \in 0..Len(costs)] == IF n = 0 THEN 0 ELSE sum[n - 1] + costs[n].cost.value
    IN sum[Len(costs)]

(* calculate_net_edge(): the costs of a non-empty tuple, in tuple order,   *)
(* taken from the gross edge, when they are all in its unit.               *)
UnitVerdict(gross, costs) == UnitBlock(gross.unit, {costs[n].cost.unit : n \in DOMAIN costs})
NetEdgeValue(gross, costs) == gross.value - TotalCost(costs)
=============================================================================
