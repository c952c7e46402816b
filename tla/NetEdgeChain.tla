----------------------------- MODULE NetEdgeChain -----------------------------
(***************************************************************************)
(* The evidence boundaries of phase5 in the order their contracts give     *)
(* them: provenance preflight, gross and cost observations, calculation    *)
(* preflight, net edge, profitability gate, envelope, venue readiness,     *)
(* liquidity, capital, capacity constraint.  The caller is the            *)
(* environment: it brings whatever carrier the factories let it build, at  *)
(* any time, and passes on what a boundary returned.  Every boundary       *)
(* answers with its argument or with a halt carrier, which all the others  *)
(* refuse (reject_misrouted_halt_carrier) and route_halt_carrier hands on  *)
(* as it is.  A packet with may_retry_after_evidence may be answered with  *)
(* new evidence for the same step.                                         *)
(*                                                                         *)
(* A string that is no canonical number is Malformed; the identity of a    *)
(* market and the side are one label.  A label or a unit may be padded     *)
(* with blanks and a figure may be written in other digits than ASCII:     *)
(* the factories and the gates take both, the last boundary neither.       *)
(***************************************************************************)
EXTENDS NetEdge

CONSTANTS MaxTime,     \* bound: the clock, in steps of the caller
          Thresholds,  \* staleness thresholds and tolerances, in such steps
          Values,      \* gross edges, costs and profitability thresholds
          Labels,      \* venue, instrument, assets and side, as one label
          Padded,      \* labels and units that strip() would change
          MaxSize,     \* bound: sizes, capacities and capital
          SizeUnits,   \* units of sizes and of capital
          MaxCosts     \* bound: cost contexts of one calculation

Times == 0..MaxTime
Malformed == -1

ASSUME ChainAssumption ==
    /\ MaxTime \in Nat /\ MaxSize \in Nat /\ MaxCosts \in Nat \ {0}
    /\ Thresholds \subseteq Nat /\ Values \subseteq Int
    /\ Padded \subseteq Labels \cup SizeUnits

VARIABLES
    now,   \* the caller's clock
    step,  \* the boundary that is called next
    held,  \* what the boundaries before it returned
    halt   \* Pass, or the last halt carrier

vars == <<now, step, held, halt>>

None == [none |-> TRUE]
Empty == [gross |-> None, costs |-> <<>>, at |-> 0, policy |-> None, env |-> None,
          ready |-> None, liquidity |-> None, capital |-> None]

Init == now = 0 /\ step = "record" /\ held = Empty /\ halt = Pass

(***************************************************************************)
(* What the factories can build.                                           *)
(***************************************************************************)
\* make_gross_edge_source_result() and make_gross_edge_observation(): the
\* same checks twice, so the adapter between them refuses nothing.  The size
\* of the observation and its venues are read by no later boundary.
GrossSources == [at : Times, staleness : Thresholds, unit : Units, value : Values]
GrossEdges == GrossSources

\* make_observable_cost_source_result() and make_observable_cost_observation(),
\* again one set: a cost of zero has named its evidence.  The validity context
\* around the observation may have its interval upside down.
CostSources == [unit : Units, value : Values]
CostObservations == CostSources
Costs == [from : Times, until : Times, cost : CostObservations]
Inputs(n) == [1..n -> Costs]

Policies == [value : Values \cup {Malformed}, unit : Units]

\* The envelope repeats nothing of the observation it is about: label, size,
\* unit and time are the caller's.  ascii, here and below: the figures that
\* the convergence reads are in ASCII digits; \d of the factories and the
\* gates takes any digit, and Decimal() and int() read it.
Envelopes == [label : Labels, size : 0..MaxSize, unit : SizeUnits, at : Times, ascii : BOOLEAN]

Readiness == [label : Labels, status : {"ACTIVE", "SUSPENDED"}]
Liquidities ==
    [label : Labels, size : 0..MaxSize, unit : SizeUnits, capacity : 0..MaxSize, capacity_unit : SizeUnits,
     at : Times, tolerance : Thresholds \cup {Malformed}, ascii : BOOLEAN]
Capitals ==
    [label : Labels, size : 0..MaxSize, unit : SizeUnits, required : 0..MaxSize, required_unit : SizeUnits,
     free : {Malformed} \cup 0..MaxSize, free_unit : SizeUnits, at : Times, free_at : Times,
     tolerance : Thresholds \cup {Malformed}, scope : BOOLEAN, ascii : BOOLEAN]

(***************************************************************************)
(* Input provenance: evaluate_input_provenance_preflight() over what a     *)
(* record lacks, and the packet its refusal becomes.                       *)
(***************************************************************************)
Records ==
    [mapping : BOOLEAN, scan : {"clean", "claim", "cycle", "depth"}, container_ok : BOOLEAN,
     lacks : SUBSET {"category", "identity", "contract", "source", "provenance"},
     contract_known : BOOLEAN, reason_blocked : BOOLEAN]

Provenance(r) ==
    IF ~r.mapping THEN Violation("not a mapping")
    ELSE IF r.scan # "clean" THEN Violation(r.scan)
    ELSE IF ~r.container_ok THEN Violation("container")
    ELSE IF "category" \in r.lacks THEN Blocked("category")
    ELSE IF r.lacks \cap {"identity", "contract"} # {} THEN Blocked("field")
    ELSE IF ~r.contract_known THEN Violation("contract")
    ELSE IF r.lacks # {} THEN Blocked("field")
    ELSE IF r.reason_blocked THEN Blocked("explicit reason")
    ELSE Pass

\* make_blocked_packet() raises for a result that echoes no source: no
\* packet exists then, only an exception in the caller.
Echoes(r) == r.mapping /\ r.container_ok /\ r.lacks \cap {"contract", "source"} = {}
BlockedPacket(r) == IF Echoes(r) THEN Provenance(r) ELSE [kind |-> "raised", why |-> Provenance(r).why]

(***************************************************************************)
(* The verdicts of the gates, first refusal first.                         *)
(***************************************************************************)
Covers(c, t) == c.from <= t /\ t <= c.until
Fresh(g, t) == t <= g.at + g.staleness
Spans(costs, t) == \A n \in DOMAIN costs : Covers(costs[n], t)
Netable(g, c) == c.cost.unit = g.unit \/ c.cost.unit \in Proportional

\* Mutants: the economic answer first; costs valid only when the gross edge
\* was observed.
PreflightStaleFirst(g, costs, t) ==
    IF t < g.at THEN Violation("causality")
    ELSE IF ~Fresh(g, t) THEN NoEligible("stale")
    ELSE IF ~(Spans(costs, g.at) /\ Spans(costs, t)) THEN Blocked("cost")
    ELSE IF \E n \in DOMAIN costs : ~Netable(g, costs[n]) THEN Blocked("unit")
    ELSE Pass
PreflightAtGrossTime(g, costs, t) ==
    IF t < g.at THEN Violation("causality")
    ELSE IF ~Spans(costs, g.at) THEN Blocked("cost")
    ELSE IF \E n \in DOMAIN costs : ~Netable(g, costs[n]) THEN Blocked("unit")
    ELSE IF ~Fresh(g, t) THEN NoEligible("stale")
    ELSE Pass
(* net_edge_input_preflight() at the caller's evaluation_epoch_ms.         *)
InputPreflight(g, costs, t) ==
    IF t < g.at THEN Violation("causality")
    ELSE IF \E n \in DOMAIN costs : costs[n].from > costs[n].until THEN Violation("interval")
    ELSE IF ~Spans(costs, g.at) THEN Blocked("cost at gross time")
    ELSE IF ~Spans(costs, t) THEN Blocked("cost at evaluation")
    ELSE IF \E n \in DOMAIN costs : ~Netable(g, costs[n]) THEN Blocked("unit")
    ELSE IF ~Fresh(g, t) THEN NoEligible("stale")
    ELSE Pass

(* net_edge_profitability_preflight()                                      *)
Profitability(g, costs, p) ==
    IF p.value = Malformed THEN Blocked("policy")
    ELSE IF g.unit # p.unit THEN Blocked("unit")
    ELSE IF NetEdgeValue(g, costs) < p.value THEN NoEligible("below threshold")
    ELSE Pass

(* venue_instrument_readiness_preflight()                                  *)
VenueReadiness(e, r) ==
    IF e.label # r.label THEN Blocked("identity")
    ELSE IF r.status # "ACTIVE" THEN NoEligible("not active")
    ELSE Pass

Within(s, t, tolerance) == s - t <= tolerance /\ t - s <= tolerance

(* liquidity_capacity_preflight()                                          *)
LiquidityCapacity(e, l) ==
    IF l.tolerance = Malformed \/ 0 \in {l.size, l.capacity, e.size} THEN Blocked("malformed")
    ELSE IF e.label # l.label \/ e.size # l.size THEN Blocked("identity")
    ELSE IF e.unit # l.unit \/ l.unit # l.capacity_unit THEN Blocked("unit")
    ELSE IF ~Within(e.at, l.at, l.tolerance) THEN Blocked("stale")
    ELSE IF e.size > l.capacity THEN NoEligible("capacity")
    ELSE Pass

\* Mutant: required and free capital need not be in one unit.
CapitalMarginAnyUnit(e, c) ==
    IF Malformed \in {c.tolerance, c.free} \/ 0 \in {c.size, c.required} THEN Blocked("malformed")
    ELSE IF e.label # c.label \/ e.size # c.size \/ ~c.scope THEN Blocked("identity")
    ELSE IF e.unit # c.unit THEN Blocked("unit")
    ELSE IF ~(Within(e.at, c.at, c.tolerance) /\ Within(e.at, c.free_at, c.tolerance)) THEN Blocked("stale")
    ELSE IF c.free = 0 \/ c.required > c.free THEN NoEligible("capital")
    ELSE Pass
(* capital_margin_preflight(); scope: the expected_capital_scope_id.       *)
CapitalMargin(e, c) ==
    IF Malformed \in {c.tolerance, c.free} \/ 0 \in {c.size, c.required} THEN Blocked("malformed")
    ELSE IF e.label # c.label \/ e.size # c.size \/ ~c.scope THEN Blocked("identity")
    ELSE IF e.unit # c.unit \/ c.required_unit # c.free_unit THEN Blocked("unit")
    ELSE IF ~(Within(e.at, c.at, c.tolerance) /\ Within(e.at, c.free_at, c.tolerance)) THEN Blocked("stale")
    ELSE IF c.free = 0 \/ c.required > c.free THEN NoEligible("capital")
    ELSE Pass

(* capacity_constraint_preflight(): the carriers agree; what they say of   *)
(* readiness, capacity and capital is not looked at again.                 *)
LabelsOf(e, r, l, c) ==
    {e.label, r.label, l.label, c.label, e.unit, l.unit, c.unit,
     l.capacity_unit, c.required_unit, c.free_unit}
Convergence(e, r, l, c) ==
    IF \/ LabelsOf(e, r, l, c) \cap Padded # {}
       \/ ~(e.ascii /\ l.ascii /\ c.ascii) \/ Malformed \in {l.tolerance, c.tolerance}
      THEN Blocked("malformed")
    ELSE IF {r.label, l.label, c.label} # {e.label} \/ {l.size, c.size} # {e.size} THEN Blocked("identity")
    ELSE IF {l.unit, c.unit, l.capacity_unit} # {e.unit} \/ c.required_unit # c.free_unit THEN Blocked("unit")
    ELSE IF ~(/\ Within(e.at, l.at, l.tolerance)
              /\ Within(e.at, c.at, c.tolerance)
              /\ Within(e.at, c.free_at, c.tolerance)) THEN Blocked("stale")
    ELSE Pass

(***************************************************************************)
(* The caller.                                                             *)
(***************************************************************************)
\* A boundary answers v for carriers that would leave h: a pass hands h on,
\* the economic refusal is kept with what it was based on.
Answer(v, h, next) ==
    /\ halt' = v
    /\ step' = IF halt' = Pass THEN next ELSE step
    /\ held' = IF halt'.kind \in {"pass", "no_eligible"} THEN h ELSE held
    /\ UNCHANGED now

At(s) == step = s /\ halt = Pass

CheckRecord ==
    /\ At("record")
    /\ \E r \in Records :
        Answer(IF Provenance(r) = Pass THEN Pass ELSE BlockedPacket(r), held, "observe")

Observe ==
    /\ At("observe")
    /\ \E g \in GrossEdges :
        Answer(Pass, [held EXCEPT !.gross = g], "preflight")

Preflight ==
    /\ At("preflight")
    /\ \E n \in 1..MaxCosts : \E costs \in Inputs(n) :
        Answer(InputPreflight(held.gross, costs, now), [held EXCEPT !.costs = costs, !.at = now], "calculate")

Calculate ==
    /\ At("calculate")
    /\ Answer(UnitVerdict(held.gross, held.costs), held, "gate")

Gate ==
    /\ At("gate")
    /\ \E p \in Policies :
        Answer(Profitability(held.gross, held.costs, p), [held EXCEPT !.policy = p], "envelope")

\* The observation is referred to by the calculation result only from here
\* on, and by no boundary.
MakeEnvelope ==
    /\ At("envelope")
    /\ \E e \in Envelopes :
        Answer(Pass, [Empty EXCEPT !.env = e], "readiness")

CheckReadiness ==
    /\ At("readiness")
    /\ \E r \in Readiness :
        Answer(VenueReadiness(held.env, r), [held EXCEPT !.ready = r], "liquidity")

CheckLiquidity ==
    /\ At("liquidity")
    /\ \E l \in Liquidities :
        Answer(LiquidityCapacity(held.env, l), [held EXCEPT !.liquidity = l], "capital")

CheckCapital ==
    /\ At("capital")
    /\ \E c \in Capitals :
        Answer(CapitalMargin(held.env, c), [held EXCEPT !.capital = c], "converge")

Converge ==
    /\ At("converge")
    /\ Answer(Convergence(held.env, held.ready, held.liquidity, held.capital), held, "admitted")

\* may_retry_after_evidence: the same step again with other evidence.  The
\* calculator asks for another input, the convergence for another envelope,
\* which is another evaluation.
Retry ==
    /\ halt.kind = "blocked" /\ step # "converge"
    /\ halt' = Pass
    /\ step' = IF step = "calculate" THEN "preflight" ELSE step
    /\ held' = IF step = "calculate" THEN [held EXCEPT !.costs = <<>>, !.at = 0] ELSE held
    /\ UNCHANGED now

Tick ==
    /\ now < MaxTime /\ halt = Pass
    /\ now' = now + 1 /\ UNCHANGED <<step, held, halt>>

Next ==
    \/ CheckRecord \/ Observe \/ Preflight \/ Calculate \/ Gate
    \/ MakeEnvelope \/ CheckReadiness \/ CheckLiquidity \/ CheckCapital \/ Converge
    \/ Retry \/ Tick

Spec == Init /\ [][Next]_vars

(***************************************************************************)
(* What the boundaries promise together.                                   *)
(***************************************************************************)
Judged == step \in {"calculate", "gate", "envelope"}
Fits(e, x) == x.label = e.label

\* A gross edge counted at one instant against costs that were all valid then
\* and when it was observed.
EdgeIsTimely ==
    /\ held.gross.at <= held.at /\ Fresh(held.gross, held.at)
    /\ Spans(held.costs, held.gross.at) /\ Spans(held.costs, held.at)

\* One unit throughout, and a net edge of at least the policy's threshold.
EdgeIsProfitable ==
    /\ \A n \in DOMAIN held.costs : held.costs[n].cost.unit = held.gross.unit
    /\ held.policy.unit = held.gross.unit
    /\ held.policy.value # Malformed
    /\ held.gross.value >= held.policy.value + TotalCost(held.costs)

MarketIsActive == Fits(held.env, held.ready) /\ held.ready.status = "ACTIVE"
SizeFitsBook ==
    /\ Fits(held.env, held.liquidity)
    /\ held.env.size \in 1..held.liquidity.capacity
    /\ {held.liquidity.unit, held.liquidity.capacity_unit} = {held.env.unit}
CapitalSuffices ==
    /\ Fits(held.env, held.capital) /\ held.capital.scope
    /\ held.capital.size = held.env.size /\ held.capital.unit = held.env.unit
    /\ held.capital.required \in 1..held.capital.free
    /\ held.capital.required_unit = held.capital.free_unit

(* Whatever the boundaries have let through holds of the carriers they     *)
(* were given, however late, stale or mislabelled the caller's evidence    *)
(* was: timely costs and edge, one unit, a net edge above the threshold,   *)
(* an active market, a size the book and the capital cover.                *)
StagesAreSound ==
    /\ Judged /\ halt = Pass => EdgeIsTimely
    /\ step = "envelope" => EdgeIsProfitable
    /\ step \in {"liquidity", "capital", "converge", "admitted"} => MarketIsActive
    /\ step \in {"capital", "converge", "admitted"} => SizeFitsBook
    /\ step \in {"converge", "admitted"} => CapitalSuffices

(* NO_ELIGIBLE ends an evaluation for good, so it is said only of evidence *)
(* that is complete and consistent: never because the costs did not cover  *)
(* the instants, the labels or units differed or a figure was unreadable.  *)
RefusalIsEconomic ==
    halt.kind = "no_eligible" =>
        \/ /\ step = "preflight" /\ held.gross.at <= held.at /\ ~Fresh(held.gross, held.at)
           /\ Spans(held.costs, held.gross.at) /\ Spans(held.costs, held.at)
        \/ /\ step = "gate" /\ EdgeIsTimely /\ held.policy.unit = held.gross.unit
           /\ held.gross.value < held.policy.value + TotalCost(held.costs)
        \/ step = "readiness" /\ Fits(held.env, held.ready) /\ held.ready.status # "ACTIVE"
        \/ /\ step = "liquidity" /\ Fits(held.env, held.liquidity)
           /\ {held.liquidity.unit, held.liquidity.capacity_unit} = {held.env.unit}
           /\ held.liquidity.capacity \in 1..(held.env.size - 1)
        \/ /\ step = "capital" /\ Fits(held.env, held.capital) /\ held.capital.scope
           /\ held.capital.required_unit = held.capital.free_unit
           /\ held.capital.free \in 0..(held.capital.required - 1)

(* A check that is made twice in two files says the same both times: what  *)
(* the calculation preflight passed, the calculator can refuse only for a  *)
(* unit the preflight leaves to it, and carriers that passed the gates     *)
(* converge, unless a label or a unit is padded with blanks or a figure is *)
(* in other digits, which only the last boundary looks at.                 *)
LaterStagesAgree ==
    /\ step = "calculate" => halt \in {Pass} \cup
          {Blocked(why) : why \in {"unit vocabulary", "mixed proportional", "no notional"}}
    /\ step = "converge" /\ halt # Pass =>
          /\ halt = Blocked("malformed")
          /\ \/ {held.env.label, held.env.unit, held.capital.required_unit} \cap Padded # {}
             \/ ~(held.env.ascii /\ held.liquidity.ascii /\ held.capital.ascii)

(* The adapter of the provenance preflight (preflight_to_blocked_packet_   *)
(* adapter.py:4-17) converts every refusal into a packet.  It does not: a  *)
(* refusal without its source echoes None, and the packet raises.          *)
RefusalsBecomePackets == halt.kind # "raised"
=============================================================================
