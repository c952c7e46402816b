---------------------------- MODULE OrderIntent ----------------------------
(***************************************************************************)
(* The vocabulary of execution/order_intent.py: the states of an order     *)
(* intent, the monotonic guard of transition() and the pure decision       *)
(* classify_fak_fill() that turns the exchange's reply to a FAK BUY into   *)
(* what execute() does next.  It has no state: ClobExecutor extends it.    *)
(***************************************************************************)
EXTENDS Integers

CONSTANT Dust   \* FILL_DUST_TOLERANCE_USD, in the smallest unit of USD

ASSUME DustAssumption == Dust \in Nat

Absent == "ABSENT"     \* no row in order_intents

UnresolvedStates == {"SUBMITTED_UNKNOWN", "RECOVERY_REQUIRED"}
OpenStates       == {"FILLED", "PARTIAL_FILLED"}
TerminalStates   == OpenStates \cup {"CANCELLED", "REJECTED"}
States           == {"INTENT_CREATED", "ACCEPTED"} \cup UnresolvedStates
                       \cup TerminalStates

\* Mutant: the guard that keeps a terminal intent terminal is dropped.
UnguardedTransition(old, new) == new

(* The status column after transition(): a row that reached a terminal     *)
(* state keeps it, and the call returns without an error.                  *)
Transition(old, new) == IF old \in TerminalStates THEN old ELSE new

---------------------------------------------------------------------------
(* An amount in a reply is a number, None, or a string that Decimal()      *)
(* cannot parse (the exchange sends "" for an order it has not matched).   *)
Missing    == -1
Unparsable == -2

Raises(r)   == Unparsable \in {r.taking, r.making}
Resting(r)  == ~Raises(r) /\ r.status = "resting"
NoShares(r) == ~Raises(r) /\ r.status # "resting" /\ r.taking <= 0
Costless(r) == ~Raises(r) /\ r.status # "resting" /\ r.taking > 0 /\ r.making <= 0
Costed(r)   == ~Raises(r) /\ r.status # "resting" /\ r.taking > 0 /\ r.making > 0

\* Mutant: a reply without shares is a proof of no fill even if it names an order.
ClassifyIgnoringOrderId(r, requested) ==
    CASE Raises(r)                 -> "RAISES"
      [] Resting(r) \/ Costless(r) -> "RECOVERY"
      [] NoShares(r)               -> "TERMINAL_ZERO"
      [] Costed(r) /\ r.making + Dust >= requested -> "OPEN_FILLED"
      [] Costed(r) /\ r.making + Dust <  requested -> "OPEN_PARTIAL"

(* The decision kind for a reply r to an order of `requested` dollars.     *)
ClassifyFakFill(r, requested) ==
    CASE Raises(r)                   -> "RAISES"
      [] Resting(r) \/ Costless(r)   -> "RECOVERY"
      [] NoShares(r) /\ r.orderId    -> "BLOCK_UNKNOWN"
      [] NoShares(r) /\ ~r.orderId   -> "TERMINAL_ZERO"
      [] Costed(r) /\ r.making + Dust >= requested -> "OPEN_FILLED"
      [] Costed(r) /\ r.making + Dust <  requested -> "OPEN_PARTIAL"
===========================================================================
