---------------------------- MODULE EntryLedger ----------------------------
(***************************************************************************)
(* What the entry path promises about money, without saying how.  A BUY    *)
(* is a ledger line: it is reserved, then exposed to the exchange, and an  *)
(* exposed line ends in one of two ways: booked, with exactly what was     *)
(* filled, or void, when nothing was and nothing will be.  Fills happen    *)
(* only on exposed lines, and a token has at most one exposed line.        *)
(***************************************************************************)
EXTENDS Integers

CONSTANTS Lines, Tokens, NoToken, Requested

VARIABLES line,     \* [Lines -> "absent" .. "void"]
          token,    \* the token a line buys
          filled,   \* what the exchange has filled
          booked    \* what the ledger has booked

vars == <<line, token, filled, booked>>

Init == /\ line   = [i \in Lines |-> "absent"]
        /\ token  = [i \in Lines |-> NoToken]
        /\ filled = [i \in Lines |-> 0]
        /\ booked = [i \in Lines |-> 0]

Reserve(i, t) == /\ line[i] = "absent"
                 /\ line'  = [line EXCEPT ![i] = "reserved"]
                 /\ token' = [token EXCEPT ![i] = t]
                 /\ UNCHANGED <<filled, booked>>

Expose(i) == /\ line[i] = "reserved"
             /\ \A j \in Lines \ {i} : token[j] = token[i] => line[j] # "exposed"
             /\ line' = [line EXCEPT ![i] = "exposed"]
             /\ UNCHANGED <<token, filled, booked>>

Fill(i, q) == /\ line[i] = "exposed"
              /\ q > filled[i]
              /\ filled' = [filled EXCEPT ![i] = q]
              /\ UNCHANGED <<line, token, booked>>

Book(i) == /\ line[i] = "exposed"
           /\ filled[i] > 0
           /\ line'   = [line EXCEPT ![i] = "booked"]
           /\ booked' = [booked EXCEPT ![i] = filled[i]]
           /\ UNCHANGED <<token, filled>>

Void(i) == /\ line[i] = "exposed"
           /\ filled[i] = 0
           /\ line' = [line EXCEPT ![i] = "void"]
           /\ UNCHANGED <<token, filled, booked>>

Next == \E i \in Lines : \/ \E t \in Tokens : Reserve(i, t)
                         \/ Expose(i)
                         \/ \E q \in 1..Requested : Fill(i, q)
                         \/ Book(i)
                         \/ Void(i)

Spec == Init /\ [][Next]_vars
===========================================================================
