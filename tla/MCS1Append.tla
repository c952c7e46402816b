----------------------------- MODULE MCS1Append -----------------------------
(* Two commands of one evidence, one of another that expects a row; one    *)
(* reviewable decision serves them all, the other is blocked.              *)
EXTENDS S1Append
Command(id, window, evidence, expects) ==
    [id |-> id, actor |-> "v", window |-> window, evidence |-> evidence, expects |-> expects,
     decision |-> 1]
MCCommands == {Command(1, "w", "e", 0), Command(2, "w", "f", 0), Command(3, "u", "e", 1)}
MCSnapshots == {[digest |-> 1, complete |-> TRUE], [digest |-> 2, complete |-> FALSE]}
=============================================================================
