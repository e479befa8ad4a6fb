------------------------------- MODULE MCWord --------------------------------
(* Small instances of Word. *)
EXTENDS Word

\* A word of exactly 32 characters, and one of more, which is cut to "cut".
Lengths == [w \in Words |-> IF w = "long" THEN 40 ELSE 32]
Prefixes == [w \in Words |-> "cut"]
TwoBatches == {[values |-> <<1>>, extra |-> 0], [values |-> <<2, 1>>, extra |-> 1]}
=============================================================================
