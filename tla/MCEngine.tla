------------------------------ MODULE MCEngine ------------------------------
(* Two rules with different timers, about one or two entities of a node.    *)
EXTENDS Engine

CONSTANTS r1, r2, a, x, y

MC_One == {<<a, x>>}
MC_Two == {<<a, x>>, <<a, y>>}
MC_For == [r \in Rule |-> IF r = r1 THEN 2 ELSE 0]
MC_Grace == [r \in Rule |-> IF r = r1 THEN 1 ELSE 2]
=============================================================================
