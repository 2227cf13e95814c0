----------------------------- MODULE MCTopList -----------------------------
(* Instances of module TopList for TLC. *)
EXTENDS TopList

SizeFiveTwo == [w \in Worker |-> IF w = 0 THEN 5 ELSE 2]

NonNegative == 0 .. 2
Leftover    == {0, 3}
=============================================================================
