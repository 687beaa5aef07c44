-------------------------- MODULE MCGraphRequests --------------------------
(* Small instances of GraphRequests for TLC.                               *)
EXTENDS GraphRequests, TLC

CONSTANTS p, a, b, c, e1, e2, e3, r1, r2

ThreeNodes == {a, b, c}
FourNodes == {p, a, b, c}
OneProject == {p}
NoProject == {}
ThreeEdges == {e1, e2, e3}
OneRequest == {r1}
TwoRequests == {r1, r2}

RequestSymmetry == Permutations(Nodes \ Projects) \cup Permutations(EdgeIds)
=============================================================================
