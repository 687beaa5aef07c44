----------------------------- MODULE MCNodeRows -----------------------------
(* Four nodes, a above b and c, d below both, and two requests at once.    *)
EXTENDS NodeRows, TLC
CONSTANTS a, b, c, d

Diamond == {<<a, b>>, <<a, c>>, <<b, d>>, <<c, d>>}
RequestSymmetry == Permutations(Requests)
=============================================================================
