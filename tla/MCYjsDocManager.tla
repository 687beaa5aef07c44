-------------------------- MODULE MCYjsDocManager --------------------------
(* Small instances of YjsDocManager for TLC.                               *)
EXTENDS YjsDocManager, TLC

CONSTANTS n1, n2, s1, s2, u1, u2

OneNode == {n1}
OneSocket == {s1}
TwoSockets == {s1, s2}
OneUpdate == {u1}
TwoUpdates == {u1, u2}

SocketUpdateSymmetry == Permutations(Sockets) \cup Permutations(Updates)
=============================================================================
