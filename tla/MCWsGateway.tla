---------------------------- MODULE MCWsGateway ----------------------------
(* Small instances of WsGateway for TLC.                                   *)
EXTENDS WsGateway, TLC

CONSTANTS n1, n2, s1, s2, u1

OneNode == {n1}
TwoNodes == {n1, n2}
OneSocket == {s1}
TwoSockets == {s1, s2}
OneUpdate == {u1}

SocketSymmetry == Permutations(Sockets)
=============================================================================
