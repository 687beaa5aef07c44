----------------------------- MODULE MCReplicas -----------------------------
(* Small instances of Replicas for TLC.                                    *)
EXTENDS Replicas, TLC

CONSTANTS c1, c2, c3, u1, u2

TwoClients == {c1, c2}
ThreeClients == {c1, c2, c3}
OneUpdate == {u1}
TwoUpdates == {u1, u2}
ReplicaSymmetry == Permutations(Clients) \cup Permutations(Updates)
=============================================================================
