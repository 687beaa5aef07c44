-------------------------- MODULE MCWorkspaceSync --------------------------
(* A small instance of WorkspaceSync for TLC.                              *)
EXTENDS WorkspaceSync, TLC

CONSTANTS c1, r1, r2

OneChange == {c1}
TwoReaders == {r1, r2}
=============================================================================
