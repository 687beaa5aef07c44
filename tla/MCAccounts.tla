---------------------------- MODULE MCAccounts -----------------------------
(* A small instance of Accounts for TLC.                                   *)
EXTENDS Accounts, TLC

AccountSymmetry == Permutations(Calls) \cup Permutations(Users) \cup Permutations(Tabs)
=============================================================================
