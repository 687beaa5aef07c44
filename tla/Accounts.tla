------------------------------ MODULE Accounts ------------------------------
(***************************************************************************)
(* What lies before the editor: Sessions, EmailCodes and Memberships.      *)
(* They share no key and no table, so that the steps of one change nothing *)
(* another can see: each behaviour follows one of them, served.            *)
(***************************************************************************)
EXTENDS Sessions, EmailCodes, Memberships

VARIABLE served  \* chosen at the start

avars == <<sessions, codes, members, served>>

AccountsTypeOK == SessionsTypeOK /\ CodesTypeOK /\ MembersTypeOK

AccountsInit ==
    /\ SessionsInit /\ CodesInit /\ MembersInit
    /\ served \in {"sessions", "codes", "members"}

AccountsNext ==
    /\ \/ served = "sessions" /\ SessionsNext /\ UNCHANGED <<codes, members>>
       \/ served = "codes" /\ CodesNext /\ UNCHANGED <<sessions, members>>
       \/ served = "members" /\ MembersNext /\ UNCHANGED <<sessions, codes>>
    /\ UNCHANGED served

AccountsSpec == AccountsInit /\ [][AccountsNext]_avars

=============================================================================
