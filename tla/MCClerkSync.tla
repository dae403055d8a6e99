---------------------------- MODULE MCClerkSync -----------------------------
(* Instances of ClerkSync for TLC.                                         *)
EXTENDS ClerkSync, TLC

CONSTANTS u1, o1, o2

OneUser == {u1}
TwoOrgs == {o1, o2}
=============================================================================
