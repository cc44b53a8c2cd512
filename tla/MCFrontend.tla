------------------------------ MODULE MCFrontend ------------------------------
(* The API with sessions of one member and of the staff.                     *)
EXTENDS Frontend, TLC

CONSTANTS m1, memberSession, staffSession

MCMember  == {m1}
MCSession == {memberSession, staffSession}
MCOwner   == (memberSession :> {m1}) @@ (staffSession :> {})
Symmetry  == Permutations(Client) \cup Permutations(Payload)
===============================================================================
