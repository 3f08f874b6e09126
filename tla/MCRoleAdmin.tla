---------------------------- MODULE MCRoleAdmin ----------------------------
(* A small instance of RoleAdmin: the seeded admin, and a user who signs   *)
(* up, may be made an admin and may then revoke the first.                 *)
EXTENDS RoleAdmin

CONSTANTS adam, eve

MCUser == {adam, eve}
MCAdmins == {adam}
MCToggles == {<<adam, "admin">>, <<eve, "admin">>, <<eve, "applicant">>}

(* Tabs are interchangeable.                                               *)
Symmetry == Permutations(Tab)
=============================================================================
