----------------------------- MODULE MCWorkflow -----------------------------
(* Small instances of Workflow: an applicant, a member of staff who is     *)
(* both reviewer and approver (roles are granted independently of each     *)
(* other), and an admin.  bob and adam can each take every staff edge, so  *)
(* dual control is all that keeps them apart.                              *)
EXTENDS Workflow, TLC

CONSTANTS ann, bob, adam

MCUser == {ann, bob, adam}

MCRolesOf ==
  ann :> {"applicant"} @@ bob :> {"reviewer", "approver"} @@ adam :> {"admin"}

(* Request slots are interchangeable.                                      *)
Symmetry == Permutations(Req)
=============================================================================
