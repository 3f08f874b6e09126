------------------------------ MODULE MCPortal ------------------------------
(* A small instance of Portal: an applicant, a reviewer who also approves  *)
(* and may lose the reviewer role, and an admin.  The observed tab is the  *)
(* applicant's or the reviewer's.                                          *)
EXTENDS Portal

CONSTANTS ann, rob, ada

MCUser == {ann, rob, ada}
MCViewer == {ann, rob}

MCRolesOf ==
  [u \in MCUser |->
     IF u = ann THEN {{"applicant"}}
     ELSE IF u = rob THEN {{"reviewer", "approver"}, {"approver"}}
     ELSE {{"admin"}}]

(* A reason on a submit is the one that no form of the portal gives, and a  *)
(* save writes both further keys or none.                                  *)
MCOthers ==
  Requests \ ({Save({key}) : key \in KEYS}
                \cup {Transition(event, TRUE) : event \in EVENTS \ {"submit"}})

(* Nothing is cut off; the inbox is; the home page is; everything is.      *)
MCLimits ==
  {[inbox |-> 2, home |-> 2, list |-> 2], [inbox |-> 1, home |-> 2, list |-> 2],
   [inbox |-> 1, home |-> 1, list |-> 2], [inbox |-> 1, home |-> 1, list |-> 1]}
=============================================================================
