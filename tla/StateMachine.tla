---------------------------- MODULE StateMachine ----------------------------
(***************************************************************************)
(* The pure state machine of shared/src/domain/state-machine.ts, imported  *)
(* by the backend (which obeys it) and by the frontend (which draws the    *)
(* buttons with it).  Statuses, events and roles keep the source's names.  *)
(* An edge keeps the fields that decide something:                         *)
(*   role        the first of the edge's roles.  The only other role any   *)
(*               edge lists is "admin", which pickActorRole falls back to  *)
(*               on every edge, listed or not.                             *)
(*   assigns     the person column the edge writes the actor into          *)
(*   stamps      the timestamp columns it sets                             *)
(***************************************************************************)
EXTENDS Naturals

STATUSES == {"DRAFT", "SUBMITTED", "UNDER_REVIEW", "RFI_REQUESTED",
             "READY_FOR_DECISION", "APPROVED", "REJECTED", "WITHDRAWN"}

TERMINAL_STATUSES == {"APPROVED", "REJECTED", "WITHDRAWN"}

EVENTS == {"submit", "assign", "request_info", "resubmit", "mark_ready",
           "approve", "reject", "withdraw"}

ROLES == {"applicant", "reviewer", "approver", "admin"}

STAMPS == {"submittedAt", "reviewedAt", "decidedAt"}

NoRole == "no_role"

-----------------------------------------------------------------------------
(* The edges, by who takes them.                                           *)

ApplicantEdge(from, event, to, stamps) ==
  [from |-> from, event |-> event, to |-> to, role |-> "applicant",
   ownerOnly |-> TRUE, requiresMessage |-> FALSE, dualControl |-> FALSE,
   decision |-> "none", assigns |-> "nobody", stamps |-> stamps]

ReviewerEdge(from, event, to, message, assigns, stamps) ==
  [from |-> from, event |-> event, to |-> to, role |-> "reviewer",
   ownerOnly |-> FALSE, requiresMessage |-> message, dualControl |-> FALSE,
   decision |-> "none", assigns |-> assigns, stamps |-> stamps]

DecisionEdge(event, decision) ==
  [from |-> "READY_FOR_DECISION", event |-> event, to |-> decision,
   role |-> "approver", ownerOnly |-> FALSE, requiresMessage |-> FALSE,
   dualControl |-> TRUE, decision |-> decision, assigns |-> "approver",
   stamps |-> {"decidedAt"}]

TRANSITIONS ==
  { ApplicantEdge("DRAFT", "submit", "SUBMITTED", {"submittedAt"}),
    ApplicantEdge("DRAFT", "withdraw", "WITHDRAWN", {}),
    ReviewerEdge("SUBMITTED", "assign", "UNDER_REVIEW", FALSE, "reviewer", {}),
    ApplicantEdge("SUBMITTED", "withdraw", "WITHDRAWN", {}),
    ReviewerEdge("UNDER_REVIEW", "request_info", "RFI_REQUESTED", TRUE, "nobody", {}),
    ReviewerEdge("UNDER_REVIEW", "mark_ready", "READY_FOR_DECISION", FALSE,
                 "nobody", {"reviewedAt"}),
    ApplicantEdge("RFI_REQUESTED", "resubmit", "SUBMITTED", {"submittedAt"}),
    ApplicantEdge("RFI_REQUESTED", "withdraw", "WITHDRAWN", {}),
    DecisionEdge("approve", "APPROVED"),
    DecisionEdge("reject", "REJECTED") }

(* findEdge: the edge for a status and an event, as a set of at most one.  *)
FindEdge(status, event) == {e \in TRANSITIONS : e.from = status /\ e.event = event}

(* pickActorRole: the edge's own role when the actor holds it, else admin. *)
PickActorRole(held, edge) ==
  IF edge.role \in held THEN edge.role
  ELSE IF "admin" \in held THEN "admin" ELSE NoRole

MutantEdgeVerdict(edge, row, actor, held, message) ==  \* mutant: no dual control
  IF PickActorRole(held, edge) = NoRole THEN "forbidden_role"
  ELSE IF edge.ownerOnly /\ actor # row.applicant THEN "not_owner"
  ELSE IF edge.requiresMessage /\ ~message THEN "missing_message"
  ELSE "ok"

(* The checks of transition(), in the source's order, on an edge that      *)
(* exists.  Reviewer is who the row names in reviewed_by.                  *)
EdgeVerdict(edge, row, actor, held, message) ==
  IF PickActorRole(held, edge) = NoRole THEN "forbidden_role"
  ELSE IF edge.ownerOnly /\ actor # row.applicant THEN "not_owner"
  ELSE IF edge.dualControl /\ row.reviewedBy = actor THEN "dual_control_violation"
  ELSE IF edge.requiresMessage /\ ~message THEN "missing_message"
  ELSE "ok"

(* transition(): "ok", or the reason it refuses the event.                 *)
TransitionVerdict(row, event, actor, held, message) ==
  IF FindEdge(row.status, event) = {} THEN "illegal_transition"
  ELSE EdgeVerdict(CHOOSE e \in FindEdge(row.status, event) : TRUE,
                   row, actor, held, message)

REFUSALS == {"illegal_transition", "forbidden_role", "not_owner",
             "dual_control_violation", "missing_message"}

IsTerminal(status) == status \in TERMINAL_STATUSES
=============================================================================
