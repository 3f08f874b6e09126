------------------------------- MODULE Pages -------------------------------
(***************************************************************************)
(* What the portal's pages show: the buttons of the application page, the  *)
(* queues of the home page, the lists and the admin dashboard.  All of it  *)
(* is computed from rows the backend returned and from the viewer's roles, *)
(* partly by the frontend and partly by the backend's list and policy.     *)
(*                                                                         *)
(* A table of applications is a sequence in creation order: the list       *)
(* endpoint returns the newest rows first.                                 *)
(***************************************************************************)
EXTENDS StateMachine, FiniteSets

STAFF == {"reviewer", "approver", "admin"}

hasStaffRole(held) == held \cap STAFF # {}

IsOwner(row, user) == row.applicant = user

canViewApplication(row, user, held) == hasStaffRole(held) \/ IsOwner(row, user)

(* On the application page, who may edit is not asked for the role.        *)
EDITABLE_STATUSES == {"DRAFT", "RFI_REQUESTED"}

canEditDraft(row, user, held) == IsOwner(row, user) /\ "applicant" \in held

-----------------------------------------------------------------------------
(* The application page.                                                   *)

(* EVENT_SPECS[event].needs: the field of the form that a button opens, or *)
(* "nothing", when the button is the form.                                 *)
Needs(event) ==
  IF event = "request_info" THEN "message"
  ELSE IF event \in {"approve", "reject"} THEN "reason" ELSE "nothing"

(* The events transition() lets through, asked with a placeholder message. *)
allowedEvents(row, user, held) ==
  {event \in EVENTS : TransitionVerdict(row, event, user, held, TRUE) = "ok"}

dualControlBlocks(row, user, held) ==
  /\ row.status = "READY_FOR_DECISION"
  /\ row.reviewedBy = user
  /\ held \cap {"approver", "admin"} # {}

-----------------------------------------------------------------------------
(* The list endpoint and the pages that bucket its rows.                   *)

Newest(ids, limit) == {i \in ids : Cardinality({j \in ids : j > i}) < limit}

(* list: staff see all, others their own; newest first, up to the limit.   *)
Listed(apps, user, held, statuses, limit) ==
  Newest({i \in DOMAIN apps : /\ apps[i].status \in statuses
                              /\ hasStaffRole(held) \/ IsOwner(apps[i], user)}, limit)

InStatus(apps, ids, status) == {i \in ids : apps[i].status = status}

isApplicant(held) == "applicant" \in held

MutantIsReviewer(held) == "reviewer" \in held  \* mutant: admins forgotten

isReviewer(held) == held \cap {"reviewer", "admin"} # {}

isApprover(held) == held \cap {"approver", "admin"} # {}

(* The queues of the home page, of the rows it loaded.                     *)
myApplications(apps, ids, user, held) ==
  {i \in ids : isApplicant(held) /\ IsOwner(apps[i], user)}

unassignedSubmissions(apps, ids, held) ==
  IF isReviewer(held) THEN InStatus(apps, ids, "SUBMITTED") ELSE {}

assignedToMe(apps, ids, user, held) ==
  {i \in ids : /\ isReviewer(held)
               /\ apps[i].status = "UNDER_REVIEW" /\ apps[i].reviewedBy = user}

readyForDecision(apps, ids, held) ==
  IF isApprover(held) THEN InStatus(apps, ids, "READY_FOR_DECISION") ELSE {}

(* /applications with its status chip and its two switches.                *)
ApplicationsPage(apps, user, held, filter, limit) ==
  {i \in Listed(apps, user, held, filter.statuses, limit) :
     /\ filter.mine => IsOwner(apps[i], user)
     /\ filter.assigned => apps[i].reviewedBy = user}

(* Behind "See all", which only shows when the inbox is cut off.           *)
SeeAll(apps, user, held, submissions, limits) ==
  IF Cardinality(submissions) > limits.inbox
  THEN ApplicationsPage(apps, user, held,
                        [statuses |-> {"SUBMITTED"}, mine |-> FALSE, assigned |-> FALSE],
                        limits.list)
  ELSE {}

(* The applications a user can click through to from the home page.        *)
HomeLinks(apps, user, held, limits) ==
  LET ids == Listed(apps, user, held, STATUSES, limits.home)
      submissions == unassignedSubmissions(apps, ids, held)
  IN myApplications(apps, ids, user, held)
       \cup Newest(submissions, limits.inbox)
       \cup SeeAll(apps, user, held, submissions, limits)
       \cup assignedToMe(apps, ids, user, held)
       \cup readyForDecision(apps, ids, held)

(* The admin dashboard: its tiles and its funnel.                          *)
Dashboard(apps, admin, held, roles, limit) ==
  LET ids == Listed(apps, admin, held, STATUSES, limit)
  IN [statusCounts |-> [s \in STATUSES |-> Cardinality(InStatus(apps, ids, s))],
      openApplications |-> Cardinality({i \in ids : ~IsTerminal(apps[i].status)}),
      awaitingDecision |-> Cardinality(InStatus(apps, ids, "READY_FOR_DECISION")),
      staffBreakdown |-> [r \in STAFF |-> Cardinality({u \in DOMAIN roles : r \in roles[u]})],
      activeStaff |-> Cardinality({u \in DOMAIN roles : hasStaffRole(roles[u])})]
=============================================================================
