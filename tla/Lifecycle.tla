----------------------------- MODULE Lifecycle ------------------------------
(***************************************************************************)
(* What the applications service promises, with no requests, transactions  *)
(* or locks: one person at a time takes one step of the state machine on   *)
(* an application as it is at that moment, and the step is recorded.       *)
(* Module Workflow implements this specification.                          *)
(***************************************************************************)
EXTENDS StateMachine, Sequences

CONSTANTS User, RolesOf, App, None

VARIABLES
  case,     \* case[a]: status and people of application a
  history   \* history[a]: who did what to a, oldest first

lifecycleVars == <<case, history>>

NoCase == [applicant |-> None, status |-> "ABSENT", reviewedBy |-> None, decidedBy |-> None]

LInit ==
  /\ case = [a \in App |-> NoCase]
  /\ history = [a \in App |-> <<>>]

Recorded(a, event, u) ==
  history' = [history EXCEPT ![a] = Append(@, [event |-> event, actor |-> u])]

(* u starts an application.                                                *)
Open(a, u) ==
  /\ case[a] = NoCase
  /\ case' = [case EXCEPT ![a] = [NoCase EXCEPT !.applicant = u, !.status = "DRAFT"]]
  /\ Recorded(a, "created", u)

(* The applicant rewrites the form; neither status nor people change.      *)
Amend(a, u) ==
  /\ case[a].status \in {"DRAFT", "RFI_REQUESTED"}
  /\ case[a].applicant = u
  /\ "applicant" \in RolesOf[u]
  /\ UNCHANGED case
  /\ Recorded(a, "updated", u)

(* The case after u took the edge.                                         *)
Moved(c, edge, u) ==
  [c EXCEPT !.status = edge.to,
            !.reviewedBy = IF edge.assigns = "reviewer" THEN u ELSE @,
            !.decidedBy = IF edge.assigns = "approver" THEN u ELSE @]

(* u takes an edge that the state machine allows on the case as it is now. *)
Advance(a, u, event) ==
  \E edge \in FindEdge(case[a].status, event) :
    /\ EdgeVerdict(edge, case[a], u, RolesOf[u], TRUE) = "ok"
    /\ case' = [case EXCEPT ![a] = Moved(@, edge, u)]
    /\ Recorded(a, event, u)

LNext ==
  \E a \in App, u \in User :
    \/ Open(a, u)
    \/ Amend(a, u)
    \/ \E event \in EVENTS : Advance(a, u, event)

LSpec == LInit /\ [][LNext]_lifecycleVars
=============================================================================
