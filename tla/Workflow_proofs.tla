-------------------------- MODULE Workflow_proofs ---------------------------
(***************************************************************************)
(* Theorems about Workflow, for every set of people, roles, applications   *)
(* and request slots.  The argument is the one the optimistic lock rests   *)
(* on: version and status pin down everything of a row but its text, so a  *)
(* request whose UPDATE still matches judged the row it is about to change.*)
(***************************************************************************)
EXTENDS Workflow, FiniteSetTheorems, SequenceTheorems, TLAPS

-----------------------------------------------------------------------------
(* Lemmas about the operators.                                             *)

(* Every edge leads between statuses of the state machine, never from a    *)
(* terminal one, and its columns have the types the row needs.             *)
LEMMA EdgeFacts ==
  ASSUME NEW edge \in TRANSITIONS
  PROVE  /\ edge.from \in STATUSES \ TERMINAL_STATUSES
         /\ edge.to \in STATUSES
         /\ edge.event \in EVENTS
         /\ edge.role \in ROLES
         /\ edge.stamps \in SUBSET STAMPS
         /\ edge.decision \in {"none", "APPROVED", "REJECTED"}
         /\ edge.to \in {"APPROVED", "REJECTED"} =>
              /\ edge.from = "READY_FOR_DECISION"
              /\ edge.dualControl /\ edge.assigns = "approver"
              /\ edge.decision = edge.to /\ "decidedAt" \in edge.stamps
         /\ edge.to \notin {"APPROVED", "REJECTED"} =>
              edge.assigns # "approver" /\ edge.decision = "none"
         /\ edge.to = "UNDER_REVIEW" => edge.assigns = "reviewer"
         /\ edge.to \in {"RFI_REQUESTED", "READY_FOR_DECISION"} => edge.from = "UNDER_REVIEW"
         /\ edge.assigns = "reviewer" => edge.to = "UNDER_REVIEW"
BY DEF TRANSITIONS, ApplicantEdge, ReviewerEdge, DecisionEdge, STATUSES,
       TERMINAL_STATUSES, EVENTS, ROLES, STAMPS

(* findEdge returns an edge of the table for the status it was given.      *)
LEMMA FindEdgeFacts ==
  ASSUME NEW status, NEW event, NEW edge \in FindEdge(status, event)
  PROVE  edge \in TRANSITIONS /\ edge.from = status /\ edge.event = event
BY DEF FindEdge

(* The table has one edge for a status and an event: what find() returns   *)
(* does not depend on the order of the table.                              *)
LEMMA EdgeUnique ==
  ASSUME NEW status, NEW event,
         NEW e1 \in FindEdge(status, event), NEW e2 \in FindEdge(status, event)
  PROVE  e1 = e2
<1>. DEFINE At(from, ev) ==
       CASE from = "DRAFT" /\ ev = "submit" ->
              ApplicantEdge("DRAFT", "submit", "SUBMITTED", {"submittedAt"})
         [] from = "DRAFT" /\ ev = "withdraw" ->
              ApplicantEdge("DRAFT", "withdraw", "WITHDRAWN", {})
         [] from = "SUBMITTED" /\ ev = "assign" ->
              ReviewerEdge("SUBMITTED", "assign", "UNDER_REVIEW", FALSE, "reviewer", {})
         [] from = "SUBMITTED" /\ ev = "withdraw" ->
              ApplicantEdge("SUBMITTED", "withdraw", "WITHDRAWN", {})
         [] from = "UNDER_REVIEW" /\ ev = "request_info" ->
              ReviewerEdge("UNDER_REVIEW", "request_info", "RFI_REQUESTED", TRUE,
                           "nobody", {})
         [] from = "UNDER_REVIEW" /\ ev = "mark_ready" ->
              ReviewerEdge("UNDER_REVIEW", "mark_ready", "READY_FOR_DECISION", FALSE,
                           "nobody", {"reviewedAt"})
         [] from = "RFI_REQUESTED" /\ ev = "resubmit" ->
              ApplicantEdge("RFI_REQUESTED", "resubmit", "SUBMITTED", {"submittedAt"})
         [] from = "RFI_REQUESTED" /\ ev = "withdraw" ->
              ApplicantEdge("RFI_REQUESTED", "withdraw", "WITHDRAWN", {})
         [] from = "READY_FOR_DECISION" /\ ev = "approve" ->
              DecisionEdge("approve", "APPROVED")
         [] from = "READY_FOR_DECISION" /\ ev = "reject" ->
              DecisionEdge("reject", "REJECTED")
<1>1. /\ e1 \in TRANSITIONS /\ e2 \in TRANSITIONS
      /\ e1.from = e2.from /\ e1.event = e2.event
  BY DEF FindEdge
<1>2. ASSUME NEW e \in TRANSITIONS
      PROVE  e = At(e.from, e.event)
  BY <1>2, SMTT(30) DEF TRANSITIONS, ApplicantEdge, ReviewerEdge, DecisionEdge
<1>. HIDE DEF At
<1>3. QED
  BY <1>1, <1>2

(* pickActorRole gives a role of the table, or none.                       *)
LEMMA PickActorRoleType ==
  ASSUME NEW held, NEW edge \in TRANSITIONS
  PROVE  PickActorRole(held, edge) \in ROLES \cup {NoRole}
BY EdgeFacts DEF PickActorRole, ROLES, NoRole

LEMMA NoRowType == NoRow \in Row
BY DEF NoRow, Row

LEMMA DraftRowFacts ==
  ASSUME NEW u \in User
  PROVE  DraftRow(u) \in Row /\ RowOK(DraftRow(u))
BY NoneAssumption DEF DraftRow, NoRow, Row, RowOK, STATUSES, STAMPS

LEMMA PatchedType ==
  ASSUME NEW row \in Row, NEW edge \in TRANSITIONS, NEW u \in User
  PROVE  Patched(row, edge, u) \in Row
<1>1. /\ edge.to \in STATUSES
      /\ edge.stamps \in SUBSET STAMPS
      /\ edge.decision \in {"none", "APPROVED", "REJECTED"}
  BY EdgeFacts
<1>2. row.version + 1 \in Nat /\ row.stamps \cup edge.stamps \in SUBSET STAMPS
  BY <1>1 DEF Row
<1>3. QED
  BY <1>1, <1>2 DEF Patched, Row

LEMMA EditType ==
  ASSUME NEW row \in Row
  PROVE  [row EXCEPT !.content = @ + 1] \in Row
BY DEF Row

LEMMA IdleType ==
  ASSUME NEW reply \in Replies
  PROVE  Idle(reply) \in Request
BY NoRowType DEF Idle, Request, NoRole, Replies

(* A judgement on equal rows but for the text agrees in all that matters.  *)
LEMMA SameFields ==
  ASSUME NEW snap \in Row, NEW row \in Row, SameButContent(snap, row)
  PROVE  /\ snap.status = row.status /\ snap.version = row.version
         /\ snap.applicant = row.applicant /\ snap.reviewedBy = row.reviewedBy
         /\ snap.decidedBy = row.decidedBy
BY DEF SameButContent, Row

LEMMA SameTransitive ==
  ASSUME NEW row1 \in Row, NEW row2 \in Row, NEW row3 \in Row,
         SameButContent(row1, row2), SameButContent(row2, row3)
  PROVE  SameButContent(row1, row3)
BY DEF SameButContent, Row

(* An edge the state machine accepted for a row with the same reviewer     *)
(* leads from a good row to a good row, and the database takes it.         *)
LEMMA PatchedOK ==
  ASSUME NEW row \in Row, RowOK(row), NEW u \in User, NEW snap \in Row, NEW held,
         NEW edge \in TRANSITIONS, edge.from = row.status,
         snap.reviewedBy = row.reviewedBy,
         EdgeVerdict(edge, snap, u, held, TRUE) = "ok"
  PROVE  /\ RowOK(Patched(row, edge, u))
         /\ ~DbRefuses(row, Patched(row, edge, u))
         /\ Patched(row, edge, u).status # "ABSENT"
         /\ Patched(row, edge, u).version = row.version + 1
<1>. DEFINE new == Patched(row, edge, u)
<1>1. /\ new.status = edge.to
      /\ new.version = row.version + 1
      /\ new.applicant = row.applicant
      /\ new.reviewedBy = IF edge.assigns = "reviewer" THEN u ELSE row.reviewedBy
      /\ new.decidedBy = IF edge.assigns = "approver" THEN u ELSE row.decidedBy
      /\ new.decision = IF edge.decision # "none" THEN edge.decision ELSE row.decision
      /\ new.stamps = row.stamps \cup edge.stamps
  BY DEF Patched, Row
<1>. HIDE DEF new
<1>2. edge.from \in STATUSES \ TERMINAL_STATUSES /\ edge.to \in STATUSES
  BY EdgeFacts
<1>3. /\ row.status \in STATUSES /\ row.status \notin TERMINAL_STATUSES
      /\ new.status # "ABSENT" /\ row.applicant \in User
  BY <1>1, <1>2 DEF RowOK, STATUSES
<1>4. row.decidedBy = None /\ row.decision = "none"
  BY <1>3 DEF RowOK, TERMINAL_STATUSES
<1>5. CASE edge.to \in {"APPROVED", "REJECTED"}
  <2>1. /\ edge.from = "READY_FOR_DECISION" /\ edge.dualControl
        /\ edge.assigns = "approver" /\ edge.decision = edge.to
        /\ "decidedAt" \in edge.stamps
    BY <1>5, EdgeFacts
  <2>2. u # row.reviewedBy
    BY <2>1 DEF EdgeVerdict
  <2>3. row.reviewedBy \in User
    BY <2>1 DEF RowOK
  <2>4. RowOK(new)
    BY <1>1, <1>3, <1>5, <2>1, <2>2, <2>3 DEF RowOK
  <2>5. ~DbRefuses(row, new)
    BY <1>1, <1>3, <1>5, <2>1, <2>2, <2>3, NoneAssumption
    DEF DbRefuses, BlockedByTrigger, ViolatesCheck, IsTerminal
  <2>6. QED
    BY <1>1, <1>3, <2>4, <2>5 DEF new
<1>6. CASE edge.to \notin {"APPROVED", "REJECTED"}
  <2>1. edge.assigns # "approver" /\ edge.decision = "none"
    BY <1>6, EdgeFacts
  <2>2. edge.to \in {"UNDER_REVIEW", "RFI_REQUESTED", "READY_FOR_DECISION"} =>
          new.reviewedBy \in User
    <3>1. edge.to = "UNDER_REVIEW" => edge.assigns = "reviewer"
      BY EdgeFacts
    <3>2. edge.to \in {"RFI_REQUESTED", "READY_FOR_DECISION"} =>
            row.reviewedBy \in User /\ edge.assigns # "reviewer"
      BY EdgeFacts DEF RowOK
    <3>3. QED
      BY <1>1, <3>1, <3>2
  <2>3. RowOK(new)
    BY <1>1, <1>3, <1>4, <1>6, <2>1, <2>2 DEF RowOK
  <2>4. ~DbRefuses(row, new)
    BY <1>1, <1>3, <1>4, <1>6, <2>1
    DEF DbRefuses, BlockedByTrigger, ViolatesCheck, IsTerminal
  <2>5. QED
    BY <1>1, <1>3, <2>3, <2>4 DEF new
<1>7. QED
  BY <1>5, <1>6

(* So does an edit of an editable row.                                     *)
LEMMA EditOK ==
  ASSUME NEW row \in Row, RowOK(row), row.status \in EDITABLE
  PROVE  /\ RowOK([row EXCEPT !.content = @ + 1])
         /\ ~DbRefuses(row, [row EXCEPT !.content = @ + 1])
         /\ SameButContent([row EXCEPT !.content = @ + 1], row)
         /\ SameButContent(row, [row EXCEPT !.content = @ + 1])
         /\ [row EXCEPT !.content = @ + 1].version = row.version
         /\ [row EXCEPT !.content = @ + 1].status = row.status
<1>. DEFINE new == [row EXCEPT !.content = @ + 1]
<1>1. /\ new.status = row.status /\ new.version = row.version
      /\ new.applicant = row.applicant /\ new.reviewedBy = row.reviewedBy
      /\ new.decidedBy = row.decidedBy /\ new.decision = row.decision
      /\ new.stamps = row.stamps
  BY DEF Row
<1>2. SameButContent(new, row) /\ SameButContent(row, new)
  BY DEF SameButContent, Row
<1>. HIDE DEF new
<1>3. RowOK(new)
  BY <1>1 DEF RowOK, EDITABLE
<1>4. ~DbRefuses(row, new)
  BY <1>1
  DEF RowOK, DbRefuses, BlockedByTrigger, ViolatesCheck, IsTerminal, TERMINAL_STATUSES,
      EDITABLE
<1>5. QED
  BY <1>1, <1>2, <1>3, <1>4 DEF new

-----------------------------------------------------------------------------
(* The inductive invariant.                                                *)

LEMMA InitInvariant == Init => IInv
<1>. SUFFICES ASSUME Init PROVE IInv
  OBVIOUS
<1>1. Idle("none") \in Request /\ Idle("none").pc = "idle" /\ Idle("none").reply = "none"
  BY IdleType DEF Idle, Replies
<1>2. TypeOK
  BY <1>1, NoRowType DEF Init, TypeOK
<1>3. RowOK(NoRow)
  BY DEF RowOK, NoRow
<1>4. QED
  BY <1>1, <1>2, <1>3 DEF Init, IInv, Holds, BeltsStayUnused

(* A request in flight names an application and reads its row.             *)
LEMMA InFlight ==
  ASSUME IInv, NEW r \in Req, req[r].pc # "idle"
  PROVE  /\ req[r] \in Request /\ req[r].app \in App /\ req[r].actor \in User
         /\ apps[req[r].app] \in Row /\ RowOK(apps[req[r].app])
         /\ RequestOK(req[r], apps[req[r].app])
         /\ req[r].snap \in Row /\ req[r].row \in Row
<1>1. req[r] \in Request /\ RequestOK(req[r], apps[req[r].app])
  BY DEF IInv, TypeOK
<1>2. req[r].app \in App /\ req[r].actor \in User
  BY <1>1 DEF Request, RequestOK, FoundOK, WrittenOK, Judged
<1>3. req[r].snap \in Row /\ req[r].row \in Row
  BY <1>1 DEF Request
<1>4. QED
  BY <1>1, <1>2, <1>3 DEF IInv, TypeOK

(* A step that only moves request r on keeps the invariant when r's new    *)
(* state fits the committed row and takes no lock another request has.     *)
LEMMA ProceedInvariant ==
  ASSUME IInv, NEW r \in Req, NEW t \in Request, Proceed(r, t),
         t.pc # "idle" => RequestOK(t, apps[t.app]),
         t.reply # "db_error",
         t.pc \in {"written", "audited"} => \A s \in Req \ {r} : ~Holds(s, t.app)
  PROVE  IInv'
<1>1. req' = [req EXCEPT ![r] = t] /\ UNCHANGED <<apps, trail, notes>>
  BY DEF Proceed
<1>2. req'[r] = t /\ \A s \in Req \ {r} : req'[s] = req[s]
  BY <1>1 DEF IInv, TypeOK
<1>3. TypeOK'
  BY <1>1 DEF IInv, TypeOK
<1>4. (\A a \in App : RowOK(apps[a]))'
  BY <1>1 DEF IInv
<1>5. (\A s \in Req : req[s].pc # "idle" => RequestOK(req[s], apps[req[s].app]))'
  <2>. SUFFICES ASSUME NEW s \in Req, req'[s].pc # "idle"
                PROVE  RequestOK(req'[s], apps'[req'[s].app])
    BY DEF RequestOK, FoundOK, WrittenOK, Judged
  <2>1. apps' = apps
    BY <1>1
  <2>2. RequestOK(req'[s], apps[req'[s].app])
    BY <1>2 DEF IInv
  <2>3. QED
    BY <2>1, <2>2
<1>6. (\A a \in App : \A p, q \in Req : Holds(p, a) /\ Holds(q, a) => p = q)'
  BY <1>2 DEF IInv, Holds
<1>7. BeltsStayUnused'
  BY <1>2 DEF IInv, BeltsStayUnused
<1>8. QED
  BY <1>3, <1>4, <1>5, <1>6, <1>7 DEF IInv

LEMMA AnswerInvariant ==
  ASSUME IInv, NEW r \in Req, NEW reply \in Replies \ {"db_error"}, Answer(r, reply)
  PROVE  IInv'
<1>1. /\ Idle(reply) \in Request /\ Idle(reply).pc = "idle"
      /\ Idle(reply).reply # "db_error"
  BY IdleType DEF Idle
<1>2. Proceed(r, Idle(reply))
  BY DEF Answer, Proceed
<1>3. QED
  BY <1>1, <1>2, ProceedInvariant

LEMMA CreateDraftInvariant ==
  ASSUME IInv, NEW r \in Req, NEW u \in User, NEW a \in App, CreateDraft(r, u, a)
  PROVE  IInv'
<1>. DEFINE t == [Idle("none") EXCEPT
                    !.pc = "written", !.op = "created", !.app = a, !.actor = u,
                    !.role = "applicant", !.row = DraftRow(u)]
<1>1. Proceed(r, t) /\ ~Exists(a) /\ ~Locked(a)
  BY DEF CreateDraft
<1>2. t \in Request /\ t.reply # "db_error"
  BY DraftRowFacts, NoRowType DEF Idle, Request, Operations, ROLES, NoRole, Replies
<1>3. apps[a] = NoRow
  BY <1>1 DEF Exists, IInv, RowOK
<1>4. /\ t.pc = "written" /\ t.op = "created" /\ t.app = a /\ t.actor = u
      /\ t.snap = NoRow /\ t.row = DraftRow(u)
  BY DEF Idle
<1>. HIDE DEF t
<1>5. RequestOK(t, apps[t.app])
  BY <1>3, <1>4 DEF RequestOK, WrittenOK
<1>6. \A s \in Req \ {r} : ~Holds(s, t.app)
  BY <1>1, <1>4 DEF Locked
<1>7. QED
  BY <1>1, <1>2, <1>5, <1>6, ProceedInvariant

(* What the state machine accepts it accepts on the edge findEdge gives,   *)
(* in a role the actor holds.                                              *)
LEMMA VerdictFacts ==
  ASSUME NEW row \in Row, NEW event, NEW u, NEW held, NEW message \in BOOLEAN,
         TransitionVerdict(row, event, u, held, message) = "ok",
         NEW edge \in FindEdge(row.status, event)
  PROVE  /\ EdgeVerdict(edge, row, u, held, TRUE) = "ok"
         /\ PickActorRole(held, edge) # NoRole
<1>. DEFINE found == CHOOSE e \in FindEdge(row.status, event) : TRUE
<1>1. found \in FindEdge(row.status, event)
  OBVIOUS
<1>2. found = edge
  BY <1>1, EdgeUnique
<1>3. EdgeVerdict(edge, row, u, held, message) = "ok"
  BY <1>2 DEF TransitionVerdict
<1>4. QED
  BY <1>3 DEF EdgeVerdict

LEMMA FindForTransitionInvariant ==
  ASSUME IInv, NEW r \in Req, NEW u \in User, NEW event \in EVENTS, NEW a \in App,
         NEW message \in BOOLEAN, FindForTransition(r, u, event, a, message)
  PROVE  IInv'
<1>1. CASE Answer(r, "refused")
  BY <1>1, AnswerInvariant DEF Replies
<1>2. CASE ~Answer(r, "refused")
  <2>. DEFINE row == apps[a]
  <2>1. /\ Exists(a) /\ TransitionVerdict(row, event, u, RolesOf[u], message) = "ok"
        /\ \E edge \in FindEdge(row.status, event) :
             Proceed(r, [Idle("none") EXCEPT
                           !.pc = "found", !.op = event, !.app = a, !.actor = u,
                           !.role = PickActorRole(RolesOf[u], edge), !.snap = row])
    BY <1>2 DEF FindForTransition
  <2>2. PICK edge \in FindEdge(row.status, event) :
          Proceed(r, [Idle("none") EXCEPT
                        !.pc = "found", !.op = event, !.app = a, !.actor = u,
                        !.role = PickActorRole(RolesOf[u], edge), !.snap = row])
    BY <2>1
  <2>. DEFINE role == PickActorRole(RolesOf[u], edge)
              t == [Idle("none") EXCEPT
                      !.pc = "found", !.op = event, !.app = a, !.actor = u,
                      !.role = role, !.snap = row]
  <2>3. row \in Row /\ row.status # "ABSENT"
    BY <2>1 DEF IInv, TypeOK, Exists
  <2>4. EdgeVerdict(edge, row, u, RolesOf[u], TRUE) = "ok" /\ role # NoRole
    BY <2>1, <2>3, VerdictFacts
  <2>5. role \in ROLES \cup {NoRole}
    BY FindEdgeFacts, PickActorRoleType
  <2>6. Proceed(r, t)
    BY <2>2
  <2>. HIDE DEF row, role
  <2>7. t \in Request /\ t.reply # "db_error"
    BY <2>3, <2>5, NoRowType DEF Idle, Request, Operations, Replies
  <2>8. /\ t.pc = "found" /\ t.op = event /\ t.app = a /\ t.actor = u
        /\ t.role = role /\ t.snap = row
    BY DEF Idle
  <2>. HIDE DEF t
  <2>9. SameButContent(row, row) /\ row.version <= row.version
    BY <2>3 DEF SameButContent, Row
  <2>10. Judged(t)
    BY <2>3, <2>4, <2>8 DEF Judged, role
  <2>11. FoundOK(t, apps[t.app])
    BY <2>3, <2>8, <2>9, <2>10 DEF FoundOK, row
  <2>12. QED
    BY <2>6, <2>7, <2>8, <2>11, ProceedInvariant DEF RequestOK
<1>3. QED
  BY <1>1, <1>2

LEMMA FindForEditInvariant ==
  ASSUME IInv, NEW r \in Req, NEW u \in User, NEW a \in App, FindForEdit(r, u, a)
  PROVE  IInv'
<1>1. CASE Answer(r, "refused")
  BY <1>1, AnswerInvariant DEF Replies
<1>2. CASE ~Answer(r, "refused")
  <2>. DEFINE row == apps[a]
              t == [Idle("none") EXCEPT
                      !.pc = "found", !.op = "updated", !.app = a,
                      !.actor = u, !.role = "applicant", !.snap = row]
  <2>1. /\ Exists(a) /\ row.applicant = u /\ "applicant" \in RolesOf[u]
        /\ row.status \in EDITABLE /\ Proceed(r, t)
    BY <1>2 DEF FindForEdit
  <2>2. row \in Row /\ row.status # "ABSENT"
    BY <2>1 DEF IInv, TypeOK, Exists
  <2>3. t \in Request /\ t.reply # "db_error"
    BY <2>2, NoRowType DEF Idle, Request, Operations, Replies, ROLES
  <2>4. /\ t.pc = "found" /\ t.op = "updated" /\ t.app = a /\ t.actor = u
        /\ t.role = "applicant" /\ t.snap = row
    BY DEF Idle
  <2>. HIDE DEF t
  <2>5. SameButContent(row, row) /\ row.version <= row.version
    BY <2>2 DEF SameButContent, Row
  <2>6. Judged(t)
    BY <2>1, <2>2, <2>4 DEF Judged, NoRole
  <2>7. FoundOK(t, apps[t.app])
    BY <2>2, <2>4, <2>5, <2>6 DEF FoundOK
  <2>8. QED
    BY <2>1, <2>3, <2>4, <2>7, ProceedInvariant DEF RequestOK
<1>3. QED
  BY <1>1, <1>2

(* An UPDATE that keeps the invariant: the database takes the new row and  *)
(* nobody else holds the application's row.                                *)
LEMMA WriteInvariant ==
  ASSUME IInv, NEW r \in Req, req[r].pc = "found", NEW new \in Row, Write(r, new),
         ~DbRefuses(apps[req[r].app], new), ~Locked(req[r].app),
         WrittenOK([req[r] EXCEPT !.pc = "written", !.row = new], apps[req[r].app])
  PROVE  IInv'
<1>. DEFINE t == [req[r] EXCEPT !.pc = "written", !.row = new]
<1>1. Proceed(r, t)
  BY DEF Write
<1>2. req[r] \in Request /\ req[r].reply # "db_error"
  BY DEF IInv, TypeOK, BeltsStayUnused
<1>3. t \in Request /\ t.reply # "db_error" /\ t.app = req[r].app /\ t.pc = "written"
  BY <1>2 DEF Request
<1>4. RequestOK(t, apps[t.app])
  BY <1>3 DEF RequestOK
<1>. HIDE DEF t
<1>5. QED
  BY <1>1, <1>3, <1>4, ProceedInvariant DEF Locked

LEMMA TransitionInvariant ==
  ASSUME IInv, NEW r \in Req, TransitionWithVersion(r)
  PROVE  IInv'
<1>. DEFINE t == req[r]
            row == apps[t.app]
<1>1. t.pc = "found" /\ t.op \in EVENTS /\ StillMatches(r) /\ ~Locked(t.app)
  BY DEF TransitionWithVersion
<1>2. PICK edge \in FindEdge(t.snap.status, t.op) : Write(r, Patched(row, edge, t.actor))
  BY DEF TransitionWithVersion
<1>3. /\ t \in Request /\ t.app \in App /\ t.actor \in User /\ t.snap \in Row
      /\ row \in Row /\ RowOK(row) /\ FoundOK(t, row)
  BY <1>1, InFlight DEF RequestOK
<1>4. SameButContent(t.snap, row)
  BY <1>1, <1>3 DEF FoundOK, StillMatches
<1>5. t.snap.status = row.status /\ t.snap.reviewedBy = row.reviewedBy
  BY <1>3, <1>4, SameFields
<1>6. Judged(t) /\ t.op # "updated"
  BY <1>1, <1>3 DEF FoundOK, EVENTS
<1>7. PICK judged \in FindEdge(t.snap.status, t.op) :
        EdgeVerdict(judged, t.snap, t.actor, RolesOf[t.actor], TRUE) = "ok"
  BY <1>6 DEF Judged
<1>8. judged = edge
  BY EdgeUnique
<1>9. edge \in TRANSITIONS /\ edge.from = row.status
  BY <1>5, FindEdgeFacts
<1>. DEFINE new == Patched(row, edge, t.actor)
<1>10. new \in Row
  BY <1>3, <1>9, PatchedType
<1>11. ~DbRefuses(row, new)
  BY <1>3, <1>5, <1>7, <1>8, <1>9, PatchedOK
<1>. DEFINE done == [t EXCEPT !.pc = "written", !.row = new]
<1>12. /\ done.op = t.op /\ done.app = t.app /\ done.actor = t.actor
       /\ done.role = t.role /\ done.snap = t.snap /\ done.row = new
  BY <1>3 DEF Request
<1>. HIDE DEF new, done
<1>13. Judged(done)
  BY <1>6, <1>12 DEF Judged
<1>14. WrittenOK(done, row)
  BY <1>4, <1>12, <1>13 DEF WrittenOK, new
<1>15. QED
  BY <1>1, <1>2, <1>10, <1>11, <1>14, WriteInvariant DEF new, done

LEMMA UpdateDraftInvariant ==
  ASSUME IInv, NEW r \in Req, UpdateDraft(r)
  PROVE  IInv'
<1>. DEFINE t == req[r]
            row == apps[t.app]
            new == [row EXCEPT !.content = @ + 1]
            done == [t EXCEPT !.pc = "written", !.row = new]
<1>1. /\ t.pc = "found" /\ t.op = "updated" /\ StillMatches(r) /\ ~Locked(t.app)
      /\ Write(r, new)
  BY DEF UpdateDraft
<1>2. /\ t \in Request /\ t.app \in App /\ t.snap \in Row
      /\ row \in Row /\ RowOK(row) /\ FoundOK(t, row)
  BY <1>1, InFlight DEF RequestOK
<1>3. SameButContent(t.snap, row) /\ row.status \in EDITABLE /\ Judged(t)
  BY <1>1, <1>2 DEF FoundOK, StillMatches
<1>4. new \in Row
  BY <1>2, EditType
<1>5. ~DbRefuses(row, new)
  BY <1>2, <1>3, EditOK
<1>6. /\ done.op = t.op /\ done.app = t.app /\ done.actor = t.actor
      /\ done.role = t.role /\ done.snap = t.snap /\ done.row = new
  BY <1>2 DEF Request
<1>. HIDE DEF done
<1>7. Judged(done)
  BY <1>3, <1>6 DEF Judged
<1>8. WrittenOK(done, row)
  BY <1>1, <1>3, <1>6, <1>7 DEF WrittenOK
<1>9. QED
  BY <1>1, <1>4, <1>5, <1>8, WriteInvariant DEF done

LEMMA LoseRaceInvariant ==
  ASSUME IInv, NEW r \in Req, LoseRace(r)
  PROVE  IInv'
BY AnswerInvariant DEF LoseRace, Replies

LEMMA AbortInvariant ==
  ASSUME IInv, NEW r \in Req, Abort(r)
  PROVE  IInv'
BY AnswerInvariant DEF Abort, Replies

(* A transaction that goes on with the row it wrote.                       *)
LEMMA WrittenProceeds ==
  ASSUME IInv, NEW r \in Req, req[r].pc = "written", NEW t \in Request, Proceed(r, t),
         t.pc \in {"written", "audited"}, t.reply = req[r].reply,
         t.op = req[r].op, t.app = req[r].app, t.actor = req[r].actor,
         t.role = req[r].role, t.snap = req[r].snap, t.row = req[r].row
  PROVE  IInv'
<1>1. WrittenOK(req[r], apps[t.app]) /\ t.app \in App
  BY InFlight DEF RequestOK
<1>2. WrittenOK(t, apps[t.app])
  BY <1>1 DEF WrittenOK, Judged
<1>3. RequestOK(t, apps[t.app]) /\ t.reply # "db_error"
  BY <1>2 DEF RequestOK, IInv, BeltsStayUnused
<1>4. Holds(r, t.app)
  BY DEF Holds
<1>5. \A s \in Req \ {r} : ~Holds(s, t.app)
  BY <1>1, <1>4 DEF IInv
<1>6. QED
  BY <1>3, <1>5, ProceedInvariant

LEMMA InsertRfiNoteInvariant ==
  ASSUME IInv, NEW r \in Req, InsertRfiNote(r)
  PROVE  IInv'
<1>. DEFINE t == [req[r] EXCEPT !.note = TRUE]
<1>1. req[r].pc = "written" /\ Proceed(r, t)
  BY DEF InsertRfiNote
<1>2. req[r] \in Request
  BY DEF IInv, TypeOK
<1>3. /\ t \in Request /\ t.pc = "written" /\ t.reply = req[r].reply
      /\ t.op = req[r].op /\ t.app = req[r].app /\ t.actor = req[r].actor
      /\ t.role = req[r].role /\ t.snap = req[r].snap /\ t.row = req[r].row
  BY <1>1, <1>2 DEF Request
<1>. HIDE DEF t
<1>4. QED
  BY <1>1, <1>3, WrittenProceeds

LEMMA AppendAuditInvariant ==
  ASSUME IInv, NEW r \in Req, AppendAudit(r)
  PROVE  IInv'
<1>. DEFINE t == [req[r] EXCEPT !.pc = "audited"]
<1>1. req[r].pc = "written" /\ Proceed(r, t)
  BY DEF AppendAudit
<1>2. req[r] \in Request
  BY DEF IInv, TypeOK
<1>3. /\ t \in Request /\ t.pc = "audited" /\ t.reply = req[r].reply
      /\ t.op = req[r].op /\ t.app = req[r].app /\ t.actor = req[r].actor
      /\ t.role = req[r].role /\ t.snap = req[r].snap /\ t.row = req[r].row
  BY <1>1, <1>2 DEF Request
<1>. HIDE DEF t
<1>4. QED
  BY <1>1, <1>3, WrittenProceeds

(* What a transaction that made its UPDATE will leave behind: a good row,  *)
(* from one that was not terminal, with a new version or only a new text.  *)
LEMMA WrittenFacts ==
  ASSUME NEW t \in Request, NEW row \in Row, RowOK(row), WrittenOK(t, row)
  PROVE  /\ t.op \in Operations /\ t.actor \in User /\ t.app \in App
         /\ RowOK(t.row) /\ t.row.status # "ABSENT"
         /\ ~IsTerminal(row.status)
         /\ row.status # "ABSENT" =>
              \/ t.row.version = row.version + 1
              \/ t.row.version = row.version /\ SameButContent(row, t.row)
<1>1. CASE t.op = "created" /\ row = NoRow /\ t.row = DraftRow(t.actor)
           /\ t.actor \in User /\ t.app \in App
  <2>1. row.status = "ABSENT" /\ t.row.status = "DRAFT" /\ t.op \in Operations
    BY <1>1 DEF NoRow, DraftRow, Operations
  <2>2. RowOK(t.row)
    BY <1>1, DraftRowFacts
  <2>3. QED
    BY <1>1, <2>1, <2>2 DEF IsTerminal, TERMINAL_STATUSES
<1>2. CASE Judged(t) /\ SameButContent(t.snap, row) /\ t.op = "updated"
  <2>1. t.snap \in Row /\ t.snap.status = row.status
    BY <1>2, SameFields DEF Request
  <2>2. /\ row.status \in EDITABLE /\ t.op \in Operations
        /\ t.actor \in User /\ t.app \in App
    BY <1>2, <2>1 DEF Judged, Operations, EVENTS
  <2>3. FindEdge(t.snap.status, t.op) = {}
    BY <1>2, FindEdgeFacts, EdgeFacts DEF EVENTS
  <2>4. t.row = [row EXCEPT !.content = @ + 1]
    BY <1>1, <1>2, <2>3 DEF WrittenOK
  <2>5. /\ RowOK(t.row) /\ t.row.status = row.status /\ t.row.version = row.version
        /\ SameButContent(row, t.row)
    BY <2>2, <2>4, EditOK
  <2>6. QED
    BY <2>2, <2>5 DEF IsTerminal, TERMINAL_STATUSES, EDITABLE
<1>3. CASE Judged(t) /\ SameButContent(t.snap, row) /\ t.op # "updated"
  <2>1. /\ t.snap \in Row /\ t.snap.status = row.status
        /\ t.snap.reviewedBy = row.reviewedBy
    BY <1>3, SameFields DEF Request
  <2>2. t.op \in EVENTS /\ t.op \in Operations /\ t.actor \in User /\ t.app \in App
    BY <1>3 DEF Judged, Operations
  <2>3. PICK judged \in FindEdge(t.snap.status, t.op) :
          EdgeVerdict(judged, t.snap, t.actor, RolesOf[t.actor], TRUE) = "ok"
    BY <1>3 DEF Judged
  <2>4. t.op # "created"
    BY <2>2 DEF EVENTS
  <2>5. PICK edge \in FindEdge(t.snap.status, t.op) : t.row = Patched(row, edge, t.actor)
    BY <1>3, <2>4 DEF WrittenOK
  <2>6. EdgeVerdict(edge, t.snap, t.actor, RolesOf[t.actor], TRUE) = "ok"
    BY <2>3, EdgeUnique
  <2>7. edge \in TRANSITIONS /\ edge.from = row.status
    BY <2>1, FindEdgeFacts
  <2>8. /\ RowOK(t.row) /\ t.row.status # "ABSENT"
        /\ t.row.version = row.version + 1
    <3>. DEFINE u == t.actor
                snap == t.snap
                held == RolesOf[u]
    <3>1. u \in User /\ snap \in Row /\ snap.reviewedBy = row.reviewedBy
      BY <2>1, <2>2
    <3>2. EdgeVerdict(edge, snap, u, held, TRUE) = "ok"
      BY <2>6
    <3>. HIDE DEF u, snap, held
    <3>3. /\ RowOK(Patched(row, edge, u)) /\ Patched(row, edge, u).status # "ABSENT"
          /\ Patched(row, edge, u).version = row.version + 1
      BY <2>7, <3>1, <3>2, PatchedOK
    <3>4. QED
      BY <2>5, <3>3 DEF u
  <2>9. ~IsTerminal(row.status)
    BY <2>7, EdgeFacts DEF IsTerminal
  <2>10. QED
    BY <2>2, <2>8, <2>9
<1>4. QED
  BY <1>1, <1>2, <1>3 DEF WrittenOK

(* Whoever read the row before the commit either still agrees with it but  *)
(* for the text, or is at an older version and will lose its race.         *)
LEMMA CommitInvariant ==
  ASSUME IInv, NEW r \in Req, Commit(r)
  PROVE  IInv'
<1>. DEFINE t == req[r]
            row == apps[t.app]
<1>1. /\ t.pc = "audited"
      /\ apps' = [apps EXCEPT ![t.app] = t.row]
      /\ trail' = [trail EXCEPT ![t.app] = Append(@, EntryOf(t))]
      /\ req' = [req EXCEPT ![r] = Idle("ok")]
  BY DEF Commit
<1>2. /\ t \in Request /\ t.app \in App /\ t.actor \in User /\ t.row \in Row
      /\ t.snap \in Row /\ row \in Row /\ RowOK(row) /\ WrittenOK(t, row)
  BY <1>1, InFlight DEF RequestOK
<1>3. /\ t.op \in Operations /\ RowOK(t.row) /\ t.row.status # "ABSENT"
      /\ row.status # "ABSENT" =>
           \/ t.row.version = row.version + 1
           \/ t.row.version = row.version /\ SameButContent(row, t.row)
  BY <1>2, WrittenFacts
<1>4. /\ apps'[t.app] = t.row
      /\ \A a \in App \ {t.app} : apps'[a] = apps[a]
      /\ req'[r] = Idle("ok")
      /\ \A s \in Req \ {r} : req'[s] = req[s]
  BY <1>1, <1>2 DEF IInv, TypeOK
<1>5. /\ Idle("ok") \in Request /\ Idle("ok").pc = "idle"
      /\ Idle("ok").reply = "ok"
  BY IdleType DEF Idle, Replies
<1>6. TypeOK'
  <2>1. apps' \in [App -> Row] /\ req' \in [Req -> Request]
    BY <1>1, <1>2, <1>5 DEF IInv, TypeOK
  <2>2. trail' \in [App -> Seq(Entry)]
    <3>1. EntryOf(t) \in Entry
      BY <1>2, <1>3 DEF EntryOf, Entry, Request
    <3>2. Append(trail[t.app], EntryOf(t)) \in Seq(Entry)
      BY <1>2, <3>1 DEF IInv, TypeOK
    <3>3. QED
      BY <1>1, <3>2 DEF IInv, TypeOK
  <2>3. notes' \in [App -> Seq(Note)]
    <3>. DEFINE pin == [author |-> t.actor, role |-> t.role, version |-> t.row.version]
    <3>1. pin \in Note
      BY <1>2 DEF Note, Request, Row
    <3>2. Append(notes[t.app], pin) \in Seq(Note)
      BY <1>2, <3>1 DEF IInv, TypeOK
    <3>3. notes' = IF t.note THEN [notes EXCEPT ![t.app] = Append(@, pin)] ELSE notes
      BY DEF Commit
    <3>. HIDE DEF pin
    <3>4. QED
      BY <3>2, <3>3 DEF IInv, TypeOK
  <2>4. QED
    BY <2>1, <2>2, <2>3 DEF TypeOK
<1>7. (\A a \in App : RowOK(apps[a]))'
  <2>. SUFFICES ASSUME NEW a \in App PROVE RowOK(apps'[a])
    BY DEF RowOK
  <2>1. QED
    BY <1>3, <1>4 DEF IInv
<1>8. (\A s \in Req : req[s].pc # "idle" => RequestOK(req[s], apps[req[s].app]))'
  <2>. SUFFICES ASSUME NEW s \in Req, req'[s].pc # "idle"
                PROVE  RequestOK(req'[s], apps'[req'[s].app])
    BY DEF RequestOK, FoundOK, WrittenOK, Judged
  <2>. DEFINE other == req[s]
  <2>1. s # r /\ req'[s] = other
    BY <1>4, <1>5
  <2>2. other \in Request /\ other.app \in App /\ other.snap \in Row
        /\ RequestOK(other, apps[other.app])
    BY <2>1, InFlight
  <2>3. CASE other.app # t.app
    BY <1>4, <2>1, <2>2, <2>3
  <2>4. CASE other.app = t.app
    <3>1. Holds(r, t.app) /\ ~Holds(s, t.app)
      BY <1>1, <1>2, <2>1 DEF Holds, IInv
    <3>2. other.pc \notin {"written", "audited"}
      BY <2>4, <3>1 DEF Holds
    <3>3. other.pc = "found"
      BY <2>1, <2>2, <3>2 DEF Request
    <3>4. FoundOK(other, row)
      BY <2>2, <2>4, <3>3 DEF RequestOK
    <3>5. other.snap.version \in Nat /\ row.version \in Nat
      BY <1>2, <2>2 DEF Row
    <3>6. CASE t.row.version = row.version + 1
      <4>1. other.snap.version <= t.row.version /\ other.snap.version # t.row.version
        BY <3>4, <3>5, <3>6 DEF FoundOK
      <4>2. FoundOK(other, t.row)
        BY <1>3, <3>4, <4>1 DEF FoundOK
      <4>3. QED
        BY <1>4, <2>1, <2>4, <3>2, <4>2 DEF RequestOK
    <3>7. CASE t.row.version = row.version /\ SameButContent(row, t.row)
      <4>1. other.snap.version = t.row.version => SameButContent(other.snap, t.row)
        BY <1>2, <2>2, <3>4, <3>7, SameTransitive DEF FoundOK
      <4>2. FoundOK(other, t.row)
        BY <1>3, <3>4, <3>7, <4>1 DEF FoundOK
      <4>3. QED
        BY <1>4, <2>1, <2>4, <3>2, <4>2 DEF RequestOK
    <3>8. QED
      BY <1>3, <3>4, <3>6, <3>7 DEF FoundOK
  <2>5. QED
    BY <2>3, <2>4
<1>9. (\A a \in App : \A p, q \in Req : Holds(p, a) /\ Holds(q, a) => p = q)'
  BY <1>4, <1>5 DEF IInv, Holds
<1>10. BeltsStayUnused'
  BY <1>4, <1>5 DEF IInv, BeltsStayUnused
<1>11. QED
  BY <1>6, <1>7, <1>8, <1>9, <1>10 DEF IInv

(* IInv is inductive.                                                      *)
LEMMA NextInvariant == IInv /\ [Next]_vars => IInv'
<1>. SUFFICES ASSUME IInv, [Next]_vars PROVE IInv'
  OBVIOUS
<1>1. ASSUME NEW r \in Req, NEW u \in User, NEW a \in App, CreateDraft(r, u, a)
      PROVE  IInv'
  BY <1>1, CreateDraftInvariant
<1>2. ASSUME NEW r \in Req, NEW u \in User, NEW event \in EVENTS, NEW a \in App,
             NEW message \in BOOLEAN, FindForTransition(r, u, event, a, message)
      PROVE  IInv'
  BY <1>2, FindForTransitionInvariant
<1>3. ASSUME NEW r \in Req, NEW u \in User, NEW a \in App, FindForEdit(r, u, a)
      PROVE  IInv'
  BY <1>3, FindForEditInvariant
<1>4. ASSUME NEW r \in Req, TransitionWithVersion(r) PROVE IInv'
  BY <1>4, TransitionInvariant
<1>5. ASSUME NEW r \in Req, UpdateDraft(r) PROVE IInv'
  BY <1>5, UpdateDraftInvariant
<1>6. ASSUME NEW r \in Req, LoseRace(r) PROVE IInv'
  BY <1>6, LoseRaceInvariant
<1>7. ASSUME NEW r \in Req, InsertRfiNote(r) PROVE IInv'
  BY <1>7, InsertRfiNoteInvariant
<1>8. ASSUME NEW r \in Req, AppendAudit(r) PROVE IInv'
  BY <1>8, AppendAuditInvariant
<1>9. ASSUME NEW r \in Req, Commit(r) PROVE IInv'
  BY <1>9, CommitInvariant
<1>10. ASSUME NEW r \in Req, Abort(r) PROVE IInv'
  BY <1>10, AbortInvariant
<1>11. CASE UNCHANGED vars
  <2>1. apps' = apps /\ trail' = trail /\ notes' = notes /\ req' = req
    BY <1>11 DEF vars
  <2>2. TypeOK' /\ BeltsStayUnused'
    BY <2>1 DEF IInv, TypeOK, BeltsStayUnused
  <2>3. (\A a \in App : RowOK(apps[a]))'
    BY <2>1 DEF IInv
  <2>4. (\A r \in Req : req[r].pc # "idle" => RequestOK(req[r], apps[req[r].app]))'
    <3>. SUFFICES ASSUME NEW r \in Req, req'[r].pc # "idle"
                  PROVE  RequestOK(req'[r], apps'[req'[r].app])
      BY DEF RequestOK, FoundOK, WrittenOK, Judged
    <3>1. QED
      BY <2>1 DEF IInv
  <2>5. (\A a \in App : \A p, q \in Req : Holds(p, a) /\ Holds(q, a) => p = q)'
    BY <2>1 DEF IInv, Holds
  <2>6. QED
    BY <2>2, <2>3, <2>4, <2>5 DEF IInv
<1>12. QED
  BY <1>1, <1>2, <1>3, <1>4, <1>5, <1>6, <1>7, <1>8, <1>9, <1>10, <1>11 DEF Next

-----------------------------------------------------------------------------
(* The theorems.                                                           *)

(* At every moment, each request in flight still knows enough about the    *)
(* committed row: it judged that row, or its UPDATE will not match.        *)
THEOREM Invariant == Spec => []IInv
BY InitInvariant, NextInvariant, PTL DEF Spec

(* The state has its type, whatever the requests and their interleaving.   *)
THEOREM TypeCorrect == Spec => []TypeOK
<1>1. IInv => TypeOK
  BY DEF IInv
<1>2. QED
  BY <1>1, Invariant, PTL

(* The CHECK constraints and the terminal-row trigger of the database      *)
(* never have to refuse a write of the applications service.               *)
THEOREM BeltsUnused == Spec => []BeltsStayUnused
<1>1. IInv => BeltsStayUnused
  BY DEF IInv
<1>2. QED
  BY <1>1, Invariant, PTL

(* No step but a COMMIT changes what is committed.                         *)
LEMMA OnlyCommitWrites ==
  ASSUME [Next]_vars
  PROVE  \/ UNCHANGED <<apps, trail, notes>>
         \/ \E r \in Req : Commit(r)
<1>1. ASSUME NEW r \in Req, NEW new, Write(r, new)
      PROVE  UNCHANGED <<apps, trail, notes>>
  BY <1>1 DEF Write, Answer, Proceed
<1>2. ASSUME NEW r \in Req, TransitionWithVersion(r) \/ UpdateDraft(r)
      PROVE  UNCHANGED <<apps, trail, notes>>
  BY <1>1, <1>2 DEF TransitionWithVersion, UpdateDraft
<1>3. ASSUME NEW r \in Req,
             \/ LoseRace(r) \/ InsertRfiNote(r) \/ AppendAudit(r) \/ Abort(r)
      PROVE  UNCHANGED <<apps, trail, notes>>
  BY <1>3 DEF LoseRace, InsertRfiNote, AppendAudit, Abort, Answer, Proceed
<1>4. ASSUME NEW r \in Req, NEW u \in User, NEW a \in App,
             CreateDraft(r, u, a) \/ FindForEdit(r, u, a)
      PROVE  UNCHANGED <<apps, trail, notes>>
  BY <1>4 DEF CreateDraft, FindForEdit, Answer, Proceed
<1>5. ASSUME NEW r \in Req, NEW u \in User, NEW event \in EVENTS, NEW a \in App,
             NEW message \in BOOLEAN, FindForTransition(r, u, event, a, message)
      PROVE  UNCHANGED <<apps, trail, notes>>
  BY <1>5 DEF FindForTransition, Answer, Proceed
<1>6. CASE UNCHANGED vars
  BY <1>6 DEF vars
<1>7. QED
  BY <1>2, <1>3, <1>4, <1>5, <1>6 DEF Next

(* An approved, rejected or withdrawn application never changes again and  *)
(* gets no further audit entry, whatever requests were in flight when it   *)
(* was decided.                                                            *)
THEOREM Frozen == Spec => TerminalFrozen
<1>1. ASSUME IInv, [Next]_vars, NEW a \in App, IsTerminal(apps[a].status)
      PROVE  apps'[a] = apps[a] /\ trail'[a] = trail[a]
  <2>1. CASE UNCHANGED <<apps, trail, notes>>
    BY <2>1
  <2>2. ASSUME NEW r \in Req, Commit(r)
        PROVE  apps'[a] = apps[a] /\ trail'[a] = trail[a]
    <3>1. req[r].pc = "audited"
      BY <2>2 DEF Commit
    <3>2. /\ req[r].app \in App /\ req[r] \in Request /\ RowOK(apps[req[r].app])
          /\ apps[req[r].app] \in Row /\ WrittenOK(req[r], apps[req[r].app])
      BY <1>1, <3>1, InFlight DEF RequestOK
    <3>3. req[r].app # a
      BY <1>1, <3>2, WrittenFacts
    <3>4. QED
      BY <1>1, <2>2, <3>2, <3>3 DEF Commit, IInv, TypeOK
  <2>3. QED
    BY <1>1, <2>1, <2>2, OnlyCommitWrites
<1>2. IInv /\ [Next]_vars =>
        [\A a \in App : IsTerminal(apps[a].status) =>
           apps'[a] = apps[a] /\ trail'[a] = trail[a]]_vars
  BY <1>1
<1>3. QED
  BY <1>2, Invariant, PTL DEF Spec, TerminalFrozen

-----------------------------------------------------------------------------
(* The audit trail.                                                        *)

(* What a transaction that made its UPDATE is about to record is legal for *)
(* the row it holds.                                                       *)
LEMMA LegalEntry ==
  ASSUME NEW t \in Request, NEW row \in Row, WrittenOK(t, row), row.status # "ABSENT"
  PROVE  LegalStep(EntryOf(t), row)
<1>. DEFINE e == EntryOf(t)
<1>1. /\ e.event = t.op /\ e.actor = t.actor /\ e.role = t.role
      /\ e.before = t.snap /\ e.after = t.row
  BY DEF EntryOf
<1>. HIDE DEF e
<1>2. t.op # "created" /\ Judged(t) /\ SameButContent(t.snap, row) /\ t.snap \in Row
  <2>1. row # NoRow
    BY DEF NoRow
  <2>2. Judged(t) /\ SameButContent(t.snap, row)
    BY <2>1 DEF WrittenOK
  <2>3. QED
    BY <2>2 DEF Judged, EVENTS, Request
<1>3. /\ t.snap.status = row.status /\ t.snap.applicant = row.applicant
      /\ t.snap.reviewedBy = row.reviewedBy
  BY <1>2, SameFields
<1>4. CASE t.op = "updated"
  <2>1. FindEdge(t.snap.status, t.op) = {}
    BY <1>4, FindEdgeFacts, EdgeFacts DEF EVENTS
  <2>2. t.row = [row EXCEPT !.content = @ + 1]
    BY <1>2, <2>1 DEF WrittenOK
  <2>3. row.status \in EDITABLE /\ t.actor = row.applicant
    BY <1>2, <1>3, <1>4 DEF Judged, EVENTS
  <2>4. QED
    BY <1>1, <1>2, <1>4, <2>2, <2>3 DEF LegalStep, e
<1>5. CASE t.op # "updated"
  <2>1. PICK judged \in FindEdge(t.snap.status, t.op) :
          /\ EdgeVerdict(judged, t.snap, t.actor, RolesOf[t.actor], TRUE) = "ok"
          /\ t.role = PickActorRole(RolesOf[t.actor], judged)
    BY <1>2, <1>5 DEF Judged
  <2>2. PICK edge \in FindEdge(t.snap.status, t.op) : t.row = Patched(row, edge, t.actor)
    BY <1>2, <1>5 DEF WrittenOK
  <2>3. judged = edge
    BY EdgeUnique
  <2>4. EdgeVerdict(edge, row, t.actor, RolesOf[t.actor], TRUE) = "ok"
    BY <1>3, <2>1, <2>3 DEF EdgeVerdict
  <2>5. edge \in FindEdge(row.status, t.op)
    BY <1>3
  <2>6. QED
    BY <1>1, <1>2, <1>5, <2>1, <2>2, <2>3, <2>4, <2>5 DEF LegalStep, e
<1>6. QED
  BY <1>4, <1>5

(* What COMMIT does to the application it is about, and to no other.       *)
LEMMA CommitFacts ==
  ASSUME IInv, NEW r \in Req, Commit(r)
  PROVE  LET t == req[r] IN
         /\ t \in Request /\ t.app \in App /\ t.row \in Row
         /\ apps[t.app] \in Row /\ RowOK(apps[t.app]) /\ WrittenOK(t, apps[t.app])
         /\ apps'[t.app] = t.row
         /\ trail'[t.app] = Append(trail[t.app], EntryOf(t))
         /\ EntryOf(t) \in Entry
         /\ \A a \in App \ {t.app} : apps'[a] = apps[a] /\ trail'[a] = trail[a]
<1>1. /\ req[r].pc = "audited"
      /\ apps' = [apps EXCEPT ![req[r].app] = req[r].row]
      /\ trail' = [trail EXCEPT ![req[r].app] = Append(@, EntryOf(req[r]))]
  BY DEF Commit
<1>2. /\ req[r] \in Request /\ req[r].app \in App /\ req[r].row \in Row
      /\ apps[req[r].app] \in Row /\ RowOK(apps[req[r].app])
      /\ WrittenOK(req[r], apps[req[r].app])
  BY <1>1, InFlight DEF RequestOK
<1>3. req[r].op \in Operations /\ req[r].actor \in User
  BY <1>2, WrittenFacts
<1>4. EntryOf(req[r]) \in Entry
  BY <1>2, <1>3 DEF EntryOf, Entry, Request
<1>5. QED
  BY <1>1, <1>2, <1>4 DEF IInv, TypeOK

(* TrailIsLegalRun and what it needs to survive a COMMIT.                  *)
TrailInv ==
  /\ TrailIsLegalRun
  /\ \A a \in App : trail[a] # <<>> => apps[a].status # "ABSENT"

LEMMA TrailCommit ==
  ASSUME IInv, TrailInv, NEW r \in Req, Commit(r)
  PROVE  TrailInv'
<1>. DEFINE t == req[r]
            a == t.app
            old == trail[a]
            new == Append(old, EntryOf(t))
<1>1. /\ t \in Request /\ a \in App /\ t.row \in Row /\ apps[a] \in Row
      /\ RowOK(apps[a]) /\ WrittenOK(t, apps[a])
      /\ apps'[a] = t.row /\ trail'[a] = new /\ EntryOf(t) \in Entry
      /\ \A b \in App \ {a} : apps'[b] = apps[b] /\ trail'[b] = trail[b]
  BY CommitFacts
<1>2. old \in Seq(Entry)
  BY <1>1 DEF IInv, TypeOK
<1>3. t.row.status # "ABSENT"
  BY <1>1, WrittenFacts
<1>4. /\ EntryOf(t).event = t.op /\ EntryOf(t).actor = t.actor
      /\ EntryOf(t).after = t.row
  BY DEF EntryOf
<1>5. /\ new # <<>> /\ Len(new) = Len(old) + 1 /\ new[Len(new)] = EntryOf(t)
      /\ \A i \in 1..Len(old) : new[i] = old[i]
  BY <1>1, <1>2
<1>6. CASE old = <<>>
  <2>1. apps[a] = NoRow
    BY <1>1, <1>6 DEF TrailInv, TrailIsLegalRun
  <2>2. ~(Judged(t) /\ SameButContent(t.snap, apps[a]))
    <3>1. SUFFICES ASSUME Judged(t), SameButContent(t.snap, apps[a]) PROVE FALSE
      OBVIOUS
    <3>2. t.snap.status = apps[a].status
      BY <1>1, <3>1, SameFields DEF Request
    <3>3. QED
      BY <2>1, <3>1, <3>2 DEF Judged, NoRow
  <2>3. t.op = "created" /\ t.row = DraftRow(t.actor)
    BY <1>1, <2>2 DEF WrittenOK
  <2>4. Len(new) = 1 /\ new[1] = EntryOf(t)
    BY <1>1, <1>6
  <2>. HIDE DEF new, old, t
  <2>5. /\ new[1].event = "created" /\ new[1].after = DraftRow(new[1].actor)
        /\ \A i \in 2..Len(new) : LegalStep(new[i], new[i-1].after)
        /\ new[Len(new)].after = t.row
    <3>1. new[1].actor = t.actor
      BY <1>4, <2>4
    <3>2. QED
      BY <1>4, <2>3, <2>4, <3>1
  <2>6. QED
    BY <1>1, <1>3, <1>5, <2>5 DEF TrailInv, TrailIsLegalRun
<1>7. CASE old # <<>>
  <2>1. /\ old[1].event = "created" /\ old[1].after = DraftRow(old[1].actor)
        /\ \A i \in 2..Len(old) : LegalStep(old[i], old[i-1].after)
        /\ old[Len(old)].after = apps[a] /\ apps[a].status # "ABSENT"
    BY <1>1, <1>7 DEF TrailInv, TrailIsLegalRun
  <2>2. Len(old) \in Nat /\ Len(old) >= 1
    BY <1>2, <1>7
  <2>3. LegalStep(EntryOf(t), apps[a])
    BY <1>1, <2>1, LegalEntry
  <2>. HIDE DEF new, old, t
  <2>4. \A i \in 2..Len(new) : LegalStep(new[i], new[i-1].after)
    <3>1. SUFFICES ASSUME NEW i \in 2..Len(new)
                   PROVE  LegalStep(new[i], new[i-1].after)
      OBVIOUS
    <3>2. CASE i \in 2..Len(old)
      BY <1>5, <2>1, <2>2, <3>2
    <3>3. CASE i = Len(old) + 1
      <4>1. new[i] = EntryOf(t) /\ new[i-1] = old[Len(old)]
        BY <1>5, <2>2, <3>3
      <4>2. QED
        BY <2>1, <2>3, <4>1
    <3>4. QED
      BY <1>5, <2>2, <3>2, <3>3
  <2>5. /\ new[1].event = "created" /\ new[1].after = DraftRow(new[1].actor)
        /\ new[Len(new)].after = t.row
    BY <1>4, <1>5, <2>1, <2>2
  <2>6. QED
    BY <1>1, <1>3, <1>5, <2>4, <2>5 DEF TrailInv, TrailIsLegalRun
<1>8. QED
  BY <1>6, <1>7

(* The audit trail of every application is a run of the state machine that *)
(* ends in the row as it stands, for any number of concurrent requests.    *)
THEOREM LegalRun == Spec => []TrailIsLegalRun
<1>1. Init => TrailInv
  BY DEF Init, TrailInv, TrailIsLegalRun
<1>2. IInv /\ TrailInv /\ [Next]_vars => TrailInv'
  <2>. SUFFICES ASSUME IInv, TrailInv, [Next]_vars PROVE TrailInv'
    OBVIOUS
  <2>1. CASE UNCHANGED <<apps, trail, notes>>
    <3>1. apps' = apps /\ trail' = trail
      BY <2>1
    <3>2. QED
      BY <3>1 DEF TrailInv, TrailIsLegalRun
  <2>2. QED
    BY <2>1, TrailCommit, OnlyCommitWrites
<1>3. TrailInv => TrailIsLegalRun
  BY DEF TrailInv
<1>4. QED
  BY <1>1, <1>2, <1>3, Invariant, PTL DEF Spec

-----------------------------------------------------------------------------
(* version.                                                                *)

(* The places of a trail that record a transition.                         *)
Transitions(entries) == {i \in 1..Len(entries) : entries[i].event \in EVENTS}

(* Those of them before entry i.                                           *)
Earlier(entries, i) == {j \in Transitions(entries) : j < i}

LEMMA CountAppend ==
  ASSUME NEW old \in Seq(Entry), NEW e \in Entry
  PROVE  /\ Cardinality(Transitions(old)) \in Nat
         /\ e.event \in EVENTS =>
              Cardinality(Transitions(Append(old, e))) = Cardinality(Transitions(old)) + 1
         /\ e.event \notin EVENTS => Transitions(Append(old, e)) = Transitions(old)
<1>. DEFINE n == Len(old)
            new == Append(old, e)
<1>1. /\ n \in Nat /\ Len(new) = n + 1 /\ new[n + 1] = e
      /\ \A i \in 1..n : new[i] = old[i]
  OBVIOUS
<1>2. IsFiniteSet(Transitions(old))
  <2>1. IsFiniteSet(1..n)
    BY <1>1, FS_Interval
  <2>2. QED
    BY <2>1, FS_Subset DEF Transitions
<1>3. n + 1 \notin Transitions(old)
  BY <1>1 DEF Transitions
<1>. HIDE DEF new
<1>4. 1..(n + 1) = 1..n \cup {n + 1}
  BY <1>1
<1>5. CASE e.event \in EVENTS
  <2>1. Transitions(new) = Transitions(old) \cup {n + 1}
    BY <1>1, <1>4, <1>5 DEF Transitions
  <2>2. QED
    BY <1>2, <1>3, <1>5, <2>1, FS_AddElement, FS_CardinalityType DEF new
<1>6. CASE e.event \notin EVENTS
  <2>1. Transitions(new) = Transitions(old)
    BY <1>1, <1>4, <1>6 DEF Transitions
  <2>2. QED
    BY <1>2, <1>6, <2>1, FS_CardinalityType DEF new
<1>7. QED
  BY <1>5, <1>6

(* An appended entry has all the transitions so far before it, and takes   *)
(* no place before another.                                                *)
LEMMA EarlierAppend ==
  ASSUME NEW old \in Seq(Entry), NEW e \in Entry
  PROVE  /\ Earlier(Append(old, e), Len(old) + 1) = Transitions(old)
         /\ \A i \in 1..Len(old) : Earlier(Append(old, e), i) = Earlier(old, i)
<1>. DEFINE new == Append(old, e)
<1>1. /\ Len(old) \in Nat /\ Len(new) = Len(old) + 1
      /\ \A i \in 1..Len(old) : new[i] = old[i]
  OBVIOUS
<1>. HIDE DEF new
<1>2. ASSUME NEW i \in 1..(Len(old) + 1)
      PROVE  Earlier(new, i) = {j \in Transitions(old) : j < i}
  BY <1>1 DEF Earlier, Transitions
<1>3. {j \in Transitions(old) : j < Len(old) + 1} = Transitions(old)
  BY <1>1 DEF Transitions
<1>4. QED
  BY <1>1, <1>2, <1>3 DEF Earlier, new

(* A transaction that wrote judged a row of the version that is committed. *)
LEMMA SnapVersion ==
  ASSUME NEW t \in Request, NEW row \in Row, WrittenOK(t, row)
  PROVE  t.snap.version = row.version
<1>1. CASE t.snap = NoRow /\ row = NoRow
  BY <1>1
<1>2. CASE SameButContent(t.snap, row)
  BY <1>2, SameFields DEF Request
<1>3. QED
  BY <1>1, <1>2 DEF WrittenOK

(* An UPDATE bumps version when it is a transition, and only then.         *)
LEMMA VersionStep ==
  ASSUME NEW t \in Request, NEW row \in Row, WrittenOK(t, row)
  PROVE  t.row.version = IF t.op \in EVENTS THEN row.version + 1 ELSE row.version
<1>1. CASE t.op = "created" /\ row = NoRow /\ t.row = DraftRow(t.actor)
  BY <1>1 DEF NoRow, DraftRow, EVENTS
<1>2. CASE t.op = "updated" /\ Judged(t)
  <2>1. FindEdge(t.snap.status, t.op) = {}
    BY <1>2, FindEdgeFacts, EdgeFacts DEF EVENTS
  <2>2. t.row = [row EXCEPT !.content = @ + 1]
    BY <1>2, <2>1 DEF WrittenOK
  <2>3. QED
    BY <1>2, <2>2 DEF Row, EVENTS
<1>3. CASE t.op # "updated" /\ Judged(t)
  <2>1. t.op \in EVENTS /\ t.op # "created"
    BY <1>3 DEF Judged, EVENTS
  <2>2. PICK edge \in FindEdge(t.snap.status, t.op) : t.row = Patched(row, edge, t.actor)
    BY <1>3, <2>1 DEF WrittenOK
  <2>3. QED
    BY <2>1, <2>2 DEF Patched, Row
<1>4. QED
  BY <1>1, <1>2, <1>3 DEF WrittenOK

(* version is the number of transitions in the audit trail, and every      *)
(* entry was decided on the version that the transitions before it made,   *)
(* so that no two that read the same version commit (applications.repo.ts  *)
(* 68-87, 92-125).                                                         *)
THEOREM VersionCounts == Spec => []VersionCountsTransitions
<1>. DEFINE Counted(row, entries) ==
              /\ row.version = Cardinality(Transitions(entries))
              /\ \A i \in 1..Len(entries) :
                   entries[i].before.version = Cardinality(Earlier(entries, i))
<1>1. VersionCountsTransitions <=> \A a \in App : Counted(apps[a], trail[a])
  BY DEF VersionCountsTransitions, Transitions, Earlier
<1>2. VersionCountsTransitions' <=> \A a \in App : Counted(apps'[a], trail'[a])
  BY DEF VersionCountsTransitions, Transitions, Earlier
<1>3. ASSUME Init PROVE VersionCountsTransitions
  <2>1. Transitions(<<>>) = {} /\ Len(<<>>) = 0
    BY DEF Transitions
  <2>2. Counted(NoRow, <<>>)
    BY <2>1, FS_EmptySet DEF NoRow
  <2>3. QED
    BY <1>1, <1>3, <2>2 DEF Init
<1>4. IInv /\ VersionCountsTransitions /\ [Next]_vars => VersionCountsTransitions'
  <2>. SUFFICES ASSUME IInv, VersionCountsTransitions, [Next]_vars
                PROVE  VersionCountsTransitions'
    OBVIOUS
  <2>1. CASE UNCHANGED <<apps, trail, notes>>
    BY <2>1 DEF VersionCountsTransitions
  <2>2. ASSUME NEW r \in Req, Commit(r) PROVE VersionCountsTransitions'
    <3>1. PICK t : t = req[r]
      OBVIOUS
    <3>2. PICK a : a = t.app
      OBVIOUS
    <3>3. PICK e : e = EntryOf(t)
      OBVIOUS
    <3>4. PICK old : old = trail[a]
      OBVIOUS
    <3>5. /\ t \in Request /\ a \in App /\ apps[a] \in Row /\ WrittenOK(t, apps[a])
          /\ apps'[a] = t.row /\ trail'[a] = Append(old, e) /\ e \in Entry
          /\ \A b \in App \ {a} : apps'[b] = apps[b] /\ trail'[b] = trail[b]
      BY <2>2, <3>1, <3>2, <3>3, <3>4, CommitFacts
    <3>6. old \in Seq(Entry) /\ e.event = t.op /\ e.before = t.snap
      BY <3>3, <3>4, <3>5 DEF IInv, TypeOK, EntryOf
    <3>7. Counted(apps[a], old)
      BY <1>1, <3>4, <3>5
    <3>8. t.row.version = Cardinality(Transitions(Append(old, e)))
      BY <3>5, <3>6, <3>7, VersionStep, CountAppend
    <3>9. ASSUME NEW i \in 1..(Len(old) + 1)
          PROVE  Append(old, e)[i].before.version = Cardinality(Earlier(Append(old, e), i))
      <4>1. CASE i = Len(old) + 1
        <5>1. Append(old, e)[i] = e
          BY <3>6, <4>1
        <5>2. e.before.version = Cardinality(Transitions(old))
          BY <3>5, <3>6, <3>7, SnapVersion
        <5>3. QED
          BY <3>5, <3>6, <4>1, <5>1, <5>2, EarlierAppend
      <4>2. CASE i \in 1..Len(old)
        <5>1. Append(old, e)[i] = old[i]
          BY <3>6, <4>2
        <5>2. QED
          BY <3>5, <3>6, <3>7, <4>2, <5>1, EarlierAppend
      <4>3. QED
        BY <3>6, <4>1, <4>2
    <3>10. Counted(apps'[a], trail'[a])
      <4>1. Len(Append(old, e)) = Len(old) + 1
        BY <3>6
      <4>2. QED
        BY <3>5, <3>8, <3>9, <4>1
    <3>11. ASSUME NEW b \in App PROVE Counted(apps'[b], trail'[b])
      BY <1>1, <3>5, <3>10
    <3>12. QED
      BY <1>2, <3>11
  <2>3. QED
    BY <2>1, <2>2, OnlyCommitWrites
<1>5. QED
  BY <1>3, <1>4, Invariant, PTL DEF Spec

-----------------------------------------------------------------------------
(* Separation of duties.                                                   *)

(* The person columns an UPDATE writes are those of its actor: reviewed_by *)
(* on an assign and on nothing else, decided_by on a decision.             *)
LEMMA PeopleStep ==
  ASSUME NEW t \in Request, NEW row \in Row, WrittenOK(t, row), row.status # "ABSENT"
  PROVE  /\ t.row.reviewedBy = IF t.op = "assign" THEN t.actor ELSE row.reviewedBy
         /\ t.row.status \in {"APPROVED", "REJECTED"} => t.row.decidedBy = t.actor
<1>1. Judged(t)
  BY DEF WrittenOK, NoRow
<1>2. CASE t.op = "updated"
  <2>1. FindEdge(t.snap.status, t.op) = {}
    BY <1>2, FindEdgeFacts, EdgeFacts DEF EVENTS
  <2>2. t.row = [row EXCEPT !.content = @ + 1] /\ SameButContent(t.snap, row)
    BY <1>2, <2>1 DEF WrittenOK
  <2>3. row.status \in EDITABLE
    BY <1>1, <1>2, <2>2, SameFields DEF Judged, EVENTS, Request
  <2>4. QED
    BY <1>2, <2>2, <2>3 DEF Row, EDITABLE
<1>3. CASE t.op # "updated"
  <2>1. PICK edge \in FindEdge(t.snap.status, t.op) : t.row = Patched(row, edge, t.actor)
    BY <1>1, <1>3 DEF WrittenOK, Judged, EVENTS
  <2>2. edge \in TRANSITIONS /\ edge.event = t.op
    BY FindEdgeFacts
  <2>3. edge.assigns = "reviewer" <=> edge.event = "assign"
    BY <2>2 DEF TRANSITIONS, ApplicantEdge, ReviewerEdge, DecisionEdge
  <2>4. edge.to \in {"APPROVED", "REJECTED"} => edge.assigns = "approver"
    BY <2>2, EdgeFacts
  <2>5. QED
    BY <2>1, <2>2, <2>3, <2>4 DEF Patched, Row
<1>4. QED
  BY <1>2, <1>3

(* Entry i is the last assign of a trail.                                  *)
LastAssign(entries, i) ==
  /\ entries[i].event = "assign"
  /\ \A j \in i+1..Len(entries) : entries[j].event # "assign"

(* The columns and the trail name the same people.                         *)
PeopleAgree(row, entries) ==
  /\ row.reviewedBy # None =>
       \E i \in 1..Len(entries) :
         LastAssign(entries, i) /\ entries[i].actor = row.reviewedBy
  /\ row.status \in {"APPROVED", "REJECTED"} =>
       entries # <<>> /\ entries[Len(entries)].actor = row.decidedBy

LEMMA PeopleAppend ==
  ASSUME NEW t \in Request, NEW row \in Row, RowOK(row), WrittenOK(t, row),
         NEW entries \in Seq(Entry), EntryOf(t) \in Entry, PeopleAgree(row, entries)
  PROVE  PeopleAgree(t.row, Append(entries, EntryOf(t)))
<1>. DEFINE new == Append(entries, EntryOf(t))
            n == Len(entries)
<1>1. EntryOf(t).event = t.op /\ EntryOf(t).actor = t.actor
  BY DEF EntryOf
<1>2. /\ n \in Nat /\ Len(new) = n + 1 /\ new # <<>> /\ new[n + 1] = EntryOf(t)
      /\ \A i \in 1..n : new[i] = entries[i]
  OBVIOUS
<1>. HIDE DEF new
<1>3. CASE row.status = "ABSENT"
  <2>1. row = NoRow
    BY <1>3 DEF RowOK
  <2>2. t.op = "created" /\ t.row = DraftRow(t.actor)
    <3>1. SUFFICES ASSUME Judged(t), SameButContent(t.snap, row) PROVE FALSE
      BY DEF WrittenOK
    <3>2. QED
      BY <1>3, <3>1, SameFields DEF Judged, Request
  <2>3. t.row.reviewedBy = None /\ t.row.status = "DRAFT"
    BY <2>2 DEF DraftRow, NoRow
  <2>4. QED
    BY <2>3 DEF PeopleAgree
<1>4. CASE row.status # "ABSENT"
  <2>1. /\ t.row.reviewedBy = IF t.op = "assign" THEN t.actor ELSE row.reviewedBy
        /\ t.row.status \in {"APPROVED", "REJECTED"} => t.row.decidedBy = t.actor
    BY <1>4, PeopleStep
  <2>2. ASSUME t.row.reviewedBy # None
        PROVE  \E i \in 1..Len(new) :
                 LastAssign(new, i) /\ new[i].actor = t.row.reviewedBy
    <3>1. CASE t.op = "assign"
      <4>1. LastAssign(new, n + 1) /\ new[n + 1].actor = t.row.reviewedBy
        BY <1>1, <1>2, <2>1, <3>1 DEF LastAssign
      <4>2. QED
        BY <1>2, <4>1
    <3>2. CASE t.op # "assign"
      <4>1. PICK i \in 1..n :
              LastAssign(entries, i) /\ entries[i].actor = row.reviewedBy
        BY <2>1, <2>2, <3>2 DEF PeopleAgree
      <4>2. LastAssign(new, i)
        <5>1. SUFFICES ASSUME NEW j \in i+1..n+1 PROVE new[j].event # "assign"
          BY <1>2, <4>1 DEF LastAssign
        <5>2. CASE j = n + 1
          BY <1>1, <1>2, <3>2, <5>2
        <5>3. CASE j # n + 1
          BY <1>2, <4>1, <5>3 DEF LastAssign
        <5>4. QED
          BY <5>2, <5>3
      <4>3. QED
        BY <1>2, <2>1, <3>2, <4>1, <4>2
    <3>3. QED
      BY <3>1, <3>2
  <2>3. PeopleAgree(t.row, new)
    BY <1>1, <1>2, <2>1, <2>2 DEF PeopleAgree
  <2>4. QED
    BY <2>3 DEF new
<1>5. QED
  BY <1>3, <1>4 DEF new

(* A decided application names a reviewer and a decider who differ, in its *)
(* columns and in its audit trail alike.                                   *)
THEOREM SeparationOfDuties == Spec => []DecisionSeparate
<1>. DEFINE PInv == \A a \in App : PeopleAgree(apps[a], trail[a])
<1>1. Init => PInv
  BY DEF Init, PeopleAgree, NoRow
<1>2. IInv /\ PInv /\ [Next]_vars => PInv'
  <2>. SUFFICES ASSUME IInv, PInv, [Next]_vars, NEW a \in App
                PROVE  PeopleAgree(apps'[a], trail'[a])
    BY DEF PeopleAgree, LastAssign
  <2>1. CASE UNCHANGED <<apps, trail, notes>>
    BY <2>1
  <2>2. ASSUME NEW r \in Req, Commit(r) PROVE PeopleAgree(apps'[a], trail'[a])
    <3>1. CASE a = req[r].app
      <4>1. /\ req[r] \in Request /\ apps[a] \in Row /\ RowOK(apps[a])
            /\ WrittenOK(req[r], apps[a]) /\ EntryOf(req[r]) \in Entry
            /\ apps'[a] = req[r].row
            /\ trail'[a] = Append(trail[a], EntryOf(req[r]))
        BY <2>2, <3>1, CommitFacts
      <4>2. trail[a] \in Seq(Entry)
        BY DEF IInv, TypeOK
      <4>3. QED
        BY <4>1, <4>2, PeopleAppend
    <3>2. CASE a # req[r].app
      BY <2>2, <3>2, CommitFacts
    <3>3. QED
      BY <3>1, <3>2
  <2>3. QED
    BY <2>1, <2>2, OnlyCommitWrites
<1>3. IInv /\ PInv => DecisionSeparate
  <2>. SUFFICES ASSUME IInv, PInv, NEW a \in App,
                       apps[a].status \in {"APPROVED", "REJECTED"}
                PROVE  /\ apps[a].decidedBy # None /\ apps[a].reviewedBy # None
                       /\ \E i \in 1..Len(trail[a]) :
                            /\ trail[a][i].event = "assign"
                            /\ \A j \in i+1..Len(trail[a]) : trail[a][j].event # "assign"
                            /\ trail[a][i].actor = apps[a].reviewedBy
                            /\ trail[a][i].actor # trail[a][Len(trail[a])].actor
                            /\ trail[a][Len(trail[a])].actor = apps[a].decidedBy
    BY DEF DecisionSeparate
  <2>1. /\ apps[a].reviewedBy \in User /\ apps[a].decidedBy \in User
        /\ apps[a].decidedBy # apps[a].reviewedBy
    BY DEF IInv, RowOK
  <2>2. apps[a].decidedBy # None /\ apps[a].reviewedBy # None
    BY <2>1, NoneAssumption
  <2>3. QED
    BY <2>1, <2>2 DEF PeopleAgree, LastAssign
<1>. HIDE DEF PInv
<1>4. QED
  BY <1>1, <1>2, <1>3, Invariant, PTL DEF Spec

-----------------------------------------------------------------------------
(* The refinement.                                                         *)

LEMMA HistoryAppend ==
  ASSUME NEW entries \in Seq(Entry), NEW e \in Entry
  PROVE  HistoryOf(Append(entries, e)) =
           Append(HistoryOf(entries), [event |-> e.event, actor |-> e.actor])
<1>. DEFINE n == Len(entries)
            new == Append(entries, e)
            item == [event |-> e.event, actor |-> e.actor]
            old == HistoryOf(entries)
            Item == [event : Operations, actor : User]
<1>1. /\ n \in Nat /\ Len(new) = n + 1 /\ new[n + 1] = e /\ new \in Seq(Entry)
      /\ \A i \in 1..n : new[i] = entries[i] /\ entries[i] \in Entry
  OBVIOUS
<1>2. ASSUME NEW s \in Seq(Entry)
      PROVE  HistoryOf(s) \in Seq(Item) /\ Len(HistoryOf(s)) = Len(s)
  <2>1. Len(s) \in Nat /\ \A i \in 1..Len(s) : s[i] \in Entry
    OBVIOUS
  <2>2. \A i \in 1..Len(s) : [event |-> s[i].event, actor |-> s[i].actor] \in Item
    BY <2>1 DEF Entry
  <2>. HIDE DEF Item
  <2>3. HistoryOf(s) \in [1..Len(s) -> Item]
    BY <2>2 DEF HistoryOf
  <2>4. QED
    BY <2>1, <2>3
<1>3. item \in Item
  BY DEF Entry
<1>. HIDE DEF Item
<1>4. /\ old \in Seq(Item) /\ Len(old) = n
      /\ HistoryOf(new) \in Seq(Item) /\ Len(HistoryOf(new)) = n + 1
  BY <1>1, <1>2
<1>5. /\ \A i \in 1..n : old[i] = [event |-> entries[i].event, actor |-> entries[i].actor]
      /\ \A i \in 1..n+1 : HistoryOf(new)[i] = [event |-> new[i].event, actor |-> new[i].actor]
  BY <1>1 DEF HistoryOf
<1>. HIDE DEF new, old
<1>6. /\ Append(old, item) \in Seq(Item) /\ Len(Append(old, item)) = n + 1
      /\ Append(old, item)[n + 1] = item
      /\ \A i \in 1..n : Append(old, item)[i] = old[i]
  BY <1>3, <1>4, AppendProperties
<1>7. ASSUME NEW i \in 1..n+1
      PROVE  HistoryOf(new)[i] = Append(old, item)[i]
  <2>1. CASE i = n + 1
    BY <1>1, <1>5, <1>6, <2>1
  <2>2. CASE i # n + 1
    <3>1. i \in 1..n
      BY <1>1, <2>2
    <3>2. QED
      BY <1>1, <1>5, <1>6, <3>1
  <2>3. QED
    BY <2>1, <2>2
<1>. HIDE DEF item
<1>8. HistoryOf(new) = Append(old, item)
  BY <1>4, <1>6, <1>7, SeqEqual
<1>9. QED
  BY <1>8 DEF new, old, item

(* The abstract state machine is the concrete one.                         *)
LEMMA SameMachine ==
  /\ Abstract!EVENTS = EVENTS
  /\ \A status, event : Abstract!FindEdge(status, event) = FindEdge(status, event)
  /\ \A edge, row, u, held, message :
       Abstract!EdgeVerdict(edge, row, u, held, message) =
         EdgeVerdict(edge, row, u, held, message)
<1>1. Abstract!TRANSITIONS = TRANSITIONS
  BY DEF Abstract!TRANSITIONS, TRANSITIONS, Abstract!ApplicantEdge, ApplicantEdge,
         Abstract!ReviewerEdge, ReviewerEdge, Abstract!DecisionEdge, DecisionEdge
<1>2. QED
  BY <1>1
  DEF Abstract!EVENTS, EVENTS, Abstract!FindEdge, FindEdge, Abstract!EdgeVerdict,
      EdgeVerdict, Abstract!PickActorRole, PickActorRole, Abstract!NoRole, NoRole

(* Cases are equal when their fields are.                                  *)
Cases == [applicant : User \cup {None}, status : STATUSES \cup {"ABSENT"},
          reviewedBy : User \cup {None}, decidedBy : User \cup {None}]

LEMMA CasesEqual ==
  ASSUME NEW c1 \in Cases, NEW c2 \in Cases,
         c1.applicant = c2.applicant, c1.status = c2.status,
         c1.reviewedBy = c2.reviewedBy, c1.decidedBy = c2.decidedBy
  PROVE  c1 = c2
BY DEF Cases

LEMMA CaseOfType ==
  ASSUME NEW row \in Row
  PROVE  CaseOf(row) \in Cases
BY DEF CaseOf, Cases, Row

(* Opening a case and moving it along an edge, in its columns.             *)
LEMMA OpenedCase ==
  ASSUME NEW u \in User
  PROVE  CaseOf(DraftRow(u)) = [Abstract!NoCase EXCEPT !.applicant = u, !.status = "DRAFT"]
<1>. DEFINE c == [Abstract!NoCase EXCEPT !.applicant = u, !.status = "DRAFT"]
<1>1. Abstract!NoCase \in Cases /\ "DRAFT" \in STATUSES
  BY DEF Abstract!NoCase, Cases, STATUSES
<1>2. /\ c \in Cases /\ c.applicant = u /\ c.status = "DRAFT"
      /\ c.reviewedBy = None /\ c.decidedBy = None
  BY <1>1 DEF Abstract!NoCase, Cases
<1>3. /\ CaseOf(DraftRow(u)).applicant = u /\ CaseOf(DraftRow(u)).status = "DRAFT"
      /\ CaseOf(DraftRow(u)).reviewedBy = None /\ CaseOf(DraftRow(u)).decidedBy = None
  BY DEF CaseOf, DraftRow, NoRow
<1>4. CaseOf(DraftRow(u)) \in Cases
  BY DraftRowFacts, CaseOfType
<1>. HIDE DEF c
<1>5. QED
  BY <1>2, <1>3, <1>4, CasesEqual DEF c

LEMMA MovedCase ==
  ASSUME NEW row \in Row, NEW edge \in TRANSITIONS, NEW u \in User
  PROVE  CaseOf(Patched(row, edge, u)) = Abstract!Moved(CaseOf(row), edge, u)
<1>. DEFINE new == Patched(row, edge, u)
            c == Abstract!Moved(CaseOf(row), edge, u)
<1>1. new \in Row /\ CaseOf(new) \in Cases /\ CaseOf(row) \in Cases /\ edge.to \in STATUSES
  BY PatchedType, CaseOfType, EdgeFacts
<1>2. /\ CaseOf(new).applicant = row.applicant /\ CaseOf(new).status = edge.to
      /\ CaseOf(new).reviewedBy = IF edge.assigns = "reviewer" THEN u ELSE row.reviewedBy
      /\ CaseOf(new).decidedBy = IF edge.assigns = "approver" THEN u ELSE row.decidedBy
  BY DEF CaseOf, Patched, Row
<1>3. /\ c \in Cases /\ c.applicant = CaseOf(row).applicant /\ c.status = edge.to
      /\ c.reviewedBy = IF edge.assigns = "reviewer" THEN u ELSE CaseOf(row).reviewedBy
      /\ c.decidedBy = IF edge.assigns = "approver" THEN u ELSE CaseOf(row).decidedBy
  BY <1>1 DEF Abstract!Moved, Cases
<1>4. /\ CaseOf(row).applicant = row.applicant /\ CaseOf(row).reviewedBy = row.reviewedBy
      /\ CaseOf(row).decidedBy = row.decidedBy
  BY DEF CaseOf
<1>. HIDE DEF c, new
<1>5. QED
  BY <1>1, <1>2, <1>3, <1>4, CasesEqual DEF c, new

(* A COMMIT is one step of the abstract specification.                     *)
LEMMA CommitRefines ==
  ASSUME IInv, NEW r \in Req, Commit(r)
  PROVE  Abstract!LNext
<1>. DEFINE t == req[r]
            a == t.app
            u == t.actor
            row == apps[a]
            cases == [b \in App |-> CaseOf(apps[b])]
            step == [event |-> t.op, actor |-> u]
<1>1. /\ t \in Request /\ a \in App /\ t.row \in Row /\ row \in Row /\ RowOK(row)
      /\ WrittenOK(t, row) /\ EntryOf(t) \in Entry
      /\ apps'[a] = t.row /\ trail'[a] = Append(trail[a], EntryOf(t))
      /\ \A b \in App \ {a} : apps'[b] = apps[b] /\ trail'[b] = trail[b]
  BY CommitFacts
<1>2. u \in User /\ t.op \in Operations
  BY <1>1, WrittenFacts
<1>3. Abstract!Recorded(a, t.op, u)
  <2>1. trail[a] \in Seq(Entry)
    BY <1>1 DEF IInv, TypeOK
  <2>2. HistoryOf(trail'[a]) = Append(HistoryOf(trail[a]), step)
    BY <1>1, <2>1, HistoryAppend DEF EntryOf
  <2>3. QED
    BY <1>1, <2>2 DEF Abstract!Recorded
<1>4. cases[a] = CaseOf(row) /\ cases' = [cases EXCEPT ![a] = CaseOf(t.row)]
  BY <1>1
<1>5. CASE row.status = "ABSENT"
  <2>1. row = NoRow
    BY <1>1, <1>5 DEF RowOK
  <2>2. t.op = "created" /\ t.row = DraftRow(u)
    <3>1. SUFFICES ASSUME Judged(t), SameButContent(t.snap, row) PROVE FALSE
      BY <1>1 DEF WrittenOK
    <3>2. QED
      BY <1>1, <1>5, <3>1, SameFields DEF Judged, Request
  <2>3. /\ CaseOf(row) = Abstract!NoCase
        /\ CaseOf(t.row) = [Abstract!NoCase EXCEPT !.applicant = u, !.status = "DRAFT"]
    <3>1. CaseOf(NoRow) = Abstract!NoCase
      BY DEF Abstract!NoCase, CaseOf, NoRow
    <3>. HIDE DEF u
    <3>2. QED
      BY <1>2, <2>1, <2>2, <3>1, OpenedCase
  <2>4. Abstract!Open(a, u)
    BY <1>3, <1>4, <2>2, <2>3 DEF Abstract!Open
  <2>5. QED
    BY <1>1, <1>2, <2>4 DEF Abstract!LNext
<1>6. CASE row.status # "ABSENT" /\ t.op = "updated"
  <2>1. LegalStep(EntryOf(t), row)
    BY <1>1, <1>6, LegalEntry
  <2>2. /\ row.status \in EDITABLE /\ row.applicant = u
        /\ t.row = [row EXCEPT !.content = @ + 1]
    BY <1>6, <2>1 DEF LegalStep, EntryOf
  <2>3. "applicant" \in RolesOf[u]
    BY <1>1, <1>6 DEF WrittenOK, Judged, EVENTS
  <2>4. /\ CaseOf(t.row) = CaseOf(row) /\ CaseOf(row).applicant = u
        /\ CaseOf(row).status \in {"DRAFT", "RFI_REQUESTED"}
    BY <1>1, <2>2 DEF CaseOf, Row, EDITABLE
  <2>5. cases' = cases
    BY <1>4, <2>4
  <2>6. Abstract!Amend(a, u)
    BY <1>3, <1>4, <1>6, <2>3, <2>4, <2>5 DEF Abstract!Amend
  <2>7. QED
    BY <1>1, <1>2, <2>6 DEF Abstract!LNext
<1>7. CASE row.status # "ABSENT" /\ t.op # "updated"
  <2>1. LegalStep(EntryOf(t), row)
    BY <1>1, <1>7, LegalEntry
  <2>2. PICK edge \in FindEdge(row.status, t.op) :
          /\ EdgeVerdict(edge, row, u, RolesOf[u], TRUE) = "ok"
          /\ t.row = Patched(row, edge, u)
    BY <1>7, <2>1 DEF LegalStep, EntryOf
  <2>3. t.op \in EVENTS
    BY FindEdgeFacts, EdgeFacts
  <2>4. EdgeVerdict(edge, CaseOf(row), u, RolesOf[u], TRUE) = "ok"
    BY <2>2 DEF EdgeVerdict, CaseOf
  <2>5. CaseOf(t.row) = Abstract!Moved(CaseOf(row), edge, u)
    <3>1. edge \in TRANSITIONS
      BY FindEdgeFacts
    <3>. HIDE DEF u, row, t
    <3>2. QED
      BY <1>1, <1>2, <2>2, <3>1, MovedCase
  <2>6. Abstract!EdgeVerdict(edge, cases[a], u, RolesOf[u], TRUE) = "ok"
    BY <1>4, <2>4, SameMachine
  <2>7. edge \in Abstract!FindEdge(cases[a].status, t.op)
    BY <1>4, SameMachine DEF CaseOf
  <2>8. cases' = [cases EXCEPT ![a] = Abstract!Moved(cases[a], edge, u)]
    BY <1>4, <2>5
  <2>9. Abstract!Advance(a, u, t.op)
    BY <1>3, <2>6, <2>7, <2>8 DEF Abstract!Advance
  <2>10. QED
    BY <1>1, <1>2, <2>3, <2>9, SameMachine DEF Abstract!LNext
<1>8. QED
  BY <1>5, <1>6, <1>7

(* Concurrent requests implement people taking turns: every COMMIT is one  *)
(* legal step on the case as it is at that moment, and nothing else shows. *)
THEOREM Refinement == Spec => ImplementsLifecycle
<1>1. Init => Abstract!LInit
  <2>1. HistoryOf(<<>>) = <<>>
    BY DEF HistoryOf
  <2>2. QED
    BY <2>1 DEF Init, Abstract!LInit, Abstract!NoCase, CaseOf, NoRow
<1>2. IInv /\ [Next]_vars => [Abstract!LNext]_(Abstract!lifecycleVars)
  <2>. SUFFICES ASSUME IInv, [Next]_vars
                PROVE  [Abstract!LNext]_(Abstract!lifecycleVars)
    OBVIOUS
  <2>1. CASE UNCHANGED <<apps, trail, notes>>
    BY <2>1 DEF Abstract!lifecycleVars
  <2>2. QED
    BY <2>1, CommitRefines, OnlyCommitWrites
<1>3. QED
  BY <1>1, <1>2, Invariant, PTL DEF Spec, ImplementsLifecycle, Abstract!LSpec

-----------------------------------------------------------------------------
(* Notes.                                                                  *)

(* The requests that hold a note that is not committed yet.                *)
NotesInFlight ==
  \A r \in Req :
    /\ req[r].note => req[r].pc \in {"written", "audited"} /\ req[r].op = "request_info"
    /\ (req[r].pc = "audited" /\ req[r].op = "request_info") => req[r].note

(* RfiNoteWithTransition and what it needs to survive a COMMIT: the next   *)
(* note is of a later version than those there are.                        *)
NotesInv ==
  /\ NotesInFlight /\ RfiNoteWithTransition
  /\ \A a \in App : \A n \in DOMAIN notes[a] : notes[a][n].version <= apps[a].version

LEMMA NotesStep ==
  ASSUME NotesInFlight, NEW r \in Req, req \in [Req -> Request], NEW t,
         req' = [req EXCEPT ![r] = t],
         t.note => t.pc \in {"written", "audited"} /\ t.op = "request_info",
         (t.pc = "audited" /\ t.op = "request_info") => t.note
  PROVE  NotesInFlight'
BY DEF NotesInFlight

LEMMA NotesInFlightInvariant ==
  ASSUME IInv, NotesInFlight, [Next]_vars
  PROVE  NotesInFlight'
<1>1. req \in [Req -> Request]
  BY DEF IInv, TypeOK
<1>2. \A reply : Idle(reply).pc = "idle" /\ ~Idle(reply).note
  BY DEF Idle
<1>3. ASSUME NEW r \in Req, NEW reply, Answer(r, reply)
      PROVE  NotesInFlight'
  BY <1>1, <1>2, <1>3, NotesStep DEF Answer
<1>4. ASSUME NEW r \in Req, NEW t, Proceed(r, t), ~t.note, t.pc # "audited"
      PROVE  NotesInFlight'
  BY <1>1, <1>4, NotesStep DEF Proceed
<1>5. ASSUME NEW r \in Req, NEW u \in User, NEW a \in App, CreateDraft(r, u, a)
      PROVE  NotesInFlight'
  <2>1. PICK t : t = [Idle("none") EXCEPT !.pc = "written", !.op = "created", !.app = a,
                                          !.actor = u, !.role = "applicant",
                                          !.row = DraftRow(u)]
    OBVIOUS
  <2>2. ~t.note /\ t.pc = "written"
    BY <2>1 DEF Idle
  <2>3. Proceed(r, t)
    BY <1>5, <2>1 DEF CreateDraft
  <2>4. QED
    BY <1>4, <2>2, <2>3
<1>6. ASSUME NEW r \in Req, NEW u \in User, NEW event \in EVENTS, NEW a \in App,
             NEW message \in BOOLEAN, FindForTransition(r, u, event, a, message)
      PROVE  NotesInFlight'
  <2>1. ASSUME NEW edge,
               Proceed(r, [Idle("none") EXCEPT !.pc = "found", !.op = event, !.app = a,
                                               !.actor = u,
                                               !.role = PickActorRole(RolesOf[u], edge),
                                               !.snap = apps[a]])
        PROVE  NotesInFlight'
    <3>1. PICK t : t = [Idle("none") EXCEPT !.pc = "found", !.op = event, !.app = a,
                                            !.actor = u,
                                            !.role = PickActorRole(RolesOf[u], edge),
                                            !.snap = apps[a]]
      OBVIOUS
    <3>2. ~t.note /\ t.pc = "found"
      BY <3>1 DEF Idle
    <3>3. QED
      BY <1>4, <2>1, <3>1, <3>2
  <2>2. QED
    BY <1>3, <1>6, <2>1 DEF FindForTransition
<1>7. ASSUME NEW r \in Req, NEW u \in User, NEW a \in App, FindForEdit(r, u, a)
      PROVE  NotesInFlight'
  <2>1. PICK t : t = [Idle("none") EXCEPT !.pc = "found", !.op = "updated", !.app = a,
                                          !.actor = u, !.role = "applicant",
                                          !.snap = apps[a]]
    OBVIOUS
  <2>2. ~t.note /\ t.pc = "found"
    BY <2>1 DEF Idle
  <2>3. Proceed(r, t) \/ Answer(r, "refused")
    BY <1>7, <2>1 DEF FindForEdit
  <2>4. QED
    BY <1>3, <1>4, <2>2, <2>3
<1>8. ASSUME NEW r \in Req, TransitionWithVersion(r) \/ UpdateDraft(r)
      PROVE  NotesInFlight'
  <2>1. req[r] \in Request /\ req[r].pc = "found" /\ ~req[r].note
    BY <1>1, <1>8 DEF TransitionWithVersion, UpdateDraft, NotesInFlight, Request
  <2>2. ASSUME NEW new, Write(r, new)
        PROVE  NotesInFlight'
    <3>1. PICK t : t = [req[r] EXCEPT !.pc = "written", !.row = new]
      OBVIOUS
    <3>2. ~t.note /\ t.pc = "written"
      BY <2>1, <3>1 DEF Request
    <3>3. Proceed(r, t) \/ Answer(r, "db_error")
      BY <2>2, <3>1 DEF Write
    <3>4. QED
      BY <1>3, <1>4, <3>2, <3>3
  <2>3. QED
    BY <1>8, <2>2 DEF TransitionWithVersion, UpdateDraft
<1>9. ASSUME NEW r \in Req, InsertRfiNote(r)
      PROVE  NotesInFlight'
  <2>1. PICK t : t = [req[r] EXCEPT !.note = TRUE]
    OBVIOUS
  <2>2. t.note /\ t.pc = "written" /\ t.op = "request_info"
    BY <1>1, <1>9, <2>1 DEF InsertRfiNote, Request
  <2>3. QED
    BY <1>1, <1>9, <2>1, <2>2, NotesStep DEF InsertRfiNote, Proceed
<1>10. ASSUME NEW r \in Req, AppendAudit(r)
       PROVE  NotesInFlight'
  <2>1. PICK t : t = [req[r] EXCEPT !.pc = "audited"]
    OBVIOUS
  <2>2. t.note = req[r].note /\ t.pc = "audited" /\ t.op = req[r].op
    BY <1>1, <2>1 DEF Request
  <2>3. /\ req[r].note => req[r].op = "request_info"
        /\ req[r].op = "request_info" => req[r].note
    BY <1>10 DEF AppendAudit, NotesInFlight
  <2>4. QED
    BY <1>1, <1>10, <2>1, <2>2, <2>3, NotesStep DEF AppendAudit, Proceed
<1>11. ASSUME NEW r \in Req, Commit(r)
       PROVE  NotesInFlight'
  BY <1>1, <1>2, <1>11, NotesStep DEF Commit
<1>12. ASSUME NEW r \in Req, LoseRace(r) \/ Abort(r)
       PROVE  NotesInFlight'
  BY <1>3, <1>12 DEF LoseRace, Abort
<1>13. CASE UNCHANGED vars
  BY <1>13 DEF NotesInFlight, vars
<1>14. QED
  BY <1>5, <1>6, <1>7, <1>8, <1>9, <1>10, <1>11, <1>12, <1>13 DEF Next

(* A COMMIT adds a note exactly when it adds a request for information.    *)
LEMMA NotesCommit ==
  ASSUME IInv, NotesInv, NEW r \in Req, Commit(r)
  PROVE  /\ RfiNoteWithTransition'
         /\ \A a \in App : \A n \in DOMAIN notes'[a] :
              notes'[a][n].version <= apps'[a].version
<1>1. PICK t : t = req[r]
  OBVIOUS
<1>2. PICK a : a = t.app
  OBVIOUS
<1>3. PICK old : old = apps[a]
  OBVIOUS
<1>4. PICK e : e = EntryOf(t)
  OBVIOUS
<1>5. /\ t \in Request /\ a \in App /\ t.row \in Row /\ old \in Row /\ WrittenOK(t, old)
      /\ apps'[a] = t.row /\ trail'[a] = Append(trail[a], e) /\ e \in Entry
      /\ \A b \in App \ {a} : apps'[b] = apps[b] /\ trail'[b] = trail[b]
  BY <1>1, <1>2, <1>3, <1>4, CommitFacts
<1>6. /\ trail[a] \in Seq(Entry) /\ notes[a] \in Seq(Note)
      /\ notes \in [App -> Seq(Note)]
  BY <1>5 DEF IInv, TypeOK
<1>7. e.event = t.op /\ e.actor = t.actor /\ e.role = t.role /\ e.after = t.row
  BY <1>4 DEF EntryOf
<1>8. PICK note : note = [author |-> t.actor, role |-> t.role, version |-> t.row.version]
  OBVIOUS
<1>9. note = [author |-> e.actor, role |-> e.role, version |-> e.after.version]
  BY <1>7, <1>8
<1>10. /\ old.version \in Nat /\ note.version = t.row.version /\ t.row.version \in Nat
       /\ old.version <= t.row.version
       /\ t.op = "request_info" => old.version < t.row.version
       /\ note \in Note
  <2>1. t.row.version = IF t.op \in EVENTS THEN old.version + 1 ELSE old.version
    BY <1>5, VersionStep
  <2>2. old.version \in Nat /\ t.row.version \in Nat /\ "request_info" \in EVENTS
    BY <1>5 DEF Row, EVENTS
  <2>3. note \in Note
    BY <1>5, <1>7, <1>8, <2>2 DEF Note, Entry
  <2>4. QED
    BY <1>8, <2>1, <2>2, <2>3
<1>11. t.note <=> t.op = "request_info"
  BY <1>1, <1>5 DEF NotesInv, NotesInFlight, Commit
<1>12. /\ notes'[a] = IF t.note THEN Append(notes[a], note) ELSE notes[a]
       /\ \A b \in App \ {a} : notes'[b] = notes[b]
  BY <1>1, <1>2, <1>5, <1>6, <1>8 DEF Commit
<1>13. PICK p : p = trail[a]
  OBVIOUS
<1>14. PICK q : q = Append(p, e)
  OBVIOUS
<1>15. /\ Len(p) \in Nat /\ DOMAIN p = 1..Len(p) /\ DOMAIN q = 1..(Len(p) + 1)
       /\ q[Len(p) + 1] = e /\ \A i \in 1..Len(p) : q[i] = p[i]
       /\ q = trail'[a]
  BY <1>5, <1>6, <1>13, <1>14, AppendProperties, LenProperties
<1>16. PICK m : m = notes[a]
  OBVIOUS
<1>17. PICK k : k = IF t.note THEN Append(m, note) ELSE m
  OBVIOUS
<1>18. /\ Len(m) \in Nat /\ DOMAIN m = 1..Len(m)
       /\ DOMAIN k = IF t.note THEN 1..(Len(m) + 1) ELSE 1..Len(m)
       /\ t.note => k[Len(m) + 1] = note
       /\ \A i \in 1..Len(m) : k[i] = m[i] /\ m[i].version \in Nat
       /\ k = notes'[a]
  <2>1. Len(m) \in Nat /\ DOMAIN m = 1..Len(m) /\ \A i \in 1..Len(m) : m[i].version \in Nat
    <3>1. m \in Seq(Note)
      BY <1>6, <1>16
    <3>2. Len(m) \in Nat /\ DOMAIN m = 1..Len(m) /\ \A i \in 1..Len(m) : m[i] \in Note
      BY <3>1, LenProperties, ElementOfSeq
    <3>3. QED
      BY <3>2 DEF Note
  <2>2. CASE t.note
    BY <1>6, <1>10, <1>12, <1>16, <1>17, <2>1, <2>2, AppendProperties
  <2>3. CASE ~t.note
    BY <1>12, <1>16, <1>17, <2>1, <2>3
  <2>4. QED
    BY <2>2, <2>3, <2>1
<1>19. /\ \A n \in 1..Len(m) : m[n].version <= old.version
       /\ \A n \in 1..Len(m) : \E i \in 1..Len(p) :
            /\ p[i].event = "request_info"
            /\ m[n] = [author |-> p[i].actor, role |-> p[i].role, version |-> p[i].after.version]
       /\ \A i \in 1..Len(p) : p[i].event = "request_info" =>
            \E n \in 1..Len(m) :
              m[n] = [author |-> p[i].actor, role |-> p[i].role, version |-> p[i].after.version]
       /\ \A i, j \in 1..Len(m) : i < j => m[i].version < m[j].version
  <2>1. DOMAIN m = DOMAIN notes[a] /\ DOMAIN p = DOMAIN trail[a]
    BY <1>13, <1>16
  <2>2. \A n \in 1..Len(m) : m[n].version <= old.version
    BY <1>3, <1>5, <1>16, <1>18 DEF NotesInv
  <2>3. /\ \A n \in DOMAIN m : \E i \in {j \in DOMAIN p : p[j].event = "request_info"} :
             m[n] = [author |-> p[i].actor, role |-> p[i].role, version |-> p[i].after.version]
        /\ \A i \in {j \in DOMAIN p : p[j].event = "request_info"} : \E n \in DOMAIN m :
             m[n] = [author |-> p[i].actor, role |-> p[i].role, version |-> p[i].after.version]
        /\ \A i, j \in DOMAIN m : i < j => m[i].version < m[j].version
    BY <1>5, <1>13, <1>16 DEF NotesInv, RfiNoteWithTransition
  <2>4. DOMAIN m = 1..Len(m) /\ DOMAIN p = 1..Len(p)
    BY <1>15, <1>18
  <2>5. ASSUME NEW n \in 1..Len(m)
        PROVE  \E i \in 1..Len(p) :
                 /\ p[i].event = "request_info"
                 /\ m[n] = [author |-> p[i].actor, role |-> p[i].role,
                            version |-> p[i].after.version]
    BY <2>3, <2>4
  <2>6. ASSUME NEW i \in 1..Len(p), p[i].event = "request_info"
        PROVE  \E n \in 1..Len(m) :
                 m[n] = [author |-> p[i].actor, role |-> p[i].role,
                         version |-> p[i].after.version]
    BY <2>3, <2>4, <2>6
  <2>7. \A i, j \in 1..Len(m) : i < j => m[i].version < m[j].version
    BY <2>3, <2>4
  <2>8. QED
    BY <2>2, <2>5, <2>6, <2>7
<1>20. /\ \A n \in DOMAIN k : k[n].version <= t.row.version
       /\ \A n \in DOMAIN k : \E i \in DOMAIN q :
            /\ q[i].event = "request_info"
            /\ k[n] = [author |-> q[i].actor, role |-> q[i].role, version |-> q[i].after.version]
       /\ \A i \in DOMAIN q : q[i].event = "request_info" =>
            \E n \in DOMAIN k :
              k[n] = [author |-> q[i].actor, role |-> q[i].role, version |-> q[i].after.version]
       /\ \A i, j \in DOMAIN k : i < j => k[i].version < k[j].version
  <2>1. ASSUME NEW n \in DOMAIN k
        PROVE  /\ n \in 1..Len(m) \/ (t.note /\ n = Len(m) + 1)
               /\ k[n].version <= t.row.version
    BY <1>10, <1>18, <1>19
  <2>2. ASSUME NEW n \in DOMAIN k
        PROVE  \E i \in DOMAIN q :
                 /\ q[i].event = "request_info"
                 /\ k[n] = [author |-> q[i].actor, role |-> q[i].role,
                            version |-> q[i].after.version]
    <3>1. CASE n \in 1..Len(m)
      <4>1. PICK i \in 1..Len(p) :
              /\ p[i].event = "request_info"
              /\ m[n] = [author |-> p[i].actor, role |-> p[i].role,
                         version |-> p[i].after.version]
        BY <1>19, <3>1
      <4>2. i \in DOMAIN q /\ q[i] = p[i] /\ k[n] = m[n]
        BY <1>15, <1>18, <3>1
      <4>3. QED
        BY <4>1, <4>2
    <3>2. CASE t.note /\ n = Len(m) + 1
      <4>1. Len(p) + 1 \in DOMAIN q /\ q[Len(p) + 1] = e /\ k[n] = note
        BY <1>15, <1>18, <3>2
      <4>2. QED
        BY <1>7, <1>9, <1>11, <3>2, <4>1
    <3>3. QED
      BY <2>1, <3>1, <3>2
  <2>3. ASSUME NEW i \in DOMAIN q, q[i].event = "request_info"
        PROVE  \E n \in DOMAIN k :
                 k[n] = [author |-> q[i].actor, role |-> q[i].role,
                         version |-> q[i].after.version]
    <3>1. CASE i \in 1..Len(p)
      <4>1. q[i] = p[i]
        BY <1>15, <3>1
      <4>2. PICK n \in 1..Len(m) :
              m[n] = [author |-> p[i].actor, role |-> p[i].role,
                      version |-> p[i].after.version]
        BY <1>19, <2>3, <3>1, <4>1
      <4>3. n \in DOMAIN k /\ k[n] = m[n]
        BY <1>18
      <4>4. QED
        BY <4>1, <4>2, <4>3
    <3>2. CASE i = Len(p) + 1
      <4>1. q[i] = e /\ t.note
        BY <1>7, <1>11, <1>15, <2>3, <3>2
      <4>2. Len(m) + 1 \in DOMAIN k /\ k[Len(m) + 1] = note
        BY <1>18, <4>1
      <4>3. QED
        BY <1>9, <4>1, <4>2
    <3>3. QED
      BY <1>15, <3>1, <3>2
  <2>4. ASSUME NEW i \in DOMAIN k, NEW j \in DOMAIN k, i < j
        PROVE  k[i].version < k[j].version
    <3>1. i \in 1..Len(m)
      BY <1>18, <2>4
    <3>2. CASE j \in 1..Len(m)
      BY <1>18, <1>19, <2>4, <3>1, <3>2
    <3>3. CASE t.note /\ j = Len(m) + 1
      <4>1. k[j].version = t.row.version /\ old.version < t.row.version
        BY <1>10, <1>11, <1>18, <3>3
      <4>2. k[i].version <= old.version /\ k[i].version \in Nat
        BY <1>18, <1>19, <3>1
      <4>3. QED
        BY <1>10, <4>1, <4>2
    <3>4. QED
      BY <2>1, <3>2, <3>3
  <2>5. QED
    BY <2>1, <2>2, <2>3, <2>4
<1>21. ASSUME NEW b \in App
       PROVE  /\ \A n \in DOMAIN notes'[b] : notes'[b][n].version <= apps'[b].version
              /\ \A n \in DOMAIN notes'[b] : \E i \in DOMAIN trail'[b] :
                   /\ trail'[b][i].event = "request_info"
                   /\ notes'[b][n] = [author |-> trail'[b][i].actor, role |-> trail'[b][i].role,
                                      version |-> trail'[b][i].after.version]
              /\ \A i \in DOMAIN trail'[b] : trail'[b][i].event = "request_info" =>
                   \E n \in DOMAIN notes'[b] :
                     notes'[b][n] = [author |-> trail'[b][i].actor, role |-> trail'[b][i].role,
                                     version |-> trail'[b][i].after.version]
              /\ \A i, j \in DOMAIN notes'[b] :
                   i < j => notes'[b][i].version < notes'[b][j].version
  <2>1. CASE b = a
    BY <1>5, <1>15, <1>18, <1>20, <2>1
  <2>2. CASE b # a
    <3>1. apps'[b] = apps[b] /\ trail'[b] = trail[b] /\ notes'[b] = notes[b]
      BY <1>5, <1>12, <2>2
    <3>2. QED
      BY <3>1 DEF NotesInv, RfiNoteWithTransition
  <2>3. QED
    BY <2>1, <2>2
<1>22. QED
  BY <1>21 DEF RfiNoteWithTransition

(* The message of a request for information is pinned as a note if and     *)
(* only if the transition is committed, in the same order, by the same     *)
(* person in the same role.                                                *)
THEOREM NotesAreOfTransitions == Spec => []RfiNoteWithTransition
<1>1. Init => NotesInv
  BY EmptySeq DEF Init, NotesInv, NotesInFlight, RfiNoteWithTransition, Idle
<1>2. IInv /\ NotesInv /\ [Next]_vars => NotesInv'
  <2>. SUFFICES ASSUME IInv, NotesInv, [Next]_vars PROVE NotesInv'
    OBVIOUS
  <2>1. NotesInFlight'
    BY NotesInFlightInvariant DEF NotesInv
  <2>2. CASE UNCHANGED <<apps, trail, notes>>
    BY <2>1, <2>2 DEF NotesInv, RfiNoteWithTransition
  <2>3. QED
    BY <2>1, <2>2, NotesCommit, OnlyCommitWrites DEF NotesInv
<1>3. NotesInv => RfiNoteWithTransition
  BY DEF NotesInv
<1>4. QED
  BY <1>1, <1>2, <1>3, Invariant, PTL DEF Spec
=============================================================================
