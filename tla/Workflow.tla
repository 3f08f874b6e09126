------------------------------ MODULE Workflow ------------------------------
(***************************************************************************)
(* The write path of the applications service: createDraft, updateDraft    *)
(* and applyTransition, each one database transaction, run by concurrent   *)
(* requests against PostgreSQL at READ COMMITTED.                          *)
(*                                                                         *)
(* A step is one SQL statement of a transaction (with the pure code up to  *)
(* the next await), its COMMIT, or its rollback.  A statement sees what is *)
(* committed when it starts.  An UPDATE whose WHERE matches the committed  *)
(* row takes the row's lock, waiting for a transaction that holds it; the  *)
(* WHERE is then evaluated again on what that transaction committed.  The  *)
(* lock is held until the end of the transaction.                          *)
(*                                                                         *)
(* The audit chain's own locking is the subject of module AuditLog; here   *)
(* an audit row is one uncommitted insert that Commit makes visible with   *)
(* the rest of the transaction.                                            *)
(***************************************************************************)
EXTENDS StateMachine, Sequences, FiniteSets

CONSTANTS
  User,        \* people with an account
  RolesOf,     \* the roles loadRoles finds for each of them
  App,         \* ids an application can get
  Req,         \* request slots: at most this many requests are in flight
  None,        \* SQL NULL in a column that names a person or an id
  MaxVersion,  \* bound: no transition starts from a row at this version
  MaxContent   \* bound: no edit starts from a row with this many edits

ASSUME RolesAssumption == RolesOf \in [User -> SUBSET ROLES]
ASSUME NoneAssumption == None \notin User /\ None \notin App
ASSUME BoundAssumption == MaxVersion \in Nat /\ MaxContent \in Nat

VARIABLES
  apps,   \* apps[a]: the committed row of applications
  trail,  \* trail[a]: the committed audit rows about a, in id order
  notes,  \* notes[a]: the committed applicant-visible RFI notes
  req     \* req[r]: the transaction request slot r runs, or its last reply

vars == <<apps, trail, notes, req>>

-----------------------------------------------------------------------------
(* Rows.  content counts the edits of the applicant's form, its name, type *)
(* and payload: every edit writes a text not seen before.  stamps are the  *)
(* timestamp columns that are not NULL.  A row that does not exist has     *)
(* status ABSENT.                                                          *)

Row == [applicant : User \cup {None}, status : STATUSES \cup {"ABSENT"},
        version : Nat, reviewedBy : User \cup {None},
        decidedBy : User \cup {None},
        decision : {"none", "APPROVED", "REJECTED"},
        stamps : SUBSET STAMPS, content : Nat]

NoRow == [applicant |-> None, status |-> "ABSENT", version |-> 0,
          reviewedBy |-> None, decidedBy |-> None, decision |-> "none",
          stamps |-> {}, content |-> 0]

DraftRow(u) == [NoRow EXCEPT !.applicant = u, !.status = "DRAFT"]

Exists(a) == apps[a].status # "ABSENT"

EDITABLE == {"DRAFT", "RFI_REQUESTED"}

Operations == EVENTS \cup {"created", "updated"}

(* An audit row.  snapshotApplication leaves the payload out: content is   *)
(* there for the name and the type, and beyond them it is history.         *)
Entry == [event : Operations, actor : User, role : ROLES \cup {NoRole},
          before : Row, after : Row]

Note == [author : User, role : ROLES \cup {NoRole}, version : Nat]

(* "refused" is every 403, 404, 409 and 422 given before the UPDATE;       *)
(* "conflict" the ConcurrentUpdateError after it.                          *)
Replies == {"none", "ok", "refused", "conflict", "db_error", "aborted"}

Request == [pc : {"idle", "found", "written", "audited"}, reply : Replies,
            op : Operations \cup {"none"}, app : App \cup {None},
            actor : User \cup {None}, role : ROLES \cup {NoRole},
            snap : Row, row : Row, note : BOOLEAN]

TypeOK ==
  /\ apps \in [App -> Row]
  /\ trail \in [App -> Seq(Entry)]
  /\ notes \in [App -> Seq(Note)]
  /\ req \in [Req -> Request]

(* A slot that runs nothing and last answered reply.                       *)
Idle(reply) ==
  [pc |-> "idle", reply |-> reply, op |-> "none", app |-> None,
   actor |-> None, role |-> NoRole, snap |-> NoRow, row |-> NoRow, note |-> FALSE]

Init ==
  /\ apps = [a \in App |-> NoRow]
  /\ trail = [a \in App |-> <<>>]
  /\ notes = [a \in App |-> <<>>]
  /\ req = [r \in Req |-> Idle("none")]

-----------------------------------------------------------------------------
MutantHolds(r, a) ==  \* mutant: the row is locked only once its audit row is in
  req[r].pc = "audited" /\ req[r].app = a

(* What a transaction that changed the row of a still holds: its lock.     *)
Holds(r, a) == req[r].pc \in {"written", "audited"} /\ req[r].app = a

Locked(a) == \E r \in Req : Holds(r, a)

(* The transaction ends without an effect and the client gets reply.       *)
Answer(r, reply) ==
  /\ req' = [req EXCEPT ![r] = Idle(reply)]
  /\ UNCHANGED <<apps, trail, notes>>

(* The statement succeeds: the transaction goes on with the row it read or *)
(* wrote, nothing is committed.                                            *)
Proceed(r, state) ==
  /\ req' = [req EXCEPT ![r] = state]
  /\ UNCHANGED <<apps, trail, notes>>

(* chk_dual_control, chk_terminal_complete and chk_decision_matches.       *)
ViolatesCheck(new) ==
  \/ /\ new.decidedBy # None
     /\ new.reviewedBy # None
     /\ new.decidedBy = new.reviewedBy
  \/ /\ new.status \in {"APPROVED", "REJECTED"}
     /\ \/ new.decision = "none"
        \/ new.decidedBy = None
        \/ "decidedAt" \notin new.stamps
  \/ new.decision # "none" /\ new.decision # new.status

(* applications_block_terminal_update, before any UPDATE of the row.       *)
BlockedByTrigger(old) == IsTerminal(old.status)

DbRefuses(old, new) == BlockedByTrigger(old) \/ ViolatesCheck(new)

(* The row an accepted UPDATE leaves, applied to the committed row.        *)
Write(r, new) ==
  IF DbRefuses(apps[req[r].app], new)
  THEN Answer(r, "db_error")
  ELSE Proceed(r, [req[r] EXCEPT !.pc = "written", !.row = new])

MutantPatchedRole(row, edge, actor) ==  \* mutant: the role lands in reviewed_by
  [row EXCEPT !.status = edge.to, !.version = @ + 1,
              !.reviewedBy = IF edge.assigns = "reviewer" THEN edge.role ELSE @]

MutantPatchedFirst(row, edge, actor) ==  \* mutant: COALESCE(reviewed_by, actor)
  [row EXCEPT
     !.status = edge.to, !.version = @ + 1, !.stamps = @ \cup edge.stamps,
     !.reviewedBy = IF edge.assigns = "reviewer" /\ @ = None THEN actor ELSE @,
     !.decidedBy = IF edge.assigns = "approver" THEN actor ELSE @,
     !.decision = IF edge.decision # "none" THEN edge.decision ELSE @]

(* The SET clause of transitionWithVersion.                                *)
Patched(row, edge, actor) ==
  [row EXCEPT
     !.status = edge.to,
     !.version = @ + 1,
     !.reviewedBy = IF edge.assigns = "reviewer" THEN actor ELSE @,
     !.decidedBy = IF edge.assigns = "approver" THEN actor ELSE @,
     !.decision = IF edge.decision # "none" THEN edge.decision ELSE @,
     !.stamps = @ \cup edge.stamps]

-----------------------------------------------------------------------------
(* createDraft: INSERT of a row with a fresh id.                           *)
CreateDraft(r, u, a) ==
  /\ req[r].pc = "idle"
  /\ ~Exists(a) /\ ~Locked(a)
  /\ Proceed(r, [Idle("none") EXCEPT
                   !.pc = "written", !.op = "created", !.app = a, !.actor = u,
                   !.role = "applicant", !.row = DraftRow(u)])

(* applyTransition up to its UPDATE: findById, then transition().          *)
FindForTransition(r, u, event, a, message) ==
  LET row == apps[a]
      verdict == TransitionVerdict(row, event, u, RolesOf[u], message)
  IN /\ req[r].pc = "idle"
     /\ \/ ~Exists(a) /\ Answer(r, "refused")
        \/ Exists(a) /\ verdict # "ok" /\ Answer(r, "refused")
        \/ /\ Exists(a) /\ verdict = "ok"
           /\ row.version < MaxVersion
           /\ \E edge \in FindEdge(row.status, event) :
                Proceed(r, [Idle("none") EXCEPT
                              !.pc = "found", !.op = event, !.app = a, !.actor = u,
                              !.role = PickActorRole(RolesOf[u], edge), !.snap = row])

(* updateDraft up to its UPDATE: findById, canEditDraft, the status check. *)
FindForEdit(r, u, a) ==
  LET row == apps[a]
      mayEdit == row.applicant = u /\ "applicant" \in RolesOf[u]
  IN /\ req[r].pc = "idle"
     /\ \/ ~Exists(a) /\ Answer(r, "refused")
        \/ Exists(a) /\ ~mayEdit /\ Answer(r, "refused")
        \/ /\ Exists(a) /\ mayEdit /\ row.status \notin EDITABLE
           /\ Answer(r, "refused")
        \/ /\ Exists(a) /\ mayEdit /\ row.status \in EDITABLE
           /\ row.content < MaxContent
           /\ Proceed(r, [Idle("none") EXCEPT
                            !.pc = "found", !.op = "updated", !.app = a,
                            !.actor = u, !.role = "applicant", !.snap = row])

MutantStillMatches(r) ==  \* mutant: WHERE id alone
  Exists(req[r].app)

(* The predicate of an UPDATE on the committed row: WHERE id, version and  *)
(* status, which for updateDraft is any editable one.                      *)
StillMatches(r) ==
  LET row == apps[req[r].app]
  IN /\ row.version = req[r].snap.version
     /\ IF req[r].op = "updated" THEN row.status \in EDITABLE
        ELSE row.status = req[r].snap.status

(* transitionWithVersion, once the row is free.                            *)
TransitionWithVersion(r) ==
  /\ req[r].pc = "found" /\ req[r].op \in EVENTS
  /\ StillMatches(r) /\ ~Locked(req[r].app)
  /\ \E edge \in FindEdge(req[r].snap.status, req[r].op) :
       Write(r, Patched(apps[req[r].app], edge, req[r].actor))

(* updateDraft: sets the form's columns and leaves version alone.          *)
UpdateDraft(r) ==
  /\ req[r].pc = "found" /\ req[r].op = "updated"
  /\ StillMatches(r) /\ ~Locked(req[r].app)
  /\ Write(r, [apps[req[r].app] EXCEPT !.content = @ + 1])

(* The UPDATE of either matches no row: ConcurrentUpdateError.             *)
LoseRace(r) ==
  /\ req[r].pc = "found"
  /\ ~StillMatches(r)
  /\ Answer(r, "conflict")

(* request_info pins its message as a note, with the note's audit row.     *)
InsertRfiNote(r) ==
  /\ req[r].pc = "written" /\ req[r].op = "request_info" /\ ~req[r].note
  /\ Proceed(r, [req[r] EXCEPT !.note = TRUE])

MutantAppendNoNote(r) ==  \* mutant: request_info may skip its note
  /\ req[r].pc = "written"
  /\ Proceed(r, [req[r] EXCEPT !.pc = "audited"])

MutantAppendAllNotes(r) ==  \* mutant: every event waits for a note
  /\ req[r].pc = "written" /\ req[r].note
  /\ Proceed(r, [req[r] EXCEPT !.pc = "audited"])

(* audit.append of the transaction's last audit row.                       *)
AppendAudit(r) ==
  /\ req[r].pc = "written"
  /\ req[r].op = "request_info" => req[r].note
  /\ Proceed(r, [req[r] EXCEPT !.pc = "audited"])

(* The audit row of the transaction.                                       *)
EntryOf(t) == [event |-> t.op, actor |-> t.actor, role |-> t.role,
               before |-> t.snap, after |-> t.row]

(* COMMIT: row, note and audit row become visible together.                *)
Commit(r) ==
  LET t == req[r] IN
  /\ t.pc = "audited"
  /\ apps' = [apps EXCEPT ![t.app] = t.row]
  /\ trail' = [trail EXCEPT ![t.app] = Append(@, EntryOf(t))]
  /\ notes' = IF t.note
              THEN [notes EXCEPT ![t.app] =
                      Append(@, [author |-> t.actor, role |-> t.role,
                                 version |-> t.row.version])]
              ELSE notes
  /\ req' = [req EXCEPT ![r] = Idle("ok")]

(* A statement fails, the connection drops or the process dies: rollback.  *)
Abort(r) ==
  /\ req[r].pc # "idle"
  /\ Answer(r, "aborted")

-----------------------------------------------------------------------------
Next ==
  \E r \in Req :
    \/ \E u \in User, a \in App : CreateDraft(r, u, a)
    \/ \E u \in User, event \in EVENTS, a \in App, message \in BOOLEAN :
         /\ message => event = "request_info"  \* it is read for no other event
         /\ FindForTransition(r, u, event, a, message)
    \/ \E u \in User, a \in App : FindForEdit(r, u, a)
    \/ TransitionWithVersion(r)
    \/ UpdateDraft(r)
    \/ LoseRace(r)
    \/ InsertRfiNote(r)
    \/ AppendAudit(r)
    \/ Commit(r)
    \/ Abort(r)

Spec == Init /\ [][Next]_vars

(* PostgreSQL grants a row lock in the order it was asked for, so a waiter *)
(* whose UPDATE is possible again and again gets its turn; the other steps *)
(* wait for nothing.                                                       *)
Fairness ==
  \A r \in Req :
    /\ SF_vars(TransitionWithVersion(r))
    /\ SF_vars(UpdateDraft(r))
    /\ WF_vars(LoseRace(r))
    /\ WF_vars(InsertRfiNote(r))
    /\ WF_vars(AppendAudit(r))
    /\ WF_vars(Commit(r))

FairSpec == Spec /\ Fairness
-----------------------------------------------------------------------------
(* Equal rows but for the form's text, which only edits change.            *)
SameButContent(row1, row2) == row1 = [row2 EXCEPT !.content = row1.content]

(* What entry e of an audit trail must say about the row prev it found.    *)
LegalStep(e, prev) ==
  /\ SameButContent(e.before, prev)
  /\ IF e.event = "updated"
     THEN /\ prev.status \in EDITABLE
          /\ e.actor = prev.applicant
          /\ e.after = [prev EXCEPT !.content = @ + 1]
     ELSE \E edge \in FindEdge(prev.status, e.event) :
            /\ EdgeVerdict(edge, prev, e.actor, RolesOf[e.actor], TRUE) = "ok"
            /\ e.role = PickActorRole(RolesOf[e.actor], edge)
            /\ e.after = Patched(prev, edge, e.actor)

(* Every committed transaction judged a row it had read earlier, yet the   *)
(* audit trail of an application is a run of the state machine: each entry *)
(* is legal for, and acts on, exactly the row the entry before it left,    *)
(* and the last one left the row as it stands (applications.service.ts     *)
(* 136-215 with the predicated UPDATE of applications.repo.ts 92-125).     *)
TrailIsLegalRun ==
  \A a \in App :
    IF trail[a] = <<>> THEN apps[a] = NoRow
    ELSE /\ trail[a][1].event = "created"
         /\ trail[a][1].after = DraftRow(trail[a][1].actor)
         /\ \A i \in 2..Len(trail[a]) : LegalStep(trail[a][i], trail[a][i-1].after)
         /\ trail[a][Len(trail[a])].after = apps[a]

(* version is the number of transitions the audit trail has of the         *)
(* application (seed.ts 86 relies on it), and every entry was decided on   *)
(* the version that the transitions before it made: of two requests that   *)
(* read the same version at most one commits a transition, and an edit     *)
(* that read it commits only before that one (applications.repo.ts 68-87,  *)
(* 92-125).                                                                *)
VersionCountsTransitions ==
  \A a \in App :
    LET moves == {i \in 1..Len(trail[a]) : trail[a][i].event \in EVENTS}
    IN /\ apps[a].version = Cardinality(moves)
       /\ \A i \in 1..Len(trail[a]) :
            trail[a][i].before.version = Cardinality({j \in moves : j < i})

(* The CHECKs and the terminal-row trigger (schema.ts 209-223,             *)
(* 0003_triggers.sql 5-21) are a last line: the state machine and the      *)
(* predicated UPDATE never let a write reach them that they must refuse.   *)
BeltsStayUnused == \A r \in Req : req[r].reply # "db_error"

(* A decided application names a reviewer and a decider who differ, and    *)
(* the audit trail says the same: whoever was assigned last did not take   *)
(* the decision (state-machine.ts 221-223).                                *)
DecisionSeparate ==
  \A a \in App : apps[a].status \in {"APPROVED", "REJECTED"} =>
    /\ apps[a].decidedBy # None /\ apps[a].reviewedBy # None
    /\ \E i \in 1..Len(trail[a]) :
         /\ trail[a][i].event = "assign"
         /\ \A j \in i+1..Len(trail[a]) : trail[a][j].event # "assign"
         /\ trail[a][i].actor = apps[a].reviewedBy
         /\ trail[a][i].actor # trail[a][Len(trail[a])].actor
         /\ trail[a][Len(trail[a])].actor = apps[a].decidedBy

(* The RFI message is pinned if and only if the transition it belongs to   *)
(* is committed, by the same actor in the same role, once (no two          *)
(* transitions lead to one version) and in order                           *)
(* (applications.service.ts 177-200).                                      *)
RfiNoteWithTransition ==
  \A a \in App :
    LET pinned(e) == [author |-> e.actor, role |-> e.role, version |-> e.after.version]
        rounds == {i \in DOMAIN trail[a] : trail[a][i].event = "request_info"}
    IN /\ \A n \in DOMAIN notes[a] : \E i \in rounds : notes[a][n] = pinned(trail[a][i])
       /\ \A i \in rounds : \E n \in DOMAIN notes[a] : notes[a][n] = pinned(trail[a][i])
       /\ \A m, n \in DOMAIN notes[a] : m < n => notes[a][m].version < notes[a][n].version

(* A row that reached a terminal status never changes again, and gets no   *)
(* further audit entry, whatever was in flight (0003_triggers.sql 5-21).   *)
TerminalFrozen ==
  [][\A a \in App : IsTerminal(apps[a].status) =>
       apps'[a] = apps[a] /\ trail'[a] = trail[a]]_vars

(* Every request is answered: no wait for a row lock is forever.           *)
EveryRequestAnswered == \A r \in Req : req[r].pc # "idle" ~> req[r].pc = "idle"

-----------------------------------------------------------------------------
(* The inductive invariant: what every request in flight still knows about *)
(* the committed row, and what every committed row satisfies.              *)

(* The state machine accepted t on the row t read.                         *)
Judged(t) ==
  /\ t.app \in App /\ t.actor \in User /\ t.role # NoRole
  /\ t.snap.status # "ABSENT"
  /\ \/ /\ t.op = "updated"
        /\ t.snap.status \in EDITABLE
        /\ t.snap.applicant = t.actor
        /\ "applicant" \in RolesOf[t.actor]
     \/ /\ t.op \in EVENTS
        /\ \E edge \in FindEdge(t.snap.status, t.op) :
             /\ EdgeVerdict(edge, t.snap, t.actor, RolesOf[t.actor], TRUE) = "ok"
             /\ t.role = PickActorRole(RolesOf[t.actor], edge)

(* Before its UPDATE: the row moved to a later version, or only its text   *)
(* did.                                                                    *)
FoundOK(t, row) ==
  /\ Judged(t)
  /\ row.status # "ABSENT"
  /\ t.snap.version <= row.version
  /\ t.snap.version = row.version => SameButContent(t.snap, row)

(* After its UPDATE: the row is as it was judged, and t's own row is that  *)
(* row after t's step.                                                     *)
WrittenOK(t, row) ==
  \/ /\ t.op = "created"
     /\ t.app \in App /\ t.actor \in User
     /\ row = NoRow /\ t.snap = NoRow /\ t.row = DraftRow(t.actor)
  \/ /\ Judged(t)
     /\ SameButContent(t.snap, row)
     /\ \/ t.op = "updated" /\ t.row = [row EXCEPT !.content = @ + 1]
        \/ \E edge \in FindEdge(t.snap.status, t.op) : t.row = Patched(row, edge, t.actor)

RequestOK(t, row) ==
  /\ t.pc = "found" => FoundOK(t, row)
  /\ t.pc \in {"written", "audited"} => WrittenOK(t, row)

(* What the CHECKs demand, and the reviewer a case keeps once assigned.    *)
RowOK(row) ==
  /\ row.status = "ABSENT" => row = NoRow
  /\ row.status # "ABSENT" => row.applicant \in User
  /\ row.status \in {"UNDER_REVIEW", "RFI_REQUESTED", "READY_FOR_DECISION", "APPROVED",
                     "REJECTED"} => row.reviewedBy \in User
  /\ IF row.status \in {"APPROVED", "REJECTED"}
     THEN /\ row.decidedBy \in User /\ row.decidedBy # row.reviewedBy
          /\ row.decision = row.status
          /\ "decidedAt" \in row.stamps
     ELSE row.decidedBy = None /\ row.decision = "none"

IInv ==
  /\ TypeOK
  /\ \A a \in App : RowOK(apps[a])
  /\ \A r \in Req : req[r].pc # "idle" => RequestOK(req[r], apps[req[r].app])
  /\ \A a \in App : \A r, s \in Req : Holds(r, a) /\ Holds(s, a) => r = s
  /\ BeltsStayUnused

-----------------------------------------------------------------------------
(* The abstract state a committed database stands for.                     *)

CaseOf(row) == [applicant |-> row.applicant, status |-> row.status,
                reviewedBy |-> row.reviewedBy, decidedBy |-> row.decidedBy]

HistoryOf(entries) ==
  [i \in 1..Len(entries) |-> [event |-> entries[i].event, actor |-> entries[i].actor]]

Abstract == INSTANCE Lifecycle WITH
              case <- [a \in App |-> CaseOf(apps[a])],
              history <- [a \in App |-> HistoryOf(trail[a])]

(* Seen from the committed rows, concurrent requests are indistinguishable *)
(* from people taking turns: every COMMIT is one legal step on the row as  *)
(* it is at that moment.                                                   *)
ImplementsLifecycle == Abstract!LSpec

-----------------------------------------------------------------------------
(* Statements of the documentation that the code does not keep.            *)

(* The PATCH route documents "409: Concurrent update; refresh and retry"   *)
(* (routes/applications.ts 125): an edit that commits acted on what its    *)
(* author read, so no edit disappears under another.                       *)
EditsActOnWhatTheyRead ==
  \A a \in App : \A i \in 2..Len(trail[a]) :
    trail[a][i].event = "updated" => trail[a][i].before = trail[a][i-1].after

(* design.md 66: "an admin who reviewed an application cannot then approve *)
(* it".  Nobody who took a reviewer's step on it takes the decision.       *)
NoReviewerDecides ==
  \A a \in App : \A i, j \in 1..Len(trail[a]) :
    /\ trail[a][i].event \in {"assign", "request_info", "mark_ready"}
    /\ trail[a][j].event \in {"approve", "reject"}
    => trail[a][i].actor # trail[a][j].actor
=============================================================================
