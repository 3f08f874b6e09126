------------------------------- MODULE Portal -------------------------------
(***************************************************************************)
(* One browser tab of the portal against a backend that others change      *)
(* meanwhile: the application page with its loads, buttons, compose form,  *)
(* notes and uploads, the edit form and the form of a new application.     *)
(*                                                                         *)
(* A page keeps showing what it loaded.  A click sends an event, never the *)
(* version it was decided on; only a success reloads the page, and while a *)
(* reload is under way the old rows, and their buttons, are still there.   *)
(*                                                                         *)
(* Each request of the backend is one step here: how the statements of two *)
(* of them interleave is module Workflow, of two uploads Documents, of two *)
(* role changes RoleAdmin.                                                 *)
(***************************************************************************)
EXTENDS Pages, SequencesExt

CONSTANTS
  User,         \* the people who use the portal
  Viewer,       \* those of them whose tab may be the observed one
  Nobody,       \* nobody
  RolesOf,      \* RolesOf[u]: the sets of roles that u has at some time
  Limits,       \* page limits the queues are asked about
  Others,       \* bound: the requests that come from elsewhere than the tab
  HistoryLimit, \* audit rows the history endpoint returns at most
  MaxMoves,     \* bound: no transition once its moves are made
  MaxExtras     \* bound: edits, notes, uploads and further applications

ASSUME PortalAssumption ==
  /\ Nobody \notin User /\ IsFiniteSet(User) /\ Viewer \subseteq User
  /\ RolesOf \in [User -> SUBSET SUBSET ROLES]
  /\ \A limits \in Limits : /\ {limits.inbox, limits.home, limits.list} \subseteq Nat \ {0}
                             /\ limits.inbox <= limits.home /\ limits.home <= limits.list
  /\ HistoryLimit \in Nat \ {0}
  /\ MaxMoves \in Nat /\ MaxExtras \in Nat

VARIABLES
  apps,    \* the applications, in creation order
  lists,   \* the notes and documents of each
  roles,   \* roles[u]: the roles u has now
  tab      \* the tab

vars == <<apps, lists, roles, tab>>

-----------------------------------------------------------------------------
(* What a payload holds beyond the fields of the forms: a key of its own,  *)
(* which the advanced panel shows, or one inside "contact", which nothing  *)
(* shows.                                                                  *)
KEYS == {"advanced", "contact"}

(* The columns of an application: its payload is its further keys and how  *)
(* often it was edited, reason is the version whose transition gave the    *)
(* one in decision_reason (0: it is NULL), and rfis counts the requests    *)
(* for information so far.                                                 *)
NewRow(user, keys) ==
  [applicant |-> user, status |-> "DRAFT", version |-> 0, reviewedBy |-> Nobody,
   reason |-> 0, keys |-> keys, edits |-> 0, rfis |-> 0]

NoRow == NewRow(Nobody, {})

(* What else hangs on an application: the notes staff posted on its own,   *)
(* by visibility, and the documents.                                       *)
NoLists == [applicant |-> 0, staff |-> 0, documents |-> 0]

(* The cards whose items the row next to them speaks of.                   *)
CARDS == {"notes", "history"}

(* What load has read, or the page shows: the row and the roles, and, once *)
(* shown, the cards that lack an item the row speaks of.                   *)
NoView == [stage |-> "none", row |-> NoRow, held |-> {}, behind |-> {}]

Loading == [NoView EXCEPT !.stage = "row"]

NoRequest == [op |-> "none"]

(* A request on its way, the row its page showed, and the row that offered *)
(* what it asks: the page's row when its button was clicked.               *)
NotSent == [request |-> NoRequest, from |-> NoRow, offer |-> NoRow]

(* The compose form: the event it confirms, and the row that offered it.   *)
NoCompose == [event |-> "none", offer |-> NoRow]

(* A form: whether its script runs yet; of its advanced panel, whether it  *)
(* is open, whether its text has the key, and whether values.payload has;  *)
(* and, as history, whether the user has seen or caused the key to be      *)
(* missing, and whether the form was sent before its script ran.           *)
NoForm == [script |-> FALSE, open |-> FALSE, text |-> FALSE, base |-> FALSE,
           seen |-> FALSE, early |-> FALSE]

Closed == [page |-> "none", user |-> Nobody, app |-> 0, shown |-> NoView,
           next |-> NoView, composing |-> NoCompose, sent |-> NotSent, form |-> NoForm]

Detail(user, app) ==
  [Closed EXCEPT !.page = "detail", !.user = user, !.app = app, !.next = Loading]

-----------------------------------------------------------------------------
(* What the pages send.                                                    *)

(* Whether the form of an event carries a reason.                          *)
Reasons(event) == IF Needs(event) = "reason" THEN BOOLEAN ELSE {FALSE}

Transition(event, reason) == [op |-> "transition", event |-> event, reason |-> reason]
Note(visibility) == [op |-> "note", visibility |-> visibility]
Upload == [op |-> "upload"]
Save(keys) == [op |-> "save", keys |-> keys]
Create(keys) == [op |-> "create", keys |-> keys]

(* The API takes a reason with any event.                                  *)
Requests ==
  {Note("applicant"), Note("staff"), Upload}
    \cup {Save(keys) : keys \in SUBSET KEYS}
    \cup {Transition(event, reason) : event \in EVENTS, reason \in BOOLEAN}

ASSUME OthersAssumption == Others \subseteq Requests

-----------------------------------------------------------------------------
(* What the backend makes of a request: the row after it, or the list that *)
(* gets a new item, in a set that is empty when it refuses.                *)

MutantTransitioned(row, user, held, event, reason) ==  \* mutant: found by event alone
  {[row EXCEPT !.status = edge.to,
               !.version = @ + 1,
               !.reviewedBy = IF edge.assigns = "reviewer" THEN user ELSE @,
               !.reason = IF reason THEN row.version + 1 ELSE 0,
               !.rfis = IF event = "request_info" THEN @ + 1 ELSE @] :
     edge \in {e \in TRANSITIONS :
                 e.event = event /\ EdgeVerdict(e, row, user, held, TRUE) = "ok"}}

MutantKeepsReason(row, user, held, event, reason) ==  \* mutant: none given, none written
  {[row EXCEPT !.status = edge.to,
               !.version = @ + 1,
               !.reviewedBy = IF edge.assigns = "reviewer" THEN user ELSE @,
               !.reason = IF reason THEN row.version + 1 ELSE @,
               !.rfis = IF event = "request_info" THEN @ + 1 ELSE @] :
     edge \in {e \in FindEdge(row.status, event) :
                 EdgeVerdict(e, row, user, held, TRUE) = "ok"}}

(* decision_reason is written by every transition, with NULL when it       *)
(* brings no reason.                                                       *)
Transitioned(row, user, held, event, reason) ==
  {[row EXCEPT !.status = edge.to,
               !.version = @ + 1,
               !.reviewedBy = IF edge.assigns = "reviewer" THEN user ELSE @,
               !.reason = IF reason THEN row.version + 1 ELSE 0,
               !.rfis = IF event = "request_info" THEN @ + 1 ELSE @] :
     edge \in {e \in FindEdge(row.status, event) :
                 EdgeVerdict(e, row, user, held, TRUE) = "ok"}}

MutantSaved(row, user, held, keys) ==  \* mutant: editable until it is decided
  IF canEditDraft(row, user, held) /\ ~IsTerminal(row.status)
  THEN {[row EXCEPT !.keys = keys, !.edits = @ + 1]} ELSE {}

Saved(row, user, held, keys) ==
  IF canEditDraft(row, user, held) /\ row.status \in EDITABLE_STATUSES
  THEN {[row EXCEPT !.keys = keys, !.edits = @ + 1]} ELSE {}

After(row, user, held, request) ==
  CASE request.op = "transition" ->
         Transitioned(row, user, held, request.event, request.reason)
    [] request.op = "save" -> Saved(row, user, held, request.keys)
    [] OTHER -> {}

(* A note is posted by staff, a document by the owner of an editable row.  *)
Added(row, user, held, request) ==
  CASE request.op = "note" -> IF hasStaffRole(held) THEN {request.visibility} ELSE {}
    [] request.op = "upload" ->
         IF IsOwner(row, user) /\ row.status \in EDITABLE_STATUSES
         THEN {"documents"} ELSE {}
    [] OTHER -> {}

Total(count(_)) == FoldFunction(+, 0, [i \in DOMAIN apps |-> count(i)])

ExtrasOf(i) ==
  1 + apps[i].edits + lists[i].applicant + lists[i].staff + lists[i].documents

(* The bounds: no further form is sent, and no further transition made, by *)
(* then.  An application is two moves and each of its transitions one.     *)
Room == Total(ExtrasOf) <= MaxExtras

RoomToMove == LET moves(i) == 2 + apps[i].version IN Total(moves) < MaxMoves

Created(user, keys) ==
  /\ isApplicant(roles[user]) /\ Room
  /\ apps' = Append(apps, NewRow(user, keys))
  /\ lists' = Append(lists, NoLists)

Performed(i, user, request) ==
  /\ \/ /\ \E row \in After(apps[i], user, roles[user], request) :
             apps' = [apps EXCEPT ![i] = row]
        /\ UNCHANGED lists
     \/ /\ \E list \in Added(apps[i], user, roles[user], request) :
             lists' = [lists EXCEPT ![i][list] = @ + 1]
        /\ UNCHANGED apps
  /\ IF request.op = "transition" THEN RoomToMove ELSE Room

-----------------------------------------------------------------------------
Init ==
  /\ apps = <<>> /\ lists = <<>>
  /\ roles \in {held \in [User -> SUBSET ROLES] : \A u \in User : held[u] \in RolesOf[u]}
  /\ tab = Closed

(* Another client of anybody: a new draft with further keys, a request, a  *)
(* change of roles.                                                        *)
OthersCreate(user) == Created(user, KEYS) /\ UNCHANGED <<roles, tab>>

OthersAct(user, i, request) == Performed(i, user, request) /\ UNCHANGED <<roles, tab>>

ChangeRoles(user, held) ==
  /\ roles[user] # held
  /\ roles' = [roles EXCEPT ![user] = held]
  /\ UNCHANGED <<apps, lists, tab>>

-----------------------------------------------------------------------------
(* Loading the application page.                                           *)

Set(state) == tab' = state /\ UNCHANGED <<apps, lists, roles>>

Open(user, i) ==
  /\ tab = Closed
  /\ Set(Detail(user, i))

Close ==
  /\ tab # Closed
  /\ Set(Closed)

(* The hook's roles and the row.                                           *)
LoadRow ==
  /\ tab.next.stage = "row"
  /\ canViewApplication(apps[tab.app], tab.user, roles[tab.user])
  /\ Set([tab EXCEPT !.next.stage = "lists", !.next.row = apps[tab.app],
                     !.next.held = roles[tab.user]])

(* Refused, or the backend is out of reach: the error page.                *)
LoadFails ==
  /\ tab.next.stage = "row"
  /\ Set(Closed)

(* The notes a viewer is given: applicants see those addressed to them,    *)
(* which the request for information is.                                   *)
MutantNotesFor(i, held) ==  \* mutant: a request for information is a staff note
  lists[i].applicant + IF hasStaffRole(held) THEN lists[i].staff + apps[i].rfis ELSE 0

NotesFor(i, held) ==
  apps[i].rfis + lists[i].applicant + IF hasStaffRole(held) THEN lists[i].staff ELSE 0

(* The audit rows of an application, and how many of them the history      *)
(* card is given: the oldest, up to the limit.                             *)
HistoryOf(row) == 1 + row.version + row.edits

ListForResource(row) ==
  IF HistoryOf(row) > HistoryLimit THEN HistoryLimit ELSE HistoryOf(row)

(* What a card lacks of what the row next to it speaks of.                 *)
IsBehind(card, row) ==
  CASE card = "notes" -> NotesFor(tab.app, roles[tab.user]) < row.rfis
    [] card = "history" -> ListForResource(apps[tab.app]) < HistoryOf(row)

Show(cards) ==
  LET behind == {c \in cards : IsBehind(c, tab.next.row)}
  IN /\ tab.next.stage = "lists"
     /\ Set([tab EXCEPT !.shown = [tab.next EXCEPT !.stage = "shown", !.behind = behind],
                        !.next = NoView])

(* Promise.all: the lists, each of which may fail on its own and leaves    *)
(* its card out.                                                           *)
LoadLists ==
  /\ Show(CARDS)
  /\ canViewApplication(apps[tab.app], tab.user, roles[tab.user])

ListsFail == Show({})

-----------------------------------------------------------------------------
(* The application page's forms.                                           *)

Offered == allowedEvents(tab.shown.row, tab.user, tab.shown.held)

Shown == tab.page = "detail" /\ tab.shown.stage = "shown"

Idle == tab.sent = NotSent

Send(request, offer) ==
  /\ Idle
  /\ Set([tab EXCEPT !.sent = [request |-> request, from |-> tab.shown.row, offer |-> offer]])

Click(event) ==
  /\ Shown /\ Needs(event) = "nothing" /\ event \in Offered
  /\ Send(Transition(event, FALSE), tab.shown.row)

MutantStartCompose(event) ==  \* mutant: every button opens the form
  /\ Shown /\ Idle
  /\ event \in Offered
  /\ Set([tab EXCEPT !.composing = [event |-> event, offer |-> tab.shown.row]])

(* A button with a form: another one's form, if it is up, gives way.       *)
StartCompose(event) ==
  /\ Shown /\ Idle
  /\ Needs(event) # "nothing" /\ event \in Offered
  /\ Set([tab EXCEPT !.composing = [event |-> event, offer |-> tab.shown.row]])

CancelCompose ==
  /\ Shown /\ tab.composing # NoCompose /\ Offered # {}
  /\ Set([tab EXCEPT !.composing = NoCompose])

(* The form stays up while any button is offered, also when its own event  *)
(* no longer is.                                                           *)
Confirm(reason) ==
  /\ Shown /\ tab.composing # NoCompose /\ Offered # {}
  /\ Send(Transition(tab.composing.event, reason), tab.composing.offer)

PostNote(visibility) ==
  /\ Shown /\ hasStaffRole(tab.shown.held) /\ Room
  /\ Send(Note(visibility), tab.shown.row)

Editable == IsOwner(tab.shown.row, tab.user) /\ tab.shown.row.status \in EDITABLE_STATUSES

UploadFile == Shown /\ Editable /\ Room /\ Send(Upload, tab.shown.row)

-----------------------------------------------------------------------------
(* The edit form and the form of a new application.                        *)

(* As the server renders it, with the panel closed.                        *)
FormOf(keys) ==
  LET advanced == "advanced" \in keys
  IN [NoForm EXCEPT !.base = advanced, !.seen = ~advanced]

(* The Edit button.  load reads the row again and turns back who is not    *)
(* the owner, or is too late.                                              *)
OpenEdit ==
  LET row == apps[tab.app]
  IN /\ Shown /\ Editable /\ Idle
     /\ Set(IF IsOwner(row, tab.user) /\ row.status \in EDITABLE_STATUSES
            THEN [Closed EXCEPT !.page = "edit", !.user = tab.user, !.app = tab.app,
                                !.form = FormOf(row.keys)]
            ELSE Detail(tab.user, tab.app))

OpenNew(user) ==
  /\ tab = Closed /\ Room
  /\ isApplicant(roles[user])
  /\ Set([Closed EXCEPT !.page = "new", !.user = user])

InForm == tab.page \in {"edit", "new"} /\ Idle

MutantRunScript ==  \* mutant: without the effect, the panel stays closed
  /\ InForm /\ ~tab.form.script
  /\ Set([tab EXCEPT !.form.script = TRUE])

(* The page is hydrated: its effect opens the panel when there are keys.   *)
RunScript ==
  /\ InForm /\ ~tab.form.script
  /\ Set([tab EXCEPT !.form.script = TRUE, !.form.open = tab.form.base,
                     !.form.text = tab.form.base])

(* A closed panel has no textarea; a reopened one is rendered afresh.      *)
TogglePanel ==
  /\ InForm /\ tab.form.script
  /\ Set([tab EXCEPT !.form.open = ~@, !.form.text = tab.form.base,
                     !.form.seen = TRUE])

Type(keys) ==
  /\ InForm /\ tab.form.open /\ tab.form.text # keys
  /\ Set([tab EXCEPT !.form.text = keys, !.form.seen = @ \/ ~keys])

(* What is in the form data beyond the fields: a textarea that is not      *)
(* there sends nothing, and "contact" is put together from its three       *)
(* fields.                                                                 *)
Payload == IF tab.form.open /\ tab.form.text THEN {"advanced"} ELSE {}

(* A field is wrong: nothing is sent on, and the form gets back what was   *)
(* submitted; without its script, in a page that is loaded anew.           *)
Resubmitted(form, keys) ==
  LET advanced == "advanced" \in keys
  IN [form EXCEPT !.base = advanced, !.text = advanced, !.open = @ \/ advanced,
                  !.early = @ \/ ~form.script]

Invalid ==
  /\ InForm
  /\ Set([tab EXCEPT !.form = Resubmitted(@, Payload)])

SaveChanges == tab.page = "edit" /\ Room /\ Send(Save(Payload), NoRow)

CreateDraft == tab.page = "new" /\ Room /\ Send(Create(Payload), NoRow)

-----------------------------------------------------------------------------
(* The request at the backend, and its answer.                             *)

(* new's action checks the roles of the request.                           *)
Executed ==
  LET request == tab.sent.request
  IN /\ ~Idle
     /\ IF request.op = "create" THEN Created(tab.user, request.keys)
        ELSE Performed(tab.app, tab.user, request)
     /\ UNCHANGED roles

(* A success: the forms redirect to the application, the page reloads all  *)
(* it shows; the compose form closes when the request was its own.         *)
Succeed ==
  LET request == tab.sent.request
      ofForm == request.op = "transition" /\ Needs(request.event) # "nothing"
  IN /\ Executed
     /\ tab' = CASE tab.page = "edit" -> Detail(tab.user, tab.app)
                  [] tab.page = "new" -> Detail(tab.user, Len(apps'))
                  [] tab.page = "detail" ->
                       [tab EXCEPT !.sent = NotSent, !.next = Loading,
                                   !.composing = IF ofForm THEN NoCompose ELSE @]

(* A failure: a toast, or the form with what was submitted.                *)
Failed ==
  [tab EXCEPT !.sent = NotSent,
              !.form = IF tab.page = "detail" THEN @
                       ELSE Resubmitted(@, tab.sent.request.keys)]

(* Refused, lost on the way, or a conflict with somebody else's request.   *)
Refuse == ~Idle /\ Set(Failed)

(* Executed, but the answer is lost: "Backend unreachable".                *)
LoseAnswer == Executed /\ tab' = Failed

-----------------------------------------------------------------------------
Next ==
  \/ \E user \in User :
       \/ OthersCreate(user)
       \/ \E i \in DOMAIN apps, request \in Others : OthersAct(user, i, request)
       \/ \E held \in RolesOf[user] : ChangeRoles(user, held)
  \/ \E user \in Viewer : OpenNew(user) \/ \E i \in DOMAIN apps : Open(user, i)
  \/ Close
  \/ LoadRow \/ LoadFails \/ LoadLists \/ ListsFail
  \/ \E event \in EVENTS : Click(event) \/ StartCompose(event)
  \/ CancelCompose
  \/ \E reason \in Reasons(tab.composing.event) : Confirm(reason)
  \/ \E visibility \in {"applicant", "staff"} : PostNote(visibility)
  \/ UploadFile
  \/ OpenEdit \/ RunScript \/ TogglePanel \/ Invalid \/ SaveChanges \/ CreateDraft
  \/ \E keys \in BOOLEAN : Type(keys)
  \/ Succeed \/ Refuse \/ LoseAnswer

Spec == Init /\ [][Next]_vars

-----------------------------------------------------------------------------
Row ==
  [applicant : User, status : STATUSES, version : Nat, reviewedBy : User \cup {Nobody},
   reason : Nat, keys : SUBSET KEYS, edits : Nat, rfis : Nat]

IsView(view) ==
  /\ view.stage \in {"none", "row", "lists", "shown"}
  /\ view.row \in Row \cup {NoRow} /\ view.held \subseteq ROLES
  /\ view.behind \subseteq CARDS

TypeOK ==
  /\ apps \in Seq(Row)
  /\ lists \in Seq([applicant : Nat, staff : Nat, documents : Nat]) /\ Len(lists) = Len(apps)
  /\ roles \in [User -> SUBSET ROLES]
  /\ IsView(tab.shown) /\ IsView(tab.next)
  /\ tab.page \in {"none", "detail", "edit", "new"}
  /\ tab.page \in {"detail", "edit"} => tab.app \in DOMAIN apps
  /\ tab.page # "none" => tab.user \in User
  /\ tab.composing = NoCompose \/ Needs(tab.composing.event) # "nothing"
  /\ tab.sent.request \in Requests \cup {Create(keys) : keys \in SUBSET KEYS} \cup {NoRequest}

(* The tab's request is executed: a refusal changes no row and no list.    *)
IsExecuted == ~Idle /\ tab' # tab /\ <<apps, lists>>' # <<apps, lists>>

ExecutedEvents(events) ==
  /\ IsExecuted
  /\ tab.sent.request.op = "transition" /\ tab.sent.request.event \in events

(* A decision taken on the application page is about exactly what the page *)
(* showed when its form was opened and when it was confirmed: no edit,     *)
(* other reviewer or transition came in between, although the request      *)
(* carries no version and the compose form survives reloads                *)
(* ([id]/+page.svelte 146-160, 350-424).                                   *)
DecisionOnWhatWasShown ==
  [][ExecutedEvents({"approve", "reject"}) =>
       apps[tab.app] = tab.sent.from /\ apps[tab.app] = tab.sent.offer]_vars

(* A click on a page that is out of date takes effect, instead of being    *)
(* refused, only if it withdraws, or if the application has been through a *)
(* whole request for information since the button was clicked, and is back *)
(* in the status it had ([id]/+page.svelte 115-135; "refresh" is what a    *)
(* conflict says).  The page beside the form of request_info may meanwhile *)
(* have been reloaded and show another status.                             *)
StaleClickMeansRfiRound ==
  [][(ExecutedEvents(EVENTS \ {"withdraw"})
        /\ apps[tab.app].version # tab.sent.offer.version) =>
       /\ apps[tab.app].rfis > tab.sent.offer.rfis
       /\ apps[tab.app].status = tab.sent.offer.status]_vars

(* What the page shows next to a row is never older than the row: the note *)
(* of a request for information and the audit row of the last change are   *)
(* there, or the card says that it could not load.  A history longer than  *)
(* the endpoint's limit is the exception: the card, "Every audited event", *)
(* then stops at the oldest rows ([id]/+page.server.ts 38-60, audit.repo   *)
(* .ts 13-30).                                                             *)
CardsCoverRow ==
  \A card \in tab.shown.behind :
    card = "history" /\ HistoryOf(tab.shown.row) > HistoryLimit

(* A save from the edit form drops a key that the form has no field for    *)
(* only if the user toggled the panel or emptied it, if the key was not    *)
(* there when the form was loaded, or if the form was sent before its      *)
(* script had opened the panel.  (edit/+page.server.ts 13-14 says that all *)
(* keys are preserved; those inside "contact" never are.)                  *)
KeysLostUnseen ==
  [][(IsExecuted /\ tab.sent.request.op = "save") =>
       \A key \in apps[tab.app].keys \ apps'[tab.app].keys :
         key = "contact" \/ tab.form.seen \/ tab.form.early \/ ~tab.form.script]_vars

(* A decision's reason is its own, although the API takes a reason with    *)
(* every event and stores it in the same column: none that an earlier step *)
(* left is taken over by a decision without one, and a page that shows a   *)
(* decision shows what stays the case (applications.service.ts 165-171,    *)
(* [id]/+page.svelte 752-755).                                             *)
DecisionReasonStands ==
  LET decided(row) == row.status \in {"APPROVED", "REJECTED"}
  IN /\ \A i \in DOMAIN apps : decided(apps[i]) => apps[i].reason \in {0, apps[i].version}
     /\ Shown /\ decided(tab.shown.row) => apps[tab.app] = tab.shown.row

-----------------------------------------------------------------------------
(* The home page links to every application its viewer has a button for,   *)
(* except those of others' reviews, those older than the rows it loads,    *)
(* and, for an owner who is no applicant any more, their own.              *)
HomeComplete(user, held, limits) ==
  \A i \in DOMAIN apps :
    allowedEvents(apps[i], user, held) # {} =>
      \/ i \in HomeLinks(apps, user, held, limits)
      \/ apps[i].status = "UNDER_REVIEW" /\ apps[i].reviewedBy # user
      \/ i \notin Listed(apps, user, held, STATUSES, limits.home)
      \/ IsOwner(apps[i], user) /\ ~isApplicant(held)

(* What the staff queues list can be acted on, or says why not.            *)
QueuesActionable(user, held) ==
  LET ids == DOMAIN apps
      events(i) == allowedEvents(apps[i], user, held)
  IN /\ \A i \in unassignedSubmissions(apps, ids, held) : "assign" \in events(i)
     /\ \A i \in assignedToMe(apps, ids, user, held) : {"request_info", "mark_ready"} \subseteq events(i)
     /\ \A i \in readyForDecision(apps, ids, held) :
          {"approve", "reject"} \subseteq events(i) <=> ~dualControlBlocks(apps[i], user, held)

(* A case under review is on its reviewer's home page, unless they lost    *)
(* the role: then it is on nobody's.                                       *)
ReviewsHaveAHome(limits) ==
  \A i \in DOMAIN apps :
    LET reviewer == apps[i].reviewedBy
    IN apps[i].status = "UNDER_REVIEW" =>
         \/ i \in HomeLinks(apps, reviewer, roles[reviewer], limits)
         \/ ~isReviewer(roles[reviewer])
         \/ i \notin Listed(apps, reviewer, roles[reviewer], STATUSES, limits.home)

(* The dashboard counts what the home page queues and the lists show.  A   *)
(* case is open when somebody can act on it, or would but for having       *)
(* reviewed it: the only user of a portal cannot decide what they review.  *)
DashboardAgrees(user, held, limits) ==
  LET board == Dashboard(apps, user, held, roles, limits.list)
      home == Listed(apps, user, held, STATUSES, limits.home)
      all == ApplicationsPage(apps, user, held,
                              [statuses |-> STATUSES, mine |-> FALSE, assigned |-> FALSE],
                              limits.list)
  IN ("admin" \in held /\ limits.home >= Len(apps) /\ limits.list >= Len(apps)) =>
       /\ board.awaitingDecision = Cardinality(readyForDecision(apps, home, held))
       /\ board.statusCounts["SUBMITTED"] = Cardinality(unassignedSubmissions(apps, home, held))
       /\ board.openApplications =
            Cardinality({i \in all : \E u \in User :
                           \/ allowedEvents(apps[i], u, ROLES) # {}
                           \/ dualControlBlocks(apps[i], u, ROLES)})
       /\ board.staffBreakdown["reviewer"] + board.staffBreakdown["admin"] > 0
            <=> \E u \in User : isReviewer(roles[u])
       /\ board.activeStaff > 0 <=> \E u \in User : isReviewer(roles[u]) \/ isApprover(roles[u])

(* The switches of the list page show what the home page does, and more.   *)
SwitchesAgree(user, held, limits) ==
  LET home == Listed(apps, user, held, STATUSES, limits.home)
      switched(mine, assigned) ==
        ApplicationsPage(apps, user, held,
                         [statuses |-> STATUSES, mine |-> mine, assigned |-> assigned],
                         limits.list)
  IN /\ myApplications(apps, home, user, held) \subseteq switched(TRUE, FALSE)
     /\ assignedToMe(apps, home, user, held) \subseteq switched(FALSE, TRUE)

(* Nobody's work is out of sight, for each of the limits and whatever      *)
(* roles the viewer is given.  (Asked when the tab is closed, which it may *)
(* be beside any rows.)                                                    *)
QueuesComplete ==
  tab = Closed => \A limits \in Limits :
    /\ ReviewsHaveAHome(limits)
    /\ \A user \in User, held \in SUBSET ROLES :
         /\ HomeComplete(user, held, limits) /\ QueuesActionable(user, held)
         /\ DashboardAgrees(user, held, limits) /\ SwitchesAgree(user, held, limits)
=============================================================================
