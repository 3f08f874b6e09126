--------------------------- MODULE Portal_proofs ---------------------------
(***************************************************************************)
(* Theorems about Portal, for every set of users, viewers, roles they have *)
(* in turn, page limits and every bound.                                   *)
(***************************************************************************)
EXTENDS Portal, Pages_proofs, SequenceTheorems

-----------------------------------------------------------------------------
(* How a row moves on.                                                     *)

(* How far a round of the review has come.  A request for information      *)
(* starts the next one.                                                    *)
Phase(status) ==
  CASE status \in EDITABLE_STATUSES -> 0
    [] status = "SUBMITTED" -> 1
    [] status = "UNDER_REVIEW" -> 2
    [] status = "READY_FOR_DECISION" -> 3
    [] status \in TERMINAL_STATUSES -> 4

(* b is what a has become: a itself, or a edited, or a after transitions,  *)
(* which go on to a later phase or to a later round.                       *)
Edited(a, b) ==
  /\ a.status \in EDITABLE_STATUSES /\ b.status = a.status
  /\ b.version = a.version /\ b.rfis = a.rfis /\ b.edits > a.edits

Moved(a, b) ==
  /\ b.version > a.version /\ b.edits >= a.edits
  /\ Phase(a.status) < 4
  /\ Phase(a.status) = 3 => Phase(b.status) = 4
  /\ b.rfis > a.rfis \/ (b.rfis = a.rfis /\ Phase(b.status) > Phase(a.status))

Followed(a, b) == a = b \/ Edited(a, b) \/ Moved(a, b)

(* A decided row's reason, if it has one, came with the decision.          *)
OwnReason(row) == row.status \in {"APPROVED", "REJECTED"} => row.reason \in {0, row.version}

ReasonsOwn == \A i \in DOMAIN apps : OwnReason(apps[i])

LEMMA PhaseFacts ==
  ASSUME NEW status \in STATUSES
  PROVE  /\ Phase(status) \in 0..4
         /\ Phase(status) = 3 <=> status = "READY_FOR_DECISION"
         /\ Phase(status) = 4 <=> status \in TERMINAL_STATUSES
         /\ Phase(status) = 0 <=> status \in EDITABLE_STATUSES
         /\ Phase(status) = 1 <=> status = "SUBMITTED"
         /\ Phase(status) = 2 <=> status = "UNDER_REVIEW"
BY DEF STATUSES, Phase, EDITABLE_STATUSES, TERMINAL_STATUSES

LEMMA FollowedTransitive ==
  ASSUME NEW a \in Row, NEW b \in Row, NEW c \in Row, Followed(a, b), Followed(b, c)
  PROVE  Followed(a, c)
<1>1. /\ a.status \in STATUSES /\ b.status \in STATUSES /\ c.status \in STATUSES
      /\ a.version \in Nat /\ b.version \in Nat /\ c.version \in Nat
      /\ a.edits \in Nat /\ b.edits \in Nat /\ c.edits \in Nat
      /\ a.rfis \in Nat /\ b.rfis \in Nat /\ c.rfis \in Nat
  BY DEF Row
<1>2. /\ Phase(a.status) \in 0..4 /\ Phase(b.status) \in 0..4 /\ Phase(c.status) \in 0..4
      /\ a.status \in EDITABLE_STATUSES => Phase(a.status) = 0
      /\ b.status \in EDITABLE_STATUSES => Phase(b.status) = 0
  BY <1>1, PhaseFacts
<1>3. CASE a = b \/ b = c
  BY <1>3
<1>4. CASE Edited(a, b) /\ Edited(b, c)
  BY <1>1, <1>4 DEF Followed, Edited
<1>5. CASE Edited(a, b) /\ Moved(b, c)
  BY <1>1, <1>2, <1>5 DEF Followed, Edited, Moved
<1>6. CASE Moved(a, b) /\ Edited(b, c)
  BY <1>1, <1>2, <1>6 DEF Followed, Edited, Moved
<1>7. CASE Moved(a, b) /\ Moved(b, c)
  BY <1>1, <1>2, <1>7 DEF Followed, Moved
<1>8. QED
  BY <1>3, <1>4, <1>5, <1>6, <1>7 DEF Followed

(* What an edge of the state machine does to phase and round.              *)
LEMMA EdgeFacts ==
  ASSUME NEW edge \in TRANSITIONS
  PROVE  /\ edge.from \in STATUSES /\ edge.to \in STATUSES /\ edge.event \in EVENTS
         /\ edge.from \notin TERMINAL_STATUSES
         /\ edge.from = "READY_FOR_DECISION" => edge.to \in TERMINAL_STATUSES
         /\ edge.event # "request_info" => Phase(edge.to) > Phase(edge.from)
         /\ edge.event \in {"approve", "reject"} =>
              edge.from = "READY_FOR_DECISION" /\ edge.to \in {"APPROVED", "REJECTED"}
BY DEF TRANSITIONS, ApplicantEdge, ReviewerEdge, DecisionEdge, STATUSES, EVENTS,
   TERMINAL_STATUSES, EDITABLE_STATUSES, Phase

(* Only a withdrawal is possible in more than one status.                  *)
LEMMA OneStatus ==
  ASSUME NEW s, NEW t, NEW event, event # "withdraw",
         FindEdge(s, event) # {}, FindEdge(t, event) # {}
  PROVE  s = t
BY DEF FindEdge, TRANSITIONS, ApplicantEdge, ReviewerEdge, DecisionEdge

LEMMA TransitionedFacts ==
  ASSUME NEW row \in Row, NEW user \in User, NEW held, NEW event \in EVENTS,
         NEW reason \in BOOLEAN, NEW new \in Transitioned(row, user, held, event, reason)
  PROVE  /\ new \in Row /\ Followed(row, new) /\ FindEdge(row.status, event) # {}
         /\ OwnReason(new)
<1>1. PICK edge \in FindEdge(row.status, event) :
             new = [row EXCEPT !.status = edge.to,
                               !.version = @ + 1,
                               !.reviewedBy = IF edge.assigns = "reviewer" THEN user ELSE @,
                               !.reason = IF reason THEN row.version + 1 ELSE 0,
                               !.rfis = IF event = "request_info" THEN @ + 1 ELSE @]
  BY DEF Transitioned
<1>2. /\ edge \in TRANSITIONS /\ edge.from = row.status /\ edge.event = event
      /\ edge.to \in STATUSES
  BY <1>1, EdgeFacts DEF FindEdge
<1>3. PICK own : own = IF reason THEN row.version + 1 ELSE 0
  OBVIOUS
<1>4. row.version + 1 \in Nat /\ row.rfis + 1 \in Nat /\ row.edits \in Nat
      /\ own \in Nat
  BY <1>3 DEF Row
<1>5. /\ new \in Row /\ new.status = edge.to /\ new.version = row.version + 1
      /\ new.edits = row.edits /\ new.reason = own
      /\ new.rfis = IF event = "request_info" THEN row.rfis + 1 ELSE row.rfis
  BY <1>1, <1>2, <1>3, <1>4 DEF Row
<1>6. /\ Phase(row.status) \in 0..4 /\ Phase(new.status) \in 0..4
      /\ Phase(row.status) # 4
      /\ Phase(row.status) = 3 => Phase(new.status) = 4
      /\ event # "request_info" => Phase(new.status) > Phase(row.status)
  BY <1>2, <1>5, EdgeFacts, PhaseFacts
<1>7. row.version \in Nat /\ row.rfis \in Nat
  BY DEF Row
<1>8. Moved(row, new)
  BY <1>4, <1>5, <1>6, <1>7 DEF Moved
<1>9. OwnReason(new)
  BY <1>3, <1>5 DEF OwnReason
<1>10. QED
  BY <1>1, <1>5, <1>8, <1>9 DEF Followed

LEMMA SavedFacts ==
  ASSUME NEW row \in Row, NEW user, NEW held, NEW keys \in SUBSET KEYS,
         NEW new \in Saved(row, user, held, keys)
  PROVE  /\ new \in Row /\ Followed(row, new) /\ new.keys = keys
         /\ OwnReason(new)
<1>1. row.edits \in Nat /\ row.edits + 1 \in Nat
  BY DEF Row
<1>2. /\ new \in Row /\ new.status = row.status /\ new.version = row.version
      /\ new.edits = row.edits + 1 /\ new.reason = row.reason /\ new.rfis = row.rfis
      /\ new.keys = keys /\ row.status \in EDITABLE_STATUSES
  BY <1>1 DEF Saved, Row
<1>3. OwnReason(new)
  BY <1>2 DEF OwnReason, EDITABLE_STATUSES
<1>4. QED
  BY <1>1, <1>2, <1>3 DEF Followed, Edited

-----------------------------------------------------------------------------
(* The inductive invariant.                                                *)

Lists == [applicant : Nat, staff : Nat, documents : Nat]

AllRequests == Requests \cup {Create(keys) : keys \in SUBSET KEYS} \cup {NoRequest}

View ==
  [stage : {"none", "row", "lists", "shown"}, row : Row \cup {NoRow}, held : SUBSET ROLES,
   behind : SUBSET CARDS]

Form == [script : BOOLEAN, open : BOOLEAN, text : BOOLEAN, base : BOOLEAN,
         seen : BOOLEAN, early : BOOLEAN]

TabState ==
  [page : {"none", "detail", "edit", "new"}, user : User \cup {Nobody}, app : Nat,
   shown : View, next : View,
   composing : [event : EVENTS \cup {"none"}, offer : Row \cup {NoRow}],
   sent : [request : AllRequests, from : Row \cup {NoRow}, offer : Row \cup {NoRow}],
   form : Form]

(* What a card may lack: the end of a history over the limit.              *)
LacksOnlyHistory(card, row) == card = "history" /\ HistoryOf(row) > HistoryLimit

(* A form whose script runs, and that was not sent earlier, and that never *)
(* was without the key.                                                    *)
Kept(form) == form.script /\ ~form.seen /\ ~form.early

(* What the pages and their loads have read is what the row has been.      *)
PageOK(x) ==
  /\ x.page \in {"detail", "edit"} => x.app \in DOMAIN apps
  /\ x.page # "none" => x.user \in User
  /\ x.page # "detail" => /\ x.shown.stage = "none" /\ x.next.stage = "none"
                          /\ x.composing = NoCompose
  /\ x.shown.stage \in {"none", "shown"} /\ x.next.stage # "shown"
  /\ x.shown.stage = "shown" => /\ x.shown.row \in Row
                                /\ Followed(x.shown.row, apps[x.app])
  /\ x.next.stage = "lists" => /\ x.next.row \in Row
                               /\ Followed(x.next.row, apps[x.app])
  /\ (x.next.stage = "lists" /\ x.shown.stage = "shown") => Followed(x.shown.row, x.next.row)
  /\ \A card \in x.shown.behind : LacksOnlyHistory(card, x.shown.row)

(* The compose form was opened on a row that offered its event, and the    *)
(* page has gone on from there.                                            *)
ComposeOK(x) ==
  x.composing # NoCompose =>
    /\ x.shown.stage = "shown" /\ x.composing.offer \in Row
    /\ Needs(x.composing.event) # "nothing"
    /\ FindEdge(x.composing.offer.status, x.composing.event) # {}
    /\ Followed(x.composing.offer, x.shown.row)

(* A request is of its page; a transition's offer and row were followed by *)
(* the row as it is, and a save has the key or comes from a form without.  *)
SentOK(x) ==
  LET request == x.sent.request
  IN /\ request.op = "transition" =>
          /\ x.page = "detail" /\ x.sent.offer \in Row /\ x.sent.from \in Row
          /\ FindEdge(x.sent.offer.status, request.event) # {}
          /\ Followed(x.sent.offer, x.sent.from)
          /\ Followed(x.sent.from, apps[x.app])
     /\ request.op \in {"note", "upload"} => x.page = "detail"
     /\ request.op = "save" => x.page = "edit" /\ ("advanced" \in request.keys \/ ~Kept(x.form))
     /\ request.op = "create" => x.page = "new"
     /\ request.op = "none" => x.sent = NotSent

(* An edit form that was never without the key still has it, and shows it  *)
(* once its script runs.                                                   *)
HasKey(form) ==
  ~form.seen /\ ~form.early => form.base /\ (form.script => form.open /\ form.text)

FormOK(x) == x.page = "edit" => HasKey(x.form)

TabOK(x) == PageOK(x) /\ ComposeOK(x) /\ SentOK(x) /\ FormOK(x)

Types ==
  /\ apps \in Seq(Row) /\ lists \in Seq(Lists) /\ Len(lists) = Len(apps)
  /\ roles \in [User -> SUBSET ROLES]
  /\ tab \in TabState

PortalInv == Types /\ TabOK(tab) /\ ReasonsOwn

-----------------------------------------------------------------------------
(* What a request does.                                                    *)

LEMMA RequestFacts ==
  ASSUME NEW request \in AllRequests
  PROVE  /\ request.op \in {"none", "transition", "note", "upload", "save", "create"}
         /\ request.op = "transition" =>
              request.event \in EVENTS /\ request.reason \in BOOLEAN
         /\ request.op = "note" => request.visibility \in {"applicant", "staff"}
         /\ request.op \in {"save", "create"} => request.keys \in SUBSET KEYS
         /\ request.op = "none" => request = NoRequest
<1>1. CASE request \in {Transition(event, reason) : event \in EVENTS, reason \in BOOLEAN}
  BY <1>1 DEF Transition
<1>2. CASE request \in {Note("applicant"), Note("staff"), Upload}
  BY <1>2 DEF Note, Upload
<1>3. CASE request \in {Save(keys) : keys \in SUBSET KEYS}
                         \cup {Create(keys) : keys \in SUBSET KEYS}
  BY <1>3 DEF Save, Create
<1>4. CASE request = NoRequest
  BY <1>4 DEF NoRequest
<1>5. QED
  BY <1>1, <1>2, <1>3, <1>4 DEF AllRequests, Requests

(* Rows move on, and none goes away.                                       *)
Grown ==
  /\ apps' \in Seq(Row) /\ lists' \in Seq(Lists) /\ Len(lists') = Len(apps')
  /\ \A i \in DOMAIN apps : i \in DOMAIN apps' /\ Followed(apps[i], apps'[i])
  /\ ReasonsOwn'

LEMMA NoRowFacts ==
  /\ NoRow \notin Row
  /\ \A user \in User, keys \in SUBSET KEYS :
       NewRow(user, keys) \in Row /\ OwnReason(NewRow(user, keys))
  /\ NoLists \in Lists
BY PortalAssumption DEF NoRow, NewRow, Row, STATUSES, NoLists, Lists, OwnReason

LEMMA CreatedFacts ==
  ASSUME Types, ReasonsOwn, NEW user \in User, NEW keys \in SUBSET KEYS,
         Created(user, keys)
  PROVE  Grown /\ Len(apps') \in DOMAIN apps' /\ Len(apps') \in Nat
<1>1. apps \in Seq(Row) /\ Len(apps) \in Nat /\ lists \in Seq(Lists) /\ Len(lists) = Len(apps)
      /\ DOMAIN apps = 1..Len(apps)
  BY LenProperties DEF Types
<1>. DEFINE new == NewRow(user, keys)
<1>2. new \in Row /\ OwnReason(new) /\ NoLists \in Lists
  BY NoRowFacts
<1>3. apps' = Append(apps, new) /\ lists' = Append(lists, NoLists)
  BY DEF Created
<1>. HIDE DEF new
<1>4. /\ apps' \in Seq(Row) /\ Len(apps') = Len(apps) + 1 /\ DOMAIN apps' = 1..(Len(apps) + 1)
      /\ \A i \in 1..Len(apps) : apps'[i] = apps[i]
      /\ apps'[Len(apps) + 1] = new
  BY <1>1, <1>2, <1>3, AppendProperties
<1>5. lists' \in Seq(Lists) /\ Len(lists') = Len(apps) + 1
  BY <1>1, <1>2, <1>3, AppendProperties
<1>6. ReasonsOwn'
  <2>1. \A i \in 1..(Len(apps) + 1) : i \in 1..Len(apps) \/ i = Len(apps) + 1
    BY <1>1
  <2>2. QED
    BY <1>1, <1>2, <1>4, <2>1 DEF ReasonsOwn
<1>7. QED
  BY <1>1, <1>4, <1>5, <1>6 DEF Grown, Followed

LEMMA PerformedFacts ==
  ASSUME Types, ReasonsOwn, NEW user \in User, NEW i \in DOMAIN apps,
         NEW request \in AllRequests, Performed(i, user, request)
  PROVE  /\ Grown /\ DOMAIN apps' = DOMAIN apps
         /\ (request.op = "transition" /\ <<apps, lists>>' # <<apps, lists>>) =>
              FindEdge(apps[i].status, request.event) # {}
         /\ (request.op = "save" /\ <<apps, lists>>' # <<apps, lists>>) =>
              apps'[i].keys = request.keys
<1>1. /\ apps \in Seq(Row) /\ Len(apps) \in Nat /\ lists \in Seq(Lists) /\ Len(lists) = Len(apps)
      /\ DOMAIN apps = 1..Len(apps) /\ DOMAIN lists = 1..Len(apps)
      /\ apps[i] \in Row /\ lists[i] \in Lists /\ roles[user] \in SUBSET ROLES
  BY LenProperties, ElementOfSeq DEF Types
<1>2. CASE \E row \in After(apps[i], user, roles[user], request) :
             apps' = [apps EXCEPT ![i] = row] /\ UNCHANGED lists
  <2>1. PICK row \in After(apps[i], user, roles[user], request) :
               apps' = [apps EXCEPT ![i] = row] /\ UNCHANGED lists
    BY <1>2
  <2>2. /\ row \in Row /\ Followed(apps[i], row)
        /\ OwnReason(row)
        /\ request.op = "transition" => FindEdge(apps[i].status, request.event) # {}
        /\ request.op = "save" => row.keys = request.keys
    <3>1. CASE request.op = "transition"
      <4>1. row \in Transitioned(apps[i], user, roles[user], request.event, request.reason)
        BY <2>1, <3>1 DEF After
      <4>2. QED
        BY <1>1, <3>1, <4>1, RequestFacts, TransitionedFacts
    <3>2. CASE request.op = "save"
      <4>1. row \in Saved(apps[i], user, roles[user], request.keys)
        BY <2>1, <3>2 DEF After
      <4>2. QED
        BY <1>1, <3>2, <4>1, RequestFacts, SavedFacts
    <3>3. QED
      BY <2>1, <3>1, <3>2 DEF After
  <2>3. /\ apps' \in Seq(Row) /\ Len(apps') = Len(apps) /\ DOMAIN apps' = 1..Len(apps)
        /\ apps'[i] = row /\ \A j \in DOMAIN apps \ {i} : apps'[j] = apps[j]
    BY <1>1, <2>1, <2>2, ExceptSeq
  <2>4. ReasonsOwn'
    BY <1>1, <2>2, <2>3 DEF ReasonsOwn
  <2>5. QED
    BY <1>1, <2>1, <2>2, <2>3, <2>4 DEF Grown, Followed
<1>3. CASE \E list \in Added(apps[i], user, roles[user], request) :
             lists' = [lists EXCEPT ![i][list] = @ + 1] /\ UNCHANGED apps
  <2>1. PICK list \in Added(apps[i], user, roles[user], request) :
               lists' = [lists EXCEPT ![i][list] = @ + 1] /\ UNCHANGED apps
    BY <1>3
  <2>2. list \in {"applicant", "staff", "documents"} /\ request.op \in {"note", "upload"}
    BY <2>1, RequestFacts DEF Added
  <2>3. PICK new : new = [lists[i] EXCEPT ![list] = @ + 1]
    OBVIOUS
  <2>4. new \in Lists
    <3>1. /\ lists[i].applicant + 1 \in Nat /\ lists[i].staff + 1 \in Nat
          /\ lists[i].documents + 1 \in Nat
      BY <1>1 DEF Lists
    <3>2. CASE list = "applicant"
      <4>1. new = [lists[i] EXCEPT !.applicant = @ + 1]
        BY <2>3, <3>2
      <4>2. QED
        BY <1>1, <3>1, <4>1 DEF Lists
    <3>3. CASE list = "staff"
      <4>1. new = [lists[i] EXCEPT !.staff = @ + 1]
        BY <2>3, <3>3
      <4>2. QED
        BY <1>1, <3>1, <4>1 DEF Lists
    <3>4. CASE list = "documents"
      <4>1. new = [lists[i] EXCEPT !.documents = @ + 1]
        BY <2>3, <3>4
      <4>2. QED
        BY <1>1, <3>1, <4>1 DEF Lists
    <3>5. QED
      BY <2>2, <3>2, <3>3, <3>4
  <2>5. lists' = [lists EXCEPT ![i] = new]
    BY <2>1, <2>3
  <2>6. lists' \in Seq(Lists) /\ Len(lists') = Len(lists)
    BY <1>1, <2>4, <2>5, ExceptSeq
  <2>7. QED
    BY <1>1, <2>1, <2>2, <2>6 DEF Grown, Followed, ReasonsOwn
<1>4. QED
  BY <1>2, <1>3 DEF Performed

-----------------------------------------------------------------------------
(* Steps of the tab alone, and of everybody else.                          *)

LEMMA TabFacts ==
  ASSUME PortalInv
  PROVE  /\ tab \in TabState /\ TabOK(tab) /\ apps \in Seq(Row) /\ Len(apps) \in Nat
         /\ DOMAIN apps = 1..Len(apps)
         /\ \A i \in DOMAIN apps : apps[i] \in Row
         /\ tab.page \in {"detail", "edit"} => tab.app \in DOMAIN apps /\ apps[tab.app] \in Row
         /\ tab.page # "none" => tab.user \in User /\ roles[tab.user] \in SUBSET ROLES
         /\ tab.shown.stage = "shown" \/ tab.next.stage \in {"row", "lists"} => tab.page = "detail"
<1>1. /\ tab \in TabState /\ TabOK(tab) /\ apps \in Seq(Row) /\ Len(apps) \in Nat
      /\ DOMAIN apps = 1..Len(apps) /\ roles \in [User -> SUBSET ROLES]
  BY LenProperties DEF PortalInv, Types
<1>2. \A i \in DOMAIN apps : apps[i] \in Row
  BY <1>1, ElementOfSeq
<1>3. QED
  BY <1>1, <1>2 DEF TabOK, PageOK

LEMMA TabGrows ==
  ASSUME Types, Grown, NEW x \in TabState, TabOK(x)
  PROVE  TabOK(x)'
<1>1. \A i \in DOMAIN apps : apps[i] \in Row /\ apps'[i] \in Row /\ i \in DOMAIN apps'
  BY ElementOfSeq, LenProperties DEF Types, Grown
<1>2. \A i \in DOMAIN apps, row \in Row : Followed(row, apps[i]) => Followed(row, apps'[i])
  BY <1>1, FollowedTransitive DEF Grown
<1>3. PageOK(x)'
  BY <1>1, <1>2 DEF TabOK, PageOK
<1>4. SentOK(x)'
  BY <1>1, <1>2 DEF TabOK, PageOK, SentOK
<1>5. QED
  BY <1>3, <1>4 DEF TabOK, ComposeOK, FormOK

LEMMA OthersStep ==
  ASSUME PortalInv, Grown, UNCHANGED tab, roles' \in [User -> SUBSET ROLES]
  PROVE  PortalInv'
<1>1. Types'
  BY DEF PortalInv, Types, Grown
<1>2. TabOK(tab)'
  <2>1. PICK x : x = tab
    OBVIOUS
  <2>2. TabOK(x)'
    BY <2>1, TabGrows DEF PortalInv, Types
  <2>3. QED
    BY <2>1, <2>2
<1>3. QED
  BY <1>1, <1>2 DEF PortalInv, Grown

LEMMA SetStep ==
  ASSUME PortalInv, NEW x \in TabState, TabOK(x), Set(x)
  PROVE  PortalInv'
<1>1. UNCHANGED <<apps, lists, roles>> /\ tab' = x
  BY DEF Set
<1>2. TabOK(x)'
  BY <1>1 DEF TabOK, PageOK, ComposeOK, SentOK, FormOK
<1>3. QED
  BY <1>1, <1>2 DEF PortalInv, Types, ReasonsOwn

LEMMA OthersInvariant ==
  ASSUME PortalInv, NEW user \in User,
         \/ OthersCreate(user)
         \/ \E i \in DOMAIN apps, request \in Others : OthersAct(user, i, request)
         \/ \E held \in RolesOf[user] : ChangeRoles(user, held)
  PROVE  PortalInv'
<1>1. Types /\ ReasonsOwn /\ roles \in [User -> SUBSET ROLES]
  BY DEF PortalInv, Types
<1>2. CASE OthersCreate(user)
  BY <1>1, <1>2, CreatedFacts, OthersStep DEF OthersCreate
<1>3. ASSUME NEW i \in DOMAIN apps, NEW request \in Others, OthersAct(user, i, request)
      PROVE  PortalInv'
  <2>1. request \in AllRequests
    BY OthersAssumption DEF AllRequests
  <2>2. QED
    BY <1>1, <1>3, <2>1, PerformedFacts, OthersStep DEF OthersAct
<1>4. ASSUME NEW held \in RolesOf[user], ChangeRoles(user, held)
      PROVE  PortalInv'
  <2>1. held \in SUBSET ROLES
    BY PortalAssumption
  <2>2. roles' \in [User -> SUBSET ROLES] /\ UNCHANGED <<apps, lists, tab>>
    BY <1>1, <1>4, <2>1 DEF ChangeRoles
  <2>3. Grown
    BY <1>1, <2>2 DEF Grown, Types, Followed, ReasonsOwn
  <2>4. QED
    BY <2>2, <2>3, OthersStep
<1>5. QED
  BY <1>2, <1>3, <1>4

-----------------------------------------------------------------------------
(* Loading.                                                                *)

(* A tab that has just been sent to an application.                        *)
LEMMA ClosedFacts ==
  /\ Closed \in TabState /\ TabOK(Closed)
  /\ \A user \in User, i \in DOMAIN apps :
       i \in Nat => Detail(user, i) \in TabState /\ TabOK(Detail(user, i))
<1>1. NoView \in View /\ Loading \in View /\ NoForm \in Form /\ NoRequest \in AllRequests
  BY DEF NoView, Loading, View, NoForm, Form, AllRequests
<1>2. /\ Closed \in TabState /\ Closed.page = "none" /\ Closed.composing = NoCompose
      /\ Closed.sent = NotSent /\ NotSent.request = NoRequest
      /\ Closed.shown = NoView /\ Closed.next = NoView
  BY <1>1 DEF Closed, TabState, NoCompose, NotSent
<1>3. NoView.stage = "none" /\ NoView.behind = {} /\ Loading.stage = "row" /\ NoRequest.op = "none"
  BY DEF NoView, Loading, NoRequest
<1>4. TabOK(Closed)
  BY <1>2, <1>3 DEF TabOK, PageOK, ComposeOK, SentOK, FormOK
<1>5. ASSUME NEW user \in User, NEW i \in DOMAIN apps, i \in Nat
      PROVE  Detail(user, i) \in TabState /\ TabOK(Detail(user, i))
  <2>1. PICK x : x = Detail(user, i)
    OBVIOUS
  <2>2. /\ x \in TabState /\ x.page = "detail" /\ x.user = user /\ x.app = i
        /\ x.composing = NoCompose /\ x.sent = NotSent
        /\ x.shown = NoView /\ x.next = Loading
    BY <1>1, <1>2, <1>5, <2>1 DEF Detail, TabState
  <2>3. TabOK(x)
    BY <1>2, <1>3, <1>5, <2>2 DEF TabOK, PageOK, ComposeOK, SentOK, FormOK
  <2>4. QED
    BY <2>1, <2>2, <2>3
<1>6. QED
  BY <1>2, <1>4, <1>5

LEMMA OpenInvariant ==
  ASSUME PortalInv, NEW user \in User, NEW i \in DOMAIN apps, Open(user, i)
  PROVE  PortalInv'
BY TabFacts, ClosedFacts, SetStep DEF Open

LEMMA CloseInvariant ==
  ASSUME PortalInv, Close \/ LoadFails
  PROVE  PortalInv'
BY ClosedFacts, SetStep DEF Close, LoadFails

LEMMA LoadRowInvariant ==
  ASSUME PortalInv, LoadRow
  PROVE  PortalInv'
<1>1. /\ tab \in TabState /\ TabOK(tab) /\ tab.next.stage = "row" /\ tab.page = "detail"
      /\ tab.app \in DOMAIN apps /\ apps[tab.app] \in Row /\ roles[tab.user] \in SUBSET ROLES
  BY TabFacts DEF LoadRow
<1>2. PICK x : x = [tab EXCEPT !.next.stage = "lists", !.next.row = apps[tab.app],
                               !.next.held = roles[tab.user]]
  OBVIOUS
<1>3. Set(x)
  BY <1>2 DEF LoadRow
<1>4. PICK view : view = [tab.next EXCEPT !.stage = "lists", !.row = apps[tab.app],
                                          !.held = roles[tab.user]]
  OBVIOUS
<1>5. view \in View /\ view.stage = "lists" /\ view.row = apps[tab.app]
  BY <1>1, <1>4 DEF TabState, View
<1>6. x = [tab EXCEPT !.next = view]
  BY <1>1, <1>2, <1>4 DEF TabState, View
<1>7. /\ x \in TabState /\ x.page = tab.page /\ x.user = tab.user /\ x.app = tab.app
      /\ x.shown = tab.shown /\ x.next = view /\ x.composing = tab.composing
      /\ x.sent = tab.sent /\ x.form = tab.form
  BY <1>1, <1>5, <1>6 DEF TabState
<1>8. TabOK(x)
  BY <1>1, <1>5, <1>7 DEF TabOK, PageOK, ComposeOK, SentOK, FormOK, Followed
<1>9. QED
  BY <1>3, <1>7, <1>8, SetStep

(* The lists are read after the row they are shown with: no card is behind *)
(* but one that is cut off.                                                *)
LEMMA CardsFacts ==
  ASSUME PortalInv, tab.next.stage = "lists", NEW card \in CARDS,
         IsBehind(card, tab.next.row)
  PROVE  LacksOnlyHistory(card, tab.next.row)
<1>1. /\ tab.page = "detail" /\ tab.app \in DOMAIN apps /\ apps[tab.app] \in Row
      /\ tab.next.row \in Row /\ Followed(tab.next.row, apps[tab.app])
  BY TabFacts DEF TabOK, PageOK
<1>2. lists[tab.app] \in Lists
  BY <1>1, ElementOfSeq, LenProperties DEF PortalInv, Types
<1>3. PICK row \in Row : row = tab.next.row
  BY <1>1
<1>4. PICK now \in Row : now = apps[tab.app]
  BY <1>1
<1>5. /\ row.version \in Nat /\ row.edits \in Nat /\ row.rfis \in Nat
      /\ now.version \in Nat /\ now.edits \in Nat /\ now.rfis \in Nat
  BY DEF Row
<1>6. row.version <= now.version /\ row.edits <= now.edits /\ row.rfis <= now.rfis
  BY <1>1, <1>3, <1>4, <1>5 DEF Followed, Edited, Moved
<1>7. HistoryOf(row) <= HistoryOf(now)
  BY <1>5, <1>6 DEF HistoryOf
<1>8. HistoryOf(row) \in Nat /\ HistoryOf(now) \in Nat
  BY <1>5 DEF HistoryOf
<1>9. NotesFor(tab.app, roles[tab.user]) >= now.rfis /\ NotesFor(tab.app, roles[tab.user]) \in Nat
  <2>1. lists[tab.app].applicant \in Nat /\ lists[tab.app].staff \in Nat
    BY <1>2 DEF Lists
  <2>2. (IF hasStaffRole(roles[tab.user]) THEN lists[tab.app].staff ELSE 0) \in Nat
    BY <2>1
  <2>3. QED
    BY <1>4, <1>5, <2>1, <2>2 DEF NotesFor
<1>10. CASE card = "notes"
  BY <1>3, <1>5, <1>6, <1>9, <1>10 DEF IsBehind
<1>11. CASE card = "history"
  <2>1. ListForResource(now) < HistoryOf(row)
    BY <1>3, <1>4, <1>11 DEF IsBehind
  <2>2. HistoryOf(row) > HistoryLimit
    BY <1>7, <1>8, <2>1, PortalAssumption DEF ListForResource
  <2>3. QED
    BY <1>3, <1>11, <2>2 DEF LacksOnlyHistory
<1>12. QED
  BY <1>10, <1>11 DEF CARDS

LEMMA ShowInvariant ==
  ASSUME PortalInv, NEW cards \in SUBSET CARDS, Show(cards)
  PROVE  PortalInv'
<1>1. /\ tab \in TabState /\ TabOK(tab) /\ tab.next.stage = "lists" /\ tab.page = "detail"
      /\ tab.app \in DOMAIN apps /\ apps[tab.app] \in Row
      /\ tab.next.row \in Row /\ Followed(tab.next.row, apps[tab.app])
  BY TabFacts DEF Show, TabOK, PageOK
<1>2. PICK behind \in SUBSET CARDS :
        /\ behind = {c \in cards : IsBehind(c, tab.next.row)}
        /\ \A card \in behind : LacksOnlyHistory(card, tab.next.row)
  <2>1. \A card \in CARDS :
          IsBehind(card, tab.next.row) => LacksOnlyHistory(card, tab.next.row)
    BY <1>1, CardsFacts
  <2>2. {c \in cards : IsBehind(c, tab.next.row)} \in SUBSET CARDS
    OBVIOUS
  <2>3. QED
    BY <2>1, <2>2
<1>3. PICK view : view = [tab.next EXCEPT !.stage = "shown", !.behind = behind]
  OBVIOUS
<1>4. PICK x : x = [tab EXCEPT !.shown = view, !.next = NoView]
  OBVIOUS
<1>5. Set(x)
  BY <1>2, <1>3, <1>4 DEF Show
<1>6. /\ view \in View /\ view.stage = "shown" /\ view.row = tab.next.row /\ view.behind = behind
      /\ NoView \in View /\ NoView.stage = "none"
  BY <1>1, <1>2, <1>3 DEF TabState, View, NoView
<1>7. /\ x \in TabState /\ x.page = tab.page /\ x.user = tab.user /\ x.app = tab.app
      /\ x.shown = view /\ x.next = NoView /\ x.composing = tab.composing
      /\ x.sent = tab.sent /\ x.form = tab.form
  BY <1>1, <1>4, <1>6 DEF TabState
<1>8. PageOK(x) /\ SentOK(x) /\ FormOK(x)
  BY <1>1, <1>2, <1>6, <1>7 DEF TabOK, PageOK, SentOK, FormOK
<1>9. ComposeOK(x)
  <2>1. ASSUME tab.composing # NoCompose
        PROVE  Followed(tab.composing.offer, tab.next.row)
    <3>1. /\ tab.composing.offer \in Row /\ Followed(tab.composing.offer, tab.shown.row)
          /\ tab.shown.row \in Row /\ Followed(tab.shown.row, tab.next.row)
      BY <1>1, <2>1 DEF TabOK, ComposeOK, PageOK
    <3>2. QED
      BY <1>1, <3>1, FollowedTransitive
  <2>2. QED
    BY <1>1, <1>6, <1>7, <2>1 DEF TabOK, ComposeOK
<1>10. QED
  BY <1>5, <1>7, <1>8, <1>9, SetStep DEF TabOK

LEMMA ShowsInvariant ==
  ASSUME PortalInv, LoadLists \/ ListsFail
  PROVE  PortalInv'
BY ShowInvariant DEF LoadLists, ListsFail

-----------------------------------------------------------------------------
(* The application page's forms.                                           *)

LEMMA AllowedFacts ==
  ASSUME NEW row, NEW user, NEW held, NEW event \in allowedEvents(row, user, held)
  PROVE  event \in EVENTS /\ FindEdge(row.status, event) # {}
BY DEF allowedEvents, TransitionVerdict

(* A new request, with the offer it follows.                               *)
LEMMA SendInvariant ==
  ASSUME PortalInv, NEW request \in AllRequests, NEW offer \in Row \cup {NoRow},
         Send(request, offer),
         request.op = "transition" =>
           /\ Shown /\ offer \in Row /\ FindEdge(offer.status, request.event) # {}
           /\ Followed(offer, tab.shown.row),
         request.op \in {"note", "upload"} => tab.page = "detail",
         request.op = "save" =>
           tab.page = "edit" /\ ("advanced" \in request.keys \/ ~Kept(tab.form)),
         request.op = "create" => tab.page = "new",
         request.op # "none"
  PROVE  PortalInv'
<1>1. /\ tab \in TabState /\ TabOK(tab) /\ tab.shown.row \in Row \cup {NoRow}
      /\ request.op = "transition" =>
           tab.page = "detail" /\ tab.shown.row \in Row /\ Followed(tab.shown.row, apps[tab.app])
  BY TabFacts DEF TabState, View, TabOK, PageOK, Shown
<1>2. PICK sent : sent = [request |-> request, from |-> tab.shown.row, offer |-> offer]
  OBVIOUS
<1>3. PICK x : x = [tab EXCEPT !.sent = sent]
  OBVIOUS
<1>4. Set(x)
  BY <1>2, <1>3 DEF Send
<1>5. /\ x \in TabState /\ x.page = tab.page /\ x.user = tab.user /\ x.app = tab.app
      /\ x.shown = tab.shown /\ x.next = tab.next /\ x.composing = tab.composing
      /\ x.sent = sent /\ x.form = tab.form
  BY <1>1, <1>2, <1>3 DEF TabState
<1>6. sent.request = request /\ sent.from = tab.shown.row /\ sent.offer = offer
  BY <1>2
<1>7. SentOK(x)
  BY <1>1, <1>5, <1>6 DEF SentOK
<1>8. PageOK(x) /\ ComposeOK(x) /\ FormOK(x)
  BY <1>1, <1>5 DEF TabOK, PageOK, ComposeOK, FormOK
<1>9. QED
  BY <1>4, <1>5, <1>7, <1>8, SetStep DEF TabOK

LEMMA TransitionRequest ==
  ASSUME NEW event \in EVENTS, NEW reason \in BOOLEAN
  PROVE  /\ Transition(event, reason) \in AllRequests
         /\ Transition(event, reason).op = "transition"
         /\ Transition(event, reason).event = event
BY DEF AllRequests, Requests, Transition

LEMMA ShownFacts ==
  ASSUME PortalInv, Shown
  PROVE  /\ tab.shown.row \in Row /\ tab.page = "detail" /\ tab.shown.stage = "shown"
         /\ Followed(tab.shown.row, tab.shown.row)
         /\ \A event \in Offered : event \in EVENTS /\ FindEdge(tab.shown.row.status, event) # {}
BY TabFacts, AllowedFacts DEF Shown, TabOK, PageOK, Offered, Followed

LEMMA ClickInvariant ==
  ASSUME PortalInv, NEW event \in EVENTS, Click(event)
  PROVE  PortalInv'
<1>1. /\ Shown /\ event \in Offered /\ Needs(event) = "nothing"
      /\ Send(Transition(event, FALSE), tab.shown.row)
  BY DEF Click
<1>2. PICK request : request = Transition(event, FALSE)
  OBVIOUS
<1>3. request \in AllRequests /\ request.op = "transition" /\ request.event = event
  BY <1>2, TransitionRequest
<1>4. QED
  BY <1>1, <1>2, <1>3, ShownFacts, SendInvariant

LEMMA ComposeInvariant ==
  ASSUME PortalInv, NEW composing, Set([tab EXCEPT !.composing = composing]),
         \/ composing = NoCompose
         \/ \E event \in EVENTS : StartCompose(event)
                                   /\ composing = [event |-> event, offer |-> tab.shown.row]
  PROVE  PortalInv'
<1>1. tab \in TabState /\ TabOK(tab)
  BY TabFacts
<1>2. PICK x : x = [tab EXCEPT !.composing = composing]
  OBVIOUS
<1>3. /\ composing \in [event : EVENTS \cup {"none"}, offer : Row \cup {NoRow}]
      /\ composing # NoCompose =>
           /\ tab.page = "detail" /\ tab.shown.stage = "shown" /\ composing.offer \in Row
           /\ Needs(composing.event) # "nothing"
           /\ FindEdge(composing.offer.status, composing.event) # {}
           /\ Followed(composing.offer, tab.shown.row)
  <2>1. CASE composing = NoCompose
    BY <2>1 DEF NoCompose
  <2>2. CASE composing # NoCompose
    <3>1. PICK event \in EVENTS :
            StartCompose(event) /\ composing = [event |-> event, offer |-> tab.shown.row]
      BY <2>2
    <3>2. Shown /\ Needs(event) # "nothing" /\ event \in Offered
      BY <3>1 DEF StartCompose
    <3>3. QED
      BY <3>1, <3>2, ShownFacts
  <2>3. QED
    BY <2>1, <2>2
<1>4. /\ x \in TabState /\ x.page = tab.page /\ x.user = tab.user /\ x.app = tab.app
      /\ x.shown = tab.shown /\ x.next = tab.next /\ x.composing = composing
      /\ x.sent = tab.sent /\ x.form = tab.form
  BY <1>1, <1>2, <1>3 DEF TabState
<1>5. TabOK(x)
  BY <1>1, <1>3, <1>4 DEF TabOK, PageOK, ComposeOK, SentOK, FormOK
<1>6. QED
  BY <1>2, <1>4, <1>5, SetStep

LEMMA ConfirmInvariant ==
  ASSUME PortalInv, NEW reason \in Reasons(tab.composing.event), Confirm(reason)
  PROVE  PortalInv'
<1>1. /\ Shown /\ tab.composing # NoCompose
      /\ Send(Transition(tab.composing.event, reason), tab.composing.offer)
  BY DEF Confirm
<1>2. /\ tab.composing.offer \in Row /\ Followed(tab.composing.offer, tab.shown.row)
      /\ FindEdge(tab.composing.offer.status, tab.composing.event) # {}
      /\ tab.composing.event \in EVENTS
  <2>1. /\ tab.composing.offer \in Row /\ Followed(tab.composing.offer, tab.shown.row)
        /\ FindEdge(tab.composing.offer.status, tab.composing.event) # {}
    BY <1>1, TabFacts DEF TabOK, ComposeOK
  <2>2. QED
    BY <2>1, EdgeFacts DEF FindEdge
<1>3. PICK request : request = Transition(tab.composing.event, reason)
  OBVIOUS
<1>4. request \in AllRequests /\ request.op = "transition" /\ request.event = tab.composing.event
  <2>1. reason \in BOOLEAN
    BY DEF Reasons
  <2>2. QED
    BY <1>2, <1>3, <2>1, TransitionRequest
<1>5. QED
  BY <1>1, <1>2, <1>3, <1>4, SendInvariant

LEMMA PageInvariant ==
  ASSUME PortalInv,
         \/ \E event \in EVENTS : StartCompose(event)
         \/ CancelCompose
         \/ \E visibility \in {"applicant", "staff"} : PostNote(visibility)
         \/ UploadFile
  PROVE  PortalInv'
<1>1. CASE \E event \in EVENTS : StartCompose(event)
  BY <1>1, ComposeInvariant DEF StartCompose
<1>2. CASE CancelCompose
  BY <1>2, ComposeInvariant DEF CancelCompose
<1>3. ASSUME NEW visibility \in {"applicant", "staff"}, PostNote(visibility)
      PROVE  PortalInv'
  <2>1. Note(visibility) \in AllRequests /\ Note(visibility).op = "note"
    BY DEF AllRequests, Requests, Note
  <2>2. QED
    BY <1>3, <2>1, SendInvariant, ShownFacts DEF PostNote
<1>4. CASE UploadFile
  <2>1. Upload \in AllRequests /\ Upload.op = "upload"
    BY DEF AllRequests, Requests, Upload
  <2>2. QED
    BY <1>4, <2>1, SendInvariant, ShownFacts DEF UploadFile
<1>5. QED
  BY <1>1, <1>2, <1>3, <1>4

-----------------------------------------------------------------------------
(* The edit form and the form of a new application.                        *)

(* A form page whose form changes as this lemma allows: on an edit form    *)
(* that was never without the key, the key stays.                          *)
LEMMA FormInvariant ==
  ASSUME PortalInv, NEW form \in Form, Set([tab EXCEPT !.form = form]),
         tab.page \in {"edit", "new"}, Idle,
         tab.page = "edit" => HasKey(form)
  PROVE  PortalInv'
<1>1. tab \in TabState /\ TabOK(tab)
  BY TabFacts
<1>2. PICK x : x = [tab EXCEPT !.form = form]
  OBVIOUS
<1>3. /\ x \in TabState /\ x.page = tab.page /\ x.user = tab.user /\ x.app = tab.app
      /\ x.shown = tab.shown /\ x.next = tab.next /\ x.composing = tab.composing
      /\ x.sent = tab.sent /\ x.form = form
  BY <1>1, <1>2 DEF TabState
<1>4. x.sent.request.op = "none"
  BY <1>3 DEF Idle, NotSent, NoRequest
<1>5. TabOK(x)
  BY <1>1, <1>3, <1>4 DEF TabOK, PageOK, ComposeOK, SentOK, FormOK
<1>6. QED
  BY <1>2, <1>3, <1>5, SetStep

LEMMA FormFacts ==
  ASSUME PortalInv
  PROVE  /\ tab.form \in Form /\ tab.form.script \in BOOLEAN /\ tab.form.early \in BOOLEAN
         /\ tab.form.open \in BOOLEAN /\ tab.form.text \in BOOLEAN
         /\ tab.form.base \in BOOLEAN /\ tab.form.seen \in BOOLEAN
         /\ tab.page = "edit" => HasKey(tab.form)
BY TabFacts DEF TabState, Form, TabOK, FormOK

LEMMA RunScriptInvariant ==
  ASSUME PortalInv, RunScript
  PROVE  PortalInv'
<1>1. tab \in TabState
  BY TabFacts
<1>2. PICK form : form = [tab.form EXCEPT !.script = TRUE, !.open = tab.form.base,
                                          !.text = tab.form.base]
  OBVIOUS
<1>3. /\ form \in Form /\ form.open = tab.form.base /\ form.text = tab.form.base
      /\ form.base = tab.form.base /\ form.seen = tab.form.seen /\ form.early = tab.form.early
  BY <1>2, FormFacts DEF Form
<1>4. tab.page = "edit" => HasKey(form)
  BY <1>3, FormFacts DEF HasKey
<1>5. Set([tab EXCEPT !.form = form])
  BY <1>1, <1>2 DEF RunScript, TabState
<1>6. QED
  BY <1>3, <1>4, <1>5, FormInvariant DEF RunScript, InForm

LEMMA ToggleInvariant ==
  ASSUME PortalInv, TogglePanel
  PROVE  PortalInv'
<1>1. tab \in TabState
  BY TabFacts
<1>2. PICK form : form = [tab.form EXCEPT !.open = ~@, !.text = tab.form.base, !.seen = TRUE]
  OBVIOUS
<1>3. form \in Form /\ form.seen
  BY <1>2, FormFacts DEF Form
<1>4. Set([tab EXCEPT !.form = form])
  BY <1>1, <1>2 DEF TogglePanel, TabState
<1>5. QED
  BY <1>3, <1>4, FormInvariant DEF TogglePanel, InForm, HasKey

LEMMA TypeInvariant ==
  ASSUME PortalInv, NEW keys \in BOOLEAN, Type(keys)
  PROVE  PortalInv'
<1>1. tab \in TabState /\ tab.form.text # keys
  BY TabFacts DEF Type
<1>2. PICK form : form = [tab.form EXCEPT !.text = keys, !.seen = @ \/ ~keys]
  OBVIOUS
<1>3. /\ form \in Form /\ (form.seen <=> tab.form.seen \/ ~keys)
      /\ form.script = tab.form.script /\ form.open = tab.form.open /\ form.text = keys
      /\ form.base = tab.form.base /\ form.early = tab.form.early
  BY <1>2, FormFacts DEF Form
<1>4. tab.page = "edit" => HasKey(form)
  BY <1>1, <1>3, FormFacts DEF HasKey
<1>5. Set([tab EXCEPT !.form = form])
  BY <1>1, <1>2 DEF Type, TabState
<1>6. QED
  BY <1>3, <1>4, <1>5, FormInvariant DEF Type, InForm

LEMMA ResubmittedFacts ==
  ASSUME NEW form \in Form, NEW keys \in SUBSET KEYS
  PROVE  /\ Resubmitted(form, keys) \in Form
         /\ "advanced" \in keys \/ ~Kept(form) => HasKey(Resubmitted(form, keys))
<1>1. PICK new : new = Resubmitted(form, keys)
  OBVIOUS
<1>2. /\ form.script \in BOOLEAN /\ form.open \in BOOLEAN
      /\ form.seen \in BOOLEAN /\ form.early \in BOOLEAN
  BY DEF Form
<1>3. /\ new \in Form /\ new.seen = form.seen
      /\ (new.early <=> form.early \/ ~form.script)
      /\ "advanced" \in keys => new.open /\ new.text /\ new.base
  <2>1. CASE "advanced" \in keys
    <3>1. new = [form EXCEPT !.base = TRUE, !.text = TRUE, !.open = TRUE,
                             !.early = @ \/ ~form.script]
      BY <1>1, <1>2, <2>1 DEF Resubmitted
    <3>2. QED
      BY <1>2, <3>1 DEF Form
  <2>2. CASE "advanced" \notin keys
    <3>1. new = [form EXCEPT !.base = FALSE, !.text = FALSE, !.early = @ \/ ~form.script]
      <4>1. ("advanced" \in keys) = FALSE
        BY <2>2
      <4>2. (form.open \/ FALSE) = form.open
        BY <1>2
      <4>3. new = [form EXCEPT !.base = FALSE, !.text = FALSE, !.open = @ \/ FALSE,
                               !.early = @ \/ ~form.script]
        BY <1>1, <4>1 DEF Resubmitted
      <4>4. QED
        BY <4>2, <4>3 DEF Form
    <3>2. QED
      BY <1>2, <2>2, <3>1 DEF Form
  <2>3. QED
    BY <2>1, <2>2
<1>4. "advanced" \in keys \/ ~Kept(form) => HasKey(new)
  BY <1>2, <1>3 DEF HasKey, Kept
<1>5. QED
  BY <1>1, <1>3, <1>4

(* What an edit form would send.                                           *)
LEMMA PayloadFacts ==
  ASSUME PortalInv
  PROVE  /\ Payload \in SUBSET KEYS
         /\ tab.page = "edit" => "advanced" \in Payload \/ ~Kept(tab.form)
BY FormFacts DEF Payload, KEYS, HasKey, Kept

LEMMA InvalidInvariant ==
  ASSUME PortalInv, Invalid
  PROVE  PortalInv'
<1>1. PICK keys \in SUBSET KEYS : keys = Payload
  BY PayloadFacts
<1>2. PICK form : form = Resubmitted(tab.form, keys)
  OBVIOUS
<1>3. form \in Form /\ (tab.page = "edit" => HasKey(form))
  BY <1>1, <1>2, FormFacts, PayloadFacts, ResubmittedFacts
<1>4. Set([tab EXCEPT !.form = form])
  BY <1>1, <1>2 DEF Invalid
<1>5. QED
  BY <1>3, <1>4, FormInvariant DEF Invalid, InForm

LEMMA FormOfFacts ==
  ASSUME NEW keys
  PROVE  FormOf(keys) \in Form /\ HasKey(FormOf(keys))
<1>1. CASE "advanced" \in keys
  <2>1. FormOf(keys) = [NoForm EXCEPT !.base = TRUE, !.seen = FALSE]
    BY <1>1 DEF FormOf
  <2>2. QED
    BY <2>1 DEF NoForm, Form, HasKey
<1>2. CASE "advanced" \notin keys
  <2>1. ("advanced" \in keys) = FALSE
    BY <1>2
  <2>2. FormOf(keys) = [NoForm EXCEPT !.base = FALSE, !.seen = ~FALSE]
    BY <2>1 DEF FormOf
  <2>3. QED
    BY <2>2 DEF NoForm, Form, HasKey
<1>3. QED
  BY <1>1, <1>2

LEMMA OpenEditInvariant ==
  ASSUME PortalInv, OpenEdit
  PROVE  PortalInv'
<1>1. /\ tab.page = "detail" /\ tab.app \in DOMAIN apps /\ tab.app \in Nat
      /\ apps[tab.app] \in Row /\ tab.user \in User
  BY TabFacts, ShownFacts DEF OpenEdit
<1>2. CASE Set(Detail(tab.user, tab.app))
  BY <1>1, <1>2, ClosedFacts, SetStep
<1>3. CASE Set([Closed EXCEPT !.page = "edit", !.user = tab.user, !.app = tab.app,
                              !.form = FormOf(apps[tab.app].keys)])
  <2>1. PICK form : form = FormOf(apps[tab.app].keys)
    OBVIOUS
  <2>2. form \in Form /\ HasKey(form)
    BY <2>1, FormOfFacts
  <2>3. PICK x : x = [Closed EXCEPT !.page = "edit", !.user = tab.user, !.app = tab.app,
                                    !.form = form]
    OBVIOUS
  <2>4. /\ x \in TabState /\ x.page = "edit" /\ x.user = tab.user /\ x.app = tab.app
        /\ x.shown = Closed.shown /\ x.next = Closed.next /\ x.composing = Closed.composing
        /\ x.sent = Closed.sent /\ x.form = form
    BY <1>1, <2>2, <2>3, ClosedFacts DEF TabState
  <2>5. /\ Closed.shown = NoView /\ Closed.next = NoView /\ Closed.composing = NoCompose
        /\ Closed.sent = NotSent /\ NotSent.request.op = "none"
        /\ NoView.stage = "none" /\ NoView.behind = {}
    BY DEF Closed, NotSent, NoRequest, NoView
  <2>6. TabOK(x)
    BY <1>1, <2>2, <2>4, <2>5 DEF TabOK, PageOK, ComposeOK, SentOK, FormOK
  <2>7. QED
    BY <1>3, <2>1, <2>3, <2>4, <2>6, SetStep
<1>4. QED
  BY <1>2, <1>3 DEF OpenEdit

LEMMA OpenNewInvariant ==
  ASSUME PortalInv, NEW user \in User, OpenNew(user)
  PROVE  PortalInv'
<1>1. PICK x : x = [Closed EXCEPT !.page = "new", !.user = user]
  OBVIOUS
<1>2. /\ x \in TabState /\ x.page = "new" /\ x.user = user
      /\ x.shown = Closed.shown /\ x.next = Closed.next /\ x.composing = Closed.composing
      /\ x.sent = Closed.sent
  BY <1>1, ClosedFacts DEF TabState
<1>3. /\ Closed.shown = NoView /\ Closed.next = NoView /\ Closed.composing = NoCompose
      /\ Closed.sent = NotSent /\ NotSent.request.op = "none"
      /\ NoView.stage = "none" /\ NoView.behind = {}
  BY DEF Closed, NotSent, NoRequest, NoView
<1>4. TabOK(x)
  BY <1>2, <1>3 DEF TabOK, PageOK, ComposeOK, SentOK, FormOK
<1>5. QED
  BY <1>1, <1>2, <1>4, SetStep DEF OpenNew

LEMMA SubmitInvariant ==
  ASSUME PortalInv, SaveChanges \/ CreateDraft
  PROVE  PortalInv'
<1>1. Payload \in SUBSET KEYS /\ (tab.page = "edit" => "advanced" \in Payload \/ ~Kept(tab.form))
  BY PayloadFacts
<1>2. /\ Save(Payload) \in AllRequests /\ Save(Payload).op = "save"
      /\ Save(Payload).keys = Payload
      /\ Create(Payload) \in AllRequests /\ Create(Payload).op = "create"
  BY <1>1 DEF Save, Create, AllRequests, Requests
<1>3. CASE SaveChanges
  BY <1>1, <1>2, <1>3, SendInvariant DEF SaveChanges
<1>4. CASE CreateDraft
  BY <1>2, <1>4, SendInvariant DEF CreateDraft
<1>5. QED
  BY <1>3, <1>4

-----------------------------------------------------------------------------
(* The request at the backend, and its answer.                             *)

LEMMA SentFacts ==
  ASSUME PortalInv, ~Idle
  PROVE  /\ tab.sent.request \in AllRequests /\ tab.user \in User
         /\ tab.sent.request.op \in {"transition", "note", "upload", "save", "create"}
         /\ tab.sent.request.op \in {"transition", "note", "upload"} => tab.page = "detail"
         /\ tab.sent.request.op = "save" => tab.page = "edit"
         /\ tab.sent.request.op = "create" => tab.page = "new"
         /\ tab.sent.request.op # "create" => tab.app \in DOMAIN apps
         /\ tab.page \in {"edit", "new"} => tab.sent.request.keys \in SUBSET KEYS
         /\ tab.page = "edit" => "advanced" \in tab.sent.request.keys \/ ~Kept(tab.form)
<1>1. /\ tab \in TabState /\ SentOK(tab) /\ PageOK(tab) /\ tab.sent.request \in AllRequests
      /\ tab.sent # NotSent
  BY TabFacts DEF Idle, TabOK, TabState
<1>2. /\ tab.sent.request.op \in {"transition", "note", "upload", "save", "create"}
      /\ tab.sent.request.op \in {"save", "create"} => tab.sent.request.keys \in SUBSET KEYS
  BY <1>1, RequestFacts DEF SentOK
<1>3. QED
  BY <1>1, <1>2 DEF SentOK, PageOK

LEMMA ExecutedFacts ==
  ASSUME PortalInv, Executed
  PROVE  /\ Grown /\ UNCHANGED roles /\ ~Idle
         /\ tab.page = "new" => Len(apps') \in DOMAIN apps' /\ Len(apps') \in Nat
         /\ (tab.sent.request.op = "transition" /\ <<apps, lists>>' # <<apps, lists>>) =>
              FindEdge(apps[tab.app].status, tab.sent.request.event) # {}
         /\ (tab.sent.request.op = "save" /\ <<apps, lists>>' # <<apps, lists>>) =>
              apps'[tab.app].keys = tab.sent.request.keys
<1>1. Types /\ ReasonsOwn
  BY DEF PortalInv
<1>2. ~Idle /\ UNCHANGED roles
  BY DEF Executed
<1>3. CASE tab.sent.request.op = "create"
  <2>1. Created(tab.user, tab.sent.request.keys) /\ tab.page = "new"
    BY <1>2, <1>3, SentFacts DEF Executed
  <2>2. QED
    BY <1>1, <1>2, <1>3, <2>1, SentFacts, CreatedFacts
<1>4. CASE tab.sent.request.op # "create"
  <2>1. Performed(tab.app, tab.user, tab.sent.request) /\ tab.page # "new"
    BY <1>2, <1>4, SentFacts DEF Executed
  <2>2. QED
    BY <1>1, <1>2, <1>4, <2>1, SentFacts, PerformedFacts
<1>5. QED
  BY <1>3, <1>4

LEMMA FailedFacts ==
  ASSUME PortalInv, ~Idle
  PROVE  Failed \in TabState /\ TabOK(Failed)
<1>1. tab \in TabState /\ TabOK(tab)
  BY TabFacts
<1>2. PICK form : form = IF tab.page = "detail" THEN tab.form
                         ELSE Resubmitted(tab.form, tab.sent.request.keys)
  OBVIOUS
<1>3. form \in Form /\ (tab.page = "edit" => HasKey(form))
  <2>1. CASE tab.page = "detail"
    BY <1>2, <2>1, FormFacts
  <2>2. CASE tab.page # "detail"
    <3>1. tab.page \in {"edit", "new"}
      BY <2>2, SentFacts
    <3>2. PICK keys \in SUBSET KEYS : keys = tab.sent.request.keys
      BY <3>1, SentFacts
    <3>3. form = Resubmitted(tab.form, keys)
      BY <1>2, <2>2, <3>2
    <3>4. tab.page = "edit" => "advanced" \in keys \/ ~Kept(tab.form)
      BY <3>2, SentFacts
    <3>5. QED
      BY <3>3, <3>4, FormFacts, ResubmittedFacts
  <2>3. QED
    BY <2>1, <2>2
<1>4. PICK x : x = [tab EXCEPT !.sent = NotSent, !.form = form]
  OBVIOUS
<1>5. x = Failed
  BY <1>1, <1>2, <1>4 DEF Failed, TabState
<1>6. NotSent \in [request : AllRequests, from : Row \cup {NoRow}, offer : Row \cup {NoRow}]
      /\ NotSent.request.op = "none"
  BY DEF NotSent, NoRequest, AllRequests
<1>7. /\ x \in TabState /\ x.page = tab.page /\ x.user = tab.user /\ x.app = tab.app
      /\ x.shown = tab.shown /\ x.next = tab.next /\ x.composing = tab.composing
      /\ x.sent = NotSent /\ x.form = form
  BY <1>1, <1>3, <1>4, <1>6 DEF TabState
<1>8. TabOK(x)
  BY <1>1, <1>3, <1>6, <1>7 DEF TabOK, PageOK, ComposeOK, SentOK, FormOK
<1>9. QED
  BY <1>5, <1>7, <1>8

LEMMA AnswerInvariant ==
  ASSUME PortalInv, NEW x \in TabState, TabOK(x), Grown, UNCHANGED roles, tab' = x
  PROVE  PortalInv'
<1>1. Types'
  BY DEF PortalInv, Types, Grown
<1>2. TabOK(x)'
  BY TabGrows DEF PortalInv
<1>3. QED
  BY <1>1, <1>2 DEF PortalInv, Grown

LEMMA FailureInvariant ==
  ASSUME PortalInv, Refuse \/ LoseAnswer
  PROVE  PortalInv'
<1>1. CASE Refuse
  BY <1>1, FailedFacts, SetStep DEF Refuse
<1>2. CASE LoseAnswer
  <2>1. PICK x : x = Failed
    OBVIOUS
  <2>2. x \in TabState /\ TabOK(x) /\ Grown /\ UNCHANGED roles /\ tab' = x
    BY <1>2, <2>1, ExecutedFacts, FailedFacts DEF LoseAnswer
  <2>3. QED
    BY <2>2, AnswerInvariant
<1>3. QED
  BY <1>1, <1>2

LEMMA SucceedInvariant ==
  ASSUME PortalInv, Succeed
  PROVE  PortalInv'
<1>1. /\ Grown /\ UNCHANGED roles /\ ~Idle
      /\ tab.page = "new" => Len(apps') \in DOMAIN apps' /\ Len(apps') \in Nat
  BY ExecutedFacts DEF Succeed
<1>2. tab \in TabState /\ TabOK(tab) /\ tab.user \in User /\ Types
  BY <1>1, TabFacts, SentFacts DEF PortalInv
<1>3. CASE tab.page = "edit"
  <2>1. PICK x : x = Detail(tab.user, tab.app)
    OBVIOUS
  <2>2. tab' = x /\ tab.app \in DOMAIN apps /\ tab.app \in Nat
    BY <1>3, <2>1, TabFacts DEF Succeed
  <2>3. x \in TabState /\ TabOK(x)
    BY <1>2, <2>1, <2>2, ClosedFacts
  <2>4. QED
    BY <1>1, <2>2, <2>3, AnswerInvariant
<1>4. CASE tab.page = "new"
  <2>1. PICK x : x = Detail(tab.user, Len(apps'))
    OBVIOUS
  <2>2. tab' = x
    BY <1>4, <2>1 DEF Succeed
  <2>3. PICK i : i = Len(apps')
    OBVIOUS
  <2>4. /\ NoView \in View /\ Loading \in View /\ NoForm \in Form /\ NoRequest \in AllRequests
        /\ NoView.stage = "none" /\ NoView.behind = {} /\ Loading.stage = "row"
    BY DEF NoView, Loading, View, NoForm, Form, NoRequest, AllRequests
  <2>5. /\ x \in TabState /\ x.page = "detail" /\ x.user = tab.user /\ x.app = i
        /\ x.composing = NoCompose /\ x.sent = NotSent /\ x.shown = NoView /\ x.next = Loading
    <3>1. /\ Closed \in TabState /\ Closed.composing = NoCompose /\ Closed.sent = NotSent
          /\ Closed.shown = NoView
      BY ClosedFacts DEF Closed
    <3>2. x = [Closed EXCEPT !.page = "detail", !.user = tab.user, !.app = i, !.next = Loading]
      BY <2>1, <2>3 DEF Detail
    <3>3. i \in Nat
      BY <1>1, <1>4, <2>3
    <3>4. QED
      BY <1>2, <2>4, <3>1, <3>2, <3>3 DEF TabState
  <2>6. NotSent.request.op = "none"
    BY DEF NotSent, NoRequest
  <2>7. i \in DOMAIN apps'
    BY <1>1, <1>4, <2>3
  <2>8. TabOK(x)'
    BY <1>2, <2>4, <2>5, <2>6, <2>7 DEF TabOK, PageOK, ComposeOK, SentOK, FormOK
  <2>9. QED
    BY <1>1, <2>2, <2>5, <2>8 DEF PortalInv, Types, Grown
<1>5. CASE tab.page = "detail"
  <2>1. PICK composing \in {tab.composing, NoCompose} :
          tab' = [tab EXCEPT !.sent = NotSent, !.next = Loading, !.composing = composing]
    BY <1>2, <1>5 DEF Succeed
  <2>2. PICK x : x = [tab EXCEPT !.sent = NotSent, !.next = Loading, !.composing = composing]
    OBVIOUS
  <2>3. /\ Loading \in View /\ NotSent.request.op = "none" /\ Loading.stage = "row"
        /\ NotSent \in [request : AllRequests, from : Row \cup {NoRow}, offer : Row \cup {NoRow}]
        /\ NoCompose \in [event : EVENTS \cup {"none"}, offer : Row \cup {NoRow}]
    BY DEF NoView, Loading, View, NotSent, NoRequest, AllRequests, NoCompose
  <2>4. /\ x \in TabState /\ x.page = tab.page /\ x.user = tab.user /\ x.app = tab.app
        /\ x.shown = tab.shown /\ x.next = Loading /\ x.composing = composing
        /\ x.sent = NotSent /\ x.form = tab.form
    BY <1>2, <2>2, <2>3 DEF TabState
  <2>5. TabOK(x)
    BY <1>2, <1>5, <2>3, <2>4 DEF TabOK, PageOK, ComposeOK, SentOK, FormOK
  <2>6. QED
    BY <1>1, <2>1, <2>2, <2>4, <2>5, AnswerInvariant
<1>6. QED
  <2>1. tab.page \in {"detail", "edit", "new"}
    BY <1>1, SentFacts
  <2>2. QED
    BY <1>3, <1>4, <1>5, <2>1

-----------------------------------------------------------------------------
(* The invariant.                                                          *)

LEMMA InitEstablishes ==
  ASSUME Init
  PROVE  PortalInv
<1>1. apps = <<>> /\ lists = <<>> /\ tab = Closed
  BY DEF Init
<1>2. /\ <<>> \in Seq(Row) /\ <<>> \in Seq(Lists) /\ Len(<<>>) = 0 /\ DOMAIN <<>> = {}
  BY EmptySeq
<1>3. roles \in [User -> SUBSET ROLES]
  BY DEF Init
<1>4. ReasonsOwn
  BY <1>1, <1>2 DEF ReasonsOwn
<1>5. QED
  BY <1>1, <1>2, <1>3, <1>4, ClosedFacts DEF PortalInv, Types

LEMMA StepPreserves ==
  ASSUME PortalInv, [Next]_vars
  PROVE  PortalInv'
<1>1. CASE UNCHANGED vars
  BY <1>1 DEF PortalInv, Types, ReasonsOwn, TabOK, PageOK, ComposeOK, SentOK, FormOK,
              vars
<1>2. ASSUME NEW user \in User,
             \/ OthersCreate(user)
             \/ \E i \in DOMAIN apps, request \in Others : OthersAct(user, i, request)
             \/ \E held \in RolesOf[user] : ChangeRoles(user, held)
      PROVE  PortalInv'
  BY <1>2, OthersInvariant
<1>3. ASSUME NEW user \in Viewer, OpenNew(user)
      PROVE  PortalInv'
  BY <1>3, OpenNewInvariant, PortalAssumption
<1>4. ASSUME NEW user \in Viewer, NEW i \in DOMAIN apps, Open(user, i)
      PROVE  PortalInv'
  BY <1>4, OpenInvariant, PortalAssumption
<1>5. CASE Close \/ LoadFails
  BY <1>5, CloseInvariant
<1>6. CASE LoadRow
  BY <1>6, LoadRowInvariant
<1>7. CASE LoadLists \/ ListsFail
  BY <1>7, ShowsInvariant
<1>8. CASE \E event \in EVENTS : Click(event) \/ StartCompose(event)
  BY <1>8, ClickInvariant, PageInvariant
<1>9. CASE \E reason \in Reasons(tab.composing.event) : Confirm(reason)
  BY <1>9, ConfirmInvariant
<1>10. CASE CancelCompose \/ UploadFile
            \/ \E visibility \in {"applicant", "staff"} : PostNote(visibility)
  BY <1>10, PageInvariant
<1>11. CASE OpenEdit
  BY <1>11, OpenEditInvariant
<1>12. CASE RunScript \/ TogglePanel \/ Invalid \/ \E keys \in BOOLEAN : Type(keys)
  BY <1>12, RunScriptInvariant, ToggleInvariant, InvalidInvariant, TypeInvariant
<1>13. CASE SaveChanges \/ CreateDraft
  BY <1>13, SubmitInvariant
<1>14. CASE Succeed
  BY <1>14, SucceedInvariant
<1>15. CASE Refuse \/ LoseAnswer
  BY <1>15, FailureInvariant
<1>16. QED
  BY <1>1, <1>2, <1>3, <1>4, <1>5, <1>6, <1>7, <1>8, <1>9, <1>10, <1>11, <1>12, <1>13, <1>14,
     <1>15 DEF Next

(* The inductive invariant holds in every reachable state: what the tab    *)
(* shows, composes and sends was decided on rows that the applications     *)
(* have since moved on from, and never the other way round.                *)
THEOREM PortalInvariant == Spec => []PortalInv
<1>1. Init => PortalInv
  BY InitEstablishes
<1>2. PortalInv /\ [Next]_vars => PortalInv'
  BY StepPreserves
<1>3. QED
  BY <1>1, <1>2, PTL DEF Spec

(* The variables have their types.                                         *)
THEOREM TypeCorrect == Spec => []TypeOK
<1>1. PortalInv => TypeOK
  <2>. SUFFICES ASSUME PortalInv
                PROVE  TypeOK
    OBVIOUS
  <2>1. tab \in TabState /\ TabOK(tab) /\ Types
    BY DEF PortalInv, Types
  <2>2. IsView(tab.shown) /\ IsView(tab.next)
    BY <2>1 DEF TabState, View, IsView
  <2>3. tab.sent.request \in Requests \cup {Create(keys) : keys \in SUBSET KEYS} \cup {NoRequest}
    BY <2>1 DEF TabState, AllRequests
  <2>4. QED
    BY <2>1, <2>2, <2>3 DEF TypeOK, Types, Lists, TabState, TabOK, PageOK, ComposeOK
<1>2. QED
  BY <1>1, PortalInvariant, PTL

(* A decided application's reason came with the decision, if it has one,   *)
(* and a page that shows a decision shows the application as it is: no     *)
(* step leads on from a decided row.                                       *)
THEOREM DecisionReasonsStand == Spec => []DecisionReasonStands
<1>1. PortalInv => DecisionReasonStands
  <2>. SUFFICES ASSUME PortalInv
                PROVE  DecisionReasonStands
    OBVIOUS
  <2>1. \A i \in DOMAIN apps :
          apps[i].status \in {"APPROVED", "REJECTED"} => apps[i].reason \in {0, apps[i].version}
    BY DEF PortalInv, ReasonsOwn, OwnReason
  <2>2. ASSUME Shown, tab.shown.row.status \in {"APPROVED", "REJECTED"}
        PROVE  apps[tab.app] = tab.shown.row
    <3>1. tab.shown.row \in Row /\ Followed(tab.shown.row, apps[tab.app])
      BY <2>2, TabFacts DEF Shown, TabOK, PageOK
    <3>2. tab.shown.row.status \in TERMINAL_STATUSES /\ tab.shown.row.status \in STATUSES
      BY <2>2, <3>1 DEF TERMINAL_STATUSES, STATUSES
    <3>3. Phase(tab.shown.row.status) = 4 /\ tab.shown.row.status \notin EDITABLE_STATUSES
      BY <3>2, PhaseFacts DEF EDITABLE_STATUSES, TERMINAL_STATUSES
    <3>4. QED
      BY <3>1, <3>3 DEF Followed, Edited, Moved
  <2>3. QED
    BY <2>1, <2>2 DEF DecisionReasonStands
<1>2. QED
  BY <1>1, PortalInvariant, PTL

(* No card of the page is older than the row it is shown with, because the *)
(* lists are read after the row and rows only move on; but a history over  *)
(* the limit of its endpoint is cut off, whatever the limit.               *)
THEOREM CardsAreInStep == Spec => []CardsCoverRow
<1>1. PortalInv => CardsCoverRow
  BY DEF PortalInv, TabOK, PageOK, LacksOnlyHistory, CardsCoverRow
<1>2. QED
  BY <1>1, PortalInvariant, PTL

-----------------------------------------------------------------------------
(* The action properties.                                                  *)

(* Only the tab's own request changes both the tab and an application.     *)
LEMMA OnlyExecuted ==
  ASSUME PortalInv, [Next]_vars, IsExecuted
  PROVE  Executed /\ <<apps, lists>>' # <<apps, lists>>
<1>1. ~Idle /\ tab' # tab /\ <<apps, lists>>' # <<apps, lists>>
  BY DEF IsExecuted
<1>2. Succeed \/ LoseAnswer
  BY <1>1 DEF Next, vars, Set, OthersCreate, OthersAct, ChangeRoles, OpenNew, Open, Close, LoadRow,
     LoadFails, LoadLists, ListsFail, Show, Click, StartCompose, CancelCompose, Confirm,
     PostNote, UploadFile, OpenEdit, RunScript, TogglePanel, Invalid, SaveChanges, CreateDraft, Type,
     Refuse, Send
<1>3. QED
  BY <1>1, <1>2 DEF Succeed, LoseAnswer

(* A transition of the tab that takes effect: what it was offered on, what *)
(* the page showed and what the application is by now.                     *)
LEMMA TakesEffect ==
  ASSUME PortalInv, [Next]_vars, NEW events \in SUBSET EVENTS, ExecutedEvents(events),
         "withdraw" \notin events
  PROVE  \E offer, from, now \in Row :
           /\ offer = tab.sent.offer /\ from = tab.sent.from /\ now = apps[tab.app]
           /\ Followed(offer, from) /\ Followed(from, now)
           /\ offer.status = now.status
           /\ FindEdge(now.status, tab.sent.request.event) # {}
<1>1. /\ IsExecuted /\ tab.sent.request.op = "transition" /\ tab.sent.request.event # "withdraw"
  BY DEF ExecutedEvents
<1>2. Executed /\ <<apps, lists>>' # <<apps, lists>>
  BY <1>1, OnlyExecuted
<1>3. FindEdge(apps[tab.app].status, tab.sent.request.event) # {}
  BY <1>1, <1>2, ExecutedFacts
<1>4. /\ tab.sent.offer \in Row /\ tab.sent.from \in Row /\ apps[tab.app] \in Row
      /\ FindEdge(tab.sent.offer.status, tab.sent.request.event) # {}
      /\ Followed(tab.sent.offer, tab.sent.from) /\ Followed(tab.sent.from, apps[tab.app])
  BY <1>1, TabFacts DEF TabOK, SentOK
<1>5. tab.sent.offer.status = apps[tab.app].status
  BY <1>1, <1>3, <1>4, OneStatus
<1>6. QED
  BY <1>3, <1>4, <1>5

(* A decision is about exactly what the page showed, when its form was     *)
(* opened and when it was confirmed: a case that is ready for a decision   *)
(* cannot be edited, and does not come back once it has left.              *)
THEOREM DecisionsAreInformed == Spec => DecisionOnWhatWasShown
<1>1. ASSUME PortalInv, [Next]_vars, ExecutedEvents({"approve", "reject"})
      PROVE  apps[tab.app] = tab.sent.from /\ apps[tab.app] = tab.sent.offer
  <2>1. {"approve", "reject"} \in SUBSET EVENTS /\ "withdraw" \notin {"approve", "reject"}
    BY DEF EVENTS
  <2>2. PICK offer \in Row, from \in Row, now \in Row :
          /\ offer = tab.sent.offer /\ from = tab.sent.from /\ now = apps[tab.app]
          /\ Followed(offer, from) /\ Followed(from, now)
          /\ offer.status = now.status
          /\ FindEdge(now.status, tab.sent.request.event) # {}
    BY <1>1, <2>1, TakesEffect
  <2>3. now.status = "READY_FOR_DECISION"
    BY <1>1, <2>2, EdgeFacts DEF FindEdge, ExecutedEvents
  <2>4. /\ offer.status \in STATUSES /\ from.status \in STATUSES /\ now.status \in STATUSES
        /\ offer.version \in Nat /\ from.version \in Nat /\ now.version \in Nat
        /\ offer.edits \in Nat /\ from.edits \in Nat /\ now.edits \in Nat
    BY DEF Row
  <2>5. Phase(offer.status) = 3 /\ Phase(now.status) = 3 /\ offer.status \notin EDITABLE_STATUSES
    BY <2>2, <2>3, <2>4, PhaseFacts DEF EDITABLE_STATUSES
  <2>6. offer = now
    BY <2>2, <2>5, FollowedTransitive DEF Followed, Edited, Moved
  <2>7. from = offer
    BY <2>2, <2>4, <2>6 DEF Followed, Edited, Moved
  <2>8. QED
    BY <2>2, <2>6, <2>7
<1>2. PortalInv /\ [Next]_vars =>
        [ExecutedEvents({"approve", "reject"}) =>
           apps[tab.app] = tab.sent.from /\ apps[tab.app] = tab.sent.offer]_vars
  BY <1>1
<1>3. QED
  BY <1>2, PortalInvariant, PTL DEF Spec, DecisionOnWhatWasShown

(* A late click takes effect only when it withdraws, or after a whole      *)
(* request for information: every other event belongs to one status, and a *)
(* status comes back only in a later round.                                *)
THEOREM LateClicksAreOfALaterRound == Spec => StaleClickMeansRfiRound
<1>1. ASSUME PortalInv, [Next]_vars, ExecutedEvents(EVENTS \ {"withdraw"}),
             apps[tab.app].version # tab.sent.offer.version
      PROVE  /\ apps[tab.app].rfis > tab.sent.offer.rfis
             /\ apps[tab.app].status = tab.sent.offer.status
  <2>1. PICK offer \in Row, from \in Row, now \in Row :
          /\ offer = tab.sent.offer /\ from = tab.sent.from /\ now = apps[tab.app]
          /\ Followed(offer, from) /\ Followed(from, now)
          /\ offer.status = now.status
    BY <1>1, TakesEffect
  <2>2. Moved(offer, now)
    BY <1>1, <2>1, FollowedTransitive DEF Followed, Edited
  <2>3. Phase(offer.status) \in 0..4 /\ offer.rfis \in Nat /\ now.rfis \in Nat
    BY PhaseFacts DEF Row
  <2>4. now.rfis > offer.rfis
    BY <2>1, <2>2, <2>3 DEF Moved
  <2>5. QED
    BY <2>1, <2>4
<1>2. PortalInv /\ [Next]_vars =>
        [(ExecutedEvents(EVENTS \ {"withdraw"})
            /\ apps[tab.app].version # tab.sent.offer.version) =>
           /\ apps[tab.app].rfis > tab.sent.offer.rfis
           /\ apps[tab.app].status = tab.sent.offer.status]_vars
  BY <1>1
<1>3. QED
  BY <1>2, PortalInvariant, PTL DEF Spec, StaleClickMeansRfiRound

(* A save drops the advanced key only if the user saw it missing from the  *)
(* form or caused it, or if the form was sent without its script: a form   *)
(* whose script ran before it was ever sent, and that was never without    *)
(* the key, sends it back.  Keys inside "contact" are dropped by any save. *)
THEOREM LostKeysWereSeen == Spec => KeysLostUnseen
<1>1. ASSUME PortalInv, [Next]_vars, IsExecuted, tab.sent.request.op = "save",
             NEW key \in apps[tab.app].keys \ apps'[tab.app].keys
      PROVE  key = "contact" \/ tab.form.seen \/ tab.form.early \/ ~tab.form.script
  <2>1. Executed /\ <<apps, lists>>' # <<apps, lists>>
    BY <1>1, OnlyExecuted
  <2>2. key \notin tab.sent.request.keys
    BY <1>1, <2>1, ExecutedFacts
  <2>3. key \in KEYS
    <3>1. ~Idle
      BY <1>1 DEF IsExecuted
    <3>2. apps[tab.app] \in Row
      BY <1>1, <3>1, SentFacts, TabFacts
    <3>3. QED
      BY <1>1, <3>2 DEF Row
  <2>4. "advanced" \in tab.sent.request.keys \/ ~Kept(tab.form)
    BY <1>1, TabFacts DEF TabOK, SentOK
  <2>5. QED
    BY <2>2, <2>3, <2>4 DEF KEYS, Kept
<1>2. PortalInv /\ [Next]_vars =>
        [(IsExecuted /\ tab.sent.request.op = "save") =>
           \A key \in apps[tab.app].keys \ apps'[tab.app].keys :
             key = "contact" \/ tab.form.seen \/ tab.form.early \/ ~tab.form.script]_vars
  BY <1>1
<1>3. QED
  BY <1>2, PortalInvariant, PTL DEF Spec, KeysLostUnseen

-----------------------------------------------------------------------------
(* The queues.                                                             *)

LEMMA TableFacts ==
  ASSUME Types
  PROVE  /\ DOMAIN apps \in SUBSET Nat /\ IsFiniteSet(DOMAIN apps)
         /\ Len(apps) \in Nat /\ Cardinality(DOMAIN apps) = Len(apps)
         /\ \A i \in DOMAIN apps :
              /\ apps[i] \in Row /\ apps[i].status \in STATUSES /\ apps[i].applicant \in User
              /\ apps[i].reviewedBy \in User \cup {Nobody}
<1>1. apps \in Seq(Row) /\ Len(apps) \in Nat /\ DOMAIN apps = 1..Len(apps)
  BY LenProperties DEF Types
<1>2. IsFiniteSet(1..Len(apps)) /\ Cardinality(1..Len(apps)) = Len(apps)
  BY <1>1, FS_Interval
<1>3. \A i \in DOMAIN apps : apps[i] \in Row
  BY <1>1, ElementOfSeq
<1>4. QED
  BY <1>1, <1>2, <1>3 DEF Row

LEMMA LimitFacts ==
  ASSUME NEW limits \in Limits
  PROVE  /\ limits.inbox \in Nat /\ limits.home \in Nat /\ limits.list \in Nat
         /\ limits.home <= limits.list
BY PortalAssumption

(* An unassigned case that the home page loaded is in its inbox or, when   *)
(* the inbox is cut off, behind "See all".                                 *)
LEMMA InboxLinks ==
  ASSUME Types, NEW user, NEW held, NEW limits \in Limits, isReviewer(held),
         NEW i \in Listed(apps, user, held, STATUSES, limits.home), apps[i].status = "SUBMITTED"
  PROVE  i \in HomeLinks(apps, user, held, limits)
<1>. DEFINE ids == Listed(apps, user, held, STATUSES, limits.home)
            submissions == unassignedSubmissions(apps, ids, held)
<1>1. ids \in SUBSET DOMAIN apps
  BY TableFacts, ListedFacts, LimitFacts
<1>2. /\ i \in submissions /\ submissions \in SUBSET DOMAIN apps
      /\ submissions \in SUBSET Nat /\ IsFiniteSet(submissions)
  <2>1. i \in submissions /\ submissions \in SUBSET DOMAIN apps
    BY <1>1 DEF unassignedSubmissions, InStatus
  <2>2. QED
    BY <2>1, TableFacts, FS_Subset
<1>3. CASE Cardinality(submissions) <= limits.inbox
  <2>. HIDE DEF submissions
  <2>1. Newest(submissions, limits.inbox) = submissions
    BY <1>2, <1>3, NewestFacts, LimitFacts
  <2>2. QED
    BY <1>2, <2>1 DEF HomeLinks, submissions
<1>4. CASE Cardinality(submissions) > limits.inbox
  <2>1. i \in Listed(apps, user, held, {"SUBMITTED"}, limits.list)
    <3>1. {"SUBMITTED"} \subseteq STATUSES
      BY DEF STATUSES
    <3>2. QED
      BY <3>1, TableFacts, ListedGrows, LimitFacts
  <2>2. i \in ApplicationsPage(apps, user, held,
                               [statuses |-> {"SUBMITTED"}, mine |-> FALSE, assigned |-> FALSE],
                               limits.list)
    BY <2>1 DEF ApplicationsPage
  <2>3. i \in SeeAll(apps, user, held, submissions, limits)
    BY <1>4, <2>2 DEF SeeAll
  <2>4. QED
    BY <2>3 DEF HomeLinks
<1>5. QED
  <2>1. Cardinality(submissions) \in Nat /\ limits.inbox \in Nat
    BY <1>2, FS_CardinalityType, LimitFacts
  <2>2. QED
    BY <1>3, <1>4, <2>1

LEMMA HomeIsComplete ==
  ASSUME Types, NEW user, NEW held, NEW limits \in Limits
  PROVE  HomeComplete(user, held, limits)
<1>. SUFFICES ASSUME NEW i \in DOMAIN apps, allowedEvents(apps[i], user, held) # {},
                     ~(apps[i].status = "UNDER_REVIEW" /\ apps[i].reviewedBy # user),
                     i \in Listed(apps, user, held, STATUSES, limits.home),
                     ~(IsOwner(apps[i], user) /\ ~isApplicant(held))
              PROVE  i \in HomeLinks(apps, user, held, limits)
  BY DEF HomeComplete
<1>1. \/ IsOwner(apps[i], user)
      \/ apps[i].status \in {"SUBMITTED", "UNDER_REVIEW"} /\ isReviewer(held)
      \/ apps[i].status = "READY_FOR_DECISION" /\ isApprover(held)
  BY ButtonHolders
<1>2. CASE IsOwner(apps[i], user)
  BY <1>2 DEF HomeLinks, myApplications
<1>3. CASE apps[i].status = "SUBMITTED" /\ isReviewer(held)
  BY <1>3, InboxLinks
<1>4. CASE apps[i].status = "UNDER_REVIEW" /\ isReviewer(held)
  BY <1>4 DEF HomeLinks, assignedToMe
<1>5. CASE apps[i].status = "READY_FOR_DECISION" /\ isApprover(held)
  BY <1>5 DEF HomeLinks, readyForDecision, InStatus
<1>6. QED
  BY <1>1, <1>2, <1>3, <1>4, <1>5

LEMMA QueuesAreActionable ==
  ASSUME Types, NEW user, NEW held
  PROVE  QueuesActionable(user, held)
BY Buttons, DecisionButtons DEF QueuesActionable, unassignedSubmissions, assignedToMe,
   readyForDecision, InStatus, DECISIONS

LEMMA ReviewsAreAtHome ==
  ASSUME Types, NEW limits \in Limits
  PROVE  ReviewsHaveAHome(limits)
BY DEF ReviewsHaveAHome, HomeLinks, assignedToMe

LEMMA SwitchesAreWider ==
  ASSUME Types, NEW user, NEW held, NEW limits \in Limits
  PROVE  SwitchesAgree(user, held, limits)
<1>1. ASSUME NEW i \in Listed(apps, user, held, STATUSES, limits.home)
      PROVE  i \in Listed(apps, user, held, STATUSES, limits.list)
  BY TableFacts, ListedFacts, ListedGrows, LimitFacts
<1>2. QED
  BY <1>1 DEF SwitchesAgree, ApplicationsPage, myApplications, assignedToMe

(* A case is open as long as there is somebody who can act on it, or would *)
(* but for dual control.                                                   *)
LEMMA OpenMeansActionable ==
  ASSUME Types, NEW i \in DOMAIN apps
  PROVE  ~IsTerminal(apps[i].status) <=>
           \E u \in User : \/ allowedEvents(apps[i], u, ROLES) # {}
                           \/ dualControlBlocks(apps[i], u, ROLES)
<1>1. apps[i].status \in STATUSES /\ apps[i].applicant \in User
  BY TableFacts
<1>2. isReviewer(ROLES) /\ isApprover(ROLES) /\ isApplicant(ROLES)
  BY DEF isReviewer, isApprover, isApplicant, ROLES
<1>3. ASSUME ~IsTerminal(apps[i].status)
      PROVE  \/ allowedEvents(apps[i], apps[i].applicant, ROLES) # {}
             \/ dualControlBlocks(apps[i], apps[i].applicant, ROLES)
  <2>1. /\ IsOwner(apps[i], apps[i].applicant)
        /\ apps[i].status \in {"DRAFT", "SUBMITTED", "UNDER_REVIEW", "RFI_REQUESTED",
                               "READY_FOR_DECISION"}
    BY <1>1, <1>3 DEF IsOwner, IsTerminal, STATUSES, TERMINAL_STATUSES
  <2>2. CASE apps[i].status = "READY_FOR_DECISION"
    BY <1>2, <2>2, DecisionButtons DEF DECISIONS
  <2>3. CASE apps[i].status # "READY_FOR_DECISION"
    BY <1>2, <2>1, <2>3, Buttons
  <2>4. QED
    BY <2>2, <2>3
<1>4. ASSUME NEW u \in User, \/ allowedEvents(apps[i], u, ROLES) # {}
                             \/ dualControlBlocks(apps[i], u, ROLES)
      PROVE  ~IsTerminal(apps[i].status)
  BY <1>4, ButtonHolders DEF dualControlBlocks, IsTerminal, TERMINAL_STATUSES
<1>5. QED
  BY <1>1, <1>3, <1>4

(* A number of people is positive when there is one.                       *)
LEMMA PeopleCounted ==
  ASSUME NEW people \in SUBSET User
  PROVE  Cardinality(people) \in Nat /\ (Cardinality(people) > 0 <=> people # {})
<1>1. IsFiniteSet(people)
  BY PortalAssumption, FS_Subset
<1>2. QED
  BY <1>1, FS_CardinalityType, FS_EmptySet

LEMMA StaffCounted ==
  ASSUME Types, NEW user, NEW held, NEW limit
  PROVE  LET board == Dashboard(apps, user, held, roles, limit)
         IN /\ board.staffBreakdown["reviewer"] + board.staffBreakdown["admin"] > 0
                 <=> \E u \in User : isReviewer(roles[u])
            /\ board.activeStaff > 0
                 <=> \E u \in User : isReviewer(roles[u]) \/ isApprover(roles[u])
<1>. DEFINE board == Dashboard(apps, user, held, roles, limit)
            Holders(role) == {u \in User : role \in roles[u]}
            staff == {u \in User : hasStaffRole(roles[u])}
<1>1. DOMAIN roles = User
  BY DEF Types
<1>2. /\ board.staffBreakdown["reviewer"] = Cardinality(Holders("reviewer"))
      /\ board.staffBreakdown["admin"] = Cardinality(Holders("admin"))
      /\ board.activeStaff = Cardinality(staff)
  BY <1>1 DEF Dashboard, STAFF
<1>. HIDE DEF board
<1>3. /\ \A role : Holders(role) \in SUBSET User
      /\ staff \in SUBSET User
  OBVIOUS
<1>4. (\E u \in User : isReviewer(roles[u]))
        <=> Holders("reviewer") # {} \/ Holders("admin") # {}
  BY DEF isReviewer
<1>5. (\E u \in User : isReviewer(roles[u]) \/ isApprover(roles[u])) <=> staff # {}
  BY DEF isReviewer, isApprover, hasStaffRole, STAFF
<1>. HIDE DEF Holders, staff
<1>6. QED
  BY <1>2, <1>3, <1>4, <1>5, PeopleCounted DEF board

LEMMA DashboardIsRight ==
  ASSUME Types, NEW user, NEW held, NEW limits \in Limits
  PROVE  DashboardAgrees(user, held, limits)
<1>. SUFFICES ASSUME "admin" \in held, limits.home >= Len(apps), limits.list >= Len(apps)
              PROVE  DashboardAgrees(user, held, limits)
  BY DEF DashboardAgrees
<1>. DEFINE ids == DOMAIN apps
            board == Dashboard(apps, user, held, roles, limits.list)
<1>1. hasStaffRole(held) /\ isApprover(held) /\ isReviewer(held)
  BY DEF hasStaffRole, STAFF, isApprover, isReviewer
<1>2. /\ Listed(apps, user, held, STATUSES, limits.home) = ids
      /\ Listed(apps, user, held, STATUSES, limits.list) = ids
  BY <1>1, TableFacts, LimitFacts, StaffSeeAll
<1>3. /\ board.awaitingDecision = Cardinality(readyForDecision(apps, ids, held))
      /\ board.statusCounts["SUBMITTED"] = Cardinality(unassignedSubmissions(apps, ids, held))
      /\ board.openApplications = Cardinality({i \in ids : ~IsTerminal(apps[i].status)})
  BY <1>1, <1>2 DEF Dashboard, readyForDecision, unassignedSubmissions, STATUSES
<1>4. ApplicationsPage(apps, user, held,
                       [statuses |-> STATUSES, mine |-> FALSE, assigned |-> FALSE],
                       limits.list) = ids
  BY <1>2 DEF ApplicationsPage
<1>5. {i \in ids : ~IsTerminal(apps[i].status)} =
        {i \in ids : \E u \in User : \/ allowedEvents(apps[i], u, ROLES) # {}
                                     \/ dualControlBlocks(apps[i], u, ROLES)}
  BY OpenMeansActionable
<1>6. /\ board.staffBreakdown["reviewer"] + board.staffBreakdown["admin"] > 0
           <=> \E u \in User : isReviewer(roles[u])
      /\ board.activeStaff > 0
           <=> \E u \in User : isReviewer(roles[u]) \/ isApprover(roles[u])
  BY StaffCounted
<1>. HIDE DEF board, ids
<1>7. QED
  BY <1>2, <1>3, <1>4, <1>5, <1>6 DEF DashboardAgrees, board

(* Home page, lists, dashboard and buttons agree about every table of      *)
(* applications, for all roles and limits: nobody's work is out of sight,  *)
(* except where the property says so.                                      *)
THEOREM NothingOutOfSight == Spec => []QueuesComplete
<1>1. PortalInv => QueuesComplete
  BY HomeIsComplete, QueuesAreActionable, ReviewsAreAtHome, SwitchesAreWider,
     DashboardIsRight DEF PortalInv, QueuesComplete
<1>2. QED
  BY <1>1, PortalInvariant, PTL
=============================================================================
