-------------------------- MODULE RoleAdmin_proofs --------------------------
(***************************************************************************)
(* Theorems about RoleAdmin, for every set of users, admins, tabs and      *)
(* toggles, every page size and every bound.                               *)
(***************************************************************************)
EXTENDS RoleAdmin, IdOrder_proofs, SequenceTheorems

-----------------------------------------------------------------------------
(* The inductive invariant.                                                *)

TabState ==
  [pc : {"closed", "page", "sent", "answered"} \cup InTransaction, user : User \cup {NoOne},
   toggle : Toggles \cup {<<NoOne, "applicant">>}, has : BOOLEAN, loaded : Nat, since : Nat,
   wrote : BOOLEAN, by : User \cup {NoOne}, id : Nat, reply : Replies]

(* What a role that was held when the trail had n entries has become: it   *)
(* is held, or a revoke that was committed since says why not.             *)
HeldOrRevoked(toggle, n) ==
  Holds(toggle[1], toggle[2]) \/ Entries("revoked", toggle, n) # {}

(* A grant that found its row in the table, and writes nothing.            *)
FoundHeld(x) ==
  ~x.has /\ (x.pc = "readback" \/ (x.pc \in {"appending", "committing"} /\ ~x.wrote))

(* The fields of a page that fit together.                                 *)
TabShape(x) ==
  /\ x.pc # "closed" => x.user \in User /\ x.toggle \in Toggles
  /\ x.reply # "none" <=> x.pc = "answered"
  /\ x.id # 0 <=> x.pc = "committing"
  /\ x.wrote => x.pc \in {"appending", "committing"}
  /\ x.pc \in {"appending", "committing"} =>
       IF x.has THEN x.wrote ELSE x.by \in User /\ (x.wrote => x.by = x.user)
  /\ x.pc = "readback" => ~x.has
  /\ x.loaded <= Len(trail) /\ x.since <= Len(trail)
  /\ x.pc \in InTransaction => x.loaded <= x.since
  /\ x.id <= lastId

(* What the page showed, and what its request found, still holds or was    *)
(* revoked since.                                                          *)
TabSaw(x) ==
  /\ x.pc # "closed" => /\ HeldOrRevoked(<<x.user, "admin">>, x.loaded)
                        /\ x.has => HeldOrRevoked(x.toggle, x.loaded)
  /\ x.pc \in InTransaction => /\ HeldOrRevoked(<<x.user, "admin">>, x.since)
                               /\ AdminAt(x.user, x.since)
  /\ FoundHeld(x) => HeldOrRevoked(x.toggle, x.since)

(* A row of user_roles that a transaction wrote is not changed by others,  *)
(* and the entry it inserts is new.                                        *)
TabWrote(x) ==
  /\ x.wrote => (Holds(x.toggle[1], x.toggle[2]) <=> x.has)
  /\ x.id # 0 => \A m \in DOMAIN trail : trail[m].id # x.id
  /\ (x.id # 0 /\ x.wrote /\ ~x.has) =>
       \A m \in Entries("revoked", x.toggle, 0) : trail[m].id < x.id

(* A refusal is for a revoke the page had not seen.                        *)
TabRefused(x) ==
  /\ x.reply \in {"not_found", "error"} => Entries("revoked", x.toggle, x.loaded) # {}
  /\ x.reply = "forbidden" => Entries("revoked", <<x.user, "admin">>, x.loaded) # {}

TabOK(x) == TabShape(x) /\ TabSaw(x) /\ TabWrote(x) /\ TabRefused(x)

(* No two requests write the same row of user_roles, or draw the same id.  *)
Apart(x, y) ==
  /\ x.wrote /\ y.wrote => x.toggle # y.toggle
  /\ x.id # 0 => x.id # y.id

EntryOK(e) ==
  /\ e.since <= Len(trail)
  /\ AdminAt(e.actor, e.since) /\ HeldOrRevoked(<<e.actor, "admin">>, e.since)
  /\ e.op = "granted" => HeldOrRevoked(e.toggle, e.since)

(* The rows not shown yet come after the page that is shown.               *)
ReaderOK ==
  /\ reader.open => /\ reader.filter \in Filters
                    /\ \E k \in 0..reader.offset : reader.offset = k * PageSize
  /\ ~reader.open => reader.offset = 0
  /\ \A id \in reader.unread :
       /\ id \in Matching(reader.filter)
       /\ Rank(Matching(reader.filter), id) > reader.offset + PageSize
  /\ reader.hasNext => reader.open
  /\ PagingSkipsNothing

(* A staff role is the seed's, or granted with a larger id than every      *)
(* revoke.                                                                 *)
Explained(user, role) ==
  LET toggle == <<user, role>>
  IN Holds(user, role) =>
       \/ Entries("revoked", toggle, 0) = {} /\ user \in Admins /\ role = "admin"
       \/ \E m \in Entries("granted", toggle, 0) :
            /\ trail[m].actor = grants[user][role]
            /\ \A k \in Entries("revoked", toggle, 0) : trail[k].id < trail[m].id

Types ==
  /\ accounts \in [User -> {"absent", "created", "open", "roleless"}]
  /\ grants \in [User -> [ROLES -> User \cup {NoOne}]]
  /\ lastId \in Nat /\ trail \in Seq(Entry)
  /\ tab \in [Tab -> TabState]
  /\ reader \in [open : BOOLEAN, filter : User \cup {NoOne}, offset : Nat, hasNext : BOOLEAN,
                 unread : SUBSET Nat]

RoleInv ==
  /\ Types
  /\ \A m, n \in DOMAIN trail : trail[m].id = trail[n].id => m = n
  /\ \A m \in DOMAIN trail : EntryOK(trail[m])
  /\ \A t \in Tab : TabOK(tab[t])
  /\ \A t, u \in Tab : t # u => Apart(tab[t], tab[u])
  /\ \A user \in User, role \in ROLES \ {"applicant"} : Explained(user, role)
  /\ \A user \in User : Holds(user, "admin") => AdminAt(user, Len(trail))
  /\ \A user \in Admins : HeldOrRevoked(<<user, "admin">>, 0)
  /\ \A user \in User : accounts[user] = "open" => HeldOrRevoked(<<user, "applicant">>, 0)
  /\ ReaderOK

-----------------------------------------------------------------------------
(* History only grows.                                                     *)

(* What every step does to the trail and to the roles: entries stay, and a *)
(* role is lost only by a revoke that the step commits.                    *)
Onward ==
  /\ Len(trail') \in Nat /\ Len(trail) <= Len(trail')
  /\ \A m \in 1..Len(trail) : trail'[m] = trail[m]
  /\ \A user \in User, role \in ROLES :
       Holds(user, role) =>
         \/ grants'[user][role] # NoOne
         \/ \E m \in (Len(trail) + 1)..Len(trail') :
              trail'[m].op = "revoked" /\ trail'[m].toggle = <<user, role>>

LEMMA TypeFacts ==
  ASSUME Types
  PROVE  /\ Len(trail) \in Nat /\ DOMAIN trail = 1..Len(trail) /\ lastId \in Nat
         /\ \A m \in 1..Len(trail) : trail[m] \in Entry
         /\ \A t \in Tab : tab[t] \in TabState
         /\ Toggles \subseteq User \X ROLES
         /\ \A user \in User : <<user, "admin">> \in User \X ROLES
BY LenProperties, ElementOfSeq, RoleAssumption DEF Types, ROLES

LEMMA OnwardEntries ==
  ASSUME Types, Onward, NEW op, NEW toggle, NEW n \in Nat
  PROVE  \A m \in Entries(op, toggle, n) : m \in Entries(op, toggle, n)'
BY TypeFacts DEF Onward, Entries

LEMMA OnwardHeld ==
  ASSUME Types, Onward, NEW toggle \in User \X ROLES, NEW n \in Nat, n <= Len(trail),
         HeldOrRevoked(toggle, n)
  PROVE  HeldOrRevoked(toggle, n)'
<1>1. toggle[1] \in User /\ toggle[2] \in ROLES /\ toggle = <<toggle[1], toggle[2]>>
  OBVIOUS
<1>2. CASE Entries("revoked", toggle, n) # {}
  BY <1>2, OnwardEntries DEF HeldOrRevoked
<1>3. CASE Holds(toggle[1], toggle[2]) /\ grants'[toggle[1]][toggle[2]] = NoOne
  <2>1. PICK m \in (Len(trail) + 1)..Len(trail') :
               trail'[m].op = "revoked" /\ trail'[m].toggle = toggle
    BY <1>1, <1>3 DEF Onward
  <2>2. m \in (n + 1)..Len(trail')
    BY <2>1, TypeFacts DEF Onward
  <2>3. m \in Entries("revoked", toggle, n)'
    BY <2>1, <2>2 DEF Entries
  <2>4. QED
    BY <2>3 DEF HeldOrRevoked
<1>4. CASE grants'[toggle[1]][toggle[2]] # NoOne
  BY <1>4 DEF HeldOrRevoked, Holds
<1>5. QED
  BY <1>2, <1>3, <1>4 DEF HeldOrRevoked

LEMMA OnwardAdminAt ==
  ASSUME Types, Onward, NEW user, NEW n \in Nat, n <= Len(trail), AdminAt(user, n)
  PROVE  AdminAt(user, n)'
<1>1. ASSUME NEW op, NEW toggle, NEW m \in Nat, NEW k \in Nat, k <= n
      PROVE  k \in Entries(op, toggle, m)' <=> k \in Entries(op, toggle, m)
  BY <1>1, TypeFacts DEF Onward, Entries
<1>2. \A op, toggle : \A m \in Nat :
        /\ \A k \in Entries(op, toggle, m) : k \in Nat /\ k \in 1..Len(trail)
        /\ \A k \in Entries(op, toggle, m)' : k \in Nat
  BY TypeFacts DEF Onward, Entries
<1>3. \A g \in 1..Len(trail) : trail'[g] = trail[g]
  BY DEF Onward
<1>. DEFINE admin == <<user, "admin">>
<1>4. ASSUME NEW m \in Nat, NEW k \in Entries("revoked", admin, m)', k <= n
      PROVE  k \in Entries("revoked", admin, m)
  BY <1>1, <1>2, <1>4
<1>5. ASSUME NEW g \in Entries("granted", admin, 0), g <= n
      PROVE  g \in Entries("granted", admin, 0)' /\ g \in Nat /\ trail'[g] = trail[g]
  BY <1>1, <1>2, <1>3, <1>5
<1>. HIDE DEF admin
<1>6. QED
  BY <1>4, <1>5 DEF AdminAt, admin

LEMMA OnwardEntryOK ==
  ASSUME Types, Onward, NEW e \in Entry, EntryOK(e)
  PROVE  EntryOK(e)'
<1>1. /\ e.since \in Nat /\ e.actor \in User /\ e.toggle \in User \X ROLES
      /\ <<e.actor, "admin">> \in User \X ROLES
  BY TypeFacts DEF Entry
<1>2. e.since <= Len(trail')
  BY <1>1, TypeFacts DEF EntryOK, Onward
<1>3. QED
  BY <1>1, <1>2, OnwardAdminAt, OnwardHeld DEF EntryOK

(* A page and its request keep what they rely on, except the row written.  *)
LEMMA OnwardTab ==
  ASSUME Types, Onward, NEW x \in TabState, TabOK(x), lastId' \in Nat, lastId <= lastId'
  PROVE  (TabShape(x) /\ TabSaw(x) /\ TabRefused(x))'
<1>1. /\ x.loaded \in Nat /\ x.since \in Nat /\ x.loaded <= Len(trail) /\ x.since <= Len(trail)
      /\ x.id \in Nat /\ x.id <= lastId
  BY DEF TabState, TabOK, TabShape
<1>2. TabShape(x)'
  BY <1>1, TypeFacts DEF TabOK, TabShape, Onward
<1>3. x.pc # "closed" => x.toggle \in User \X ROLES /\ <<x.user, "admin">> \in User \X ROLES
  BY TypeFacts DEF TabOK, TabShape
<1>4. x.pc \in InTransaction \/ FoundHeld(x) => x.pc # "closed"
  BY DEF InTransaction, FoundHeld
<1>5. TabSaw(x)'
  BY <1>1, <1>3, <1>4, OnwardHeld, OnwardAdminAt DEF TabOK, TabSaw
<1>6. TabRefused(x)'
  BY <1>1, OnwardEntries DEF TabOK, TabRefused
<1>7. QED
  BY <1>2, <1>5, <1>6

-----------------------------------------------------------------------------
(* The steps of a page that commit nothing.                                *)

LEMMA TabFacts ==
  ASSUME RoleInv, NEW t \in Tab
  PROVE  /\ tab[t] \in TabState /\ TabOK(tab[t])
         /\ Len(trail) \in Nat /\ lastId \in Nat
         /\ \A u \in Tab \ {t} : Apart(tab[u], tab[t]) /\ Apart(tab[t], tab[u])
BY TypeFacts DEF RoleInv

(* Nothing is committed: the trail, the roles and the audit page stay.     *)
Quiet == UNCHANGED <<accounts, grants, trail, reader>> /\ lastId' \in Nat /\ lastId <= lastId'

LEMMA QuietFacts ==
  ASSUME RoleInv, Quiet
  PROVE  /\ Onward
         /\ \A x \in TabState : TabOK(x) => TabOK(x)'
         /\ \A x : /\ TabSaw(x) => TabSaw(x)'
                   /\ TabWrote(x) => TabWrote(x)'
                   /\ TabRefused(x) => TabRefused(x)'
         /\ \A op, toggle, n : Entries(op, toggle, n)' = Entries(op, toggle, n)
         /\ \A filter : Matching(filter)' = Matching(filter)
<1>1. Types /\ Len(trail) \in Nat
  BY TypeFacts DEF RoleInv
<1>2. Onward
  BY <1>1 DEF Quiet, Onward, Holds
<1>3. \A x : TabWrote(x) => TabWrote(x)'
  BY DEF Quiet, TabWrote, Holds, Entries
<1>4. \A x \in TabState : TabOK(x) => (TabShape(x) /\ TabSaw(x) /\ TabRefused(x))'
  BY <1>1, <1>2, OnwardTab DEF Quiet
<1>5. \A x \in TabState : TabOK(x) => TabOK(x)'
  BY <1>3, <1>4 DEF TabOK
<1>6. \A op, toggle, n : Entries(op, toggle, n)' = Entries(op, toggle, n)
  BY DEF Quiet, Entries
<1>7. \A filter : Matching(filter)' = Matching(filter)
  BY DEF Quiet, Matching
<1>8. \A x : TabSaw(x) => TabSaw(x)'
  BY <1>6 DEF Quiet, TabSaw, HeldOrRevoked, AdminAt, Holds
<1>9. \A x : TabRefused(x) => TabRefused(x)'
  BY <1>6 DEF Quiet, TabRefused
<1>10. QED
  BY <1>2, <1>3, <1>5, <1>6, <1>7, <1>8, <1>9

LEMMA TabStep ==
  ASSUME RoleInv, Quiet, NEW t \in Tab, NEW x \in TabState, SetTab(t, x), TabOK(x)',
         \A u \in Tab \ {t} : Apart(tab[u], x) /\ Apart(x, tab[u])
  PROVE  RoleInv'
<1>1. Types /\ tab \in [Tab -> TabState] /\ Len(trail) \in Nat
  BY TypeFacts DEF RoleInv, Types
<1>2. /\ tab' \in [Tab -> TabState] /\ tab'[t] = x
      /\ \A u \in Tab \ {t} : tab'[u] = tab[u]
  BY <1>1 DEF SetTab
<1>3. Types'
  <2>1. \A e \in Entry : e \in Entry'
    BY TypeFacts, <1>1 DEF Entry, Quiet
  <2>2. \A m \in 1..Len(trail) : trail[m] \in Entry'
    BY <1>1, <2>1, TypeFacts
  <2>3. trail' \in Seq(Entry')
    BY <1>1, <2>2 DEF Quiet, Types
  <2>4. QED
    BY <1>1, <1>2, <2>3 DEF Types, Quiet, TabState
<1>4. \A u \in Tab : TabOK(tab[u])'
  BY <1>1, <1>2, QuietFacts DEF RoleInv
<1>5. (\A u, v \in Tab : u # v => Apart(tab[u], tab[v]))'
  BY <1>2 DEF RoleInv
<1>6. (\A m \in DOMAIN trail : EntryOK(trail[m]))'
  BY QuietFacts DEF RoleInv, Quiet, EntryOK, AdminAt, HeldOrRevoked, Holds
<1>7. (\A user \in User, role \in ROLES \ {"applicant"} : Explained(user, role))'
  <2>1. ASSUME NEW user \in User, NEW role \in ROLES \ {"applicant"}
        PROVE  Explained(user, role)'
    <3>1. Explained(user, role)
      BY DEF RoleInv
    <3>. DEFINE toggle == <<user, role>>
    <3>2. /\ Entries("revoked", toggle, 0)' = Entries("revoked", toggle, 0)
          /\ Entries("granted", toggle, 0)' = Entries("granted", toggle, 0)
      BY QuietFacts
    <3>3. trail' = trail /\ grants' = grants
      BY DEF Quiet
    <3>. HIDE DEF toggle
    <3>4. QED
      BY <3>1, <3>2, <3>3 DEF Explained, Holds, toggle
  <2>2. QED
    BY <2>1
<1>8. /\ (\A user \in User : Holds(user, "admin") => AdminAt(user, Len(trail)))'
      /\ (\A user \in Admins : HeldOrRevoked(<<user, "admin">>, 0))'
      /\ (\A user \in User : accounts[user] = "open" => HeldOrRevoked(<<user, "applicant">>, 0))'
  BY QuietFacts DEF RoleInv, Quiet, AdminAt, HeldOrRevoked, Holds
<1>9. ReaderOK'
  BY QuietFacts DEF RoleInv, Quiet, ReaderOK, PagingSkipsNothing
<1>10. (\A m, n \in DOMAIN trail : trail[m].id = trail[n].id => m = n)'
  BY DEF RoleInv, Quiet
<1>11. QED
  BY <1>3, <1>4, <1>5, <1>6, <1>7, <1>8, <1>9, <1>10 DEF RoleInv

(* The same, when no id is drawn either and the page wrote no new row.     *)
LEMMA PlainTabStep ==
  ASSUME RoleInv, UNCHANGED <<accounts, grants, trail, lastId, reader>>, NEW t \in Tab,
         NEW x \in TabState, SetTab(t, x), TabOK(x),
         x.wrote => tab[t].wrote /\ x.toggle = tab[t].toggle, x.id \in {0, tab[t].id}
  PROVE  RoleInv'
<1>1. Quiet
  BY TypeFacts DEF Quiet, RoleInv
<1>2. TabOK(x)'
  BY <1>1, QuietFacts
<1>3. \A u \in Tab \ {t} : Apart(tab[u], x) /\ Apart(x, tab[u])
  BY TabFacts DEF Apart
<1>4. QED
  BY <1>1, <1>2, <1>3, TabStep

Answered(x, reply) ==
  [x EXCEPT !.pc = "answered", !.wrote = FALSE, !.by = NoOne, !.id = 0, !.since = 0,
            !.reply = reply]

LEMMA AnsweredFacts ==
  ASSUME Types, NEW x \in TabState, x.pc # "closed", TabShape(x), TabSaw(x),
         NEW reply \in Replies \ {"none"}
  PROVE  LET y == Answered(x, reply)
         IN /\ y \in TabState /\ ~y.wrote /\ y.id = 0
            /\ y.user = x.user /\ y.toggle = x.toggle /\ y.loaded = x.loaded /\ y.reply = reply
            /\ TabShape(y) /\ TabSaw(y) /\ TabWrote(y)
<1>. DEFINE y == Answered(x, reply)
<1>1. /\ y \in TabState /\ y.pc = "answered" /\ ~y.wrote /\ y.id = 0 /\ y.since = 0
      /\ y.user = x.user /\ y.toggle = x.toggle /\ y.has = x.has /\ y.loaded = x.loaded
      /\ y.reply = reply
  BY DEF Answered, TabState
<1>. HIDE DEF y
<1>2. TabShape(y) /\ TabSaw(y) /\ TabWrote(y)
  BY <1>1, TypeFacts DEF TabShape, TabSaw, TabWrote, FoundHeld, InTransaction
<1>3. QED
  BY <1>1, <1>2 DEF y

(* A request that is answered, its change, if any, undone.                 *)
LEMMA AnswerInvariant ==
  ASSUME RoleInv, NEW t \in Tab, tab[t].pc # "closed", NEW reply \in Replies \ {"none"},
         Answer(t, reply), UNCHANGED <<accounts, grants, trail, lastId, reader>>,
         reply \in {"not_found", "error"} => Entries("revoked", tab[t].toggle, tab[t].loaded) # {},
         reply = "forbidden" => Entries("revoked", <<tab[t].user, "admin">>, tab[t].loaded) # {}
  PROVE  RoleInv'
<1>. DEFINE y == Answered(tab[t], reply)
<1>1. Types /\ tab[t] \in TabState /\ TabShape(tab[t]) /\ TabSaw(tab[t])
  BY TabFacts DEF RoleInv, TabOK
<1>2. /\ y \in TabState /\ ~y.wrote /\ y.id = 0
      /\ y.user = tab[t].user /\ y.toggle = tab[t].toggle /\ y.loaded = tab[t].loaded
      /\ y.reply = reply
      /\ TabShape(y) /\ TabSaw(y) /\ TabWrote(y)
  BY <1>1, AnsweredFacts
<1>3. SetTab(t, y)
  BY DEF Answer, Answered
<1>. HIDE DEF y
<1>4. TabRefused(y)
  BY <1>2 DEF TabRefused
<1>5. QED
  BY <1>2, <1>3, <1>4, PlainTabStep DEF TabOK

(* The page's own steps.                                                   *)

LEMMA PageForFacts ==
  ASSUME Types, NEW user \in User, NEW toggle \in Toggles
  PROVE  LET x == PageFor(user, toggle)
         IN x \in TabState /\ TabOK(x) /\ ~x.wrote /\ x.id = 0
<1>. DEFINE x == PageFor(user, toggle)
            page == [Closed EXCEPT !.pc = "page", !.user = user, !.toggle = toggle,
                       !.has = Holds(toggle[1], toggle[2]), !.loaded = Len(trail)]
<1>1. Len(trail) \in Nat
  BY TypeFacts
<1>2. Closed \in TabState /\ TabOK(Closed) /\ ~Closed.wrote /\ Closed.id = 0
  BY <1>1, TypeFacts DEF Closed, TabState, Replies, TabOK, TabShape, TabSaw, TabWrote, TabRefused,
       FoundHeld, InTransaction
<1>3. CASE Holds(user, "admin")
  <2>1. /\ page \in TabState /\ page.pc = "page" /\ page.user = user /\ page.toggle = toggle
        /\ page.has = Holds(toggle[1], toggle[2]) /\ page.loaded = Len(trail) /\ page.since = 0
        /\ page.wrote = FALSE /\ page.id = 0 /\ page.reply = "none"
    BY <1>1 DEF Closed, TabState, Replies, Holds
  <2>2. x = page
    BY <1>3 DEF PageFor
  <2>. HIDE DEF page, x
  <2>3. TabShape(page) /\ TabWrote(page) /\ TabRefused(page)
    BY <1>1, <2>1, TypeFacts DEF TabShape, TabWrote, TabRefused, InTransaction
  <2>4. TabSaw(page)
    BY <1>3, <2>1 DEF TabSaw, HeldOrRevoked, FoundHeld, InTransaction
  <2>5. QED
    BY <2>1, <2>2, <2>3, <2>4 DEF TabOK, x
<1>4. CASE ~Holds(user, "admin")
  BY <1>2, <1>4 DEF PageFor
<1>5. QED
  BY <1>3, <1>4

LEMMA LoadUsersInvariant ==
  ASSUME RoleInv, NEW t \in Tab, NEW user \in User, NEW toggle \in Toggles,
         LoadUsers(t, user, toggle)
  PROVE  RoleInv'
<1>. DEFINE x == PageFor(user, toggle)
<1>1. x \in TabState /\ TabOK(x) /\ ~x.wrote /\ x.id = 0
  BY PageForFacts DEF RoleInv
<1>2. SetTab(t, x) /\ UNCHANGED <<accounts, grants, trail, lastId, reader>>
  BY DEF LoadUsers
<1>. HIDE DEF x
<1>3. QED
  BY <1>1, <1>2, PlainTabStep

LEMMA ToggleInvariant ==
  ASSUME RoleInv, NEW t \in Tab, Toggle(t)
  PROVE  RoleInv'
<1>. DEFINE x == [tab[t] EXCEPT !.pc = "sent"]
<1>1. tab[t] \in TabState /\ TabOK(tab[t]) /\ tab[t].pc = "page"
  BY TabFacts DEF Toggle
<1>2. /\ x \in TabState /\ x.pc = "sent" /\ x.user = tab[t].user /\ x.toggle = tab[t].toggle
      /\ x.has = tab[t].has /\ x.loaded = tab[t].loaded /\ x.since = tab[t].since
      /\ x.wrote = tab[t].wrote /\ x.by = tab[t].by /\ x.id = tab[t].id /\ x.reply = tab[t].reply
  BY <1>1 DEF TabState
<1>3. SetTab(t, x) /\ UNCHANGED <<accounts, grants, trail, lastId, reader>>
  BY DEF Toggle
<1>. HIDE DEF x
<1>4. TabOK(x)
  BY <1>1, <1>2 DEF TabOK, TabShape, TabSaw, TabWrote, TabRefused, FoundHeld, InTransaction
<1>5. QED
  BY <1>2, <1>3, <1>4, PlainTabStep

LEMMA LoseInvariant ==
  ASSUME RoleInv, NEW t \in Tab, Lose(t)
  PROVE  RoleInv'
BY AnswerInvariant DEF Lose, Replies

LEMMA ReceiveInvariant ==
  ASSUME RoleInv, NEW t \in Tab, Receive(t)
  PROVE  RoleInv'
<1>1. /\ tab[t] \in TabState /\ TabOK(tab[t]) /\ tab[t].pc = "answered"
      /\ tab[t].user \in User /\ tab[t].toggle \in Toggles
  BY TabFacts DEF Receive, TabOK, TabShape
<1>2. CASE tab[t].reply = "done"
  <2>. DEFINE x == PageFor(tab[t].user, tab[t].toggle)
  <2>1. x \in TabState /\ TabOK(x) /\ ~x.wrote /\ x.id = 0
    BY <1>1, PageForFacts DEF RoleInv
  <2>2. SetTab(t, x) /\ UNCHANGED <<accounts, grants, trail, lastId, reader>>
    BY <1>2 DEF Receive
  <2>. HIDE DEF x
  <2>3. QED
    BY <2>1, <2>2, PlainTabStep
<1>3. CASE tab[t].reply # "done"
  <2>. DEFINE x == [tab[t] EXCEPT !.pc = "page", !.reply = "none"]
  <2>1. /\ x \in TabState /\ x.pc = "page" /\ x.user = tab[t].user /\ x.toggle = tab[t].toggle
        /\ x.has = tab[t].has /\ x.loaded = tab[t].loaded /\ x.since = tab[t].since
        /\ x.wrote = tab[t].wrote /\ x.by = tab[t].by /\ x.id = tab[t].id /\ x.reply = "none"
    BY <1>1 DEF TabState, Replies
  <2>2. SetTab(t, x) /\ UNCHANGED <<accounts, grants, trail, lastId, reader>>
    BY <1>3 DEF Receive
  <2>. HIDE DEF x
  <2>3. TabOK(x)
    BY <1>1, <2>1 DEF TabOK, TabShape, TabSaw, TabWrote, TabRefused, FoundHeld, InTransaction
  <2>4. QED
    BY <2>1, <2>2, <2>3, PlainTabStep
<1>4. QED
  BY <1>2, <1>3

-----------------------------------------------------------------------------
(* grantRole and revokeRole.                                               *)

LEMMA AuthoriseInvariant ==
  ASSUME RoleInv, NEW t \in Tab, Authorise(t)
  PROVE  RoleInv'
<1>1. /\ tab[t] \in TabState /\ TabOK(tab[t]) /\ tab[t].pc = "sent"
      /\ tab[t].user \in User /\ tab[t].toggle \in Toggles
  BY TabFacts DEF Authorise, TabOK, TabShape
<1>2. HeldOrRevoked(<<tab[t].user, "admin">>, tab[t].loaded)
  BY <1>1 DEF TabOK, TabSaw
<1>3. CASE Holds(tab[t].user, "admin")
  <2>. DEFINE x == [tab[t] EXCEPT !.pc = "writing", !.since = Len(trail)]
  <2>1. Len(trail) \in Nat
    BY TabFacts
  <2>2. /\ x \in TabState /\ x.pc = "writing" /\ x.user = tab[t].user /\ x.toggle = tab[t].toggle
        /\ x.has = tab[t].has /\ x.loaded = tab[t].loaded /\ x.since = Len(trail)
        /\ x.wrote = tab[t].wrote /\ x.by = tab[t].by /\ x.id = tab[t].id
        /\ x.reply = tab[t].reply
    BY <1>1, <2>1 DEF TabState, InTransaction
  <2>3. SetTab(t, x) /\ UNCHANGED <<accounts, grants, trail, lastId, reader>>
    BY <1>3 DEF Authorise
  <2>4. AdminAt(tab[t].user, Len(trail))
    BY <1>1, <1>3 DEF RoleInv
  <2>. HIDE DEF x
  <2>5. TabShape(x) /\ TabWrote(x) /\ TabRefused(x)
    BY <1>1, <2>1, <2>2 DEF TabOK, TabShape, TabWrote, TabRefused, InTransaction
  <2>6. TabSaw(x)
    BY <1>1, <1>3, <2>2, <2>4 DEF TabOK, TabSaw, TabShape, FoundHeld, HeldOrRevoked, InTransaction
  <2>7. QED
    BY <2>2, <2>3, <2>5, <2>6, PlainTabStep DEF TabOK
<1>4. CASE ~Holds(tab[t].user, "admin")
  <2>1. Entries("revoked", <<tab[t].user, "admin">>, tab[t].loaded) # {}
    BY <1>2, <1>4 DEF HeldOrRevoked
  <2>2. QED
    BY <1>1, <1>4, <2>1, AnswerInvariant DEF Authorise, Replies
<1>5. QED
  BY <1>3, <1>4

LEMMA InsertGrantInvariant ==
  ASSUME RoleInv, NEW t \in Tab, InsertGrant(t)
  PROVE  RoleInv'
<1>1. /\ tab[t] \in TabState /\ TabOK(tab[t]) /\ tab[t].pc = "writing" /\ tab[t].has = FALSE
      /\ ~tab[t].wrote /\ tab[t].id = 0
  BY TabFacts DEF InsertGrant, Revoking, TabOK, TabShape, TabState
<1>2. CASE Holds(tab[t].toggle[1], tab[t].toggle[2])
  <2>. DEFINE x == [tab[t] EXCEPT !.pc = "readback"]
  <2>1. /\ x \in TabState /\ x.pc = "readback" /\ x.user = tab[t].user /\ x.toggle = tab[t].toggle
        /\ x.has = FALSE /\ x.loaded = tab[t].loaded /\ x.since = tab[t].since
        /\ x.wrote = tab[t].wrote /\ x.by = tab[t].by /\ x.id = tab[t].id
        /\ x.reply = tab[t].reply
    BY <1>1 DEF TabState, InTransaction
  <2>2. SetTab(t, x) /\ UNCHANGED <<accounts, grants, trail, lastId, reader>>
    BY <1>2 DEF InsertGrant
  <2>. HIDE DEF x
  <2>3. TabShape(x) /\ TabWrote(x) /\ TabRefused(x)
    BY <1>1, <2>1 DEF TabOK, TabShape, TabWrote, TabRefused, InTransaction
  <2>4. TabSaw(x)
    BY <1>1, <1>2, <2>1 DEF TabOK, TabSaw, FoundHeld, HeldOrRevoked, InTransaction
  <2>5. QED
    BY <2>1, <2>2, <2>3, <2>4, PlainTabStep DEF TabOK
<1>3. CASE ~Holds(tab[t].toggle[1], tab[t].toggle[2])
  <2>. DEFINE x == [tab[t] EXCEPT !.pc = "appending", !.wrote = TRUE, !.by = tab[t].user]
  <2>1. /\ x \in TabState /\ x.pc = "appending" /\ x.user = tab[t].user
        /\ x.toggle = tab[t].toggle /\ x.has = FALSE /\ x.loaded = tab[t].loaded
        /\ x.since = tab[t].since /\ x.wrote /\ x.by = tab[t].user /\ x.id = 0
        /\ x.reply = tab[t].reply
    BY <1>1 DEF TabState, InTransaction
  <2>2. SetTab(t, x) /\ UNCHANGED <<accounts, grants, trail, lastId, reader>>
    BY <1>3 DEF InsertGrant
  <2>. HIDE DEF x
  <2>3. TabShape(x) /\ TabWrote(x) /\ TabRefused(x)
    BY <1>1, <1>3, <2>1 DEF TabOK, TabShape, TabWrote, TabRefused, InTransaction
  <2>4. TabSaw(x)
    BY <1>1, <2>1 DEF TabOK, TabSaw, FoundHeld, InTransaction
  <2>5. \A u \in Tab \ {t} : Apart(tab[u], x) /\ Apart(x, tab[u])
    BY TabFacts, <1>1, <2>1 DEF InsertGrant, KeyBusy, Apart
  <2>6. Quiet
    BY <2>2, TypeFacts DEF Quiet, RoleInv
  <2>7. QED
    BY <2>1, <2>2, <2>3, <2>4, <2>5, <2>6, QuietFacts, TabStep DEF TabOK
<1>4. QED
  BY <1>2, <1>3

LEMMA ReadBackInvariant ==
  ASSUME RoleInv, NEW t \in Tab, ReadBack(t)
  PROVE  RoleInv'
<1>. DEFINE granter == grants[tab[t].toggle[1]][tab[t].toggle[2]]
<1>1. /\ tab[t] \in TabState /\ TabOK(tab[t]) /\ tab[t].pc = "readback" /\ tab[t].has = FALSE
      /\ ~tab[t].wrote /\ tab[t].id = 0 /\ tab[t].toggle \in User \X ROLES
      /\ tab[t].loaded \in Nat /\ tab[t].since \in Nat /\ tab[t].loaded <= tab[t].since
  BY TabFacts, TypeFacts DEF ReadBack, TabOK, TabShape, TabState, InTransaction, RoleInv
<1>2. HeldOrRevoked(tab[t].toggle, tab[t].since)
  BY <1>1 DEF TabOK, TabSaw, FoundHeld
<1>3. CASE granter # NoOne
  <2>1. granter \in User
    BY <1>1, <1>3 DEF RoleInv, Types
  <2>. DEFINE x == [tab[t] EXCEPT !.pc = "appending", !.by = granter]
  <2>2. /\ x \in TabState /\ x.pc = "appending" /\ x.user = tab[t].user
        /\ x.toggle = tab[t].toggle /\ x.has = FALSE /\ x.loaded = tab[t].loaded
        /\ x.since = tab[t].since /\ ~x.wrote /\ x.by = granter /\ x.id = 0
        /\ x.reply = tab[t].reply
    BY <1>1, <2>1 DEF TabState, InTransaction
  <2>3. SetTab(t, x) /\ UNCHANGED <<accounts, grants, trail, lastId, reader>>
    BY <1>3 DEF ReadBack
  <2>. HIDE DEF x
  <2>4. TabShape(x) /\ TabWrote(x) /\ TabRefused(x)
    BY <1>1, <2>1, <2>2 DEF TabOK, TabShape, TabWrote, TabRefused, InTransaction
  <2>5. TabSaw(x)
    BY <1>1, <1>2, <2>2 DEF TabOK, TabSaw, FoundHeld, InTransaction
  <2>6. QED
    BY <2>2, <2>3, <2>4, <2>5, PlainTabStep DEF TabOK
<1>4. CASE granter = NoOne
  <2>1. Entries("revoked", tab[t].toggle, tab[t].since) # {}
    BY <1>2, <1>4 DEF HeldOrRevoked, Holds
  <2>2. Entries("revoked", tab[t].toggle, tab[t].loaded) # {}
    BY <1>1, <2>1, TabFacts DEF Entries
  <2>3. QED
    BY <1>1, <1>4, <2>2, AnswerInvariant DEF ReadBack, Replies
<1>5. QED
  BY <1>3, <1>4

LEMMA DeleteGrantInvariant ==
  ASSUME RoleInv, NEW t \in Tab, DeleteGrant(t)
  PROVE  RoleInv'
<1>1. /\ tab[t] \in TabState /\ TabOK(tab[t]) /\ tab[t].pc = "writing" /\ tab[t].has = TRUE
      /\ ~tab[t].wrote /\ tab[t].id = 0
  BY TabFacts DEF DeleteGrant, Revoking, TabOK, TabShape, TabState
<1>2. CASE /\ ~KeyBusy(tab[t].toggle, {u \in Tab \ {t} : Revoking(u)})
           /\ Holds(tab[t].toggle[1], tab[t].toggle[2])
           /\ SetTab(t, [tab[t] EXCEPT !.pc = "appending", !.wrote = TRUE])
  <2>. DEFINE x == [tab[t] EXCEPT !.pc = "appending", !.wrote = TRUE]
  <2>1. /\ x \in TabState /\ x.pc = "appending" /\ x.user = tab[t].user
        /\ x.toggle = tab[t].toggle /\ x.has = TRUE /\ x.loaded = tab[t].loaded
        /\ x.since = tab[t].since /\ x.wrote /\ x.id = 0 /\ x.reply = tab[t].reply
    BY <1>1 DEF TabState, InTransaction
  <2>2. SetTab(t, x) /\ UNCHANGED <<accounts, grants, trail, lastId, reader>>
    BY <1>2 DEF DeleteGrant
  <2>. HIDE DEF x
  <2>3. TabShape(x) /\ TabWrote(x) /\ TabRefused(x)
    BY <1>1, <1>2, <2>1 DEF TabOK, TabShape, TabWrote, TabRefused, InTransaction
  <2>4. TabSaw(x)
    BY <1>1, <2>1 DEF TabOK, TabSaw, FoundHeld, InTransaction
  <2>5. ASSUME NEW u \in Tab \ {t}
        PROVE  Apart(tab[u], x) /\ Apart(x, tab[u])
    <3>1. TabWrote(tab[u]) /\ Apart(tab[u], tab[t]) /\ Apart(tab[t], tab[u])
      BY TabFacts DEF TabOK
    <3>2. tab[u].wrote => tab[u].toggle # x.toggle
      BY <1>1, <1>2, <2>1, <3>1 DEF DeleteGrant, KeyBusy, Revoking, TabWrote
    <3>3. QED
      BY <1>1, <2>1, <3>1, <3>2 DEF Apart
  <2>6. Quiet
    BY <2>2, TypeFacts DEF Quiet, RoleInv
  <2>7. QED
    BY <2>1, <2>2, <2>3, <2>4, <2>5, <2>6, QuietFacts, TabStep DEF TabOK
<1>3. CASE ~Holds(tab[t].toggle[1], tab[t].toggle[2]) /\ Answer(t, "not_found")
  <2>1. Entries("revoked", tab[t].toggle, tab[t].loaded) # {}
    BY <1>1, <1>3 DEF TabOK, TabSaw, HeldOrRevoked
  <2>2. QED
    BY <1>1, <1>3, <2>1, AnswerInvariant DEF DeleteGrant, Replies
<1>4. CASE Entries("revoked", tab[t].toggle, tab[t].since) # {} /\ Answer(t, "not_found")
  <2>1. /\ tab[t].loaded \in Nat /\ tab[t].since \in Nat /\ tab[t].loaded <= tab[t].since
        /\ Len(trail) \in Nat
    BY <1>1, TabFacts DEF TabOK, TabShape, TabState, InTransaction
  <2>2. Entries("revoked", tab[t].toggle, tab[t].loaded) # {}
    BY <1>4, <2>1 DEF Entries
  <2>3. QED
    BY <1>1, <1>4, <2>2, AnswerInvariant DEF DeleteGrant, Replies
<1>5. QED
  BY <1>2, <1>3, <1>4 DEF DeleteGrant

LEMMA AppendEntryInvariant ==
  ASSUME RoleInv, NEW t \in Tab, AppendEntry(t)
  PROVE  RoleInv'
<1>1. /\ tab[t] \in TabState /\ TabOK(tab[t]) /\ tab[t].pc = "appending" /\ tab[t].id = 0
      /\ lastId \in Nat
  BY TabFacts DEF AppendEntry, TabOK, TabShape
<1>2. \A m \in DOMAIN trail : trail[m].id \in Nat /\ trail[m].id <= lastId
  <2>1. \A m \in DOMAIN trail : trail[m].id \in 1..lastId
    BY TypeFacts DEF RoleInv, Entry
  <2>2. QED
    BY <1>1, <2>1
<1>3. lastId + 1 \in Nat
  BY <1>1
<1>4. PICK x : x = [tab[t] EXCEPT !.pc = "committing", !.id = lastId + 1]
  OBVIOUS
<1>5. /\ x \in TabState /\ x.pc = "committing" /\ x.user = tab[t].user
      /\ x.toggle = tab[t].toggle /\ x.has = tab[t].has /\ x.loaded = tab[t].loaded
      /\ x.since = tab[t].since /\ x.wrote = tab[t].wrote /\ x.by = tab[t].by /\ x.id = lastId + 1
      /\ x.reply = tab[t].reply
  BY <1>1, <1>3, <1>4 DEF TabState, InTransaction
<1>6. SetTab(t, x) /\ Quiet /\ lastId' = lastId + 1
  BY <1>1, <1>4 DEF AppendEntry, Quiet
<1>7. TabShape(x)'
  BY <1>1, <1>5, <1>6 DEF TabOK, TabShape, InTransaction, Quiet
<1>8. TabSaw(x) /\ TabRefused(x)
  BY <1>1, <1>5 DEF TabOK, TabSaw, TabRefused, FoundHeld, InTransaction
<1>9. TabWrote(x)
  <2>1. \A m \in DOMAIN trail : trail[m].id < lastId + 1
    BY <1>1, <1>2
  <2>2. \A m \in Entries("revoked", x.toggle, 0) : m \in DOMAIN trail
    BY TypeFacts DEF Entries, RoleInv
  <2>3. \A m \in DOMAIN trail : trail[m].id # lastId + 1
    BY <1>1, <1>2
  <2>4. QED
    BY <1>1, <1>5, <2>1, <2>2, <2>3 DEF TabOK, TabWrote
<1>10. TabOK(x)'
  BY <1>6, <1>7, <1>8, <1>9, QuietFacts DEF TabOK
<1>11. ASSUME NEW u \in Tab \ {t}
      PROVE  Apart(tab[u], x) /\ Apart(x, tab[u])
  <2>1. tab[u].id \in Nat /\ tab[u].id <= lastId
    BY TabFacts DEF TabState, TabOK, TabShape
  <2>2. QED
    BY TabFacts, <1>1, <1>5, <2>1 DEF Apart
<1>12. QED
  BY <1>5, <1>6, <1>10, <1>11, TabStep

LEMMA AbortInvariant ==
  ASSUME RoleInv, NEW t \in Tab, Abort(t)
  PROVE  RoleInv'
BY AnswerInvariant DEF Abort, InTransaction, Replies

-----------------------------------------------------------------------------
(* Sign-ups.                                                               *)

(* The two steps that touch accounts alone, and open none.                 *)
LEMMA AccountStep ==
  ASSUME RoleInv, UNCHANGED <<grants, trail, lastId, tab, reader>>,
         accounts' \in [User -> {"absent", "created", "open", "roleless"}],
         \A user \in User : accounts'[user] = "open" => accounts[user] = "open"
  PROVE  RoleInv'
<1>1. /\ \A op, toggle, n : Entries(op, toggle, n)' = Entries(op, toggle, n)
      /\ \A filter : Matching(filter)' = Matching(filter)
      /\ \A user, role : Holds(user, role)' = Holds(user, role)
      /\ Entry' = Entry
  BY DEF Entries, Matching, Holds, Entry
<1>2. /\ \A toggle, n : HeldOrRevoked(toggle, n)' = HeldOrRevoked(toggle, n)
      /\ \A user, n : AdminAt(user, n)' = AdminAt(user, n)
  BY <1>1 DEF HeldOrRevoked, AdminAt
<1>3. Types'
  BY <1>1 DEF RoleInv, Types, TabState
<1>4. (\A m, n \in DOMAIN trail : trail[m].id = trail[n].id => m = n)'
  BY DEF RoleInv
<1>5. (\A m \in DOMAIN trail : EntryOK(trail[m]))'
  BY <1>2 DEF RoleInv, EntryOK
<1>6. (\A t \in Tab : TabOK(tab[t]))'
  <2>1. \A x : TabOK(x) => TabOK(x)'
    BY <1>1, <1>2 DEF TabOK, TabShape, TabSaw, TabWrote, TabRefused
  <2>2. QED
    BY <2>1 DEF RoleInv
<1>7. (\A t, u \in Tab : t # u => Apart(tab[t], tab[u]))'
  BY DEF RoleInv
<1>8. (\A user \in User, role \in ROLES \ {"applicant"} : Explained(user, role))'
  <2>1. ASSUME NEW user \in User, NEW role \in ROLES \ {"applicant"}
        PROVE  Explained(user, role)'
    BY <1>1 DEF RoleInv, Explained
  <2>2. QED
    BY <2>1
<1>9. /\ (\A user \in User : Holds(user, "admin") => AdminAt(user, Len(trail)))'
      /\ (\A user \in Admins : HeldOrRevoked(<<user, "admin">>, 0))'
      /\ (\A user \in User : accounts[user] = "open" => HeldOrRevoked(<<user, "applicant">>, 0))'
  BY <1>1, <1>2 DEF RoleInv
<1>10. ReaderOK'
  BY <1>1 DEF RoleInv, ReaderOK, PagingSkipsNothing
<1>11. QED
  BY <1>3, <1>4, <1>5, <1>6, <1>7, <1>8, <1>9, <1>10 DEF RoleInv

LEMMA SignUpInvariant ==
  ASSUME RoleInv, NEW user \in User, SignUp(user)
  PROVE  RoleInv'
BY AccountStep DEF SignUp, RoleInv, Types

LEMMA HookFailsInvariant ==
  ASSUME RoleInv, NEW user \in User, HookFails(user)
  PROVE  RoleInv'
BY AccountStep DEF HookFails, RoleInv, Types

LEMMA HookGrantsInvariant ==
  ASSUME RoleInv, NEW user \in User, HookGrants(user)
  PROVE  RoleInv'
<1>1. /\ Types /\ Len(trail) \in Nat /\ user # NoOne /\ "applicant" \in ROLES
      /\ \A m \in DOMAIN trail : trail[m] \in Entry
  BY TypeFacts, RoleAssumption DEF RoleInv, ROLES
<1>2. /\ grants' \in [User -> [ROLES -> User \cup {NoOne}]]
      /\ \A u \in User, role \in ROLES :
           <<u, role>> # <<user, "applicant">> => grants'[u][role] = grants[u][role]
      /\ grants'[user]["applicant"] # NoOne
  BY <1>1 DEF HookGrants, Types
<1>3. UNCHANGED <<trail, lastId, tab, reader>>
  BY DEF HookGrants
<1>4. /\ \A op, toggle, n : Entries(op, toggle, n)' = Entries(op, toggle, n)
      /\ \A filter : Matching(filter)' = Matching(filter)
      /\ \A u \in User, role \in ROLES :
           <<u, role>> # <<user, "applicant">> => (Holds(u, role)' = Holds(u, role))
      /\ Entry' = Entry
  BY <1>2, <1>3 DEF Entries, Matching, Holds, Entry
<1>5. Onward
  BY <1>1, <1>2, <1>3 DEF Onward, Holds
<1>6. Types'
  BY <1>2, <1>3, <1>4 DEF HookGrants, RoleInv, Types, TabState
<1>7. (\A m, n \in DOMAIN trail : trail[m].id = trail[n].id => m = n)'
  BY <1>3 DEF RoleInv
<1>8. (\A m \in DOMAIN trail : EntryOK(trail[m]))'
  BY <1>1, <1>3, <1>5, OnwardEntryOK DEF RoleInv
<1>9. (\A t \in Tab : TabOK(tab[t]))'
  <2>1. ASSUME NEW t \in Tab
        PROVE  TabOK(tab[t])'
    <3>1. PICK x : x = tab[t]
      OBVIOUS
    <3>2. x \in TabState /\ TabOK(x) /\ x = tab'[t]
      BY <3>1, <1>3, TabFacts
    <3>3. (TabShape(x) /\ TabSaw(x) /\ TabRefused(x))'
      BY <3>2, <1>1, <1>3, <1>5, OnwardTab DEF Types
    <3>4. x.wrote => x.toggle \in User \X ROLES /\ x.toggle # <<user, "applicant">>
      <4>1. x.wrote => x.toggle \in Toggles
        BY <3>2 DEF TabOK, TabShape
      <4>2. QED
        BY <3>1, <4>1, <1>1, TypeFacts DEF HookGrants, KeyBusy
    <3>5. x.wrote => (Holds(x.toggle[1], x.toggle[2])' = Holds(x.toggle[1], x.toggle[2]))
      BY <3>4, <1>4
    <3>6. TabWrote(x)'
      BY <3>2, <3>5, <1>3, <1>4 DEF TabOK, TabWrote
    <3>7. QED
      BY <3>2, <3>3, <3>6 DEF TabOK
  <2>2. QED
    BY <2>1
<1>10. (\A t, u \in Tab : t # u => Apart(tab[t], tab[u]))'
  BY <1>3 DEF RoleInv
<1>11. (\A u \in User, role \in ROLES \ {"applicant"} : Explained(u, role))'
  <2>1. ASSUME NEW u \in User, NEW role \in ROLES \ {"applicant"}
        PROVE  Explained(u, role)'
    <3>1. Explained(u, role)
      BY DEF RoleInv
    <3>2. grants'[u][role] = grants[u][role] /\ (Holds(u, role)' = Holds(u, role))
      BY <1>2, <1>4
    <3>3. QED
      BY <3>1, <3>2, <1>3, <1>4 DEF Explained
  <2>2. QED
    BY <2>1
<1>12. (\A u \in User : Holds(u, "admin") => AdminAt(u, Len(trail)))'
  <2>1. \A u \in User : Holds(u, "admin")' = Holds(u, "admin")
    BY <1>4 DEF ROLES
  <2>2. ASSUME NEW u, NEW n
        PROVE  AdminAt(u, n)' <=> AdminAt(u, n)
    BY <1>3, <1>4 DEF AdminAt
  <2>3. QED
    BY <1>3, <2>1, <2>2 DEF RoleInv
<1>13. (\A u \in Admins : HeldOrRevoked(<<u, "admin">>, 0))'
  <2>1. ASSUME NEW u \in Admins
        PROVE  HeldOrRevoked(<<u, "admin">>, 0)'
    <3>1. HeldOrRevoked(<<u, "admin">>, 0) /\ <<u, "admin">> \in User \X ROLES
      BY <1>1, TypeFacts, RoleAssumption DEF RoleInv
    <3>2. QED
      BY <3>1, <1>1, <1>5, OnwardHeld
  <2>2. QED
    BY <2>1
<1>14. (\A u \in User : accounts[u] = "open" => HeldOrRevoked(<<u, "applicant">>, 0))'
  <2>1. ASSUME NEW u \in User, accounts'[u] = "open"
        PROVE  HeldOrRevoked(<<u, "applicant">>, 0)'
    <3>1. CASE u = user
      BY <3>1, <1>2 DEF HeldOrRevoked, Holds
    <3>2. CASE u # user
      <4>1. HeldOrRevoked(<<u, "applicant">>, 0) /\ <<u, "applicant">> \in User \X ROLES
        BY <2>1, <3>2, <1>1 DEF HookGrants, RoleInv, Types
      <4>2. QED
        BY <4>1, <1>1, <1>5, OnwardHeld
    <3>3. QED
      BY <3>1, <3>2
  <2>2. QED
    BY <2>1
<1>15. ReaderOK'
  BY <1>3, <1>4 DEF RoleInv, ReaderOK, PagingSkipsNothing
<1>16. QED
  BY <1>6, <1>7, <1>8, <1>9, <1>10, <1>11, <1>12, <1>13, <1>14, <1>15 DEF RoleInv

-----------------------------------------------------------------------------
(* The audit page.                                                         *)

LEMMA MatchingFacts ==
  ASSUME Types, NEW filter
  PROVE  Matching(filter) \in SUBSET Nat /\ IsFiniteSet(Matching(filter))
<1>. DEFINE at == {n \in DOMAIN trail : filter \in {NoOne, trail[n].toggle[1]}}
            idOf == [n \in at |-> trail[n].id]
<1>1. /\ Len(trail) \in Nat /\ DOMAIN trail = 1..Len(trail)
      /\ \A m \in 1..Len(trail) : trail[m] \in Entry
  BY TypeFacts
<1>2. IsFiniteSet(at)
  <2>1. at \in SUBSET (1..Len(trail)) /\ IsFiniteSet(1..Len(trail))
    BY <1>1, FS_Interval
  <2>. HIDE DEF at
  <2>2. QED
    BY <2>1, FS_Subset
<1>3. \A n \in at : trail[n].id \in Nat
  BY <1>1 DEF Entry
<1>4. Matching(filter) = {trail[n].id : n \in at}
  BY DEF Matching
<1>. HIDE DEF at
<1>5. idOf \in Surjection(at, {trail[n].id : n \in at})
  BY DEF Surjection
<1>6. IsFiniteSet({trail[n].id : n \in at})
  BY <1>2, <1>5, FS_Surjection
<1>7. QED
  BY <1>3, <1>4, <1>6

LEMMA MinOfTwo ==
  ASSUME NEW a \in Nat, NEW b \in Nat
  PROVE  Min({a, b}) = IF a <= b THEN a ELSE b
<1>. DEFINE low == IF a <= b THEN a ELSE b
<1>1. low \in {a, b} /\ \A y \in {a, b} : low <= y
  OBVIOUS
<1>2. \A x \in {a, b} : (\A y \in {a, b} : x <= y) => x = low
  OBVIOUS
<1>. HIDE DEF low
<1>3. Min({a, b}) = low
  BY <1>1, <1>2 DEF Min
<1>4. QED
  BY <1>3 DEF low

(* The page at an offset shows the rows of the ranks after the offset.     *)
LEMMA PageFacts ==
  ASSUME Types, NEW filter, NEW offset \in Nat, NEW id \in Matching(filter)
  PROVE  LET rows == RowsAt(filter, offset)
             rank == Rank(Matching(filter), id)
         IN /\ rank \in Nat
            /\ (offset < rank /\ rank <= offset + PageSize) => id \in ToSet(rows)
            /\ offset + PageSize < rank => HasNext(rows)
<1>. DEFINE ids == Matching(filter)
            n == Cardinality(ids)
            s == InIdOrder(ids)
            rank == Rank(ids, id)
            last == Min({offset + PageSize, Len(s)})
<1>1. /\ n \in Nat /\ s \in [1..n -> ids] /\ ids \in SUBSET Nat
      /\ rank \in 1..n /\ s[rank] = id
  BY MatchingFacts, OrderFacts
<1>2. s \in Seq(Nat) /\ Len(s) = n /\ PageSize \in Nat \ {0}
  <2>1. s \in [1..n -> Nat]
    BY <1>1
  <2>2. QED
    BY <1>1, <2>1, RoleAssumption
<1>. HIDE DEF s, n, rank
<1>3. /\ last \in Nat /\ last <= n /\ last <= offset + PageSize
      /\ last = n \/ last = offset + PageSize
  BY <1>1, <1>2, MinOfTwo
<1>4. RowsAt(filter, offset) = SubSeq(s, offset + 1, last)
  BY DEF RowsAt, s
<1>. HIDE DEF last
<1>5. /\ Len(SubSeq(s, offset + 1, last)) = IF offset + 1 <= last THEN last - offset ELSE 0
      /\ \A i \in 1..(last - offset) : SubSeq(s, offset + 1, last)[i] = s[offset + i]
      /\ DOMAIN SubSeq(s, offset + 1, last) = 1..Len(SubSeq(s, offset + 1, last))
  BY <1>1, <1>2, <1>3
<1>6. ASSUME offset < rank, rank <= offset + PageSize
      PROVE  id \in ToSet(RowsAt(filter, offset))
  <2>1. rank - offset \in 1..(last - offset) /\ offset + (rank - offset) = rank
        /\ offset + 1 <= last
    BY <1>1, <1>2, <1>3, <1>6
  <2>2. SubSeq(s, offset + 1, last)[rank - offset] = id
    BY <1>1, <1>5, <2>1
  <2>3. rank - offset \in DOMAIN SubSeq(s, offset + 1, last)
    BY <1>5, <2>1
  <2>4. QED
    BY <1>4, <2>2, <2>3 DEF ToSet
<1>7. ASSUME offset + PageSize < rank
      PROVE  HasNext(RowsAt(filter, offset))
  <2>1. last = offset + PageSize /\ offset + 1 <= last
    BY <1>1, <1>2, <1>3, <1>7
  <2>2. Len(SubSeq(s, offset + 1, last)) = PageSize
    BY <1>2, <1>5, <2>1
  <2>3. QED
    BY <1>4, <2>2 DEF HasNext
<1>8. QED
  BY <1>1, <1>6, <1>7 DEF rank, n

LEMMA ReaderStep ==
  ASSUME RoleInv, NEW filter \in Filters, NEW offset \in Nat, NEW unread \in SUBSET Nat,
         \E k \in 0..offset : offset = k * PageSize,
         \A id \in unread : id \in Matching(filter) /\ Rank(Matching(filter), id) > offset,
         ShowPage(filter, offset, unread)
  PROVE  RoleInv'
<1>. DEFINE rows == RowsAt(filter, offset)
            page == [open |-> TRUE, filter |-> filter, offset |-> offset,
                     hasNext |-> HasNext(rows), unread |-> unread \ ToSet(rows)]
<1>1. UNCHANGED <<accounts, grants, trail, lastId, tab>> /\ reader' = page
  BY DEF ShowPage
<1>2. /\ page.open = TRUE /\ page.filter = filter /\ page.offset = offset
      /\ page.hasNext = HasNext(rows) /\ page.unread = unread \ ToSet(rows)
      /\ page \in [open : BOOLEAN, filter : User \cup {NoOne}, offset : Nat, hasNext : BOOLEAN,
                   unread : SUBSET Nat]
  BY RoleAssumption DEF HasNext
<1>. HIDE DEF page
<1>3. /\ \A op, toggle, n : Entries(op, toggle, n)' = Entries(op, toggle, n)
      /\ \A f : Matching(f)' = Matching(f)
      /\ \A user, role : Holds(user, role)' = Holds(user, role)
      /\ Entry' = Entry
  BY <1>1 DEF Entries, Matching, Holds, Entry
<1>4. /\ \A toggle, n : HeldOrRevoked(toggle, n)' = HeldOrRevoked(toggle, n)
      /\ \A user, n : AdminAt(user, n)' = AdminAt(user, n)
  BY <1>1, <1>3 DEF HeldOrRevoked, AdminAt
<1>5. Types'
  BY <1>1, <1>2, <1>3 DEF RoleInv, Types, TabState
<1>6. (\A m \in DOMAIN trail : EntryOK(trail[m]))'
  BY <1>1, <1>4 DEF RoleInv, EntryOK
<1>7. (\A t \in Tab : TabOK(tab[t]))'
  <2>1. \A x : TabOK(x) => TabOK(x)'
    BY <1>1, <1>3, <1>4 DEF TabOK, TabShape, TabSaw, TabWrote, TabRefused
  <2>2. QED
    BY <1>1, <2>1 DEF RoleInv
<1>8. /\ (\A m, n \in DOMAIN trail : trail[m].id = trail[n].id => m = n)'
      /\ (\A t, u \in Tab : t # u => Apart(tab[t], tab[u]))'
  BY <1>1 DEF RoleInv
<1>9. (\A user \in User, role \in ROLES \ {"applicant"} : Explained(user, role))'
  <2>1. ASSUME NEW user \in User, NEW role \in ROLES \ {"applicant"}
        PROVE  Explained(user, role)'
    BY <1>1, <1>3 DEF RoleInv, Explained
  <2>2. QED
    BY <2>1
<1>10. /\ (\A user \in User : Holds(user, "admin") => AdminAt(user, Len(trail)))'
       /\ (\A user \in Admins : HeldOrRevoked(<<user, "admin">>, 0))'
       /\ (\A user \in User : accounts[user] = "open" => HeldOrRevoked(<<user, "applicant">>, 0))'
  BY <1>1, <1>3, <1>4 DEF RoleInv
<1>11. ASSUME NEW id \in unread \ ToSet(rows)
       PROVE  Rank(Matching(filter), id) > offset + PageSize /\ HasNext(rows)
  <2>1. /\ id \in Matching(filter) /\ Rank(Matching(filter), id) > offset
        /\ PageSize \in Nat /\ Types
    BY RoleAssumption DEF RoleInv
  <2>2. /\ Rank(Matching(filter), id) \in Nat
        /\ Rank(Matching(filter), id) <= offset + PageSize => id \in ToSet(rows)
        /\ offset + PageSize < Rank(Matching(filter), id) => HasNext(rows)
    BY <2>1, PageFacts
  <2>. HIDE DEF rows
  <2>3. QED
    BY <2>1, <2>2
<1>12. ReaderOK'
  BY <1>1, <1>2, <1>3, <1>11 DEF ReaderOK, PagingSkipsNothing
<1>13. QED
  BY <1>5, <1>6, <1>7, <1>8, <1>9, <1>10, <1>12 DEF RoleInv

LEMMA ReaderInvariant ==
  ASSUME RoleInv, (\E filter \in Filters : OpenAudit(filter)) \/ NextPage \/ PrevPage
  PROVE  RoleInv'
<1>1. /\ reader.offset \in Nat /\ PageSize \in Nat \ {0} /\ reader.unread \in SUBSET Nat
      /\ ReaderOK /\ Types
  BY RoleAssumption DEF RoleInv, Types
<1>2. ASSUME NEW filter \in Filters, OpenAudit(filter)
      PROVE  RoleInv'
  <2>1. Matching(filter) \in SUBSET Nat /\ IsFiniteSet(Matching(filter))
    BY <1>1, MatchingFacts
  <2>2. \A id \in Matching(filter) : Rank(Matching(filter), id) > 0
    BY <2>1, RankFacts
  <2>3. \E k \in 0..0 : 0 = k * PageSize
    BY <1>1
  <2>4. QED
    BY <1>2, <2>1, <2>2, <2>3, ReaderStep DEF OpenAudit
<1>3. ASSUME NextPage
      PROVE  RoleInv'
  <2>1. PICK k \in 0..reader.offset : reader.offset = k * PageSize
    BY <1>1, <1>3 DEF NextPage, ReaderOK
  <2>2. (k + 1) * PageSize = reader.offset + PageSize /\ k + 1 \in 0..(reader.offset + PageSize)
    BY <1>1, <2>1
  <2>3. reader.filter \in Filters /\ reader.offset + PageSize \in Nat
    BY <1>1, <1>3 DEF NextPage, ReaderOK
  <2>4. \A id \in reader.unread :
          /\ id \in Matching(reader.filter)
          /\ Rank(Matching(reader.filter), id) > reader.offset + PageSize
    BY <1>1 DEF ReaderOK
  <2>5. ShowPage(reader.filter, reader.offset + PageSize, reader.unread)
    BY <1>3 DEF NextPage
  <2>6. QED
    BY <1>1, <2>2, <2>3, <2>4, <2>5, ReaderStep
<1>4. ASSUME PrevPage
      PROVE  RoleInv'
  <2>1. reader.offset > 0 /\ reader.open
    BY <1>1, <1>4 DEF PrevPage, ReaderOK, Types
  <2>2. PICK k \in 0..reader.offset : reader.offset = k * PageSize
    BY <1>1, <2>1 DEF ReaderOK
  <2>3. k # 0 /\ k - 1 \in Nat /\ (k - 1) * PageSize = reader.offset - PageSize
    BY <1>1, <2>1, <2>2
  <2>4. (k - 1) * PageSize \in Nat /\ k - 1 <= (k - 1) * PageSize
    BY <1>1, <2>3
  <2>5. reader.filter \in Filters
    BY <1>1, <2>1 DEF ReaderOK
  <2>6. ASSUME NEW id \in reader.unread
        PROVE  /\ id \in Matching(reader.filter)
               /\ Rank(Matching(reader.filter), id) > reader.offset - PageSize
    <3>1. /\ id \in Matching(reader.filter)
          /\ Rank(Matching(reader.filter), id) > reader.offset + PageSize
      BY <1>1 DEF ReaderOK
    <3>2. Rank(Matching(reader.filter), id) \in Nat
      BY <1>1, <3>1, PageFacts
    <3>3. QED
      BY <1>1, <3>1, <3>2
  <2>7. ShowPage(reader.filter, reader.offset - PageSize, reader.unread)
    BY <1>4 DEF PrevPage
  <2>8. /\ reader.offset - PageSize \in Nat
        /\ \E i \in 0..(reader.offset - PageSize) : reader.offset - PageSize = i * PageSize
    BY <2>3, <2>4
  <2>9. QED
    BY <1>1, <2>5, <2>6, <2>7, <2>8, ReaderStep
<1>5. QED
  BY <1>2, <1>3, <1>4

-----------------------------------------------------------------------------
(* COMMIT.                                                                 *)

(* What a commit makes of the trail and of user_roles.                     *)
LEMMA CommitFacts ==
  ASSUME RoleInv, NEW t \in Tab, Commit(t), NEW x, x = tab[t]
  PROVE  /\ x \in TabState /\ TabOK(x) /\ x.pc = "committing" /\ x.user \in User
         /\ x.toggle \in Toggles /\ x.toggle \in User \X ROLES /\ x.id \in 1..lastId
         /\ x.since \in Nat /\ x.since <= Len(trail)
         /\ x.has => x.wrote
         /\ trail' \in Seq(Entry) /\ Len(trail') = Len(trail) + 1
         /\ \A m \in 1..Len(trail) : trail'[m] = trail[m]
         /\ LET e == trail'[Len(trail) + 1]
            IN /\ e.op = (IF x.has THEN "revoked" ELSE "granted") /\ e.toggle = x.toggle
               /\ e.actor = x.user /\ e.id = x.id /\ e.since = x.since
               /\ e.wrote = x.wrote
         /\ grants' \in [User -> [ROLES -> User \cup {NoOne}]]
         /\ ~x.wrote => grants' = grants
         /\ \A user \in User, role \in ROLES :
              <<user, role>> # x.toggle => grants'[user][role] = grants[user][role]
         /\ x.wrote => grants'[x.toggle[1]][x.toggle[2]] = IF x.has THEN NoOne ELSE x.user
         /\ SetTab(t, Answered(x, "done")) /\ UNCHANGED <<accounts, lastId, reader>>
<1>1. /\ x \in TabState /\ TabOK(x) /\ x.pc = "committing" /\ Types
      /\ Len(trail) \in Nat /\ lastId \in Nat
  BY TabFacts DEF Commit, RoleInv
<1>2. /\ x.user \in User /\ x.toggle \in Toggles /\ x.id \in 1..lastId
      /\ x.since \in Nat /\ x.since <= Len(trail)
      /\ x.has => x.wrote
      /\ ~x.has => x.by \in User /\ (x.wrote => x.by = x.user)
      /\ x.by \in User \cup {NoOne} /\ x.has \in BOOLEAN /\ x.wrote \in BOOLEAN
  BY <1>1 DEF TabOK, TabShape, TabState
<1>3. x.toggle \in User \X ROLES /\ x.toggle = <<x.toggle[1], x.toggle[2]>>
  BY <1>1, <1>2, TypeFacts
<1>. DEFINE e == EntryOf(t)
<1>4. /\ e.op = (IF x.has THEN "revoked" ELSE "granted") /\ e.toggle = x.toggle
      /\ e.actor = x.user /\ e.id = x.id /\ e.since = x.since
      /\ e.wrote = x.wrote /\ e \in Entry
  BY <1>2 DEF EntryOf, Revoking, Entry
<1>5. trail' = Append(trail, e) /\ trail \in Seq(Entry)
  BY <1>1 DEF Commit, Types
<1>. HIDE DEF e
<1>6. /\ trail' \in Seq(Entry) /\ Len(trail') = Len(trail) + 1
      /\ \A m \in 1..Len(trail) : trail'[m] = trail[m]
      /\ trail'[Len(trail) + 1] = e
  BY <1>4, <1>5, AppendProperties
<1>7. grants \in [User -> [ROLES -> User \cup {NoOne}]]
  BY <1>1 DEF Types
<1>. DEFINE new == IF x.has THEN NoOne ELSE x.by
<1>8. new \in User \cup {NoOne} /\ (x.wrote => new = IF x.has THEN NoOne ELSE x.user)
  BY <1>2
<1>9. grants' = IF x.wrote THEN [grants EXCEPT ![x.toggle[1]][x.toggle[2]] = new] ELSE grants
  BY DEF Commit, Granted, Revoking
<1>. HIDE DEF new
<1>10. /\ grants' \in [User -> [ROLES -> User \cup {NoOne}]]
       /\ ~x.wrote => grants' = grants
       /\ \A user \in User, role \in ROLES :
            <<user, role>> # x.toggle => grants'[user][role] = grants[user][role]
       /\ x.wrote => grants'[x.toggle[1]][x.toggle[2]] = IF x.has THEN NoOne ELSE x.user
  BY <1>3, <1>7, <1>8, <1>9
<1>11. SetTab(t, Answered(x, "done")) /\ UNCHANGED <<accounts, lastId, reader>>
  BY DEF Commit, Answer, Answered
<1>12. QED
  BY <1>1, <1>2, <1>3, <1>4, <1>6, <1>10, <1>11

LEMMA CommitEntries ==
  ASSUME RoleInv, NEW t \in Tab, Commit(t), NEW x, x = tab[t]
  PROVE  /\ Onward
         /\ \A op, toggle : \A n \in 0..Len(trail) : \A m :
              m \in Entries(op, toggle, n)' <=>
                \/ m \in Entries(op, toggle, n)
                \/ /\ m = Len(trail) + 1 /\ toggle = x.toggle
                   /\ op = IF x.has THEN "revoked" ELSE "granted"
<1>1. /\ Len(trail) \in Nat /\ Len(trail') = Len(trail) + 1
      /\ \A m \in 1..Len(trail) : trail'[m] = trail[m]
      /\ trail'[Len(trail) + 1].op = (IF x.has THEN "revoked" ELSE "granted")
      /\ trail'[Len(trail) + 1].toggle = x.toggle
      /\ x.toggle \in User \X ROLES
  BY CommitFacts, TabFacts
<1>2. ASSUME NEW op, NEW toggle, NEW n \in 0..Len(trail), NEW m
      PROVE  m \in Entries(op, toggle, n)' <=>
               \/ m \in Entries(op, toggle, n)
               \/ /\ m = Len(trail) + 1 /\ toggle = x.toggle
                  /\ op = IF x.has THEN "revoked" ELSE "granted"
  <2>1. m \in (n + 1)..(Len(trail) + 1) <=> m \in (n + 1)..Len(trail) \/ m = Len(trail) + 1
    BY <1>1
  <2>2. m \in (n + 1)..Len(trail) => m \in 1..Len(trail) /\ m # Len(trail) + 1
    BY <1>1
  <2>3. QED
    BY <1>1, <2>1, <2>2 DEF Entries
<1>3. Onward
  <2>1. ASSUME NEW user \in User, NEW role \in ROLES, Holds(user, role),
               grants'[user][role] = NoOne
        PROVE  \E m \in (Len(trail) + 1)..Len(trail') :
                 trail'[m].op = "revoked" /\ trail'[m].toggle = <<user, role>>
    <3>1. x.wrote /\ <<user, role>> = x.toggle
      BY <2>1, CommitFacts DEF Holds
    <3>2. x.has
      BY <2>1, <3>1, CommitFacts, RoleAssumption
    <3>3. QED
      BY <1>1, <3>1, <3>2
  <2>2. QED
    BY <1>1, <2>1 DEF Onward
<1>4. QED
  BY <1>2, <1>3

LEMMA CommitInvariant ==
  ASSUME RoleInv, NEW t \in Tab, Commit(t)
  PROVE  RoleInv'
<1>1. PICK x : x = tab[t]
  OBVIOUS
<1>0. PICK new : new = Len(trail) + 1
  OBVIOUS
<1>2. /\ x \in TabState /\ TabOK(x) /\ x.pc = "committing" /\ x.user \in User
      /\ x.toggle \in Toggles /\ x.toggle \in User \X ROLES /\ x.id \in 1..lastId
      /\ x.since \in Nat /\ x.since <= Len(trail)
      /\ x.has => x.wrote
      /\ trail' \in Seq(Entry) /\ Len(trail') = new
      /\ \A m \in 1..Len(trail) : trail'[m] = trail[m]
      /\ trail'[new].op = (IF x.has THEN "revoked" ELSE "granted")
      /\ trail'[new].toggle = x.toggle /\ trail'[new].actor = x.user
      /\ trail'[new].id = x.id /\ trail'[new].since = x.since
      /\ trail'[new].wrote = x.wrote
      /\ grants' \in [User -> [ROLES -> User \cup {NoOne}]]
      /\ ~x.wrote => grants' = grants
      /\ \A user \in User, role \in ROLES :
           <<user, role>> # x.toggle => grants'[user][role] = grants[user][role]
      /\ x.wrote => grants'[x.toggle[1]][x.toggle[2]] = IF x.has THEN NoOne ELSE x.user
      /\ SetTab(t, Answered(x, "done")) /\ UNCHANGED <<accounts, lastId, reader>>
  BY <1>0, <1>1, CommitFacts
<1>3. /\ Types /\ Len(trail) \in Nat /\ DOMAIN trail = 1..Len(trail) /\ lastId \in Nat
      /\ \A m \in 1..Len(trail) : trail[m] \in Entry
      /\ tab \in [Tab -> TabState] /\ DOMAIN trail' = 1..new
      /\ x.user # NoOne
  <2>1. DOMAIN trail' = 1..Len(trail')
    BY <1>2, LenProperties
  <2>2. QED
    BY <1>2, <2>1, TypeFacts, RoleAssumption DEF RoleInv, Types
<1>4. Onward
  BY <1>1, CommitEntries
<1>5. \A op, toggle : \A n \in 0..Len(trail) : \A m :
        m \in Entries(op, toggle, n)' <=>
          \/ m \in Entries(op, toggle, n)
          \/ m = new /\ toggle = x.toggle /\ op = IF x.has THEN "revoked" ELSE "granted"
  BY <1>0, <1>1, CommitEntries
<1>6. Entry' = Entry /\ TabShape(x) /\ TabSaw(x) /\ TabWrote(x)
  BY <1>2 DEF Entry, TabOK
<1>7. \A m \in DOMAIN trail : trail[m].id # x.id
  BY <1>2, <1>6, <1>3 DEF TabWrote
<1>8. PICK y : y = Answered(x, "done")
  OBVIOUS
<1>9. /\ y \in TabState /\ ~y.wrote /\ y.id = 0 /\ y.reply = "done"
      /\ TabShape(y) /\ TabSaw(y) /\ TabWrote(y)
  BY <1>2, <1>3, <1>6, <1>8, AnsweredFacts DEF Replies
<1>10. /\ tab' \in [Tab -> TabState] /\ tab'[t] = y
       /\ \A u \in Tab \ {t} : tab'[u] = tab[u]
  BY <1>2, <1>3, <1>8, <1>9 DEF SetTab
<1>11. Types'
  BY <1>2, <1>3, <1>6, <1>10 DEF RoleInv, Types, TabState
<1>12. (\A m, n \in DOMAIN trail : trail[m].id = trail[n].id => m = n)'
  <2>1. \A m \in 1..new : m \in DOMAIN trail \/ m = new
    BY <1>0, <1>3
  <2>2. QED
    BY <1>2, <1>3, <1>7, <2>1 DEF RoleInv
<1>13. (\A m \in DOMAIN trail : EntryOK(trail[m]))'
  <2>1. ASSUME NEW m \in 1..Len(trail)
        PROVE  EntryOK(trail[m])'
    BY <1>2, <1>3, <1>4, OnwardEntryOK DEF RoleInv
  <2>2. EntryOK(trail[new])'
    <3>1. x.pc \in InTransaction /\ x.pc # "closed" /\ <<x.user, "admin">> \in User \X ROLES
      BY <1>2, <1>3, TypeFacts DEF InTransaction
    <3>2. AdminAt(x.user, x.since)' /\ HeldOrRevoked(<<x.user, "admin">>, x.since)'
      BY <1>2, <1>3, <1>4, <1>6, <3>1, OnwardAdminAt, OnwardHeld DEF TabSaw
    <3>3. ASSUME ~x.has
          PROVE  HeldOrRevoked(x.toggle, x.since)'
      <4>1. CASE x.wrote
        BY <1>2, <1>3, <3>3, <4>1 DEF HeldOrRevoked, Holds
      <4>2. CASE ~x.wrote
        <5>1. HeldOrRevoked(x.toggle, x.since)
          BY <1>2, <1>6, <3>3, <4>2 DEF TabSaw, FoundHeld
        <5>2. QED
          BY <1>2, <1>3, <1>4, <5>1, OnwardHeld
      <4>3. QED
        BY <4>1, <4>2
    <3>4. PICK e : e = trail'[new]
      OBVIOUS
    <3>5. /\ e.op = (IF x.has THEN "revoked" ELSE "granted") /\ e.toggle = x.toggle
          /\ e.actor = x.user /\ e.since = x.since
          /\ x.since <= Len(trail')
      BY <1>0, <1>2, <1>3, <3>4
    <3>6. EntryOK(e)'
      BY <3>2, <3>3, <3>5 DEF EntryOK
    <3>7. QED
      BY <3>4, <3>6 DEF EntryOK
  <2>3. \A m \in 1..new : m \in 1..Len(trail) \/ m = new
    BY <1>0, <1>3
  <2>4. QED
    BY <1>3, <2>1, <2>2, <2>3
<1>14. (\A u \in Tab : TabOK(tab[u]))'
  <2>1. TabOK(y)'
    <3>1. TabOK(y)
      BY <1>9 DEF TabOK, TabRefused
    <3>2. TabWrote(y)'
      BY <1>9 DEF TabWrote
    <3>3. QED
      BY <1>2, <1>3, <1>4, <1>9, <3>1, <3>2, OnwardTab DEF TabOK
  <2>2. ASSUME NEW u \in Tab \ {t}
        PROVE  TabOK(tab[u])'
    <3>1. PICK z : z = tab[u]
      OBVIOUS
    <3>2. z \in TabState /\ TabOK(z) /\ Apart(z, x) /\ Apart(x, z) /\ z = tab'[u]
      BY <1>1, <1>10, <3>1, TabFacts
    <3>3. (TabShape(z) /\ TabSaw(z) /\ TabRefused(z))'
      BY <1>2, <1>3, <1>4, <3>2, OnwardTab
    <3>4. z.wrote => z.toggle \in User \X ROLES /\ (x.wrote => z.toggle # x.toggle)
      <4>1. z.wrote => z.toggle \in Toggles
        BY <3>2 DEF TabOK, TabShape
      <4>2. QED
        BY <1>3, <3>2, <4>1, TypeFacts DEF Apart
    <3>5. z.wrote => (Holds(z.toggle[1], z.toggle[2])' = Holds(z.toggle[1], z.toggle[2]))
      <4>1. z.wrote => z.toggle = <<z.toggle[1], z.toggle[2]>>
                       /\ z.toggle[1] \in User /\ z.toggle[2] \in ROLES
        BY <3>4
      <4>2. QED
        BY <1>2, <3>4, <4>1 DEF Holds
    <3>6. z.id # 0 => \A m \in 1..new : trail'[m].id # z.id
      <4>1. z.id # 0 => x.id # z.id /\ \A m \in 1..Len(trail) : trail[m].id # z.id
        BY <1>2, <1>3, <3>2 DEF TabOK, TabWrote, Apart
      <4>2. \A m \in 1..new : m \in 1..Len(trail) \/ m = new
        BY <1>0, <1>3
      <4>3. QED
        BY <1>2, <4>1, <4>2
    <3>7. (z.id # 0 /\ z.wrote /\ ~z.has) =>
            \A m \in Entries("revoked", z.toggle, 0)' : trail'[m].id < z.id
      <4>1. SUFFICES ASSUME z.id # 0, z.wrote, ~z.has,
                            NEW m \in Entries("revoked", z.toggle, 0)'
                     PROVE  trail'[m].id < z.id
        OBVIOUS
      <4>2. m \in Entries("revoked", z.toggle, 0)
        BY <1>2, <1>3, <1>5, <3>4, <4>1
      <4>3. m \in 1..Len(trail)
        BY <1>3, <4>2 DEF Entries
      <4>4. QED
        BY <1>2, <3>2, <4>1, <4>2, <4>3 DEF TabOK, TabWrote
    <3>8. TabWrote(z)'
      BY <1>3, <3>2, <3>5, <3>6, <3>7 DEF TabOK, TabWrote
    <3>9. QED
      BY <3>2, <3>3, <3>8 DEF TabOK
  <2>3. QED
    BY <1>10, <2>1, <2>2
<1>15. (\A u, v \in Tab : u # v => Apart(tab[u], tab[v]))'
  BY <1>9, <1>10 DEF RoleInv, Apart
<1>16. (\A user \in User, role \in ROLES \ {"applicant"} : Explained(user, role))'
  <2>1. ASSUME NEW user \in User, NEW role \in ROLES \ {"applicant"},
               grants'[user][role] # NoOne
        PROVE  Explained(user, role)'
    <3>. DEFINE toggle == <<user, role>>
                granted == Entries("granted", toggle, 0)
                revoked == Entries("revoked", toggle, 0)
    <3>1. \A m \in granted \cup revoked : m \in 1..Len(trail) /\ trail'[m] = trail[m]
      BY <1>2, <1>3 DEF Entries
    <3>2. \A m \in 1..Len(trail) : trail[m].id \in Nat
      BY <1>3 DEF Entry
    <3>3. CASE toggle = x.toggle /\ x.wrote
      <4>1. ~x.has /\ grants'[user][role] = x.user
        BY <1>2, <2>1, <3>3
      <4>2. new \in Entries("granted", toggle, 0)'
        BY <1>3, <1>5, <3>3, <4>1
      <4>3. \A k \in Entries("revoked", toggle, 0)' : k \in revoked
        BY <1>3, <1>5, <4>1
      <4>4. \A k \in revoked : trail[k].id < x.id
        <5>1. x.id # 0 /\ x.wrote /\ ~x.has
          BY <1>2, <1>3, <3>3, <4>1
        <5>2. \A k \in Entries("revoked", x.toggle, 0) : trail[k].id < x.id
          BY <1>6, <5>1 DEF TabWrote
        <5>3. QED
          BY <3>3, <5>2
      <4>5. \A k \in Entries("revoked", toggle, 0)' : trail'[k].id < trail'[new].id
        BY <1>2, <3>1, <4>3, <4>4
      <4>6. QED
        BY <1>2, <4>1, <4>2, <4>5 DEF Explained
    <3>4. CASE ~(toggle = x.toggle /\ x.wrote)
      <4>1. grants'[user][role] = grants[user][role] /\ Holds(user, role)
        BY <1>2, <2>1, <3>4 DEF Holds
      <4>2. Explained(user, role)
        BY DEF RoleInv
      <4>3. \A k : k \in Entries("revoked", toggle, 0)' <=> k \in revoked
        BY <1>2, <1>3, <1>5, <3>4
      <4>4. \A k \in granted : k \in Entries("granted", toggle, 0)'
        BY <1>3, <1>5
      <4>5. CASE revoked = {} /\ user \in Admins /\ role = "admin"
        <5>1. Entries("revoked", toggle, 0)' = {}
          BY <4>3, <4>5
        <5>2. QED
          BY <4>5, <5>1 DEF Explained
      <4>6. CASE \E m \in granted :
                   /\ trail[m].actor = grants[user][role]
                   /\ \A k \in revoked : trail[k].id < trail[m].id
        <5>1. PICK m \in granted :
                     /\ trail[m].actor = grants[user][role]
                     /\ \A k \in revoked : trail[k].id < trail[m].id
          BY <4>6
        <5>2. /\ m \in Entries("granted", toggle, 0)'
              /\ trail'[m].actor = grants'[user][role]
              /\ \A k \in Entries("revoked", toggle, 0)' : trail'[k].id < trail'[m].id
          BY <3>1, <4>1, <4>3, <4>4, <5>1
        <5>3. QED
          BY <5>2 DEF Explained
      <4>7. QED
        BY <4>1, <4>2, <4>5, <4>6 DEF Explained
    <3>5. QED
      BY <3>3, <3>4
  <2>2. ASSUME NEW user \in User, NEW role \in ROLES \ {"applicant"},
               grants'[user][role] = NoOne
        PROVE  Explained(user, role)'
    BY <2>2 DEF Explained, Holds
  <2>3. QED
    BY <2>1, <2>2
<1>17. (\A user \in User : Holds(user, "admin") => AdminAt(user, Len(trail)))'
  <2>1. ASSUME NEW user \in User, grants'[user]["admin"] # NoOne
        PROVE  AdminAt(user, Len(trail))'
    <3>. DEFINE toggle == <<user, "admin">>
    <3>1. "admin" \in ROLES /\ new \in Nat /\ Len(trail') = new
      BY <1>0, <1>2, <1>3 DEF ROLES
    <3>2. CASE toggle = x.toggle /\ x.wrote
      <4>1. ~x.has
        BY <1>2, <2>1, <3>2
      <4>2. new \in Entries("granted", toggle, 0)' /\ trail'[new].wrote
        <5>1. 0 \in 0..Len(trail)
          BY <1>3
        <5>2. new \in Entries("granted", toggle, 0)'
          BY <1>5, <3>2, <4>1, <5>1
        <5>3. QED
          BY <1>2, <3>2, <5>2
      <4>3. Entries("revoked", toggle, new)' = {}
        BY <3>1 DEF Entries
      <4>4. QED
        BY <3>1, <4>2, <4>3 DEF AdminAt
    <3>3. CASE toggle # x.toggle \/ ~x.wrote
      <4>1. Holds(user, "admin")
        BY <1>2, <2>1, <3>1, <3>3 DEF Holds
      <4>2. AdminAt(user, Len(trail))
        BY <4>1 DEF RoleInv
      <4>3. ~(toggle = x.toggle /\ x.has)
        BY <1>2, <3>3
      <4>4. \A m \in 0..Len(trail) : \A k \in Entries("revoked", toggle, m)' :
              k \in Entries("revoked", toggle, m) /\ k <= Len(trail)
        <5>1. \A m \in 0..Len(trail) : \A k \in Entries("revoked", toggle, m) : k <= Len(trail)
          BY <1>3 DEF Entries
        <5>2. QED
          BY <1>5, <4>3, <5>1
      <4>5. \A g \in Entries("granted", toggle, 0) :
              /\ g \in Entries("granted", toggle, 0)' /\ g \in 0..Len(trail)
              /\ g <= new /\ trail'[g] = trail[g]
        <5>1. \A g \in Entries("granted", toggle, 0) : g \in 1..Len(trail)
          BY <1>3 DEF Entries
        <5>2. ASSUME NEW g \in Entries("granted", toggle, 0)
              PROVE  g \in Entries("granted", toggle, 0)'
          <6>1. 0 \in 0..Len(trail)
            BY <1>3
          <6>2. QED
            BY <1>5, <6>1
        <5>3. \A g \in 1..Len(trail) :
                g \in 0..Len(trail) /\ g <= new /\ trail'[g] = trail[g]
          BY <1>0, <1>2, <1>3
        <5>4. QED
          BY <5>1, <5>2, <5>3
      <4>6. 0 \in 0..Len(trail)
        BY <1>3
      <4>. HIDE DEF toggle
      <4>7. QED
        BY <3>1, <4>2, <4>4, <4>5, <4>6 DEF AdminAt, toggle
    <3>4. QED
      BY <3>2, <3>3
  <2>2. QED
    BY <2>1 DEF Holds
<1>18. (\A user \in Admins : HeldOrRevoked(<<user, "admin">>, 0))'
  <2>1. ASSUME NEW user \in Admins
        PROVE  HeldOrRevoked(<<user, "admin">>, 0)'
    <3>1. HeldOrRevoked(<<user, "admin">>, 0) /\ <<user, "admin">> \in User \X ROLES
      BY <1>3, TypeFacts, RoleAssumption DEF RoleInv
    <3>2. QED
      BY <3>1, <1>3, <1>4, OnwardHeld
  <2>2. QED
    BY <2>1
<1>19. (\A user \in User : accounts[user] = "open" => HeldOrRevoked(<<user, "applicant">>, 0))'
  <2>1. ASSUME NEW user \in User, accounts[user] = "open"
        PROVE  HeldOrRevoked(<<user, "applicant">>, 0)'
    <3>1. HeldOrRevoked(<<user, "applicant">>, 0) /\ <<user, "applicant">> \in User \X ROLES
      BY <2>1 DEF RoleInv, ROLES
    <3>2. QED
      BY <3>1, <1>3, <1>4, OnwardHeld
  <2>2. QED
    BY <1>2, <2>1
<1>20. ReaderOK'
  <2>1. \A filter : Matching(filter) \subseteq Matching(filter)'
    BY <1>0, <1>2, <1>3 DEF Matching
  <2>2. \A filter : Matching(filter) \in SUBSET Nat
    BY <1>3, MatchingFacts
  <2>3. ASSUME NEW filter
        PROVE  Matching(filter)' \in SUBSET Nat /\ IsFiniteSet(Matching(filter)')
    <3>1. \A id \in Matching(filter)' : id \in Matching(filter) \/ id = x.id
      <4>1. \A m \in 1..new : m \in 1..Len(trail) \/ m = new
        BY <1>0, <1>3
      <4>2. QED
        BY <1>2, <1>3, <4>1 DEF Matching
    <3>2. IsFiniteSet(Matching(filter) \cup {x.id})
      BY <1>3, MatchingFacts, FS_AddElement
    <3>3. Matching(filter)' \subseteq Matching(filter) \cup {x.id}
      BY <3>1
    <3>4. x.id \in Nat
      BY <1>2, <1>3
    <3>5. QED
      BY <2>2, <3>2, <3>3, <3>4, FS_Subset
  <2>4. reader.unread \in SUBSET Nat /\ reader.offset \in Nat /\ PageSize \in Nat /\ reader' = reader
    BY <1>2, <1>3, RoleAssumption DEF Types
  <2>5. ASSUME NEW id \in reader.unread
        PROVE  /\ id \in Matching(reader.filter)'
               /\ Rank(Matching(reader.filter)', id) > reader.offset + PageSize
    <3>1. /\ id \in Matching(reader.filter) /\ id \in Nat
          /\ Rank(Matching(reader.filter), id) > reader.offset + PageSize
      BY <2>4 DEF RoleInv, ReaderOK
    <3>2. PICK ids : ids = Matching(reader.filter)
      OBVIOUS
    <3>3. PICK more : more = Matching(reader.filter)'
      OBVIOUS
    <3>4. /\ ids \in SUBSET Nat /\ more \in SUBSET Nat /\ ids \subseteq more
          /\ IsFiniteSet(more)
      BY <2>1, <2>2, <2>3, <2>4, <3>2, <3>3
    <3>5. Rank(ids, id) <= Rank(more, id) /\ Rank(ids, id) \in Nat /\ Rank(more, id) \in Nat
      BY <3>1, <3>4, RankGrows
    <3>6. QED
      BY <2>1, <2>4, <3>1, <3>2, <3>3, <3>5
  <2>6. QED
    BY <2>4, <2>5 DEF RoleInv, ReaderOK, PagingSkipsNothing
<1>21. QED
  BY <1>11, <1>12, <1>13, <1>14, <1>15, <1>16, <1>17, <1>18, <1>19, <1>20 DEF RoleInv

-----------------------------------------------------------------------------
(* The invariant, and what it gives.                                       *)

LEMMA InitInvariant ==
  ASSUME Init
  PROVE  RoleInv
<1>1. /\ trail = <<>> /\ Len(trail) = 0 /\ DOMAIN trail = {} /\ lastId = 0
      /\ tab = [t \in Tab |-> Closed] /\ reader = NoPage
      /\ accounts = [u \in User |-> IF u \in Admins THEN "open" ELSE "absent"]
  BY DEF Init
<1>2. /\ grants \in [User -> [ROLES -> User \cup {NoOne}]]
      /\ \A user \in Admins : Holds(user, "admin") /\ Holds(user, "applicant")
      /\ \A user \in User, role \in ROLES \ {"applicant"} :
           Holds(user, role) => user \in Admins /\ role = "admin"
  <2>. DEFINE first == CHOOSE admin \in Admins : TRUE
              granter(user, role) ==
                IF user \notin Admins THEN NoOne
                ELSE IF role = "admin" THEN first
                ELSE IF role = "applicant" THEN user ELSE NoOne
  <2>1. first \in Admins
    BY RoleAssumption
  <2>2. grants = [u \in User |-> [role \in ROLES |-> granter(u, role)]]
    BY DEF Init
  <2>. HIDE DEF first
  <2>3. \A u \in User, role \in ROLES : grants[u][role] = granter(u, role)
    BY <2>2
  <2>4. \A u \in User, role \in ROLES : granter(u, role) \in User \cup {NoOne}
    BY <2>1, RoleAssumption
  <2>5. grants \in [User -> [ROLES -> User \cup {NoOne}]]
    BY <2>2, <2>4
  <2>6. "admin" \in ROLES /\ "applicant" \in ROLES
    BY DEF ROLES
  <2>7. QED
    BY <2>1, <2>3, <2>5, <2>6, RoleAssumption DEF Holds
<1>3. Closed \in TabState /\ NoPage \in [open : BOOLEAN, filter : User \cup {NoOne}, offset : Nat,
                                         hasNext : BOOLEAN, unread : SUBSET Nat]
  BY DEF Closed, NoPage, TabState, Replies
<1>4. Types
  BY <1>1, <1>2, <1>3 DEF Types
<1>5. \A op, toggle : \A n \in Nat : Entries(op, toggle, n) = {}
  BY <1>1 DEF Entries
<1>6. TabOK(Closed) /\ Apart(Closed, Closed)
  BY <1>1, <1>5 DEF Closed, TabOK, TabShape, TabSaw, TabWrote, TabRefused, Apart, FoundHeld,
       InTransaction
<1>7. /\ \A t \in Tab : TabOK(tab[t])
      /\ \A t, u \in Tab : Apart(tab[t], tab[u])
  BY <1>1, <1>6
<1>8. /\ \A user \in User, role \in ROLES \ {"applicant"} : Explained(user, role)
      /\ \A user \in User : Holds(user, "admin") => AdminAt(user, Len(trail))
      /\ \A user \in Admins : HeldOrRevoked(<<user, "admin">>, 0)
      /\ \A user \in User : accounts[user] = "open" => HeldOrRevoked(<<user, "applicant">>, 0)
  <2>1. \A user \in User : Holds(user, "admin") => user \in Admins
    BY <1>2 DEF ROLES
  <2>2. QED
    BY <1>1, <1>2, <1>5, <2>1 DEF Explained, AdminAt, HeldOrRevoked
<1>9. ReaderOK
  BY <1>1 DEF NoPage, ReaderOK, PagingSkipsNothing
<1>10. QED
  BY <1>1, <1>4, <1>7, <1>8, <1>9 DEF RoleInv

LEMMA StepInvariant ==
  ASSUME RoleInv, [Next]_vars
  PROVE  RoleInv'
<1>1. ASSUME NEW user \in User, SignUp(user) \/ HookGrants(user) \/ HookFails(user)
      PROVE  RoleInv'
  BY <1>1, SignUpInvariant, HookGrantsInvariant, HookFailsInvariant
<1>2. ASSUME NEW t \in Tab, NEW user \in User, NEW toggle \in Toggles, LoadUsers(t, user, toggle)
      PROVE  RoleInv'
  BY <1>2, LoadUsersInvariant
<1>3. ASSUME NEW t \in Tab, Toggle(t) \/ Lose(t) \/ Receive(t) \/ Authorise(t)
      PROVE  RoleInv'
  BY <1>3, ToggleInvariant, LoseInvariant, ReceiveInvariant, AuthoriseInvariant
<1>4. ASSUME NEW t \in Tab, InsertGrant(t) \/ ReadBack(t) \/ DeleteGrant(t)
      PROVE  RoleInv'
  BY <1>4, InsertGrantInvariant, ReadBackInvariant, DeleteGrantInvariant
<1>5. ASSUME NEW t \in Tab, AppendEntry(t) \/ Commit(t) \/ Abort(t)
      PROVE  RoleInv'
  BY <1>5, AppendEntryInvariant, CommitInvariant, AbortInvariant
<1>6. CASE (\E filter \in Filters : OpenAudit(filter)) \/ NextPage \/ PrevPage
  BY <1>6, ReaderInvariant
<1>7. CASE UNCHANGED vars
  <2>1. accounts' \in [User -> {"absent", "created", "open", "roleless"}]
    BY <1>7 DEF vars, RoleInv, Types
  <2>2. QED
    BY <1>7, <2>1, AccountStep DEF vars
<1>8. QED
  BY <1>1, <1>2, <1>3, <1>4, <1>5, <1>6, <1>7 DEF Next, AtRest

(* RoleInv holds in every reachable state.                                 *)
THEOREM RoleInvariant == Spec => []RoleInv
<1>1. Init => RoleInv
  BY InitInvariant
<1>2. RoleInv /\ [Next]_vars => RoleInv'
  BY StepInvariant
<1>3. QED
  BY <1>1, <1>2, PTL DEF Spec

(* Accounts, roles, the trail and the tabs have their types; the ids of    *)
(* the trail are distinct (lib/auth.ts, user-roles.repo.ts).               *)
THEOREM TypeCorrect == Spec => []TypeOK
<1>1. RoleInv => TypeOK
  <2>1. ASSUME RoleInv, NEW t \in Tab
        PROVE  /\ tab[t].pc \in {"closed", "page", "sent", "answered"} \cup InTransaction
               /\ tab[t].user \in User \cup {NoOne}
               /\ tab[t].loaded \in 0..Len(trail) /\ tab[t].since \in 0..Len(trail)
               /\ tab[t].wrote => tab[t].pc \in {"appending", "committing"}
               /\ tab[t].id \in 0..lastId
               /\ tab[t].reply \in Replies
               /\ tab[t].reply # "none" <=> tab[t].pc = "answered"
    BY <2>1, TabFacts DEF TabState, TabOK, TabShape
  <2>2. QED
    BY <2>1 DEF RoleInv, Types, TypeOK
<1>2. QED
  BY <1>1, RoleInvariant, PTL

(* Whoever changes a role was an admin when the roles of the request were  *)
(* read: the seed's, or by a grant that was written, and not revoked by    *)
(* then (middleware.ts 40-46, admin.service.ts 42-87).                     *)
THEOREM ChangesByAdmins == Spec => []ActorsWereAdmins
<1>1. RoleInv => ActorsWereAdmins
  BY DEF RoleInv, EntryOK, ActorsWereAdmins
<1>2. QED
  BY <1>1, RoleInvariant, PTL

(* A recorded grant that is not held in the end was revoked after its      *)
(* request began, also when the grant only found the row (user-roles.repo  *)
(* .ts 24-44).                                                             *)
THEOREM GrantsAreLostToRevokes == Spec => []LostGrantsRaced
<1>1. RoleInv => LostGrantsRaced
  BY DEF RoleInv, EntryOK, HeldOrRevoked, LostGrantsRaced
<1>2. QED
  BY <1>1, RoleInvariant, PTL

(* Whatever order requests commit in, the trail read by id explains every  *)
(* staff role: the seed's admin, or a grant with a larger id than every    *)
(* revoke (user-roles.repo.ts 24-44, admin.service.ts 42-87).              *)
THEOREM TrailExplainsRoles == Spec => []HeldRolesExplained
<1>1. RoleInv => HeldRolesExplained
  <2>1. ASSUME RoleInv, NEW user \in User, NEW role \in ROLES \ {"applicant"}, Holds(user, role)
        PROVE  LET toggle == <<user, role>>
                   revokes == {trail[m].id : m \in Entries("revoked", toggle, 0)}
               IN \/ revokes = {} /\ user \in Admins /\ role = "admin"
                  \/ \E m \in Entries("granted", toggle, 0) :
                       /\ trail[m].actor = grants[user][role]
                       /\ \A id \in revokes : id < trail[m].id
    <3>1. Explained(user, role)
      BY <2>1 DEF RoleInv
    <3>2. QED
      BY <2>1, <3>1 DEF Explained
  <2>2. QED
    BY <2>1 DEF HeldRolesExplained
<1>2. QED
  BY <1>1, RoleInvariant, PTL

(* A refusal is for a revoke the page had not seen.                        *)
THEOREM RefusalsAreStale == Spec => []RefusedTogglesAreStale
<1>1. RoleInv => RefusedTogglesAreStale
  BY DEF RoleInv, TabOK, TabRefused, RefusedTogglesAreStale
<1>2. QED
  BY <1>1, RoleInvariant, PTL

(* An account that went through its hook and has no role had its applicant *)
(* role revoked (lib/auth.ts, the hook).                                   *)
THEOREM RolelessOnTheRecord == Spec => []RolelessExplained
<1>1. RoleInv => RolelessExplained
  BY DEF RoleInv, HeldOrRevoked, RolelessExplained, ROLES
<1>2. QED
  BY <1>1, RoleInvariant, PTL

(* The audit page that says it is the last has shown every row there was   *)
(* when it was opened (audit.repo.ts 45-50).                               *)
THEOREM PagingReachesAll == Spec => []PagingSkipsNothing
<1>1. RoleInv => PagingSkipsNothing
  BY DEF RoleInv, ReaderOK
<1>2. QED
  BY <1>1, RoleInvariant, PTL

(* The last admin is lost to an own revoke, or to one by somebody who lost *)
(* the role while the request was under way (admin.service.ts 66-87).      *)
THEOREM LockoutsExplained == Spec => []LockoutSelfMadeOrRaced
<1>1. RoleInv => LockoutSelfMadeOrRaced
  <2>. SUFFICES ASSUME RoleInv, NobodyIsAdmin
                PROVE  LET ends == {m \in DOMAIN trail :
                                      trail[m].op = "revoked" /\ trail[m].toggle[2] = "admin"}
                           last == trail[Max(ends)]
                       IN \/ last.actor = last.toggle[1]
                          \/ Entries("revoked", <<last.actor, "admin">>, last.since) # {}
    BY DEF LockoutSelfMadeOrRaced
  <2>. DEFINE ends == {m \in DOMAIN trail :
                         trail[m].op = "revoked" /\ trail[m].toggle[2] = "admin"}
  <2>1. /\ Types /\ Len(trail) \in Nat /\ DOMAIN trail = 1..Len(trail)
        /\ \A m \in 1..Len(trail) : trail[m] \in Entry
    BY TypeFacts DEF RoleInv
  <2>2. PICK user \in Admins : HeldOrRevoked(<<user, "admin">>, 0) /\ user \in User
    BY RoleAssumption DEF RoleInv
  <2>3. Entries("revoked", <<user, "admin">>, 0) # {}
    BY <2>2 DEF HeldOrRevoked, NobodyIsAdmin
  <2>4. ends # {} /\ ends \in SUBSET (0..Len(trail))
    BY <2>1, <2>3 DEF Entries
  <2>. HIDE DEF ends
  <2>5. PICK m \in ends : \A k \in ends : k <= m
    BY <2>1, <2>4, Greatest
  <2>6. Max(ends) \in ends
    BY <2>5 DEF Max
  <2>. USE DEF ends
  <2>7. EntryOK(trail[Max(ends)]) /\ trail[Max(ends)] \in Entry
    BY <2>1, <2>6 DEF RoleInv
  <2>. HIDE DEF ends
  <2>8. Entries("revoked", <<trail[Max(ends)].actor, "admin">>, trail[Max(ends)].since) # {}
    BY <2>7 DEF EntryOK, HeldOrRevoked, NobodyIsAdmin, Entry
  <2>9. QED
    BY <2>8 DEF ends
<1>2. QED
  BY <1>1, RoleInvariant, PTL

(* With nobody left who is an admin and no grant of admin past the role    *)
(* check, no step of anybody makes one: the users page, the toggles and    *)
(* the sign-ups included (middleware.ts 40-46, lib/auth.ts).               *)
LEMMA LockedOutStays ==
  ASSUME RoleInv, [Next]_vars, LockedOut
  PROVE  LockedOut'
<1>1. /\ NobodyIsAdmin
      /\ \A t \in Tab : tab[t].pc \in InTransaction => Revoking(t) \/ tab[t].toggle[2] # "admin"
      /\ \A t \in Tab : tab[t] \in TabState /\ TabOK(tab[t])
      /\ tab \in [Tab -> TabState] /\ "admin" \in ROLES
  BY TabFacts DEF LockedOut, RoleInv, Types, ROLES
<1>2. ASSUME UNCHANGED grants
      PROVE  NobodyIsAdmin'
  BY <1>1, <1>2 DEF NobodyIsAdmin, Holds
<1>3. ASSUME UNCHANGED tab
      PROVE  \A t \in Tab : tab'[t].pc \in InTransaction => tab'[t].has \/ tab'[t].toggle[2] # "admin"
  BY <1>1, <1>3 DEF Revoking
<1>4. ASSUME NEW t \in Tab, NEW x, SetTab(t, x),
             x.pc \in InTransaction =>
               tab[t].pc \in InTransaction /\ x.has = tab[t].has /\ x.toggle = tab[t].toggle
      PROVE  \A u \in Tab : tab'[u].pc \in InTransaction => tab'[u].has \/ tab'[u].toggle[2] # "admin"
  <2>1. tab'[t] = x /\ \A u \in Tab \ {t} : tab'[u] = tab[u]
    BY <1>1, <1>4 DEF SetTab
  <2>2. QED
    BY <1>1, <1>4, <2>1 DEF Revoking
<1>5. ASSUME NobodyIsAdmin',
             \A t \in Tab : tab'[t].pc \in InTransaction => tab'[t].has \/ tab'[t].toggle[2] # "admin"
      PROVE  LockedOut'
  BY <1>5 DEF LockedOut, Revoking
<1>6. ASSUME NEW t \in Tab, NEW reply, Answer(t, reply)
      PROVE  \A u \in Tab : tab'[u].pc \in InTransaction => tab'[u].has \/ tab'[u].toggle[2] # "admin"
  <2>1. Answered(tab[t], reply).pc = "answered" /\ SetTab(t, Answered(tab[t], reply))
    BY <1>1, <1>6 DEF Answered, Answer, TabState
  <2>2. QED
    BY <1>4, <2>1 DEF InTransaction
<1>7. ASSUME NEW user \in User, SignUp(user) \/ HookFails(user)
      PROVE  LockedOut'
  BY <1>2, <1>3, <1>5, <1>7 DEF SignUp, HookFails
<1>8. ASSUME NEW user \in User, HookGrants(user)
      PROVE  LockedOut'
  <2>1. \A u \in User : grants'[u]["admin"] = grants[u]["admin"]
    BY <1>1, <1>8 DEF HookGrants, RoleInv, Types
  <2>2. QED
    BY <1>1, <1>3, <1>5, <1>8, <2>1 DEF HookGrants, NobodyIsAdmin, Holds
<1>9. ASSUME NEW t \in Tab, NEW user \in User, NEW toggle \in Toggles, LoadUsers(t, user, toggle)
      PROVE  LockedOut'
  BY <1>1, <1>9 DEF LoadUsers, NobodyIsAdmin
<1>10. ASSUME NEW t \in Tab, Toggle(t)
       PROVE  LockedOut'
  <2>1. PICK x : x = [tab[t] EXCEPT !.pc = "sent"]
    OBVIOUS
  <2>2. x.pc = "sent" /\ SetTab(t, x) /\ UNCHANGED grants
    BY <1>1, <1>10, <2>1 DEF Toggle, TabState
  <2>3. QED
    BY <1>2, <1>4, <1>5, <2>2 DEF InTransaction
<1>11. ASSUME NEW t \in Tab, Lose(t) \/ Abort(t)
       PROVE  LockedOut'
  BY <1>2, <1>5, <1>6, <1>11 DEF Lose, Abort
<1>12. ASSUME NEW t \in Tab, Receive(t)
       PROVE  LockedOut'
  <2>1. PICK x : x = IF tab[t].reply = "done" THEN PageFor(tab[t].user, tab[t].toggle)
                     ELSE [tab[t] EXCEPT !.pc = "page", !.reply = "none"]
    OBVIOUS
  <2>2. x.pc \in {"page", "closed"}
    BY <1>1, <2>1 DEF PageFor, Closed, TabState
  <2>3. SetTab(t, x) /\ UNCHANGED grants
    BY <1>12, <2>1 DEF Receive
  <2>4. QED
    BY <1>2, <1>4, <1>5, <2>2, <2>3 DEF InTransaction
<1>13. ASSUME NEW t \in Tab, Authorise(t)
       PROVE  LockedOut'
  <2>1. tab[t].user \in User
    BY <1>1, <1>13 DEF Authorise, TabOK, TabShape
  <2>2. Answer(t, "forbidden") /\ UNCHANGED grants
    BY <1>1, <1>13, <2>1 DEF Authorise, NobodyIsAdmin
  <2>3. QED
    BY <1>2, <1>5, <1>6, <2>2
<1>14. ASSUME NEW t \in Tab, InsertGrant(t)
       PROVE  LockedOut'
  <2>1. PICK x : x = IF Holds(tab[t].toggle[1], tab[t].toggle[2])
                     THEN [tab[t] EXCEPT !.pc = "readback"]
                     ELSE [tab[t] EXCEPT !.pc = "appending", !.wrote = TRUE, !.by = tab[t].user]
    OBVIOUS
  <2>2. /\ x.has = tab[t].has /\ x.toggle = tab[t].toggle /\ tab[t].pc \in InTransaction
        /\ SetTab(t, x) /\ UNCHANGED grants
    BY <1>1, <1>14, <2>1 DEF InsertGrant, TabState, InTransaction
  <2>3. QED
    BY <1>2, <1>4, <1>5, <2>2
<1>15. ASSUME NEW t \in Tab, ReadBack(t)
       PROVE  LockedOut'
  <2>1. UNCHANGED grants /\ tab[t].pc \in InTransaction
    BY <1>15 DEF ReadBack, InTransaction
  <2>2. PICK x : x = [tab[t] EXCEPT !.pc = "appending",
                                    !.by = grants[tab[t].toggle[1]][tab[t].toggle[2]]]
    OBVIOUS
  <2>3. x.has = tab[t].has /\ x.toggle = tab[t].toggle
    BY <1>1, <2>2 DEF TabState
  <2>4. SetTab(t, x) \/ Answer(t, "error")
    BY <1>15, <2>2 DEF ReadBack
  <2>5. QED
    BY <1>2, <1>4, <1>5, <1>6, <2>1, <2>3, <2>4
<1>16. ASSUME NEW t \in Tab, DeleteGrant(t)
       PROVE  LockedOut'
  <2>1. UNCHANGED grants /\ tab[t].pc \in InTransaction
    BY <1>16 DEF DeleteGrant, InTransaction
  <2>2. PICK x : x = [tab[t] EXCEPT !.pc = "appending", !.wrote = TRUE]
    OBVIOUS
  <2>3. x.has = tab[t].has /\ x.toggle = tab[t].toggle
    BY <1>1, <2>2 DEF TabState
  <2>4. SetTab(t, x) \/ Answer(t, "not_found")
    BY <1>16, <2>2 DEF DeleteGrant
  <2>5. QED
    BY <1>2, <1>4, <1>5, <1>6, <2>1, <2>3, <2>4
<1>17. ASSUME NEW t \in Tab, AppendEntry(t)
       PROVE  LockedOut'
  <2>1. UNCHANGED grants /\ tab[t].pc \in InTransaction
    BY <1>17 DEF AppendEntry, InTransaction
  <2>2. PICK x : x = [tab[t] EXCEPT !.pc = "committing", !.id = lastId + 1]
    OBVIOUS
  <2>3. x.has = tab[t].has /\ x.toggle = tab[t].toggle /\ SetTab(t, x)
    BY <1>1, <1>17, <2>2 DEF TabState, AppendEntry
  <2>4. QED
    BY <1>2, <1>4, <1>5, <2>1, <2>3
<1>18. ASSUME NEW t \in Tab, Commit(t)
       PROVE  LockedOut'
  <2>1. PICK x : x = tab[t]
    OBVIOUS
  <2>2. x.has \/ x.toggle[2] # "admin"
    BY <1>1, <1>18, <2>1 DEF Commit, Revoking, InTransaction
  <2>3. \A u \in User : grants'[u]["admin"] \in {grants[u]["admin"], NoOne}
    BY <1>1, <1>18, <2>1, <2>2, CommitFacts
  <2>4. NobodyIsAdmin'
    BY <1>1, <2>3 DEF NobodyIsAdmin, Holds
  <2>5. Answer(t, "done")
    BY <1>18 DEF Commit
  <2>6. QED
    BY <1>5, <1>6, <2>4, <2>5
<1>19. CASE (\E filter \in Filters : OpenAudit(filter)) \/ NextPage \/ PrevPage \/ UNCHANGED vars
  <2>1. UNCHANGED <<grants, tab>>
    BY <1>19 DEF OpenAudit, NextPage, PrevPage, ShowPage, vars
  <2>2. QED
    BY <1>2, <1>3, <1>5, <2>1
<1>20. QED
  BY <1>7, <1>8, <1>9, <1>10, <1>11, <1>12, <1>13, <1>14, <1>15, <1>16, <1>17, <1>18, <1>19
     DEF Next, AtRest

(* No page and no sign-up ends a lockout.                                  *)
THEOREM LockoutsLast == Spec => LockoutIsForEver
<1>1. RoleInv /\ [Next]_vars => [LockedOut => LockedOut']_vars
  BY LockedOutStays
<1>2. QED
  BY <1>1, RoleInvariant, PTL DEF Spec, LockoutIsForEver
=============================================================================
