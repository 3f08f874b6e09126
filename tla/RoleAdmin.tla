----------------------------- MODULE RoleAdmin -----------------------------
(***************************************************************************)
(* Role administration: the admin's users page, the requests its toggles   *)
(* send, grantRole and revokeRole statement by statement, the sign-up hook *)
(* that grants a first role, and the audit page that pages through what    *)
(* the changes recorded.                                                   *)
(*                                                                         *)
(* A tab is an open users page looking at one (user, role) toggle.  It     *)
(* shows the state of the toggle when the page was loaded, and the toggle  *)
(* sends a revoke or a grant by what it shows, not by what is in the       *)
(* table.  Every request of the backend loads its actor's roles once, in   *)
(* the middleware, before the transaction that the change runs in.         *)
(*                                                                         *)
(* A row of user_roles has a composite key and no other columns to change: *)
(* a transaction that inserted or deleted it makes the others wait, until  *)
(* it ends, as far as their statement can see the row.                     *)
(*                                                                         *)
(* The trail is the user_role.* part of audit_log in COMMIT order; ids are *)
(* drawn earlier, when the entry is inserted.  That the two orders differ  *)
(* is what the locks of recordAuditEvent leave open (module AuditLog).     *)
(***************************************************************************)
EXTENDS StateMachine, FiniteSets, SequencesExt, IdOrder

CONSTANTS
  User,      \* everybody who has an account or will sign up
  Admins,    \* those who hold admin when the model starts
  NoOne,     \* nobody
  Tab,       \* open users pages
  Toggles,   \* the <<user, role>> toggles the tabs look at
  Filters,   \* users whose audit rows a reader picks; NoOne: all rows
  PageSize,  \* audit rows on a page
  MaxId      \* bound: no toggle is clicked with this many ids drawn

ASSUME RoleAssumption ==
  /\ Admins \subseteq User /\ Admins # {}
  /\ NoOne \notin User
  /\ Toggles \subseteq User \X ROLES
  /\ Filters \subseteq User \cup {NoOne}
  /\ PageSize \in Nat \ {0} /\ MaxId \in Nat

VARIABLES
  accounts,  \* what has become of a user's sign-up
  grants,    \* grants[u][role]: who granted u the role, or NoOne
  trail,     \* the committed entries
  lastId,    \* the last id of audit_log drawn
  tab,       \* tab[t]: the page and the request it has sent
  reader     \* the audit page somebody reads

vars == <<accounts, grants, trail, lastId, tab, reader>>

-----------------------------------------------------------------------------
Holds(user, role) == grants[user][role] # NoOne

NobodyIsAdmin == \A user \in User : ~Holds(user, "admin")

Listed(user) == accounts[user] # "absent"

Closed ==
  [pc |-> "closed", user |-> NoOne, toggle |-> <<NoOne, "applicant">>, has |-> FALSE,
   loaded |-> 0, since |-> 0, wrote |-> FALSE, by |-> NoOne, id |-> 0, reply |-> "none"]

NoPage == [open |-> FALSE, filter |-> NoOne, offset |-> 0, hasNext |-> FALSE, unread |-> {}]

(* An entry, and, as history, whether its transaction changed a row of     *)
(* user_roles and how long the trail was when its actor's roles were read. *)
Entry == [id : 1..lastId, op : {"granted", "revoked"}, actor : User,
          toggle : Toggles, by : User \cup {NoOne}, wrote : BOOLEAN, since : Nat]

InTransaction == {"writing", "readback", "appending", "committing"}

Replies == {"none", "done", "forbidden", "not_found", "error", "failed"}

TypeOK ==
  /\ accounts \in [User -> {"absent", "created", "open", "roleless"}]
  /\ grants \in [User -> [ROLES -> User \cup {NoOne}]]
  /\ trail \in Seq(Entry)
  /\ \A m, n \in DOMAIN trail : trail[m].id = trail[n].id => m = n
  /\ \A t \in Tab :
       /\ tab[t].pc \in {"closed", "page", "sent", "answered"} \cup InTransaction
       /\ tab[t].user \in User \cup {NoOne}
       /\ tab[t].loaded \in 0..Len(trail) /\ tab[t].since \in 0..Len(trail)
       /\ tab[t].wrote => tab[t].pc \in {"appending", "committing"}
       /\ tab[t].id \in 0..lastId
       /\ tab[t].reply \in Replies
       /\ tab[t].reply # "none" <=> tab[t].pc = "answered"

(* The seed's users, each signed up; the seeded admin granted the others.  *)
Init ==
  LET first == CHOOSE admin \in Admins : TRUE
      granter(user, role) ==
        IF user \notin Admins THEN NoOne
        ELSE IF role = "admin" THEN first
        ELSE IF role = "applicant" THEN user ELSE NoOne
  IN /\ accounts = [u \in User |-> IF u \in Admins THEN "open" ELSE "absent"]
     /\ grants = [u \in User |-> [role \in ROLES |-> granter(u, role)]]
     /\ trail = <<>>
     /\ lastId = 0
     /\ tab = [t \in Tab |-> Closed]
     /\ reader = NoPage

(* The entries of the trail about a toggle, after the first n.             *)
Entries(op, toggle, n) ==
  {m \in (n + 1)..Len(trail) : trail[m].op = op /\ trail[m].toggle = toggle}

-----------------------------------------------------------------------------
(* The sign-up, and the database hook that runs after it.                  *)

(* The transaction of another tab that inserted or deleted the row.        *)
KeyBusy(toggle, others) ==
  \E u \in others : tab[u].wrote /\ tab[u].toggle = toggle

(* better-auth inserts the user and its credentials.                       *)
SignUp(user) ==
  /\ accounts[user] = "absent"
  /\ accounts' = [accounts EXCEPT ![user] = "created"]
  /\ UNCHANGED <<grants, trail, lastId, tab, reader>>

(* user.create.after: one INSERT .. ON CONFLICT DO NOTHING, no audit row.  *)
HookGrants(user) ==
  /\ accounts[user] = "created"
  /\ ~KeyBusy(<<user, "applicant">>, Tab)
  /\ accounts' = [accounts EXCEPT ![user] = "open"]
  /\ grants' = [grants EXCEPT ![user]["applicant"] = IF @ = NoOne THEN user ELSE @]
  /\ UNCHANGED <<trail, lastId, tab, reader>>

MutantHookFails(user) ==  \* mutant: the hook's error is swallowed
  /\ accounts[user] = "created"
  /\ accounts' = [accounts EXCEPT ![user] = "open"]
  /\ UNCHANGED <<grants, trail, lastId, tab, reader>>

(* The hook throws, or the process ends: the user row is there already, so *)
(* signing up again is refused and the hook never runs again.              *)
HookFails(user) ==
  /\ accounts[user] = "created"
  /\ accounts' = [accounts EXCEPT ![user] = "roleless"]
  /\ UNCHANGED <<grants, trail, lastId, tab, reader>>

-----------------------------------------------------------------------------
(* The users page.                                                         *)

SetTab(t, state) == tab' = [tab EXCEPT ![t] = state]

MutantPageFor(user, toggle) ==  \* mutant: the viewer's role, not the listed user's
  IF Holds(user, "admin")
  THEN [Closed EXCEPT !.pc = "page", !.user = user, !.toggle = toggle,
                      !.has = Holds(user, toggle[2]), !.loaded = Len(trail)]
  ELSE Closed

(* What load shows user: the layout answers 404 to who is not an admin.    *)
PageFor(user, toggle) ==
  IF Holds(user, "admin")
  THEN [Closed EXCEPT !.pc = "page", !.user = user, !.toggle = toggle,
                      !.has = Holds(toggle[1], toggle[2]), !.loaded = Len(trail)]
  ELSE Closed

LoadUsers(t, user, toggle) ==
  /\ tab[t].pc \in {"closed", "page"}
  /\ Listed(user) /\ Listed(toggle[1])
  /\ Holds(user, "admin")
  /\ SetTab(t, PageFor(user, toggle))
  /\ UNCHANGED <<accounts, grants, trail, lastId, reader>>

(* The toggle's form posts to ?/revoke or ?/grant, and is disabled until   *)
(* the answer is in.                                                       *)
Toggle(t) ==
  /\ tab[t].pc = "page"
  /\ lastId < MaxId
  /\ SetTab(t, [tab[t] EXCEPT !.pc = "sent"])
  /\ UNCHANGED <<accounts, grants, trail, lastId, reader>>

Answer(t, reply) ==
  SetTab(t, [tab[t] EXCEPT !.pc = "answered", !.wrote = FALSE, !.by = NoOne, !.id = 0,
                           !.since = 0, !.reply = reply])

(* The request, or its answer, is lost: the page's server reports the      *)
(* backend unreachable whether the change was made or not.                 *)
Lose(t) ==
  /\ tab[t].pc \in {"sent", "answered"} /\ tab[t].reply # "failed"
  /\ Answer(t, "failed")
  /\ UNCHANGED <<accounts, grants, trail, lastId, reader>>

(* The enhance callback: a success reloads every load of the page, and a   *)
(* failure leaves the page as it was.                                      *)
Receive(t) ==
  /\ tab[t].pc = "answered"
  /\ SetTab(t, IF tab[t].reply = "done" THEN PageFor(tab[t].user, tab[t].toggle)
               ELSE [tab[t] EXCEPT !.pc = "page", !.reply = "none"])
  /\ UNCHANGED <<accounts, grants, trail, lastId, reader>>

-----------------------------------------------------------------------------
(* grantRole and revokeRole.                                               *)

Revoking(t) == tab[t].has

MutantAuthorise(t) ==  \* mutant: requireRole is left off the route
  /\ tab[t].pc = "sent"
  /\ SetTab(t, [tab[t] EXCEPT !.pc = "writing", !.since = Len(trail)])
  /\ UNCHANGED <<accounts, grants, trail, lastId, reader>>

(* sessionMiddleware, loadRoles, requireRole('admin'); the service checks  *)
(* the same loaded roles again.                                            *)
Authorise(t) ==
  /\ tab[t].pc = "sent"
  /\ IF Holds(tab[t].user, "admin")
     THEN SetTab(t, [tab[t] EXCEPT !.pc = "writing", !.since = Len(trail)])
     ELSE Answer(t, "forbidden")
  /\ UNCHANGED <<accounts, grants, trail, lastId, reader>>

(* grant's INSERT .. ON CONFLICT DO NOTHING.  findById before it finds the *)
(* user: the page listed it, and no account is ever deleted.               *)
InsertGrant(t) ==
  /\ tab[t].pc = "writing" /\ ~Revoking(t)
  /\ ~KeyBusy(tab[t].toggle, Tab \ {t})
  /\ SetTab(t, IF Holds(tab[t].toggle[1], tab[t].toggle[2])
               THEN [tab[t] EXCEPT !.pc = "readback"]
               ELSE [tab[t] EXCEPT !.pc = "appending", !.wrote = TRUE, !.by = tab[t].user])
  /\ UNCHANGED <<accounts, grants, trail, lastId, reader>>

(* Its SELECT of the row that was in the way.                              *)
ReadBack(t) ==
  LET granter == grants[tab[t].toggle[1]][tab[t].toggle[2]]
  IN /\ tab[t].pc = "readback"
     /\ IF granter # NoOne
        THEN SetTab(t, [tab[t] EXCEPT !.pc = "appending", !.by = granter])
        ELSE Answer(t, "error")
     /\ UNCHANGED <<accounts, grants, trail, lastId, reader>>

(* revoke's DELETE.  It waits for another one of the row, and does not see *)
(* one that is inserted but not committed.  A DELETE that has waited looks *)
(* at the row it had found, which is gone when the other one committed,    *)
(* also if the key has been inserted again since.                          *)
DeleteGrant(t) ==
  LET toggle == tab[t].toggle
      waits == KeyBusy(toggle, {u \in Tab \ {t} : Revoking(u)})
  IN /\ tab[t].pc = "writing" /\ Revoking(t)
     /\ \/ /\ ~waits /\ Holds(toggle[1], toggle[2])
           /\ SetTab(t, [tab[t] EXCEPT !.pc = "appending", !.wrote = TRUE])
        \/ /\ ~waits /\ ~Holds(toggle[1], toggle[2])
           /\ Answer(t, "not_found")
        \/ /\ Entries("revoked", toggle, tab[t].since) # {}
           /\ Answer(t, "not_found")
     /\ UNCHANGED <<accounts, grants, trail, lastId, reader>>

MutantAppendEntry(t) ==  \* mutant: the next id is computed from the rows it sees
  /\ tab[t].pc = "appending"
  /\ lastId' = Len(trail) + 1
  /\ SetTab(t, [tab[t] EXCEPT !.pc = "committing", !.id = Len(trail) + 1])
  /\ UNCHANGED <<accounts, grants, trail, reader>>

(* recordAuditEvent in the same transaction.                               *)
AppendEntry(t) ==
  /\ tab[t].pc = "appending"
  /\ lastId' = lastId + 1
  /\ SetTab(t, [tab[t] EXCEPT !.pc = "committing", !.id = lastId + 1])
  /\ UNCHANGED <<accounts, grants, trail, reader>>

MutantEntryOf(t) ==  \* mutant: a revoke recorded as a grant
  [id |-> tab[t].id, op |-> "granted", actor |-> tab[t].user, toggle |-> tab[t].toggle,
   by |-> tab[t].by, wrote |-> tab[t].wrote, since |-> tab[t].since]

EntryOf(t) ==
  [id |-> tab[t].id, op |-> IF Revoking(t) THEN "revoked" ELSE "granted",
   actor |-> tab[t].user, toggle |-> tab[t].toggle, by |-> tab[t].by,
   wrote |-> tab[t].wrote, since |-> tab[t].since]

Granted(t) == IF Revoking(t) THEN NoOne ELSE tab[t].by

MutantCommit(t) ==  \* mutant: a grant in the way is granted anew
  /\ tab[t].pc = "committing"
  /\ grants' = [grants EXCEPT ![tab[t].toggle[1]][tab[t].toggle[2]] = Granted(t)]
  /\ trail' = Append(trail, EntryOf(t))
  /\ Answer(t, "done")
  /\ UNCHANGED <<accounts, lastId, reader>>

(* COMMIT: the entry, with the change when there was one.                  *)
Commit(t) ==
  /\ tab[t].pc = "committing"
  /\ grants' = IF tab[t].wrote
               THEN [grants EXCEPT ![tab[t].toggle[1]][tab[t].toggle[2]] = Granted(t)]
               ELSE grants
  /\ trail' = Append(trail, EntryOf(t))
  /\ Answer(t, "done")
  /\ UNCHANGED <<accounts, lastId, reader>>

(* ROLLBACK after a failure of the database or of its connection: a 500.   *)
Abort(t) ==
  /\ tab[t].pc \in InTransaction
  /\ Answer(t, "failed")
  /\ UNCHANGED <<accounts, grants, trail, lastId, reader>>

-----------------------------------------------------------------------------
(* The audit page: rows in id order, filtered, one page at an offset.      *)

Matching(filter) ==
  {trail[n].id : n \in {n \in DOMAIN trail : filter \in {NoOne, trail[n].toggle[1]}}}

RowsAt(filter, offset) ==
  LET rows == InIdOrder(Matching(filter))
  IN SubSeq(rows, offset + 1, Min({offset + PageSize, Len(rows)}))

MutantHasNext(rows) == Len(rows) > PageSize  \* mutant: off by one

HasNext(rows) == Len(rows) = PageSize

(* unread are the rows there were on opening that have not been shown yet. *)
ShowPage(filter, offset, unread) ==
  LET rows == RowsAt(filter, offset)
  IN /\ \E user \in User : Holds(user, "admin")
     /\ reader' = [open |-> TRUE, filter |-> filter, offset |-> offset,
                   hasNext |-> HasNext(rows), unread |-> unread \ ToSet(rows)]
     /\ UNCHANGED <<accounts, grants, trail, lastId, tab>>

(* Bound: nobody opens an empty log.                                       *)
OpenAudit(filter) ==
  /\ ~reader.open /\ Matching(filter) # {}
  /\ ShowPage(filter, 0, Matching(filter))

NextPage ==
  /\ reader.hasNext
  /\ ShowPage(reader.filter, reader.offset + PageSize, reader.unread)

PrevPage ==
  /\ reader.offset > 0
  /\ ShowPage(reader.filter, reader.offset - PageSize, reader.unread)

-----------------------------------------------------------------------------
(* Nobody is left who may act, or every id of the bound is drawn.          *)
AtRest ==
  /\ NobodyIsAdmin \/ lastId >= MaxId
  /\ \A t \in Tab : tab[t].pc \in {"closed", "page"}
  /\ UNCHANGED vars

Next ==
  \/ \E user \in User : SignUp(user) \/ HookGrants(user) \/ HookFails(user)
  \/ \E t \in Tab :
       \/ \E user \in User, toggle \in Toggles : LoadUsers(t, user, toggle)
       \/ Toggle(t) \/ Lose(t) \/ Receive(t)
       \/ Authorise(t) \/ InsertGrant(t) \/ ReadBack(t) \/ DeleteGrant(t)
       \/ AppendEntry(t) \/ Commit(t) \/ Abort(t)
  \/ \E filter \in Filters : OpenAudit(filter)
  \/ NextPage \/ PrevPage
  \/ AtRest

Spec == Init /\ [][Next]_vars

-----------------------------------------------------------------------------
(* A staff role that somebody holds is one the trail explains: by a grant  *)
(* of whom user_roles names, with a larger id than every revoke, so that   *)
(* an auditor who reads the log by id comes to the same answer as the      *)
(* table.  Requests on one key may overlap in any way (user-roles.repo.ts  *)
(* 24-44, admin.service.ts 42-87).                                         *)
HeldRolesExplained ==
  \A user \in User, role \in ROLES \ {"applicant"} :
    LET toggle == <<user, role>>
        revokes == {trail[m].id : m \in Entries("revoked", toggle, 0)}
    IN Holds(user, role) =>
         \/ revokes = {} /\ user \in Admins /\ role = "admin"
         \/ \E m \in Entries("granted", toggle, 0) :
              /\ trail[m].actor = grants[user][role]
              /\ \A id \in revokes : id < trail[m].id

(* A grant is answered 204 and recorded, also when the role was held       *)
(* already.  If the role is not held in the end, then somebody revoked it  *)
(* after the granting request began.                                       *)
LostGrantsRaced ==
  \A m \in DOMAIN trail :
    LET toggle == trail[m].toggle
    IN (trail[m].op = "granted" /\ ~Holds(toggle[1], toggle[2])) =>
         Entries("revoked", toggle, trail[m].since) # {}

(* The first n changes that were committed left user an admin: the seed's, *)
(* or by a grant that was written, and not revoked by them.                *)
AdminAt(user, n) ==
  LET admin == <<user, "admin">>
      lost(m) == \E k \in Entries("revoked", admin, m) : k <= n
  IN \/ user \in Admins /\ ~lost(0)
     \/ \E g \in Entries("granted", admin, 0) : g <= n /\ trail[g].wrote /\ ~lost(g)

(* Whoever changed a role was an admin when the roles of the request were  *)
(* read, which is before the change and not again: a change by somebody    *)
(* who is no admin overlapped a revoke (middleware.ts 40-46).              *)
ActorsWereAdmins ==
  \A m \in DOMAIN trail : AdminAt(trail[m].actor, trail[m].since)

(* Nothing keeps the last admin: the users page says "an admin can't       *)
(* revoke their own last admin role".  But with nobody left, the last      *)
(* revoke was of oneself, or by somebody who had lost the role itself      *)
(* while the request was under way.                                        *)
LockoutSelfMadeOrRaced ==
  NobodyIsAdmin =>
    LET ends == {m \in DOMAIN trail :
                   trail[m].op = "revoked" /\ trail[m].toggle[2] = "admin"}
        last == trail[Max(ends)]
    IN \/ last.actor = last.toggle[1]
       \/ Entries("revoked", <<last.actor, "admin">>, last.since) # {}

(* No request that could make an admin is past the role check.             *)
LockedOut ==
  /\ NobodyIsAdmin
  /\ \A t \in Tab : tab[t].pc \in InTransaction => Revoking(t) \/ tab[t].toggle[2] # "admin"

(* With the last admin gone and no grant of admin under way, no page and   *)
(* no sign-up makes another one.                                           *)
LockoutIsForEver == [][LockedOut => LockedOut']_vars

(* A toggle is refused only for a change the page had not seen: a revoke   *)
(* of the toggled role for "not found" and for the grant that finds its    *)
(* row gone, a revoke of the clicking admin for "forbidden".  (It may be   *)
(* the tab's own revoke, whose answer was lost.)                           *)
RefusedTogglesAreStale ==
  \A t \in Tab :
    /\ tab[t].reply \in {"not_found", "error"} =>
         Entries("revoked", tab[t].toggle, tab[t].loaded) # {}
    /\ tab[t].reply = "forbidden" =>
         Entries("revoked", <<tab[t].user, "admin">>, tab[t].loaded) # {}

(* An account without a single role: its sign-up is under way, its hook    *)
(* failed, or an admin took the role away on the record.                   *)
RolelessExplained ==
  \A user \in User :
    (accounts[user] = "open" /\ \A role \in ROLES : ~Holds(user, role)) =>
      Entries("revoked", <<user, "applicant">>, 0) # {}

(* Reading to the last page shows every row that was committed when the    *)
(* first page was opened, whatever is committed in between, also with a    *)
(* smaller id than the rows already read (audit.repo.ts 45-50).            *)
PagingSkipsNothing ==
  ~reader.hasNext => reader.unread = {}
=============================================================================
