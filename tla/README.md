# A TLA+ model of the BNR Licensing Portal

The repository is a licensing workflow: applicants file applications, reviewers
review them, approvers decide, admins grant roles and verify the audit log. A
Bun/Hono backend on PostgreSQL keeps all state; a SvelteKit frontend calls it
server-side. Paths below are relative to `src/`.

What makes it hard is not the state machine (ten edges, unit-tested) but what
surrounds it: every mutation reads a row, decides, and writes in a later SQL
statement, next to other requests doing the same; every mutation also appends to
one global hash chain; and uploads touch a file system no transaction covers.

## Inventory

| Component | Code | State | Operations | Hard behaviour | Correct means |
|---|---|---|---|---|---|
| State machine | `shared/src/domain/state-machine.ts` | none (pure) | `transition`, `findEdge`, `pickActorRole` | role fallback, order of the checks | one edge per (status, event); dual control on decisions |
| Applications service | `backend/src/services/applications.service.ts`, `repositories/applications.repo.ts` | `applications`, `review_notes`, `audit_log` rows | `createDraft`, `updateDraft`, `applyTransition` | read, decide, write in three statements; optimistic lock; a version that edits do not bump | the audit trail is a run of the state machine and the row is its last state |
| Database belts | `backend/src/db/schema.ts`, `migrations/sql/post/0003_triggers.sql` | constraints | CHECKs, terminal trigger | a refused write is a 500 | never needed |
| Audit append | `backend/src/db/audit-hash.ts`, `0002_grants.sql` | `audit_log` | `recordAuditEvent` | tail chosen from a snapshot, then locked; empty table; two appends in one transaction; two DB roles | one chain, no dangling predecessor, no deadlock |
| Chain verifier | `backend/src/services/admin.service.ts` `verifyChain`, `frontend/src/routes/admin/audit/verify` | none | walk by id | ids and commits in different orders; truncation | true alarms only, no missed tampering |
| Documents | `backend/src/services/documents.service.ts`, `storage/index.ts` | `documents`, `document_blobs`, files | `upload`, `openDownload` | stream, upsert, rename, supersede, commit; crash between any two; same slot or same bytes at once; a submit in between | versions of a slot contiguous, the newest current; a file for every blob row |
| Review notes | `backend/src/services/review-notes.service.ts` | `review_notes` | `create`, list | visibility; role at the time of writing | applicants never see staff notes |
| Role administration | `admin.service.ts`, `user-roles.repo.ts`, `auth/index.ts`, `frontend/src/routes/admin/users`, `admin/audit` | `user_roles` | `grantRole`, `revokeRole`, sign-up hook | roles loaded before the transaction; last admin; grant against revoke; lost answers; paging a growing log | audited grants explain the roles held |
| Sessions, policy | `auth/middleware.ts`, `auth/policy.ts` | sessions (better-auth) | `loadRoles`, `canEditDraft`, ... | stale roles | - |
| Portal | `frontend/src/hooks.server.ts`, `routes/+page.svelte`, `routes/applications`, `applications/[id]`, `.../edit`, `applications/new` | page data, compose form, advanced panel | `load`, form actions | the page is older than the row; lists older or newer than the row beside them; a form that drops what it does not show; limits | a decision is about the row the user saw; nobody's work is out of sight |
| Admin dashboard | `frontend/src/routes/admin` | page data | `load` | counts over a cut-off list | its numbers agree with the queues |
| Seed, migrations, logging, env, other UI components | `backend/src/db/seed.ts`, ... | - | - | none that a model reaches | - |

Services call repositories inside `db.transaction`; the only shared state is the
database (and the storage directory). Requests meet in row locks (an application,
the audit tail, a document slot, a blob, a role grant), never in memory.

## Modules

| Module | Models | Depends on |
|---|---|---|
| `StateMachine` | `state-machine.ts`: the edge table as records, `FindEdge`, `PickActorRole`, and `transition()` as `TransitionVerdict` / `EdgeVerdict` (its checks in the source's order) | - |
| `Workflow` | the applications service and its tables | `StateMachine` |
| `Lifecycle` | abstract specification: people take turns on a case, each step is recorded; no requests, no transactions | `StateMachine` |
| `MCWorkflow` | small instances of `Workflow` | `Workflow` |
| `Workflow_proofs` | theorems about `Workflow` | `Workflow`, TLAPS |
| `IdOrder` | pure: what ORDER BY id makes of a set of ids | - |
| `ChainVerifier` | pure: hashes, `verifyChain`, the verifier page, and what a change by hand makes of a log | - |
| `AuditLog` | `recordAuditEvent` and the transactions around it, by row id; its committed rows given to the verifier | `ChainVerifier`, `IdOrder` |
| `RoleAdmin` | grant, revoke, sign-up hook, users page, audit page | `StateMachine` (role names), `IdOrder` |
| `MCRoleAdmin` | a small instance of `RoleAdmin` | `RoleAdmin` |
| `Pages` | pure: what the application, home, list and dashboard pages compute from rows and roles | `StateMachine` |
| `Portal` | one browser tab against a backend that others change | `Pages` |
| `MCPortal` | a small instance of `Portal` | `Portal` |
| `Documents` | uploads and downloads of one application, the blob registry and the storage directory | `StateMachine` |
| `Documents_proofs` | theorems about `Documents` | `Documents`, TLAPS |
| `IdOrder_proofs` | lemmas: finite sets of ids, ranks, the row at a position | `IdOrder`, TLAPS |
| `ChainVerifier_proofs` | the theorem about altered logs | `ChainVerifier`, `IdOrder_proofs` |
| `AuditLog_proofs` | theorems about `AuditLog` | `AuditLog`, `ChainVerifier_proofs` |
| `RoleAdmin_proofs` | theorems about `RoleAdmin` | `RoleAdmin`, `IdOrder_proofs` |
| `Pages_proofs` | lemmas: which rows a list with a limit keeps, who can act on what | `Pages`, `IdOrder_proofs` |
| `Portal_proofs` | theorems about `Portal` | `Portal`, `Pages_proofs` |

### Workflow

A request slot `req[r]` runs one transaction; a step is one SQL statement (with the
pure code before the next `await`), COMMIT or rollback.

| Code | Action |
|---|---|
| `createDraft`: INSERT | `CreateDraft` |
| `applyTransition`: `findById`, `transition()` and its 403/404/409/422 | `FindForTransition` |
| `updateDraft`: `findById`, `canEditDraft`, status check | `FindForEdit` |
| `transitionWithVersion`, `repo.updateDraft`: the UPDATE that matches | `TransitionWithVersion`, `UpdateDraft` |
| the UPDATE that matches nothing: `ConcurrentUpdateError` | `LoseRace` |
| the note of `request_info` and its audit row | `InsertRfiNote` |
| `audit.append` | `AppendAudit` |
| COMMIT, or an error anywhere | `Commit`, `Abort` |

`apps`, `trail` and `notes` are what is committed. An UPDATE waits while another
transaction holds the row (`Locked`), and evaluates its WHERE on what is then
committed (`StillMatches`): READ COMMITTED's re-check. CHECK constraints and the
terminal trigger are `DbRefuses`, in every UPDATE. Institution name, type and
payload are one number, `content`, that an edit increases; the ten columns
`transition()` writes are kept, `decision_reason` is not (`Portal` has it). An audit entry
carries the whole row before and after: `snapshotApplication` has every column the model
compares except the payload, so an entry's `content` stands for name and type, and what
it says of the payload beyond them is history, which no reader of `audit_log` has. A duplicate or retried
request is simply a second request: the API takes no idempotency key and no
version from the client.

### AuditLog

The same transactions seen from `audit_log`: a domain write that may wait for a row
(`Write`), then one append or two. `SELECT .. FOR UPDATE` is two steps, because that
is what PostgreSQL does: the snapshot picks the last committed row (`SelectTail`),
then the lock is awaited (`LockTail`); a holder that released the row unchanged
leaves nothing to re-check, so the waiter keeps the row it picked. An empty table
locks nothing. `prev[id]` is the row whose hash row `id` carries. `Owner` is the set
of connections that may lock audit rows; for `app_user`'s connections the SELECT
fails (`SelectDenied`).

### ChainVerifier

SHA-256 with the pepper (`AUDIT_HASH_SECRET`) is one-way and collision-free, so a hash *is* the sequence of
entries from genesis to the row (`HashOf`); an entry is everything the payload covers,
which leaves out the id. `RowFault` is one turn of the loop with its two comparisons in
order, `VerifyChain` the result with its five fields, `VerifyPage` the page's hero and
figures. `AuditLog!CommittedRows` turns any state of `AuditLog` into the rows that
`listAllOrdered` returns; `AlteredLogs` is every log that one change by hand leaves:
rows cut off, removed, exchanged, repeated, rewritten, hashes copied from other rows.
`Located` is what the page owes its reader about any of them: it calls only a prefix of
what was written verified, and else names the first row that was not written there.
The module is about a server that has the pepper, as design.md:113 takes for granted. It is
optional (`env.ts:16`, `audit-hash.ts:84`): without it, whoever can write rows can also
compute their hashes, and nothing here says that such a change is located.

### RoleAdmin

| Code | Action |
|---|---|
| `POST /sign-up/email`, then `user.create.after` | `SignUp`, then `HookGrants` or `HookFails` |
| `/admin/users` `load`; its toggles | `LoadUsers`; `Toggle` |
| the enhance callback; an answer or a request lost | `Receive`; `Lose` |
| `sessionMiddleware`, `loadRoles`, `requireRole` | `Authorise` |
| `userRoles.grant`: INSERT .. ON CONFLICT, the SELECT after a conflict | `InsertGrant`, `ReadBack` |
| `userRoles.revoke`: DELETE | `DeleteGrant` |
| `audit.append`, COMMIT, an error anywhere | `AppendEntry`, `Commit`, `Abort` |
| `/admin/audit`: open, Next, Prev | `OpenAudit`, `NextPage`, `PrevPage` |

A tab looks at one (user, role) toggle and sends a grant or a revoke by what the page
*shows*. `grants[u][role]` is the row of `user_roles` (who granted it). Statements on
one key wait as PostgreSQL makes them wait (`KeyBusy`): an INSERT for any uncommitted
INSERT or DELETE of the key, a DELETE only for another DELETE, since it does not see an
uncommitted row; and a DELETE that has waited answers `not_found`, also when the key was
inserted again meanwhile, because it looks at the row it had found. `trail` holds the `user_role.*` entries in COMMIT order, each with its
id, drawn earlier, and with `since`, how much of the trail was committed when its request
was authorised, and `wrote`, whether the grant found no row in its way (both history, for
the properties): a grant of a role that is held is recorded and changes nothing.

### Portal and Pages

| Code | Action |
|---|---|
| `[id]/+page.server.ts` `load`: hook and row; the three lists | `LoadRow`, `LoadFails`; `LoadLists`, `ListsFail` |
| buttons without a form; buttons with one | `Click`; `StartCompose`, `CancelCompose`, `Confirm` |
| note form, upload form | `PostNote`, `UploadFile` |
| Edit and its `load`; new | `OpenEdit`; `OpenNew` |
| the edit page's script and its `$effect`; advanced panel, its textarea | `RunScript`; `TogglePanel`, `Type` |
| `splitInitial` and validation; `Save changes`, `Create draft` | `Invalid`; `SaveChanges`, `CreateDraft` |
| the action's call and its answer | `Succeed`, `Refuse`, `LoseAnswer` |
| everybody else | `OthersCreate`, `OthersAct`, `ChangeRoles` |

`tab.shown` is what the page displays and `tab.next` a load under way; during a reload the
old rows and buttons stay. The compose form is opened by a button and stays open across
reloads: `tab.composing` keeps the row whose button it was, and `tab.sent` both that row
(`offer`) and the row the page showed when the form was confirmed (`from`); for a button
without a form they are the same. `allowedEvents` asks `TransitionVerdict`, as the page asks the
shared `transition()`. A row keeps what the pages tell apart: status, version, reviewer,
which transition gave the reason in `decision_reason`, which of two keys the forms have no
field for its payload holds (one of its own, which the advanced panel shows, and one inside
`contact`, which nothing shows), how often it was edited and how often information was
requested. The API takes a reason with any event (`Requests`); the portal's forms send one
with a decision only (`Reasons`). The edit form arrives with its panel closed; `RunScript`
is the hydration whose effect opens it, and the form may be sent before or without it. The
history card gets the oldest rows up to the endpoint's limit (`ListForResource`).

Abstractions: a backend request is one step (interleaved statements are `Workflow`,
`Documents` and `RoleAdmin`), executed when its answer is decided, a later answer being a
later load; one request at a time per tab, with its form left alone meanwhile; the three
lists load or fail together (each card is compared with the row on its own, so a single
failure shows less); a new draft of others always holds both unknown keys; creating asks for
the applicant role, as the portal does (the API asks for none). Only the edit and new forms
can be used without their script; the application page is modelled with it.

### Documents

| Code | Action |
|---|---|
| `streamToTemp`: file created, body read, refused or complete | `StreamToTemp`, `StreamDone`, `StreamRefused` |
| `upload`: `findById`, owner, status | `CheckApplication` |
| `documentBlobs.upsert` | `UpsertBlob` |
| `commitTempToFinal` or `discardTemp` | `PlaceFile` |
| `supersedeCurrentSlot`: the UPDATE's snapshot, its effect | `FindCurrentSlot`, `SupersedeCurrentSlot` |
| `nextVersionForSlot`, `documents.insert`, `audit.append` | `NextVersionForSlot`, `InsertDocument`, `AppendAudit` |
| COMMIT, or an error anywhere, then the catch block | `Commit`, `Abort`, `CleanUp` |
| `openDownload`, then `createReadStream` in the route | `OpenDownload`, `StreamDownload` |
| the server process dies | `Crash` |
| somebody's transition of the application | `MoveApplication` |

`docs`, `blobs` and `files` are what is committed and what is at its final path;
a request's own uncommitted rows are in `req[r]`. The application is its `phase`:
editable by the applicant, with staff, or closed. PostgreSQL's waits are named for
what is waited for: `InsertedBlob` and `InsertedVersion` (a key inserted but not
committed), `LockedRow` (a row an UPDATE changed). The UPDATE of the supersede is two
steps because it picks its rows before it waits. A file moved or deleted stays so when
the transaction rolls back, and a crash takes nothing back that was moved: the process
dies, not the machine (nothing is fsynced, so a power loss is another matter).
A temporary file left by a crash is forgotten by `temps`: names are random and never
used again, so nobody meets it, and nobody removes it either.

## Runs

| Run | Shows |
|---|---|
| `race` (`WorkflowRace.cfg`) | two requests, three people, every interleaving: the trail is a legal run ending in the row as it stands (`TrailIsLegalRun`), version counts its transitions and every commit was on the version it had read (`VersionCountsTransitions`), decider and last assignee differ in row and trail, RFI notes and transitions come together, terminal rows freeze, the database belts stay unused; and `IInv`, the invariant the proofs use |
| `live` (`WorkflowLive.cfg`) | every request is answered; `Workflow` implements `Lifecycle` |
| `log` (`AuditLogConcurrent.cfg`) | concurrent appends from an empty log: no dangling predecessor, no fork wider than the pool, locks taken in ascending order (so no deadlock), every transaction ends; the verifier raises an alarm exactly when two appends forked (`AlarmMeansFork`), and of a log that verified it accepts exactly its truncations and locates any other change by hand at its first false row (`AlterationsLocated`) |
| `roles` (`RoleAdminRace.cfg`) | two users pages toggling against each other: the log read by id and the table name the same holder and granter (`HeldRolesExplained`); a recorded grant whose role is gone was revoked during or after its request (`LostGrantsRaced`); every actor, also of an entry that changed nothing, was an admin when the request was authorised, from the seed or by an effective grant not revoked since (`ActorsWereAdmins`); how the last admin can disappear, and that it is for ever (`LockoutSelfMadeOrRaced`, `LockoutIsForEver`); a refused toggle was stale (`RefusedTogglesAreStale`); an account without roles has an explanation (`RolelessExplained`); paging to the end skips no row (`PagingSkipsNothing`) |
| `portal` (`Portal.cfg`) | a decision is about the row the page showed, though the click carries no version (`DecisionOnWhatWasShown`); any other click on an old page takes effect only as a withdrawal, or after a whole RFI round since its button was offered (`StaleClickMeansRfiRound`); cards are not older than the row, but for a history over its limit (`CardsCoverRow`); a save drops the advanced key only if the user saw or caused it, or the form was sent without its script (`KeysLostUnseen`); a decision has its own reason or none, whatever reasons came with other events, and a page that shows a decision shows what stays (`DecisionReasonStands`); the home page, lists, dashboard and buttons agree for every set of roles, up to the limits (`QueuesComplete`) |
| `documents` (`DocumentsRace.cfg`) | two requests on a slot, same or different bytes, rollbacks, crashes, transitions underneath: versions contiguous, the newest document current, every committed document downloadable, temporary files accounted for, every upload whose body arrived and every download answered; and `IInv` |
| `lost_edit`, `past_reviewer`, `log_fork`, `log_app_user`, `two_current`, `late_upload` | six statements of the documentation the code does not keep (below) |

`TypeOK` apart, each property takes several steps of several requests to break, and
each has a mutant: a bug in one mapped definition (`Mutant...`, next to the definition
it replaces) that the run's own configuration catches.

### Where the code and its documentation disagree

- **`log_fork`**: design.md says the append's FOR UPDATE makes forks impossible. Two
  appends that overlap read the same tail; the second waits, then extends the *old*
  tail. `verifyChain` reports `prev_hash_mismatch` on an untouched log.
- **`log_app_user`**: FOR UPDATE needs UPDATE on `audit_log`, which `0002_grants.sql`
  revokes from the documented runtime role. The tests run as superuser.
- **`lost_edit`**: edits do not bump `version`, so two edits that read the same row
  both succeed and the first disappears; the PATCH documents a 409.
- **`past_reviewer`**: dual control looks at the last assignee only. An admin who
  requested information or marked ready on somebody else's assignment may decide.
- **`two_current`**: an upload supersedes what was current before another one
  committed, and computes its version after: both documents stay current, though
  "re-uploads supersede". The newest is always current (`NewestIsCurrent`, proved).
- **`late_upload`**: the status check takes no lock, so a document can be committed
  after the submit, while staff review the application.

Further statements that the code does not keep, which the runs' properties describe as
the code has them:

- users/+page.svelte:311 "an admin can't revoke their own last admin role": nothing
  prevents it, and then nobody can grant it back (`LockoutIsForEver`). Line 312 names
  `user.role_granted`, the code writes `user_role.granted`; the tones at
  audit/+page.svelte:27-36 never match for the same reason.
- edit/+page.server.ts:13-14 "Anything else in the payload is preserved": a textarea is
  only sent while its panel is open, and only the page's script opens it
  (edit/+page.svelte:102-104), so a panel that is closed again, or a form sent before
  hydration or without a script, drops the keys in it; and `contact` is taken apart and put
  together from three fields (40-67, 188-201), so any save drops every other key inside it
  (`KeysLostUnseen`).
- [id]/+page.svelte:767 "Every audited event for this application.": the endpoint returns
  the *oldest* 200 rows (`audit.repo.ts:18-29`), and edits are unlimited; past 200 the card
  lacks the latest events, and shows no error (`CardsCoverRow`).
- schema.ts calls the column `decision_reason`, and the API stores the reason of any event
  in it: a submit with a reason leaves one on an undecided application, and the page shows
  it. A decision overwrites it, with NULL if it brings none (`DecisionReasonStands`).
- design.md:113 says that nobody can rebuild the chain without the pepper; a server without
  one starts all the same (`env.ts:16`).
- design.md:113 says a truncation flips `prev_hash`: rows cut off the end verify
  (`AlterationsLocated`). The hashes do not cover ids.
- verify/+page.svelte says "after `rowsChecked` good rows", which is the number of all
  rows, and links to a bad row by putting its id where a resource id goes.
- The admin pages speak of "every application" and load at most 200.
- design.md:66 and 138 let an admin perform any transition; `ownerOnly` refuses.
- design.md:28 lists a partial unique index for "one open application per applicant"; there is none.
- `disabledAt` is shown and filtered by, and nothing sets it.

### Bounds

`race`: one application (nothing in the code relates two), two request slots,
`MaxVersion = 7` (submit, assign, request_info, resubmit, assign, mark_ready, decide:
a whole RFI loop with reassignment and a decision), `MaxContent = 1` edit. `ann` is
an applicant, `bob` reviewer and approver (grants are independent), `adam` an admin:
both staff can take every staff edge, so dual control is all that separates them, and
an admin can meet `not_owner`. Two slots suffice for what the guards compare (a
request with the committed row); the theorems drop the bound. `live`:
`MaxVersion = 4`, which reaches RFI and READY_FOR_DECISION. `log`: two appending
connections and a denied one, one contended resource, up to two appends each, ids
drawn until `MaxRow = 2` has been passed (six rows at most); rollbacks anywhere.
`roles`: an admin and a user who signs up, three toggles (admin of either, so each can
revoke the other or itself, and the applicant role the hook grants), two tabs, no click
once `MaxId = 2` ids are drawn (requests under way may draw more), pages of two rows
(a full page, and one beyond it); rollbacks and lost answers anywhere. `portal`: an
applicant, a reviewer who approves too and may lose the reviewer role, an admin;
`MaxMoves = 7`, of which an application is two and a transition one, and below which a
transition starts: one application makes five, which reaches a decision, and an RFI round
back to UNDER_REVIEW, and two make three between them;
`MaxExtras = 1` edits, notes, uploads and further applications (so one edit, or a second
application, together with any transitions), and no form is sent that would exceed it;
`HistoryLimit = 3` instead of 200, so that histories stay within it, reach it and exceed it;
`Others`, the requests that come from elsewhere, leaves out saves that write one of the two
keys only, and reasons with other events than a submit, which no form of the portal sends
(the tab's own decisions come with and without). Five transitions do not reach everything: with six, the
form of `request_info` can survive a reload that shows another status and be confirmed after
a whole round. The theorems below hold for every bound.
The limits 6, 100 and 200 of the pages become one or two, in four combinations: all
fits, the inbox is cut off, the home page is, everything is.
`documents`: two request slots, one slot (nothing relates two), two contents (so
uploads can agree or differ), `MaxVersion = 3` documents before no new upload starts
(two in flight may exceed it), any number of rollbacks and crashes.
Request slots are symmetric in `race`, tabs in `roles`; there is no symmetry where liveness is checked.
No configuration turns deadlock checking off.

### Fairness

A transaction that can take its next statement takes it (WF): the event loop and
PostgreSQL run what is runnable. Statements that wait for a row lock get strong
fairness: PostgreSQL queues waiters on the tuple lock in order, so a wait that is
possible again and again ends. Nothing is assumed about new requests, and nothing
about rollbacks: they may happen or not. In `Documents` strong fairness also covers
the two INSERTs, which PostgreSQL wakes whenever the transaction they wait for ends;
nothing is assumed about the arrival of a body, so a request that is still streaming
may stay so. `RoleAdmin` and `Portal` state no fairness: a user may leave any page as it is,
and nothing in them has to happen.

## Proofs

`Workflow_proofs` proves, for every set of people, roles, applications and request
slots and every bound, from `RolesAssumption` (each person has a set of roles),
`NoneAssumption` (NULL is nobody) and `BoundAssumption`:

| Theorem | Statement |
|---|---|
| `Invariant` | `Spec => []IInv` |
| `TypeCorrect` | `Spec => []TypeOK` |
| `BeltsUnused` | `Spec => []BeltsStayUnused` |
| `Frozen` | `Spec => TerminalFrozen` |
| `LegalRun` | `Spec => []TrailIsLegalRun` |
| `VersionCounts` | `Spec => []VersionCountsTransitions` |
| `SeparationOfDuties` | `Spec => []DecisionSeparate` |
| `Refinement` | `Spec => ImplementsLifecycle` (`Abstract!LSpec`) |
| `NotesAreOfTransitions` | `Spec => []RfiNoteWithTransition` |

None of the properties is inductive: that an UPDATE is legal depends on what the
request read earlier. `IInv` says what a request still knows. Before its UPDATE
(`FoundOK`), the committed row is at a later version than the one it read, or differs
from it in the text only. After it (`WrittenOK`), the row is frozen by the lock and
equal to the one judged but for the text. Version alone is not enough for edits,
which do not bump it, and status alone would not survive an RFI loop. `CommitInvariant`
is the heart: a commit either bumps the version, and every other reader of the old
row falls behind, or changes the text only, and every other reader still agrees.
`PatchedOK` shows an accepted edge leads from a row that meets the CHECKs (`RowOK`)
to one that does, and `EdgeUnique` that the order of the edge table is irrelevant.

The other theorems follow from `IInv` and what a COMMIT does (`OnlyCommitWrites`,
`CommitFacts`): `LegalEntry` turns `WrittenOK` into the legality of the entry being
committed, against the row as it is then and not as it was read. `LegalRun` adds the
induction over the trail (`TrailInv`), `VersionCounts` the counting (`CountAppend`,
`VersionStep`) and that the row a commit was judged on has the committed version
(`SnapVersion`, which fails for an UPDATE by id alone), `SeparationOfDuties` that the columns and the trail name the same people
(`PeopleAgree`), with `RowOK` supplying that they differ; `Refinement` maps a COMMIT to
`Open`, `Amend` or `Advance` and every other step to a stutter. `NotesAreOfTransitions`
adds to `IInv` that a transaction has its note if and only if it is a `request_info` past
that statement (`NotesInFlight`), and that no note is of a later version than the row, so
that the next one is.

`Documents_proofs` proves, for every set of slots, contents and request slots:

| Theorem | Statement |
|---|---|
| `DocumentsInvariant` | `Spec => []IInv` |
| `DocumentsTypeCorrect` | `Spec => []TypeOK` |
| `SlotVersions` | `Spec => []VersionsContiguous` |
| `NewestStaysCurrent` | `Spec => []NewestIsCurrent` |
| `BytesStayAvailable` | `Spec => []DownloadsFindTheirFile` |
| `TempsHaveUploads` | `Spec => []TempsOfUploads` |

What an upload relies on when it commits, it saw several statements earlier. `BlobOK`:
its blob row is its own or committed, and the file is in place (`blobs` is a subset of
`files`, and files are never removed). `SlotOK`: what it superseded was committed
before it computed its version, so it is older; the version follows a committed one
and, once inserted, is nobody else's. `CommittedRows` draws the conclusion for the
slot's rows, and `CommitInvariant` shows that the other uploads keep what they rely on,
because a slot only grows. `TempsHaveUploads` is inductive given `IInv`.

`ChainVerifier_proofs` proves `ForgeriesLocated`, about logs of any length and any
number of changes to them: if a log was accepted to its end, and the rows of another one
carry only hashes that occur in it (nobody can make new ones without the pepper), then
the other one is `Located`. An accepted row's hash is the hash of its own content, and a
hash is the sequence of entries that leads to it, so the accepted rows of the other log
are a prefix of the log as it was written.

`AuditLog_proofs`, for any finite non-empty set of connections, any owners among them, any
resources and any seed (`LogAssumption`):

| Theorem | Statement |
|---|---|
| `LogInvariant` | `Spec => []LogInv` |
| `TypeCorrect` | `Spec => []TypeOK` |
| `PrevIsCommitted` | `Spec => []NoDanglingPrev` |
| `LocksInOrder` | `Spec => []LocksAscend` |
| `ForksAreNarrow` | `Spec => []ForkWidthBounded` |
| `AlarmsAreForks` | `Spec => []AlarmMeansFork` |
| `AlterationsFound` | `Spec => []AlterationsLocated` |

`LogInv` says what a transaction relies on (`TxnOK`): it locked and extends rows that are
committed or its own, its own rows are after each other, and the tail it picked is at
least as large as all it has locked and inserted, which is why waiting is in ascending
order. The width of a fork needs to know who inserted a committed row, which the table
does not say: `SomebodyInserted` is that *some* assignment of connections to rows exists in
which each connection's rows are in line (a connection sees its own commits), so that the
successors of a row map into the connections one to one. `AlarmsAreForks`: committed ids in
order verify exactly if each one's predecessor is the one before, and with every predecessor
earlier and committed that is so exactly if no two rows share one. `AlterationsFound` gives
each alteration of `AlteredLogs` to `ForgeriesLocated`.

`RoleAdmin_proofs`, for any users, seed admins (at least one), tabs, toggles, filters and
page size (`RoleAssumption`):

| Theorem | Statement |
|---|---|
| `RoleInvariant` | `Spec => []RoleInv` |
| `TypeCorrect` | `Spec => []TypeOK` |
| `ChangesByAdmins` | `Spec => []ActorsWereAdmins` |
| `GrantsAreLostToRevokes` | `Spec => []LostGrantsRaced` |
| `TrailExplainsRoles` | `Spec => []HeldRolesExplained` |
| `RefusalsAreStale` | `Spec => []RefusedTogglesAreStale` |
| `RolelessOnTheRecord` | `Spec => []RolelessExplained` |
| `PagingReachesAll` | `Spec => []PagingSkipsNothing` |
| `LockoutsExplained` | `Spec => []LockoutSelfMadeOrRaced` |
| `LockoutsLast` | `Spec => LockoutIsForEver` |

Almost everything is of one form, `HeldOrRevoked(toggle, n)`: a role that was held when the
trail had `n` entries is held, or the trail has a revoke after them. A page, a request and
an entry each say it of the moment they looked (`TabSaw`, `EntryOK`). A trail that only
grows keeps such a statement, and the one step that can break it, a DELETE's COMMIT, adds
the entry that restores it. `AdminAt(user, n)` says where the role came from: the seed, or a
grant that was effective and has no revoke among the first `n` entries; whoever holds admin
is `AdminAt` now, which is what `Authorise` reads, and entries behind a moment do not change
it. `HeldRolesExplained` is about ids, which are drawn before the
COMMIT: `TabWrote` adds that while a request has a key's row written, no other one has
(`Apart`), and that the id it draws is after all committed revokes of the key. The audit
page's reader is `ReaderOK`: what it has not seen yet ranks after the page it shows, and
inserting ids anywhere only moves a row to a later rank (`RankGrows`).

`Portal_proofs`, for any finite set of users, viewers, roles they have in turn, limits
(each smaller one at most the next), history limit, bounds (`PortalAssumption`) and requests
of others (`OthersAssumption`), all of them included:

| Theorem | Statement |
|---|---|
| `PortalInvariant` | `Spec => []PortalInv` |
| `TypeCorrect` | `Spec => []TypeOK` |
| `DecisionReasonsStand` | `Spec => []DecisionReasonStands` |
| `CardsAreInStep` | `Spec => []CardsCoverRow` |
| `DecisionsAreInformed` | `Spec => DecisionOnWhatWasShown` |
| `LateClicksAreOfALaterRound` | `Spec => StaleClickMeansRfiRound` |
| `LostKeysWereSeen` | `Spec => KeysLostUnseen` |
| `NothingOutOfSight` | `Spec => []QueuesComplete` |

`PortalInv` orders the rows an application goes through: `Followed(a, b)` says that `b` is
`a`, or `a` edited, or comes after `a` in a later phase or a later round of requests for
information. The offer, what the page shows, what it is loading and the row in the database
follow each other in this order. A decision is possible only in the last phase before the
terminal one, so a row that is still there is the row that was offered; any event but
`withdraw` is possible in one status only (`OneStatus`), so one that is back there has
been through a round, and nothing follows a decided row (`DecisionReasonsStand`). Lists read
after a row are of a row that follows it, so only a limit can cut them short
(`CardsFacts`); an edit form keeps the key in the textarea until the user takes it out, or
sends the form without the script that opens the panel (`HasKey`, `Kept`).
`NothingOutOfSight` needs no inductive invariant but the rows' type:
`Pages_proofs` has what a list cut off at a limit keeps (`NewestGrows`, `ListedGrows`) and
what each status demands of the person who may act (`EventDemands`, `DecisionButtons`).

Two statements were changed because their proof failed. `StaleClickMeansRfiRound` was about
the row the page showed when the form was *confirmed*; beyond the run's bound that is false
(see Bounds), and it is now about the row that offered the form. `DashboardAgrees` counted
the open cases somebody can act on; when the only user there is has reviewed a case, nobody
can decide it, and it is still open: cases that dual control keeps from somebody count too.
`User` is assumed finite in `Portal` (users are rows of a table), `Admins` not empty in
`RoleAdmin` (the seed leaves one).

Each inductive invariant was checked by TLC on the instance of its run before it was proved;
`IInv` of `Workflow` and `Documents` stay in their runs, the others are only in the proofs'
modules. What the runs check and no theorem states is liveness: `EveryRequestAnswered` (of
`Workflow` and `Documents`) and `EveryTransactionEnds` need fairness and ENABLED, which are
beyond the prover. The runs that show a disagreement are counterexamples and need no proof.

## Not modelled

- Passwords, sessions, cookies, signing in and out: better-auth, a library.
- Canonical JSON and SHA-256: a hash is what it is of. OpenAPI, validation of field
  formats, CORS, logging, environment, presentation, the text search.
- The stuck classification (`lib/admin/stuck.ts`): timestamps against the clock, for one
  filter. An outage of `/me` (the hook then continues without roles).
- In `Documents`: who may download, MIME types, the size cap's exact value, and failures
  of `stat` or `unlink`. The portal's download route only pipes a stream through.
- Roles are constant in `Workflow`: each request loads them once, which `RoleAdmin` and
  `Portal` model. The seed's rows start mid-lifecycle with an `application.seeded` entry;
  `Workflow` starts from an empty table. A seed that dies half-way is not modelled: it is
  a script that runs before the service.
- In `Portal`: two requests of one page in flight together, typing while a request is
  under way, and the new form losing what was typed on a 403.

## Plan

1. `AuditLog` with a pool of one connection: nothing forks, so `verifyChain` stays green.
2. An abstract specification of role administration, a table and a log that one admin at a
   time changes, and which of its steps `RoleAdmin` implements in spite of its races.
3. Who may download (`canViewApplication` with the role a download is attributed to).
4. Two requests of one page in flight together.
