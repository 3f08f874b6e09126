----------------------------- MODULE Documents ------------------------------
(***************************************************************************)
(* The documents of one application: uploads (a stream to a temporary      *)
(* file, then a transaction that also moves the file to its place) and     *)
(* downloads, run by concurrent requests, while the application moves      *)
(* along its life cycle (module Workflow).                                 *)
(*                                                                         *)
(* PostgreSQL is at READ COMMITTED.  A statement picks its rows from what  *)
(* was committed when it started; an UPDATE then waits for the rows other  *)
(* transactions changed and looks at them again; an INSERT waits for one   *)
(* with the same key that is not committed.  Nothing else waits: the       *)
(* status check is a plain SELECT, and the foreign key of documents to     *)
(* applications does not conflict with an UPDATE of status.                *)
(*                                                                         *)
(* No transaction covers the files: a rename stays when its transaction is *)
(* rolled back.  A crash is one of the server process, not of the machine. *)
(***************************************************************************)
EXTENDS StateMachine, FiniteSets

CONSTANTS
  Req,         \* request slots
  Slot,        \* document slots of the application
  Bytes,       \* contents; sha256 identifies them
  None,
  MaxVersion   \* bound: no upload starts into a slot with this many documents

ASSUME NoneAssumption == None \notin Slot /\ None \notin Bytes
ASSUME BoundAssumption == MaxVersion \in Nat

VARIABLES
  phase,  \* what the application's committed status lets an applicant do
  docs,   \* docs[s]: committed rows of documents in slot s
  blobs,  \* committed rows of document_blobs
  files,  \* contents at their final path, complete
  temps,  \* requests whose temporary file exists
  req     \* req[r]: the upload or download r runs, or its last reply

vars == <<phase, docs, blobs, files, temps, req>>
tables == <<phase, docs, blobs>>
storage == <<files, temps>>

EDITABLE == {"DRAFT", "RFI_REQUESTED"}

PhaseOf(status) ==
  IF status \in EDITABLE THEN "editable" ELSE IF IsTerminal(status) THEN "closed" ELSE "staff"

(* version >= 1 is chk_version_pos; current is superseded_at IS NULL.      *)
Doc == [version : Nat \ {0}, bytes : Bytes, current : BOOLEAN]

(* The program counter of upload(), and "opened" of openDownload().        *)
Points == {"idle", "streaming", "streamed", "checked", "upserted", "placed",
           "superseding", "superseded", "versioned", "inserted", "audited",
           "failed", "opened"}

(* targets are the rows the supersede found, replaced those it changed.    *)
Request == [pc : Points, reply : {"none", "ok", "refused", "error", "missing", "aborted"},
            slot : Slot \cup {None}, bytes : Bytes \cup {None}, fresh : BOOLEAN,
            targets : SUBSET Nat, replaced : SUBSET Nat, version : Nat]

TypeOK ==
  /\ phase \in {"editable", "staff", "closed"}
  /\ docs \in [Slot -> SUBSET Doc]
  /\ blobs \in SUBSET Bytes /\ files \in SUBSET Bytes
  /\ temps \in SUBSET Req
  /\ req \in [Req -> Request]

(* A request that holds nothing in the database.                           *)
Bare(pc, reply) ==
  [pc |-> pc, reply |-> reply, slot |-> None, bytes |-> None, fresh |-> FALSE,
   targets |-> {}, replaced |-> {}, version |-> 0]

Init ==
  /\ phase = PhaseOf("DRAFT")
  /\ docs = [s \in Slot |-> {}]
  /\ blobs = {} /\ files = {} /\ temps = {}
  /\ req = [r \in Req |-> Bare("idle", "none")]

-----------------------------------------------------------------------------
VersionsOf(rows) == {d.version : d \in rows}

Versions(s) == VersionsOf(docs[s])

Current(s) == {d.version : d \in {e \in docs[s] : e.current}}

(* Uncommitted rows other transactions wait for.                           *)
InsertedBlob(r, b) == req[r].fresh /\ req[r].bytes = b
MutantLockedRow(r, s, v) ==  \* mutant: the rows found are locked at once
  req[r].slot = s /\ v \in req[r].targets \cup req[r].replaced
LockedRow(r, s, v) == req[r].slot = s /\ v \in req[r].replaced
InsertedVersion(r, s, v) ==
  req[r].pc \in {"inserted", "audited"} /\ req[r].slot = s /\ req[r].version = v

Others(r) == Req \ {r}

Become(r, state) == req' = [req EXCEPT ![r] = state]

MutantThrow(r, reply) ==  \* mutant: no catch block
  /\ Become(r, Bare("idle", reply))
  /\ UNCHANGED <<tables, storage>>

(* An error leaves the transaction: rollback, then the catch block.        *)
Throw(r, reply) ==
  /\ Become(r, Bare("failed", reply))
  /\ UNCHANGED <<tables, storage>>

-----------------------------------------------------------------------------
(* Someone takes an edge of the state machine; who may is Workflow's.      *)
MoveApplication ==
  /\ \E edge \in TRANSITIONS : PhaseOf(edge.from) = phase /\ phase' = PhaseOf(edge.to)
  /\ UNCHANGED <<docs, blobs, storage, req>>

(* streamToTemp creates the temporary file and reads the body.             *)
StreamToTemp(r, s, b) ==
  /\ req[r].pc = "idle"
  /\ Cardinality(docs[s]) < MaxVersion
  /\ Become(r, [Bare("streaming", "none") EXCEPT !.slot = s, !.bytes = b])
  /\ temps' = temps \cup {r}
  /\ UNCHANGED <<tables, files>>

StreamDone(r) ==
  /\ req[r].pc = "streaming"
  /\ Become(r, [req[r] EXCEPT !.pc = "streamed"])
  /\ UNCHANGED <<tables, storage>>

(* Too large, empty, or cut off: the temporary file goes.                  *)
StreamRefused(r) ==
  /\ req[r].pc = "streaming"
  /\ Become(r, Bare("idle", "refused"))
  /\ temps' = temps \ {r}
  /\ UNCHANGED <<tables, files>>

(* findById, owner and status.                                             *)
CheckApplication(r, isOwner) ==
  /\ req[r].pc = "streamed"
  /\ \/ (~isOwner \/ phase # "editable") /\ Throw(r, "refused")
     \/ /\ isOwner /\ phase = "editable"
        /\ Become(r, [req[r] EXCEPT !.pc = "checked"])
        /\ UNCHANGED <<tables, storage>>

(* INSERT .. ON CONFLICT DO NOTHING, and the SELECT after a conflict.      *)
UpsertBlob(r) ==
  /\ req[r].pc = "checked"
  /\ \A o \in Others(r) : ~InsertedBlob(o, req[r].bytes)
  /\ Become(r, [req[r] EXCEPT !.pc = "upserted", !.fresh = req[r].bytes \notin blobs])
  /\ UNCHANGED <<tables, storage>>

MutantPlaceFile(r) ==  \* mutant: the file is discarded when the blob is new
  /\ req[r].pc = "upserted"
  /\ Become(r, [req[r] EXCEPT !.pc = "placed"])
  /\ temps' = temps \ {r}
  /\ files' = IF req[r].fresh THEN files ELSE files \cup {req[r].bytes}
  /\ UNCHANGED tables

(* commitTempToFinal for a new blob, discardTemp for a known one.          *)
PlaceFile(r) ==
  /\ req[r].pc = "upserted"
  /\ Become(r, [req[r] EXCEPT !.pc = "placed"])
  /\ temps' = temps \ {r}
  /\ files' = IF req[r].fresh THEN files \cup {req[r].bytes} ELSE files
  /\ UNCHANGED tables

(* supersedeCurrentSlot: its snapshot ...                                  *)
FindCurrentSlot(r) ==
  /\ req[r].pc = "placed"
  /\ Become(r, [req[r] EXCEPT !.pc = "superseding", !.targets = Current(req[r].slot)])
  /\ UNCHANGED <<tables, storage>>

(* ... and, once no other transaction holds one of them, its effect on     *)
(* those that are still current.  (It locks them one by one, in the order  *)
(* of its scan, which is the same for everybody.)                          *)
SupersedeCurrentSlot(r) ==
  LET s == req[r].slot IN
  /\ req[r].pc = "superseding"
  /\ \A o \in Others(r), v \in req[r].targets : ~LockedRow(o, s, v)
  /\ Become(r, [req[r] EXCEPT !.pc = "superseded", !.targets = {},
                              !.replaced = req[r].targets \cap Current(s)])
  /\ UNCHANGED <<tables, storage>>

MutantNextVersion(r) ==  \* mutant: the first version is 0
  LET versions == Versions(req[r].slot) IN
  /\ req[r].pc = "superseded"
  /\ \E last \in versions \cup {0} :
       /\ \A v \in versions : v <= last
       /\ Become(r, [req[r] EXCEPT !.pc = "versioned",
                                   !.version = IF versions = {} THEN 0 ELSE last + 1])
  /\ UNCHANGED <<tables, storage>>

(* nextVersionForSlot: max(version) + 1 of the committed rows, 1 if none.  *)
NextVersionForSlot(r) ==
  LET versions == Versions(req[r].slot) IN
  /\ req[r].pc = "superseded"
  /\ \E last \in versions \cup {0} :
       /\ \A v \in versions : v <= last
       /\ Become(r, [req[r] EXCEPT !.pc = "versioned", !.version = last + 1])
  /\ UNCHANGED <<tables, storage>>

MutantInsertDocument(r) ==  \* mutant: no unique index
  /\ req[r].pc = "versioned"
  /\ Become(r, [req[r] EXCEPT !.pc = "inserted"])
  /\ UNCHANGED <<tables, storage>>

(* INSERT INTO documents; uniq_slot_version refuses a version taken.       *)
InsertDocument(r) ==
  LET s == req[r].slot IN
  /\ req[r].pc = "versioned"
  /\ \A o \in Others(r) : ~InsertedVersion(o, s, req[r].version)
  /\ \/ req[r].version \in Versions(s) /\ Throw(r, "error")
     \/ /\ req[r].version \notin Versions(s)
        /\ Become(r, [req[r] EXCEPT !.pc = "inserted"])
        /\ UNCHANGED <<tables, storage>>

AppendAudit(r) ==
  /\ req[r].pc = "inserted"
  /\ Become(r, [req[r] EXCEPT !.pc = "audited"])
  /\ UNCHANGED <<tables, storage>>

(* The row t inserts, row d as t's supersede leaves it, and the slot's     *)
(* rows after t.                                                           *)
Inserted(t) == [version |-> t.version, bytes |-> t.bytes, current |-> TRUE]
Superseded(d, t) == [d EXCEPT !.current = d.current /\ d.version \notin t.replaced]
RowsAfter(rows, t) == {Superseded(d, t) : d \in rows} \cup {Inserted(t)}

MutantCommit(r) ==  \* mutant: the supersede comes after the insert
  LET t == req[r] IN
  /\ t.pc = "audited"
  /\ docs' = [docs EXCEPT ![t.slot] =
                {[d EXCEPT !.current = FALSE] : d \in docs[t.slot] \cup {Inserted(t)}}]
  /\ blobs' = IF t.fresh THEN blobs \cup {t.bytes} ELSE blobs
  /\ Become(r, Bare("idle", "ok"))
  /\ UNCHANGED <<phase, storage>>

(* COMMIT: the superseded rows, the new one and its blob become visible.   *)
Commit(r) ==
  LET t == req[r] IN
  /\ t.pc = "audited"
  /\ docs' = [docs EXCEPT ![t.slot] = RowsAfter(docs[t.slot], t)]
  /\ blobs' = IF t.fresh THEN blobs \cup {t.bytes} ELSE blobs
  /\ Become(r, Bare("idle", "ok"))
  /\ UNCHANGED <<phase, storage>>

(* A statement or a file operation of the transaction fails.               *)
Abort(r) ==
  /\ req[r].pc \notin {"idle", "streaming", "failed", "opened"}
  /\ Throw(r, "aborted")

(* The catch block: discardTemp, which is content to find nothing.         *)
CleanUp(r) ==
  /\ req[r].pc = "failed"
  /\ Become(r, Bare("idle", req[r].reply))
  /\ temps' = temps \ {r}
  /\ UNCHANGED <<tables, files>>

(* openDownload commits its audit row and hands out the path, ...          *)
OpenDownload(r, s) ==
  /\ req[r].pc = "idle"
  /\ \E d \in docs[s] :
       /\ d.bytes \in blobs
       /\ Become(r, [Bare("opened", "none") EXCEPT !.slot = s, !.bytes = d.bytes])
  /\ UNCHANGED <<tables, storage>>

(* ... which the route then opens.                                         *)
StreamDownload(r) ==
  /\ req[r].pc = "opened"
  /\ Become(r, Bare("idle", IF req[r].bytes \in files THEN "ok" ELSE "missing"))
  /\ UNCHANGED <<tables, storage>>

(* The server dies and restarts: transactions roll back, nothing cleans    *)
(* up.  A temporary file that is left has a name no request will use, so   *)
(* temps forgets it.                                                       *)
Crash ==
  /\ \E r \in Req : req[r].pc # "idle"
  /\ req' = [r \in Req |-> IF req[r].pc = "idle" THEN req[r] ELSE Bare("idle", "aborted")]
  /\ temps' = {}
  /\ UNCHANGED <<tables, files>>

-----------------------------------------------------------------------------
Next ==
  \/ MoveApplication
  \/ Crash
  \/ \E r \in Req :
       \/ \E s \in Slot, b \in Bytes : StreamToTemp(r, s, b)
       \/ \E s \in Slot : OpenDownload(r, s)
       \/ \E isOwner \in BOOLEAN : CheckApplication(r, isOwner)
       \/ StreamDone(r) \/ StreamRefused(r) \/ UpsertBlob(r) \/ PlaceFile(r)
       \/ FindCurrentSlot(r) \/ SupersedeCurrentSlot(r) \/ NextVersionForSlot(r)
       \/ InsertDocument(r) \/ AppendAudit(r) \/ Commit(r)
       \/ Abort(r) \/ CleanUp(r) \/ StreamDownload(r)

Spec == Init /\ [][Next]_vars

(* The body's arrival is the client's affair.  PostgreSQL queues the       *)
(* waiters for a row, and wakes an INSERT that waits for a key whenever a  *)
(* transaction that inserted it ends; the other steps wait for nothing.    *)
Fairness ==
  \A r \in Req :
    /\ SF_vars(UpsertBlob(r)) /\ SF_vars(SupersedeCurrentSlot(r))
    /\ SF_vars(InsertDocument(r))
    /\ WF_vars(\E isOwner \in BOOLEAN : CheckApplication(r, isOwner))
    /\ WF_vars(PlaceFile(r)) /\ WF_vars(FindCurrentSlot(r))
    /\ WF_vars(NextVersionForSlot(r)) /\ WF_vars(AppendAudit(r)) /\ WF_vars(Commit(r))
    /\ WF_vars(CleanUp(r)) /\ WF_vars(StreamDownload(r))

FairSpec == Spec /\ Fairness

-----------------------------------------------------------------------------
(* No two documents of a slot have one version, and no version is missing: *)
(* two uploads that computed the same one never both commit, whatever they *)
(* superseded in between (documents.repo.ts 32-38, uniq_slot_version).     *)
VersionsContiguous ==
  \A s \in Slot :
    /\ \A d, e \in docs[s] : d.version = e.version => d = e
    /\ \A d \in docs[s] : d.version = 1 \/ d.version - 1 \in Versions(s)

(* The newest version of a slot is current: an upload never supersedes a   *)
(* document newer than its own (documents.service.ts 172-174).             *)
NewestIsCurrent ==
  \A s \in Slot : \A d \in docs[s] :
    (\A e \in docs[s] : e.version <= d.version) => d.current

(* A download finds its file: every committed document has its bytes at    *)
(* their final path, although rows and files commit separately, uploads of *)
(* the same bytes race, roll back and crash (documents.service.ts 160-170).*)
DownloadsFindTheirFile ==
  /\ \A r \in Req : req[r].reply # "missing"
  /\ \A s \in Slot : \A d \in docs[s] : d.bytes \in blobs \cap files

(* Whatever fails, an upload that is over has no temporary file, but for   *)
(* those of a crash (documents.service.ts 111-114, 203-206).               *)
TempsOfUploads ==
  \A r \in temps : req[r].pc \in {"streaming", "streamed", "checked", "upserted", "failed"}

(* Every upload whose body arrived, and every download, is answered.       *)
EveryRequestAnswered ==
  \A r \in Req : req[r].pc \notin {"idle", "streaming"} ~> req[r].pc = "idle"

-----------------------------------------------------------------------------
(* The inductive invariant: what a transaction in flight may rely on.      *)

AfterUpsert == {"upserted", "placed", "superseding", "superseded", "versioned", "inserted",
                "audited"}

(* rows are the committed blobs, placed the files at their final path.     *)
BlobOK(t, rows, placed) ==
  /\ t.slot \in Slot /\ t.bytes \in Bytes
  /\ t.pc \in AfterUpsert => t.fresh \/ t.bytes \in rows
  /\ t.pc \in AfterUpsert \ {"upserted"} => t.bytes \in placed
  /\ t.pc = "opened" => t.bytes \in rows

(* committed are the versions of t's slot.  What t superseded is among     *)
(* them, and older than the version it computed; that version follows one  *)
(* of them and stays free once inserted.                                   *)
SlotOK(t, committed) ==
  /\ t.pc = "superseding" => t.targets \subseteq committed
  /\ t.pc = "superseded" => t.replaced \subseteq committed
  /\ t.pc \in {"versioned", "inserted", "audited"} =>
       /\ t.version = 1 \/ t.version - 1 \in committed
       /\ \A v \in t.replaced : v < t.version
  /\ t.pc \in {"inserted", "audited"} => t.version \notin committed

IInv ==
  /\ TypeOK
  /\ VersionsContiguous
  /\ NewestIsCurrent
  /\ DownloadsFindTheirFile
  /\ blobs \subseteq files
  /\ \A r \in Req : req[r].pc \notin {"idle", "failed"} =>
       BlobOK(req[r], blobs, files) /\ SlotOK(req[r], Versions(req[r].slot))
  /\ \A r, o \in Req :
       /\ req[r].pc \in {"inserted", "audited"}
       /\ InsertedVersion(o, req[r].slot, req[r].version)
       => r = o

-----------------------------------------------------------------------------
(* Statements of the documentation that the code does not keep.            *)

(* design.md 91: "one slot per document type"; 119: "re-uploads supersede".*)
(* A slot has one current document.                                        *)
OneCurrentPerSlot == \A s \in Slot : Cardinality(Current(s)) <= 1

(* "uploads only allowed in DRAFT or RFI_REQUESTED" (documents.service.ts  *)
(* 154): no document is added once the application has left the applicant. *)
UploadsOnlyWhileEditable == [][docs' # docs => phase = "editable"]_vars
=============================================================================
