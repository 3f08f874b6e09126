-------------------------- MODULE Documents_proofs --------------------------
(***************************************************************************)
(* Theorems about Documents, for every set of slots, contents and requests *)
(* and every bound.  Files are only ever added, rows are only ever added   *)
(* and superseded; what has to be shown is that each transaction meets,    *)
(* when it commits, what it saw several statements earlier.                *)
(***************************************************************************)
EXTENDS Documents, TLAPS

-----------------------------------------------------------------------------
(* Lemmas.                                                                 *)

LEMMA BareFacts ==
  ASSUME NEW pc \in Points, NEW reply \in {"none", "ok", "refused", "error", "missing", "aborted"}
  PROVE  /\ Bare(pc, reply) \in Request
         /\ Bare(pc, reply).pc = pc /\ Bare(pc, reply).reply = reply
BY DEF Bare, Request

(* A transaction at work has a slot and a content, and sees committed rows.*)
LEMMA AtWork ==
  ASSUME IInv, NEW r \in Req, req[r].pc \notin {"idle", "failed"}
  PROVE  /\ req[r] \in Request /\ req[r].slot \in Slot /\ req[r].bytes \in Bytes
         /\ BlobOK(req[r], blobs, files) /\ SlotOK(req[r], Versions(req[r].slot))
         /\ Versions(req[r].slot) \subseteq Nat
         /\ Current(req[r].slot) \subseteq Versions(req[r].slot)
<1>1. /\ req[r] \in Request /\ BlobOK(req[r], blobs, files)
      /\ SlotOK(req[r], Versions(req[r].slot))
  BY DEF IInv, TypeOK
<1>2. req[r].slot \in Slot /\ req[r].bytes \in Bytes
  BY <1>1 DEF BlobOK
<1>3. docs[req[r].slot] \subseteq Doc
  BY <1>2 DEF IInv, TypeOK
<1>4. QED
  BY <1>1, <1>2, <1>3 DEF Versions, VersionsOf, Current, Doc

(* A step that moves request r and places or discards files keeps the      *)
(* invariant when r's new state fits the rows committed.                   *)
LEMMA StepInvariant ==
  ASSUME IInv, NEW r \in Req, NEW t \in Request, Become(r, t),
         docs' = docs, blobs' = blobs, phase' = phase,
         files' \in SUBSET Bytes, files \subseteq files', temps' \in SUBSET Req,
         t.reply # "missing",
         t.pc \notin {"idle", "failed"} =>
           BlobOK(t, blobs, files') /\ SlotOK(t, Versions(t.slot)),
         t.pc \in {"inserted", "audited"} =>
           \A o \in Others(r) : ~InsertedVersion(o, t.slot, t.version)
  PROVE  IInv'
<1>1. req'[r] = t /\ \A o \in Req \ {r} : req'[o] = req[o]
  BY DEF Become, IInv, TypeOK
<1>2. TypeOK'
  BY DEF Become, IInv, TypeOK
<1>3. \A s : Versions(s)' = Versions(s)
  BY DEF Versions
<1>4. VersionsContiguous' /\ NewestIsCurrent'
  BY <1>3 DEF IInv, VersionsContiguous, NewestIsCurrent
<1>5. DownloadsFindTheirFile' /\ blobs' \subseteq files'
  BY <1>1 DEF IInv, DownloadsFindTheirFile
<1>6. ASSUME NEW o \in Req, (req[o].pc \notin {"idle", "failed"})'
      PROVE  (BlobOK(req[o], blobs, files) /\ SlotOK(req[o], Versions(req[o].slot)))'
  <2>1. CASE o = r
    <3>1. BlobOK(t, blobs, files') /\ SlotOK(t, Versions(t.slot))
      BY <1>1, <1>6, <2>1
    <3>2. Versions(t.slot) = VersionsOf(docs'[t.slot])
      BY DEF Versions
    <3>3. QED
      BY <1>1, <2>1, <3>1, <3>2 DEF BlobOK, SlotOK, Versions
  <2>2. CASE o # r
    <3>1. BlobOK(req[o], blobs, files) /\ SlotOK(req[o], Versions(req[o].slot))
      BY <1>1, <1>6, <2>2 DEF IInv
    <3>2. req'[o] = req[o]
      BY <1>1, <2>2
    <3>3. QED
      BY <3>1, <3>2 DEF BlobOK, SlotOK, Versions
  <2>3. QED
    BY <2>1, <2>2
<1>7. ASSUME NEW p \in Req, NEW o \in Req, req'[p].pc \in {"inserted", "audited"},
             req'[o].pc \in {"inserted", "audited"},
             req'[o].slot = req'[p].slot, req'[o].version = req'[p].version
      PROVE  p = o
  <2>1. CASE p = r \/ o = r
    BY <1>1, <1>7, <2>1 DEF InsertedVersion, Others
  <2>2. CASE p # r /\ o # r
    BY <1>1, <1>7, <2>2 DEF IInv, InsertedVersion
  <2>3. QED
    BY <2>1, <2>2
<1>8. QED
  BY <1>2, <1>4, <1>5, <1>6, <1>7 DEF IInv, InsertedVersion

(* A step that ends in a request holding nothing.                          *)
LEMMA BareInvariant ==
  ASSUME IInv, NEW r \in Req, NEW pc \in {"idle", "failed"},
         NEW reply \in {"none", "ok", "refused", "error", "aborted"},
         Become(r, Bare(pc, reply)), UNCHANGED tables, files' = files,
         temps' \in SUBSET Req
  PROVE  IInv'
<1>1. /\ Bare(pc, reply) \in Request
      /\ Bare(pc, reply).pc = pc /\ Bare(pc, reply).reply = reply
  BY BareFacts DEF Points
<1>2. docs' = docs /\ blobs' = blobs /\ phase' = phase /\ files' \in SUBSET Bytes
  BY DEF tables, IInv, TypeOK
<1>3. QED
  BY <1>1, <1>2, StepInvariant

LEMMA ThrowInvariant ==
  ASSUME IInv, NEW r \in Req, NEW reply \in {"refused", "error", "aborted"}, Throw(r, reply)
  PROVE  IInv'
<1>1. /\ Become(r, Bare("failed", reply)) /\ UNCHANGED tables /\ files' = files
      /\ temps' \in SUBSET Req
  BY DEF Throw, storage, IInv, TypeOK
<1>2. QED
  BY <1>1, BareInvariant

LEMMA StreamInvariant ==
  ASSUME IInv, NEW r \in Req,
         \/ \E s \in Slot, b \in Bytes : StreamToTemp(r, s, b)
         \/ StreamDone(r)
         \/ StreamRefused(r)
  PROVE  IInv'
<1>1. CASE StreamRefused(r)
  <2>1. /\ Become(r, Bare("idle", "refused")) /\ UNCHANGED tables /\ files' = files
        /\ temps' \in SUBSET Req
    BY <1>1 DEF StreamRefused, tables, IInv, TypeOK
  <2>2. QED
    BY <2>1, BareInvariant
<1>2. ASSUME NEW s \in Slot, NEW b \in Bytes, StreamToTemp(r, s, b)
      PROVE  IInv'
  <2>. DEFINE t == [Bare("streaming", "none") EXCEPT !.slot = s, !.bytes = b]
  <2>1. /\ t \in Request /\ t.pc = "streaming" /\ t.reply = "none"
        /\ t.slot = s /\ t.bytes = b
    BY DEF Bare, Request, Points
  <2>2. /\ Become(r, t) /\ docs' = docs /\ blobs' = blobs /\ phase' = phase
        /\ files' = files /\ files' \in SUBSET Bytes /\ temps' \in SUBSET Req
    BY <1>2 DEF StreamToTemp, tables, IInv, TypeOK
  <2>. HIDE DEF t
  <2>3. BlobOK(t, blobs, files') /\ SlotOK(t, Versions(t.slot))
    BY <2>1 DEF BlobOK, SlotOK, AfterUpsert
  <2>4. QED
    BY <2>1, <2>2, <2>3, StepInvariant
<1>3. CASE StreamDone(r)
  <2>. DEFINE t == [req[r] EXCEPT !.pc = "streamed"]
  <2>1. /\ req[r] \in Request /\ req[r].slot \in Slot /\ req[r].bytes \in Bytes
        /\ req[r].reply # "missing"
    BY <1>3, AtWork DEF StreamDone, IInv, DownloadsFindTheirFile
  <2>2. /\ t \in Request /\ t.pc = "streamed" /\ t.reply # "missing"
        /\ t.slot \in Slot /\ t.bytes \in Bytes
    BY <2>1 DEF Request, Points
  <2>3. /\ Become(r, t) /\ docs' = docs /\ blobs' = blobs /\ phase' = phase
        /\ files' = files /\ files' \in SUBSET Bytes /\ temps' \in SUBSET Req
    BY <1>3 DEF StreamDone, tables, storage, IInv, TypeOK
  <2>. HIDE DEF t
  <2>4. BlobOK(t, blobs, files') /\ SlotOK(t, Versions(t.slot))
    BY <2>2 DEF BlobOK, SlotOK, AfterUpsert
  <2>5. QED
    BY <2>2, <2>3, <2>4, StepInvariant
<1>4. QED
  BY <1>1, <1>2, <1>3

LEMMA CheckInvariant ==
  ASSUME IInv, NEW r \in Req, NEW isOwner \in BOOLEAN, CheckApplication(r, isOwner)
  PROVE  IInv'
<1>. DEFINE t == [req[r] EXCEPT !.pc = "checked"]
<1>1. CASE Throw(r, "refused")
  BY <1>1, ThrowInvariant
<1>2. CASE Become(r, t) /\ UNCHANGED <<tables, storage>>
  <2>1. /\ req[r] \in Request /\ req[r].slot \in Slot /\ req[r].bytes \in Bytes
        /\ req[r].reply # "missing"
    BY AtWork DEF CheckApplication, IInv, DownloadsFindTheirFile
  <2>2. /\ t \in Request /\ t.pc = "checked" /\ t.reply # "missing"
        /\ t.slot \in Slot /\ t.bytes \in Bytes
    BY <2>1 DEF Request, Points
  <2>3. /\ docs' = docs /\ blobs' = blobs /\ phase' = phase
        /\ files' = files /\ files' \in SUBSET Bytes /\ temps' \in SUBSET Req
    BY <1>2 DEF tables, storage, IInv, TypeOK
  <2>. HIDE DEF t
  <2>4. BlobOK(t, blobs, files') /\ SlotOK(t, Versions(t.slot))
    BY <2>2 DEF BlobOK, SlotOK, AfterUpsert
  <2>5. QED
    BY <1>2, <2>2, <2>3, <2>4, StepInvariant
<1>3. QED
  BY <1>1, <1>2 DEF CheckApplication

(* A step of a transaction that stays at work: it changes nothing but r's  *)
(* state, and puts the file in its place at most.                          *)
LEMMA WorkInvariant ==
  ASSUME IInv, NEW r \in Req, NEW t \in Request, Become(r, t),
         UNCHANGED tables, files' \in SUBSET Bytes, files \subseteq files',
         temps' \in SUBSET Req,
         t.reply = req[r].reply,
         BlobOK(t, blobs, files'), SlotOK(t, Versions(t.slot)),
         t.pc \in {"inserted", "audited"} =>
           \A o \in Others(r) : ~InsertedVersion(o, t.slot, t.version)
  PROVE  IInv'
<1>1. docs' = docs /\ blobs' = blobs /\ phase' = phase /\ t.reply # "missing"
  BY DEF tables, IInv, DownloadsFindTheirFile
<1>2. QED
  BY <1>1, StepInvariant

LEMMA UpsertBlobInvariant ==
  ASSUME IInv, NEW r \in Req, UpsertBlob(r)
  PROVE  IInv'
<1>. DEFINE t == [req[r] EXCEPT !.pc = "upserted", !.fresh = req[r].bytes \notin blobs]
<1>1. /\ req[r] \in Request /\ req[r].slot \in Slot /\ req[r].bytes \in Bytes
      /\ SlotOK(req[r], Versions(req[r].slot))
  BY AtWork DEF UpsertBlob
<1>2. /\ t \in Request /\ t.pc = "upserted" /\ t.reply = req[r].reply
      /\ t.slot = req[r].slot /\ t.bytes = req[r].bytes
      /\ t.fresh = (req[r].bytes \notin blobs)
  BY <1>1 DEF Request, Points
<1>3. /\ Become(r, t) /\ UNCHANGED tables /\ files' = files
      /\ files' \in SUBSET Bytes /\ temps' \in SUBSET Req
  BY DEF UpsertBlob, storage, IInv, TypeOK
<1>. HIDE DEF t
<1>4. BlobOK(t, blobs, files') /\ SlotOK(t, Versions(t.slot))
  BY <1>1, <1>2 DEF BlobOK, SlotOK, AfterUpsert
<1>5. QED
  BY <1>2, <1>3, <1>4, WorkInvariant

LEMMA PlaceFileInvariant ==
  ASSUME IInv, NEW r \in Req, PlaceFile(r)
  PROVE  IInv'
<1>. DEFINE t == [req[r] EXCEPT !.pc = "placed"]
<1>1. /\ req[r] \in Request /\ req[r].slot \in Slot /\ req[r].bytes \in Bytes
      /\ BlobOK(req[r], blobs, files) /\ req[r].pc = "upserted"
  BY AtWork DEF PlaceFile
<1>2. /\ t \in Request /\ t.pc = "placed" /\ t.reply = req[r].reply
      /\ t.slot = req[r].slot /\ t.bytes = req[r].bytes /\ t.fresh = req[r].fresh
  BY <1>1 DEF Request, Points
<1>3. /\ Become(r, t) /\ UNCHANGED tables
      /\ files' = IF req[r].fresh THEN files \cup {req[r].bytes} ELSE files
      /\ files' \in SUBSET Bytes /\ files \subseteq files' /\ temps' \in SUBSET Req
  BY <1>1 DEF PlaceFile, IInv, TypeOK
<1>4. blobs \subseteq files
  BY DEF IInv
<1>. HIDE DEF t
<1>5. BlobOK(t, blobs, files') /\ SlotOK(t, Versions(t.slot))
  BY <1>1, <1>2, <1>3, <1>4 DEF BlobOK, SlotOK, AfterUpsert
<1>6. QED
  BY <1>2, <1>3, <1>5, WorkInvariant

LEMMA FindCurrentSlotInvariant ==
  ASSUME IInv, NEW r \in Req, FindCurrentSlot(r)
  PROVE  IInv'
<1>. DEFINE t == [req[r] EXCEPT !.pc = "superseding", !.targets = Current(req[r].slot)]
<1>1. /\ req[r] \in Request /\ req[r].slot \in Slot /\ req[r].bytes \in Bytes
      /\ BlobOK(req[r], blobs, files) /\ req[r].pc = "placed"
      /\ Current(req[r].slot) \subseteq Versions(req[r].slot)
      /\ Versions(req[r].slot) \subseteq Nat
  BY AtWork DEF FindCurrentSlot
<1>2. /\ t \in Request /\ t.pc = "superseding" /\ t.reply = req[r].reply
      /\ t.slot = req[r].slot /\ t.bytes = req[r].bytes /\ t.fresh = req[r].fresh
      /\ t.targets = Current(req[r].slot) /\ t.replaced = req[r].replaced
  BY <1>1 DEF Request, Points
<1>3. /\ Become(r, t) /\ UNCHANGED tables /\ files' = files
      /\ files' \in SUBSET Bytes /\ temps' \in SUBSET Req
  BY DEF FindCurrentSlot, storage, IInv, TypeOK
<1>. HIDE DEF t
<1>4. BlobOK(t, blobs, files')
  BY <1>1, <1>2, <1>3 DEF BlobOK, AfterUpsert
<1>5. SlotOK(t, Versions(t.slot))
  BY <1>1, <1>2 DEF SlotOK
<1>6. QED
  BY <1>2, <1>3, <1>4, <1>5, WorkInvariant

LEMMA SupersedeInvariant ==
  ASSUME IInv, NEW r \in Req, SupersedeCurrentSlot(r)
  PROVE  IInv'
<1>. DEFINE t == [req[r] EXCEPT !.pc = "superseded", !.targets = {},
                   !.replaced = req[r].targets \cap Current(req[r].slot)]
<1>1. /\ req[r] \in Request /\ req[r].slot \in Slot /\ req[r].bytes \in Bytes
      /\ BlobOK(req[r], blobs, files) /\ req[r].pc = "superseding"
      /\ SlotOK(req[r], Versions(req[r].slot))
  BY AtWork DEF SupersedeCurrentSlot
<1>2. /\ t \in Request /\ t.pc = "superseded" /\ t.reply = req[r].reply
      /\ t.slot = req[r].slot /\ t.bytes = req[r].bytes /\ t.fresh = req[r].fresh
      /\ t.replaced \subseteq req[r].targets
  BY <1>1 DEF Request, Points
<1>3. /\ Become(r, t) /\ UNCHANGED tables /\ files' = files
      /\ files' \in SUBSET Bytes /\ temps' \in SUBSET Req
  BY DEF SupersedeCurrentSlot, storage, IInv, TypeOK
<1>. HIDE DEF t
<1>4. BlobOK(t, blobs, files')
  BY <1>1, <1>2, <1>3 DEF BlobOK, AfterUpsert
<1>5. SlotOK(t, Versions(t.slot))
  BY <1>1, <1>2 DEF SlotOK
<1>6. QED
  BY <1>2, <1>3, <1>4, <1>5, WorkInvariant

(* The version computed is newer than every row committed, those           *)
(* superseded among them.                                                  *)
LEMMA NextVersionInvariant ==
  ASSUME IInv, NEW r \in Req, NextVersionForSlot(r)
  PROVE  IInv'
<1>1. PICK last \in Versions(req[r].slot) \cup {0} :
        /\ \A v \in Versions(req[r].slot) : v <= last
        /\ Become(r, [req[r] EXCEPT !.pc = "versioned", !.version = last + 1])
  BY DEF NextVersionForSlot
<1>. DEFINE next == last + 1
            t == [req[r] EXCEPT !.pc = "versioned", !.version = next]
<1>2. /\ req[r] \in Request /\ req[r].slot \in Slot /\ req[r].bytes \in Bytes
      /\ BlobOK(req[r], blobs, files) /\ req[r].pc = "superseded"
      /\ SlotOK(req[r], Versions(req[r].slot))
      /\ Versions(req[r].slot) \subseteq Nat
  BY AtWork DEF NextVersionForSlot
<1>3. last \in Nat /\ next \in Nat
  BY <1>1, <1>2
<1>4. /\ t \in Request /\ t.pc = "versioned" /\ t.reply = req[r].reply
      /\ t.slot = req[r].slot /\ t.bytes = req[r].bytes /\ t.fresh = req[r].fresh
      /\ t.replaced = req[r].replaced /\ t.version = next
  <2>. HIDE DEF next
  <2>. QED
    BY <1>2, <1>3 DEF Request, Points
<1>5. /\ Become(r, t) /\ UNCHANGED tables /\ files' = files
      /\ files' \in SUBSET Bytes /\ temps' \in SUBSET Req
  BY <1>1 DEF NextVersionForSlot, storage, IInv, TypeOK
<1>. HIDE DEF t
<1>6. BlobOK(t, blobs, files')
  BY <1>2, <1>4, <1>5 DEF BlobOK, AfterUpsert
<1>7. t.version = 1 \/ t.version - 1 \in Versions(t.slot)
  BY <1>1, <1>3, <1>4
<1>8. \A v \in t.replaced : v < t.version
  BY <1>1, <1>2, <1>3, <1>4 DEF SlotOK
<1>9. SlotOK(t, Versions(t.slot))
  BY <1>4, <1>7, <1>8 DEF SlotOK
<1>10. QED
  BY <1>4, <1>5, <1>6, <1>9, WorkInvariant

LEMMA InsertDocumentInvariant ==
  ASSUME IInv, NEW r \in Req, InsertDocument(r)
  PROVE  IInv'
<1>. DEFINE t == [req[r] EXCEPT !.pc = "inserted"]
<1>1. CASE Throw(r, "error")
  BY <1>1, ThrowInvariant
<1>2. CASE /\ req[r].version \notin Versions(req[r].slot)
           /\ Become(r, t) /\ UNCHANGED <<tables, storage>>
  <2>1. /\ req[r] \in Request /\ req[r].slot \in Slot /\ req[r].bytes \in Bytes
        /\ BlobOK(req[r], blobs, files) /\ req[r].pc = "versioned"
        /\ SlotOK(req[r], Versions(req[r].slot))
    BY AtWork DEF InsertDocument
  <2>2. /\ t \in Request /\ t.pc = "inserted" /\ t.reply = req[r].reply
        /\ t.slot = req[r].slot /\ t.bytes = req[r].bytes /\ t.fresh = req[r].fresh
        /\ t.replaced = req[r].replaced /\ t.version = req[r].version
    BY <2>1 DEF Request, Points
  <2>3. /\ Become(r, t) /\ UNCHANGED tables /\ files' = files
        /\ files' \in SUBSET Bytes /\ temps' \in SUBSET Req
    BY <1>2 DEF storage, IInv, TypeOK
  <2>4. \A o \in Others(r) : ~InsertedVersion(o, t.slot, t.version)
    BY <2>2 DEF InsertDocument
  <2>. HIDE DEF t
  <2>5. BlobOK(t, blobs, files')
    BY <2>1, <2>2, <2>3 DEF BlobOK, AfterUpsert
  <2>6. SlotOK(t, Versions(t.slot))
    BY <1>2, <2>1, <2>2 DEF SlotOK
  <2>7. QED
    BY <2>2, <2>3, <2>4, <2>5, <2>6, WorkInvariant
<1>3. QED
  BY <1>1, <1>2 DEF InsertDocument

LEMMA AppendAuditInvariant ==
  ASSUME IInv, NEW r \in Req, AppendAudit(r)
  PROVE  IInv'
<1>. DEFINE t == [req[r] EXCEPT !.pc = "audited"]
<1>1. /\ req[r] \in Request /\ req[r].slot \in Slot /\ req[r].bytes \in Bytes
      /\ BlobOK(req[r], blobs, files) /\ req[r].pc = "inserted"
      /\ SlotOK(req[r], Versions(req[r].slot))
  BY AtWork DEF AppendAudit
<1>2. /\ t \in Request /\ t.pc = "audited" /\ t.reply = req[r].reply
      /\ t.slot = req[r].slot /\ t.bytes = req[r].bytes /\ t.fresh = req[r].fresh
      /\ t.replaced = req[r].replaced /\ t.version = req[r].version
  BY <1>1 DEF Request, Points
<1>3. /\ Become(r, t) /\ UNCHANGED tables /\ files' = files
      /\ files' \in SUBSET Bytes /\ temps' \in SUBSET Req
  BY DEF AppendAudit, storage, IInv, TypeOK
<1>. HIDE DEF t
<1>4. \A o \in Others(r) : ~InsertedVersion(o, t.slot, t.version)
  BY <1>1, <1>2 DEF Others, IInv, InsertedVersion
<1>5. BlobOK(t, blobs, files')
  BY <1>1, <1>2, <1>3 DEF BlobOK, AfterUpsert
<1>6. SlotOK(t, Versions(t.slot))
  BY <1>1, <1>2 DEF SlotOK
<1>7. QED
  BY <1>2, <1>3, <1>4, <1>5, <1>6, WorkInvariant

(* The heart of the argument: the rows of a slot after t's commit, when    *)
(* t's version is new and what t superseded is older.                      *)
LEMMA CommittedRows ==
  ASSUME NEW rows \in SUBSET Doc, NEW t \in Request, t.bytes \in Bytes,
         NEW versions, versions = VersionsOf(rows),
         \A d, e \in rows : d.version = e.version => d = e,
         \A d \in rows : d.version = 1 \/ d.version - 1 \in versions,
         \A d \in rows : (\A e \in rows : e.version <= d.version) => d.current,
         t.version \notin versions,
         t.version = 1 \/ t.version - 1 \in versions,
         \A v \in t.replaced : v < t.version,
         NEW after, after = RowsAfter(rows, t)
  PROVE  /\ after \in SUBSET Doc
         /\ VersionsOf(after) = versions \cup {t.version}
         /\ \A d, e \in after : d.version = e.version => d = e
         /\ \A d \in after : d.version = 1 \/ d.version - 1 \in versions \cup {t.version}
         /\ \A d \in after : (\A e \in after : e.version <= d.version) => d.current
         /\ \A d \in after : d.bytes = t.bytes \/ \E e \in rows : d.bytes = e.bytes
<1>1. /\ Inserted(t) \in Doc /\ Inserted(t).version = t.version
      /\ Inserted(t).bytes = t.bytes /\ Inserted(t).current
  <2>1. versions \subseteq Nat \ {0}
    BY DEF VersionsOf, Doc
  <2>2. t.version \in Nat \ {0}
    BY <2>1 DEF Request
  <2>3. QED
    BY <2>2 DEF Inserted, Doc
<1>2. \A d \in rows :
        /\ Superseded(d, t) \in Doc
        /\ Superseded(d, t).version = d.version
        /\ Superseded(d, t).bytes = d.bytes
        /\ Superseded(d, t).current = (d.current /\ d.version \notin t.replaced)
  BY DEF Superseded, Doc
<1>3. Inserted(t) \in after /\ \A d \in rows : Superseded(d, t) \in after
  BY DEF RowsAfter
<1>4. \A d \in after : d = Inserted(t) \/ \E e \in rows : d = Superseded(e, t)
  BY DEF RowsAfter
<1>5. t.version \in Nat /\ \A d \in rows : d.version \in Nat
  BY DEF Request, Doc
<1>6. after \in SUBSET Doc
  BY <1>1, <1>2, <1>4
<1>7. \A d \in after : d.version = t.version \/ d.version \in versions
  BY <1>1, <1>2, <1>4 DEF VersionsOf
<1>8. VersionsOf(after) = versions \cup {t.version}
  <2>. DEFINE numbers == VersionsOf(after)
  <2>1. \A v \in versions : v \in numbers
    BY <1>2, <1>3 DEF VersionsOf
  <2>2. t.version \in numbers
    BY <1>1, <1>3 DEF VersionsOf
  <2>3. \A v \in numbers : v = t.version \/ v \in versions
    BY <1>7 DEF VersionsOf
  <2>. HIDE DEF numbers
  <2>4. numbers = versions \cup {t.version}
    BY <2>1, <2>2, <2>3
  <2>5. QED
    BY <2>4 DEF numbers
<1>9. ASSUME NEW d \in after, NEW e \in after, d.version = e.version
      PROVE  d = e
  <2>1. \A x \in rows : x.version \in versions
    BY DEF VersionsOf
  <2>2. QED
    BY <1>1, <1>2, <1>4, <1>9, <2>1
<1>10. ASSUME NEW d \in after
       PROVE  d.version = 1 \/ d.version - 1 \in versions \cup {t.version}
  BY <1>1, <1>2, <1>4 DEF VersionsOf
<1>11. ASSUME NEW d \in after, \A e \in after : e.version <= d.version
       PROVE  d.current
  <2>1. CASE d = Inserted(t)
    BY <1>1, <2>1
  <2>2. ASSUME NEW e \in rows, d = Superseded(e, t)
        PROVE  d.current
    <3>1. d.version = e.version
      BY <1>2, <2>2
    <3>2. \A f \in rows : f.version <= e.version
      BY <1>2, <1>3, <1>11, <3>1
    <3>3. e.version \notin t.replaced
      <4>1. t.version <= e.version
        BY <1>1, <1>3, <1>11, <3>1
      <4>2. QED
        BY <1>5, <4>1
    <3>4. QED
      BY <1>2, <2>2, <3>2, <3>3
  <2>3. QED
    BY <1>4, <2>1, <2>2
<1>12. ASSUME NEW d \in after
       PROVE  d.bytes = t.bytes \/ \E e \in rows : d.bytes = e.bytes
  BY <1>1, <1>2, <1>4
<1>13. QED
  BY <1>6, <1>8, <1>9, <1>10, <1>11, <1>12

LEMMA CommitTables ==
  ASSUME IInv, NEW r \in Req, Commit(r)
  PROVE  /\ docs' \in [Slot -> SUBSET Doc]
         /\ \A s \in Slot :
              Versions(s)' = IF s = req[r].slot THEN Versions(s) \cup {req[r].version}
                                                ELSE Versions(s)
         /\ VersionsContiguous' /\ NewestIsCurrent'
         /\ \A s \in Slot : \A d \in docs'[s] : d.bytes \in blobs' /\ d.bytes \in files
         /\ blobs' \subseteq files /\ blobs' \subseteq Bytes /\ blobs \subseteq blobs'
<1>. DEFINE t == req[r]
            q == t.slot
            after == RowsAfter(docs[q], t)
<1>1. /\ t \in Request /\ q \in Slot /\ t.bytes \in Bytes /\ t.pc = "audited"
      /\ BlobOK(t, blobs, files) /\ SlotOK(t, Versions(q))
  BY AtWork DEF Commit
<1>2. /\ docs \in [Slot -> SUBSET Doc] /\ docs[q] \in SUBSET Doc
      /\ blobs \subseteq Bytes /\ blobs \subseteq files
  BY <1>1 DEF IInv, TypeOK
<1>3. /\ docs' = [docs EXCEPT ![q] = after]
      /\ docs'[q] = after
      /\ \A s \in Slot \ {q} : docs'[s] = docs[s]
  BY <1>1, <1>2 DEF Commit
<1>4. /\ t.version \notin Versions(q)
      /\ t.version = 1 \/ t.version - 1 \in Versions(q)
      /\ \A v \in t.replaced : v < t.version
  BY <1>1 DEF SlotOK
<1>5. /\ blobs' = IF t.fresh THEN blobs \cup {t.bytes} ELSE blobs
      /\ t.bytes \in files /\ t.bytes \in blobs'
  BY <1>1 DEF Commit, BlobOK, AfterUpsert
<1>6. /\ \A d, e \in docs[q] : d.version = e.version => d = e
      /\ \A d \in docs[q] : d.version = 1 \/ d.version - 1 \in Versions(q)
      /\ \A d \in docs[q] : (\A e \in docs[q] : e.version <= d.version) => d.current
  BY <1>1 DEF IInv, VersionsContiguous, NewestIsCurrent
<1>7. Versions(q) = VersionsOf(docs[q])
  BY DEF Versions
<1>. HIDE DEF t, q, after
<1>8. /\ after \in SUBSET Doc
      /\ VersionsOf(after) = Versions(q) \cup {t.version}
      /\ \A d, e \in after : d.version = e.version => d = e
      /\ \A d \in after : d.version = 1 \/ d.version - 1 \in Versions(q) \cup {t.version}
      /\ \A d \in after : (\A e \in after : e.version <= d.version) => d.current
      /\ \A d \in after : d.bytes = t.bytes \/ \E e \in docs[q] : d.bytes = e.bytes
  BY <1>1, <1>2, <1>4, <1>6, <1>7, CommittedRows DEF after
<1>9. docs' \in [Slot -> SUBSET Doc]
  BY <1>1, <1>2, <1>3, <1>8
<1>10. \A s \in Slot : Versions(s)' = IF s = q THEN Versions(q) \cup {t.version}
                                             ELSE Versions(s)
  <2>1. \A s \in Slot : Versions(s)' = VersionsOf(docs'[s])
    BY DEF Versions
  <2>2. \A s \in Slot \ {q} : Versions(s)' = Versions(s)
    BY <1>3, <2>1 DEF Versions
  <2>3. \A s \in Slot : s = q => Versions(s)' = Versions(q) \cup {t.version}
    BY <1>3, <1>8, <2>1
  <2>4. QED
    BY <2>2, <2>3
<1>11. VersionsContiguous'
  <2>1. ASSUME NEW s \in Slot
        PROVE  /\ \A d, e \in docs'[s] : d.version = e.version => d = e
               /\ \A d \in docs'[s] : d.version = 1 \/ d.version - 1 \in Versions(s)'
    <3>1. CASE s = q
      BY <1>3, <1>8, <1>10, <3>1
    <3>2. CASE s # q
      BY <1>3, <1>10, <3>2 DEF IInv, VersionsContiguous
    <3>3. QED
      BY <3>1, <3>2
  <2>2. QED
    BY <2>1 DEF VersionsContiguous
<1>12. NewestIsCurrent'
  <2>1. ASSUME NEW s \in Slot
        PROVE  \A d \in docs'[s] : (\A e \in docs'[s] : e.version <= d.version) => d.current
    <3>1. CASE s = q
      BY <1>3, <1>8, <3>1
    <3>2. CASE s # q
      BY <1>3, <3>2 DEF IInv, NewestIsCurrent
    <3>3. QED
      BY <3>1, <3>2
  <2>2. QED
    BY <2>1 DEF NewestIsCurrent
<1>13. \A s \in Slot : \A d \in docs'[s] : d.bytes \in blobs' /\ d.bytes \in files
  <2>1. \A s \in Slot : \A d \in docs[s] : d.bytes \in blobs' /\ d.bytes \in files
    BY <1>5 DEF IInv, DownloadsFindTheirFile
  <2>2. \A d \in after : d.bytes \in blobs' /\ d.bytes \in files
    BY <1>1, <1>5, <1>8, <2>1
  <2>3. QED
    BY <1>3, <2>1, <2>2
<1>14. blobs' \subseteq files /\ blobs' \subseteq Bytes /\ blobs \subseteq blobs'
  BY <1>1, <1>2, <1>5
<1>15. QED
  BY <1>9, <1>10, <1>11, <1>12, <1>13, <1>14 DEF t, q

(* The other transactions still have what they relied on: the slot only    *)
(* grows, and never by a version one of them has inserted.                 *)
LEMMA CommitInvariant ==
  ASSUME IInv, NEW r \in Req, Commit(r)
  PROVE  IInv'
<1>. DEFINE bare == Bare("idle", "ok")
<1>1. bare \in Request /\ bare.pc = "idle" /\ bare.reply = "ok"
  BY BareFacts DEF Points
<1>. HIDE DEF bare
<1>2. /\ req' = [req EXCEPT ![r] = bare] /\ phase' = phase /\ files' = files /\ temps' = temps
      /\ req[r].pc = "audited"
  BY DEF Commit, Become, storage, bare
<1>3. req'[r] = bare /\ \A o \in Req \ {r} : req'[o] = req[o]
  BY <1>2 DEF IInv, TypeOK
<1>4. /\ docs' \in [Slot -> SUBSET Doc]
      /\ \A s \in Slot :
           Versions(s)' = IF s = req[r].slot THEN Versions(s) \cup {req[r].version}
                                             ELSE Versions(s)
      /\ VersionsContiguous' /\ NewestIsCurrent'
      /\ \A s \in Slot : \A d \in docs'[s] : d.bytes \in blobs' /\ d.bytes \in files
      /\ blobs' \subseteq files /\ blobs' \subseteq Bytes /\ blobs \subseteq blobs'
  BY CommitTables
<1>5. TypeOK'
  BY <1>1, <1>2, <1>4 DEF IInv, TypeOK
<1>6. DownloadsFindTheirFile' /\ (blobs \subseteq files)'
  BY <1>1, <1>2, <1>3, <1>4 DEF IInv, DownloadsFindTheirFile
<1>7. ASSUME NEW o \in Req, (req[o].pc \notin {"idle", "failed"})'
      PROVE  (BlobOK(req[o], blobs, files) /\ SlotOK(req[o], Versions(req[o].slot)))'
  <2>1. o # r /\ req'[o] = req[o] /\ req[o].pc \notin {"idle", "failed"}
    BY <1>1, <1>3, <1>7
  <2>. DEFINE t == req[o]
              q == t.slot
              now == Versions(q)
              later == VersionsOf(docs'[q])
  <2>2. /\ t \in Request /\ q \in Slot /\ BlobOK(t, blobs, files) /\ SlotOK(t, now)
    BY <2>1, AtWork
  <2>3. later = IF q = req[r].slot THEN now \cup {req[r].version} ELSE now
    <3>1. \A s \in Slot : Versions(s)' = VersionsOf(docs'[s])
      BY DEF Versions
    <3>2. QED
      BY <1>4, <2>2, <3>1
  <2>4. q = req[r].slot /\ t.pc \in {"inserted", "audited"} => t.version # req[r].version
    BY <1>2, <2>1 DEF IInv, InsertedVersion
  <2>5. (Versions(req[o].slot))' = later
    BY <2>1 DEF Versions
  <2>6. BlobOK(t, blobs', files')
    BY <1>2, <1>4, <2>2 DEF BlobOK
  <2>. HIDE DEF t, q, now, later
  <2>7. SlotOK(t, later)
    BY <2>2, <2>3, <2>4 DEF SlotOK
  <2>8. req'[o] = t /\ (Versions(req[o].slot))' = later
    BY <2>1, <2>5 DEF t
  <2>9. QED
    BY <2>6, <2>7, <2>8 DEF BlobOK, SlotOK
<1>8. ASSUME NEW p \in Req, NEW o \in Req, req'[p].pc \in {"inserted", "audited"},
             req'[o].pc \in {"inserted", "audited"},
             req'[o].slot = req'[p].slot, req'[o].version = req'[p].version
      PROVE  p = o
  BY <1>1, <1>3, <1>8 DEF IInv, InsertedVersion
<1>9. QED
  BY <1>4, <1>5, <1>6, <1>7, <1>8 DEF IInv, InsertedVersion

LEMMA CleanUpInvariant ==
  ASSUME IInv, NEW r \in Req, CleanUp(r)
  PROVE  IInv'
<1>. DEFINE reply == req[r].reply
<1>1. reply \in {"none", "ok", "refused", "error", "aborted"}
  BY DEF IInv, TypeOK, Request, DownloadsFindTheirFile
<1>2. /\ Become(r, Bare("idle", reply)) /\ UNCHANGED tables /\ files' = files
      /\ temps' \in SUBSET Req
  BY DEF CleanUp, IInv, TypeOK
<1>. HIDE DEF reply
<1>3. QED
  BY <1>1, <1>2, BareInvariant

LEMMA DownloadInvariant ==
  ASSUME IInv, NEW r \in Req,
         \/ \E s \in Slot : OpenDownload(r, s)
         \/ StreamDownload(r)
  PROVE  IInv'
<1>1. ASSUME NEW s \in Slot, OpenDownload(r, s)
      PROVE  IInv'
  <2>1. PICK d \in docs[s] :
          /\ d.bytes \in blobs
          /\ Become(r, [Bare("opened", "none") EXCEPT !.slot = s, !.bytes = d.bytes])
    BY <1>1 DEF OpenDownload
  <2>. DEFINE b == d.bytes
              t == [Bare("opened", "none") EXCEPT !.slot = s, !.bytes = b]
  <2>2. b \in blobs /\ b \in Bytes
    BY <2>1 DEF IInv, TypeOK
  <2>. HIDE DEF b
  <2>3. /\ t \in Request /\ t.pc = "opened" /\ t.reply = "none"
        /\ t.slot = s /\ t.bytes = b
    BY <2>2 DEF Bare, Request, Points
  <2>4. Become(r, t)
    BY <2>1 DEF b
  <2>5. /\ docs' = docs /\ blobs' = blobs /\ phase' = phase
        /\ files' = files /\ files' \in SUBSET Bytes /\ temps' \in SUBSET Req
    BY <1>1 DEF OpenDownload, tables, storage, IInv, TypeOK
  <2>. HIDE DEF t
  <2>6. BlobOK(t, blobs, files') /\ SlotOK(t, Versions(t.slot))
    BY <2>2, <2>3 DEF BlobOK, SlotOK, AfterUpsert
  <2>7. QED
    BY <2>3, <2>4, <2>5, <2>6, StepInvariant
<1>2. CASE StreamDownload(r)
  <2>1. BlobOK(req[r], blobs, files) /\ req[r].pc = "opened"
    BY <1>2, AtWork DEF StreamDownload
  <2>2. req[r].bytes \in files
    BY <2>1 DEF BlobOK, IInv
  <2>3. /\ Become(r, Bare("idle", "ok")) /\ UNCHANGED tables /\ files' = files
        /\ temps' \in SUBSET Req
    BY <1>2, <2>2 DEF StreamDownload, storage, IInv, TypeOK
  <2>4. QED
    BY <2>3, BareInvariant
<1>3. QED
  BY <1>1, <1>2

(* Whatever was at work is gone; rows and files stay.                      *)
LEMMA CrashInvariant ==
  ASSUME IInv, Crash
  PROVE  IInv'
<1>. DEFINE bare == Bare("idle", "aborted")
<1>1. bare \in Request /\ bare.pc = "idle" /\ bare.reply = "aborted"
  BY BareFacts DEF Points
<1>2. /\ req' = [o \in Req |-> IF req[o].pc = "idle" THEN req[o] ELSE bare]
      /\ temps' = {} /\ phase' = phase /\ docs' = docs /\ blobs' = blobs /\ files' = files
  BY DEF Crash, tables
<1>. HIDE DEF bare
<1>3. /\ req' \in [Req -> Request]
      /\ \A o \in Req : req'[o].pc = "idle" /\ req'[o].reply # "missing"
  BY <1>1, <1>2 DEF IInv, TypeOK, DownloadsFindTheirFile
<1>4. TypeOK' /\ DownloadsFindTheirFile' /\ (blobs \subseteq files)'
  BY <1>2, <1>3 DEF IInv, TypeOK, DownloadsFindTheirFile
<1>5. VersionsContiguous' /\ NewestIsCurrent'
  BY <1>2 DEF IInv, VersionsContiguous, NewestIsCurrent, Versions
<1>6. QED
  BY <1>3, <1>4, <1>5 DEF IInv

LEMMA PhaseInvariant ==
  ASSUME IInv, MoveApplication
  PROVE  IInv'
<1>1. /\ phase' \in {"editable", "staff", "closed"}
      /\ UNCHANGED <<docs, blobs, storage, req>>
  BY DEF MoveApplication, PhaseOf
<1>2. TypeOK' /\ DownloadsFindTheirFile' /\ (blobs \subseteq files)'
  BY <1>1 DEF storage, IInv, TypeOK, DownloadsFindTheirFile
<1>3. VersionsContiguous' /\ NewestIsCurrent'
  BY <1>1 DEF IInv, VersionsContiguous, NewestIsCurrent, Versions
<1>4. QED
  BY <1>1, <1>2, <1>3 DEF storage, IInv, BlobOK, SlotOK, Versions, InsertedVersion

LEMMA InitInvariant == Init => IInv
<1>. SUFFICES ASSUME Init PROVE IInv
  OBVIOUS
<1>. DEFINE bare == Bare("idle", "none")
<1>1. bare \in Request /\ bare.pc = "idle" /\ bare.reply = "none"
  BY BareFacts DEF Points
<1>2. req = [r \in Req |-> bare]
  BY DEF Init
<1>. HIDE DEF bare
<1>3. TypeOK
  BY <1>1, <1>2 DEF Init, TypeOK, PhaseOf
<1>4. VersionsContiguous /\ NewestIsCurrent /\ DownloadsFindTheirFile
  BY <1>1, <1>2 DEF Init, VersionsContiguous, NewestIsCurrent, DownloadsFindTheirFile
<1>5. QED
  BY <1>1, <1>2, <1>3, <1>4 DEF Init, IInv

LEMMA NextInvariant == IInv /\ [Next]_vars => IInv'
<1>. SUFFICES ASSUME IInv, [Next]_vars PROVE IInv'
  OBVIOUS
<1>1. CASE MoveApplication
  BY <1>1, PhaseInvariant
<1>2. CASE Crash
  BY <1>2, CrashInvariant
<1>3. ASSUME NEW r \in Req,
             \/ \E s \in Slot, b \in Bytes : StreamToTemp(r, s, b)
             \/ StreamDone(r)
             \/ StreamRefused(r)
      PROVE  IInv'
  BY <1>3, StreamInvariant
<1>4. ASSUME NEW r \in Req,
             \/ \E s \in Slot : OpenDownload(r, s)
             \/ StreamDownload(r)
      PROVE  IInv'
  BY <1>4, DownloadInvariant
<1>5. ASSUME NEW r \in Req, NEW isOwner \in BOOLEAN, CheckApplication(r, isOwner)
      PROVE  IInv'
  BY <1>5, CheckInvariant
<1>6. ASSUME NEW r \in Req, UpsertBlob(r)
      PROVE  IInv'
  BY <1>6, UpsertBlobInvariant
<1>7. ASSUME NEW r \in Req, PlaceFile(r)
      PROVE  IInv'
  BY <1>7, PlaceFileInvariant
<1>8. ASSUME NEW r \in Req, FindCurrentSlot(r)
      PROVE  IInv'
  BY <1>8, FindCurrentSlotInvariant
<1>9. ASSUME NEW r \in Req, SupersedeCurrentSlot(r)
      PROVE  IInv'
  BY <1>9, SupersedeInvariant
<1>10. ASSUME NEW r \in Req, NextVersionForSlot(r)
       PROVE  IInv'
  BY <1>10, NextVersionInvariant
<1>11. ASSUME NEW r \in Req, InsertDocument(r)
       PROVE  IInv'
  BY <1>11, InsertDocumentInvariant
<1>12. ASSUME NEW r \in Req, AppendAudit(r)
       PROVE  IInv'
  BY <1>12, AppendAuditInvariant
<1>13. ASSUME NEW r \in Req, Commit(r)
       PROVE  IInv'
  BY <1>13, CommitInvariant
<1>14. ASSUME NEW r \in Req, Abort(r)
       PROVE  IInv'
  BY <1>14, ThrowInvariant DEF Abort
<1>15. ASSUME NEW r \in Req, CleanUp(r)
       PROVE  IInv'
  BY <1>15, CleanUpInvariant
<1>16. CASE UNCHANGED vars
  BY <1>16 DEF vars, IInv, TypeOK, VersionsContiguous, NewestIsCurrent,
               DownloadsFindTheirFile, BlobOK, SlotOK, Versions, InsertedVersion
<1>17. QED
  BY <1>1, <1>2, <1>3, <1>4, <1>5, <1>6, <1>7, <1>8, <1>9, <1>10, <1>11, <1>12,
     <1>13, <1>14, <1>15, <1>16 DEF Next

-----------------------------------------------------------------------------
(* The inductive invariant holds of every behaviour, and with it the       *)
(* properties that are its conjuncts.                                      *)
THEOREM DocumentsInvariant == Spec => []IInv
<1>1. Init => IInv
  BY InitInvariant
<1>2. IInv /\ [Next]_vars => IInv'
  BY NextInvariant
<1>3. QED
  BY <1>1, <1>2, PTL DEF Spec

(* The variables have their types.                                         *)
THEOREM DocumentsTypeCorrect == Spec => []TypeOK
<1>1. IInv => TypeOK
  BY DEF IInv
<1>2. QED
  BY <1>1, DocumentsInvariant, PTL

(* Concurrent uploads into a slot never commit one version twice and leave *)
(* no gap (documents.repo.ts 32-38).                                       *)
THEOREM SlotVersions == Spec => []VersionsContiguous
<1>1. IInv => VersionsContiguous
  BY DEF IInv
<1>2. QED
  BY <1>1, DocumentsInvariant, PTL

(* No upload supersedes a newer document (documents.service.ts 172-174).   *)
THEOREM NewestStaysCurrent == Spec => []NewestIsCurrent
<1>1. IInv => NewestIsCurrent
  BY DEF IInv
<1>2. QED
  BY <1>1, DocumentsInvariant, PTL

(* A committed document can always be downloaded (documents.service.ts     *)
(* 160-170, 242-269), whatever uploads were rolled back or crashed.        *)
THEOREM BytesStayAvailable == Spec => []DownloadsFindTheirFile
<1>1. IInv => DownloadsFindTheirFile
  BY DEF IInv
<1>2. QED
  BY <1>1, DocumentsInvariant, PTL

(* A temporary file belongs to an upload that will move or discard it      *)
(* (documents.service.ts 111-114, 203-206).                                *)
THEOREM TempsHaveUploads == Spec => []TempsOfUploads
<1>1. Init => TempsOfUploads
  BY DEF Init, TempsOfUploads
<1>2. ASSUME IInv, TempsOfUploads, [Next]_vars
      PROVE  TempsOfUploads'
  <2>1. CASE MoveApplication \/ UNCHANGED vars
    BY <1>2, <2>1 DEF MoveApplication, vars, storage, TempsOfUploads
  <2>2. CASE Crash
    BY <2>2 DEF Crash, TempsOfUploads
  <2>3. ASSUME NEW r \in Req, NEW t,
               Become(r, t), temps' \subseteq temps \cup {r},
               r \in temps' =>
                 t.pc \in {"streaming", "streamed", "checked", "upserted", "failed"}
        PROVE  TempsOfUploads'
    <3>1. req'[r] = t /\ \A o \in Req \ {r} : req'[o] = req[o]
      BY <1>2, <2>3 DEF Become, IInv, TypeOK
    <3>2. temps \subseteq Req
      BY <1>2 DEF IInv, TypeOK
    <3>3. QED
      BY <1>2, <2>3, <3>1, <3>2 DEF TempsOfUploads
  <2>4. ASSUME NEW r \in Req, NEW s \in Slot, NEW b \in Bytes, StreamToTemp(r, s, b)
        PROVE  TempsOfUploads'
    <3>1. [Bare("streaming", "none") EXCEPT !.slot = s, !.bytes = b].pc = "streaming"
      BY DEF Bare
    <3>2. QED
      BY <2>3, <2>4, <3>1 DEF StreamToTemp
  <2>5. ASSUME NEW r \in Req,
               \/ StreamDone(r) \/ UpsertBlob(r) \/ FindCurrentSlot(r) \/ AppendAudit(r)
               \/ SupersedeCurrentSlot(r) \/ NextVersionForSlot(r) \/ InsertDocument(r)
               \/ \E isOwner \in BOOLEAN : CheckApplication(r, isOwner)
               \/ Abort(r)
        PROVE  TempsOfUploads'
    <3>1. req[r] \in Request /\ temps' = temps
      BY <1>2, <2>5 DEF IInv, TypeOK, StreamDone, UpsertBlob, FindCurrentSlot, AppendAudit,
         SupersedeCurrentSlot, NextVersionForSlot, InsertDocument, CheckApplication, Abort,
         Throw, storage
    <3>2. ASSUME NEW reply, Throw(r, reply)
          PROVE  TempsOfUploads'
      <4>1. Bare("failed", reply).pc = "failed"
        BY DEF Bare
      <4>2. QED
        BY <2>3, <3>1, <3>2, <4>1 DEF Throw
    <3>3. CASE StreamDone(r)
      BY <2>3, <3>1, <3>3 DEF StreamDone, Request
    <3>4. CASE \E isOwner \in BOOLEAN : CheckApplication(r, isOwner)
      BY <2>3, <3>1, <3>2, <3>4 DEF CheckApplication, Request
    <3>5. CASE UpsertBlob(r)
      BY <2>3, <3>1, <3>5 DEF UpsertBlob, Request
    <3>6. CASE req[r].pc \in AfterUpsert \ {"upserted"}
      <4>1. r \notin temps
        BY <1>2, <3>6 DEF TempsOfUploads, AfterUpsert
      <4>2. \A o \in Req \ {r} : req'[o] = req[o]
        BY <1>2, <2>5 DEF IInv, TypeOK, StreamDone, UpsertBlob, FindCurrentSlot, AppendAudit,
           SupersedeCurrentSlot, NextVersionForSlot, InsertDocument, CheckApplication, Abort,
           Throw, Become
      <4>3. QED
        BY <1>2, <3>1, <4>1, <4>2 DEF TempsOfUploads, IInv, TypeOK
    <3>7. CASE Abort(r)
      BY <3>2, <3>7 DEF Abort
    <3>8. QED
      BY <2>5, <3>3, <3>4, <3>5, <3>6, <3>7 DEF FindCurrentSlot, AppendAudit,
         SupersedeCurrentSlot, NextVersionForSlot, InsertDocument, AfterUpsert
  <2>6. ASSUME NEW r \in Req,
               StreamRefused(r) \/ PlaceFile(r) \/ CleanUp(r) \/ Commit(r)
               \/ StreamDownload(r) \/ \E s \in Slot : OpenDownload(r, s)
        PROVE  TempsOfUploads'
    <3>1. /\ \A o \in Req \ {r} : req'[o] = req[o]
          /\ temps' \subseteq temps /\ r \notin temps'
      BY <1>2, <2>6 DEF IInv, TypeOK, StreamRefused, PlaceFile, CleanUp, Commit,
         StreamDownload, OpenDownload, Become, storage, TempsOfUploads
    <3>2. QED
      BY <1>2, <3>1 DEF TempsOfUploads, IInv, TypeOK
  <2>7. QED
    BY <1>2, <2>1, <2>2, <2>4, <2>5, <2>6 DEF Next
<1>3. QED
  BY <1>1, <1>2, DocumentsInvariant, PTL DEF Spec
=============================================================================
