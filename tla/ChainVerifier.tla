--------------------------- MODULE ChainVerifier ---------------------------
(***************************************************************************)
(* The audit chain verifier: verifyChain of admin.service.ts, the hash it  *)
(* recomputes (audit-hash.ts), and what /admin/audit/verify makes of its   *)
(* answer.                                                                 *)
(*                                                                         *)
(* SHA-256 with the server's secret is taken to be one-way and without     *)
(* collisions, so a hash is represented by what it was computed over: the  *)
(* sequence of the entries from the genesis value to the row.  An entry is *)
(* everything the payload covers, which is every column but the id and the *)
(* two hashes.  Nobody without the secret can make a new hash; a hash can  *)
(* only be copied from another row.                                        *)
(*                                                                         *)
(* All this holds of a server that has AUDIT_HASH_SECRET.  The variable is *)
(* optional (env.ts 16, audit-hash.ts 84): without it, whoever can write   *)
(* rows can compute their hashes.                                          *)
(***************************************************************************)
EXTENDS Naturals, SequencesExt

Genesis == <<>>

(* computeRowHash over payloadBytes: the payload repeats the prev_hash.    *)
HashOf(prevHash, entry) == Append(prevHash, entry)

(* recordAuditEvent's row after a row whose hash is prevHash.              *)
RowAfter(prevHash, id, entry) ==
  [id |-> id, entry |-> entry, prevHash |-> prevHash, rowHash |-> HashOf(prevHash, entry)]

ExpectedPrevHash(rows, i) == IF i = 1 THEN Genesis ELSE rows[i - 1].rowHash

MutantRowFault(rows, i) ==  \* mutant: each row only checked against itself
  IF rows[i].rowHash # HashOf(rows[i].prevHash, rows[i].entry) THEN "row_hash_mismatch"
  ELSE "none"

(* One turn of the loop: the first of the two comparisons that fails.      *)
RowFault(rows, i) ==
  IF rows[i].prevHash # ExpectedPrevHash(rows, i) THEN "prev_hash_mismatch"
  ELSE IF rows[i].rowHash # HashOf(rows[i].prevHash, rows[i].entry) THEN "row_hash_mismatch"
  ELSE "none"

(* verifyChain over the rows in id order.  rowsChecked counts all of them, *)
(* also when the loop returned at the first.  0 stands for a null id.      *)
VerifyChain(rows) ==
  LET bad == {i \in DOMAIN rows : RowFault(rows, i) # "none"}
      first == IF bad = {} THEN Len(rows) + 1 ELSE Min(bad)
  IN [ok |-> bad = {},
      reason |-> IF bad = {} THEN "none" ELSE RowFault(rows, first),
      firstBadId |-> IF bad = {} THEN 0 ELSE rows[first].id,
      lastVerifiedId |-> IF first = 1 THEN 0 ELSE rows[first - 1].id,
      rowsChecked |-> Len(rows)]

(* The page: the outcome load makes of the result, the hero and the three  *)
(* figures under it, a null id drawn as a dash.  The last verified id is   *)
(* shown for a good chain only.                                            *)
VerifyPage(result) ==
  [hero |-> IF result.ok THEN "verified" ELSE "tampered",
   reason |-> result.reason,
   rowsChecked |-> result.rowsChecked,
   lastVerified |-> IF result.ok THEN result.lastVerifiedId ELSE 0,
   firstBad |-> IF result.ok THEN 0 ELSE result.firstBadId]

-----------------------------------------------------------------------------
(* What one change by hand, without the secret, can make of a log: rows    *)
(* cut off the end, a row removed, two exchanged, one repeated, an entry   *)
(* rewritten, a hash taken from another row.                               *)

EditedEntry == 0

WithContentOf(row, other) == [other EXCEPT !.id = row.id]

CutOff(rows) == {SubSeq(rows, 1, n) : n \in 0..Len(rows)}

Removed(rows) == {RemoveAt(rows, i) : i \in DOMAIN rows}

Exchanged(rows) ==
  {[rows EXCEPT ![i] = WithContentOf(@, rows[j]), ![j] = WithContentOf(@, rows[i])]
     : i, j \in DOMAIN rows}

Repeated(rows) == {Append(rows, [rows[i] EXCEPT !.id = Last(rows).id + 1]) : i \in DOMAIN rows}

Rewritten(rows) == {[rows EXCEPT ![i].entry = EditedEntry] : i \in DOMAIN rows}

Relinked(rows) == {[rows EXCEPT ![i].prevHash = rows[j].rowHash] : i, j \in DOMAIN rows}

Rehashed(rows) ==
  {[rows EXCEPT ![i].entry = EditedEntry, ![i].rowHash = rows[j].rowHash]
     : i, j \in DOMAIN rows}

AlteredLogs(rows) ==
  CutOff(rows) \cup Removed(rows) \cup Exchanged(rows) \cup Repeated(rows)
    \cup Rewritten(rows) \cup Relinked(rows) \cup Rehashed(rows)

(* The ids are outside the hash.                                           *)
Contents(rows) == [i \in DOMAIN rows |-> [rows[i] EXCEPT !.id = 0]]

(* The first n rows are the ones that were written.                        *)
Truthful(rows, honest, n) ==
  /\ n <= Len(honest)
  /\ SubSeq(Contents(rows), 1, n) = SubSeq(Contents(honest), 1, n)

(* What the page owes a reader about rows, when honest is what was written:*)
(* it accepts only what is truthful to the end, and else points at the     *)
(* first row that is not.                                                  *)
Located(rows, honest) ==
  LET page == VerifyPage(VerifyChain(rows))
  IN IF page.hero = "verified" THEN Truthful(rows, honest, Len(rows))
     ELSE \E i \in DOMAIN rows : /\ page.firstBad = rows[i].id
                                 /\ Truthful(rows, honest, i - 1)
                                 /\ ~Truthful(rows, honest, i)
=============================================================================
