------------------------------ MODULE AuditLog ------------------------------
(***************************************************************************)
(* The hash-chained audit log, and the transactions that append to it.     *)
(*                                                                         *)
(* Every mutation of the backend is one transaction: a domain write, which *)
(* may have to wait for a row another transaction holds (an application, a *)
(* document slot, a blob, a role grant), then one recordAuditEvent, or two *)
(* when request_info pins its note.  recordAuditEvent reads the last row   *)
(* with SELECT .. ORDER BY id DESC LIMIT 1 FOR UPDATE and inserts a row    *)
(* whose prev_hash is the row_hash it read.                                *)
(*                                                                         *)
(* At READ COMMITTED the SELECT picks its row from the snapshot taken when *)
(* the statement starts, and only then waits for the row's lock.  A holder *)
(* that locked the row without changing it leaves nothing to evaluate      *)
(* again: the waiter gets the row it picked, last or not.  So the SELECT   *)
(* is two steps, SelectTail and LockTail.  An empty table locks nothing.   *)
(*                                                                         *)
(* A hash stands for the row it is the hash of: prev[id] is the id of the  *)
(* row whose row_hash row id carries as prev_hash, 0 the genesis value.    *)
(***************************************************************************)
EXTENDS Naturals, Sequences, FiniteSets, IdOrder, ChainVerifier

CONSTANTS
  Txn,         \* connections: at most this many transactions at once
  Resource,    \* rows of other tables that domain writes contend for
  None,        \* no resource: the domain write only inserts
  Owner,       \* the connections of the tables' owner (tests, seed); the
               \* others are app_user's, who may not UPDATE audit_log
  Seeded,      \* audit rows the seed left, one after the other
  MaxRow       \* bound: no transaction starts with this many ids drawn

ASSUME LogAssumption ==
  /\ IsFiniteSet(Txn) /\ Txn # {}
  /\ None \notin Resource
  /\ Owner \subseteq Txn
  /\ Seeded \in Nat /\ MaxRow \in Nat

VARIABLES
  prev,       \* prev[id]: the predecessor of the row inserted with id
  committed,  \* ids of the committed rows
  txn         \* txn[t]: the transaction connection t runs

vars == <<prev, committed, txn>>

-----------------------------------------------------------------------------
(* mine are the ids of the rows a transaction inserted, held the audit     *)
(* rows it locked, tail the row its SELECT returned or waits for.          *)
Idle == [pc |-> "idle", res |-> None, left |-> 0, tail |-> 0, mine |-> {}, held |-> {}]

Ids == 1..Len(prev)

TypeOK ==
  /\ prev \in Seq(Nat)
  /\ committed \subseteq Ids
  /\ txn \in [Txn -> [pc : {"idle", "writing", "appending", "waiting", "inserting", "done",
                            "denied"},
                      res : Resource \cup {None}, left : 0..2, tail : Nat,
                      mine : SUBSET Ids, held : SUBSET Ids]]

Init ==
  /\ prev = [id \in 1..Seeded |-> id - 1]
  /\ committed = 1..Seeded
  /\ txn = [t \in Txn |-> Idle]

(* Connection t runs no transaction.                                       *)
Free(t) == txn[t].pc \in {"idle", "denied"}

(* The row of another table that u wrote and holds until it ends.          *)
HoldsResource(u, res) ==
  res # None /\ txn[u].res = res /\ ~Free(u) /\ txn[u].pc # "writing"

MutantVisible(t) ==  \* mutant: READ UNCOMMITTED
  committed \cup UNION {txn[u].mine : u \in Txn}

(* The rows t's statements see.                                            *)
Visible(t) == committed \cup txn[t].mine

MutantLargest(ids) ==  \* mutant: ORDER BY id ASC
  IF ids = {} THEN 0 ELSE CHOOSE id \in ids : \A other \in ids : id <= other

Largest(ids) ==
  IF ids = {} THEN 0 ELSE CHOOSE id \in ids : \A other \in ids : other <= id

Step(t, state) == txn' = [txn EXCEPT ![t] = state]

-----------------------------------------------------------------------------
(* BEGIN of a mutation that will append n audit rows, with its domain      *)
(* write when that only inserts.                                           *)
Begin(t, res, n) ==
  /\ Free(t)
  /\ Len(prev) < MaxRow
  /\ Step(t, [Idle EXCEPT !.pc = IF res = None THEN "appending" ELSE "writing",
                        !.res = res, !.left = n])
  /\ UNCHANGED <<prev, committed>>

(* The domain write, which waits for the row's holder.                     *)
Write(t) ==
  /\ txn[t].pc = "writing"
  /\ \A u \in Txn \ {t} : ~HoldsResource(u, txn[t].res)
  /\ Step(t, [txn[t] EXCEPT !.pc = "appending"])
  /\ UNCHANGED <<prev, committed>>

MutantSelectTail(t) ==  \* mutant: ORDER BY occurred_at, whose order is any
  \E tail \in Visible(t) \cup {0} :
    /\ txn[t].pc = "appending" /\ t \in Owner
    /\ tail = 0 => Visible(t) = {}
    /\ Step(t, [txn[t] EXCEPT !.pc = IF tail = 0 THEN "inserting" ELSE "waiting",
                              !.tail = tail])
    /\ UNCHANGED <<prev, committed>>

(* SELECT .. FOR UPDATE, its snapshot: the row with the largest id among   *)
(* those t sees.                                                           *)
SelectTail(t) ==
  LET tail == Largest(Visible(t))
  IN /\ txn[t].pc = "appending" /\ t \in Owner
     /\ Step(t, [txn[t] EXCEPT !.pc = IF tail = 0 THEN "inserting" ELSE "waiting",
                               !.tail = tail])
     /\ UNCHANGED <<prev, committed>>

(* FOR UPDATE needs the UPDATE privilege: without it the SELECT raises     *)
(* 42501, the transaction is rolled back and the request is a 500.         *)
SelectDenied(t) ==
  /\ txn[t].pc = "appending" /\ t \notin Owner
  /\ Step(t, [Idle EXCEPT !.pc = "denied"])
  /\ UNCHANGED <<prev, committed>>

(* SELECT .. FOR UPDATE, its lock, once no other transaction has it.       *)
LockTail(t) ==
  /\ txn[t].pc = "waiting"
  /\ \A u \in Txn \ {t} : txn[t].tail \notin txn[u].held
  /\ Step(t, [txn[t] EXCEPT !.pc = "inserting", !.held = @ \cup {txn[t].tail}])
  /\ UNCHANGED <<prev, committed>>

MutantInsert(t) ==  \* mutant: one append too many
  /\ txn[t].pc = "inserting"
  /\ prev' = Append(prev, txn[t].tail)
  /\ Step(t, [txn[t] EXCEPT !.pc = IF txn[t].left = 0 THEN "done" ELSE "appending",
                            !.left = @ - 1, !.tail = 0,
                            !.mine = @ \cup {Len(prev) + 1}])
  /\ UNCHANGED committed

(* INSERT: the row takes the next id and the prev_hash that was read.      *)
Insert(t) ==
  /\ txn[t].pc = "inserting"
  /\ prev' = Append(prev, txn[t].tail)
  /\ Step(t, [txn[t] EXCEPT !.pc = IF txn[t].left = 1 THEN "done" ELSE "appending",
                            !.left = @ - 1, !.tail = 0,
                            !.mine = @ \cup {Len(prev) + 1}])
  /\ UNCHANGED committed

MutantCommit(t) ==  \* mutant: the connection is reused with its locks
  /\ txn[t].pc = "done"
  /\ committed' = committed \cup txn[t].mine
  /\ Step(t, [Idle EXCEPT !.held = txn[t].held])
  /\ UNCHANGED prev

(* COMMIT: the rows become visible and the locks are free.                 *)
Commit(t) ==
  /\ txn[t].pc = "done"
  /\ committed' = committed \cup txn[t].mine
  /\ Step(t, Idle)
  /\ UNCHANGED prev

(* ROLLBACK, after an error of any statement or a lost connection.  The    *)
(* ids drawn stay drawn.                                                   *)
Abort(t) ==
  /\ ~Free(t)
  /\ Step(t, Idle)
  /\ UNCHANGED <<prev, committed>>

(* Every id of the bound is drawn and nothing is in flight.                *)
AtBound ==
  /\ Len(prev) >= MaxRow
  /\ \A t \in Txn : Free(t)
  /\ UNCHANGED vars

Next ==
  \/ \E t \in Txn :
       \/ \E res \in Resource \cup {None}, n \in 1..2 : Begin(t, res, n)
       \/ Write(t)
       \/ SelectTail(t)
       \/ SelectDenied(t)
       \/ LockTail(t)
       \/ Insert(t)
       \/ Commit(t)
       \/ Abort(t)
  \/ AtBound

Spec == Init /\ [][Next]_vars

(* A row lock goes to whoever has waited longest, so a wait that can end   *)
(* again and again does end; the other statements wait for nothing.        *)
Fairness ==
  \A t \in Txn :
    /\ SF_vars(Write(t))
    /\ SF_vars(LockTail(t))
    /\ WF_vars(SelectTail(t))
    /\ WF_vars(SelectDenied(t))
    /\ WF_vars(Insert(t))
    /\ WF_vars(Commit(t))

FairSpec == Spec /\ Fairness

-----------------------------------------------------------------------------
(* No committed row carries a hash that was never committed: its           *)
(* predecessor is the genesis value or an older committed row, even when   *)
(* transactions roll back between two appends (audit-hash.ts 92-123).      *)
NoDanglingPrev ==
  \A id \in committed : prev[id] = 0 \/ (prev[id] < id /\ prev[id] \in committed)

(* The chain can branch, but no wider than the requests in flight: each    *)
(* connection extends a given row at most once (db/index.ts: 10 of them).  *)
ForkWidthBounded ==
  \A id \in committed \cup {0} :
    Cardinality({next \in committed : prev[next] = id}) <= Cardinality(Txn)

(* Why appends cannot deadlock: a transaction waits only for a row younger *)
(* than every audit row it holds, and holds its other locks before it      *)
(* takes the first of these.                                               *)
LocksAscend ==
  \A t \in Txn :
    /\ txn[t].pc = "waiting" => \A id \in txn[t].held : id <= txn[t].tail
    /\ txn[t].pc = "writing" => txn[t].held = {}

(* Every mutation ends: waiting for a row or for the tail is never forever.*)
EveryTransactionEnds == \A t \in Txn : ~Free(t) ~> Free(t)

(* The predecessor verifyChain expects of row id: the committed row before *)
(* it in id order.                                                         *)
ExpectedPrev(id) == Largest({other \in committed : other < id})

(* The hash recordAuditEvent computes over the row it had read.            *)
RowHash[id \in Ids \cup {0}] ==
  IF id = 0 THEN Genesis ELSE HashOf(RowHash[prev[id]], id)

(* The committed rows as verifyChain reads them: in id order.              *)
CommittedRows ==
  LET inOrder == InIdOrder(committed)
  IN [i \in DOMAIN inOrder |->
        RowAfter(RowHash[prev[inOrder[i]]], inOrder[i], inOrder[i])]

Forked ==
  \E id, other \in committed : id # other /\ prev[id] = prev[other]

(* What a red verifier means when nobody altered a row: two appends read   *)
(* the same tail.  Rollbacks, gaps in the ids and COMMITs out of id order  *)
(* never raise it on their own, and a fork always does: "tampered" on the  *)
(* page is not the word for it (admin.service.ts 98-155).                  *)
AlarmMeansFork ==
  (VerifyPage(VerifyChain(CommittedRows)).hero = "tampered") <=> Forked

(* Of a log that verified, one change by hand is accepted exactly when it  *)
(* cut rows off the end; any other is refused at the first row that is not *)
(* the one that was written there.                                         *)
AlterationsLocated ==
  LET honest == CommittedRows
  IN ~Forked => \A rows \in AlteredLogs(honest) : Located(rows, honest)

(* verifyChain's ok, when nobody touched a row: design.md 87 says appends  *)
(* "serialise and chain forks are impossible".                             *)
ChainVerifies == \A id \in committed : prev[id] = ExpectedPrev(id)

(* The runtime role can do its work: backend/README.md 48 says app_user    *)
(* "is the runtime (no UPDATE/DELETE on audit_log)".                       *)
NoAppendDenied == \A t \in Txn : txn[t].pc # "denied"
=============================================================================
