--------------------------- MODULE AuditLog_proofs ---------------------------
(***************************************************************************)
(* Theorems about AuditLog, for every set of connections and resources,    *)
(* every seed and every bound.                                             *)
(***************************************************************************)
EXTENDS AuditLog, ChainVerifier_proofs

-----------------------------------------------------------------------------
(* The inductive invariant.                                                *)

Selected(x) == x.pc \in {"waiting", "inserting"}

(* What a transaction in state x relies on, given the committed ids and    *)
(* the predecessors: it holds and extends rows it sees; the tail it picked *)
(* is the largest of what it had locked and inserted by then; and of its   *)
(* own rows the later one is after the earlier.                            *)
TxnOK(x, rows, links) ==
  LET seen == rows \cup x.mine
  IN /\ x.pc \in {"idle", "denied", "writing"} => x.mine = {} /\ x.held = {}
     /\ x.pc \in {"writing", "appending", "waiting", "inserting"} => x.left \in 1..2
     /\ x.held \subseteq seen /\ x.mine \cap rows = {}
     /\ \A id \in x.mine : links[id] = 0 \/ (links[id] < id /\ links[id] \in seen)
     /\ \A n, m \in x.mine : n < m => n <= links[m]
     /\ Selected(x) => x.tail \in seen \cup {0} /\ \A id \in x.mine \cup x.held : id <= x.tail
     /\ x.pc = "waiting" => x.tail # 0

LogInv ==
  /\ TypeOK /\ NoDanglingPrev
  /\ \A id \in Ids : prev[id] < id
  /\ \A t \in Txn : TxnOK(txn[t], committed, prev)
  /\ \A t, u \in Txn : t # u => txn[t].mine \cap txn[u].mine = {}

(* Every committed row has somebody who inserted it.  A connection sees    *)
(* what it inserted, so each of its rows is after its earlier ones.        *)
Inserted(owner) ==
  /\ \A n, m \in committed : (n < m /\ owner[n] = owner[m]) => n <= prev[m]
  /\ \A t \in Txn, n \in committed :
       owner[n] = t => /\ \A m \in txn[t].mine : n <= prev[m]
                       /\ Selected(txn[t]) => n <= txn[t].tail

SomebodyInserted == \E owner \in [committed -> Txn] : Inserted(owner)

-----------------------------------------------------------------------------
(* Lemmas.                                                                 *)

LEMMA LargestFacts ==
  ASSUME NEW n \in Nat, NEW S \in SUBSET (1..n)
  PROVE  /\ Largest(S) \in S \cup {0} /\ Largest(S) \in 0..n
         /\ Largest(S) = 0 <=> S = {}
         /\ \A id \in S : id <= Largest(S)
<1>1. CASE S = {}
  BY <1>1 DEF Largest
<1>2. CASE S # {}
  <2>1. \E id \in S : \A other \in S : other <= id
    <3>1. S \in SUBSET (0..n)
      OBVIOUS
    <3>2. QED
      BY <1>2, <3>1, Greatest
  <2>2. Largest(S) \in S /\ \A other \in S : other <= Largest(S)
    BY <1>2, <2>1 DEF Largest
  <2>3. Largest(S) \in 1..n
    BY <2>2
  <2>4. QED
    BY <1>2, <2>2, <2>3
<1>3. QED
  BY <1>1, <1>2

Txns == [pc : {"idle", "writing", "appending", "waiting", "inserting", "done", "denied"},
         res : Resource \cup {None}, left : 0..2, tail : Nat,
         mine : SUBSET Ids, held : SUBSET Ids]

(* What a transaction relies on stays so when others commit or insert.     *)
LEMMA OthersKeep ==
  ASSUME NEW n \in Nat, NEW x \in Txns, NEW rows, NEW links, NEW rows2, NEW links2,
         x.mine \subseteq 1..n, x.held \subseteq 1..n,
         TxnOK(x, rows, links), rows \subseteq rows2, x.mine \cap rows2 = {},
         \A id \in 1..n : links2[id] = links[id]
  PROVE  TxnOK(x, rows2, links2)
BY DEF TxnOK, Selected

(* A step that inserts and commits nothing keeps the invariant when the    *)
(* transaction's new state fits the rows.                                  *)
LEMMA StepInvariant ==
  ASSUME LogInv, NEW t \in Txn, NEW state \in Txns, Step(t, state),
         prev' = prev, committed' = committed,
         state.mine \subseteq txn[t].mine, TxnOK(state, committed, prev)
  PROVE  LogInv'
<1>1. txn' \in [Txn -> Txns] /\ txn'[t] = state /\ \A u \in Txn \ {t} : txn'[u] = txn[u]
  BY DEF LogInv, TypeOK, Step, Txns, Ids
<1>2. TypeOK'
  BY <1>1 DEF LogInv, TypeOK, Txns, Ids
<1>3. NoDanglingPrev'
  BY DEF LogInv, NoDanglingPrev
<1>4. ASSUME NEW u \in Txn
      PROVE  TxnOK(txn[u], committed, prev)'
  <2>1. TxnOK(txn'[u], committed, prev)
    BY <1>1 DEF LogInv
  <2>2. QED
    BY <2>1
<1>5. \A u, v \in Txn : u # v => txn'[u].mine \cap txn'[v].mine = {}
  <2>1. \A u \in Txn : txn'[u].mine \subseteq txn[u].mine
    BY <1>1
  <2>2. QED
    BY <2>1 DEF LogInv
<1>6. (\A id \in Ids : prev[id] < id)'
  BY DEF LogInv, Ids
<1>7. QED
  BY <1>2, <1>3, <1>4, <1>5, <1>6 DEF LogInv

LEMMA IdleFacts ==
  ASSUME NEW rows, NEW links
  PROVE  /\ Idle \in Txns /\ Idle.mine = {} /\ TxnOK(Idle, rows, links)
         /\ Idle.pc = "idle" /\ Idle.held = {}
BY DEF Idle, Txns, TxnOK, Selected

LEMMA BeginInvariant ==
  ASSUME LogInv, NEW t \in Txn, NEW res \in Resource \cup {None}, NEW n \in 0..2,
         n # 0, Begin(t, res, n)
  PROVE  LogInv'
<1>. DEFINE point == IF res = None THEN "appending" ELSE "writing"
            state == [Idle EXCEPT !.pc = point, !.res = res, !.left = n]
<1>1. Step(t, state) /\ prev' = prev /\ committed' = committed
  BY DEF Begin
<1>2. point \in {"appending", "writing"}
  OBVIOUS
<1>. HIDE DEF point
<1>3. Idle \in Txns /\ Idle.mine = {} /\ Idle.held = {}
  BY IdleFacts
<1>4. state \in Txns /\ state.pc = point /\ state.left = n /\ state.mine = {} /\ state.held = {}
  BY <1>2, <1>3 DEF Txns
<1>. HIDE DEF state
<1>5. state.mine \subseteq txn[t].mine /\ TxnOK(state, committed, prev)
  <2>1. state.left \in 1..2
    BY <1>4
  <2>2. QED
    BY <1>2, <1>4, <2>1 DEF TxnOK, Selected
<1>6. QED
  BY <1>1, <1>4, <1>5, StepInvariant

LEMMA WriteInvariant ==
  ASSUME LogInv, NEW t \in Txn, Write(t)
  PROVE  LogInv'
<1>. DEFINE state == [txn[t] EXCEPT !.pc = "appending"]
<1>1. txn[t] \in Txns /\ TxnOK(txn[t], committed, prev)
  BY DEF LogInv, TypeOK, Txns, Ids
<1>2. state \in Txns /\ state.mine = txn[t].mine /\ TxnOK(state, committed, prev)
  BY <1>1 DEF Write, Txns, TxnOK, Selected
<1>3. Step(t, state) /\ prev' = prev /\ committed' = committed
  BY DEF Write
<1>4. QED
  BY <1>2, <1>3, StepInvariant

LEMMA SelectTailFacts ==
  ASSUME LogInv, NEW t \in Txn
  PROVE  /\ Largest(Visible(t)) \in Visible(t) \cup {0} /\ Largest(Visible(t)) \in Nat
         /\ Largest(Visible(t)) = 0 <=> Visible(t) = {}
         /\ \A id \in Visible(t) : id <= Largest(Visible(t))
<1>1. Len(prev) \in Nat /\ Visible(t) \in SUBSET (1..Len(prev))
  <2>1. prev \in Seq(Nat) /\ committed \subseteq Ids /\ txn[t].mine \subseteq Ids
    BY DEF LogInv, TypeOK
  <2>2. Len(prev) \in Nat
    BY <2>1, LenProperties
  <2>3. Visible(t) \in SUBSET Ids
    BY <2>1 DEF Visible
  <2>4. QED
    BY <2>2, <2>3 DEF Ids
<1>2. QED
  BY <1>1, LargestFacts

LEMMA SelectTailInvariant ==
  ASSUME LogInv, NEW t \in Txn, SelectTail(t)
  PROVE  LogInv'
<1>. DEFINE tail == Largest(Visible(t))
            state == [txn[t] EXCEPT !.pc = IF tail = 0 THEN "inserting" ELSE "waiting",
                                    !.tail = tail]
<1>1. txn[t] \in Txns /\ TxnOK(txn[t], committed, prev) /\ txn[t].pc = "appending"
  BY DEF LogInv, TypeOK, Txns, Ids, SelectTail
<1>2. /\ tail \in committed \cup txn[t].mine \cup {0} /\ tail \in Nat
      /\ \A id \in committed \cup txn[t].mine : id <= tail
  BY SelectTailFacts DEF Visible
<1>3. Step(t, state) /\ prev' = prev /\ committed' = committed
  BY DEF SelectTail
<1>. HIDE DEF tail
<1>4. state \in Txns /\ state.mine = txn[t].mine /\ TxnOK(state, committed, prev)
  BY <1>1, <1>2 DEF Txns, TxnOK, Selected
<1>5. QED
  BY <1>3, <1>4, StepInvariant

LEMMA SelectDeniedInvariant ==
  ASSUME LogInv, NEW t \in Txn, SelectDenied(t)
  PROVE  LogInv'
<1>. DEFINE state == [Idle EXCEPT !.pc = "denied"]
<1>1. state \in Txns /\ state.mine = {} /\ TxnOK(state, committed, prev)
  BY DEF Idle, Txns, TxnOK, Selected
<1>2. Step(t, state) /\ prev' = prev /\ committed' = committed
  BY DEF SelectDenied
<1>3. QED
  BY <1>1, <1>2, StepInvariant

LEMMA LockTailInvariant ==
  ASSUME LogInv, NEW t \in Txn, LockTail(t)
  PROVE  LogInv'
<1>. DEFINE state == [txn[t] EXCEPT !.pc = "inserting", !.held = @ \cup {txn[t].tail}]
<1>1. txn[t] \in Txns /\ TxnOK(txn[t], committed, prev) /\ txn[t].pc = "waiting"
  BY DEF LogInv, TypeOK, Txns, Ids, LockTail
<1>2. txn[t].tail \in committed \cup txn[t].mine /\ txn[t].tail \in Ids
  BY <1>1 DEF TxnOK, Selected, Txns, LogInv, TypeOK
<1>3. state \in Txns /\ state.mine = txn[t].mine /\ TxnOK(state, committed, prev)
  <2>1. txn[t].held \cup {txn[t].tail} \in SUBSET Ids /\ txn[t].tail \in Nat
    BY <1>1, <1>2 DEF Txns
  <2>2. state \in Txns
    BY <1>1, <2>1 DEF Txns
  <2>3. /\ state.pc = "inserting" /\ state.left = txn[t].left
        /\ state.held = txn[t].held \cup {txn[t].tail} /\ state.mine = txn[t].mine
        /\ state.tail = txn[t].tail
    BY <1>1 DEF Txns
  <2>. HIDE DEF state
  <2>4. QED
    BY <1>1, <1>2, <2>1, <2>2, <2>3 DEF TxnOK, Selected
<1>4. Step(t, state) /\ prev' = prev /\ committed' = committed
  BY DEF LockTail
<1>5. QED
  BY <1>3, <1>4, StepInvariant

LEMMA AbortInvariant ==
  ASSUME LogInv, NEW t \in Txn, Abort(t)
  PROVE  LogInv'
BY IdleFacts, StepInvariant DEF Abort

(* INSERT: the new id is larger than every other, its predecessor the tail *)
(* that was picked.                                                        *)
LEMMA InsertFacts ==
  ASSUME LogInv, NEW t \in Txn, Insert(t)
  PROVE  LET id == Len(prev) + 1
         IN /\ Len(prev) \in Nat /\ prev' \in Seq(Nat) /\ Ids' = 1..id
            /\ prev'[id] = txn[t].tail /\ \A n \in Ids : prev'[n] = prev[n]
            /\ txn'[t].mine = txn[t].mine \cup {id} /\ txn'[t].held = txn[t].held
            /\ txn'[t].pc \in {"appending", "done"} /\ txn'[t].left = txn[t].left - 1
            /\ txn'[t].pc = "appending" => txn'[t].left = 1
            /\ txn'[t].tail = 0 /\ txn'[t].res = txn[t].res
            /\ txn'[t] \in Txns'
            /\ \A u \in Txn \ {t} : txn'[u] = txn[u]
            /\ txn' \in [Txn -> Txns']
            /\ committed' = committed
<1>1. /\ prev \in Seq(Nat) /\ Len(prev) \in Nat /\ txn[t] \in Txns /\ txn[t].tail \in Nat
      /\ txn[t].pc = "inserting" /\ txn[t].left \in 1..2
      /\ txn \in [Txn -> Txns]
  BY DEF LogInv, TypeOK, Txns, Ids, Insert, TxnOK
<1>2. /\ prev' \in Seq(Nat) /\ Len(prev') = Len(prev) + 1
      /\ prev'[Len(prev) + 1] = txn[t].tail /\ \A n \in Ids : prev'[n] = prev[n]
  BY <1>1 DEF Insert, Ids
<1>3. Ids' = 1..(Len(prev) + 1) /\ Ids \subseteq Ids'
  BY <1>1, <1>2 DEF Ids
<1>4. /\ txn'[t].mine = txn[t].mine \cup {Len(prev) + 1} /\ txn'[t].held = txn[t].held
      /\ txn'[t].pc \in {"appending", "done"} /\ txn'[t].left = txn[t].left - 1
      /\ txn'[t].pc = "appending" => txn'[t].left = 1
      /\ txn'[t].tail = 0 /\ txn'[t].res = txn[t].res
      /\ \A u \in Txn \ {t} : txn'[u] = txn[u]
  BY <1>1 DEF Insert, Step, Txns
<1>5. txn'[t] \in Txns'
  <2>1. txn[t].mine \cup {Len(prev) + 1} \in SUBSET Ids' /\ txn[t].held \in SUBSET Ids'
    <3>1. txn[t].mine \in SUBSET Ids /\ txn[t].held \in SUBSET Ids
      BY <1>1 DEF Txns
    <3>2. Len(prev) + 1 \in Ids'
      BY <1>1, <1>3
    <3>3. QED
      BY <1>3, <3>1, <3>2
  <2>2. txn'[t] = [pc |-> IF txn[t].left = 1 THEN "done" ELSE "appending",
                   res |-> txn[t].res, left |-> txn[t].left - 1, tail |-> 0,
                   mine |-> txn[t].mine \cup {Len(prev) + 1}, held |-> txn[t].held]
    BY <1>1 DEF Insert, Step, Txns
  <2>3. txn[t].left - 1 \in 0..2 /\ txn[t].res \in Resource \cup {None}
    BY <1>1 DEF Txns
  <2>4. QED
    BY <2>1, <2>2, <2>3 DEF Txns
<1>6. txn' \in [Txn -> Txns']
  <2>1. \A x \in Txns : x \in Txns'
    BY <1>3 DEF Txns
  <2>2. QED
    BY <1>1, <1>5, <2>1 DEF Insert, Step
<1>7. QED
  BY <1>1, <1>2, <1>3, <1>4, <1>5, <1>6 DEF Insert

LEMMA InsertInvariant ==
  ASSUME LogInv, NEW t \in Txn, Insert(t)
  PROVE  LogInv'
<1>. DEFINE id == Len(prev) + 1
<1>1. /\ Len(prev) \in Nat /\ prev' \in Seq(Nat) /\ Ids' = 1..id
      /\ prev'[id] = txn[t].tail /\ \A n \in Ids : prev'[n] = prev[n]
      /\ txn'[t].mine = txn[t].mine \cup {id} /\ txn'[t].held = txn[t].held
      /\ txn'[t].pc \in {"appending", "done"} /\ txn'[t].left = txn[t].left - 1
      /\ txn'[t].pc = "appending" => txn'[t].left = 1
      /\ txn'[t] \in Txns' /\ txn' \in [Txn -> Txns']
      /\ \A u \in Txn \ {t} : txn'[u] = txn[u]
      /\ committed' = committed
  BY InsertFacts
<1>2. /\ Ids = 1..Len(prev) /\ committed \subseteq Ids
      /\ \A u \in Txn : /\ txn[u] \in Txns /\ TxnOK(txn[u], committed, prev)
                        /\ txn[u].mine \subseteq Ids /\ txn[u].held \subseteq Ids
  BY DEF LogInv, TypeOK, Txns, Ids
<1>3. TypeOK'
  BY <1>1, <1>2 DEF TypeOK, Txns
<1>4. NoDanglingPrev'
  BY <1>1, <1>2 DEF LogInv, NoDanglingPrev
<1>5. TxnOK(txn'[t], committed, prev')
  <2>1. txn[t].tail \in committed \cup txn[t].mine \cup {0} /\ txn[t].tail < id
        /\ \A n \in txn[t].mine : n <= txn[t].tail
    BY <1>1, <1>2 DEF TxnOK, Selected, Insert
  <2>2. txn'[t].mine \cap committed = {}
    BY <1>1, <1>2 DEF TxnOK
  <2>3. \A n \in txn'[t].mine :
          prev'[n] = 0 \/ (prev'[n] < n /\ prev'[n] \in committed \cup txn'[t].mine)
    BY <1>1, <1>2, <2>1 DEF TxnOK
  <2>4. \A n, m \in txn'[t].mine : n < m => n <= prev'[m]
    <3>1. \A n \in txn[t].mine : n \in 1..Len(prev)
      BY <1>2
    <3>2. \A n, m \in txn[t].mine : n < m => n <= prev'[m]
      BY <1>1, <1>2 DEF TxnOK
    <3>3. QED
      BY <1>1, <2>1, <3>1, <3>2
  <2>5. txn'[t].held \subseteq committed \cup txn'[t].mine
    BY <1>1, <1>2 DEF TxnOK
  <2>6. QED
    BY <1>1, <2>2, <2>3, <2>4, <2>5 DEF TxnOK, Selected
<1>6. ASSUME NEW u \in Txn \ {t}
      PROVE  TxnOK(txn'[u], committed, prev')
  <2>1. txn[u].mine \cap committed = {}
    BY <1>2 DEF TxnOK
  <2>2. TxnOK(txn[u], committed, prev')
    BY <1>1, <1>2, <2>1, OthersKeep
  <2>3. QED
    BY <1>1, <2>2
<1>7. \A u, v \in Txn : u # v => txn'[u].mine \cap txn'[v].mine = {}
  <2>1. \A u \in Txn : id \notin txn[u].mine
    BY <1>1, <1>2
  <2>2. QED
    BY <1>1, <2>1 DEF LogInv
<1>8. \A u \in Txn : TxnOK(txn[u], committed, prev)'
  BY <1>1, <1>5, <1>6
<1>9. (\A n \in Ids : prev[n] < n)'
  <2>1. txn[t].tail \in Ids \cup {0}
    BY <1>2 DEF TxnOK, Selected, Insert
  <2>2. \A n \in Ids : prev[n] < n
    BY DEF LogInv
  <2>3. ASSUME NEW n \in 1..id
        PROVE  prev'[n] < n
    <3>1. CASE n = id
      BY <1>1, <1>2, <2>1, <3>1
    <3>2. CASE n # id
      BY <1>1, <1>2, <2>2, <3>2
    <3>3. QED
      BY <3>1, <3>2
  <2>4. QED
    BY <1>1, <2>3
<1>10. QED
  BY <1>3, <1>4, <1>7, <1>8, <1>9 DEF LogInv

LEMMA CommitInvariant ==
  ASSUME LogInv, NEW t \in Txn, Commit(t)
  PROVE  LogInv'
<1>1. /\ txn' \in [Txn -> Txns] /\ txn'[t] = Idle /\ \A u \in Txn \ {t} : txn'[u] = txn[u]
      /\ prev' = prev /\ committed' = committed \cup txn[t].mine
      /\ committed' \subseteq Ids
  BY IdleFacts DEF LogInv, TypeOK, Commit, Step, Txns, Ids
<1>2. \A u \in Txn : /\ txn[u] \in Txns /\ TxnOK(txn[u], committed, prev)
                     /\ txn[u].mine \subseteq Ids /\ txn[u].held \subseteq Ids
  BY DEF LogInv, TypeOK, Txns, Ids
<1>3. TypeOK'
  BY <1>1 DEF LogInv, TypeOK, Txns, Ids
<1>4. NoDanglingPrev'
  BY <1>1, <1>2 DEF LogInv, NoDanglingPrev, TxnOK
<1>5. ASSUME NEW u \in Txn
      PROVE  TxnOK(txn'[u], committed', prev')
  <2>1. CASE u = t
    BY <1>1, <2>1, IdleFacts
  <2>2. CASE u # t
    <3>1. txn[u].mine \cap committed' = {}
      BY <1>1, <1>2, <2>2 DEF LogInv, TxnOK
    <3>2. Len(prev) \in Nat /\ Ids = 1..Len(prev)
      BY DEF LogInv, TypeOK, Ids
    <3>3. TxnOK(txn[u], committed', prev')
      BY <1>1, <1>2, <3>1, <3>2, OthersKeep
    <3>4. QED
      BY <1>1, <2>2, <3>3
  <2>3. QED
    BY <2>1, <2>2
<1>6. \A u, v \in Txn : u # v => txn'[u].mine \cap txn'[v].mine = {}
  BY <1>1, IdleFacts DEF LogInv
<1>7. \A u \in Txn : TxnOK(txn[u], committed, prev)'
  BY <1>5
<1>8. (\A id \in Ids : prev[id] < id)'
  BY <1>1 DEF LogInv, Ids
<1>9. QED
  BY <1>3, <1>4, <1>6, <1>7, <1>8 DEF LogInv

LEMMA InitInvariant == Init => LogInv
<1>. SUFFICES ASSUME Init PROVE LogInv
  OBVIOUS
<1>2. prev \in Seq(Nat) /\ Len(prev) = Seeded /\ Ids = 1..Seeded
  <2>1. prev \in [1..Seeded -> Nat] /\ Seeded \in Nat
    BY LogAssumption DEF Init
  <2>2. prev \in Seq(Nat) /\ Len(prev) = Seeded
    BY <2>1
  <2>3. QED
    BY <2>2 DEF Ids
<1>3. \A t \in Txn : txn[t] = Idle
  BY DEF Init
<1>4. TypeOK
  BY <1>2, IdleFacts DEF Init, TypeOK, Txns
<1>5. NoDanglingPrev
  BY LogAssumption DEF Init, NoDanglingPrev
<1>6. \A id \in Ids : prev[id] < id
  BY <1>2, LogAssumption DEF Init
<1>7. QED
  BY <1>3, <1>4, <1>5, <1>6, IdleFacts DEF LogInv

LEMMA NextInvariant ==
  ASSUME LogInv, [Next]_vars
  PROVE  LogInv'
<1>1. CASE UNCHANGED vars
  BY <1>1 DEF vars, LogInv, TypeOK, NoDanglingPrev, Ids
<1>2. ASSUME NEW t \in Txn, NEW res \in Resource \cup {None}, NEW n \in 1..2,
             Begin(t, res, n)
      PROVE  LogInv'
  <2>1. n \in 0..2 /\ n # 0
    OBVIOUS
  <2>2. QED
    BY <1>2, <2>1, BeginInvariant
<1>3. CASE AtBound
  BY <1>1, <1>3 DEF AtBound
<1>4. QED
  BY <1>1, <1>2, <1>3, WriteInvariant, SelectTailInvariant, SelectDeniedInvariant,
     LockTailInvariant, InsertInvariant, CommitInvariant, AbortInvariant DEF Next

-----------------------------------------------------------------------------
(* Who inserted a row.                                                     *)

(* What a step that is no COMMIT does to a connection: it picks a tail not *)
(* before any committed row, and inserts after the tail it picked.         *)
OnlyAppends(u) ==
  /\ Selected(txn'[u]) =>
       \/ Selected(txn[u]) /\ txn'[u].tail = txn[u].tail
       \/ \A n \in committed : n <= txn'[u].tail
  /\ \A m \in txn'[u].mine :
       \/ m \in txn[u].mine /\ prev'[m] = prev[m]
       \/ Selected(txn[u]) /\ prev'[m] = txn[u].tail

LEMMA StepOnlyAppends ==
  ASSUME LogInv, NEW t \in Txn, NEW res \in Resource \cup {None}, NEW n \in 0..2,
         \/ Begin(t, res, n) \/ Write(t) \/ SelectTail(t) \/ SelectDenied(t)
         \/ LockTail(t) \/ Insert(t) \/ Abort(t)
  PROVE  /\ committed' = committed /\ \A id \in Ids : prev'[id] = prev[id]
         /\ \A u \in Txn : OnlyAppends(u)
<1>1. \A u \in Txn : txn[u] \in Txns /\ txn[u].mine \subseteq Ids
  BY DEF LogInv, TypeOK, Txns, Ids
<1>2. txn \in [Txn -> Txns]
  BY DEF LogInv, TypeOK, Txns, Ids
<1>3. ASSUME NEW state, Step(t, state), prev' = prev, committed' = committed,
             state.mine \subseteq txn[t].mine,
             Selected(state) => \/ Selected(txn[t]) /\ state.tail = txn[t].tail
                                \/ \A m \in committed : m <= state.tail
      PROVE  \A u \in Txn : OnlyAppends(u)
  <2>1. txn'[t] = state /\ \A u \in Txn \ {t} : txn'[u] = txn[u]
    BY <1>2, <1>3 DEF Step
  <2>2. QED
    BY <1>3, <2>1 DEF OnlyAppends
<1>4. CASE Begin(t, res, n)
  <2>. DEFINE point == IF res = None THEN "appending" ELSE "writing"
              state == [Idle EXCEPT !.pc = point, !.res = res, !.left = n]
  <2>1. Step(t, state) /\ state.mine = Idle.mine /\ state.pc \in {"appending", "writing"}
    BY <1>4, IdleFacts DEF Begin, Txns
  <2>. HIDE DEF state
  <2>2. state.mine = {} /\ ~Selected(state)
    BY <2>1, IdleFacts DEF Selected
  <2>3. QED
    BY <1>3, <1>4, <2>1, <2>2 DEF Begin
<1>5. CASE Write(t)
  <2>1. PICK state : Step(t, state) /\ state.mine = txn[t].mine /\ state.pc = "appending"
    BY <1>1, <1>5 DEF Write, Txns
  <2>2. ~Selected(state)
    BY <2>1 DEF Selected
  <2>3. QED
    BY <1>3, <1>5, <2>1, <2>2 DEF Write
<1>6. CASE SelectTail(t)
  <2>. DEFINE tail == Largest(Visible(t))
              state == [txn[t] EXCEPT !.pc = IF tail = 0 THEN "inserting" ELSE "waiting",
                                      !.tail = tail]
  <2>1. Step(t, state) /\ state.mine = txn[t].mine /\ state.tail = tail
    BY <1>1, <1>6 DEF SelectTail, Txns
  <2>. HIDE DEF state
  <2>2. \A m \in committed : m <= state.tail
    BY <2>1, SelectTailFacts DEF Visible
  <2>3. QED
    BY <1>3, <1>6, <2>1, <2>2 DEF SelectTail
<1>7. CASE SelectDenied(t)
  <2>1. PICK state : Step(t, state) /\ state.mine = Idle.mine /\ state.pc = "denied"
    BY <1>7, IdleFacts DEF SelectDenied, Txns
  <2>2. state.mine = {} /\ ~Selected(state)
    BY <2>1, IdleFacts DEF Selected
  <2>3. QED
    BY <1>3, <1>7, <2>1, <2>2 DEF SelectDenied
<1>8. CASE LockTail(t)
  <2>. DEFINE state == [txn[t] EXCEPT !.pc = "inserting", !.held = @ \cup {txn[t].tail}]
  <2>1. Step(t, state) /\ state.mine = txn[t].mine /\ state.tail = txn[t].tail
    BY <1>1, <1>8 DEF LockTail, Txns
  <2>. HIDE DEF state
  <2>2. Selected(txn[t])
    BY <1>8 DEF LockTail, Selected
  <2>3. QED
    BY <1>3, <1>8, <2>1, <2>2 DEF LockTail
<1>9. CASE Insert(t)
  <2>1. /\ \A id \in Ids : prev'[id] = prev[id]
        /\ prev'[Len(prev) + 1] = txn[t].tail
        /\ txn'[t].mine = txn[t].mine \cup {Len(prev) + 1}
        /\ txn'[t].pc \in {"appending", "done"}
        /\ \A u \in Txn \ {t} : txn'[u] = txn[u]
    BY <1>9, InsertFacts
  <2>2. Selected(txn[t]) /\ ~Selected(txn'[t])
    BY <1>9, <2>1 DEF Insert, Selected
  <2>3. QED
    BY <1>1, <1>9, <2>1, <2>2 DEF OnlyAppends, Insert
<1>10. CASE Abort(t)
  BY <1>3, <1>10, IdleFacts DEF Abort, Selected
<1>11. QED
  BY <1>3, <1>4, <1>5, <1>6, <1>7, <1>8, <1>9, <1>10
     DEF Begin, Write, SelectTail, SelectDenied, LockTail, Abort

LEMMA InsertedStep ==
  ASSUME LogInv, SomebodyInserted, committed' = committed,
         \A id \in Ids : prev'[id] = prev[id], \A u \in Txn : OnlyAppends(u)
  PROVE  SomebodyInserted'
<1>1. PICK owner \in [committed -> Txn] : Inserted(owner)
  BY DEF SomebodyInserted
<1>2. committed \subseteq Ids
  BY DEF LogInv, TypeOK
<1>3. \A n, m \in committed' : (n < m /\ owner[n] = owner[m]) => n <= prev'[m]
  BY <1>1, <1>2 DEF Inserted
<1>4. ASSUME NEW u \in Txn, NEW n \in committed', owner[n] = u
      PROVE  /\ \A m \in txn'[u].mine : n <= prev'[m]
             /\ Selected(txn'[u]) => n <= txn'[u].tail
  BY <1>1, <1>4 DEF Inserted, OnlyAppends
<1>5. Inserted(owner)'
  BY <1>3, <1>4 DEF Inserted
<1>6. QED
  BY <1>1, <1>5 DEF SomebodyInserted

LEMMA InsertedCommit ==
  ASSUME LogInv, SomebodyInserted, NEW t \in Txn, Commit(t)
  PROVE  SomebodyInserted'
<1>1. PICK owner \in [committed -> Txn] : Inserted(owner)
  BY DEF SomebodyInserted
<1>. DEFINE mine == txn[t].mine
<1>2. /\ txn'[t] = Idle /\ \A u \in Txn \ {t} : txn'[u] = txn[u]
      /\ prev' = prev /\ committed' = committed \cup mine
  BY DEF LogInv, TypeOK, Commit, Step
<1>3. /\ mine \cap committed = {} /\ \A n, m \in mine : n < m => n <= prev[m]
      /\ \A m \in mine : prev[m] = 0 \/ (prev[m] < m /\ prev[m] \in committed \cup mine)
  BY DEF LogInv, TxnOK
<1>4. Len(prev) \in Nat /\ Ids = 1..Len(prev)
  BY DEF LogInv, TypeOK, Ids
<1>5. committed \subseteq Ids /\ mine \subseteq Ids
  BY DEF LogInv, TypeOK
<1>6. PICK owner2 \in [committed' -> Txn] :
        \A n \in committed' : owner2[n] = IF n \in mine THEN t ELSE owner[n]
  <2>. DEFINE extended == [n \in committed' |-> IF n \in mine THEN t ELSE owner[n]]
  <2>1. extended \in [committed' -> Txn]
    BY <1>1, <1>2
  <2>2. QED
    BY <2>1
<1>7. ASSUME NEW n \in committed', NEW m \in committed', n < m, owner2[n] = owner2[m]
      PROVE  n <= prev[m]
  <2>1. CASE n \in mine /\ m \in mine
    BY <1>3, <1>7, <2>1
  <2>2. CASE n \in committed /\ m \in committed
    BY <1>1, <1>3, <1>6, <1>7, <2>2 DEF Inserted
  <2>3. CASE n \in committed /\ m \in mine
    BY <1>1, <1>3, <1>6, <1>7, <2>3 DEF Inserted
  <2>4. CASE n \in mine /\ m \in committed
    <3>1. m <= prev[n] /\ (prev[n] = 0 \/ prev[n] < n)
      BY <1>1, <1>3, <1>6, <1>7, <2>4 DEF Inserted
    <3>2. m \in 1..Len(prev) /\ n \in 1..Len(prev)
      BY <1>4, <1>5, <2>4
    <3>3. prev[n] \in Nat
      BY <3>2 DEF LogInv, TypeOK
    <3>4. QED
      BY <1>4, <1>7, <3>1, <3>2, <3>3
  <2>5. QED
    BY <1>2, <2>1, <2>2, <2>3, <2>4
<1>8. ASSUME NEW u \in Txn, NEW n \in committed', owner2[n] = u
      PROVE  /\ \A m \in txn'[u].mine : n <= prev[m]
             /\ Selected(txn'[u]) => n <= txn'[u].tail
  <2>1. CASE u = t
    BY <1>2, <2>1, IdleFacts DEF Selected
  <2>2. CASE u # t
    BY <1>1, <1>2, <1>6, <1>8, <2>2 DEF Inserted
  <2>3. QED
    BY <2>1, <2>2
<1>9. Inserted(owner2)'
  BY <1>2, <1>7, <1>8 DEF Inserted
<1>10. QED
  BY <1>6, <1>9 DEF SomebodyInserted

LEMMA InsertedInit == Init => SomebodyInserted
<1>. SUFFICES ASSUME Init PROVE SomebodyInserted
  OBVIOUS
<1>1. PICK t \in Txn : TRUE
  BY LogAssumption
<1>. DEFINE owner == [id \in committed |-> t]
<1>2. owner \in [committed -> Txn]
  OBVIOUS
<1>3. \A n, m \in committed : n < m => n <= prev[m]
  BY LogAssumption DEF Init
<1>4. \A u \in Txn : txn[u].mine = {} /\ ~Selected(txn[u])
  BY DEF Init, Idle, Selected
<1>5. Inserted(owner)
  BY <1>3, <1>4 DEF Inserted
<1>6. QED
  BY <1>2, <1>5 DEF SomebodyInserted

LEMMA InsertedNext ==
  ASSUME LogInv, SomebodyInserted, [Next]_vars
  PROVE  SomebodyInserted'
<1>1. CASE UNCHANGED vars \/ AtBound
  BY <1>1 DEF vars, AtBound, SomebodyInserted, Inserted
<1>2. ASSUME NEW t \in Txn, NEW res \in Resource \cup {None}, NEW n \in 0..2,
             \/ Begin(t, res, n) \/ Write(t) \/ SelectTail(t) \/ SelectDenied(t)
             \/ LockTail(t) \/ Insert(t) \/ Abort(t)
      PROVE  SomebodyInserted'
  BY <1>2, StepOnlyAppends, InsertedStep
<1>3. ASSUME NEW t \in Txn, NEW res \in Resource \cup {None}, NEW n \in 1..2,
             Begin(t, res, n)
      PROVE  SomebodyInserted'
  <2>1. n \in 0..2
    OBVIOUS
  <2>2. QED
    BY <1>2, <1>3, <2>1
<1>4. ASSUME NEW t \in Txn,
             \/ Write(t) \/ SelectTail(t) \/ SelectDenied(t)
             \/ LockTail(t) \/ Insert(t) \/ Abort(t)
      PROVE  SomebodyInserted'
  <2>1. None \in Resource \cup {None} /\ 0 \in 0..2
    OBVIOUS
  <2>2. QED
    BY <1>2, <1>4, <2>1
<1>5. QED
  BY <1>1, <1>3, <1>4, InsertedCommit DEF Next

(* Rows with the same predecessor were inserted by different connections.  *)
LEMMA ForkWidth ==
  ASSUME LogInv, SomebodyInserted
  PROVE  ForkWidthBounded
<1>1. PICK owner \in [committed -> Txn] : Inserted(owner)
  BY DEF SomebodyInserted
<1>2. SUFFICES ASSUME NEW id \in committed \cup {0}
               PROVE  Cardinality({next \in committed : prev[next] = id}) <= Cardinality(Txn)
  BY DEF ForkWidthBounded
<1>. DEFINE nexts == {next \in committed : prev[next] = id}
            f == [next \in nexts |-> owner[next]]
<1>3. Len(prev) \in Nat /\ committed \subseteq 1..Len(prev)
  BY DEF LogInv, TypeOK, Ids
<1>4. \A n, m \in nexts : n # m => f[n] # f[m]
  <2>1. SUFFICES ASSUME NEW n \in nexts, NEW m \in nexts, n < m, owner[n] = owner[m]
                 PROVE  FALSE
    BY <1>3
  <2>2. n <= prev[m] /\ prev[m] = prev[n]
    BY <1>1, <2>1 DEF Inserted
  <2>3. prev[n] = 0 \/ prev[n] < n
    BY DEF LogInv, NoDanglingPrev
  <2>4. n \in Nat /\ n > 0 /\ prev[n] \in Nat
    BY <1>3 DEF LogInv, TypeOK
  <2>5. QED
    BY <2>2, <2>3, <2>4
<1>5. f \in Injection(nexts, Txn)
  BY <1>1, <1>4 DEF Injection, IsInjective
<1>6. QED
  BY <1>5, LogAssumption, FS_Injection

-----------------------------------------------------------------------------
(* The hashes, and what the verifier finds.                                *)

(* h is the hash of every row up to n.                                     *)
HashesUpTo(n, h) ==
  /\ h \in [0..n -> Seq(Nat)]
  /\ \A id \in 0..n : h[id] = IF id = 0 THEN <<>> ELSE Append(h[prev[id]], id)

(* Every row has a hash, since the row it links to is older.               *)
LEMMA HashesExist ==
  ASSUME LogInv, NEW n \in 0..Len(prev)
  PROVE  \E h : HashesUpTo(n, h)
<1>1. /\ prev \in Seq(Nat) /\ Len(prev) \in Nat
      /\ \A id \in 1..Len(prev) : prev[id] \in Nat /\ prev[id] < id
  BY DEF LogInv, TypeOK, Ids
<1>. DEFINE bad == {k \in 0..Len(prev) : ~\E h : HashesUpTo(k, h)}
<1>2. SUFFICES ASSUME bad # {} PROVE FALSE
  OBVIOUS
<1>3. PICK k \in bad : \A j \in bad : k <= j
  <2>1. bad \in SUBSET Nat
    OBVIOUS
  <2>. HIDE DEF bad
  <2>2. QED
    BY <1>2, <2>1, Least
<1>4. CASE k = 0
  <2>. DEFINE h == [id \in 0..0 |-> <<>>]
  <2>1. HashesUpTo(0, h)
    BY DEF HashesUpTo
  <2>2. QED
    BY <1>3, <1>4, <2>1
<1>5. CASE k # 0
  <2>1. k - 1 \in 0..Len(prev) /\ k - 1 \notin bad /\ k \in 1..Len(prev)
    BY <1>1, <1>3, <1>5
  <2>2. PICK h : HashesUpTo(k - 1, h)
    BY <2>1
  <2>3. /\ h \in [0..(k - 1) -> Seq(Nat)]
        /\ \A id \in 0..(k - 1) : h[id] = IF id = 0 THEN <<>> ELSE Append(h[prev[id]], id)
    BY <2>2 DEF HashesUpTo
  <2>. DEFINE last == Append(h[prev[k]], k)
              longer == [id \in 0..k |-> IF id = k THEN last ELSE h[id]]
  <2>4. prev[k] \in 0..(k - 1) /\ k \in Nat
    BY <1>1, <2>1
  <2>5. last \in Seq(Nat)
    BY <2>3, <2>4, AppendProperties
  <2>. HIDE DEF last
  <2>6. longer \in [0..k -> Seq(Nat)]
    BY <2>3, <2>4, <2>5
  <2>7. ASSUME NEW id \in 0..k
        PROVE  longer[id] = IF id = 0 THEN <<>> ELSE Append(longer[prev[id]], id)
    <3>1. CASE id = k
      BY <1>5, <2>4, <3>1 DEF last
    <3>2. CASE id # k
      <4>1. id \in 0..(k - 1) /\ id # k
        BY <2>4, <3>2
      <4>2. id # 0 => prev[id] \in 0..(k - 1) /\ prev[id] # k
        BY <1>1, <2>1, <2>4, <4>1
      <4>3. longer[id] = h[id] /\ (id # 0 => longer[prev[id]] = h[prev[id]])
        BY <4>1, <4>2, <2>4
      <4>4. h[id] = IF id = 0 THEN <<>> ELSE Append(h[prev[id]], id)
        BY <2>3, <4>1
      <4>. HIDE DEF longer
      <4>5. QED
        BY <4>3, <4>4
    <3>3. QED
      BY <3>1, <3>2
  <2>. HIDE DEF longer
  <2>8. HashesUpTo(k, longer)
    BY <2>6, <2>7 DEF HashesUpTo
  <2>9. QED
    BY <1>3, <2>8
<1>6. QED
  BY <1>4, <1>5

LEMMA RowHashFacts ==
  ASSUME LogInv
  PROVE  /\ RowHash \in [Ids \cup {0} -> Seq(Nat)]
         /\ RowHash[0] = <<>>
         /\ \A id \in Ids : RowHash[id] = Append(RowHash[prev[id]], id)
<1>1. Len(prev) \in Nat /\ Ids = 1..Len(prev) /\ \A id \in Ids : id # 0
  BY DEF LogInv, TypeOK, Ids
<1>2. Ids \cup {0} = 0..Len(prev)
  BY <1>1
<1>3. PICK h : HashesUpTo(Len(prev), h)
  <2>1. Len(prev) \in 0..Len(prev)
    BY <1>1
  <2>2. QED
    BY <2>1, HashesExist
<1>. DEFINE body(f) == [id \in Ids \cup {0} |->
                         IF id = 0 THEN Genesis ELSE HashOf(f[prev[id]], id)]
<1>4. h = body(h)
  BY <1>2, <1>3 DEF HashesUpTo, Genesis, HashOf
<1>5. RowHash = CHOOSE f : f = body(f)
  BY DEF RowHash
<1>6. RowHash = body(RowHash)
  BY <1>4, <1>5
<1>7. /\ DOMAIN RowHash = Ids \cup {0} /\ RowHash[0] = <<>>
      /\ \A id \in Ids : RowHash[id] = Append(RowHash[prev[id]], id)
  <2>. DEFINE f == RowHash
  <2>1. f = body(f)
    BY <1>6
  <2>. HIDE DEF f
  <2>2. /\ DOMAIN f = Ids \cup {0} /\ f[0] = <<>>
        /\ \A id \in Ids : f[id] = Append(f[prev[id]], id)
    BY <1>1, <2>1 DEF Genesis, HashOf
  <2>3. QED
    BY <2>2 DEF f
<1>8. ASSUME NEW id \in Ids \cup {0}
      PROVE  RowHash[id] \in Seq(Nat)
  <2>. DEFINE bad == {n \in Ids : RowHash[n] \notin Seq(Nat)}
  <2>1. SUFFICES ASSUME bad # {} PROVE FALSE
    BY <1>7
  <2>2. PICK n \in bad : \A m \in bad : n <= m
    <3>1. bad \in SUBSET Nat
      BY <1>1
    <3>. HIDE DEF bad
    <3>2. QED
      BY <2>1, <3>1, Least
  <2>3. /\ n \in Ids /\ n \in Nat /\ RowHash[n] \notin Seq(Nat)
        /\ \A m \in Ids : RowHash[m] \in Seq(Nat) \/ n <= m
    BY <1>1, <2>2
  <2>. HIDE DEF bad
  <2>4. prev[n] \in Ids \cup {0} /\ prev[n] < n
    <3>1. prev[n] \in Nat /\ prev[n] < n
      BY <2>3 DEF LogInv, TypeOK, Ids
    <3>2. QED
      BY <1>1, <2>3, <3>1
  <2>. DEFINE s == RowHash[prev[n]]
  <2>5. s \in Seq(Nat)
    <3>1. CASE prev[n] = 0
      <4>1. s = <<>>
        BY <1>7, <3>1
      <4>. HIDE DEF s
      <4>2. QED
        BY <4>1
    <3>2. CASE prev[n] # 0
      <4>1. prev[n] \in Ids /\ ~(n <= prev[n])
        BY <1>1, <2>3, <2>4, <3>2
      <4>2. QED
        BY <2>3, <4>1
    <3>3. QED
      BY <3>1, <3>2
  <2>6. RowHash[n] = Append(s, n)
    BY <1>7, <2>3
  <2>. HIDE DEF s
  <2>7. QED
    BY <2>3, <2>5, <2>6, AppendProperties
<1>9. RowHash \in [Ids \cup {0} -> Seq(Nat)]
  BY <1>6, <1>7, <1>8
<1>10. QED
  BY <1>7, <1>9

(* Different rows have different hashes: each ends in its own entry.       *)
LEMMA RowHashInjective ==
  ASSUME LogInv, NEW a \in Ids \cup {0}, NEW b \in Ids \cup {0}, RowHash[a] = RowHash[b]
  PROVE  a = b
<1>1. /\ Ids = 1..Len(prev) /\ Len(prev) \in Nat
      /\ \A id \in Ids : prev[id] \in Ids \cup {0}
  <2>1. /\ Ids = 1..Len(prev) /\ Len(prev) \in Nat
        /\ \A id \in Ids : prev[id] \in Nat /\ prev[id] < id
    BY DEF LogInv, TypeOK, Ids
  <2>2. QED
    BY <2>1
<1>2. ASSUME NEW id \in Ids
      PROVE  /\ RowHash[id] # <<>>
             /\ RowHash[id][Len(RowHash[id])] = id
  <2>. DEFINE s == RowHash[prev[id]]
  <2>1. s \in Seq(Nat) /\ RowHash[id] = Append(s, id) /\ id \in Nat
    BY <1>1, RowHashFacts
  <2>. HIDE DEF s
  <2>2. /\ Append(s, id) # <<>> /\ Len(Append(s, id)) = Len(s) + 1
        /\ Append(s, id)[Len(s) + 1] = id
    BY <2>1, AppendProperties
  <2>3. QED
    BY <2>1, <2>2
<1>3. QED
  BY <1>2, RowHashFacts
(* The log as verifyChain reads it: the row at each position is the hash   *)
(* of the row with the id at that position.                                *)
LEMMA CommittedRowsFacts ==
  ASSUME LogInv
  PROVE  LET order == InIdOrder(committed)
             n == Cardinality(committed)
         IN /\ n \in Nat /\ order \in [1..n -> committed]
            /\ \A i, j \in 1..n : i < j => order[i] < order[j]
            /\ \A id \in committed : Rank(committed, id) \in 1..n
                                     /\ order[Rank(committed, id)] = id
            /\ CommittedRows \in Seq(Row) /\ Len(CommittedRows) = n
            /\ \A i \in 1..n :
                 CommittedRows[i] = [id |-> order[i], entry |-> order[i],
                                     prevHash |-> RowHash[prev[order[i]]],
                                     rowHash |-> RowHash[order[i]]]
<1>. DEFINE order == InIdOrder(committed)
            n == Cardinality(committed)
<1>1. /\ committed \in SUBSET Nat /\ IsFiniteSet(committed) /\ committed \subseteq Ids
      /\ Ids \subseteq Nat
  <2>1. Ids = 1..Len(prev) /\ Len(prev) \in Nat /\ committed \subseteq Ids
    BY DEF LogInv, TypeOK, Ids
  <2>2. IsFiniteSet(Ids) /\ Ids \subseteq Nat
    BY <2>1, FS_Interval
  <2>3. IsFiniteSet(committed)
    BY <2>1, <2>2, FS_Subset
  <2>4. QED
    BY <2>1, <2>2, <2>3
<1>2. /\ n \in Nat /\ order \in [1..n -> committed]
      /\ \A i, j \in 1..n : i < j => order[i] < order[j]
      /\ \A id \in committed : Rank(committed, id) \in 1..n
                               /\ order[Rank(committed, id)] = id
  BY <1>1, OrderFacts
<1>. HIDE DEF order, n
<1>3. /\ DOMAIN CommittedRows = 1..n
      /\ CommittedRows = [i \in 1..n |->
                            RowAfter(RowHash[prev[order[i]]], order[i], order[i])]
  BY <1>2 DEF CommittedRows, order
<1>4. ASSUME NEW i \in 1..n
      PROVE  /\ CommittedRows[i] = [id |-> order[i], entry |-> order[i],
                                    prevHash |-> RowHash[prev[order[i]]],
                                    rowHash |-> RowHash[order[i]]]
             /\ CommittedRows[i] \in Row
  <2>. DEFINE id == order[i]
  <2>1. id \in committed /\ id \in Ids /\ id \in Nat
    BY <1>1, <1>2
  <2>2. prev[id] \in Ids \cup {0}
    <3>1. /\ Ids = 1..Len(prev) /\ Len(prev) \in Nat
          /\ prev[id] \in Nat /\ prev[id] < id
      BY <2>1 DEF LogInv, TypeOK, Ids
    <3>2. QED
      BY <2>1, <3>1
  <2>. HIDE DEF id
  <2>. DEFINE s == RowHash[prev[id]]
              h == RowHash[id]
  <2>3. s \in Seq(Nat) /\ h \in Seq(Nat) /\ h = Append(s, id)
    BY <2>1, <2>2, RowHashFacts
  <2>4. CommittedRows[i] = RowAfter(s, id, id)
    BY <1>3 DEF id
  <2>. HIDE DEF s, h
  <2>5. CommittedRows[i] = [id |-> id, entry |-> id, prevHash |-> s, rowHash |-> h]
    BY <2>3, <2>4 DEF RowAfter, HashOf
  <2>6. CommittedRows[i] \in Row
    BY <2>1, <2>3, <2>5 DEF Row
  <2>7. QED
    BY <2>5, <2>6 DEF id, s, h
<1>5. CommittedRows \in [1..n -> Row]
  BY <1>3, <1>4
<1>6. CommittedRows \in Seq(Row) /\ Len(CommittedRows) = n
  BY <1>2, <1>5
<1>7. QED
  BY <1>2, <1>4, <1>6 DEF order, n

(* The id verifyChain takes the row at position i to link to.              *)
Before(i) == IF i = 1 THEN 0 ELSE InIdOrder(committed)[i - 1]

(* The verifier accepts a row no hand touched exactly when it links to the *)
(* row before it.                                                          *)
LEMMA FaultMeansMismatch ==
  ASSUME LogInv, NEW i \in 1..Cardinality(committed)
  PROVE  RowFault(CommittedRows, i) = "none" <=> prev[InIdOrder(committed)[i]] = Before(i)
<1>. DEFINE order == InIdOrder(committed)
            n == Cardinality(committed)
            rows == CommittedRows
<1>1. n \in Nat /\ order \in [1..n -> committed] /\ committed \subseteq Ids
      /\ Ids = 1..Len(prev) /\ Len(prev) \in Nat
  BY CommittedRowsFacts DEF LogInv, TypeOK, Ids
<1>2. order[i] \in Ids /\ Before(i) \in Ids \cup {0}
  <2>1. i = 1 \/ i - 1 \in 1..n
    BY <1>1
  <2>. HIDE DEF order
  <2>2. i # 1 => order[i - 1] \in committed
    BY <1>1, <2>1
  <2>3. QED
    BY <1>1, <2>2 DEF Before, order
<1>3. prev[order[i]] \in Ids \cup {0}
  <2>1. order[i] \in 1..Len(prev) /\ prev[order[i]] < order[i] /\ prev[order[i]] \in Nat
    BY <1>1, <1>2 DEF LogInv, TypeOK
  <2>2. QED
    BY <1>1, <2>1
<1>4. /\ rows[i].entry = order[i] /\ rows[i].prevHash = RowHash[prev[order[i]]]
      /\ rows[i].rowHash = RowHash[order[i]]
  BY CommittedRowsFacts
<1>5. rows[i].rowHash = HashOf(rows[i].prevHash, rows[i].entry)
  BY <1>2, <1>4, RowHashFacts DEF HashOf
<1>6. ExpectedPrevHash(rows, i) = RowHash[Before(i)]
  <2>1. CASE i = 1
    BY <2>1, RowHashFacts DEF ExpectedPrevHash, Before, Genesis
  <2>2. CASE i # 1
    <3>1. i - 1 \in 1..n
      BY <1>1, <2>2
    <3>2. rows[i - 1].rowHash = RowHash[order[i - 1]]
      BY <3>1, CommittedRowsFacts
    <3>3. QED
      BY <2>2, <3>2 DEF ExpectedPrevHash, Before
  <2>3. QED
    BY <2>1, <2>2
<1>7. RowFault(rows, i) = "none" <=> RowHash[prev[order[i]]] = RowHash[Before(i)]
  BY <1>4, <1>5, <1>6 DEF RowFault
<1>8. QED
  BY <1>2, <1>3, <1>7, RowHashInjective

(* A row that does not link to the row before it shares its predecessor    *)
(* with an earlier one: the first such row does.                           *)
LEMMA MismatchMeansFork ==
  ASSUME LogInv
  PROVE  Forked <=> \E i \in 1..Cardinality(committed) :
                      prev[InIdOrder(committed)[i]] # Before(i)
<1>. DEFINE order == InIdOrder(committed)
            n == Cardinality(committed)
            bad == {i \in 1..n : prev[order[i]] # Before(i)}
<1>1. /\ n \in Nat /\ order \in [1..n -> committed]
      /\ \A i, j \in 1..n : i < j => order[i] < order[j]
      /\ \A id \in committed : \E i \in 1..n : order[i] = id
  BY CommittedRowsFacts
<1>2. committed \subseteq Nat \ {0}
  BY DEF LogInv, TypeOK, Ids
<1>. HIDE DEF order
<1>3. \A i \in 1..n : Before(i) = IF i = 1 THEN 0 ELSE order[i - 1]
  BY DEF Before, order
<1>4. ASSUME bad = {} PROVE ~Forked
  <2>1. ASSUME NEW a \in committed, NEW b \in committed, a # b, prev[a] = prev[b]
        PROVE  FALSE
    <3>1. PICK i \in 1..n : order[i] = a
      BY <1>1
    <3>2. PICK j \in 1..n : order[j] = b
      BY <1>1
    <3>3. Before(i) = Before(j) /\ i # j
      BY <1>4, <2>1, <3>1, <3>2
    <3>4. \A k \in 1..n : k # 1 => k - 1 \in 1..n /\ order[k - 1] \in committed
      BY <1>1
    <3>5. i # 1 /\ j # 1 /\ order[i - 1] = order[j - 1] /\ i - 1 # j - 1
      BY <1>1, <1>2, <1>3, <3>3, <3>4
    <3>6. i - 1 \in 1..n /\ j - 1 \in 1..n /\ (i - 1 < j - 1 \/ j - 1 < i - 1)
      BY <1>1, <3>4, <3>5
    <3>7. order[i - 1] < order[j - 1] \/ order[j - 1] < order[i - 1]
      BY <1>1, <3>6
    <3>8. order[i - 1] \in Nat
      BY <1>1, <1>2, <3>6
    <3>9. QED
      BY <3>5, <3>7, <3>8
  <2>2. QED
    BY <2>1 DEF Forked
<1>5. ASSUME bad # {} PROVE Forked
  <2>1. PICK i \in bad : \A j \in bad : i <= j
    <3>1. bad \in SUBSET Nat
      BY <1>1
    <3>. HIDE DEF bad
    <3>2. QED
      BY <1>5, <3>1, Least
  <2>2. /\ i \in 1..n /\ prev[order[i]] # Before(i)
        /\ \A j \in 1..n : j < i => prev[order[j]] = Before(j)
    BY <1>1, <2>1
  <2>. HIDE DEF bad
  <2>3. PICK j \in 1..n : j < i /\ prev[order[i]] = Before(j)
    <3>1. CASE prev[order[i]] = 0
      <4>1. i # 1 /\ 1 \in 1..n /\ 1 < i
        BY <1>1, <1>3, <2>2, <3>1
      <4>2. Before(1) = 0
        BY <1>3, <4>1
      <4>3. QED
        BY <3>1, <4>1, <4>2
    <3>2. CASE prev[order[i]] # 0
      <4>1. prev[order[i]] < order[i] /\ prev[order[i]] \in committed
        BY <1>1, <2>2, <3>2 DEF LogInv, NoDanglingPrev
      <4>2. PICK k \in 1..n : order[k] = prev[order[i]]
        BY <1>1, <4>1
      <4>3. k < i
        <5>1. order[k] < order[i] /\ order[k] \in Nat /\ order[i] \in Nat
          BY <1>1, <1>2, <2>2, <4>1, <4>2
        <5>2. ~(i < k) /\ i # k
          BY <1>1, <2>2, <5>1
        <5>3. QED
          BY <2>2, <5>2
      <4>4. k + 1 \in 1..n /\ k + 1 # 1 /\ (k + 1) - 1 = k
        BY <1>1, <2>2, <4>3
      <4>5. Before(k + 1) = prev[order[i]]
        BY <1>3, <4>2, <4>4
      <4>6. k + 1 < i
        <5>1. k + 1 # i
          BY <2>2, <4>5
        <5>2. QED
          BY <1>1, <2>2, <4>3, <5>1
      <4>7. QED
        BY <4>4, <4>5, <4>6
    <3>3. QED
      BY <3>1, <3>2
  <2>4. prev[order[j]] = prev[order[i]]
    BY <2>2, <2>3
  <2>5. /\ order[i] \in committed /\ order[j] \in committed /\ order[j] < order[i]
    BY <1>1, <2>2, <2>3
  <2>6. order[i] # order[j]
    <3>1. order[i] \in Nat /\ order[j] \in Nat
      BY <1>2, <2>5
    <3>2. QED
      BY <2>5, <3>1
  <2>7. QED
    BY <2>4, <2>5, <2>6 DEF Forked
<1>6. QED
  BY <1>4, <1>5 DEF order

LEMMA AlarmFacts ==
  ASSUME LogInv
  PROVE  /\ Accepted(CommittedRows, Len(CommittedRows)) <=> ~Forked
         /\ AlarmMeansFork
<1>1. /\ CommittedRows \in Seq(Row) /\ Len(CommittedRows) = Cardinality(committed)
      /\ DOMAIN CommittedRows = 1..Cardinality(committed) /\ Cardinality(committed) \in Nat
  BY CommittedRowsFacts, LenProperties
<1>2. Accepted(CommittedRows, Len(CommittedRows)) <=> ~Forked
  BY <1>1, FaultMeansMismatch, MismatchMeansFork DEF Accepted
<1>. DEFINE page == VerifyPage(VerifyChain(CommittedRows))
<1>3. page.hero \in {"verified", "tampered"}
  BY DEF VerifyPage
<1>4. page.hero = "verified" => Accepted(CommittedRows, Len(CommittedRows))
  BY <1>1, VerdictFacts
<1>5. page.hero # "verified" => ~Accepted(CommittedRows, Len(CommittedRows))
  BY <1>1, VerdictFacts DEF Accepted
<1>. HIDE DEF page
<1>6. page.hero = "tampered" <=> Forked
  BY <1>2, <1>3, <1>4, <1>5
<1>7. QED
  BY <1>2, <1>6 DEF AlarmMeansFork, page

-----------------------------------------------------------------------------
(* Theorems.                                                               *)

(* The inductive invariant holds in every reachable state.                 *)
THEOREM LogInvariant == Spec => []LogInv
<1>1. Init => LogInv
  BY InitInvariant
<1>2. LogInv /\ [Next]_vars => LogInv'
  BY NextInvariant
<1>3. QED
  BY <1>1, <1>2, PTL DEF Spec

(* Every id in use has been drawn: the committed rows', the transactions'  *)
(* own and those they locked.                                              *)
THEOREM TypeCorrect == Spec => []TypeOK
<1>1. LogInv => TypeOK
  BY DEF LogInv
<1>2. QED
  BY <1>1, LogInvariant, PTL

(* recordAuditEvent never leaves a committed row whose prev_hash is that   *)
(* of a row which was rolled back, or of a younger one.                    *)
THEOREM PrevIsCommitted == Spec => []NoDanglingPrev
<1>1. LogInv => NoDanglingPrev
  BY DEF LogInv
<1>2. QED
  BY <1>1, LogInvariant, PTL

(* The lock order that rules a deadlock among appends out.                 *)
THEOREM LocksInOrder == Spec => []LocksAscend
<1>1. LogInv => LocksAscend
  BY DEF LogInv, LocksAscend, TxnOK, Selected
<1>2. QED
  BY <1>1, LogInvariant, PTL

(* A row is extended at most once by each connection, so that a fork is no *)
(* wider than the pool (recordAuditEvent, audit-hash.ts 92-123).           *)
THEOREM ForksAreNarrow == Spec => []ForkWidthBounded
<1>1. Init => LogInv /\ SomebodyInserted
  BY InitInvariant, InsertedInit
<1>2. LogInv /\ SomebodyInserted /\ [Next]_vars => (LogInv /\ SomebodyInserted)'
  BY NextInvariant, InsertedNext
<1>3. LogInv /\ SomebodyInserted => ForkWidthBounded
  BY ForkWidth
<1>4. QED
  BY <1>1, <1>2, <1>3, PTL DEF Spec

(* Of a log nobody altered, verifyChain complains exactly when two appends *)
(* read the same tail; rollbacks, gaps and late COMMITs never raise it.    *)
THEOREM AlarmsAreForks == Spec => []AlarmMeansFork
<1>1. LogInv => AlarmMeansFork
  BY AlarmFacts
<1>2. QED
  BY <1>1, LogInvariant, PTL

(* Any one change by hand of a log that verified is located by the page.   *)
THEOREM AlterationsFound == Spec => []AlterationsLocated
<1>1. LogInv => AlterationsLocated
  <2>1. SUFFICES ASSUME LogInv, ~Forked, NEW rows \in AlteredLogs(CommittedRows)
                 PROVE  Located(rows, CommittedRows)
    BY DEF AlterationsLocated
  <2>2. CommittedRows \in Seq(Row) /\ Accepted(CommittedRows, Len(CommittedRows))
    BY <2>1, AlarmFacts, CommittedRowsFacts
  <2>3. rows \in Seq(Row) /\ HashesCopied(rows, CommittedRows)
    BY <2>1, <2>2, AlteredCopies
  <2>4. QED
    BY <2>2, <2>3, ForgeriesLocated
<1>2. QED
  BY <1>1, LogInvariant, PTL
=============================================================================
