------------------------ MODULE ChainVerifier_proofs ------------------------
(***************************************************************************)
(* Theorems about the chain verifier, for logs of every length.            *)
(***************************************************************************)
EXTENDS ChainVerifier, IdOrder_proofs, SequenceTheorems

Row == [id : Nat, entry : Nat, prevHash : Seq(Nat), rowHash : Seq(Nat)]

(* Without the secret no hash can be made: each is one that was there.     *)
HashesCopied(rows, honest) ==
  \A i \in DOMAIN rows : \E k \in DOMAIN honest : rows[i].rowHash = honest[k].rowHash

SameContent(row, other) ==
  /\ row.entry = other.entry
  /\ row.prevHash = other.prevHash
  /\ row.rowHash = other.rowHash

(* The rows up to i are all accepted.                                      *)
Accepted(rows, i) == \A j \in 1..i : RowFault(rows, j) = "none"

-----------------------------------------------------------------------------
(* What a verdict says: no row failed, or there is a first that did.       *)
LEMMA VerdictFacts ==
  ASSUME NEW rows \in Seq(Row)
  PROVE  LET page == VerifyPage(VerifyChain(rows))
         IN /\ page.hero = "verified" => Accepted(rows, Len(rows))
            /\ page.hero # "verified" =>
                 \E i \in DOMAIN rows : /\ page.firstBad = rows[i].id
                                        /\ RowFault(rows, i) # "none"
                                        /\ Accepted(rows, i - 1)
<1>. DEFINE bad == {i \in DOMAIN rows : RowFault(rows, i) # "none"}
            page == VerifyPage(VerifyChain(rows))
<1>1. DOMAIN rows = 1..Len(rows) /\ Len(rows) \in Nat
  BY LenProperties
<1>2. bad = {} => page.hero = "verified"
  BY DEF VerifyPage, VerifyChain
<1>3. bad # {} => /\ page.hero = "tampered" /\ page.firstBad = rows[Min(bad)].id
  BY DEF VerifyPage, VerifyChain
<1>4. bad # {} => Min(bad) \in bad /\ \A i \in bad : Min(bad) <= i
  <2>1. bad \in SUBSET Nat
    BY <1>1
  <2>. HIDE DEF bad
  <2>2. bad # {} => \E i \in bad : \A j \in bad : i <= j
    BY <2>1, Least
  <2>3. QED
    BY <2>2 DEF Min
<1>. HIDE DEF page
<1>5. CASE bad = {}
  BY <1>1, <1>2, <1>5 DEF Accepted, page
<1>6. CASE bad # {}
  <2>. DEFINE first == Min(bad)
  <2>1. first \in DOMAIN rows /\ RowFault(rows, first) # "none"
    BY <1>4, <1>6
  <2>2. \A j \in DOMAIN rows : RowFault(rows, j) # "none" => first <= j
    BY <1>4, <1>6
  <2>3. page.hero # "verified" /\ page.firstBad = rows[first].id
    BY <1>3, <1>6
  <2>. HIDE DEF first
  <2>4. Accepted(rows, first - 1)
    BY <1>1, <2>1, <2>2 DEF Accepted
  <2>5. QED
    BY <2>1, <2>3, <2>4 DEF page
<1>7. QED
  BY <1>5, <1>6

LEMMA TruthfulMeans ==
  ASSUME NEW rows \in Seq(Row), NEW honest \in Seq(Row), NEW n \in 0..Len(rows)
  PROVE  Truthful(rows, honest, n) <=>
           n <= Len(honest) /\ \A i \in 1..n : SameContent(rows[i], honest[i])
<1>1. Len(rows) \in Nat /\ Len(honest) \in Nat /\ n \in Nat
  BY LenProperties
<1>2. /\ Contents(rows) \in Seq(Row) /\ Len(Contents(rows)) = Len(rows)
      /\ Contents(honest) \in Seq(Row) /\ Len(Contents(honest)) = Len(honest)
  <2>1. ASSUME NEW log \in Seq(Row)
        PROVE  Contents(log) \in Seq(Row) /\ Len(Contents(log)) = Len(log)
    <3>1. DOMAIN log = 1..Len(log) /\ Len(log) \in Nat /\ \A i \in 1..Len(log) : log[i] \in Row
      BY LenProperties, ElementOfSeq
    <3>2. Contents(log) \in [1..Len(log) -> Row]
      BY <3>1 DEF Contents, Row
    <3>3. QED
      BY <3>1, <3>2
  <2>2. QED
    BY <2>1
<1>3. SUFFICES ASSUME n <= Len(honest)
               PROVE  Truthful(rows, honest, n) <=>
                        \A i \in 1..n : SameContent(rows[i], honest[i])
  BY DEF Truthful
<1>. DEFINE a == SubSeq(Contents(rows), 1, n)
            b == SubSeq(Contents(honest), 1, n)
<1>4. /\ a \in Seq(Row) /\ Len(a) = n /\ \A i \in 1..n : a[i] = Contents(rows)[i]
      /\ b \in Seq(Row) /\ Len(b) = n /\ \A i \in 1..n : b[i] = Contents(honest)[i]
  BY <1>1, <1>2, <1>3
<1>5. a = b <=> \A i \in 1..n : Contents(rows)[i] = Contents(honest)[i]
  <2>. HIDE DEF a, b
  <2>1. a = b <=> \A i \in 1..n : a[i] = b[i]
    BY <1>1, <1>4, SeqEqual
  <2>2. QED
    BY <1>4, <2>1
<1>6. ASSUME NEW i \in 1..n
      PROVE  Contents(rows)[i] = Contents(honest)[i] <=> SameContent(rows[i], honest[i])
  <2>1. rows[i] \in Row /\ honest[i] \in Row /\ i \in DOMAIN rows /\ i \in DOMAIN honest
    BY <1>1, <1>3, ElementOfSeq
  <2>2. /\ Contents(rows)[i] = [rows[i] EXCEPT !.id = 0]
        /\ Contents(honest)[i] = [honest[i] EXCEPT !.id = 0]
    BY <2>1 DEF Contents
  <2>3. ASSUME NEW x \in Row, NEW y \in Row
        PROVE  [x EXCEPT !.id = 0] = [y EXCEPT !.id = 0] <=> SameContent(x, y)
    BY DEF Row, SameContent
  <2>4. QED
    BY <2>1, <2>2, <2>3
<1>7. QED
  BY <1>1, <1>3, <1>5, <1>6 DEF Truthful

(* What acceptance means for one row.                                      *)
LEMMA AcceptedRow ==
  ASSUME NEW rows \in Seq(Row), NEW n \in 0..Len(rows), Accepted(rows, n), NEW i \in 1..n
  PROVE  /\ rows[i] \in Row
         /\ rows[i].prevHash = ExpectedPrevHash(rows, i)
         /\ rows[i].rowHash = Append(rows[i].prevHash, rows[i].entry)
<1>1. i \in 1..Len(rows) /\ rows[i] \in Row
  BY LenProperties, ElementOfSeq
<1>2. RowFault(rows, i) = "none"
  BY DEF Accepted
<1>3. QED
  BY <1>1, <1>2 DEF RowFault, HashOf

(* In an accepted log the hash of row i covers i entries.                  *)
LEMMA HashCoversPrefix ==
  ASSUME NEW rows \in Seq(Row), NEW n \in 0..Len(rows), Accepted(rows, n)
  PROVE  \A i \in 1..n : rows[i].rowHash \in Seq(Nat) /\ Len(rows[i].rowHash) = i
<1>. DEFINE bad == {i \in 1..n : Len(rows[i].rowHash) # i}
<1>1. \A i \in 1..n : rows[i].rowHash \in Seq(Nat)
  BY AcceptedRow DEF Row
<1>2. SUFFICES ASSUME bad # {} PROVE FALSE
  BY <1>1
<1>3. PICK i \in bad : \A j \in bad : i <= j
  <2>1. bad \in SUBSET Nat
    OBVIOUS
  <2>. HIDE DEF bad
  <2>2. QED
    BY <1>2, <2>1, Least
<1>4. /\ rows[i] \in Row /\ rows[i].prevHash = ExpectedPrevHash(rows, i)
      /\ rows[i].rowHash = Append(rows[i].prevHash, rows[i].entry)
  BY AcceptedRow
<1>5. Len(rows[i].rowHash) = Len(rows[i].prevHash) + 1
  <2>1. rows[i].prevHash \in Seq(Nat) /\ rows[i].entry \in Nat
    BY <1>4 DEF Row
  <2>2. QED
    BY <1>4, <2>1, AppendProperties
<1>6. Len(rows[i].prevHash) = i - 1
  <2>1. CASE i = 1
    BY <1>4, <2>1 DEF ExpectedPrevHash, Genesis
  <2>2. CASE i # 1
    <3>1. i - 1 \in 1..n /\ i - 1 \notin bad
      BY <1>3, <2>2
    <3>2. rows[i].prevHash = rows[i - 1].rowHash
      BY <1>4, <2>2 DEF ExpectedPrevHash
    <3>3. QED
      BY <3>1, <3>2
  <2>3. QED
    BY <2>1, <2>2
<1>7. QED
  BY <1>5, <1>6

(* What the verifier accepts of a log whose hashes were only copied is     *)
(* what was written, row by row.                                           *)
LEMMA AcceptedIsTruthful ==
  ASSUME NEW honest \in Seq(Row), Accepted(honest, Len(honest)),
         NEW rows \in Seq(Row), HashesCopied(rows, honest),
         NEW n \in 0..Len(rows), Accepted(rows, n)
  PROVE  n <= Len(honest) /\ \A i \in 1..n : SameContent(rows[i], honest[i])
<1>. DEFINE bad == {i \in 1..n : ~(i <= Len(honest) /\ SameContent(rows[i], honest[i]))}
<1>1. Len(honest) \in Nat /\ Len(rows) \in Nat /\ DOMAIN honest = 1..Len(honest)
      /\ DOMAIN rows = 1..Len(rows)
  BY LenProperties
<1>2. SUFFICES ASSUME bad # {} PROVE FALSE
  <2>1. CASE n = 0
    BY <1>1, <2>1
  <2>2. CASE n # 0
    <3>1. n \in 1..n
      BY <1>1, <2>2
    <3>2. QED
      BY <1>1, <3>1
  <2>3. QED
    BY <2>1, <2>2
<1>3. PICK i \in bad : \A j \in bad : i <= j
  <2>1. bad \in SUBSET Nat
    OBVIOUS
  <2>. HIDE DEF bad
  <2>2. QED
    BY <1>2, <2>1, Least
<1>4. \A j \in 1..(i - 1) : j <= Len(honest) /\ SameContent(rows[j], honest[j])
  BY <1>1, <1>3
<1>5. /\ rows[i] \in Row /\ rows[i].prevHash = ExpectedPrevHash(rows, i)
      /\ rows[i].rowHash = Append(rows[i].prevHash, rows[i].entry)
      /\ Len(rows[i].rowHash) = i
  BY AcceptedRow, HashCoversPrefix
<1>6. PICK k \in DOMAIN honest : rows[i].rowHash = honest[k].rowHash
  BY <1>1 DEF HashesCopied
<1>7. /\ honest[k] \in Row /\ honest[k].rowHash = Append(honest[k].prevHash, honest[k].entry)
      /\ Len(honest[k].rowHash) = k
  <2>1. Len(honest) \in 0..Len(honest) /\ k \in 1..Len(honest)
    BY <1>1
  <2>2. QED
    BY <2>1, AcceptedRow, HashCoversPrefix
<1>8. k = i
  BY <1>5, <1>6, <1>7
<1>9. honest[i].prevHash = rows[i].prevHash /\ honest[i].entry = rows[i].entry
  <2>. DEFINE s == honest[i].prevHash
              t == rows[i].prevHash
              e == honest[i].entry
              f == rows[i].entry
  <2>1. s \in Seq(Nat) /\ t \in Seq(Nat) /\ e \in Nat /\ f \in Nat
    BY <1>5, <1>7, <1>8 DEF Row
  <2>2. Append(s, e) = Append(t, f)
    BY <1>5, <1>6, <1>7, <1>8
  <2>. HIDE DEF s, t, e, f
  <2>3. s = t /\ e = f
    BY <2>1, <2>2, AppendInjective
  <2>4. QED
    BY <2>3 DEF s, t, e, f
<1>10. QED
  BY <1>1, <1>6, <1>8, <1>9 DEF SameContent

(* A row that is like the one written there, after one that is, is         *)
(* accepted like that one.                                                 *)
LEMMA TruthfulIsAccepted ==
  ASSUME NEW honest \in Seq(Row), Accepted(honest, Len(honest)),
         NEW rows \in Seq(Row), NEW i \in 1..Len(rows), i <= Len(honest),
         \A j \in 1..i : SameContent(rows[j], honest[j])
  PROVE  RowFault(rows, i) = "none"
<1>1. Len(honest) \in Nat /\ Len(rows) \in Nat
  BY LenProperties
<1>2. i \in 1..Len(honest) /\ Len(honest) \in 0..Len(honest) /\ i \in 1..i
  BY <1>1
<1>3. /\ honest[i].prevHash = ExpectedPrevHash(honest, i)
      /\ honest[i].rowHash = Append(honest[i].prevHash, honest[i].entry)
  BY <1>2, AcceptedRow
<1>4. SameContent(rows[i], honest[i])
  BY <1>2
<1>5. ExpectedPrevHash(rows, i) = ExpectedPrevHash(honest, i)
  <2>1. i = 1 \/ i - 1 \in 1..i
    BY <1>1
  <2>2. QED
    BY <2>1 DEF ExpectedPrevHash, SameContent
<1>6. QED
  BY <1>3, <1>4, <1>5 DEF RowFault, SameContent, HashOf

-----------------------------------------------------------------------------
(* Every one of the changes by hand only copies hashes.                    *)

(* A log whose every row carries the hash of a row of honest.              *)
Copy(rows, honest) ==
  /\ rows \in Seq(Row)
  /\ \A i \in 1..Len(rows) : \E k \in 1..Len(honest) : rows[i].rowHash = honest[k].rowHash

LEMMA CopyCopies ==
  ASSUME NEW honest \in Seq(Row), NEW rows, Copy(rows, honest)
  PROVE  rows \in Seq(Row) /\ HashesCopied(rows, honest)
<1>1. rows \in Seq(Row) /\ DOMAIN rows = 1..Len(rows) /\ DOMAIN honest = 1..Len(honest)
  BY LenProperties DEF Copy
<1>2. QED
  BY <1>1 DEF Copy, HashesCopied

(* One row replaced by one whose hash was there.                           *)
LEMMA CopyReplaced ==
  ASSUME NEW honest \in Seq(Row), NEW rows, Copy(rows, honest), NEW i \in 1..Len(rows),
         NEW row \in Row, NEW k \in 1..Len(honest), row.rowHash = honest[k].rowHash
  PROVE  /\ Copy([rows EXCEPT ![i] = row], honest)
         /\ Len([rows EXCEPT ![i] = row]) = Len(rows)
<1>1. rows \in Seq(Row)
  BY DEF Copy
<1>2. /\ [rows EXCEPT ![i] = row] \in Seq(Row)
      /\ Len([rows EXCEPT ![i] = row]) = Len(rows)
      /\ \A j \in 1..Len(rows) : [rows EXCEPT ![i] = row][j] = IF j = i THEN row ELSE rows[j]
  BY <1>1, ExceptSeq
<1>3. QED
  BY <1>2 DEF Copy

LEMMA CopyItself ==
  ASSUME NEW honest \in Seq(Row)
  PROVE  Copy(honest, honest)
BY DEF Copy

LEMMA CutCopies ==
  ASSUME NEW honest \in Seq(Row), NEW n \in 0..Len(honest)
  PROVE  Copy(SubSeq(honest, 1, n), honest)
<1>1. Len(honest) \in Nat /\ \A i \in 1..n : honest[i] \in Row
  BY LenProperties, ElementOfSeq
<1>. DEFINE cut == SubSeq(honest, 1, n)
<1>2. cut \in Seq(Row) /\ Len(cut) = n /\ \A i \in 1..n : cut[i] = honest[i]
  BY <1>1
<1>. HIDE DEF cut
<1>3. Copy(cut, honest)
  BY <1>1, <1>2 DEF Copy
<1>4. QED
  BY <1>3 DEF cut

LEMMA RemovalCopies ==
  ASSUME NEW honest \in Seq(Row), NEW i \in 1..Len(honest)
  PROVE  Copy(RemoveAt(honest, i), honest)
<1>. DEFINE before == SubSeq(honest, 1, i - 1)
            after == SubSeq(honest, i + 1, Len(honest))
<1>1. Len(honest) \in Nat /\ \A j \in 1..Len(honest) : honest[j] \in Row
  BY LenProperties, ElementOfSeq
<1>2. /\ before \in Seq(Row) /\ Len(before) = i - 1
      /\ \A j \in 1..(i - 1) : before[j] = honest[j]
  BY <1>1
<1>3. /\ after \in Seq(Row) /\ Len(after) = Len(honest) - i
      /\ \A j \in 1..(Len(honest) - i) : after[j] = honest[i + j]
  BY <1>1
<1>. HIDE DEF before, after
<1>4. /\ before \o after \in Seq(Row) /\ Len(before \o after) = Len(honest) - 1
      /\ \A j \in 1..(Len(honest) - 1) :
           (before \o after)[j] = IF j <= i - 1 THEN before[j] ELSE after[j - (i - 1)]
  <2>1. /\ before \o after \in Seq(Row) /\ Len(before \o after) = Len(before) + Len(after)
        /\ \A j \in 1..(Len(before) + Len(after)) :
             (before \o after)[j] = IF j <= Len(before) THEN before[j]
                                    ELSE after[j - Len(before)]
    BY <1>2, <1>3, ConcatProperties
  <2>2. Len(before) + Len(after) = Len(honest) - 1
    BY <1>1, <1>2, <1>3
  <2>3. QED
    BY <1>2, <2>1, <2>2
<1>5. ASSUME NEW j \in 1..(Len(honest) - 1)
      PROVE  \E k \in 1..Len(honest) : (before \o after)[j].rowHash = honest[k].rowHash
  <2>1. CASE j <= i - 1
    <3>1. j \in 1..(i - 1) /\ j \in 1..Len(honest)
      BY <1>1, <2>1
    <3>2. QED
      BY <1>2, <1>4, <2>1, <3>1
  <2>2. CASE ~(j <= i - 1)
    <3>1. j - (i - 1) \in 1..(Len(honest) - i) /\ i + (j - (i - 1)) = j + 1
          /\ j + 1 \in 1..Len(honest)
      BY <1>1, <2>2
    <3>2. QED
      BY <1>3, <1>4, <2>2, <3>1
  <2>3. QED
    BY <2>1, <2>2
<1>6. Copy(before \o after, honest)
  BY <1>4, <1>5 DEF Copy
<1>7. QED
  BY <1>6 DEF RemoveAt, before, after

LEMMA ExchangeCopies ==
  ASSUME NEW honest \in Seq(Row), NEW i \in 1..Len(honest), NEW j \in 1..Len(honest)
  PROVE  Copy([honest EXCEPT ![i] = WithContentOf(@, honest[j]),
                             ![j] = WithContentOf(@, honest[i])], honest)
<1>. DEFINE x == [honest[j] EXCEPT !.id = honest[i].id]
            once == [honest EXCEPT ![i] = x]
            y == [honest[i] EXCEPT !.id = once[j].id]
            twice == [once EXCEPT ![j] = y]
<1>1. honest[i] \in Row /\ honest[j] \in Row
  BY ElementOfSeq
<1>2. x \in Row /\ x.rowHash = honest[j].rowHash
  BY <1>1 DEF Row
<1>3. Copy(once, honest) /\ Len(once) = Len(honest)
  <2>. HIDE DEF x
  <2>1. QED
    BY <1>2, CopyItself, CopyReplaced
<1>4. once[j] \in Row
  <2>. HIDE DEF once
  <2>1. QED
    BY <1>3, ElementOfSeq DEF Copy
<1>5. y \in Row /\ y.rowHash = honest[i].rowHash
  <2>. HIDE DEF once
  <2>1. QED
    BY <1>1, <1>4 DEF Row
<1>6. Copy(twice, honest)
  <2>. HIDE DEF y, once
  <2>1. QED
    BY <1>3, <1>5, CopyReplaced
<1>7. QED
  BY <1>6 DEF WithContentOf

LEMMA AlteredCopies ==
  ASSUME NEW honest \in Seq(Row), NEW rows \in AlteredLogs(honest)
  PROVE  rows \in Seq(Row) /\ HashesCopied(rows, honest)
<1>1. /\ Len(honest) \in Nat /\ DOMAIN honest = 1..Len(honest)
      /\ \A j \in 1..Len(honest) : honest[j] \in Row
  BY LenProperties, ElementOfSeq
<1>2. SUFFICES Copy(rows, honest)
  BY CopyCopies
<1>3. CASE \E n \in 0..Len(honest) : rows = SubSeq(honest, 1, n)
  BY <1>3, CutCopies
<1>4. CASE \E i \in 1..Len(honest) : rows = RemoveAt(honest, i)
  BY <1>4, RemovalCopies
<1>5. CASE \E i, j \in 1..Len(honest) :
             rows = [honest EXCEPT ![i] = WithContentOf(@, honest[j]),
                                   ![j] = WithContentOf(@, honest[i])]
  BY <1>5, ExchangeCopies
<1>6. CASE \E i \in 1..Len(honest) :
             rows = Append(honest, [honest[i] EXCEPT !.id = Last(honest).id + 1])
  <2>1. PICK i \in 1..Len(honest) :
               rows = Append(honest, [honest[i] EXCEPT !.id = Last(honest).id + 1])
    BY <1>6
  <2>. DEFINE row == [honest[i] EXCEPT !.id = Last(honest).id + 1]
  <2>2. Last(honest).id + 1 \in Nat
    <3>1. Last(honest) \in Row
      BY <1>1 DEF Last
    <3>2. QED
      BY <3>1 DEF Row
  <2>3. row \in Row /\ row.rowHash = honest[i].rowHash
    BY <1>1, <2>2 DEF Row
  <2>. HIDE DEF row
  <2>4. /\ rows \in Seq(Row) /\ Len(rows) = Len(honest) + 1 /\ rows[Len(honest) + 1] = row
        /\ \A j \in 1..Len(honest) : rows[j] = honest[j]
    BY <2>1, <2>3, AppendProperties DEF row
  <2>5. QED
    BY <1>1, <2>3, <2>4 DEF Copy
<1>7. CASE \E i \in 1..Len(honest) : rows = [honest EXCEPT ![i].entry = EditedEntry]
  <2>1. PICK i \in 1..Len(honest) :
               rows = [honest EXCEPT ![i] = [honest[i] EXCEPT !.entry = EditedEntry]]
    BY <1>7
  <2>. DEFINE row == [honest[i] EXCEPT !.entry = EditedEntry]
  <2>2. row \in Row /\ row.rowHash = honest[i].rowHash
    BY <1>1 DEF Row, EditedEntry
  <2>. HIDE DEF row
  <2>3. QED
    BY <2>1, <2>2, CopyItself, CopyReplaced DEF row
<1>8. CASE \E i, j \in 1..Len(honest) :
             rows = [honest EXCEPT ![i].prevHash = honest[j].rowHash]
  <2>1. PICK i, j \in 1..Len(honest) :
               rows = [honest EXCEPT ![i] = [honest[i] EXCEPT !.prevHash = honest[j].rowHash]]
    BY <1>8
  <2>. DEFINE row == [honest[i] EXCEPT !.prevHash = honest[j].rowHash]
  <2>2. row \in Row /\ row.rowHash = honest[i].rowHash
    BY <1>1 DEF Row
  <2>. HIDE DEF row
  <2>3. QED
    BY <2>1, <2>2, CopyItself, CopyReplaced DEF row
<1>9. CASE \E i, j \in 1..Len(honest) :
             rows = [honest EXCEPT ![i].entry = EditedEntry, ![i].rowHash = honest[j].rowHash]
  <2>1. PICK i, j \in 1..Len(honest) :
               rows = [honest EXCEPT ![i] = [honest[i] EXCEPT !.entry = EditedEntry,
                                                              !.rowHash = honest[j].rowHash]]
    BY <1>1, <1>9
  <2>. DEFINE row == [honest[i] EXCEPT !.entry = EditedEntry, !.rowHash = honest[j].rowHash]
  <2>2. row \in Row /\ row.rowHash = honest[j].rowHash
    BY <1>1 DEF Row, EditedEntry
  <2>. HIDE DEF row
  <2>3. QED
    BY <2>1, <2>2, CopyItself, CopyReplaced DEF row
<1>10. /\ rows \in CutOff(honest) => Copy(rows, honest)
       /\ rows \in Removed(honest) => Copy(rows, honest)
  BY <1>1, <1>3, <1>4 DEF CutOff, Removed
<1>11. rows \in Exchanged(honest) => Copy(rows, honest)
  BY <1>1, <1>5 DEF Exchanged
<1>12. rows \in Repeated(honest) => Copy(rows, honest)
  BY <1>1, <1>6 DEF Repeated
<1>13. rows \in Rewritten(honest) => Copy(rows, honest)
  BY <1>1, <1>7 DEF Rewritten
<1>14. rows \in Relinked(honest) => Copy(rows, honest)
  BY <1>1, <1>8 DEF Relinked
<1>15. rows \in Rehashed(honest) => Copy(rows, honest)
  BY <1>1, <1>9 DEF Rehashed
<1>16. QED
  BY <1>10, <1>11, <1>12, <1>13, <1>14, <1>15 DEF AlteredLogs

-----------------------------------------------------------------------------
(* Theorems.                                                               *)

(* verifyChain and the page together: whatever is done to a log that       *)
(* verified, as long as hashes can only be copied, only a log that agrees  *)
(* with it to its own end is called verified, and of any other the first   *)
(* row that was not written there is the one pointed at                    *)
(* (admin.service.ts 98-155, /admin/audit/verify).                         *)
THEOREM ForgeriesLocated ==
  ASSUME NEW honest \in Seq(Row), Accepted(honest, Len(honest)),
         NEW rows \in Seq(Row), HashesCopied(rows, honest)
  PROVE  Located(rows, honest)
<1>1. Len(rows) \in Nat /\ DOMAIN rows = 1..Len(rows)
  BY LenProperties
<1>2. ASSUME NEW n \in 0..Len(rows), Accepted(rows, n)
      PROVE  Truthful(rows, honest, n)
  BY <1>2, AcceptedIsTruthful, TruthfulMeans
<1>. DEFINE page == VerifyPage(VerifyChain(rows))
<1>3. CASE page.hero = "verified"
  <2>1. Accepted(rows, Len(rows)) /\ Len(rows) \in 0..Len(rows)
    BY <1>1, <1>3, VerdictFacts
  <2>2. QED
    BY <1>2, <1>3, <2>1 DEF Located
<1>4. CASE page.hero # "verified"
  <2>1. PICK i \in DOMAIN rows : /\ page.firstBad = rows[i].id
                                /\ RowFault(rows, i) # "none"
                                /\ Accepted(rows, i - 1)
    BY <1>4, VerdictFacts
  <2>2. i \in 1..Len(rows) /\ i \in 0..Len(rows) /\ i - 1 \in 0..Len(rows)
    BY <1>1
  <2>3. Truthful(rows, honest, i - 1)
    BY <1>2, <2>1, <2>2
  <2>4. ~Truthful(rows, honest, i)
    BY <2>1, <2>2, TruthfulMeans, TruthfulIsAccepted
  <2>. HIDE DEF page
  <2>5. QED
    BY <1>4, <2>1, <2>3, <2>4 DEF Located, page
<1>5. QED
  BY <1>3, <1>4
=============================================================================
