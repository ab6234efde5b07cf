------------------------- MODULE TrafficFeedProofs -------------------------
(***************************************************************************)
(* Proofs about TrafficFeed: what its list can hold, and what it says of   *)
(* what it does not.                                                       *)
(***************************************************************************)
EXTENDS TrafficFeed, ListLemmas

-----------------------------------------------------------------------------
(* Sorting and filtering *)

\* A row's receipt has a time.
LEMMA RowTimes ==
  ASSUME NEW r \in Rows
  PROVE  r.id \in Ids /\ Ts(r) \in 1 .. MaxTs /\ Ts(r) \in Nat /\ r.id # NoId
<1>1. r.id \in Ids
  BY DEF Rows
<1>2. TsOf[r.id] \in 1 .. MaxTs /\ MaxTs \in Nat /\ r.id # NoId
  BY <1>1, FeedAssumptions
<1> QED BY <1>1, <1>2 DEF Ts

\* Sorting a list of receipts only moves its rows: o tells where each was.
LEMMA SortingPermutes ==
  ASSUME NEW rows \in Seq(Rows)
  PROVE  LET sorted == NewestFirst(rows) IN
         /\ sorted \in Seq(Rows) /\ Len(sorted) = Len(rows)
         /\ \E o \in [DOMAIN rows -> DOMAIN rows] :
              /\ \A k \in DOMAIN rows : sorted[k] = rows[o[k]]
              /\ \A i \in DOMAIN rows : \E k \in DOMAIN rows : o[k] = i
              /\ \A j, k \in DOMAIN rows : o[j] = o[k] => j = k
<1> DEFINE ahead == [i \in DOMAIN rows |->
                       {j \in DOMAIN rows : \/ Ts(rows[j]) > Ts(rows[i])
                                            \/ Ts(rows[j]) = Ts(rows[i]) /\ j < i}]
           key == [i \in DOMAIN rows |-> Ts(rows[i])]
           o == Ranked(DOMAIN rows, ahead)
           sorted == NewestFirst(rows)
<1>1. DOMAIN rows = 1 .. Len(rows) /\ Len(rows) \in Nat /\ \A i \in DOMAIN rows : rows[i] \in Rows
  BY LenProperties, ElementOfSeq
<1>2. IsFiniteSet(DOMAIN rows) /\ Cardinality(DOMAIN rows) = Len(rows)
  <2>1. 1 \in Int /\ Len(rows) \in Int
    BY <1>1
  <2>2. /\ IsFiniteSet(1 .. Len(rows))
        /\ Cardinality(1 .. Len(rows)) = IF 1 > Len(rows) THEN 0 ELSE Len(rows) - 1 + 1
    BY <2>1, FS_Interval
  <2> QED BY <1>1, <2>2
<1>3. key \in [DOMAIN rows -> Nat]
  <2>1. \A i \in DOMAIN rows : Ts(rows[i]) \in Nat
    BY <1>1, RowTimes
  <2> QED BY <2>1
<1>4. Orders(DOMAIN rows, ahead)
  <2>1. DOMAIN rows \subseteq Nat
    BY <1>1
  <2>2. ahead = [x \in DOMAIN rows |->
                   {y \in DOMAIN rows : key[y] > key[x] \/ (key[y] = key[x] /\ y < x)}]
    OBVIOUS
  <2> HIDE DEF ahead, key
  <2> QED BY <1>3, <2>1, <2>2, KeyOrders
<1>5. /\ o \in [1 .. Len(rows) -> DOMAIN rows]
      /\ \A x \in DOMAIN rows : \E k \in 1 .. Len(rows) : o[k] = x
      /\ \A j, k \in 1 .. Len(rows) : o[j] = o[k] => j = k
  <2> HIDE DEF ahead
  <2> QED BY <1>2, <1>4, RankedLists
<1>6. sorted = [k \in DOMAIN rows |-> rows[o[k]]]
  BY DEF NewestFirst
<1> HIDE DEF o, sorted
<1>7. sorted \in Seq(Rows) /\ Len(sorted) = Len(rows)
  <2>1. \A k \in 1 .. Len(rows) : rows[o[k]] \in Rows
    BY <1>1, <1>5
  <2> QED BY <1>1, <1>6, <2>1
<1>8. \A k \in DOMAIN rows : sorted[k] = rows[o[k]]
  BY <1>6
<1>9. /\ o \in [DOMAIN rows -> DOMAIN rows]
      /\ \A i \in DOMAIN rows : \E k \in DOMAIN rows : o[k] = i
      /\ \A j, k \in DOMAIN rows : o[j] = o[k] => j = k
  BY <1>1, <1>5
<1> QED BY <1>7, <1>8, <1>9 DEF sorted

-----------------------------------------------------------------------------
(* The rows and the receipts of a list *)

LEMMA ListRows ==
  ASSUME NEW rows \in Seq(Rows)
  PROVE  /\ Len(rows) \in Nat /\ DOMAIN rows = 1 .. Len(rows)
         /\ \A i \in DOMAIN rows : rows[i] \in Rows /\ rows[i] \in Range(rows)
         /\ \A r \in Range(rows) : r \in Rows /\ r.id \in Ids /\ \E i \in DOMAIN rows : r = rows[i]
         /\ IdsOf(rows) \subseteq Ids
         /\ \A id : id \in IdsOf(rows) <=> \E r \in Range(rows) : r.id = id
<1>1. Len(rows) \in Nat /\ DOMAIN rows = 1 .. Len(rows)
  BY LenProperties
<1>2. \A i \in DOMAIN rows : rows[i] \in Rows
  BY <1>1, ElementOfSeq
<1> QED BY <1>1, <1>2, RowTimes DEF Range, IdsOf

\* A filter keeps the rows of the receipts it lets through, and makes none twice.
LEMMA FilterKeeps ==
  ASSUME NEW rows \in Seq(Rows), NEW ids
  PROVE  LET kept == Filtered(rows, ids) IN
         /\ kept \in Seq(Rows)
         /\ Range(kept) = {r \in Range(rows) : r.id \in ids}
         /\ IdsOf(kept) = IdsOf(rows) \cap ids
         /\ Distinct(rows) => Distinct(kept)
<1> DEFINE at == {i \in DOMAIN rows : rows[i].id \in ids}
           kept == Filtered(rows, ids)
<1>1. kept = RowsAt(rows, at)
  BY DEF Filtered
<1>2. at \in SUBSET DOMAIN rows
  OBVIOUS
<1>a. \A i : i \in at <=> i \in DOMAIN rows /\ rows[i].id \in ids
  OBVIOUS
<1> HIDE DEF at, kept
<1>3. kept \in Seq(Rows)
  BY <1>1, <1>2, RowsAtKeeps
<1>4. PICK o \in [1 .. Len(kept) -> at] :
        /\ \A k \in 1 .. Len(kept) : kept[k] = rows[o[k]]
        /\ \A i \in at : \E k \in 1 .. Len(kept) : o[k] = i
        /\ \A j, k \in 1 .. Len(kept) : o[j] = o[k] => j = k
  BY <1>1, <1>2, RowsAtKeeps
<1>5. DOMAIN kept = 1 .. Len(kept)
  BY <1>3, ListRows
<1>6. Range(kept) = {r \in Range(rows) : r.id \in ids}
  <2>1. ASSUME NEW r \in Range(kept) PROVE r \in Range(rows) /\ r.id \in ids
    <3>1. PICK k \in DOMAIN kept : r = kept[k]
      BY <2>1 DEF Range
    <3>2. o[k] \in at /\ r = rows[o[k]]
      BY <1>4, <1>5, <3>1
    <3> QED BY <1>a, <3>2 DEF Range
  <2>2. ASSUME NEW r \in Range(rows), r.id \in ids PROVE r \in Range(kept)
    <3>1. PICK i \in DOMAIN rows : r = rows[i]
      BY <2>2 DEF Range
    <3>2. i \in at
      BY <1>a, <2>2, <3>1
    <3>3. PICK k \in DOMAIN kept : o[k] = i
      BY <1>4, <1>5, <3>2
    <3> QED BY <1>4, <1>5, <3>1, <3>3 DEF Range
  <2> QED BY <2>1, <2>2
<1>7. IdsOf(kept) = IdsOf(rows) \cap ids
  <2>1. \A id : id \in IdsOf(kept) <=> \E r \in Range(kept) : r.id = id
    BY <1>3, ListRows
  <2>2. \A id : id \in IdsOf(rows) <=> \E r \in Range(rows) : r.id = id
    BY ListRows
  <2> QED BY <1>6, <2>1, <2>2
<1>8. Distinct(rows) => Distinct(kept)
  <2> SUFFICES ASSUME Distinct(rows), NEW j \in DOMAIN kept, NEW k \in DOMAIN kept,
                      kept[j].id = kept[k].id
               PROVE  j = k
    BY DEF Distinct
  <2>1. o[j] \in DOMAIN rows /\ o[k] \in DOMAIN rows /\ rows[o[j]].id = rows[o[k]].id
    BY <1>4, <1>5, <1>a
  <2>2. o[j] = o[k]
    BY <2>1 DEF Distinct
  <2> QED BY <1>4, <1>5, <2>2
<1> QED BY <1>3, <1>6, <1>7, <1>8 DEF kept

\* Sorting keeps the rows.
LEMMA SortKeeps ==
  ASSUME NEW rows \in Seq(Rows)
  PROVE  LET sorted == NewestFirst(rows) IN
         /\ sorted \in Seq(Rows)
         /\ Range(sorted) = Range(rows) /\ IdsOf(sorted) = IdsOf(rows)
         /\ Distinct(rows) => Distinct(sorted)
<1> DEFINE sorted == NewestFirst(rows)
<1>1. sorted \in Seq(Rows) /\ Len(sorted) = Len(rows)
  BY SortingPermutes
<1>2. PICK o \in [DOMAIN rows -> DOMAIN rows] :
        /\ \A k \in DOMAIN rows : sorted[k] = rows[o[k]]
        /\ \A i \in DOMAIN rows : \E k \in DOMAIN rows : o[k] = i
        /\ \A j, k \in DOMAIN rows : o[j] = o[k] => j = k
  BY SortingPermutes
<1> HIDE DEF sorted
<1>3. DOMAIN sorted = DOMAIN rows
  BY <1>1, ListRows
<1>4. Range(sorted) = Range(rows)
  BY <1>2, <1>3 DEF Range
<1>5. IdsOf(sorted) = IdsOf(rows)
  BY <1>2, <1>3 DEF IdsOf
<1>6. Distinct(rows) => Distinct(sorted)
  <2> SUFFICES ASSUME Distinct(rows), NEW j \in DOMAIN rows, NEW k \in DOMAIN rows,
                      sorted[j].id = sorted[k].id
               PROVE  j = k
    BY <1>3 DEF Distinct
  <2>1. o[j] \in DOMAIN rows /\ o[k] \in DOMAIN rows /\ rows[o[j]].id = rows[o[k]].id
    BY <1>2
  <2>2. o[j] = o[k]
    BY <2>1 DEF Distinct
  <2> QED BY <1>2, <2>2
<1> QED BY <1>1, <1>4, <1>5, <1>6 DEF sorted

\* Two lists in one.
LEMMA JoinKeeps ==
  ASSUME NEW a \in Seq(Rows), NEW b \in Seq(Rows)
  PROVE  /\ a \o b \in Seq(Rows) /\ Len(a \o b) = Len(a) + Len(b)
         /\ Range(a \o b) = Range(a) \cup Range(b)
         /\ IdsOf(a \o b) = IdsOf(a) \cup IdsOf(b)
         /\ Distinct(a) /\ Distinct(b) /\ IdsOf(a) \cap IdsOf(b) = {} => Distinct(a \o b)
<1> DEFINE ab == a \o b
<1>1. /\ ab \in Seq(Rows) /\ Len(ab) = Len(a) + Len(b)
      /\ \A i \in 1 .. Len(a) + Len(b) : ab[i] = IF i <= Len(a) THEN a[i] ELSE b[i - Len(a)]
  BY ConcatProperties
<1> HIDE DEF ab
<1>2. /\ Len(a) \in Nat /\ Len(b) \in Nat /\ DOMAIN a = 1 .. Len(a) /\ DOMAIN b = 1 .. Len(b)
      /\ DOMAIN ab = 1 .. Len(a) + Len(b)
  BY <1>1, ListRows
<1>3. \A i \in DOMAIN a : i \in DOMAIN ab /\ ab[i] = a[i]
  BY <1>1, <1>2
<1>4. \A i \in DOMAIN b : i + Len(a) \in DOMAIN ab /\ ab[i + Len(a)] = b[i]
  <2> TAKE i \in DOMAIN b
  <2>1. i + Len(a) \in DOMAIN ab /\ ~(i + Len(a) <= Len(a)) /\ (i + Len(a)) - Len(a) = i
    BY <1>2
  <2> QED BY <1>1, <1>2, <2>1
<1>5. \A i \in DOMAIN ab : \/ i \in DOMAIN a /\ ab[i] = a[i]
                           \/ i - Len(a) \in DOMAIN b /\ i \notin DOMAIN a /\ ab[i] = b[i - Len(a)]
  BY <1>1, <1>2
<1>6. Range(ab) = Range(a) \cup Range(b)
  <2>1. Range(ab) \subseteq Range(a) \cup Range(b)
    BY <1>5 DEF Range
  <2>2. Range(a) \subseteq Range(ab)
    BY <1>3 DEF Range
  <2>3. Range(b) \subseteq Range(ab)
    BY <1>4 DEF Range
  <2> QED BY <2>1, <2>2, <2>3
<1>7. IdsOf(ab) = IdsOf(a) \cup IdsOf(b)
  <2>1. /\ \A id : id \in IdsOf(ab) <=> \E r \in Range(ab) : r.id = id
        /\ \A id : id \in IdsOf(a) <=> \E r \in Range(a) : r.id = id
        /\ \A id : id \in IdsOf(b) <=> \E r \in Range(b) : r.id = id
    BY <1>1, ListRows
  <2> QED BY <1>6, <2>1
<1>8. ASSUME Distinct(a), Distinct(b), IdsOf(a) \cap IdsOf(b) = {} PROVE Distinct(ab)
  <2> SUFFICES ASSUME NEW i \in DOMAIN ab, NEW j \in DOMAIN ab, ab[i].id = ab[j].id PROVE i = j
    BY DEF Distinct
  <2>0. \A k \in DOMAIN a, l \in DOMAIN b : a[k].id # b[l].id
    BY <1>8 DEF IdsOf
  <2>1. CASE i \in DOMAIN a /\ j \in DOMAIN a
    BY <1>3, <1>8, <2>1 DEF Distinct
  <2>2. CASE i \notin DOMAIN a /\ j \notin DOMAIN a
    <3>1. i - Len(a) \in DOMAIN b /\ j - Len(a) \in DOMAIN b /\ b[i - Len(a)].id = b[j - Len(a)].id
      BY <1>5, <2>2
    <3>2. i - Len(a) = j - Len(a)
      BY <1>8, <3>1 DEF Distinct
    <3> QED BY <1>2, <3>2
  <2>3. CASE i \in DOMAIN a /\ j \notin DOMAIN a
    BY <1>5, <2>0, <2>3
  <2>4. CASE i \notin DOMAIN a /\ j \in DOMAIN a
    BY <1>5, <2>0, <2>4
  <2> QED BY <2>1, <2>2, <2>3, <2>4
<1> QED BY <1>1, <1>6, <1>7, <1>8 DEF ab

\* The first n rows of a list.
LEMMA HeadKeeps ==
  ASSUME NEW rows \in Seq(Rows), NEW n \in 0 .. Len(rows)
  PROVE  LET head == SubSeq(rows, 1, n) IN
         /\ head \in Seq(Rows) /\ Len(head) = n
         /\ \A i \in 1 .. n : head[i] = rows[i]
         /\ Range(head) \subseteq Range(rows) /\ IdsOf(head) \subseteq IdsOf(rows)
         /\ Distinct(rows) => Distinct(head)
<1> DEFINE head == SubSeq(rows, 1, n)
<1>1. Len(rows) \in Nat /\ DOMAIN rows = 1 .. Len(rows) /\ n \in Nat /\ n <= Len(rows)
  BY ListRows
<1>2. \A i \in 1 .. n : rows[i] \in Rows
  BY <1>1, ListRows
<1>3. /\ head \in Seq(Rows) /\ Len(head) = IF 1 <= n THEN n - 1 + 1 ELSE 0
      /\ \A i \in 1 .. n - 1 + 1 : head[i] = rows[1 + i - 1]
  <2>1. 1 \in Int /\ n \in Int
    BY <1>1
  <2> QED BY <1>2, <2>1, SubSeqProperties
<1> HIDE DEF head
<1>4. Len(head) = n /\ \A i \in 1 .. n : head[i] = rows[i]
  BY <1>1, <1>3
<1>5. DOMAIN head = 1 .. n /\ DOMAIN head \subseteq DOMAIN rows
  BY <1>1, <1>3, <1>4, ListRows
<1> QED BY <1>3, <1>4, <1>5 DEF head, Range, IdsOf, Distinct

\* A list that has no receipt twice is no longer than there are receipts.
LEMMA RowsAreCounted ==
  ASSUME NEW rows \in Seq(Rows), Distinct(rows)
  PROVE  Cardinality(IdsOf(rows)) = Len(rows) /\ Len(rows) <= Cardinality(Ids)
<1>1. Len(rows) \in Nat /\ DOMAIN rows = 1 .. Len(rows) /\ IdsOf(rows) \subseteq Ids
  BY ListRows
<1>2. IsFiniteSet(DOMAIN rows) /\ Cardinality(DOMAIN rows) = Len(rows)
  <2>1. 1 \in Int /\ Len(rows) \in Int
    BY <1>1
  <2>2. /\ IsFiniteSet(1 .. Len(rows))
        /\ Cardinality(1 .. Len(rows)) = IF 1 > Len(rows) THEN 0 ELSE Len(rows) - 1 + 1
    BY <2>1, FS_Interval
  <2> QED BY <1>1, <2>2
<1>3. IsFiniteSet(IdsOf(rows)) /\ Cardinality(IdsOf(rows)) <= Cardinality(Ids)
  BY <1>1, FeedAssumptions, FS_Subset
<1> DEFINE f == [i \in DOMAIN rows |-> rows[i].id]
<1>4. f \in Injection(DOMAIN rows, IdsOf(rows)) /\ f \in Surjection(DOMAIN rows, IdsOf(rows))
  <2>1. f \in [DOMAIN rows -> IdsOf(rows)]
    BY DEF IdsOf
  <2>2. IsInjective(f)
    BY DEF Distinct, IsInjective
  <2>3. \A id \in IdsOf(rows) : \E i \in DOMAIN rows : f[i] = id
    BY DEF IdsOf
  <2> QED BY <2>1, <2>2, <2>3 DEF Injection, Surjection
<1>5. Cardinality(IdsOf(rows)) = Cardinality(DOMAIN rows)
  BY <1>2, <1>3, <1>4, FS_Injection
<1> QED BY <1>2, <1>3, <1>5

\* The newest copy of a receipt in a batch.
LEMMA LatestIsACopy ==
  ASSUME NEW batch \in Seq(Rows), NEW id \in IdsOf(batch)
  PROVE  Latest(batch, id) \in Range(batch) /\ Latest(batch, id).id = id
<1> DEFINE at == {i \in DOMAIN batch : batch[i].id = id}
<1>1. Len(batch) \in Nat /\ DOMAIN batch = 1 .. Len(batch)
  BY ListRows
<1>2. at \subseteq Nat /\ at # {}
  BY <1>1 DEF IdsOf
<1>3. IsFiniteSet(at)
  <2>1. IsFiniteSet(1 .. Len(batch))
    BY <1>1, FS_Interval
  <2> QED BY <1>1, <2>1, FS_Subset
<1> DEFINE m == Max(at)
<1>4. m \in at
  <2> HIDE DEF at
  <2> QED BY <1>2, <1>3, GreatestIsIn
<1>5. Latest(batch, id) = batch[m]
  BY DEF Latest
<1>6. m \in DOMAIN batch /\ batch[m].id = id
  BY <1>4
<1> QED BY <1>5, <1>6 DEF Range

\* The new receipts of a batch, each once, as they were last told of.
LEMMA FreshAreNew ==
  ASSUME NEW rows \in Seq(Rows), NEW batch \in Seq(Rows)
  PROVE  LET fresh == Fresh(rows, batch) IN
         /\ fresh \in Seq(Rows) /\ Distinct(fresh)
         /\ Range(fresh) = {Latest(batch, id) : id \in IdsOf(batch) \ IdsOf(rows)}
         /\ IdsOf(fresh) = IdsOf(batch) \ IdsOf(rows)
<1> DEFINE firsts == {i \in DOMAIN batch :
                        /\ batch[i].id \notin IdsOf(rows)
                        /\ \A j \in 1 .. i - 1 : batch[j].id # batch[i].id}
           news == RowsAt(batch, firsts)
           told == [k \in DOMAIN news |-> Latest(batch, news[k].id)]
<1>1. Len(batch) \in Nat /\ DOMAIN batch = 1 .. Len(batch)
  BY ListRows
<1>2. \A id \in IdsOf(batch) \ IdsOf(rows) : \E i \in firsts : batch[i].id = id
  <2> TAKE id \in IdsOf(batch) \ IdsOf(rows)
  <2> DEFINE at == {Len(batch) - i : i \in {j \in DOMAIN batch : batch[j].id = id}}
  <2>1. at \subseteq Nat /\ at # {} /\ at \subseteq 0 .. Len(batch)
    BY <1>1 DEF IdsOf
  <2>2. IsFiniteSet(at)
    <3>1. IsFiniteSet(0 .. Len(batch))
      BY <1>1, FS_Interval
    <3> HIDE DEF at
    <3> QED BY <2>1, <3>1, FS_Subset
  <2>3. Max(at) \in at /\ \A y \in at : Max(at) >= y
    <3> HIDE DEF at
    <3> QED BY <2>1, <2>2, GreatestIsIn
  <2>4. PICK i \in DOMAIN batch : batch[i].id = id /\ Max(at) = Len(batch) - i
    BY <2>3
  <2> HIDE DEF at
  <2>5. \A j \in DOMAIN batch : batch[j].id = id => Len(batch) - j \in at
    BY DEF at
  <2>6. \A j \in 1 .. i - 1 : batch[j].id # batch[i].id
    <3> SUFFICES ASSUME NEW j \in 1 .. i - 1, batch[j].id = id PROVE FALSE
      BY <2>4
    <3>1. j \in DOMAIN batch
      BY <1>1
    <3>2. Len(batch) - i >= Len(batch) - j
      BY <2>3, <2>4, <2>5, <3>1
    <3> QED BY <1>1, <3>1, <3>2
  <2> QED BY <2>4, <2>6
<1>3. \A i, j \in firsts : batch[i].id = batch[j].id => i = j
  <2> SUFFICES ASSUME NEW i \in firsts, NEW j \in firsts, batch[i].id = batch[j].id, i < j
               PROVE  FALSE
    BY <1>1
  <2>1. i \in 1 .. j - 1
    BY <1>1
  <2> QED BY <2>1
<1>4. firsts \in SUBSET DOMAIN batch /\ \A i \in firsts : batch[i].id \in IdsOf(batch) \ IdsOf(rows)
  BY DEF IdsOf
<1> HIDE DEF firsts
<1>a. firsts \in SUBSET DOMAIN batch
  BY <1>4
<1>b. news = RowsAt(batch, firsts)
  OBVIOUS
<1> HIDE DEF news
<1>5. news \in Seq(Rows)
  BY <1>a, <1>b, RowsAtKeeps
<1>6. PICK o \in [1 .. Len(news) -> firsts] :
        /\ \A k \in 1 .. Len(news) : news[k] = batch[o[k]]
        /\ \A i \in firsts : \E k \in 1 .. Len(news) : o[k] = i
        /\ \A j, k \in 1 .. Len(news) : o[j] = o[k] => j = k
  BY <1>a, <1>b, RowsAtKeeps, SMTT(30)
<1>7. Fresh(rows, batch) = NewestFirst(told)
  BY DEF Fresh, firsts, news
<1>8. Len(news) \in Nat /\ DOMAIN news = 1 .. Len(news)
  BY <1>5, ListRows
<1>9. \A k \in DOMAIN news : news[k].id \in IdsOf(batch) \ IdsOf(rows)
  BY <1>4, <1>6, <1>8
<1>10. \A k \in DOMAIN told : told[k] \in Rows /\ told[k].id = news[k].id
  <2> TAKE k \in DOMAIN told
  <2>1. told[k] = Latest(batch, news[k].id) /\ news[k].id \in IdsOf(batch)
    BY <1>9
  <2>2. told[k] \in Range(batch) /\ told[k].id = news[k].id
    BY <2>1, LatestIsACopy
  <2> QED BY <2>2, ListRows
<1>11. told \in Seq(Rows) /\ DOMAIN told = DOMAIN news
  BY <1>8, <1>10
<1>12. Distinct(told)
  <2> SUFFICES ASSUME NEW j \in DOMAIN news, NEW k \in DOMAIN news, told[j].id = told[k].id
               PROVE  j = k
    BY <1>11 DEF Distinct
  <2>1. news[j].id = news[k].id
    BY <1>10, <1>11
  <2>2. batch[o[j]].id = batch[o[k]].id /\ o[j] \in firsts /\ o[k] \in firsts
    BY <1>6, <1>8, <2>1
  <2> QED BY <1>3, <1>6, <1>8, <2>2
<1>13. Range(told) = {Latest(batch, id) : id \in IdsOf(batch) \ IdsOf(rows)}
  <2>1. ASSUME NEW r \in Range(told)
        PROVE  \E id \in IdsOf(batch) \ IdsOf(rows) : r = Latest(batch, id)
    BY <1>9, <1>11, <2>1 DEF Range
  <2>2. ASSUME NEW id \in IdsOf(batch) \ IdsOf(rows) PROVE Latest(batch, id) \in Range(told)
    <3>1. PICK i \in firsts : batch[i].id = id
      BY <1>2
    <3>2. PICK k \in 1 .. Len(news) : o[k] = i
      BY <1>6
    <3>3. told[k] = Latest(batch, id) /\ k \in DOMAIN told
      BY <1>6, <1>8, <1>11, <3>1, <3>2
    <3> QED BY <3>3 DEF Range
  <2> QED BY <2>1, <2>2
<1> HIDE DEF told
<1>14. /\ NewestFirst(told) \in Seq(Rows) /\ Distinct(NewestFirst(told))
       /\ Range(NewestFirst(told)) = Range(told)
  BY <1>11, <1>12, SortKeeps
<1>15. IdsOf(NewestFirst(told)) = IdsOf(batch) \ IdsOf(rows)
  <2>1. \A id : id \in IdsOf(NewestFirst(told)) <=> \E r \in Range(told) : r.id = id
    BY <1>14, ListRows
  <2>2. \A id \in IdsOf(batch) : Latest(batch, id).id = id
    BY LatestIsACopy
  <2> QED BY <1>13, <2>1, <2>2
<1> QED BY <1>7, <1>13, <1>14, <1>15

\* A row of the list, or its newest copy in the batch.
Settled(row, batch) == IF row.id \in IdsOf(batch) THEN Latest(batch, row.id) ELSE row

\* What a batch makes of the list before it is cut: its receipts are those of both.
LEMMA BatchJoins ==
  ASSUME NEW rows \in Seq(Rows), NEW batch \in Seq(Rows)
  PROVE  LET joined == Fresh(rows, batch) \o [i \in DOMAIN rows |-> Settled(rows[i], batch)] IN
         /\ joined \in Seq(Rows) /\ applyLive(rows, batch) = UpToMax(joined)
         /\ IdsOf(joined) = IdsOf(rows) \cup IdsOf(batch)
         /\ Range(joined) = {Latest(batch, id) : id \in IdsOf(batch)}
                            \cup {r \in Range(rows) : r.id \notin IdsOf(batch)}
         /\ Distinct(rows) => Distinct(joined)
<1> DEFINE fresh == Fresh(rows, batch)
           known == [i \in DOMAIN rows |-> Settled(rows[i], batch)]
<1>1. Len(rows) \in Nat /\ DOMAIN rows = 1 .. Len(rows)
  BY ListRows
<1>2. \A i \in DOMAIN rows : rows[i] \in Rows /\ rows[i] \in Range(rows)
  BY ListRows
<1>3. ASSUME NEW i \in DOMAIN rows PROVE known[i] \in Rows /\ known[i].id = rows[i].id
  <2>1. CASE rows[i].id \in IdsOf(batch)
    <3>1. known[i] = Latest(batch, rows[i].id)
      BY <2>1 DEF Settled
    <3>2. known[i] \in Range(batch) /\ known[i].id = rows[i].id
      BY <2>1, <3>1, LatestIsACopy
    <3> QED BY <3>2, ListRows
  <2>2. CASE rows[i].id \notin IdsOf(batch)
    BY <1>2, <2>2 DEF Settled
  <2> QED BY <2>1, <2>2
<1>4. known \in Seq(Rows) /\ DOMAIN known = DOMAIN rows
  BY <1>1, <1>3
<1>5. IdsOf(known) = IdsOf(rows)
  BY <1>3, <1>4 DEF IdsOf
<1>6. Distinct(rows) => Distinct(known)
  BY <1>3, <1>4 DEF Distinct
<1>7. Range(known) = {Latest(batch, id) : id \in IdsOf(batch) \cap IdsOf(rows)}
                     \cup {r \in Range(rows) : r.id \notin IdsOf(batch)}
  <2>1. ASSUME NEW r \in Range(known)
        PROVE  \/ \E id \in IdsOf(batch) \cap IdsOf(rows) : r = Latest(batch, id)
               \/ r \in Range(rows) /\ r.id \notin IdsOf(batch)
    <3>1. PICK i \in DOMAIN rows : r = known[i]
      BY <1>4, <2>1 DEF Range
    <3>2. rows[i].id \in IdsOf(rows)
      BY DEF IdsOf
    <3> QED BY <1>2, <3>1, <3>2 DEF Settled
  <2>2. ASSUME NEW id \in IdsOf(batch) \cap IdsOf(rows) PROVE Latest(batch, id) \in Range(known)
    <3>1. PICK i \in DOMAIN rows : rows[i].id = id
      BY <2>2 DEF IdsOf
    <3>2. known[i] = Latest(batch, id) /\ i \in DOMAIN known
      BY <1>4, <2>2, <3>1 DEF Settled
    <3> QED BY <3>2 DEF Range
  <2>3. ASSUME NEW r \in Range(rows), r.id \notin IdsOf(batch) PROVE r \in Range(known)
    <3>1. PICK i \in DOMAIN rows : rows[i] = r
      BY <2>3 DEF Range
    <3>2. known[i] = r /\ i \in DOMAIN known
      BY <1>4, <2>3, <3>1 DEF Settled
    <3> QED BY <3>2 DEF Range
  <2> QED BY <2>1, <2>2, <2>3
<1>8. /\ fresh \in Seq(Rows) /\ Distinct(fresh)
      /\ Range(fresh) = {Latest(batch, id) : id \in IdsOf(batch) \ IdsOf(rows)}
      /\ IdsOf(fresh) = IdsOf(batch) \ IdsOf(rows)
  BY FreshAreNew
<1>9. applyLive(rows, batch) = UpToMax(fresh \o known)
  BY DEF applyLive, Settled
<1> HIDE DEF fresh, known
<1>10. /\ fresh \o known \in Seq(Rows)
       /\ Range(fresh \o known) = Range(fresh) \cup Range(known)
       /\ IdsOf(fresh \o known) = IdsOf(fresh) \cup IdsOf(known)
       /\ Distinct(rows) => Distinct(fresh \o known)
  BY <1>4, <1>5, <1>6, <1>8, JoinKeeps
<1> QED BY <1>5, <1>7, <1>8, <1>9, <1>10 DEF fresh, known

\* The list is cut at its end.
LEMMA CutKeeps ==
  ASSUME NEW rows \in Seq(Rows)
  PROVE  LET cut == UpToMax(rows) IN
         /\ cut \in Seq(Rows) /\ Len(cut) <= MaxRows /\ Len(cut) <= Len(rows)
         /\ Len(cut) = MaxRows \/ cut = rows
         /\ \A i \in DOMAIN cut : i \in DOMAIN rows /\ cut[i] = rows[i]
         /\ Range(cut) \subseteq Range(rows) /\ IdsOf(cut) \subseteq IdsOf(rows)
         /\ Distinct(rows) => Distinct(cut)
<1> DEFINE n == IF MaxRows <= Len(rows) THEN MaxRows ELSE Len(rows)
<1>1. Len(rows) \in Nat /\ DOMAIN rows = 1 .. Len(rows) /\ MaxRows \in Nat
  BY ListRows, FeedAssumptions
<1>2. Min({MaxRows, Len(rows)}) = n
  BY <1>1, LesserOfTwo
<1>3. n \in 0 .. Len(rows) /\ n <= MaxRows
  BY <1>1
<1>4. UpToMax(rows) = SubSeq(rows, 1, n)
  BY <1>2 DEF UpToMax
<1> HIDE DEF n
<1>5. /\ SubSeq(rows, 1, n) \in Seq(Rows) /\ Len(SubSeq(rows, 1, n)) = n
      /\ \A i \in 1 .. n : SubSeq(rows, 1, n)[i] = rows[i]
      /\ Range(SubSeq(rows, 1, n)) \subseteq Range(rows)
      /\ IdsOf(SubSeq(rows, 1, n)) \subseteq IdsOf(rows)
      /\ Distinct(rows) => Distinct(SubSeq(rows, 1, n))
  BY <1>3, HeadKeeps
<1>6. DOMAIN UpToMax(rows) = 1 .. n /\ \A i \in 1 .. n : i \in DOMAIN rows
  BY <1>1, <1>3, <1>4, <1>5, ListRows
<1>7. n = Len(rows) => SubSeq(rows, 1, n) = rows
  BY SubSeqFull
<1>8. n = MaxRows \/ n = Len(rows)
  BY DEF n
<1>9. /\ Len(UpToMax(rows)) <= MaxRows /\ Len(UpToMax(rows)) <= Len(rows)
      /\ Len(UpToMax(rows)) = MaxRows \/ UpToMax(rows) = rows
  <2>1. Len(UpToMax(rows)) = n
    BY <1>4, <1>5
  <2>2. n = Len(rows) => UpToMax(rows) = rows
    BY <1>4, <1>7
  <2>3. n <= MaxRows /\ n <= Len(rows)
    BY <1>1, <1>3
  <2> QED BY <1>8, <2>1, <2>2, <2>3
<1>10. \A i \in DOMAIN UpToMax(rows) : i \in DOMAIN rows /\ UpToMax(rows)[i] = rows[i]
  BY <1>4, <1>5, <1>6
<1> QED BY <1>4, <1>5, <1>9, <1>10

-----------------------------------------------------------------------------
(* What the server answers *)

\* The receipts that a request for rows of q before `before` is about.
Found(q, before) ==
  {i \in Ids : stored[i] # "absent" /\ SinceOf[q] <= TsOf[i] /\ (before # NoTs => TsOf[i] < before)}

LEMMA StoredRows ==
  ASSUME FeedTypeOK, NEW id \in Ids, stored[id] # "absent"
  PROVE  Row(id) \in Rows /\ Row(id).id = id
<1>1. stored[id] \in {"open", "settled"}
  BY DEF FeedTypeOK, States
<1> QED BY <1>1 DEF Row, Rows

\* The server lists what it has found, newest first.
LEMMA ServerLists ==
  ASSUME FeedTypeOK, NEW q, NEW before
  PROVE  LET order == ServerOrder(q, before) IN
         /\ order \in Seq(Rows) /\ Distinct(order)
         /\ Range(order) = {Row(i) : i \in Found(q, before)}
         /\ \A j, k \in DOMAIN order : j < k => Ts(order[j]) >= Ts(order[k])
<1> DEFINE found == Found(q, before)
           ahead == [i \in found |-> {j \in found : \/ TsOf[j] > TsOf[i]
                                                    \/ TsOf[j] = TsOf[i] /\ j < i}]
           key == [i \in found |-> TsOf[i]]
           o == Ranked(found, ahead)
           n == Cardinality(found)
           order == ServerOrder(q, before)
<1>1. /\ found \subseteq Ids /\ found \subseteq Nat /\ IsFiniteSet(found)
      /\ \A i \in found : stored[i] # "absent" /\ TsOf[i] \in Nat
  <2>1. found \subseteq Ids /\ \A i \in found : stored[i] # "absent"
    BY DEF Found
  <2>2. IsFiniteSet(found) /\ found \subseteq Nat
    <3> HIDE DEF found
    <3>1. IsFiniteSet(Ids) /\ Ids \subseteq Nat
      BY FeedAssumptions
    <3> QED BY <2>1, <3>1, FS_Subset
  <2>3. \A i \in found : TsOf[i] \in Nat
    <3> HIDE DEF found
    <3> QED BY <2>1, FeedAssumptions
  <2> QED BY <2>1, <2>2, <2>3
<1>2. ahead = [i \in found |-> {j \in found : key[j] > key[i] \/ (key[j] = key[i] /\ j < i)}]
  <2> HIDE DEF found
  <2> QED OBVIOUS
<1>3. key \in [found -> Nat]
  BY <1>1
<1>4. order = [k \in DOMAIN o |-> Row(o[k])]
  BY DEF ServerOrder, Found
<1>a. \A i \in found : key[i] = TsOf[i]
  OBVIOUS
<1> HIDE DEF found, ahead, key, o, n, order
<1>5. Orders(found, ahead)
  BY <1>1, <1>2, <1>3, KeyOrders
<1>6. /\ n \in Nat /\ o \in [1 .. n -> found]
      /\ \A x \in found : \E k \in 1 .. n : o[k] = x
      /\ \A j, k \in 1 .. n : j < k <=> o[j] \in ahead[o[k]]
      /\ \A j, k \in 1 .. n : o[j] = o[k] => j = k
  BY <1>1, <1>5, RankedLists DEF o, n
<1>7. \A k \in 1 .. n : order[k] = Row(o[k]) /\ Row(o[k]) \in Rows /\ Row(o[k]).id = o[k]
  <2> TAKE k \in 1 .. n
  <2>1. o[k] \in found
    BY <1>6
  <2> QED BY <1>1, <1>4, <1>6, <2>1, StoredRows
<1>8. order \in Seq(Rows) /\ DOMAIN order = 1 .. n
  BY <1>4, <1>6, <1>7
<1>9. Distinct(order)
  BY <1>6, <1>7, <1>8 DEF Distinct
<1>10. Range(order) = {Row(i) : i \in found}
  <2>1. \A r \in Range(order) : \E i \in found : r = Row(i)
    BY <1>6, <1>7, <1>8 DEF Range
  <2>2. \A i \in found : Row(i) \in Range(order)
    BY <1>6, <1>7, <1>8 DEF Range
  <2> QED BY <2>1, <2>2
<1>11. \A j, k \in 1 .. n : j < k => Ts(order[j]) >= Ts(order[k])
  <2> SUFFICES ASSUME NEW j \in 1 .. n, NEW k \in 1 .. n, j < k
               PROVE  Ts(order[j]) >= Ts(order[k])
    OBVIOUS
  <2>1. o[j] \in found /\ o[k] \in found /\ o[j] \in ahead[o[k]]
    BY <1>6
  <2>2. \A x, y \in found : x \in ahead[y] => TsOf[x] >= TsOf[y]
    <3> SUFFICES ASSUME NEW x \in found, NEW y \in found, x \in ahead[y] PROVE TsOf[x] >= TsOf[y]
      OBVIOUS
    <3>1. key[x] > key[y] \/ key[x] = key[y]
      BY <1>2
    <3> QED BY <1>1, <1>a, <3>1
  <2>3. Ts(order[j]) = TsOf[o[j]] /\ Ts(order[k]) = TsOf[o[k]]
    BY <1>7 DEF Ts
  <2> QED BY <2>1, <2>2, <2>3
<1> QED BY <1>8, <1>9, <1>10, <1>11 DEF found, order

\* A request within the window of q: for its first rows, or for those before a row of it.
Asked(q, before) == before = BeforeOf[q] \/ (before # NoTs /\ Within(q, before))

LEMMA FoundMatches ==
  ASSUME FeedTypeOK, NEW q \in Queries, NEW before \in Nat, Asked(q, before),
         NEW i \in Found(q, before), i \in Selects[FilterOf[q]]
  PROVE  matches(q, i)
<1>1. /\ i \in Ids /\ TsOf[i] \in Nat /\ BeforeOf[q] \in Nat
      /\ SinceOf[q] <= TsOf[i] /\ (before # NoTs => TsOf[i] < before)
  BY FeedAssumptions DEF Found
<1> QED BY <1>1 DEF Asked, Within, matches, inWindow, NoTs

\* A page of q is of q, without repetition.
LEMMA PagesAreOfTheirQuery ==
  ASSUME FeedTypeOK, NEW q \in Queries, NEW before \in Nat, Asked(q, before)
  PROVE  /\ ServerPage(q, before) \in Seq(Rows) /\ Distinct(ServerPage(q, before))
         /\ AllMatch(q, ServerPage(q, before))
         /\ \A n \in CutsShort(q, before) :
              LET cut == ReadUpTo(q, before, n) IN
              /\ cut.rows \in Seq(Rows) /\ Distinct(cut.rows) /\ AllMatch(q, cut.rows)
              /\ cut.continueBefore \in 1 .. MaxTs + 1 /\ Within(q, cut.continueBefore)
<1> DEFINE order == ServerOrder(q, before)
<1>1. /\ order \in Seq(Rows) /\ Distinct(order)
      /\ Range(order) = {Row(i) : i \in Found(q, before)}
  BY ServerLists
<1> HIDE DEF order
<1>2. \A r \in Range(order) : r.id \in Found(q, before)
  <2>1. \A i \in Found(q, before) : Row(i).id = i
    BY StoredRows DEF Found
  <2> QED BY <1>1, <2>1
<1>3. ASSUME NEW rows \in Seq(Rows), Range(rows) \subseteq Range(order)
      PROVE  /\ Selected(q, rows) \in Seq(Rows) /\ AllMatch(q, Selected(q, rows))
             /\ Distinct(rows) => Distinct(Selected(q, rows))
  <2> DEFINE kept == Selected(q, rows)
  <2>1. /\ kept \in Seq(Rows)
        /\ Distinct(rows) => Distinct(kept)
        /\ Range(kept) = {r \in Range(rows) : r.id \in Selects[FilterOf[q]]}
    BY FilterKeeps DEF Selected
  <2> HIDE DEF kept
  <2>2. \A r \in Range(kept) : matches(q, r.id)
    BY <1>2, <1>3, <2>1, FoundMatches
  <2>3. AllMatch(q, kept)
    BY <2>1, <2>2, ListRows DEF AllMatch
  <2> QED BY <2>1, <2>3 DEF kept
<1>4. /\ ServerPage(q, before) \in Seq(Rows) /\ Distinct(ServerPage(q, before))
      /\ AllMatch(q, ServerPage(q, before))
  <2> DEFINE kept == Selected(q, order)
             n == IF Page <= Len(kept) THEN Page ELSE Len(kept)
  <2>1. kept \in Seq(Rows) /\ AllMatch(q, kept) /\ Distinct(kept)
    BY <1>1, <1>3
  <2>2. ServerPage(q, before) = SubSeq(kept, 1, Min({Page, Len(kept)}))
    BY DEF ServerPage, order
  <2> HIDE DEF kept
  <2>3. Len(kept) \in Nat /\ Page \in Nat
    BY <2>1, ListRows, FeedAssumptions
  <2>a. Min({Page, Len(kept)}) = n
    BY <2>3, LesserOfTwo
  <2>b. n \in 0 .. Len(kept)
    BY <2>3
  <2>4. ServerPage(q, before) = SubSeq(kept, 1, n) /\ n \in 0 .. Len(kept)
    BY <2>2, <2>a, <2>b
  <2> HIDE DEF n
  <2>5. /\ SubSeq(kept, 1, n) \in Seq(Rows) /\ Len(SubSeq(kept, 1, n)) = n
        /\ Distinct(SubSeq(kept, 1, n))
        /\ \A i \in 1 .. n : SubSeq(kept, 1, n)[i] = kept[i]
    BY <2>1, <2>4, HeadKeeps
  <2>6. AllMatch(q, SubSeq(kept, 1, n))
    <3>1. DOMAIN SubSeq(kept, 1, n) = 1 .. n /\ DOMAIN kept = 1 .. Len(kept)
      BY <2>1, <2>5, ListRows
    <3> QED BY <2>1, <2>3, <2>4, <2>5, <3>1 DEF AllMatch
  <2> QED BY <2>4, <2>5, <2>6
<1>5. ASSUME NEW n \in CutsShort(q, before)
      PROVE  LET cut == ReadUpTo(q, before, n) IN
             /\ cut.rows \in Seq(Rows) /\ Distinct(cut.rows) /\ AllMatch(q, cut.rows)
             /\ cut.continueBefore \in 1 .. MaxTs + 1 /\ Within(q, cut.continueBefore)
  <2>1. n \in DOMAIN order
    BY DEF CutsShort, order
  <2>2. n \in 0 .. Len(order) /\ order[n] \in Range(order) /\ order[n] \in Rows
    BY <1>1, <2>1, ListRows
  <2>3. /\ SubSeq(order, 1, n) \in Seq(Rows) /\ Distinct(SubSeq(order, 1, n))
        /\ Range(SubSeq(order, 1, n)) \subseteq Range(order)
    BY <1>1, <2>2, HeadKeeps
  <2>4. /\ ReadUpTo(q, before, n).rows = Selected(q, SubSeq(order, 1, n))
        /\ ReadUpTo(q, before, n).continueBefore = Ts(order[n]) + 1
    BY DEF ReadUpTo, order
  <2>5. Ts(order[n]) \in 1 .. MaxTs /\ MaxTs \in Nat
    BY <2>2, RowTimes, FeedAssumptions
  <2>6. Within(q, Ts(order[n]) + 1)
    <3>1. order[n].id \in Found(q, before)
      BY <1>2, <2>2
    <3>2. before # NoTs => Ts(order[n]) < before
      BY <3>1 DEF Found, Ts
    <3>3. BeforeOf[q] \in Nat
      BY FeedAssumptions
    <3> QED BY <2>5, <3>2, <3>3 DEF Within, Asked, NoTs
  <2>7. Ts(order[n]) + 1 \in 1 .. MaxTs + 1
    BY <2>5
  <2> QED BY <1>3, <2>3, <2>4, <2>6, <2>7
<1> QED BY <1>4, <1>5

-----------------------------------------------------------------------------
(* The invariant *)

FirstRequests == [at : Stages, rows : Seq(Rows), continueBefore : 0 .. MaxTs + 1]
OlderRequests == [at : Stages, q : Queries \cup {NoQuery}, stale : BOOLEAN, before : 0 .. MaxTs + 1,
                  rows : Seq(Rows), continueBefore : 0 .. MaxTs + 1]
Feeds == [rows : Seq(Rows), loaded : BOOLEAN, reachedEnd : BOOLEAN, continueBefore : 0 .. MaxTs + 1]
Streams == [started : BOOLEAN, query : {FilterOf[q] : q \in Queries} \cup {NoFilters},
            ready : BOOLEAN, tailed : BOOLEAN, thinned : BOOLEAN, sampling : BOOLEAN]

\* What FeedTypeOK says of the parts, of which each step changes a few.
ListShape   == feed \in Feeds /\ Distinct(feed.rows)
FirstShape  == first \in FirstRequests /\ Distinct(first.rows)
OlderShape  == older \in OlderRequests /\ Distinct(older.rows)
StreamShape == stream \in Streams /\ wire \in Seq(Rows \cup Notices) /\ queue \in Seq(Rows)
PageShape ==
  /\ query \in Queries \cup {NoQuery}
  /\ loadingOlder \in BOOLEAN /\ dropped \in BOOLEAN /\ sampledFor \in BOOLEAN
  /\ frozenTop \in 0 .. MaxTs
CountShape == faults \in 0 .. MaxFaults /\ moves \in 0 .. MaxMoves
StoreShape == stored \in [Ids -> States]

LEMMA ShapesMakeTypes ==
  ListShape /\ FirstShape /\ OlderShape /\ StreamShape /\ PageShape /\ CountShape /\ StoreShape
    <=> FeedTypeOK /\ RowsOnce
<1>1. ASSUME ListShape PROVE Len(feed.rows) <= MaxRows + Cardinality(Ids)
  <2>1. feed.rows \in Seq(Rows) /\ Distinct(feed.rows)
    BY <1>1 DEF ListShape, Feeds
  <2>2. Len(feed.rows) \in Nat /\ Len(feed.rows) <= Cardinality(Ids)
    BY <2>1, RowsAreCounted, ListRows
  <2>3. MaxRows \in Nat /\ Cardinality(Ids) \in Nat
    BY FeedAssumptions, FS_CardinalityType
  <2> QED BY <2>2, <2>3
<1> QED
  BY <1>1 DEF ListShape, FirstShape, OlderShape, StreamShape, PageShape, CountShape, StoreShape,
              FirstRequests, OlderRequests, Feeds, Streams, FeedTypeOK, RowsOnce

\* What is left alone stays as it was.
LEMMA ShapesStay ==
  /\ ListShape /\ UNCHANGED feed => ListShape'
  /\ FirstShape /\ UNCHANGED first => FirstShape'
  /\ OlderShape /\ UNCHANGED older => OlderShape'
  /\ StreamShape /\ UNCHANGED streamVars => StreamShape'
  /\ PageShape /\ UNCHANGED <<pageVars, dropped, frozenTop>> => PageShape'
  /\ CountShape /\ UNCHANGED <<faults, moves>> => CountShape'
  /\ StoreShape /\ UNCHANGED stored => StoreShape'
  /\ PagesMatch /\ UNCHANGED <<query, feed, first, older>> => PagesMatch'
  /\ StreamMatches /\ UNCHANGED <<query, streamVars>> => StreamMatches'
BY DEF ListShape, FirstShape, OlderShape, StreamShape, PageShape, CountShape, StoreShape,
       PagesMatch, AllMatch, matches, inWindow, Within, StreamMatches, streamVars, pageVars

LEMMA GapsStayTold ==
  GapsTold /\ UNCHANGED <<query, stream, wire, dropped, sampledFor>>
    /\ (\A how \in {"lost", "dropped", "sampled"} : how \in holes' <=> how \in holes)
  => GapsTold'
BY DEF GapsTold, OnWire

LEMMA NoRows ==
  /\ <<>> \in Seq(Rows) /\ Distinct(<<>>)
  /\ \A q : AllMatch(q, <<>>)
BY DEF Distinct, AllMatch

LEMMA FeedInitHolds == FeedInit => FeedInv
<1> SUFFICES ASSUME FeedInit PROVE FeedInv
  OBVIOUS
<1> USE DEF FeedInit
<1>1. MaxTs \in Nat /\ MaxFaults \in Nat /\ MaxMoves \in Nat
  BY FeedAssumptions
<1>2. ListShape /\ FirstShape /\ OlderShape
  BY <1>1, NoRows DEF ListShape, FirstShape, OlderShape, NoFeed, NoRequest, NoOlder, Feeds,
                      FirstRequests, OlderRequests, NoTs, Stages
<1>3. StreamShape
  BY DEF StreamShape, Streams
<1>a. PageShape /\ CountShape
  <2>1. frozenTop \in 0 .. MaxTs /\ CountShape
    BY <1>1 DEF CountShape, NoTs
  <2>2. loadingOlder \in BOOLEAN /\ dropped \in BOOLEAN /\ sampledFor \in BOOLEAN
    OBVIOUS
  <2> QED BY <2>1, <2>2 DEF PageShape
<1>b. StoreShape
  BY DEF StoreShape, States
<1>4. PagesMatch
  BY DEF PagesMatch, NoRequest, NoOlder
<1>5. StreamMatches /\ GapsTold
  BY DEF StreamMatches, GapsTold, OnWire
<1> QED BY <1>2, <1>3, <1>4, <1>5, <1>a, <1>b, ShapesMakeTypes DEF FeedInv

\* The constants of a query.
LEMMA QueryTypes ==
  ASSUME NEW q \in Queries
  PROVE  q # NoQuery /\ BeforeOf[q] \in Nat /\ SinceOf[q] \in Nat /\ Asked(q, BeforeOf[q])
BY FeedAssumptions DEF Asked

-----------------------------------------------------------------------------
(* The server's steps *)

\* What an answered request for a page of q has come to be.
LEMMA AnswerOfFirst ==
  ASSUME FeedTypeOK, RowsOnce, NEW q \in Queries, NEW before \in Nat, Asked(q, before), NEW r,
         \/ r \in Answers(first, q, before)
         \/ r \in Stops(first, q, before) \cup {[first EXCEPT !.at = "failed"]}
  PROVE  /\ r \in FirstRequests /\ Distinct(r.rows) /\ r.at \in {"read", "failed"}
         /\ r.at = "read" => AllMatch(q, r.rows) /\ Within(q, r.continueBefore)
<1>1. first \in FirstRequests /\ Distinct(first.rows)
  BY ShapesMakeTypes DEF FirstShape
<1>2. /\ ServerPage(q, before) \in Seq(Rows) /\ Distinct(ServerPage(q, before))
      /\ AllMatch(q, ServerPage(q, before))
  BY PagesAreOfTheirQuery
<1>3. CASE r \in Answers(first, q, before)
  <2>1. r = [first EXCEPT !.at = "read", !.rows = ServerPage(q, before), !.continueBefore = NoTs]
    BY <1>3 DEF Answers
  <2>2. r.at = "read" /\ r.rows = ServerPage(q, before) /\ r.continueBefore = NoTs
    BY <1>1, <2>1 DEF FirstRequests
  <2>3. r \in FirstRequests
    <3>1. NoTs \in 0 .. MaxTs + 1
      BY FeedAssumptions DEF NoTs
    <3> QED BY <1>1, <1>2, <2>1, <3>1 DEF FirstRequests, Stages
  <2> QED BY <1>2, <2>2, <2>3 DEF Within
<1>4. CASE r \in Stops(first, q, before)
  <2>1. PICK n \in CutsShort(q, before) :
          r = [first EXCEPT !.at = "read", !.rows = ReadUpTo(q, before, n).rows,
                            !.continueBefore = ReadUpTo(q, before, n).continueBefore]
    BY <1>4 DEF Stops
  <2> DEFINE cut == ReadUpTo(q, before, n)
  <2>2. /\ cut.rows \in Seq(Rows) /\ Distinct(cut.rows) /\ AllMatch(q, cut.rows)
        /\ cut.continueBefore \in 1 .. MaxTs + 1 /\ Within(q, cut.continueBefore)
    BY PagesAreOfTheirQuery
  <2>a. r = [first EXCEPT !.at = "read", !.rows = cut.rows, !.continueBefore = cut.continueBefore]
    BY <2>1
  <2> HIDE DEF cut
  <2>3. r.at = "read" /\ r.rows = cut.rows /\ r.continueBefore = cut.continueBefore
    BY <1>1, <2>a DEF FirstRequests
  <2>4. r \in FirstRequests
    <3>1. cut.continueBefore \in 0 .. MaxTs + 1
      BY <2>2, FeedAssumptions
    <3> QED BY <1>1, <2>2, <2>a, <3>1 DEF FirstRequests, Stages
  <2> QED BY <2>2, <2>3, <2>4
<1>5. CASE r = [first EXCEPT !.at = "failed"]
  BY <1>1, <1>5 DEF FirstRequests, Stages
<1> QED BY <1>3, <1>4, <1>5

LEMMA AnswerOfOlder ==
  ASSUME FeedTypeOK, RowsOnce, NEW q \in Queries, NEW before \in Nat, Asked(q, before), NEW r,
         \/ r \in Answers(older, q, before)
         \/ r \in Stops(older, q, before) \cup {[older EXCEPT !.at = "failed"]}
  PROVE  /\ r \in OlderRequests /\ Distinct(r.rows) /\ r.at \in {"read", "failed"}
         /\ r.q = older.q /\ r.before = older.before /\ r.stale = older.stale
         /\ r.at = "read" => AllMatch(q, r.rows) /\ Within(q, r.continueBefore)
<1>1. older \in OlderRequests /\ Distinct(older.rows)
  BY ShapesMakeTypes DEF OlderShape
<1>2. /\ ServerPage(q, before) \in Seq(Rows) /\ Distinct(ServerPage(q, before))
      /\ AllMatch(q, ServerPage(q, before))
  BY PagesAreOfTheirQuery
<1>3. CASE r \in Answers(older, q, before)
  <2>1. r = [older EXCEPT !.at = "read", !.rows = ServerPage(q, before), !.continueBefore = NoTs]
    BY <1>3 DEF Answers
  <2>2. /\ r.at = "read" /\ r.rows = ServerPage(q, before) /\ r.continueBefore = NoTs
        /\ r.q = older.q /\ r.before = older.before /\ r.stale = older.stale
    BY <1>1, <2>1 DEF OlderRequests
  <2>3. r \in OlderRequests
    <3>1. NoTs \in 0 .. MaxTs + 1
      BY FeedAssumptions DEF NoTs
    <3> QED BY <1>1, <1>2, <2>1, <3>1 DEF OlderRequests, Stages
  <2> QED BY <1>2, <2>2, <2>3 DEF Within
<1>4. CASE r \in Stops(older, q, before)
  <2>1. PICK n \in CutsShort(q, before) :
          r = [older EXCEPT !.at = "read", !.rows = ReadUpTo(q, before, n).rows,
                            !.continueBefore = ReadUpTo(q, before, n).continueBefore]
    BY <1>4 DEF Stops
  <2> DEFINE cut == ReadUpTo(q, before, n)
  <2>2. /\ cut.rows \in Seq(Rows) /\ Distinct(cut.rows) /\ AllMatch(q, cut.rows)
        /\ cut.continueBefore \in 1 .. MaxTs + 1 /\ Within(q, cut.continueBefore)
    BY PagesAreOfTheirQuery
  <2>a. r = [older EXCEPT !.at = "read", !.rows = cut.rows, !.continueBefore = cut.continueBefore]
    BY <2>1
  <2> HIDE DEF cut
  <2>3. /\ r.at = "read" /\ r.rows = cut.rows /\ r.continueBefore = cut.continueBefore
        /\ r.q = older.q /\ r.before = older.before /\ r.stale = older.stale
    BY <1>1, <2>a DEF OlderRequests
  <2>4. r \in OlderRequests
    <3>1. cut.continueBefore \in 0 .. MaxTs + 1
      BY <2>2, FeedAssumptions
    <3> QED BY <1>1, <2>2, <2>a, <3>1 DEF OlderRequests, Stages
  <2> QED BY <2>2, <2>3, <2>4
<1>5. CASE r = [older EXCEPT !.at = "failed"]
  BY <1>1, <1>5 DEF OlderRequests, Stages
<1> QED BY <1>3, <1>4, <1>5

LEMMA FaultsCount ==
  ASSUME CountShape, faults < MaxFaults, faults' = faults + 1, UNCHANGED moves
  PROVE  CountShape'
BY FeedAssumptions DEF CountShape

LEMMA FirstReadKeeps ==
  ASSUME FeedInv, FirstRead
  PROVE  FeedInv'
<1>1. /\ ListShape /\ FirstShape /\ OlderShape /\ StreamShape /\ PageShape /\ CountShape /\ StoreShape
      /\ FeedTypeOK /\ RowsOnce /\ PagesMatch /\ StreamMatches /\ GapsTold
  BY ShapesMakeTypes DEF FeedInv
<1>2. /\ UNCHANGED <<stored, pageVars, feed, dropped, older, streamVars, frozenTop, moves>>
      /\ first.at = "sent"
  BY DEF FirstRead
<1>3. query \in Queries
  BY <1>1, <1>2 DEF PagesMatch, PageShape
<1>4. /\ first' \in FirstRequests /\ Distinct(first'.rows) /\ first'.at \in {"read", "failed"}
      /\ first'.at = "read" => AllMatch(query, first'.rows) /\ Within(query, first'.continueBefore)
  <2>1. BeforeOf[query] \in Nat /\ Asked(query, BeforeOf[query])
    BY <1>3, QueryTypes
  <2>2. \/ first' \in Answers(first, query, BeforeOf[query])
        \/ first' \in Stops(first, query, BeforeOf[query]) \cup {[first EXCEPT !.at = "failed"]}
    BY DEF FirstRead
  <2> QED BY <1>1, <1>3, <2>1, <2>2, AnswerOfFirst
<1>5. FirstShape'
  BY <1>4 DEF FirstShape, FirstRequests
<1>6. CountShape'
  <2>1. UNCHANGED faults \/ (faults < MaxFaults /\ faults' = faults + 1)
    BY DEF FirstRead
  <2> QED BY <1>1, <1>2, <2>1, FaultsCount, ShapesStay
<1>7. PagesMatch'
  BY <1>1, <1>2, <1>3, <1>4, QueryTypes DEF PagesMatch, AllMatch, matches, inWindow, Within, pageVars
<1>8. GapsTold'
  <2>1. CASE first'.at = "failed"
    <3>1. holes' = holes \cup {"failed"}
      BY <2>1 DEF FirstRead
    <3> QED BY <1>1, <1>2, <3>1, GapsStayTold DEF pageVars, streamVars
  <2>2. CASE first'.at # "failed"
    <3>1. \/ holes' = holes \ Misses
          \/ holes' = holes
      BY <2>2 DEF FirstRead
    <3>2. CASE holes' = holes
      BY <1>1, <1>2, <3>2, GapsStayTold DEF pageVars, streamVars
    <3>3. CASE holes' = holes \ Misses
      <4>1. "lost" \notin holes' /\ "dropped" \notin holes' /\ "sampled" \notin holes'
        BY <3>3 DEF Misses
      <4> QED BY <1>1, <1>2, <4>1 DEF GapsTold, OnWire, pageVars, streamVars
    <3> QED BY <3>1, <3>2, <3>3
  <2> QED BY <2>1, <2>2
<1>9. ListShape' /\ OlderShape' /\ StreamShape' /\ PageShape' /\ StoreShape' /\ StreamMatches'
  BY <1>1, <1>2, ShapesStay DEF pageVars
<1> QED BY <1>5, <1>6, <1>7, <1>8, <1>9, ShapesMakeTypes, PTL DEF FeedInv

LEMMA OlderReadKeeps ==
  ASSUME FeedInv, OlderRead
  PROVE  FeedInv'
<1>1. /\ ListShape /\ FirstShape /\ OlderShape /\ StreamShape /\ PageShape /\ CountShape /\ StoreShape
      /\ FeedTypeOK /\ RowsOnce /\ PagesMatch /\ StreamMatches /\ GapsTold
  BY ShapesMakeTypes DEF FeedInv
<1>2. /\ UNCHANGED <<stored, pageVars, feed, dropped, first, streamVars, frozenTop, holes, moves>>
      /\ older.at = "sent"
  BY DEF OlderRead
<1>3. older.q \in Queries /\ older.before \in Nat /\ Asked(older.q, older.before)
  BY <1>1, <1>2 DEF PagesMatch, OlderShape, OlderRequests, Asked
<1>4. /\ older' \in OlderRequests /\ Distinct(older'.rows) /\ older'.at \in {"read", "failed"}
      /\ older'.q = older.q /\ older'.before = older.before
      /\ older'.at = "read" =>
           AllMatch(older.q, older'.rows) /\ Within(older.q, older'.continueBefore)
  <2>2. \/ older' \in Answers(older, older.q, older.before)
        \/ older' \in Stops(older, older.q, older.before) \cup {[older EXCEPT !.at = "failed"]}
    BY DEF OlderRead
  <2> QED BY <1>1, <1>3, <2>2, AnswerOfOlder
<1>5. OlderShape'
  BY <1>4 DEF OlderShape, OlderRequests
<1>6. CountShape'
  <2>1. UNCHANGED faults \/ (faults < MaxFaults /\ faults' = faults + 1)
    BY DEF OlderRead
  <2> QED BY <1>1, <1>2, <2>1, FaultsCount, ShapesStay
<1>7. PagesMatch'
  BY <1>1, <1>2, <1>4 DEF PagesMatch, AllMatch, matches, inWindow, Within, pageVars
<1>8. GapsTold'
  BY <1>1, <1>2, GapsStayTold DEF pageVars, streamVars
<1>9. ListShape' /\ FirstShape' /\ StreamShape' /\ PageShape' /\ StoreShape' /\ StreamMatches'
  BY <1>1, <1>2, ShapesStay DEF pageVars
<1> QED BY <1>5, <1>6, <1>7, <1>8, <1>9, ShapesMakeTypes, PTL DEF FeedInv

\* An event is sent after those on the wire.
LEMMA WireGrows ==
  ASSUME NEW S, NEW w \in Seq(S), NEW e \in S
  PROVE  /\ Append(w, e) \in Seq(S) /\ Len(w) \in Nat /\ DOMAIN w = 1 .. Len(w)
         /\ DOMAIN Append(w, e) = 1 .. Len(w) + 1
         /\ \A i \in DOMAIN w : i \in DOMAIN Append(w, e) /\ Append(w, e)[i] = w[i]
         /\ Len(w) + 1 \in DOMAIN Append(w, e) /\ Append(w, e)[Len(w) + 1] = e
         /\ \A i \in DOMAIN Append(w, e) : i \in DOMAIN w \/ i = Len(w) + 1
<1>1. /\ Append(w, e) \in Seq(S) /\ Len(Append(w, e)) = Len(w) + 1
      /\ \A i \in 1 .. Len(w) : Append(w, e)[i] = w[i]
      /\ Append(w, e)[Len(w) + 1] = e
  BY AppendProperties
<1>2. Len(w) \in Nat /\ DOMAIN w = 1 .. Len(w) /\ DOMAIN Append(w, e) = 1 .. Len(w) + 1
  BY <1>1, LenProperties
<1> QED BY <1>1, <1>2

LEMMA NoticesAreEvents ==
  ASSUME NEW what \in {"dropped", "sampling", "unsampled"}
  PROVE  /\ Notice(what) \in Rows \cup Notices /\ Notice(what).id = NoId
         /\ Notice(what).state = what
BY DEF Notice, Notices

LEMMA StreamReadyKeeps ==
  ASSUME FeedInv, StreamReady \/ subscribe
  PROVE  FeedInv'
<1>1. /\ ListShape /\ FirstShape /\ OlderShape /\ StreamShape /\ PageShape /\ CountShape /\ StoreShape
      /\ FeedTypeOK /\ RowsOnce /\ PagesMatch /\ StreamMatches /\ GapsTold
  BY ShapesMakeTypes DEF FeedInv
<1>2. /\ UNCHANGED <<stored, pageVars, feed, dropped, first, older, wire, queue, frozenTop, holes,
                     faults, moves>>
      /\ stream' = [stream EXCEPT !.ready = TRUE] \/ stream' = [stream EXCEPT !.started = TRUE]
  BY DEF StreamReady, subscribe
<1>3. /\ stream' \in Streams
      /\ stream'.query = stream.query /\ stream'.tailed = stream.tailed
      /\ stream'.thinned = stream.thinned /\ stream'.sampling = stream.sampling
  BY <1>1, <1>2 DEF StreamShape, Streams
<1>4. StreamShape'
  BY <1>1, <1>2, <1>3 DEF StreamShape
<1>5. StreamMatches'
  BY <1>1, <1>2, <1>3 DEF StreamMatches, pageVars
<1>6. GapsTold'
  BY <1>1, <1>2, <1>3 DEF GapsTold, OnWire, pageVars
<1>9. ListShape' /\ FirstShape' /\ OlderShape' /\ PageShape' /\ CountShape' /\ StoreShape' /\ PagesMatch'
  BY <1>1, <1>2, ShapesStay DEF pageVars
<1> QED BY <1>4, <1>5, <1>6, <1>9, ShapesMakeTypes, PTL DEF FeedInv

LEMMA StreamThinsKeeps ==
  ASSUME FeedInv, StreamThins
  PROVE  FeedInv'
<1>1. /\ ListShape /\ FirstShape /\ OlderShape /\ StreamShape /\ PageShape /\ CountShape /\ StoreShape
      /\ FeedTypeOK /\ RowsOnce /\ PagesMatch /\ StreamMatches /\ GapsTold
  BY ShapesMakeTypes DEF FeedInv
<1> DEFINE word == IF stream.thinned THEN "unsampled" ELSE "sampling"
<1>2. /\ UNCHANGED <<stored, pageVars, feed, dropped, first, older, queue, frozenTop, holes, moves>>
      /\ stream' = [stream EXCEPT !.thinned = ~@]
      /\ wire' = Append(wire, Notice(word))
      /\ UNCHANGED faults \/ (faults < MaxFaults /\ faults' = faults + 1)
  BY DEF StreamThins
<1>3. /\ stream' \in Streams
      /\ stream'.query = stream.query /\ stream'.tailed = stream.tailed
      /\ stream'.thinned = ~stream.thinned /\ stream'.sampling = stream.sampling
  BY <1>1, <1>2 DEF StreamShape, Streams
<1>4. Notice(word) \in Rows \cup Notices /\ Notice(word).id = NoId /\ Notice(word).state = word
  BY NoticesAreEvents
<1>5. /\ wire' \in Seq(Rows \cup Notices) /\ Len(wire) \in Nat /\ DOMAIN wire = 1 .. Len(wire)
      /\ \A i \in DOMAIN wire : i \in DOMAIN wire' /\ wire'[i] = wire[i]
      /\ Len(wire) + 1 \in DOMAIN wire' /\ wire'[Len(wire) + 1] = Notice(word)
      /\ \A i \in DOMAIN wire' : i \in DOMAIN wire \/ i = Len(wire) + 1
  BY <1>1, <1>2, <1>4, WireGrows DEF StreamShape
<1>a. word = IF stream.thinned THEN "unsampled" ELSE "sampling"
  OBVIOUS
<1> HIDE DEF word
<1>6. StreamShape'
  BY <1>1, <1>2, <1>3, <1>5 DEF StreamShape
<1>7. StreamMatches'
  BY <1>1, <1>2, <1>3, <1>4, <1>5 DEF StreamMatches, pageVars
<1>8. GapsTold'
  <2>1. \A what : OnWire(what) => OnWire(what)'
    BY <1>5 DEF OnWire
  <2>2. stream'.thinned => wire'[Len(wire) + 1].state = "sampling" /\ OnWire("sampling")'
    BY <1>3, <1>4, <1>5, <1>a DEF OnWire
  <2>3. stream'.thinned =>
          \A i \in DOMAIN wire' :
            wire'[i].state = "unsampled" =>
              \E j \in DOMAIN wire' : i < j /\ wire'[j].state = "sampling"
    <3> SUFFICES ASSUME stream'.thinned, NEW i \in DOMAIN wire', wire'[i].state = "unsampled"
                 PROVE  \E j \in DOMAIN wire' : i < j /\ wire'[j].state = "sampling"
      OBVIOUS
    <3>1. i # Len(wire) + 1
      BY <2>2
    <3>2. i < Len(wire) + 1
      BY <1>5, <3>1
    <3> QED BY <1>5, <2>2, <3>2
  <2>4. /\ query' = query /\ holes' = holes /\ sampledFor' = sampledFor /\ dropped' = dropped
        /\ stream'.sampling = stream.sampling /\ stream'.tailed = stream.tailed
    BY <1>2, <1>3 DEF pageVars
  <2>5. /\ query' # NoQuery /\ stream'.sampling => sampledFor'
        /\ query' # NoQuery /\ "lost" \notin holes' =>
             /\ "dropped" \in holes' => dropped' \/ (stream'.tailed /\ OnWire("dropped")')
             /\ "sampled" \in holes' => sampledFor' \/ OnWire("sampling")'
    BY <1>1, <2>1, <2>4 DEF GapsTold
  <2> QED BY <2>2, <2>3, <2>5 DEF GapsTold
<1>9. CountShape'
  BY <1>1, <1>2, FaultsCount, ShapesStay
<1>10. ListShape' /\ FirstShape' /\ OlderShape' /\ PageShape' /\ StoreShape' /\ PagesMatch'
  BY <1>1, <1>2, ShapesStay DEF pageVars
<1> QED BY <1>6, <1>7, <1>8, <1>9, <1>10, ShapesMakeTypes, PTL DEF FeedInv

LEMMA StreamBreaksKeeps ==
  ASSUME FeedInv, StreamBreaks
  PROVE  FeedInv'
<1>1. /\ ListShape /\ FirstShape /\ OlderShape /\ StreamShape /\ PageShape /\ CountShape /\ StoreShape
      /\ FeedTypeOK /\ RowsOnce /\ PagesMatch /\ StreamMatches /\ GapsTold
  BY ShapesMakeTypes DEF FeedInv
<1>2. /\ UNCHANGED <<stored, pageVars, feed, dropped, first, older, queue, frozenTop, moves>>
      /\ stream' = [stream EXCEPT !.ready = FALSE, !.thinned = FALSE]
      /\ wire' = <<>>
      /\ holes' = IF query # NoQuery THEN holes \cup {"lost"} ELSE holes
      /\ faults < MaxFaults /\ faults' = faults + 1
  BY DEF StreamBreaks
<1>3. /\ stream' \in Streams
      /\ stream'.query = stream.query /\ stream'.tailed = stream.tailed
      /\ stream'.thinned = FALSE /\ stream'.sampling = stream.sampling
  BY <1>1, <1>2 DEF StreamShape, Streams
<1>4. StreamShape'
  BY <1>1, <1>2, <1>3 DEF StreamShape
<1>5. StreamMatches'
  BY <1>1, <1>2, <1>3 DEF StreamMatches, pageVars
<1>6. GapsTold'
  <2>1. query' # NoQuery => "lost" \in holes'
    BY <1>2 DEF pageVars
  <2> QED BY <1>1, <1>2, <1>3, <2>1 DEF GapsTold, pageVars
<1>7. CountShape'
  BY <1>1, <1>2, FaultsCount
<1>8. ListShape' /\ FirstShape' /\ OlderShape' /\ PageShape' /\ StoreShape' /\ PagesMatch'
  BY <1>1, <1>2, ShapesStay DEF pageVars
<1> QED BY <1>4, <1>5, <1>6, <1>7, <1>8, ShapesMakeTypes, PTL DEF FeedInv

LEMMA ReceiptChangesKeeps ==
  ASSUME FeedInv, NEW id \in Ids, ReceiptChanges(id)
  PROVE  FeedInv'
<1>1. /\ ListShape /\ FirstShape /\ OlderShape /\ StreamShape /\ PageShape /\ CountShape /\ StoreShape
      /\ FeedTypeOK /\ RowsOnce /\ PagesMatch /\ StreamMatches /\ GapsTold
  BY ShapesMakeTypes DEF FeedInv
<1>2. /\ UNCHANGED <<pageVars, feed, dropped, first, older, stream, queue, frozenTop, moves>>
      /\ stored' = [stored EXCEPT ![id] =
                      IF @ = "absent" /\ id \in Streamed THEN "open" ELSE "settled"]
  BY DEF ReceiptChanges
<1>3. stored' \in [Ids -> States] /\ stored'[id] \in {"open", "settled"}
  BY <1>1, <1>2 DEF StoreShape, States
<1>4. StoreShape'
  BY <1>3 DEF StoreShape
<1>5. /\ ListShape' /\ FirstShape' /\ OlderShape' /\ PageShape' /\ PagesMatch'
      /\ wire \in Seq(Rows \cup Notices)
  BY <1>1, <1>2, ShapesStay DEF pageVars, StreamShape
<1>6. ASSUME NEW e \in Rows \cup Notices, wire' = Append(wire, e),
             e.id # NoId => e.id \in Selects[stream.query],
             e.state \notin {"sampling", "unsampled"}
      PROVE  /\ StreamShape' /\ StreamMatches'
             /\ \A what : OnWire(what)' <=> OnWire(what) \/ e.state = what
             /\ stream'.thinned => OnWire("sampling")' \/ stream'.sampling
             /\ stream'.thinned =>
                  \A i \in DOMAIN wire' :
                    wire'[i].state = "unsampled" =>
                      \E j \in DOMAIN wire' : i < j /\ wire'[j].state = "sampling"
  <2>1. /\ wire' \in Seq(Rows \cup Notices) /\ Len(wire) \in Nat /\ DOMAIN wire = 1 .. Len(wire)
        /\ \A i \in DOMAIN wire : i \in DOMAIN wire' /\ wire'[i] = wire[i]
        /\ Len(wire) + 1 \in DOMAIN wire' /\ wire'[Len(wire) + 1] = e
        /\ \A i \in DOMAIN wire' : i \in DOMAIN wire \/ i = Len(wire) + 1
    BY <1>5, <1>6, WireGrows
  <2>2. StreamShape'
    BY <1>1, <1>2, <2>1 DEF StreamShape
  <2>3. StreamMatches'
    BY <1>1, <1>2, <1>6, <2>1 DEF StreamMatches, pageVars
  <2>4. \A what : OnWire(what)' <=> OnWire(what) \/ e.state = what
    BY <2>1 DEF OnWire
  <2>5. stream'.thinned => OnWire("sampling")' \/ stream'.sampling
    BY <1>1, <1>2, <2>4 DEF GapsTold
  <2>6. stream'.thinned =>
          \A i \in DOMAIN wire' :
            wire'[i].state = "unsampled" =>
              \E j \in DOMAIN wire' : i < j /\ wire'[j].state = "sampling"
    <3> SUFFICES ASSUME stream.thinned, NEW i \in DOMAIN wire', wire'[i].state = "unsampled"
                 PROVE  \E j \in DOMAIN wire' : i < j /\ wire'[j].state = "sampling"
      BY <1>2
    <3>1. i \in DOMAIN wire /\ wire[i].state = "unsampled"
      BY <1>6, <2>1
    <3>2. PICK j \in DOMAIN wire : i < j /\ wire[j].state = "sampling"
      BY <1>1, <3>1 DEF GapsTold
    <3> QED BY <2>1, <3>2
  <2> QED BY <2>2, <2>3, <2>4, <2>5, <2>6
<1>7. CASE /\ wire' = IF Sends(id) THEN Append(wire, [id |-> id, state |-> stored'[id]]) ELSE wire
           /\ holes' = IF Concerns(id) /\ ~(Sends(id) /\ stream.tailed) THEN holes \cup {"lost"} ELSE holes
           /\ UNCHANGED faults
  <2>1. CountShape'
    BY <1>1, <1>2, <1>7, ShapesStay
  <2>2. "lost" \notin holes' => "lost" \notin holes /\ holes' = holes
    BY <1>7
  <2>3. CASE Sends(id)
    <3> DEFINE e == [id |-> id, state |-> stored'[id]]
    <3>1. /\ e \in Rows /\ e.id = id /\ id # NoId /\ e.state \in {"open", "settled"}
          /\ wire' = Append(wire, e) /\ id \in Selects[stream.query]
      BY <1>3, <1>7, <2>3, FeedAssumptions DEF Rows, Sends
    <3> HIDE DEF e
    <3>2. /\ StreamShape' /\ StreamMatches'
          /\ \A what : OnWire(what)' <=> OnWire(what) \/ e.state = what
          /\ stream'.thinned => OnWire("sampling")' \/ stream'.sampling
          /\ stream'.thinned =>
               \A i \in DOMAIN wire' :
                 wire'[i].state = "unsampled" =>
                   \E j \in DOMAIN wire' : i < j /\ wire'[j].state = "sampling"
      BY <1>6, <3>1
    <3>3. /\ query' # NoQuery /\ stream'.sampling => sampledFor'
          /\ query' # NoQuery /\ "lost" \notin holes' =>
               /\ "dropped" \in holes' => dropped' \/ (stream'.tailed /\ OnWire("dropped")')
               /\ "sampled" \in holes' => sampledFor' \/ OnWire("sampling")'
      BY <1>1, <1>2, <2>2, <3>2 DEF GapsTold, pageVars
    <3>4. GapsTold'
      BY <3>2, <3>3 DEF GapsTold
    <3> QED BY <1>4, <1>5, <2>1, <3>2, <3>4, ShapesMakeTypes, PTL DEF FeedInv
  <2>4. CASE ~Sends(id)
    <3>1. wire' = wire
      BY <1>7, <2>4
    <3>2. StreamShape' /\ StreamMatches'
      BY <1>1, <1>2, <3>1, ShapesStay DEF pageVars, streamVars
    <3>3. GapsTold'
      BY <1>1, <1>2, <2>2, <3>1 DEF GapsTold, OnWire, pageVars
    <3> QED BY <1>4, <1>5, <2>1, <3>2, <3>3, ShapesMakeTypes, PTL DEF FeedInv
  <2> QED BY <2>3, <2>4
<1>8. CASE /\ Sends(id) /\ stream.thinned
           /\ holes' = holes \cup Missed(id, "sampled")
           /\ UNCHANGED <<wire, faults>>
  <2>1. CountShape' /\ StreamShape' /\ StreamMatches'
    BY <1>1, <1>2, <1>8, ShapesStay DEF pageVars, streamVars
  <2>2. /\ "lost" \notin holes' => "lost" \notin holes
        /\ "dropped" \in holes' => "dropped" \in holes
        /\ "sampled" \in holes' => "sampled" \in holes \/ query # NoQuery
    BY <1>8 DEF Missed, Concerns
  <2>3. query # NoQuery => sampledFor \/ OnWire("sampling")
    BY <1>1, <1>8 DEF GapsTold
  <2>4. GapsTold'
    BY <1>1, <1>2, <1>8, <2>2, <2>3 DEF GapsTold, OnWire, pageVars
  <2> QED BY <1>4, <1>5, <2>1, <2>4, ShapesMakeTypes, PTL DEF FeedInv
<1>9. CASE /\ Sends(id) /\ faults < MaxFaults /\ faults' = faults + 1
           /\ wire' = Append(wire, Notice("dropped"))
           /\ holes' = holes \cup Missed(id, "dropped")
  <2>1. CountShape'
    BY <1>1, <1>2, <1>9, FaultsCount
  <2>2. /\ Notice("dropped") \in Rows \cup Notices /\ Notice("dropped").id = NoId
        /\ Notice("dropped").state = "dropped"
    BY NoticesAreEvents
  <2>3. /\ StreamShape' /\ StreamMatches'
        /\ \A what : OnWire(what)' <=> OnWire(what) \/ Notice("dropped").state = what
        /\ stream'.thinned => OnWire("sampling")' \/ stream'.sampling
        /\ stream'.thinned =>
             \A i \in DOMAIN wire' :
               wire'[i].state = "unsampled" =>
                 \E j \in DOMAIN wire' : i < j /\ wire'[j].state = "sampling"
    BY <1>6, <1>9, <2>2
  <2>4. /\ "lost" \notin holes' => "lost" \notin holes
        /\ "sampled" \in holes' => "sampled" \in holes
        /\ "lost" \notin holes' /\ "dropped" \in holes' => "dropped" \in holes \/ stream.tailed
    BY <1>9 DEF Missed, Concerns
  <2>5. /\ query' # NoQuery /\ stream'.sampling => sampledFor'
        /\ query' # NoQuery /\ "lost" \notin holes' =>
             /\ "dropped" \in holes' => dropped' \/ (stream'.tailed /\ OnWire("dropped")')
             /\ "sampled" \in holes' => sampledFor' \/ OnWire("sampling")'
    BY <1>1, <1>2, <2>2, <2>3, <2>4 DEF GapsTold, pageVars
  <2>6. GapsTold'
    BY <2>3, <2>5 DEF GapsTold
  <2> QED BY <1>4, <1>5, <2>1, <2>3, <2>6, ShapesMakeTypes, PTL DEF FeedInv
<1>10. CASE /\ Sends(id) /\ faults < MaxFaults /\ faults' = faults + 1
            /\ holes' = holes \cup Missed(id, "lost")
            /\ UNCHANGED wire
  <2>1. CountShape'
    BY <1>1, <1>2, <1>10, FaultsCount
  <2>2. StreamShape' /\ StreamMatches'
    BY <1>1, <1>2, <1>10, ShapesStay DEF pageVars, streamVars
  <2>3. /\ "lost" \notin holes' => "lost" \notin holes
        /\ "dropped" \in holes' => "dropped" \in holes
        /\ "sampled" \in holes' => "sampled" \in holes
    BY <1>10 DEF Missed
  <2>4. GapsTold'
    BY <1>1, <1>2, <1>10, <2>3 DEF GapsTold, OnWire, pageVars
  <2> QED BY <1>4, <1>5, <2>1, <2>2, <2>4, ShapesMakeTypes, PTL DEF FeedInv
<1> QED BY <1>7, <1>8, <1>9, <1>10 DEF ReceiptChanges

-----------------------------------------------------------------------------
(* The tab's steps *)

LEMMA StreamEventKeeps ==
  ASSUME FeedInv, StreamEvent
  PROVE  FeedInv'
<1>1. /\ ListShape /\ FirstShape /\ OlderShape /\ StreamShape /\ PageShape /\ CountShape /\ StoreShape
      /\ FeedTypeOK /\ RowsOnce /\ PagesMatch /\ StreamMatches /\ GapsTold
  BY ShapesMakeTypes DEF FeedInv
<1> DEFINE event == Head(wire)
<1>2. /\ UNCHANGED <<stored, query, feed, loadingOlder, first, older, frozenTop, holes, faults, moves>>
      /\ wire # <<>> /\ wire' = Tail(wire)
      /\ queue' = IF event.id # NoId THEN Append(queue, event) ELSE queue
      /\ dropped' = (dropped \/ (event.state = "dropped" /\ stream.tailed))
      /\ stream' = [stream EXCEPT !.sampling = CASE event.state = "sampling" -> TRUE
                                                 [] event.state = "unsampled" -> FALSE
                                                 [] OTHER -> @]
      /\ sampledFor' = (sampledFor \/ (event.state = "sampling" /\ query # NoQuery))
  BY DEF StreamEvent
<1>3. /\ event \in Rows \cup Notices /\ wire' \in Seq(Rows \cup Notices)
      /\ Len(wire) \in Nat \ {0} /\ DOMAIN wire = 1 .. Len(wire) /\ event = wire[1]
      /\ DOMAIN wire' = 1 .. Len(wire) - 1
      /\ \A i \in DOMAIN wire' : wire'[i] = wire[i + 1]
  <2>1. wire \in Seq(Rows \cup Notices)
    BY <1>1 DEF StreamShape
  <2>2. /\ Head(wire) \in Rows \cup Notices /\ Tail(wire) \in Seq(Rows \cup Notices)
        /\ Len(Tail(wire)) = Len(wire) - 1
        /\ \A i \in 1 .. Len(Tail(wire)) : Tail(wire)[i] = wire[i + 1]
    BY <1>2, <2>1, HeadTailProperties
  <2>3. Len(wire) \in Nat \ {0} /\ DOMAIN wire = 1 .. Len(wire)
    BY <1>2, <2>1, EmptySeq, LenProperties
  <2>4. DOMAIN Tail(wire) = 1 .. Len(wire) - 1
    BY <2>2, LenProperties
  <2>5. Head(wire) = wire[1]
    BY <2>1
  <2> QED BY <1>2, <2>2, <2>3, <2>4, <2>5
<1>4. \A i \in DOMAIN wire : i = 1 \/ (i - 1 \in DOMAIN wire' /\ wire'[i - 1] = wire[i])
  BY <1>3
<1> HIDE DEF event
<1>5. /\ stream' \in Streams
      /\ stream'.query = stream.query /\ stream'.tailed = stream.tailed
      /\ stream'.thinned = stream.thinned
      /\ event.state = "sampling" => stream'.sampling = TRUE
      /\ event.state = "unsampled" => stream'.sampling = FALSE
      /\ event.state \notin {"sampling", "unsampled"} => stream'.sampling = stream.sampling
  <2> DEFINE s == CASE event.state = "sampling" -> TRUE
                    [] event.state = "unsampled" -> FALSE
                    [] OTHER -> stream.sampling
  <2>1. /\ event.state = "sampling" => s = TRUE
        /\ event.state = "unsampled" => s = FALSE
        /\ event.state \notin {"sampling", "unsampled"} => s = stream.sampling
    OBVIOUS
  <2>2. stream \in Streams /\ stream.sampling \in BOOLEAN
    BY <1>1 DEF StreamShape, Streams
  <2>3. stream' = [stream EXCEPT !.sampling = s]
    BY <1>2
  <2> HIDE DEF s
  <2>4. s \in BOOLEAN
    BY <2>1, <2>2
  <2> QED BY <2>1, <2>2, <2>3, <2>4 DEF Streams
<1>6. StreamShape'
  <2>1. event.id # NoId => event \in Rows
    BY <1>3 DEF Notices
  <2>2. queue' \in Seq(Rows)
    BY <1>1, <1>2, <2>1 DEF StreamShape
  <2> QED BY <1>3, <1>5, <2>2 DEF StreamShape
<1>7. PageShape'
  BY <1>1, <1>2 DEF PageShape
<1>8. StreamMatches'
  <2>1. \A i \in DOMAIN queue' : queue'[i].id \in Selects[stream.query]
    <3>1. CASE event.id # NoId
      <4>1. event.id \in Selects[stream.query]
        BY <1>1, <1>3, <3>1 DEF StreamMatches
      <4>2. event \in Rows /\ queue' = Append(queue, event)
        BY <1>2, <1>3, <3>1 DEF Notices
      <4>3. /\ \A i \in DOMAIN queue : queue'[i] = queue[i]
            /\ queue'[Len(queue) + 1] = event
            /\ \A i \in DOMAIN queue' : i \in DOMAIN queue \/ i = Len(queue) + 1
        BY <1>1, <4>2, WireGrows DEF StreamShape
      <4> QED BY <1>1, <4>1, <4>3 DEF StreamMatches
    <3>2. CASE event.id = NoId
      BY <1>1, <1>2, <3>2 DEF StreamMatches
    <3> QED BY <3>1, <3>2
  <2>2. \A i \in DOMAIN wire' : wire'[i].id # NoId => wire'[i].id \in Selects[stream.query]
    <3> SUFFICES ASSUME NEW i \in DOMAIN wire', wire'[i].id # NoId
                 PROVE  wire'[i].id \in Selects[stream.query]
      OBVIOUS
    <3>1. i + 1 \in DOMAIN wire /\ wire'[i] = wire[i + 1]
      BY <1>3
    <3> QED BY <1>1, <3>1 DEF StreamMatches
  <2> QED BY <1>1, <1>2, <1>5, <2>1, <2>2 DEF StreamMatches
<1>9. GapsTold'
  <2>1. \A what : OnWire(what) => OnWire(what)' \/ event.state = what
    BY <1>3, <1>4 DEF OnWire
  <2>2. stream'.thinned => OnWire("sampling")' \/ stream'.sampling
    <3> SUFFICES ASSUME stream.thinned PROVE OnWire("sampling")' \/ stream'.sampling
      BY <1>5
    <3>1. CASE event.state = "sampling"
      BY <1>5, <3>1
    <3>2. CASE event.state = "unsampled"
      <4>1. PICK j \in DOMAIN wire : 1 < j /\ wire[j].state = "sampling"
        BY <1>1, <1>3, <3>2 DEF GapsTold
      <4>2. j - 1 \in DOMAIN wire' /\ wire'[j - 1].state = "sampling"
        BY <1>3, <1>4, <4>1
      <4> QED BY <4>2 DEF OnWire
    <3>3. CASE event.state \notin {"sampling", "unsampled"}
      BY <1>1, <1>5, <2>1, <3>3 DEF GapsTold
    <3> QED BY <3>1, <3>2, <3>3
  <2>3. stream'.thinned =>
          \A i \in DOMAIN wire' :
            wire'[i].state = "unsampled" =>
              \E j \in DOMAIN wire' : i < j /\ wire'[j].state = "sampling"
    <3> SUFFICES ASSUME stream.thinned, NEW i \in DOMAIN wire', wire'[i].state = "unsampled"
                 PROVE  \E j \in DOMAIN wire' : i < j /\ wire'[j].state = "sampling"
      BY <1>5
    <3>1. i + 1 \in DOMAIN wire /\ wire[i + 1].state = "unsampled" /\ i \in Nat /\ i >= 1
      BY <1>3
    <3>2. PICK j \in DOMAIN wire : i + 1 < j /\ wire[j].state = "sampling"
      BY <1>1, <3>1 DEF GapsTold
    <3>3. j - 1 \in DOMAIN wire' /\ wire'[j - 1] = wire[j] /\ i < j - 1
      BY <1>3, <1>4, <3>1, <3>2
    <3> QED BY <3>2, <3>3
  <2>4. query' # NoQuery /\ stream'.sampling => sampledFor'
    <3>1. CASE event.state = "sampling"
      BY <1>2, <3>1
    <3>2. CASE event.state # "sampling"
      <4>1. stream'.sampling => stream.sampling
        BY <1>5, <3>2
      <4> QED BY <1>1, <1>2, <4>1 DEF GapsTold
    <3> QED BY <3>1, <3>2
  <2>5. query' # NoQuery /\ "lost" \notin holes' =>
          /\ "dropped" \in holes' => dropped' \/ (stream'.tailed /\ OnWire("dropped")')
          /\ "sampled" \in holes' => sampledFor' \/ OnWire("sampling")'
    BY <1>1, <1>2, <1>5, <2>1 DEF GapsTold
  <2> QED BY <2>2, <2>3, <2>4, <2>5 DEF GapsTold
<1>10. ListShape' /\ FirstShape' /\ OlderShape' /\ CountShape' /\ StoreShape' /\ PagesMatch'
  BY <1>1, <1>2, ShapesStay
<1> QED BY <1>6, <1>7, <1>8, <1>9, <1>10, ShapesMakeTypes, PTL DEF FeedInv

\* A batch leaves a list that has no receipt twice, and none that was in neither.
LEMMA LiveRows ==
  ASSUME NEW rows \in Seq(Rows), NEW batch \in Seq(Rows), Distinct(rows)
  PROVE  /\ applyLive(rows, batch) \in Seq(Rows) /\ Distinct(applyLive(rows, batch))
         /\ IdsOf(applyLive(rows, batch)) \subseteq IdsOf(rows) \cup IdsOf(batch)
         /\ Len(applyLive(rows, batch)) \in Nat
<1> DEFINE joined == Fresh(rows, batch) \o [i \in DOMAIN rows |-> Settled(rows[i], batch)]
<1>1. /\ joined \in Seq(Rows) /\ applyLive(rows, batch) = UpToMax(joined)
      /\ IdsOf(joined) = IdsOf(rows) \cup IdsOf(batch) /\ Distinct(joined)
  BY BatchJoins
<1> HIDE DEF joined
<1>2. /\ UpToMax(joined) \in Seq(Rows) /\ Distinct(UpToMax(joined))
      /\ IdsOf(UpToMax(joined)) \subseteq IdsOf(joined)
  BY <1>1, CutKeeps
<1> QED BY <1>1, <1>2, ListRows

LEMMA MatchById ==
  ASSUME NEW q, NEW rows \in Seq(Rows)
  PROVE  AllMatch(q, rows) <=> \A id \in IdsOf(rows) : matches(q, id)
BY DEF AllMatch, IdsOf

LEMMA FlushKeeps ==
  ASSUME FeedInv, flush
  PROVE  FeedInv'
<1>1. /\ ListShape /\ FirstShape /\ OlderShape /\ StreamShape /\ PageShape /\ CountShape /\ StoreShape
      /\ FeedTypeOK /\ RowsOnce /\ PagesMatch /\ StreamMatches /\ GapsTold
  BY ShapesMakeTypes DEF FeedInv
<1>2. /\ UNCHANGED <<stored, pageVars, dropped, first, older, stream, wire, frozenTop, faults, moves>>
      /\ queue' = <<>>
      /\ IF stream.tailed THEN onReceipts(queue) ELSE UNCHANGED <<feed, holes>>
  BY DEF flush
<1>3. StreamShape' /\ StreamMatches'
  <2>1. <<>> \in Seq(Rows)
    BY NoRows
  <2> QED BY <1>1, <1>2, <2>1 DEF StreamShape, StreamMatches, pageVars
<1>4. GapsTold'
  <2>1. \A how \in {"lost", "dropped", "sampled"} : how \in holes' <=> how \in holes
    BY <1>2 DEF onReceipts
  <2> QED BY <1>1, <1>2, <2>1, GapsStayTold DEF pageVars
<1>5. FirstShape' /\ OlderShape' /\ PageShape' /\ CountShape' /\ StoreShape'
  BY <1>1, <1>2, ShapesStay DEF pageVars
<1>6. ListShape' /\ PagesMatch'
  <2> DEFINE live == Filtered(queue, {id \in Ids : inWindow(query, id)})
             rows == applyLive(feed.rows, live)
  <2>1. CASE UNCHANGED feed
    BY <1>1, <1>2, <2>1, ShapesStay DEF pageVars
  <2>2. CASE /\ stream.tailed
             /\ feed' = [feed EXCEPT !.rows = rows, !.reachedEnd = @ /\ Len(rows) < MaxRows]
    <3>1. /\ queue \in Seq(Rows) /\ query \in Queries /\ feed.rows \in Seq(Rows)
          /\ Distinct(feed.rows)
          /\ \A i \in DOMAIN queue : queue[i].id \in Selects[FilterOf[query]]
      BY <1>1, <2>2 DEF StreamShape, StreamMatches, PageShape, ListShape, Feeds
    <3>2. live \in Seq(Rows) /\ IdsOf(live) = IdsOf(queue) \cap {id \in Ids : inWindow(query, id)}
      BY <3>1, FilterKeeps
    <3> HIDE DEF live
    <3>3. \A id \in IdsOf(live) : matches(query, id)
      <4>1. \A id \in IdsOf(queue) : id \in Selects[FilterOf[query]]
        BY <3>1 DEF IdsOf
      <4> QED BY <3>2, <4>1 DEF matches
    <3>4. /\ rows \in Seq(Rows) /\ Distinct(rows) /\ Len(rows) \in Nat
          /\ IdsOf(rows) \subseteq IdsOf(feed.rows) \cup IdsOf(live)
      BY <3>1, <3>2, LiveRows
    <3> HIDE DEF rows
    <3>5. AllMatch(query, rows)
      <4>1. \A id \in IdsOf(feed.rows) : matches(query, id)
        BY <1>1, <3>1, MatchById, QueryTypes DEF PagesMatch
      <4> QED BY <3>3, <3>4, <4>1, MatchById
    <3>6. /\ feed' \in Feeds /\ feed'.rows = rows /\ feed'.continueBefore = feed.continueBefore
      BY <1>1, <2>2, <3>4 DEF ListShape, Feeds
    <3>7. ListShape'
      BY <3>4, <3>6 DEF ListShape
    <3>8. PagesMatch'
      BY <1>1, <1>2, <3>5, <3>6 DEF PagesMatch, AllMatch, matches, inWindow, Within, pageVars
    <3> QED BY <3>7, <3>8
  <2> QED BY <1>2, <2>1, <2>2 DEF onReceipts
<1> QED BY <1>3, <1>4, <1>5, <1>6, ShapesMakeTypes, PTL DEF FeedInv

\* The first page and the rows that were there before it.
LEMMA MergeKeeps ==
  ASSUME NEW have \in Seq(Rows), NEW page \in Seq(Rows), Distinct(have), Distinct(page)
  PROVE  /\ mergeNewer(have, page) \in Seq(Rows) /\ Distinct(mergeNewer(have, page))
         /\ IdsOf(mergeNewer(have, page)) = IdsOf(have) \cup IdsOf(page)
         /\ Range(mergeNewer(have, page)) =
              Range(have) \cup {r \in Range(page) : r.id \notin IdsOf(have)}
<1>1. CASE have = <<>>
  <2>1. mergeNewer(have, page) = page /\ IdsOf(have) = {} /\ Range(have) = {}
    BY <1>1 DEF mergeNewer, IdsOf, Range
  <2> QED BY <2>1
<1>2. CASE have # <<>>
  <2> DEFINE new == Filtered(page, Ids \ IdsOf(have))
  <2>1. /\ new \in Seq(Rows) /\ Distinct(new)
        /\ IdsOf(new) = IdsOf(page) \cap (Ids \ IdsOf(have))
        /\ Range(new) = {r \in Range(page) : r.id \in Ids \ IdsOf(have)}
    BY FilterKeeps
  <2>2. mergeNewer(have, page) = NewestFirst(have \o new)
    BY <1>2 DEF mergeNewer
  <2> HIDE DEF new
  <2>3. IdsOf(page) \subseteq Ids /\ \A r \in Range(page) : r.id \in Ids
    BY ListRows
  <2>4. /\ have \o new \in Seq(Rows) /\ Distinct(have \o new)
        /\ IdsOf(have \o new) = IdsOf(have) \cup IdsOf(new)
        /\ Range(have \o new) = Range(have) \cup Range(new)
    BY <2>1, JoinKeeps
  <2>5. /\ NewestFirst(have \o new) \in Seq(Rows) /\ Distinct(NewestFirst(have \o new))
        /\ IdsOf(NewestFirst(have \o new)) = IdsOf(have \o new)
        /\ Range(NewestFirst(have \o new)) = Range(have \o new)
    BY <2>4, SortKeeps
  <2> QED BY <2>1, <2>2, <2>3, <2>4, <2>5
<1> QED BY <1>1, <1>2

LEMMA FirstAnsweredKeeps ==
  ASSUME FeedInv, firstAnswered \/ firstFailed
  PROVE  FeedInv'
<1>1. /\ ListShape /\ FirstShape /\ OlderShape /\ StreamShape /\ PageShape /\ CountShape /\ StoreShape
      /\ FeedTypeOK /\ RowsOnce /\ PagesMatch /\ StreamMatches /\ GapsTold
  BY ShapesMakeTypes DEF FeedInv
<1>2. /\ UNCHANGED <<stored, pageVars, dropped, older, streamVars, frozenTop, faults, moves>>
      /\ first' = NoRequest
  BY DEF firstAnswered, firstFailed
<1>3. FirstShape'
  BY <1>2, NoRows, FeedAssumptions DEF FirstShape, NoRequest, FirstRequests, NoTs, Stages
<1>4. GapsTold'
  <2>1. \A how \in {"lost", "dropped", "sampled"} : how \in holes' <=> how \in holes
    BY DEF firstAnswered, firstFailed
  <2> QED BY <1>1, <1>2, <2>1, GapsStayTold DEF pageVars, streamVars
<1>5. OlderShape' /\ StreamShape' /\ PageShape' /\ CountShape' /\ StoreShape' /\ StreamMatches'
  BY <1>1, <1>2, ShapesStay DEF pageVars
<1>6. ListShape' /\ PagesMatch'
  <2>1. CASE firstFailed
    <3>1. feed' \in Feeds /\ feed'.rows = feed.rows /\ feed'.continueBefore = feed.continueBefore
      BY <1>1, <2>1 DEF firstFailed, ListShape, Feeds
    <3>2. ListShape'
      BY <1>1, <3>1 DEF ListShape
    <3>3. PagesMatch'
      BY <1>1, <1>2, <3>1
         DEF PagesMatch, AllMatch, matches, inWindow, Within, pageVars, NoRequest
    <3> QED BY <3>2, <3>3
  <2>2. CASE firstAnswered
    <3> DEFINE rows == mergeNewer(feed.rows, first.rows)
    <3>1. /\ query \in Queries /\ first.at = "read"
          /\ first.rows \in Seq(Rows) /\ Distinct(first.rows) /\ AllMatch(query, first.rows)
          /\ feed.rows \in Seq(Rows) /\ Distinct(feed.rows) /\ AllMatch(query, feed.rows)
          /\ first.continueBefore \in 0 .. MaxTs + 1 /\ Within(query, first.continueBefore)
      BY <1>1, <2>2 DEF firstAnswered, PagesMatch, PageShape, FirstShape, FirstRequests, ListShape, Feeds
    <3>2. /\ rows \in Seq(Rows) /\ Distinct(rows)
          /\ IdsOf(rows) = IdsOf(feed.rows) \cup IdsOf(first.rows)
      BY <3>1, MergeKeeps
    <3>3. feed' = [rows |-> rows, loaded |-> TRUE,
                   reachedEnd |-> Len(first.rows) < Page /\ first.continueBefore = NoTs,
                   continueBefore |-> first.continueBefore]
      BY <2>2 DEF firstAnswered
    <3> HIDE DEF rows
    <3>4. AllMatch(query, rows)
      BY <3>1, <3>2, MatchById
    <3>5. /\ feed' \in Feeds /\ feed'.rows = rows /\ feed'.continueBefore = first.continueBefore
      BY <3>1, <3>2, <3>3 DEF Feeds
    <3>6. ListShape'
      BY <3>2, <3>5 DEF ListShape
    <3>7. PagesMatch'
      BY <1>1, <1>2, <3>1, <3>4, <3>5
         DEF PagesMatch, AllMatch, matches, inWindow, Within, pageVars, NoRequest
    <3> QED BY <3>6, <3>7
  <2> QED BY <2>1, <2>2
<1> QED BY <1>3, <1>4, <1>5, <1>6, ShapesMakeTypes, PTL DEF FeedInv

LEMMA OlderAnsweredKeeps ==
  ASSUME FeedInv, olderAnswered \/ olderFailed
  PROVE  FeedInv'
<1>1. /\ ListShape /\ FirstShape /\ OlderShape /\ StreamShape /\ PageShape /\ CountShape /\ StoreShape
      /\ FeedTypeOK /\ RowsOnce /\ PagesMatch /\ StreamMatches /\ GapsTold
  BY ShapesMakeTypes DEF FeedInv
<1>2. /\ UNCHANGED <<stored, query, sampledFor, dropped, first, streamVars, frozenTop, faults, moves>>
      /\ older' = NoOlder
      /\ loadingOlder' = (loadingOlder /\ ~ForThisQuery)
  BY DEF olderAnswered, olderFailed
<1>3. OlderShape'
  BY <1>2, NoRows, FeedAssumptions DEF OlderShape, NoOlder, OlderRequests, NoTs, Stages
<1>4. GapsTold'
  <2>1. \A how \in {"lost", "dropped", "sampled"} : how \in holes' <=> how \in holes
    BY DEF olderAnswered, olderFailed
  <2> QED BY <1>1, <1>2, <2>1, GapsStayTold DEF streamVars
<1>5. PageShape'
  BY <1>1, <1>2 DEF PageShape
<1>6. FirstShape' /\ StreamShape' /\ CountShape' /\ StoreShape' /\ StreamMatches'
  BY <1>1, <1>2, ShapesStay
<1>7. ListShape' /\ PagesMatch'
  <2>1. CASE UNCHANGED feed
    <3>1. ListShape'
      BY <1>1, <2>1, ShapesStay
    <3>2. PagesMatch'
      BY <1>1, <1>2, <2>1 DEF PagesMatch, AllMatch, matches, inWindow, Within, NoOlder
    <3> QED BY <3>1, <3>2
  <2>2. CASE olderAnswered /\ ForThisQuery
    <3> DEFINE fresh == notSeen(feed.rows, older.rows)
               ended == older.continueBefore = NoTs /\ (Len(older.rows) < Page \/ fresh = <<>>)
               rows  == feed.rows \o fresh
    <3>1. /\ older.at = "read" /\ query = older.q /\ query # NoQuery
          /\ older.rows \in Seq(Rows) /\ Distinct(older.rows) /\ AllMatch(query, older.rows)
          /\ feed.rows \in Seq(Rows) /\ Distinct(feed.rows) /\ AllMatch(query, feed.rows)
          /\ older.continueBefore \in 0 .. MaxTs + 1 /\ Within(query, older.continueBefore)
      BY <1>1, <2>2
         DEF olderAnswered, ForThisQuery, PagesMatch, OlderShape, OlderRequests, ListShape, Feeds
    <3>2. /\ fresh \in Seq(Rows) /\ Distinct(fresh)
          /\ IdsOf(fresh) = IdsOf(older.rows) \cap (Ids \ IdsOf(feed.rows))
      BY <3>1, FilterKeeps DEF notSeen
    <3>3. feed' = [feed EXCEPT !.rows = rows, !.reachedEnd = ended,
                               !.continueBefore = older.continueBefore]
      BY <2>2 DEF olderAnswered
    <3>4. ended \in BOOLEAN
      OBVIOUS
    <3> HIDE DEF fresh, ended
    <3>5. rows \in Seq(Rows) /\ Distinct(rows) /\ IdsOf(rows) = IdsOf(feed.rows) \cup IdsOf(fresh)
      BY <3>1, <3>2, JoinKeeps
    <3> HIDE DEF rows
    <3>6. AllMatch(query, rows)
      BY <3>1, <3>2, <3>5, MatchById
    <3>7. /\ feed' \in Feeds /\ feed'.rows = rows /\ feed'.continueBefore = older.continueBefore
      BY <1>1, <3>1, <3>3, <3>4, <3>5 DEF Feeds, ListShape
    <3>8. ListShape'
      BY <3>5, <3>7 DEF ListShape
    <3>9. PagesMatch'
      BY <1>1, <1>2, <3>1, <3>6, <3>7
         DEF PagesMatch, AllMatch, matches, inWindow, Within, NoOlder
    <3> QED BY <3>8, <3>9
  <2> QED BY <2>1, <2>2 DEF olderAnswered, olderFailed
<1> QED BY <1>3, <1>4, <1>5, <1>6, <1>7, ShapesMakeTypes, PTL DEF FeedInv

-----------------------------------------------------------------------------
(* The reader's steps *)

LEMMA OnlyTailed ==
  ASSUME NEW s \in Streams, NEW tailed
  PROVE  /\ [s EXCEPT !.tailed = tailed].started = s.started
         /\ [s EXCEPT !.tailed = tailed].ready = s.ready
         /\ [s EXCEPT !.tailed = tailed].query = s.query
BY DEF Streams

\* A load for q starts with nothing, on a stream that is narrowed to q if the
\* page tails it.
LEMMA LoadsStartEmpty ==
  ASSUME FeedInv, NEW q \in Queries \cup {NoQuery}, startLoad(q), query' = q
  PROVE  /\ ListShape' /\ FirstShape' /\ StreamShape' /\ StreamMatches' /\ GapsTold'
         /\ feed' = NoFeed
         /\ first'.at \in {"none", "sent"} /\ (first'.at # "none" => q # NoQuery)
         /\ dropped' \in BOOLEAN /\ sampledFor' \in BOOLEAN
<1>1. /\ StreamShape /\ StreamMatches /\ GapsTold
  BY ShapesMakeTypes DEF FeedInv
<1>2. /\ feed' = NoFeed /\ dropped' = FALSE /\ queue' = <<>>
      /\ first' = IF q = NoQuery THEN NoRequest ELSE [NoRequest EXCEPT !.at = "sent"]
      /\ stream' = retail(q)
      /\ wire' = IF [stream' EXCEPT !.tailed = stream.tailed] = stream THEN wire ELSE <<>>
      /\ sampledFor' = sampledStill(q)
      /\ holes' = IF wire' = <<>> THEN {} ELSE holes \cap {"outrun"}
  BY DEF startLoad
<1>3. ListShape'
  BY <1>2, NoRows, FeedAssumptions DEF ListShape, NoFeed, Feeds, NoTs
<1>4. /\ FirstShape' /\ first'.at \in {"none", "sent"} /\ (first'.at # "none" => q # NoQuery)
  <2>1. \/ first' = NoRequest
        \/ /\ q # NoQuery
           /\ first' = [at |-> "sent", rows |-> <<>>, continueBefore |-> NoTs]
    <3>1. [NoRequest EXCEPT !.at = "sent"] = [at |-> "sent", rows |-> <<>>, continueBefore |-> NoTs]
      BY DEF NoRequest
    <3>2. CASE q = NoQuery
      BY <1>2, <3>2
    <3>3. CASE q # NoQuery
      BY <1>2, <3>1, <3>3
    <3> QED BY <3>2, <3>3
  <2>2. first' \in FirstRequests /\ first'.rows = <<>>
    <3>1. NoTs \in 0 .. MaxTs + 1
      BY FeedAssumptions DEF NoTs
    <3>2. <<>> \in Seq(Rows)
      BY NoRows
    <3>3. CASE first' = NoRequest
      BY <3>1, <3>2, <3>3 DEF NoRequest, FirstRequests, Stages
    <3>4. CASE first' = [at |-> "sent", rows |-> <<>>, continueBefore |-> NoTs]
      BY <3>1, <3>2, <3>4 DEF FirstRequests, Stages
    <3> QED BY <2>1, <3>3, <3>4
  <2>3. first'.at \in {"none", "sent"} /\ (first'.at # "none" => q # NoQuery)
    BY <2>1 DEF NoRequest
  <2> QED BY <2>2, <2>3, NoRows DEF FirstShape
<1>5. dropped' \in BOOLEAN /\ sampledFor' \in BOOLEAN
  <2>1. stream.sampling \in BOOLEAN
    BY <1>1 DEF StreamShape, Streams
  <2> QED BY <1>2, <2>1 DEF sampledStill
<1>6. Tails(q) \in BOOLEAN /\ (Tails(q) => q # NoQuery)
  BY DEF Tails
<1> DEFINE narrow == Tails(q) /\ ~(stream.started /\ stream.query = FilterOf[q])
           widen  == ~Tails(q) /\ stream.tailed /\ stream.query # NoFilters
<1>7. /\ narrow => stream' = [connected(FilterOf[q]) EXCEPT !.tailed = Tails(q)]
      /\ widen => stream' = [connected(NoFilters) EXCEPT !.tailed = Tails(q)]
      /\ ~narrow /\ ~widen => stream' = [stream EXCEPT !.tailed = Tails(q)]
  <2>1. ~(narrow /\ widen)
    OBVIOUS
  <2> QED BY <1>2, <2>1 DEF retail
<1>8. stream \in Streams /\ wire \in Seq(Rows \cup Notices)
  BY <1>1 DEF StreamShape
<1>9. q # NoQuery => FilterOf[q] \in {FilterOf[p] : p \in Queries} \cup {NoFilters}
  OBVIOUS
<1> HIDE DEF narrow, widen
<1>10. /\ stream' \in Streams /\ stream'.tailed = Tails(q)
       /\ Tails(q) => stream'.query = FilterOf[q]
       /\ \/ /\ wire' = wire /\ stream'.query = stream.query
             /\ stream'.thinned = stream.thinned /\ stream'.sampling = stream.sampling
          \/ wire' = <<>> /\ stream'.thinned = FALSE /\ stream'.sampling = FALSE
  <2>1. CASE narrow
    <3>1. Tails(q) /\ ~(stream.started /\ stream.query = FilterOf[q])
      BY <2>1 DEF narrow
    <3>2. stream' = [started |-> TRUE, query |-> FilterOf[q], ready |-> FALSE, tailed |-> Tails(q),
                     thinned |-> FALSE, sampling |-> FALSE]
      BY <1>7, <2>1 DEF connected
    <3>a. stream' = [started |-> TRUE, query |-> FilterOf[q], ready |-> FALSE, tailed |-> TRUE,
                     thinned |-> FALSE, sampling |-> FALSE]
      <4>1. Tails(q) = TRUE
        BY <3>1
      <4> QED BY <3>2, <4>1
    <3>3. [stream' EXCEPT !.tailed = stream.tailed] # stream
      <4>1. stream' \in Streams /\ stream'.started = TRUE /\ stream'.query = FilterOf[q]
        BY <1>6, <1>9, <3>1, <3>a DEF Streams
      <4>2. /\ [stream' EXCEPT !.tailed = stream.tailed].started = TRUE
            /\ [stream' EXCEPT !.tailed = stream.tailed].query = FilterOf[q]
        BY <4>1, OnlyTailed
      <4> QED BY <1>8, <3>1, <4>2
    <3>4. stream' \in Streams
      BY <1>6, <1>9, <3>1, <3>a DEF Streams
    <3>5. /\ stream'.tailed = TRUE /\ stream'.query = FilterOf[q]
          /\ stream'.thinned = FALSE /\ stream'.sampling = FALSE
      BY <3>a
    <3>6. wire' = <<>>
      BY <1>2, <3>3
    <3>7. stream'.tailed = Tails(q)
      <4>1. Tails(q) = TRUE
        BY <3>1
      <4> QED BY <3>5, <4>1
    <3> QED BY <3>1, <3>4, <3>5, <3>6, <3>7
  <2>2. CASE widen
    <3>1. ~Tails(q) /\ stream.query # NoFilters
      BY <2>2 DEF widen
    <3>2. stream' = [started |-> TRUE, query |-> NoFilters, ready |-> FALSE, tailed |-> Tails(q),
                     thinned |-> FALSE, sampling |-> FALSE]
      BY <1>7, <2>2 DEF connected
    <3>a. stream' = [started |-> TRUE, query |-> NoFilters, ready |-> FALSE, tailed |-> FALSE,
                     thinned |-> FALSE, sampling |-> FALSE]
      <4>1. Tails(q) = FALSE
        BY <3>1
      <4> QED BY <3>2, <4>1
    <3>3. [stream' EXCEPT !.tailed = stream.tailed] # stream
      <4>1. stream' \in Streams /\ stream'.query = NoFilters
        BY <3>a DEF Streams
      <4>2. [stream' EXCEPT !.tailed = stream.tailed].query = NoFilters
        BY <4>1, OnlyTailed
      <4> QED BY <3>1, <4>2
    <3>4. stream' \in Streams
      BY <3>a DEF Streams
    <3>5. /\ stream'.tailed = FALSE /\ stream'.query = NoFilters
          /\ stream'.thinned = FALSE /\ stream'.sampling = FALSE
      BY <3>a
    <3>6. wire' = <<>>
      BY <1>2, <3>3
    <3>7. stream'.tailed = Tails(q)
      <4>1. Tails(q) = FALSE
        BY <3>1
      <4> QED BY <3>5, <4>1
    <3> QED BY <3>1, <3>4, <3>5, <3>6, <3>7
  <2>3. CASE ~narrow /\ ~widen
    <3>1. stream' = [stream EXCEPT !.tailed = Tails(q)]
      BY <1>7, <2>3
    <3>2. [stream' EXCEPT !.tailed = stream.tailed] = stream
      BY <1>8, <3>1 DEF Streams
    <3>3. Tails(q) => stream.query = FilterOf[q]
      BY <2>3 DEF narrow
    <3>4. wire' = wire
      BY <1>2, <3>2
    <3>5. /\ stream' \in Streams /\ stream'.tailed = Tails(q) /\ stream'.query = stream.query
          /\ stream'.thinned = stream.thinned /\ stream'.sampling = stream.sampling
      BY <1>6, <1>8, <3>1 DEF Streams
    <3> QED BY <3>3, <3>4, <3>5
  <2> QED BY <2>1, <2>2, <2>3
<1>11. StreamShape'
  <2>1. wire' \in Seq(Rows \cup Notices) /\ queue' \in Seq(Rows)
    BY <1>2, <1>8, <1>10
  <2> QED BY <1>10, <2>1 DEF StreamShape
<1>12. StreamMatches'
  BY <1>1, <1>2, <1>6, <1>10 DEF StreamMatches
<1>13. GapsTold'
  <2>1. sampledFor' = (query' # NoQuery /\ stream.sampling)
    BY <1>2 DEF sampledStill
  <2>2. "dropped" \notin holes' /\ "sampled" \notin holes'
    BY <1>2
  <2>3. CASE wire' = wire /\ stream'.thinned = stream.thinned /\ stream'.sampling = stream.sampling
    BY <1>1, <2>1, <2>2, <2>3 DEF GapsTold, OnWire
  <2>4. CASE wire' = <<>> /\ stream'.thinned = FALSE /\ stream'.sampling = FALSE
    BY <2>1, <2>2, <2>4 DEF GapsTold, OnWire
  <2> QED BY <1>10, <2>3, <2>4
<1> QED BY <1>2, <1>3, <1>4, <1>5, <1>11, <1>12, <1>13

LEMMA QueryChangesKeep ==
  ASSUME FeedInv, reload \/ leavePage \/ \E q \in Queries : setFilter(q)
  PROVE  FeedInv'
<1>1. /\ ListShape /\ FirstShape /\ OlderShape /\ StreamShape /\ PageShape /\ CountShape /\ StoreShape
      /\ FeedTypeOK /\ RowsOnce /\ PagesMatch /\ StreamMatches /\ GapsTold
  BY ShapesMakeTypes DEF FeedInv
<1>2. PICK q \in Queries \cup {NoQuery} : startLoad(q) /\ query' = q
  <2>1. CASE reload
    BY <1>1, <2>1 DEF reload, PageShape
  <2>2. CASE leavePage
    BY <2>2 DEF leavePage
  <2>3. CASE \E q \in Queries : setFilter(q)
    BY <2>3 DEF setFilter
  <2> QED BY <2>1, <2>2, <2>3
<1>3. /\ ListShape' /\ FirstShape' /\ StreamShape' /\ StreamMatches' /\ GapsTold'
      /\ feed' = NoFeed
      /\ first'.at \in {"none", "sent"} /\ (first'.at # "none" => q # NoQuery)
      /\ dropped' \in BOOLEAN /\ sampledFor' \in BOOLEAN
  BY <1>2, LoadsStartEmpty
<1>4. /\ UNCHANGED <<stored, faults>>
      /\ older' \in {NoOlder, outdated(older)}
      /\ loadingOlder' \in {FALSE, loadingOlder} /\ frozenTop' \in {NoTs, frozenTop}
      /\ UNCHANGED moves \/ (moves < MaxMoves /\ moves' = moves + 1)
  BY DEF reload, leavePage, setFilter
<1>5. /\ OlderShape'
      /\ \/ older'.at = "none"
         \/ /\ older'.at = older.at /\ older'.q = older.q /\ older'.before = older.before
            /\ older'.rows = older.rows /\ older'.continueBefore = older.continueBefore
  <2>1. CASE older' = NoOlder
    BY <2>1, NoRows, FeedAssumptions DEF OlderShape, NoOlder, OlderRequests, NoTs, Stages
  <2>2. CASE older' = outdated(older)
    <3>1. older \in OlderRequests /\ Distinct(older.rows)
      BY <1>1 DEF OlderShape
    <3>2. older' = older \/ older' = [older EXCEPT !.stale = TRUE]
      BY <2>2 DEF outdated
    <3>3. /\ older' \in OlderRequests /\ older'.at = older.at /\ older'.q = older.q
          /\ older'.before = older.before /\ older'.rows = older.rows
          /\ older'.continueBefore = older.continueBefore
      BY <3>1, <3>2 DEF OlderRequests
    <3> QED BY <3>1, <3>3 DEF OlderShape
  <2> QED BY <1>4, <2>1, <2>2
<1>6. PageShape'
  <2>1. frozenTop' \in 0 .. MaxTs
    BY <1>1, <1>4, FeedAssumptions DEF PageShape, NoTs
  <2>2. loadingOlder' \in BOOLEAN
    BY <1>1, <1>4 DEF PageShape
  <2> QED BY <1>2, <1>3, <2>1, <2>2 DEF PageShape
<1>7. CountShape' /\ StoreShape'
  BY <1>1, <1>4, FeedAssumptions DEF CountShape, StoreShape
<1>8. PagesMatch'
  <2>1. query' # NoQuery => AllMatch(query, feed.rows)' /\ Within(query, feed.continueBefore)'
    <3>1. feed'.rows = <<>> /\ feed'.continueBefore = NoTs
      BY <1>3 DEF NoFeed
    <3> QED BY <3>1 DEF AllMatch, Within
  <2>2. /\ first'.at # "none" => query' # NoQuery
        /\ first'.at # "read"
    BY <1>2, <1>3
  <2>3. /\ older'.at # "none" =>
             older'.q # NoQuery /\ older'.before # NoTs /\ Within(older.q, older.before)'
        /\ older'.at = "read" =>
             AllMatch(older.q, older.rows)' /\ Within(older.q, older.continueBefore)'
    BY <1>1, <1>5 DEF PagesMatch, AllMatch, matches, inWindow, Within
  <2> QED BY <2>1, <2>2, <2>3 DEF PagesMatch
<1> QED BY <1>3, <1>5, <1>6, <1>7, <1>8, ShapesMakeTypes, PTL DEF FeedInv

\* The oldest row of a list of q is in the window of q, and so is the instant
\* that the next page is asked for from.
LEMMA NextStaysWithin ==
  ASSUME ListShape, NEW q \in Queries, AllMatch(q, feed.rows), Within(q, feed.continueBefore)
  PROVE  nextBefore(feed) \in 0 .. MaxTs + 1 /\ Within(q, nextBefore(feed))
<1>1. feed.rows \in Seq(Rows) /\ feed.continueBefore \in 0 .. MaxTs + 1
  BY DEF ListShape, Feeds
<1>2. CASE feed.continueBefore # NoTs
  BY <1>1, <1>2 DEF nextBefore
<1>3. CASE feed.continueBefore = NoTs /\ feed.rows = <<>>
  <2>1. nextBefore(feed) = NoTs
    BY <1>3 DEF nextBefore
  <2> QED BY <2>1, FeedAssumptions DEF Within, NoTs
<1>4. CASE feed.continueBefore = NoTs /\ feed.rows # <<>>
  <2> DEFINE last == feed.rows[Len(feed.rows)]
  <2>1. Len(feed.rows) \in DOMAIN feed.rows
    BY <1>1, <1>4, EmptySeq, LenProperties, ListRows
  <2>2. last \in Rows /\ matches(q, last.id)
    BY <1>1, <2>1, ListRows DEF AllMatch
  <2>3. nextBefore(feed) = Ts(last) + 1
    BY <1>4 DEF nextBefore, Last
  <2>4. BeforeOf[q] # NoTs => Ts(last) < BeforeOf[q]
    BY <2>2 DEF matches, inWindow, Ts
  <2> HIDE DEF last
  <2>5. Ts(last) \in 1 .. MaxTs /\ BeforeOf[q] \in Nat /\ MaxTs \in Nat
    BY <2>2, RowTimes, FeedAssumptions
  <2> QED BY <2>3, <2>4, <2>5 DEF Within
<1> QED BY <1>2, <1>3, <1>4

LEMMA LoadOlderKeeps ==
  ASSUME FeedInv, loadOlder
  PROVE  FeedInv'
<1>1. /\ ListShape /\ FirstShape /\ OlderShape /\ StreamShape /\ PageShape /\ CountShape /\ StoreShape
      /\ FeedTypeOK /\ RowsOnce /\ PagesMatch /\ StreamMatches /\ GapsTold
  BY ShapesMakeTypes DEF FeedInv
<1>2. /\ UNCHANGED <<stored, query, feed, dropped, sampledFor, first, streamVars, frozenTop, holes,
                     faults, moves>>
      /\ loadingOlder' = TRUE
      /\ older' = [NoOlder EXCEPT !.at = "sent", !.q = query, !.before = nextBefore(feed)]
      /\ query # NoQuery /\ nextBefore(feed) # NoTs
  BY DEF loadOlder, NearEnd
<1>3. query \in Queries
  BY <1>1, <1>2 DEF PageShape
<1>4. nextBefore(feed) \in 0 .. MaxTs + 1 /\ Within(query, nextBefore(feed))
  BY <1>1, <1>2, <1>3, NextStaysWithin DEF PagesMatch
<1> DEFINE next == nextBefore(feed)
<1>5. older' = [at |-> "sent", q |-> query, stale |-> FALSE, before |-> next,
                rows |-> <<>>, continueBefore |-> NoTs]
  BY <1>2 DEF NoOlder
<1> HIDE DEF next
<1>6. OlderShape'
  <2>1. older' \in OlderRequests
    BY <1>3, <1>4, <1>5, NoRows, FeedAssumptions DEF OlderRequests, NoTs, Stages, next
  <2>2. older'.rows = <<>>
    BY <1>5
  <2> QED BY <2>1, <2>2, NoRows DEF OlderShape
<1>7. PagesMatch'
  <2>1. /\ older'.at = "sent" /\ older'.q = query /\ older'.before = next
        /\ next # NoTs /\ Within(query, next)
    BY <1>2, <1>4, <1>5 DEF next
  <2> QED BY <1>1, <1>2, <2>1 DEF PagesMatch, AllMatch, matches, inWindow, Within
<1>8. PageShape'
  BY <1>1, <1>2 DEF PageShape
<1>9. GapsTold'
  BY <1>1, <1>2, GapsStayTold DEF streamVars
<1>10. ListShape' /\ FirstShape' /\ StreamShape' /\ CountShape' /\ StoreShape' /\ StreamMatches'
  BY <1>1, <1>2, ShapesStay
<1> QED BY <1>6, <1>7, <1>8, <1>9, <1>10, ShapesMakeTypes, PTL DEF FeedInv

\* The view is held at the time of the newest row, or of the newest receipt.
LEMMA HoldsKeep ==
  ASSUME FeedInv, freeze \/ resume
  PROVE  FeedInv'
<1>1. /\ ListShape /\ FirstShape /\ OlderShape /\ StreamShape /\ PageShape /\ CountShape /\ StoreShape
      /\ FeedTypeOK /\ RowsOnce /\ PagesMatch /\ StreamMatches /\ GapsTold
  BY ShapesMakeTypes DEF FeedInv
<1>2. /\ UNCHANGED <<stored, pageVars, feed, dropped, first, older, streamVars, holes, faults>>
      /\ UNCHANGED moves \/ (moves < MaxMoves /\ moves' = moves + 1)
      /\ frozenTop' \in {NoTs, Now} \/ (feed.rows # <<>> /\ frozenTop' = Ts(Head(feed.rows)))
  BY DEF freeze, resume
<1>3. Now \in 0 .. MaxTs
  <2> DEFINE times == {TsOf[id] : id \in {i \in Ids : stored[i] # "absent"}} \cup {1}
  <2>1. \A t \in times : t \in 1 .. MaxTs
    BY FeedAssumptions
  <2>2. IsFiniteSet(times)
    <3>1. times \subseteq 1 .. MaxTs
      BY <2>1
    <3>2. IsFiniteSet(1 .. MaxTs)
      <4>1. 1 \in Int /\ MaxTs \in Int
        BY FeedAssumptions
      <4> QED BY <4>1, FS_Interval
    <3> QED BY <3>1, <3>2, FS_Subset
  <2>3. times \subseteq Nat /\ times # {}
    BY <2>1, FeedAssumptions
  <2>4. Now = Max(times)
    BY DEF Now
  <2> HIDE DEF times
  <2>5. Max(times) \in times
    BY <2>2, <2>3, GreatestIsIn
  <2> QED BY <2>1, <2>4, <2>5, FeedAssumptions
<1>4. frozenTop' \in 0 .. MaxTs
  <2>1. CASE frozenTop' \in {NoTs, Now}
    BY <1>3, <2>1, FeedAssumptions DEF NoTs
  <2>2. CASE feed.rows # <<>> /\ frozenTop' = Ts(Head(feed.rows))
    <3>1. feed.rows \in Seq(Rows)
      BY <1>1 DEF ListShape, Feeds
    <3>2. Head(feed.rows) \in Rows
      BY <2>2, <3>1, HeadTailProperties
    <3> QED BY <2>2, <3>2, RowTimes, FeedAssumptions
  <2> QED BY <1>2, <2>1, <2>2
<1>5. PageShape'
  BY <1>1, <1>2, <1>4 DEF PageShape, pageVars
<1>6. CountShape'
  BY <1>1, <1>2, FeedAssumptions DEF CountShape
<1>7. GapsTold'
  BY <1>1, <1>2, GapsStayTold DEF pageVars, streamVars
<1>8. /\ ListShape' /\ FirstShape' /\ OlderShape' /\ StreamShape' /\ StoreShape'
      /\ PagesMatch' /\ StreamMatches'
  BY <1>1, <1>2, ShapesStay DEF pageVars
<1> QED BY <1>5, <1>6, <1>7, <1>8, ShapesMakeTypes, PTL DEF FeedInv

LEMMA FeedStutters ==
  ASSUME FeedInv, UNCHANGED feedVars
  PROVE  FeedInv'
<1>1. /\ ListShape /\ FirstShape /\ OlderShape /\ StreamShape /\ PageShape /\ CountShape /\ StoreShape
      /\ FeedTypeOK /\ RowsOnce /\ PagesMatch /\ StreamMatches /\ GapsTold
  BY ShapesMakeTypes DEF FeedInv
<1>2. UNCHANGED <<stored, pageVars, feed, dropped, first, older, streamVars, frozenTop, holes,
                  faults, moves>>
  BY DEF feedVars
<1>3. GapsTold'
  BY <1>1, <1>2, GapsStayTold DEF pageVars, streamVars
<1>4. /\ ListShape' /\ FirstShape' /\ OlderShape' /\ StreamShape' /\ PageShape' /\ CountShape'
      /\ StoreShape' /\ PagesMatch' /\ StreamMatches'
  BY <1>1, <1>2, ShapesStay DEF pageVars
<1> QED BY <1>3, <1>4, ShapesMakeTypes, PTL DEF FeedInv

-----------------------------------------------------------------------------
(* The theorems *)

LEMMA FeedStepKeeps == FeedInv /\ [FeedNext]_feedVars => FeedInv'
<1> SUFFICES ASSUME FeedInv, [FeedNext]_feedVars PROVE FeedInv'
  OBVIOUS
<1>1. CASE FeedServer
  BY <1>1, FirstReadKeeps, OlderReadKeeps, StreamReadyKeeps, StreamThinsKeeps, StreamBreaksKeeps,
     ReceiptChangesKeeps DEF FeedServer
<1>2. CASE FeedTab
  BY <1>2, StreamEventKeeps, FlushKeeps, StreamReadyKeeps, FirstAnsweredKeeps, OlderAnsweredKeeps
     DEF FeedTab
<1>3. CASE FeedReader
  BY <1>3, QueryChangesKeep, LoadOlderKeeps, HoldsKeep DEF FeedReader
<1>4. CASE UNCHANGED feedVars
  BY <1>4, FeedStutters
<1> QED BY <1>1, <1>2, <1>3, <1>4 DEF FeedNext

LEMMA FeedInvariant == FeedSpec => []FeedInv
BY FeedInitHolds, FeedStepKeeps, PTL DEF FeedSpec

\* However the first page, older pages and the stream's events overlap, and
\* however often the query changes meanwhile, the list holds receipts as the
\* server sends them and each of them once, which is what the keys of the
\* table's rows rely on (applyLive, mergeNewer and notSeen each leave out what
\* is already there).
THEOREM ListsAreWellFormed == FeedSpec => []ListWellFormed
<1>1. FeedInv => ListWellFormed
  <2> SUFFICES ASSUME FeedInv PROVE ListWellFormed
    OBVIOUS
  <2>1. FeedTypeOK /\ ListShape
    BY ShapesMakeTypes DEF FeedInv
  <2>2. Cardinality(IdsOf(feed.rows)) = Len(feed.rows)
    BY <2>1, RowsAreCounted DEF ListShape, Feeds
  <2> QED BY <2>1, <2>2 DEF ListWellFormed, NoReceiptTwice
<1> QED BY <1>1, FeedInvariant, PTL

\* A list never shows a receipt outside its filters and its window, although
\* the page filters no event by itself: an answer to an earlier query is
\* dropped (ForThisQuery), and an event that reaches the tailer is one that the
\* server selected for the filters the tailer's page has now (retail).
THEOREM OnlyMatchingRowsAreListed == FeedSpec => []OnlyMatchingRows
<1>1. FeedInv => OnlyMatchingRows
  <2> SUFFICES ASSUME FeedInv, query # NoQuery, NEW r \in Range(feed.rows)
               PROVE  matches(query, r.id)
    BY DEF OnlyMatchingRows
  <2>1. AllMatch(query, feed.rows) /\ ListShape
    BY ShapesMakeTypes DEF FeedInv, PagesMatch
  <2>2. \E i \in DOMAIN feed.rows : r = feed.rows[i]
    BY <2>1, ListRows DEF ListShape, Feeds
  <2> QED BY <2>1, <2>2 DEF AllMatch
<1> QED BY <1>1, FeedInvariant, PTL

\* What the server leaves out of the stream, because the tab is behind or the
\* stream is sampled, is missing from no list that does not say so once the
\* notice has come through, whichever load of the list it came in.
THEOREM GapsAreTold == FeedSpec => []GapsAreSaid
<1>1. FeedInv => GapsAreSaid
  <2> SUFFICES ASSUME FeedInv, query # NoQuery, wire = <<>>, "lost" \notin holes
               PROVE  /\ "dropped" \in holes => dropped
                      /\ "sampled" \in holes => wasSampled
    BY DEF GapsAreSaid
  <2>1. ~OnWire("dropped") /\ ~OnWire("sampling")
    BY DEF OnWire
  <2> QED BY <2>1 DEF FeedInv, GapsTold, wasSampled
<1> QED BY <1>1, FeedInvariant, PTL

-----------------------------------------------------------------------------
(* The place of the rows *)

\* A list that grows at either end, by `above` rows at its top.
ShiftedBy(above, rows, next) ==
  \A i \in DOMAIN rows :
    /\ i + above \in DOMAIN next => next[i + above].id = rows[i].id
    /\ i + above \notin DOMAIN next => rows[i].id \notin IdsOf(next)
OnTop(above, next, news) == above <= Len(next) => news = {next[j].id : j \in 1 .. above}

\* What lies above a row of such a list.
LEMMA GrownAbove ==
  ASSUME NEW rows \in Seq(Rows), NEW next \in Seq(Rows), NEW above \in Nat, NEW news,
         Distinct(next), ShiftedBy(above, rows, next), OnTop(above, next, news)
  PROVE  MovedBy(news, rows, next)
<1> SUFFICES ASSUME NEW p \in DOMAIN rows, NEW q \in DOMAIN next, rows[p].id = next[q].id
             PROVE  Above(next, q) = Above(rows, p) \cup news
  BY DEF MovedBy
<1>1. /\ DOMAIN rows = 1 .. Len(rows) /\ DOMAIN next = 1 .. Len(next)
      /\ Len(rows) \in Nat /\ Len(next) \in Nat
  BY ListRows
<1>2. p + above \in DOMAIN next /\ next[p + above].id = rows[p].id
  BY DEF IdsOf, ShiftedBy
<1>3. q = p + above /\ above <= Len(next) /\ p >= 1
  BY <1>1, <1>2 DEF Distinct
<1>4. \A i \in 1 .. p - 1 : i \in DOMAIN rows /\ i + above \in DOMAIN next
  BY <1>1, <1>2
<1>5. \A i \in 1 .. p - 1 : i + above \in 1 .. q - 1 /\ next[i + above].id = rows[i].id
  <2> TAKE i \in 1 .. p - 1
  <2>1. i + above \in 1 .. q - 1
    BY <1>1, <1>3
  <2> QED BY <1>4, <2>1 DEF ShiftedBy
<1>6. \A j \in 1 .. q - 1 :
        \/ j \in 1 .. above
        \/ j - above \in 1 .. p - 1 /\ (j - above) + above = j
  BY <1>1, <1>3
<1>7. 1 .. above \subseteq 1 .. q - 1
  BY <1>1, <1>3
<1>8. news = {next[j].id : j \in 1 .. above}
  BY <1>3 DEF OnTop
<1>9. ASSUME NEW id \in Above(next, q) PROVE id \in Above(rows, p) \cup news
  <2>1. PICK j \in 1 .. q - 1 : id = next[j].id
    BY <1>9 DEF Above
  <2>2. CASE j \in 1 .. above
    BY <2>1, <2>2, <1>8
  <2>3. CASE j - above \in 1 .. p - 1 /\ (j - above) + above = j
    BY <2>1, <2>3, <1>5 DEF Above
  <2> QED BY <1>6, <2>2, <2>3
<1>10. ASSUME NEW id \in Above(rows, p) \cup news PROVE id \in Above(next, q)
  <2>1. CASE id \in Above(rows, p)
    BY <2>1, <1>5 DEF Above
  <2>2. CASE id \in news
    BY <2>2, <1>7, <1>8 DEF Above
  <2> QED BY <2>1, <2>2
<1> QED BY <1>9, <1>10

\* A batch puts its new receipts above the rows that were there, and takes a row
\* away only from the end of a full list.
LEMMA LivePlaces ==
  ASSUME NEW rows \in Seq(Rows), NEW batch \in Seq(Rows), Distinct(rows)
  PROVE  LET next == applyLive(rows, batch) IN
         /\ next \in Seq(Rows) /\ Distinct(next)
         /\ MovedBy(IdsOf(batch) \ IdsOf(rows), rows, next)
         /\ IdsOf(rows) \subseteq IdsOf(next) \/ Len(next) = MaxRows
<1> DEFINE fresh  == Fresh(rows, batch)
           known  == [i \in DOMAIN rows |-> Settled(rows[i], batch)]
           joined == fresh \o known
           next   == applyLive(rows, batch)
<1>1. /\ joined \in Seq(Rows) /\ next = UpToMax(joined) /\ Distinct(joined)
      /\ IdsOf(joined) = IdsOf(rows) \cup IdsOf(batch)
  BY BatchJoins
<1>2. /\ next \in Seq(Rows) /\ Distinct(next) /\ (Len(next) = MaxRows \/ next = joined)
      /\ \A i \in DOMAIN next : i \in DOMAIN joined /\ next[i] = joined[i]
  BY <1>1, CutKeeps
<1>3. /\ fresh \in Seq(Rows) /\ Len(fresh) \in Nat
      /\ Len(rows) \in Nat /\ DOMAIN rows = 1 .. Len(rows)
  BY FreshAreNew, ListRows
<1>4. \A i \in DOMAIN rows : known[i] \in Rows /\ known[i].id = rows[i].id
  <2> SUFFICES ASSUME NEW i \in DOMAIN rows
               PROVE  Settled(rows[i], batch) \in Rows /\ Settled(rows[i], batch).id = rows[i].id
    OBVIOUS
  <2>1. CASE rows[i].id \in IdsOf(batch)
    <3>1. Settled(rows[i], batch) = Latest(batch, rows[i].id)
      BY <2>1 DEF Settled
    <3>2. Latest(batch, rows[i].id) \in Range(batch) /\ Latest(batch, rows[i].id).id = rows[i].id
      BY <2>1, LatestIsACopy
    <3> QED BY <3>1, <3>2, ListRows
  <2>2. CASE rows[i].id \notin IdsOf(batch)
    BY <2>2, ListRows DEF Settled
  <2> QED BY <2>1, <2>2
<1>5. known \in Seq(Rows) /\ Len(known) = Len(rows)
  BY <1>3, <1>4
<1> HIDE DEF fresh, known, next
<1>a. /\ Len(joined) = Len(fresh) + Len(known)
      /\ \A m \in 1 .. Len(fresh) + Len(known) :
           joined[m] = IF m <= Len(fresh) THEN fresh[m] ELSE known[m - Len(fresh)]
  BY <1>3, <1>5, ConcatProperties
<1> HIDE DEF joined
<1>6. \A i \in DOMAIN rows :
        i + Len(fresh) \in DOMAIN joined /\ joined[i + Len(fresh)] = known[i]
  <2> SUFFICES ASSUME NEW i \in DOMAIN rows
               PROVE  i + Len(fresh) \in DOMAIN joined /\ joined[i + Len(fresh)] = known[i]
    OBVIOUS
  <2>1. /\ i + Len(fresh) \in 1 .. Len(fresh) + Len(known)
        /\ ~(i + Len(fresh) <= Len(fresh)) /\ i + Len(fresh) - Len(fresh) = i
    BY <1>3, <1>5
  <2>2. DOMAIN joined = 1 .. Len(joined)
    BY <1>1, ListRows
  <2> QED BY <1>a, <2>1, <2>2
<1>7. \A i \in DOMAIN rows :
        /\ i + Len(fresh) \in DOMAIN next => next[i + Len(fresh)].id = rows[i].id
        /\ i + Len(fresh) \notin DOMAIN next => rows[i].id \notin IdsOf(next)
  <2> SUFFICES ASSUME NEW i \in DOMAIN rows
               PROVE  /\ i + Len(fresh) \in DOMAIN next => next[i + Len(fresh)].id = rows[i].id
                      /\ i + Len(fresh) \notin DOMAIN next => rows[i].id \notin IdsOf(next)
    OBVIOUS
  <2>1. i + Len(fresh) \in DOMAIN joined /\ joined[i + Len(fresh)].id = rows[i].id
    BY <1>4, <1>6
  <2>2. ASSUME rows[i].id \in IdsOf(next) PROVE i + Len(fresh) \in DOMAIN next
    <3>1. PICK k \in DOMAIN next : next[k].id = rows[i].id
      BY <2>2 DEF IdsOf
    <3>2. k \in DOMAIN joined /\ joined[k].id = joined[i + Len(fresh)].id
      BY <1>2, <2>1, <3>1
    <3>3. k = i + Len(fresh)
      BY <1>1, <2>1, <3>2 DEF Distinct
    <3> QED BY <3>3
  <2> QED BY <1>2, <2>1, <2>2
<1>8. /\ IdsOf(fresh) = IdsOf(batch) \ IdsOf(rows) /\ DOMAIN fresh = 1 .. Len(fresh)
      /\ DOMAIN next = 1 .. Len(next) /\ Len(next) \in Nat
  BY <1>2, <1>3, FreshAreNew, ListRows DEF fresh
<1>9. Len(fresh) <= Len(next) => IdsOf(fresh) = {next[j].id : j \in 1 .. Len(fresh)}
  <2> SUFFICES ASSUME Len(fresh) <= Len(next)
               PROVE  IdsOf(fresh) = {next[j].id : j \in 1 .. Len(fresh)}
    OBVIOUS
  <2>1. \A j \in 1 .. Len(fresh) : next[j] = fresh[j]
    <3> TAKE j \in 1 .. Len(fresh)
    <3>1. j \in DOMAIN next /\ j \in 1 .. Len(fresh) + Len(known) /\ j <= Len(fresh)
      BY <1>3, <1>5, <1>8
    <3> QED BY <1>2, <1>a, <3>1
  <2> QED BY <1>8, <2>1 DEF IdsOf
<1>10. MovedBy(IdsOf(fresh), rows, next)
  <2>1. ShiftedBy(Len(fresh), rows, next)
    BY <1>7 DEF ShiftedBy
  <2>2. OnTop(Len(fresh), next, IdsOf(fresh))
    BY <1>9 DEF OnTop
  <2> QED BY <1>2, <1>3, <2>1, <2>2, GrownAbove
<1>11. IdsOf(rows) \subseteq IdsOf(next) \/ Len(next) = MaxRows
  BY <1>1, <1>2
<1> QED BY <1>2, <1>8, <1>10, <1>11 DEF next

\* Older rows go below those that are there.
LEMMA OlderPlaces ==
  ASSUME NEW rows \in Seq(Rows), NEW fresh \in Seq(Rows), Distinct(rows \o fresh)
  PROVE  LET next == rows \o fresh IN
         /\ next \in Seq(Rows)
         /\ MovedBy({}, rows, next)
         /\ IdsOf(rows) \subseteq IdsOf(next)
<1> DEFINE next == rows \o fresh
<1>1. /\ next \in Seq(Rows) /\ Len(next) = Len(rows) + Len(fresh)
      /\ IdsOf(next) = IdsOf(rows) \cup IdsOf(fresh)
  BY JoinKeeps
<1>2. /\ Len(rows) \in Nat /\ DOMAIN rows = 1 .. Len(rows) /\ Len(fresh) \in Nat
      /\ DOMAIN next = 1 .. Len(next)
  BY <1>1, ListRows
<1>3. \A i \in DOMAIN rows : i \in DOMAIN next /\ next[i] = rows[i] /\ i + 0 = i
  <2> SUFFICES ASSUME NEW i \in DOMAIN rows
               PROVE  i \in DOMAIN next /\ next[i] = rows[i] /\ i + 0 = i
    OBVIOUS
  <2>1. i \in 1 .. Len(rows) + Len(fresh) /\ i <= Len(rows)
    BY <1>2
  <2>2. next[i] = rows[i]
    BY <1>2, <2>1, ConcatProperties
  <2> QED BY <1>1, <1>2, <2>1, <2>2
<1>4. Distinct(next)
  OBVIOUS
<1> HIDE DEF next
<1>5. {next[j].id : j \in 1 .. 0} = {}
  OBVIOUS
<1>6. MovedBy({}, rows, next)
  <2>1. ShiftedBy(0, rows, next)
    BY <1>3 DEF ShiftedBy
  <2>2. OnTop(0, next, {})
    BY <1>5 DEF OnTop
  <2> QED BY <1>1, <1>4, <2>1, <2>2, GrownAbove
<1> QED BY <1>1, <1>6 DEF next

\* The rows that a view is narrowed to when it is held.
Shown(top) == IF top = NoTs THEN Ids ELSE {id \in Ids : TsOf[id] <= top}

\* What lies above a row of a view lies above it in the list.
LEMMA AboveInView ==
  ASSUME NEW rows \in Seq(Rows), NEW top \in Nat, Distinct(rows),
         NEW i \in DOMAIN Held(rows, top)
  PROVE  \E p \in DOMAIN rows :
           /\ rows[p].id = Held(rows, top)[i].id
           /\ Above(Held(rows, top), i) = Above(rows, p) \cap Shown(top)
<1>1. DOMAIN rows = 1 .. Len(rows) /\ Len(rows) \in Nat /\ \A j \in DOMAIN rows : rows[j].id \in Ids
  BY ListRows DEF IdsOf
<1>2. CASE top = NoTs
  <2>1. Held(rows, top) = rows /\ Shown(top) = Ids
    BY <1>2 DEF Held, Shown
  <2>2. i \in 1 .. Len(rows) /\ \A j \in 1 .. i - 1 : j \in DOMAIN rows
    BY <1>1, <2>1
  <2>3. Above(rows, i) \subseteq Ids
    BY <1>1, <2>2 DEF Above
  <2> QED BY <2>1, <2>3
<1>3. CASE top # NoTs
  <2> DEFINE ids  == Shown(top)
             at   == {j \in DOMAIN rows : rows[j].id \in ids}
             kept == Held(rows, top)
  <2>1. kept = RowsAt(rows, at)
    BY <1>3 DEF Held, Shown, Filtered
  <2>2. at \in SUBSET DOMAIN rows /\ \A j : j \in at <=> j \in DOMAIN rows /\ rows[j].id \in ids
    OBVIOUS
  <2> HIDE DEF ids, at, kept
  <2>3. kept \in Seq(Rows)
    BY <2>1, <2>2, RowsAtKeeps
  <2>4. PICK o \in [1 .. Len(kept) -> at] :
          /\ \A k \in 1 .. Len(kept) : kept[k] = rows[o[k]]
          /\ \A j \in at : \E k \in 1 .. Len(kept) : o[k] = j
          /\ \A j, k \in 1 .. Len(kept) : j < k <=> o[j] < o[k]
    BY <2>1, <2>2, RowsAtKeeps
  <2>5. DOMAIN kept = 1 .. Len(kept) /\ Len(kept) \in Nat /\ i \in 1 .. Len(kept)
    BY <2>3, ListRows DEF kept
  <2>6. o[i] \in DOMAIN rows /\ rows[o[i]].id = kept[i].id
    BY <2>2, <2>4, <2>5
  <2>7. ASSUME NEW id \in Above(kept, i) PROVE id \in Above(rows, o[i]) \cap ids
    <3>1. PICK j \in 1 .. i - 1 : id = kept[j].id
      BY <2>7 DEF Above
    <3>2. j \in 1 .. Len(kept) /\ j < i
      BY <2>5
    <3>3. o[j] \in at /\ o[j] < o[i] /\ id = rows[o[j]].id
      BY <2>4, <2>5, <3>1, <3>2
    <3>4. o[j] \in 1 .. o[i] - 1
      BY <1>1, <2>2, <2>6, <3>3
    <3> QED BY <2>2, <3>3, <3>4 DEF Above
  <2>8. ASSUME NEW id \in Above(rows, o[i]) \cap ids PROVE id \in Above(kept, i)
    <3>1. PICK j \in 1 .. o[i] - 1 : id = rows[j].id
      BY <2>8 DEF Above
    <3>2. j \in DOMAIN rows /\ j < o[i] /\ j \in at
      BY <1>1, <2>2, <2>6, <2>8, <3>1
    <3>3. PICK k \in 1 .. Len(kept) : o[k] = j
      BY <2>4, <3>2
    <3>4. k < i
      BY <2>4, <2>5, <3>2, <3>3
    <3>5. k \in 1 .. i - 1 /\ kept[k].id = id
      BY <2>4, <2>5, <3>1, <3>3, <3>4
    <3> QED BY <3>5 DEF Above
  <2>9. Above(kept, i) = Above(rows, o[i]) \cap ids
    BY <2>7, <2>8
  <2> QED BY <2>6, <2>9 DEF kept, ids
<1> QED BY <1>2, <1>3

\* A row moves in a view as it moves in the list, but for rows that are not shown.
LEMMA ViewMoves ==
  ASSUME NEW rows \in Seq(Rows), NEW next \in Seq(Rows), NEW top \in Nat, NEW news,
         Distinct(rows), Distinct(next), MovedBy(news, rows, next)
  PROVE  MovedBy(news \cap Shown(top), Held(rows, top), Held(next, top))
<1> SUFFICES ASSUME NEW i \in DOMAIN Held(rows, top), NEW k \in DOMAIN Held(next, top),
                    Held(rows, top)[i].id = Held(next, top)[k].id
             PROVE  Above(Held(next, top), k) = Above(Held(rows, top), i) \cup (news \cap Shown(top))
  BY DEF MovedBy
<1>1. PICK p \in DOMAIN rows :
        /\ rows[p].id = Held(rows, top)[i].id
        /\ Above(Held(rows, top), i) = Above(rows, p) \cap Shown(top)
  BY AboveInView
<1>2. PICK q \in DOMAIN next :
        /\ next[q].id = Held(next, top)[k].id
        /\ Above(Held(next, top), k) = Above(next, q) \cap Shown(top)
  BY AboveInView
<1>3. Above(next, q) = Above(rows, p) \cup news
  BY <1>1, <1>2 DEF MovedBy
<1> QED BY <1>1, <1>2, <1>3

LEMMA LoadsOnceStays == FeedInv /\ LoadsOnce /\ [FeedNext]_feedVars => LoadsOnce'
<1> SUFFICES ASSUME FeedInv, LoadsOnce, [FeedNext]_feedVars PROVE LoadsOnce'
  OBVIOUS
<1>1. feed \in Feeds /\ first \in FirstRequests
  BY ShapesMakeTypes DEF FeedInv, ListShape, FirstShape
<1>2. CASE UNCHANGED <<feed, first>>
  BY <1>2 DEF LoadsOnce
<1>3. CASE FirstRead
  BY <1>3 DEF FirstRead, LoadsOnce
<1>4. CASE flush
  <2>1. UNCHANGED first /\ (UNCHANGED feed \/ \E rows, end :
          feed' = [feed EXCEPT !.rows = rows, !.reachedEnd = end])
    BY <1>4 DEF flush, onReceipts
  <2>2. feed'.loaded = feed.loaded
    BY <1>1, <2>1 DEF Feeds
  <2> QED BY <2>1, <2>2 DEF LoadsOnce
<1>5. CASE firstAnswered \/ firstFailed
  BY <1>5 DEF firstAnswered, firstFailed, LoadsOnce, NoRequest
<1>6. CASE olderAnswered
  <2>1. UNCHANGED first /\ (UNCHANGED feed \/ \E rows, end, next :
          feed' = [feed EXCEPT !.rows = rows, !.reachedEnd = end, !.continueBefore = next])
    BY <1>6 DEF olderAnswered
  <2>2. feed'.loaded = feed.loaded
    BY <1>1, <2>1 DEF Feeds
  <2> QED BY <2>1, <2>2 DEF LoadsOnce
<1>7. CASE feed' = NoFeed
  BY <1>7 DEF NoFeed, LoadsOnce
<1> QED
  BY <1>2, <1>3, <1>4, <1>5, <1>6, <1>7
     DEF FeedNext, FeedServer, FeedTab, FeedReader, OlderRead, StreamReady, StreamThins,
         StreamBreaks, ReceiptChanges, StreamEvent, subscribe, olderFailed, setFilter, leavePage,
         reload, startLoad, loadOlder, freeze, resume, feedVars

LEMMA LoadsOnceHolds == FeedSpec => []LoadsOnce
<1>1. FeedInit => LoadsOnce
  BY DEF FeedInit, LoadsOnce, NoRequest
<1> QED BY <1>1, LoadsOnceStays, FeedInvariant, PTL DEF FeedSpec

\* The reader's place in a list: whatever answers and batches are applied in
\* whatever order, above a row of the view, held or not, there come to be the new
\* receipts of a batch that the view lets through, and nothing else; older rows go
\* below, and a row goes only from the end of a list that has MAX_ROWS.  The one
\* step that sorts a list, mergeNewer, comes before the list is shown as loaded.
THEOREM RowsKeepTheirPlace == FeedSpec => OnlyNewcomersMoveRows
<1> DEFINE Keeps ==
             query' = query /\ frozenTop' = frozenTop /\ feed.loaded /\ feed'.loaded /\ feed' # feed =>
               /\ \A was \in {visible}, is \in {visible'} : MovedBy(Newcomers, was, is)
               /\ IdsOf(feed.rows) \subseteq IdsOf(feed'.rows) \/ Len(feed'.rows) = MaxRows
<1>1. FeedInv /\ LoadsOnce /\ [FeedNext]_feedVars => [Keeps]_feedVars
  <2> SUFFICES ASSUME FeedInv, LoadsOnce, FeedNext, query' = query, frozenTop' = frozenTop,
                      feed.loaded, feed'.loaded, feed' # feed
               PROVE  /\ MovedBy(Newcomers, visible, visible')
                      /\ IdsOf(feed.rows) \subseteq IdsOf(feed'.rows) \/ Len(feed'.rows) = MaxRows
    OBVIOUS
  <2>1. /\ feed \in Feeds /\ feed.rows \in Seq(Rows) /\ Distinct(feed.rows)
        /\ older.rows \in Seq(Rows) /\ Distinct(older.rows) /\ queue \in Seq(Rows)
        /\ frozenTop \in Nat
    BY ShapesMakeTypes
       DEF FeedInv, FeedTypeOK, ListShape, OlderShape, StreamShape, Feeds, OlderRequests
  <2>2. visible = Held(feed.rows, frozenTop) /\ visible' = Held(feed'.rows, frozenTop)
    BY DEF visible, Held, Filtered
  <2>3. CASE flush
    <3> DEFINE window == {id \in Ids : inWindow(query, id)}
               live == Filtered(queue, window)
               rows == applyLive(feed.rows, live)
               news == IdsOf(live) \ IdsOf(feed.rows)
    <3>1. /\ feed' = [feed EXCEPT !.rows = rows, !.reachedEnd = @ /\ Len(rows) < MaxRows]
          /\ queue' = <<>>
      BY <2>3 DEF flush, onReceipts
    <3>2. live \in Seq(Rows) /\ IdsOf(live) = IdsOf(queue) \cap window
      BY <2>1, FilterKeeps
    <3>3. IdsOf(queue) \subseteq Ids
      BY <2>1, ListRows
    <3>4. Newcomers = news \cap Shown(frozenTop)
      BY <3>1, <3>2, <3>3 DEF Newcomers, Shown
    <3> HIDE DEF live
    <3>5. feed'.rows = rows
      BY <2>1, <3>1 DEF Feeds
    <3>6. /\ rows \in Seq(Rows) /\ Distinct(rows)
          /\ MovedBy(news, feed.rows, rows)
          /\ IdsOf(feed.rows) \subseteq IdsOf(rows) \/ Len(rows) = MaxRows
      BY <2>1, <3>2, LivePlaces
    <3> HIDE DEF rows, news
    <3>7. MovedBy(news \cap Shown(frozenTop), Held(feed.rows, frozenTop), Held(rows, frozenTop))
      BY <2>1, <3>6, ViewMoves
    <3> QED BY <2>2, <3>4, <3>5, <3>6, <3>7
  <2>4. CASE olderAnswered
    <3> DEFINE fresh == notSeen(feed.rows, older.rows)
               rows  == feed.rows \o fresh
    <3>1. /\ queue' = queue
          /\ \E end, next :
               feed' = [feed EXCEPT !.rows = @ \o fresh, !.reachedEnd = end, !.continueBefore = next]
      BY <2>4 DEF olderAnswered, streamVars
    <3>2. /\ fresh \in Seq(Rows) /\ Distinct(fresh)
          /\ IdsOf(fresh) = IdsOf(older.rows) \cap (Ids \ IdsOf(feed.rows))
      BY <2>1, FilterKeeps DEF notSeen
    <3>3. Newcomers = {}
      <4>1. queue = <<>> => IdsOf(queue) = {}
        BY DEF IdsOf
      <4> QED BY <3>1, <4>1 DEF Newcomers
    <3> HIDE DEF fresh
    <3>4. feed'.rows = rows
      BY <2>1, <3>1 DEF Feeds
    <3>5. Distinct(rows)
      BY <2>1, <3>2, JoinKeeps
    <3>6. /\ rows \in Seq(Rows)
          /\ MovedBy({}, feed.rows, rows)
          /\ IdsOf(feed.rows) \subseteq IdsOf(rows)
      BY <2>1, <3>2, <3>5, OlderPlaces
    <3> HIDE DEF rows
    <3>7. MovedBy({} \cap Shown(frozenTop), Held(feed.rows, frozenTop), Held(rows, frozenTop))
      BY <2>1, <3>5, <3>6, ViewMoves
    <3>8. {} \cap Shown(frozenTop) = {}
      OBVIOUS
    <3> QED BY <2>2, <3>3, <3>4, <3>6, <3>7, <3>8
  <2>5. CASE firstAnswered \/ firstFailed
    BY <2>5 DEF LoadsOnce, firstAnswered, firstFailed
  <2>6. CASE feed' = NoFeed
    BY <2>6 DEF NoFeed
  <2> QED
    BY <2>3, <2>4, <2>5, <2>6
       DEF FeedNext, FeedServer, FeedTab, FeedReader, FirstRead, OlderRead, StreamReady,
           StreamThins, StreamBreaks, ReceiptChanges, StreamEvent, subscribe, olderFailed,
           setFilter, leavePage, reload, startLoad, loadOlder, freeze, resume
<1> QED BY <1>1, FeedInvariant, LoadsOnceHolds, PTL DEF FeedSpec, OnlyNewcomersMoveRows

-----------------------------------------------------------------------------
(* What a page leaves out *)

NewestOnTop(rows) == \A j, k \in DOMAIN rows : j < k => Ts(rows[j]) >= Ts(rows[k])

\* Rows that are as the server has them.
Truthful(rows) == \A i \in DOMAIN rows : rows[i] = Row(rows[i].id)

\* A filter leaves rows as they are and in their order.
LEMMA FilterKeepsOrder ==
  ASSUME NEW rows \in Seq(Rows), NEW ids
  PROVE  /\ NewestOnTop(rows) => NewestOnTop(Filtered(rows, ids))
         /\ Truthful(rows) => Truthful(Filtered(rows, ids))
<1> DEFINE at == {i \in DOMAIN rows : rows[i].id \in ids}
           kept == Filtered(rows, ids)
<1>1. kept = RowsAt(rows, at)
  BY DEF Filtered
<1>2. at \in SUBSET DOMAIN rows
  OBVIOUS
<1> HIDE DEF at, kept
<1>3. PICK o \in [1 .. Len(kept) -> at] :
        /\ \A k \in 1 .. Len(kept) : kept[k] = rows[o[k]]
        /\ \A i \in at : \E k \in 1 .. Len(kept) : o[k] = i
        /\ \A j, k \in 1 .. Len(kept) : j < k <=> o[j] < o[k]
        /\ \A j, k \in 1 .. Len(kept) : o[j] = o[k] => j = k
  BY <1>1, <1>2, RowsAtKeeps
<1>4. kept \in Seq(Rows)
  BY FilterKeeps DEF kept
<1>5. DOMAIN kept = 1 .. Len(kept) /\ \A k \in DOMAIN kept : o[k] \in DOMAIN rows
  BY <1>2, <1>3, <1>4, ListRows
<1>6. NewestOnTop(rows) => NewestOnTop(kept)
  BY <1>3, <1>5 DEF NewestOnTop
<1>7. Truthful(rows) => Truthful(kept)
  BY <1>3, <1>5 DEF Truthful
<1> QED BY <1>6, <1>7 DEF kept

\* The server sends its receipts as they are, and of those that it has for a
\* page it leaves out only what is not newer than the page, if the page is full.
LEMMA PageIsComplete ==
  ASSUME FeedTypeOK, NEW q \in Queries, NEW before \in Nat
  PROVE  LET page == ServerPage(q, before) IN
         /\ Truthful(page)
         /\ \A id \in Found(q, before) \cap Selects[FilterOf[q]] :
              \/ id \in IdsOf(page)
              \/ Len(page) = Page /\ \A i \in DOMAIN page : TsOf[id] <= Ts(page[i])
<1> DEFINE order == ServerOrder(q, before)
           kept == Selected(q, order)
           page == ServerPage(q, before)
           n == IF Page <= Len(kept) THEN Page ELSE Len(kept)
<1>1. /\ order \in Seq(Rows) /\ Range(order) = {Row(i) : i \in Found(q, before)}
      /\ NewestOnTop(order)
  BY ServerLists DEF NewestOnTop
<1>2. page = SubSeq(kept, 1, Min({Page, Len(kept)}))
  BY DEF ServerPage
<1>3. kept = Filtered(order, Selects[FilterOf[q]])
  BY DEF Selected
<1> HIDE DEF order, kept, page
<1>4. Truthful(order)
  <2>1. \A i \in Found(q, before) : Row(i).id = i
    BY StoredRows DEF Found
  <2> QED BY <1>1, <2>1, ListRows DEF Truthful
<1>5. /\ kept \in Seq(Rows) /\ NewestOnTop(kept) /\ Truthful(kept)
      /\ Range(kept) = {r \in Range(order) : r.id \in Selects[FilterOf[q]]}
  BY <1>1, <1>3, <1>4, FilterKeeps, FilterKeepsOrder
<1>6. Len(kept) \in Nat /\ Page \in Nat /\ DOMAIN kept = 1 .. Len(kept)
  BY <1>5, ListRows, FeedAssumptions
<1>7. page = SubSeq(kept, 1, n) /\ n \in 0 .. Len(kept)
  <2>1. Min({Page, Len(kept)}) = n
    BY <1>6, LesserOfTwo
  <2>2. n \in 0 .. Len(kept)
    BY <1>6
  <2> HIDE DEF n
  <2>3. page = SubSeq(kept, 1, n)
    BY <1>2, <2>1, Zenon
  <2> QED BY <2>2, <2>3
<1>8. n = Len(kept) \/ (n = Page /\ n <= Len(kept))
  BY <1>6
<1> HIDE DEF n
<1>9. page \in Seq(Rows) /\ Len(page) = n /\ DOMAIN page = 1 .. n /\ \A i \in 1 .. n : page[i] = kept[i]
  BY <1>5, <1>7, HeadKeeps, ListRows
<1>10. Truthful(page)
  BY <1>5, <1>6, <1>7, <1>9 DEF Truthful
<1>11. ASSUME NEW id \in Found(q, before) \cap Selects[FilterOf[q]], id \notin IdsOf(page)
       PROVE  Len(page) = Page /\ \A i \in DOMAIN page : TsOf[id] <= Ts(page[i])
  <2>1. Row(id) \in Range(order) /\ Row(id).id = id
    BY <1>1, StoredRows DEF Found
  <2>2. PICK k \in DOMAIN kept : kept[k] = Row(id)
    BY <1>5, <2>1, ListRows
  <2>3. k \notin 1 .. n
    BY <1>9, <1>11, <2>1, <2>2 DEF IdsOf
  <2>4. n < k
    BY <1>6, <1>7, <2>3
  <2>5. n = Page
    BY <1>6, <1>8, <2>4
  <2>6. \A i \in DOMAIN page : TsOf[id] <= Ts(page[i])
    <3> SUFFICES ASSUME NEW i \in 1 .. n PROVE TsOf[id] <= Ts(page[i])
      BY <1>9
    <3>1. i \in DOMAIN kept /\ i < k
      BY <1>6, <1>7, <2>4
    <3>2. Ts(kept[i]) >= Ts(kept[k]) /\ Ts(kept[k]) = TsOf[id]
      BY <1>5, <2>1, <2>2, <3>1 DEF NewestOnTop, Ts
    <3>3. Ts(kept[i]) \in Nat /\ Ts(kept[k]) \in Nat
      BY <1>5, <3>1, ListRows, RowTimes
    <3> QED BY <1>9, <3>2, <3>3
  <2> QED BY <1>9, <2>5, <2>6
<1> QED BY <1>10, <1>11 DEF page

\* Where it reads no further than the n-th receipt, it leaves out only what is
\* older than where it says to carry on.
LEMMA CutIsComplete ==
  ASSUME FeedTypeOK, NEW q \in Queries, NEW before \in Nat, NEW n \in CutsShort(q, before)
  PROVE  LET cut == ReadUpTo(q, before, n) IN
         /\ Truthful(cut.rows) /\ cut.continueBefore # NoTs
         /\ \A id \in Found(q, before) \cap Selects[FilterOf[q]] :
              id \in IdsOf(cut.rows) \/ TsOf[id] < cut.continueBefore
<1> DEFINE order == ServerOrder(q, before)
           read == SubSeq(order, 1, n)
           rows == Filtered(read, Selects[FilterOf[q]])
<1>1. /\ order \in Seq(Rows) /\ Range(order) = {Row(i) : i \in Found(q, before)}
      /\ NewestOnTop(order)
  BY ServerLists DEF NewestOnTop
<1>2. n \in DOMAIN order
  BY DEF CutsShort
<1>3. /\ ReadUpTo(q, before, n).rows = rows
      /\ ReadUpTo(q, before, n).continueBefore = Ts(order[n]) + 1
  BY DEF ReadUpTo, Selected
<1> HIDE DEF order
<1>4. Truthful(order)
  <2>1. \A i \in Found(q, before) : Row(i).id = i
    BY StoredRows DEF Found
  <2> QED BY <1>1, <2>1, ListRows DEF Truthful
<1>5. DOMAIN order = 1 .. Len(order) /\ Len(order) \in Nat /\ n \in 0 .. Len(order)
  BY <1>1, <1>2, ListRows
<1>6. /\ read \in Seq(Rows) /\ DOMAIN read = 1 .. n /\ \A i \in 1 .. n : read[i] = order[i]
  BY <1>1, <1>5, HeadKeeps, ListRows
<1>7. Truthful(read)
  BY <1>4, <1>5, <1>6 DEF Truthful
<1> HIDE DEF read
<1>8. Truthful(rows) /\ IdsOf(rows) = IdsOf(read) \cap Selects[FilterOf[q]]
  BY <1>6, <1>7, FilterKeeps, FilterKeepsOrder
<1>9. Ts(order[n]) \in Nat
  BY <1>1, <1>2, ListRows, RowTimes
<1>10. ASSUME NEW id \in Found(q, before) \cap Selects[FilterOf[q]], id \notin IdsOf(rows)
       PROVE  TsOf[id] < Ts(order[n]) + 1
  <2>1. Row(id) \in Range(order) /\ Row(id).id = id
    BY <1>1, StoredRows DEF Found
  <2>2. PICK k \in DOMAIN order : order[k] = Row(id)
    BY <1>1, <2>1, ListRows
  <2>3. k \notin 1 .. n
    BY <1>6, <1>8, <1>10, <2>1, <2>2 DEF IdsOf
  <2>4. n < k
    BY <1>5, <2>3
  <2>5. Ts(order[n]) >= Ts(order[k]) /\ Ts(order[k]) = TsOf[id]
    BY <1>1, <1>2, <2>1, <2>2, <2>4 DEF NewestOnTop, Ts
  <2>6. Ts(order[k]) \in Nat
    BY <1>1, ListRows, RowTimes
  <2> QED BY <1>9, <2>5, <2>6
<1>11. Ts(order[n]) + 1 # NoTs
  BY <1>9 DEF NoTs
<1> QED BY <1>3, <1>8, <1>10, <1>11

\* An answer to a request for the rows of q before `before` leaves out only what
\* lies below it.
LEMMA AnswersLeaveOlder ==
  ASSUME FeedTypeOK, NEW q \in Queries, NEW before \in Nat, NEW r,
         \/ r.rows = ServerPage(q, before) /\ r.continueBefore = NoTs
         \/ \E n \in CutsShort(q, before) :
              /\ r.rows = ReadUpTo(q, before, n).rows
              /\ r.continueBefore = ReadUpTo(q, before, n).continueBefore
  PROVE  /\ Truthful(r.rows)
         /\ \A id \in Found(q, before) \cap Selects[FilterOf[q]] :
              id \in IdsOf(r.rows) \/ LiesBelow(r, id)
<1>1. CASE r.rows = ServerPage(q, before) /\ r.continueBefore = NoTs
  <2>1. /\ Truthful(r.rows)
        /\ \A id \in Found(q, before) \cap Selects[FilterOf[q]] :
             \/ id \in IdsOf(r.rows)
             \/ Len(r.rows) = Page /\ \A i \in DOMAIN r.rows : TsOf[id] <= Ts(r.rows[i])
    BY <1>1, PageIsComplete
  <2> QED BY <1>1, <2>1 DEF LiesBelow
<1>2. CASE \E n \in CutsShort(q, before) :
             /\ r.rows = ReadUpTo(q, before, n).rows
             /\ r.continueBefore = ReadUpTo(q, before, n).continueBefore
  <2>1. PICK n \in CutsShort(q, before) :
          /\ r.rows = ReadUpTo(q, before, n).rows
          /\ r.continueBefore = ReadUpTo(q, before, n).continueBefore
    BY <1>2
  <2>2. /\ Truthful(r.rows) /\ r.continueBefore # NoTs
        /\ \A id \in Found(q, before) \cap Selects[FilterOf[q]] :
             id \in IdsOf(r.rows) \/ TsOf[id] < r.continueBefore
    BY <2>1, CutIsComplete
  <2> QED BY <2>2 DEF LiesBelow
<1> QED BY <1>1, <1>2

\* Among what the server finds is all that matches.
LEMMA MatchesAreFound ==
  ASSUME NEW q \in Queries, NEW before \in Nat, NEW id \in Ids, stored[id] # "absent", matches(q, id),
         before = BeforeOf[q] \/ (before # NoTs => TsOf[id] < before)
  PROVE  id \in Found(q, before) \cap Selects[FilterOf[q]]
BY DEF Found, matches, inWindow

-----------------------------------------------------------------------------
(* A quiet list is exact *)

\* What is known of the rows and the pages stays true while every receipt that
\* the list is about, unless it is on its way, is as it was.
LEMMA NewsStays ==
  ASSUME ExactInv, NothingMissing, query # NoQuery, UNCHANGED <<query, feed>>, QueueIsCurrent',
         \A id \in Ids : matches(query, id) =>
           \/ stream'.tailed /\ id \in IdsOf(queue)' \cup IdsOf(wire)'
           \/ stored'[id] = stored[id] /\ ~(stream.tailed /\ id \in IdsOf(queue) \cup IdsOf(wire)),
         \/ UNCHANGED first
         \/ first'.at = "read" =>
              AreCurrent(first.rows, IdsOf(feed.rows))' /\ IsComplete(first, NoTs)',
         \/ UNCHANGED older
         \/ /\ older'.at # "none" /\ ~older'.stale =>
                 older'.before = nextBefore(feed)' /\ feed'.rows # <<>>
            /\ older'.at = "read" /\ ~older'.stale =>
                 AreCurrent(older.rows, IdsOf(feed.rows))' /\ IsComplete(older, older.before)'
  PROVE  NothingMissing'
<1>1. /\ feed.rows \in Seq(Rows) /\ first.rows \in Seq(Rows) /\ older.rows \in Seq(Rows)
      /\ AllMatch(query, feed.rows)
      /\ first.at = "read" => AllMatch(query, first.rows)
      /\ older.at = "read" /\ ~older.stale => AllMatch(query, older.rows)
  BY DEF ExactInv, FeedInv, FeedTypeOK, PagesMatch, OlderIsOurs
<1>2. \A id \in Ids :
        matches(query, id) => Pending(id)' \/ (stored'[id] = stored[id] /\ ~Pending(id))
  BY DEF Pending
<1> DEFINE same(rows, but) == (AllMatch(query, rows) /\ AreCurrent(rows, but) =>
             \A i \in DOMAIN rows :
               rows[i].id \notin but /\ ~Pending(rows[i].id)' => rows[i] = Row(rows[i].id)')
<1>3. ASSUME NEW rows \in Seq(Rows), NEW but PROVE same(rows, but)
  <2> SUFFICES ASSUME AllMatch(query, rows), AreCurrent(rows, but), NEW i \in DOMAIN rows,
                      rows[i].id \notin but, ~Pending(rows[i].id)'
               PROVE  rows[i] = Row(rows[i].id)'
    OBVIOUS
  <2>1. rows[i].id \in Ids /\ matches(query, rows[i].id)
    BY ListRows, RowTimes DEF AllMatch
  <2>2. stored'[rows[i].id] = stored[rows[i].id] /\ ~Pending(rows[i].id)
    BY <1>2, <2>1
  <2> QED BY <2>2 DEF AreCurrent, Row
<1>4. AreCurrent(feed.rows, {})'
  <2>1. same(feed.rows, {}) /\ AreCurrent(feed.rows, {})
    BY <1>1, <1>3 DEF NothingMissing
  <2> QED BY <1>1, <2>1 DEF AreCurrent
<1>5. feed'.loaded => ListIsComplete'
  <2> SUFFICES ASSUME ListIsComplete PROVE ListIsComplete'
    BY DEF NothingMissing
  <2>1. nextBefore(feed)' = nextBefore(feed)
    BY DEF nextBefore
  <2> QED BY <1>2, <2>1 DEF ListIsComplete, ListReaches, Accounted, matches, inWindow, IdsOf
<1> DEFINE whole(r, before) == (IsComplete(r, before) =>
             \A id \in Ids :
               stored'[id] # "absent" /\ matches(query, id) /\ (before # NoTs => TsOf[id] < before)
                 => id \in IdsOf(feed.rows) \/ Pending(id)' \/ id \in IdsOf(r.rows) \/ LiesBelow(r, id))
<1>6. ASSUME NEW r, NEW before PROVE whole(r, before)
  BY <1>2 DEF IsComplete, Accounted
<1>7. first'.at = "read" => AreCurrent(first.rows, IdsOf(feed.rows))' /\ IsComplete(first, NoTs)'
  <2> SUFFICES ASSUME UNCHANGED first, first.at = "read"
               PROVE  AreCurrent(first.rows, IdsOf(feed.rows))' /\ IsComplete(first, NoTs)'
    OBVIOUS
  <2>1. AreCurrent(first.rows, IdsOf(feed.rows)) /\ IsComplete(first, NoTs)
    BY DEF NothingMissing
  <2>2. same(first.rows, IdsOf(feed.rows)) /\ whole(first, NoTs)
    BY <1>1, <1>3, <1>6
  <2>3. AreCurrent(first.rows, IdsOf(feed.rows))'
    <3>1. \A i \in DOMAIN first.rows :
            first.rows[i].id \notin IdsOf(feed.rows) /\ ~Pending(first.rows[i].id)'
              => first.rows[i] = Row(first.rows[i].id)'
      BY <1>1, <2>1, <2>2
    <3> QED BY <3>1 DEF AreCurrent, IdsOf
  <2>4. IsComplete(first, NoTs)'
    BY <2>1, <2>2 DEF IsComplete, Accounted, matches, inWindow, LiesBelow, IdsOf
  <2> QED BY <2>3, <2>4
<1>8. /\ older'.at # "none" /\ ~older'.stale =>
           older'.before = nextBefore(feed)' /\ feed'.rows # <<>>
      /\ older'.at = "read" /\ ~older'.stale =>
           AreCurrent(older.rows, IdsOf(feed.rows))' /\ IsComplete(older, older.before)'
  <2> SUFFICES ASSUME UNCHANGED older
               PROVE  /\ older.at # "none" /\ ~older.stale =>
                           older.before = nextBefore(feed) /\ feed.rows # <<>>
                      /\ older.at = "read" /\ ~older.stale =>
                           AreCurrent(older.rows, IdsOf(feed.rows))'
                             /\ IsComplete(older, older.before)'
    BY DEF nextBefore
  <2>1. /\ older.at # "none" /\ ~older.stale => older.before = nextBefore(feed) /\ feed.rows # <<>>
        /\ older.at = "read" /\ ~older.stale =>
             AreCurrent(older.rows, IdsOf(feed.rows)) /\ IsComplete(older, older.before)
    BY DEF NothingMissing
  <2>2. same(older.rows, IdsOf(feed.rows)) /\ whole(older, older.before)
    BY <1>1, <1>3, <1>6
  <2>3. ASSUME older.at = "read", ~older.stale
        PROVE  AreCurrent(older.rows, IdsOf(feed.rows))' /\ IsComplete(older, older.before)'
    <3>1. AreCurrent(older.rows, IdsOf(feed.rows))'
      <4>1. \A i \in DOMAIN older.rows :
              older.rows[i].id \notin IdsOf(feed.rows) /\ ~Pending(older.rows[i].id)'
                => older.rows[i] = Row(older.rows[i].id)'
        BY <1>1, <2>1, <2>2, <2>3
      <4> QED BY <4>1 DEF AreCurrent, IdsOf
    <3>2. IsComplete(older, older.before)'
      BY <2>1, <2>2, <2>3 DEF IsComplete, Accounted, matches, inWindow, LiesBelow, IdsOf
    <3> QED BY <3>1, <3>2
  <2> QED BY <2>1, <2>3
<1> HIDE DEF same, whole
<1> QED BY <1>4, <1>5, <1>7, <1>8 DEF NothingMissing

\* The same of the queue.
LEMMA QueueStaysCurrent ==
  ASSUME FeedTypeOK, QueueIsCurrent, UNCHANGED <<query, queue>>, stream'.tailed = stream.tailed,
         \A id \in Ids : matches(query, id) =>
           id \in IdsOf(wire)' \/ (stored'[id] = stored[id] /\ id \notin IdsOf(wire))
  PROVE  QueueIsCurrent'
<1> SUFFICES ASSUME stream.tailed, NEW id \in IdsOf(queue), id \notin IdsOf(wire)', matches(query, id)
             PROVE  Latest(queue, id) = Row(id)'
  BY DEF QueueIsCurrent, matches, inWindow, Latest, IdsOf
<1>1. id \in Ids
  BY ListRows DEF FeedTypeOK
<1>2. Latest(queue, id) = Row(id) /\ stored'[id] = stored[id]
  BY <1>1 DEF QueueIsCurrent
<1> QED BY <1>2 DEF Row

\* ExactInv apart from what is invariant by itself.
ListSound ==
  /\ StreamOpen /\ OlderIsOurs /\ FailureIsNoted /\ WireIsCurrent
  /\ query # NoQuery /\ holes = {} => NothingMissing

\* One more event on the wire.
LEMMA EventOnWire ==
  ASSUME FeedTypeOK, NEW e \in Rows \cup Notices, wire' = Append(wire, e)
  PROVE  /\ IdsOf(wire)' = IdsOf(wire) \cup {e.id}
         /\ e.id = NoId /\ WireIsCurrent /\ UNCHANGED stored
              /\ ("outrun" \in holes => "outrun" \in holes') => WireIsCurrent'
<1> DEFINE n == Len(wire) + 1
           w == Append(wire, e)
<1>1. /\ Len(wire) \in Nat /\ DOMAIN wire = 1 .. Len(wire) /\ DOMAIN w = 1 .. n
      /\ \A i \in DOMAIN wire : i \in DOMAIN w /\ w[i] = wire[i]
      /\ n \in DOMAIN w /\ w[n] = e
      /\ \A i \in DOMAIN w : i \in DOMAIN wire \/ i = n
  <2>1. wire \in Seq(Rows \cup Notices)
    BY DEF FeedTypeOK
  <2> QED BY <2>1, WireGrows
<1>2. wire' = w
  OBVIOUS
<1> HIDE DEF w, n
<1>3. IdsOf(wire)' = IdsOf(wire) \cup {e.id}
  BY <1>1, <1>2 DEF IdsOf
<1>4. ASSUME e.id = NoId, WireIsCurrent, UNCHANGED stored, "outrun" \in holes => "outrun" \in holes'
      PROVE  WireIsCurrent'
  <2> SUFFICES ASSUME "outrun" \notin holes', NEW i \in DOMAIN w, w[i].id # NoId,
                      \A j \in DOMAIN w : w[j].id = w[i].id => j <= i
               PROVE  w[i] = [id |-> w[i].id, state |-> stored'[w[i].id]]
    BY <1>2 DEF WireIsCurrent, Row
  <2>1. i \in DOMAIN wire /\ w[i] = wire[i]
    BY <1>1, <1>4
  <2>2. \A j \in DOMAIN wire : wire[j].id = wire[i].id => j <= i
    BY <1>1, <2>1
  <2>3. wire[i] = Row(wire[i].id)
    BY <1>4, <2>1, <2>2 DEF WireIsCurrent
  <2> QED BY <1>4, <2>1, <2>3 DEF Row
<1> QED BY <1>3, <1>4

\* Steps that bring no news: of the connection, of the reader's hold, and those
\* that put an older page aside or ask for one.
LEMMA QuietStepsKeep ==
  ASSUME ExactInv,
         \/ StreamReady \/ StreamThins \/ subscribe \/ freeze \/ resume
         \/ olderFailed \/ loadOlder \/ UNCHANGED feedVars
  PROVE  ListSound'
<1>1. /\ FeedTypeOK /\ ListSound /\ PagesMatch
      /\ ListShape /\ FirstShape /\ OlderShape /\ StreamShape
  BY ShapesMakeTypes DEF ExactInv, FeedInv, ListSound
<1>2. /\ UNCHANGED <<stored, query, feed, first, queue, holes>>
      /\ \/ wire' = wire
         \/ stream.ready /\ \E what \in {"sampling", "unsampled"} : wire' = Append(wire, Notice(what))
      /\ \/ stream' = stream
         \/ stream.started /\ stream' = [stream EXCEPT !.ready = TRUE]
         \/ stream' = [stream EXCEPT !.started = TRUE]
         \/ stream' = [stream EXCEPT !.thinned = ~@]
      /\ older' = older \/ older' = NoOlder \/ loadOlder
  BY DEF StreamReady, StreamThins, subscribe, freeze, resume, olderFailed, loadOlder, feedVars,
         pageVars, streamVars
<1>3. /\ stream'.tailed = stream.tailed /\ (stream'.ready => stream'.started)
      /\ stream.ready => stream'.ready
  BY <1>1, <1>2 DEF ListSound, StreamOpen, StreamShape, Streams
<1>4. WireIsCurrent' /\ \A id \in Ids : id \in IdsOf(wire)' <=> id \in IdsOf(wire)
  <2>1. CASE wire' = wire
    BY <1>1, <1>2, <2>1 DEF ListSound, WireIsCurrent, Row, IdsOf
  <2>2. ASSUME NEW what \in {"sampling", "unsampled"}, wire' = Append(wire, Notice(what))
        PROVE  WireIsCurrent' /\ \A id \in Ids : id \in IdsOf(wire)' <=> id \in IdsOf(wire)
    <3>1. Notice(what) \in Rows \cup Notices /\ Notice(what).id = NoId
      BY NoticesAreEvents
    <3>2. NoId \notin Ids
      BY FeedAssumptions
    <3> QED BY <1>1, <1>2, <2>2, <3>1, <3>2, EventOnWire DEF ListSound
  <2> QED BY <1>2, <2>1, <2>2
<1>5. StreamOpen'
  <2>1. wire' # <<>> => stream.ready
    BY <1>1, <1>2 DEF ListSound, StreamOpen
  <2> QED BY <1>3, <2>1 DEF StreamOpen
<1>6. FailureIsNoted'
  BY <1>1, <1>2 DEF ListSound, FailureIsNoted
<1>7. /\ older' = older \/ older'.at = "none" \/ loadOlder
      /\ loadOlder =>
           /\ older'.at = "sent" /\ older'.q = query /\ older'.before = nextBefore(feed)
           /\ feed.loaded /\ feed.rows # <<>>
  <2>1. older' = older \/ older'.at = "none" \/ loadOlder
    BY <1>2 DEF NoOlder
  <2>2. ASSUME loadOlder
        PROVE  /\ older'.at = "sent" /\ older'.q = query /\ older'.before = nextBefore(feed)
               /\ feed.loaded /\ visible # <<>>
    <3>1. older' = [at |-> "sent", q |-> query, stale |-> FALSE, before |-> nextBefore(feed),
                    rows |-> <<>>, continueBefore |-> NoTs]
      BY <2>2 DEF loadOlder, NoOlder
    <3> QED BY <2>2, <3>1 DEF loadOlder, NearEnd
  <2>3. visible # <<>> => feed.rows # <<>>
    <3> SUFFICES ASSUME visible # <<>>, feed.rows = <<>> PROVE FALSE
      OBVIOUS
    <3>1. visible = Filtered(<<>>, {id \in Ids : TsOf[id] <= frozenTop})
      BY DEF visible, Held
    <3>2. visible \in Seq(Rows) /\ Range(visible) \subseteq Range(<<>>)
      BY <3>1, NoRows, FilterKeeps
    <3>3. visible[1] \in Range(visible)
      BY <3>2, ListRows
    <3>4. Range(<<>>) = {}
      BY DEF Range
    <3> QED BY <3>2, <3>3, <3>4
  <2> QED BY <2>1, <2>2, <2>3
<1>8. OlderIsOurs'
  BY <1>1, <1>2, <1>7 DEF ListSound, OlderIsOurs
<1>9. query' # NoQuery /\ holes' = {} => NothingMissing'
  <2> SUFFICES ASSUME query # NoQuery, NothingMissing PROVE NothingMissing'
    BY <1>1, <1>2 DEF ListSound
  <2>1. QueueIsCurrent'
    BY <1>1, <1>2, <1>3, <1>4, QueueStaysCurrent DEF NothingMissing
  <2>2. \A id \in Ids :
          \/ stream'.tailed /\ id \in IdsOf(queue)' \cup IdsOf(wire)'
          \/ stored'[id] = stored[id] /\ ~(stream.tailed /\ id \in IdsOf(queue) \cup IdsOf(wire))
    BY <1>2, <1>3, <1>4 DEF IdsOf
  <2>3. nextBefore(feed)' = nextBefore(feed)
    BY <1>2 DEF nextBefore
  <2> QED BY <1>2, <1>7, <2>1, <2>2, <2>3, NewsStays
<1> QED BY <1>4, <1>5, <1>6, <1>8, <1>9 DEF ListSound

\* The server's answer to the request for the first page.
LEMMA FirstReadSounds ==
  ASSUME ExactInv, FirstRead
  PROVE  ListSound'
<1>1. /\ FeedTypeOK /\ ListSound /\ PagesMatch /\ LoadsOnce
      /\ feed \in Feeds /\ first \in FirstRequests /\ wire \in Seq(Rows \cup Notices)
      /\ queue \in Seq(Rows) /\ query \in Queries \cup {NoQuery}
  BY ShapesMakeTypes DEF ExactInv, FeedInv, ListSound, ListShape, FirstShape, StreamShape, PageShape
<1>2. /\ UNCHANGED <<stored, query, feed, older, stream, wire, queue>> /\ first.at = "sent"
  BY DEF FirstRead, pageVars, streamVars
<1>3. query \in Queries /\ BeforeOf[query] \in Nat
  BY <1>1, <1>2, QueryTypes DEF PagesMatch
<1> DEFINE before == BeforeOf[query]
<1>4. \/ first'.at = "failed"
      \/ /\ first'.at = "read" /\ Truthful(first'.rows)
         /\ \A id \in Found(query, before) \cap Selects[FilterOf[query]] :
              id \in IdsOf(first'.rows) \/ LiesBelow(first', id)
  <2>1. CASE first' \in Answers(first, query, before)
    <3>1. first' = [first EXCEPT !.at = "read", !.rows = ServerPage(query, before),
                                 !.continueBefore = NoTs]
      BY <2>1 DEF Answers
    <3>2. /\ first'.at = "read" /\ first'.rows = ServerPage(query, before)
          /\ first'.continueBefore = NoTs
      BY <1>1, <3>1 DEF FirstRequests
    <3> QED BY <1>1, <1>3, <3>2, AnswersLeaveOlder
  <2>2. CASE first' \in Stops(first, query, before)
    <3>1. PICK n \in CutsShort(query, before) :
            first' = [first EXCEPT !.at = "read", !.rows = ReadUpTo(query, before, n).rows,
                                   !.continueBefore = ReadUpTo(query, before, n).continueBefore]
      BY <2>2 DEF Stops
    <3>2. /\ first'.at = "read" /\ first'.rows = ReadUpTo(query, before, n).rows
          /\ first'.continueBefore = ReadUpTo(query, before, n).continueBefore
      BY <1>1, <3>1 DEF FirstRequests
    <3> QED BY <1>1, <1>3, <3>2, AnswersLeaveOlder
  <2>3. CASE first' = [first EXCEPT !.at = "failed"]
    BY <1>1, <2>3 DEF FirstRequests
  <2> QED BY <2>1, <2>2, <2>3 DEF FirstRead
<1>5. /\ first'.at = "failed" => holes' = holes \cup {"failed"}
      /\ first'.at = "read" =>
           \/ wire = <<>> /\ queue = <<>> /\ feed.rows = <<>> /\ holes' = holes \ Misses
           \/ holes' = holes
  <2>1. CASE first'.at = "failed"
    BY <2>1 DEF FirstRead
  <2>2. CASE first'.at = "read"
    <3>1. wire \o queue \o feed.rows = <<>> => wire = <<>> /\ queue = <<>> /\ feed.rows = <<>>
      <4>1. /\ wire \in Seq(Rows \cup Notices) /\ queue \in Seq(Rows \cup Notices)
            /\ feed.rows \in Seq(Rows \cup Notices)
        <5>1. \A s \in Seq(Rows) : s \in Seq(Rows \cup Notices)
          BY LenProperties, ElementOfSeq, IsASeq
        <5> QED BY <1>1, <5>1 DEF Feeds
      <4> QED BY <4>1, ConcatProperties, ConcatEqualIffEmpty
    <3>2. holes' = IF wire \o queue \o feed.rows = <<>> THEN holes \ Misses ELSE holes
      BY <2>2 DEF FirstRead
    <3> QED BY <2>2, <3>1, <3>2
  <2> QED BY <1>4, <2>1, <2>2
<1>6. StreamOpen' /\ OlderIsOurs' /\ FailureIsNoted'
  BY <1>1, <1>2, <1>5 DEF ListSound, StreamOpen, OlderIsOurs, FailureIsNoted
<1>7. WireIsCurrent'
  <2>1. CASE wire = <<>>
    BY <1>2, <2>1 DEF WireIsCurrent
  <2>2. CASE "outrun" \in holes => "outrun" \in holes'
    BY <1>1, <1>2, <2>2 DEF ListSound, WireIsCurrent, Row
  <2> QED BY <1>4, <1>5, <2>1, <2>2
<1>8. ASSUME query' # NoQuery, holes' = {} PROVE NothingMissing'
  <2>1. /\ first'.at = "read" /\ Truthful(first'.rows)
        /\ \A id \in Found(query, before) \cap Selects[FilterOf[query]] :
             id \in IdsOf(first'.rows) \/ LiesBelow(first', id)
    BY <1>4, <1>5, <1>8
  <2> HIDE DEF before
  <2>2. AreCurrent(first.rows, IdsOf(feed.rows))'
    BY <1>2, <2>1 DEF AreCurrent, Truthful, Row
  <2>3. IsComplete(first, NoTs)'
    <3> SUFFICES ASSUME NEW id \in Ids, stored[id] # "absent", matches(query, id)
                 PROVE  id \in IdsOf(first'.rows) \/ LiesBelow(first', id)
      BY <1>2 DEF IsComplete, matches, inWindow, Accounted, LiesBelow, IdsOf
    <3>1. id \in Found(query, before) \cap Selects[FilterOf[query]]
      BY <1>3, MatchesAreFound DEF before
    <3> QED BY <2>1, <3>1
  <2>4. ~feed.loaded
    BY <1>1, <1>2 DEF LoadsOnce
  <2>5. CASE queue = <<>> /\ feed.rows = <<>>
    <3>1. QueueIsCurrent' /\ AreCurrent(feed.rows, {})'
      BY <1>2, <2>5 DEF QueueIsCurrent, AreCurrent, IdsOf
    <3>2. older'.at = "none" \/ older'.stale
      BY <1>1, <1>2, <2>4 DEF ListSound, OlderIsOurs
    <3> QED BY <1>2, <2>2, <2>3, <2>4, <3>1, <3>2 DEF NothingMissing
  <2>6. CASE holes = {}
    <3>1. NothingMissing
      BY <1>1, <1>2, <1>8, <2>6 DEF ListSound
    <3>2. QueueIsCurrent'
      BY <1>2, <3>1 DEF NothingMissing, QueueIsCurrent, matches, inWindow, Latest, Row, IdsOf
    <3> QED BY <1>2, <1>8, <2>2, <2>3, <3>1, <3>2, NewsStays DEF IdsOf
  <2> QED BY <1>5, <1>8, <2>1, <2>5, <2>6
<1> QED BY <1>6, <1>7, <1>8 DEF ListSound

LEMMA OlderReadSounds ==
  ASSUME ExactInv, OlderRead
  PROVE  ListSound'
<1>1. /\ FeedTypeOK /\ ListSound /\ PagesMatch /\ older \in OlderRequests
      /\ query \in Queries \cup {NoQuery}
  BY ShapesMakeTypes DEF ExactInv, FeedInv, ListSound, OlderShape, PageShape
<1>2. UNCHANGED <<stored, query, feed, first, stream, wire, queue, holes>> /\ older.at = "sent"
  BY DEF OlderRead, pageVars, streamVars
<1>3. older.q \in Queries /\ older.before \in Nat /\ older.before # NoTs
  BY <1>1, <1>2, FeedAssumptions DEF PagesMatch, OlderRequests
<1>4. /\ older'.stale = older.stale /\ older'.q = older.q /\ older'.before = older.before
      /\ \/ older'.at = "failed"
         \/ /\ older'.at = "read" /\ Truthful(older'.rows)
            /\ \A id \in Found(older.q, older.before) \cap Selects[FilterOf[older.q]] :
                 id \in IdsOf(older'.rows) \/ LiesBelow(older', id)
  <2>1. CASE older' \in Answers(older, older.q, older.before)
    <3>1. older' = [older EXCEPT !.at = "read", !.rows = ServerPage(older.q, older.before),
                                 !.continueBefore = NoTs]
      BY <2>1 DEF Answers
    <3>2. /\ older'.at = "read" /\ older'.rows = ServerPage(older.q, older.before)
          /\ older'.continueBefore = NoTs
          /\ older'.stale = older.stale /\ older'.q = older.q /\ older'.before = older.before
      BY <1>1, <3>1 DEF OlderRequests
    <3> QED BY <1>1, <1>3, <3>2, AnswersLeaveOlder
  <2>2. CASE older' \in Stops(older, older.q, older.before)
    <3>1. PICK n \in CutsShort(older.q, older.before) :
            older' = [older EXCEPT !.at = "read", !.rows = ReadUpTo(older.q, older.before, n).rows,
                        !.continueBefore = ReadUpTo(older.q, older.before, n).continueBefore]
      BY <2>2 DEF Stops
    <3>2. /\ older'.at = "read" /\ older'.rows = ReadUpTo(older.q, older.before, n).rows
          /\ older'.continueBefore = ReadUpTo(older.q, older.before, n).continueBefore
          /\ older'.stale = older.stale /\ older'.q = older.q /\ older'.before = older.before
      BY <1>1, <3>1 DEF OlderRequests
    <3> QED BY <1>1, <1>3, <3>2, AnswersLeaveOlder
  <2>3. CASE older' = [older EXCEPT !.at = "failed"]
    BY <1>1, <2>3 DEF OlderRequests
  <2> QED BY <2>1, <2>2, <2>3 DEF OlderRead
<1>5. StreamOpen' /\ OlderIsOurs' /\ FailureIsNoted' /\ WireIsCurrent'
  BY <1>1, <1>2, <1>4 DEF ListSound, StreamOpen, OlderIsOurs, FailureIsNoted, WireIsCurrent, Row
<1>6. ASSUME query' # NoQuery, holes' = {} PROVE NothingMissing'
  <2>1. NothingMissing
    BY <1>1, <1>2, <1>6 DEF ListSound
  <2>2. older'.at # "none" /\ ~older'.stale => older'.before = nextBefore(feed)' /\ feed'.rows # <<>>
    BY <1>2, <1>4, <2>1 DEF NothingMissing, nextBefore
  <2>3. ASSUME older'.at = "read", ~older'.stale
        PROVE  AreCurrent(older.rows, IdsOf(feed.rows))' /\ IsComplete(older, older.before)'
    <3>1. AreCurrent(older.rows, IdsOf(feed.rows))'
      BY <1>2, <1>4, <2>3 DEF AreCurrent, Truthful, Row
    <3>2. older.q = query
      BY <1>1, <1>2, <1>4, <2>3 DEF ListSound, OlderIsOurs
    <3>3. IsComplete(older, older.before)'
      <4> SUFFICES ASSUME NEW id \in Ids, stored[id] # "absent", matches(query, id),
                          TsOf[id] < older.before
                   PROVE  id \in IdsOf(older'.rows) \/ LiesBelow(older', id)
        BY <1>2, <1>3, <1>4 DEF IsComplete, matches, inWindow, Accounted, LiesBelow, IdsOf
      <4>1. id \in Found(older.q, older.before) \cap Selects[FilterOf[older.q]]
        BY <1>3, <3>2, MatchesAreFound
      <4> QED BY <1>4, <2>3, <4>1
    <3> QED BY <3>1, <3>3
  <2>4. QueueIsCurrent'
    BY <1>2, <2>1 DEF NothingMissing, QueueIsCurrent, matches, inWindow, Latest, Row, IdsOf
  <2> QED BY <1>2, <1>6, <2>1, <2>2, <2>3, <2>4, NewsStays DEF IdsOf
<1> QED BY <1>5, <1>6 DEF ListSound

\* The connection breaks: its events are gone, and the list says "lost" of itself.
LEMMA BreakSounds ==
  ASSUME ExactInv, StreamBreaks
  PROVE  ListSound'
<1>1. ListSound /\ stream \in Streams
  BY ShapesMakeTypes DEF ExactInv, FeedInv, ListSound, StreamShape
<1>2. /\ UNCHANGED <<query, feed, first, older>> /\ wire' = <<>>
      /\ stream' = [stream EXCEPT !.ready = FALSE, !.thinned = FALSE]
      /\ query # NoQuery => "lost" \in holes'
      /\ holes \subseteq holes'
  BY DEF StreamBreaks, pageVars
<1>3. stream'.ready = FALSE
  BY <1>1, <1>2 DEF Streams
<1>4. StreamOpen' /\ OlderIsOurs' /\ FailureIsNoted' /\ WireIsCurrent'
  BY <1>1, <1>2, <1>3 DEF ListSound, StreamOpen, OlderIsOurs, FailureIsNoted, WireIsCurrent
<1> QED BY <1>2, <1>4 DEF ListSound

\* The list is loaded anew, or left: it has nothing that could be wrong yet, and
\* an older page that was asked for is not one of its own.
LEMMA LoadsSound ==
  ASSUME ExactInv, reload \/ leavePage \/ \E q \in Queries : setFilter(q)
  PROVE  ListSound'
<1>1. /\ FeedInv /\ ListSound /\ stream \in Streams /\ older \in OlderRequests
      /\ query \in Queries \cup {NoQuery} /\ wire \in Seq(Rows \cup Notices)
  BY ShapesMakeTypes DEF ExactInv, FeedInv, ListSound, StreamShape, OlderShape, PageShape
<1>2. PICK q \in Queries \cup {NoQuery} :
        /\ startLoad(q) /\ query' = q /\ UNCHANGED stored
        /\ older' = outdated(older) \/ older' = NoOlder
  <2>1. CASE reload
    BY <1>1, <2>1 DEF reload
  <2>2. CASE leavePage
    BY <2>2 DEF leavePage
  <2>3. CASE \E q \in Queries : setFilter(q)
    BY <2>3 DEF setFilter
  <2> QED BY <2>1, <2>2, <2>3
<1>3. feed' = NoFeed /\ first'.at \in {"none", "sent"}
  BY <1>1, <1>2, LoadsStartEmpty
<1>4. /\ stream' = retail(q) /\ queue' = <<>>
      /\ wire' = IF [stream' EXCEPT !.tailed = stream.tailed] = stream THEN wire ELSE <<>>
      /\ holes' = IF wire' = <<>> THEN {} ELSE holes \cap {"outrun"}
  BY <1>2 DEF startLoad
<1>5. /\ stream'.ready => stream'.started
      /\ wire' # <<>> => stream'.ready
  <2>1. \E s \in Streams : stream' = [s EXCEPT !.tailed = Tails(q)] /\ (s.ready => s.started)
    <3> DEFINE narrow == Tails(q) /\ ~(stream.started /\ stream.query = FilterOf[q])
               widen  == ~Tails(q) /\ stream.tailed /\ stream.query # NoFilters
    <3>1. /\ narrow => stream' = [connected(FilterOf[q]) EXCEPT !.tailed = Tails(q)]
          /\ widen => stream' = [connected(NoFilters) EXCEPT !.tailed = Tails(q)]
          /\ ~narrow /\ ~widen => stream' = [stream EXCEPT !.tailed = Tails(q)]
      <4>1. ~(narrow /\ widen)
        OBVIOUS
      <4> QED BY <1>4, <4>1 DEF retail
    <3>2. narrow => q \in Queries
      BY DEF Tails
    <3>3. CASE narrow
      <4>1. connected(FilterOf[q]) \in Streams /\ connected(FilterOf[q]).ready = FALSE
        BY <3>2, <3>3 DEF connected, Streams
      <4> QED BY <3>1, <3>3, <4>1
    <3>4. CASE widen
      <4>1. connected(NoFilters) \in Streams /\ connected(NoFilters).ready = FALSE
        BY DEF connected, Streams
      <4> QED BY <3>1, <3>4, <4>1
    <3>5. CASE ~narrow /\ ~widen
      BY <1>1, <3>1, <3>5 DEF ListSound, StreamOpen
    <3> QED BY <3>3, <3>4, <3>5
  <2>2. stream'.ready => stream'.started
    BY <2>1, OnlyTailed
  <2>3. ASSUME wire' # <<>> PROVE stream'.ready
    <3>1. [stream' EXCEPT !.tailed = stream.tailed] = stream /\ wire # <<>>
      BY <1>4, <2>3
    <3>2. stream.ready
      BY <1>1, <3>1 DEF ListSound, StreamOpen
    <3>3. stream' \in Streams
      BY <1>1, <1>2, LoadsStartEmpty DEF StreamShape
    <3> QED BY <3>1, <3>2, <3>3, OnlyTailed
  <2> QED BY <2>2, <2>3
<1>6. older'.at = "none" \/ older'.stale
  BY <1>1, <1>2 DEF outdated, OlderRequests, NoOlder
<1>7. StreamOpen' /\ OlderIsOurs' /\ FailureIsNoted'
  BY <1>3, <1>5, <1>6 DEF StreamOpen, OlderIsOurs, FailureIsNoted
<1>8. WireIsCurrent'
  <2>1. CASE wire' = <<>>
    BY <2>1 DEF WireIsCurrent
  <2>2. CASE wire' # <<>>
    <3>1. wire' = wire /\ ("outrun" \in holes => "outrun" \in holes')
      BY <1>4, <2>2
    <3> QED BY <1>1, <1>2, <3>1 DEF ListSound, WireIsCurrent, Row
  <2> QED BY <2>1, <2>2
<1>9. NothingMissing'
  <2>1. feed'.rows = <<>> /\ feed'.loaded = FALSE
    BY <1>3 DEF NoFeed
  <2>2. QueueIsCurrent' /\ AreCurrent(feed.rows, {})'
    BY <1>4, <2>1 DEF QueueIsCurrent, AreCurrent, IdsOf
  <2> QED BY <1>3, <1>6, <2>1, <2>2 DEF NothingMissing
<1> QED BY <1>7, <1>8, <1>9 DEF ListSound

\* The latest copy of a receipt is the last one.
LEMMA LatestIsLast ==
  ASSUME NEW batch \in Seq(Rows)
  PROVE  /\ \A i \in DOMAIN batch :
              (\A j \in DOMAIN batch : batch[j].id = batch[i].id => j <= i)
                => Latest(batch, batch[i].id) = batch[i]
         /\ \A id \in IdsOf(batch) :
              \E i \in DOMAIN batch :
                /\ batch[i].id = id /\ Latest(batch, id) = batch[i]
                /\ \A j \in DOMAIN batch : batch[j].id = id => j <= i
<1>1. DOMAIN batch = 1 .. Len(batch) /\ Len(batch) \in Nat
  BY ListRows
<1> DEFINE at(id) == {i \in DOMAIN batch : batch[i].id = id}
<1>2. ASSUME NEW id \in IdsOf(batch)
      PROVE  Max(at(id)) \in at(id) /\ \A j \in at(id) : Max(at(id)) >= j
  <2>1. at(id) # {}
    BY DEF IdsOf
  <2>2. IsFiniteSet(at(id)) /\ at(id) \subseteq Nat
    <3>1. IsFiniteSet(DOMAIN batch)
      BY <1>1, FS_Interval
    <3> QED BY <1>1, <3>1, FS_Subset
  <2> HIDE DEF at
  <2> QED BY <2>1, <2>2, GreatestIsIn
<1>3. \A id : Latest(batch, id) = batch[Max(at(id))]
  BY DEF Latest
<1>4. ASSUME NEW i \in DOMAIN batch, \A j \in DOMAIN batch : batch[j].id = batch[i].id => j <= i
      PROVE  Latest(batch, batch[i].id) = batch[i]
  <2>1. batch[i].id \in IdsOf(batch) /\ i \in at(batch[i].id)
    BY DEF IdsOf
  <2>a. /\ Max(at(batch[i].id)) \in at(batch[i].id)
        /\ \A j \in at(batch[i].id) : Max(at(batch[i].id)) >= j
    BY <1>2, <2>1
  <2>b. \A j \in at(batch[i].id) : j \in Nat /\ j <= i
    BY <1>1, <1>4
  <2>2. Max(at(batch[i].id)) = i
    <3> HIDE DEF at
    <3> QED BY <2>1, <2>a, <2>b
  <2> QED BY <1>3, <2>2
<1>5. ASSUME NEW id \in IdsOf(batch)
      PROVE  \E i \in DOMAIN batch :
                /\ batch[i].id = id /\ Latest(batch, id) = batch[i]
                /\ \A j \in DOMAIN batch : batch[j].id = id => j <= i
  <2> DEFINE i == Max(at(id))
  <2>1. i \in at(id) /\ \A j \in at(id) : i >= j
    BY <1>2
  <2>2. Latest(batch, id) = batch[i]
    BY <1>3
  <2> HIDE DEF i
  <2>3. i \in DOMAIN batch /\ batch[i].id = id
    BY <2>1
  <2>4. \A j \in DOMAIN batch : batch[j].id = id => j <= i
    BY <1>1, <2>1
  <2> QED BY <2>2, <2>3, <2>4
<1> QED BY <1>4, <1>5

\* One more event, or a filter, leaves the latest copy of a receipt what it was.
LEMMA LatestStays ==
  ASSUME NEW batch \in Seq(Rows)
  PROVE  /\ \A e \in Rows :
              /\ Latest(Append(batch, e), e.id) = e
              /\ \A id \in IdsOf(batch) : id # e.id => Latest(Append(batch, e), id) = Latest(batch, id)
         /\ \A ids : \A id \in IdsOf(batch) \cap ids : Latest(Filtered(batch, ids), id) = Latest(batch, id)
<1>1. DOMAIN batch = 1 .. Len(batch) /\ Len(batch) \in Nat
  BY ListRows
<1>2. ASSUME NEW e \in Rows
      PROVE  /\ Latest(Append(batch, e), e.id) = e
             /\ \A id \in IdsOf(batch) :
                  id # e.id => Latest(Append(batch, e), id) = Latest(batch, id)
  <2> DEFINE n == Len(batch) + 1
             more == Append(batch, e)
  <2>1. /\ more \in Seq(Rows) /\ DOMAIN more = 1 .. n
        /\ \A i \in DOMAIN batch : i \in DOMAIN more /\ more[i] = batch[i]
        /\ n \in DOMAIN more /\ more[n] = e
        /\ \A i \in DOMAIN more : i \in DOMAIN batch \/ i = n
    BY WireGrows
  <2> HIDE DEF more
  <2>2. \A j \in DOMAIN more : j <= n
    BY <1>1, <2>1
  <2> HIDE DEF n
  <2>3. Latest(more, e.id) = e
    BY <2>1, <2>2, LatestIsLast
  <2>4. ASSUME NEW id \in IdsOf(batch), id # e.id PROVE Latest(more, id) = Latest(batch, id)
    <3>1. PICK i \in DOMAIN batch :
            /\ batch[i].id = id /\ Latest(batch, id) = batch[i]
            /\ \A j \in DOMAIN batch : batch[j].id = id => j <= i
      BY LatestIsLast
    <3>2. i \in DOMAIN more /\ more[i] = batch[i]
      BY <2>1
    <3>3. \A j \in DOMAIN more : more[j].id = more[i].id => j <= i
      BY <2>1, <2>4, <3>1, <3>2
    <3> QED BY <2>1, <3>1, <3>2, <3>3, LatestIsLast
  <2> QED BY <2>3, <2>4 DEF more
<1>3. ASSUME NEW ids, NEW id \in IdsOf(batch) \cap ids
      PROVE  Latest(Filtered(batch, ids), id) = Latest(batch, id)
  <2> DEFINE at == {i \in DOMAIN batch : batch[i].id \in ids}
             kept == Filtered(batch, ids)
  <2>1. kept = RowsAt(batch, at)
    BY DEF Filtered
  <2>2. at \in SUBSET DOMAIN batch
    OBVIOUS
  <2>3. PICK i \in DOMAIN batch :
          /\ batch[i].id = id /\ Latest(batch, id) = batch[i]
          /\ \A j \in DOMAIN batch : batch[j].id = id => j <= i
    BY LatestIsLast
  <2>4. i \in at
    BY <2>3
  <2> HIDE DEF at, kept
  <2>5. PICK o \in [1 .. Len(kept) -> at] :
          /\ \A k \in 1 .. Len(kept) : kept[k] = batch[o[k]]
          /\ \A m \in at : \E k \in 1 .. Len(kept) : o[k] = m
          /\ \A j, k \in 1 .. Len(kept) : j < k <=> o[j] < o[k]
    BY <2>1, <2>2, RowsAtKeeps
  <2>6. kept \in Seq(Rows)
    BY FilterKeeps DEF kept
  <2>7. DOMAIN kept = 1 .. Len(kept) /\ Len(kept) \in Nat
    BY <2>6, ListRows
  <2>8. PICK k \in 1 .. Len(kept) : o[k] = i
    BY <2>4, <2>5
  <2>9. kept[k] = batch[i] /\ kept[k].id = id
    BY <2>3, <2>5, <2>8
  <2>10. \A j \in DOMAIN kept : kept[j].id = id => j <= k
    <3> SUFFICES ASSUME NEW j \in 1 .. Len(kept), kept[j].id = id PROVE j <= k
      BY <2>7
    <3>1. o[j] \in DOMAIN batch /\ batch[o[j]].id = id
      BY <2>2, <2>5
    <3>2. o[j] <= o[k]
      BY <2>3, <2>8, <3>1
    <3>3. ~(o[k] < o[j])
      BY <1>1, <2>8, <3>1, <3>2
    <3>4. ~(k < j)
      BY <2>5, <3>3
    <3> QED BY <2>7, <3>4
  <2>11. Latest(kept, kept[k].id) = kept[k]
    BY <2>6, <2>7, <2>9, <2>10, LatestIsLast
  <2> QED BY <2>3, <2>9, <2>11 DEF kept
<1> QED BY <1>2, <1>3

\* An event goes from the wire to the queue.
LEMMA EventSounds ==
  ASSUME ExactInv, StreamEvent
  PROVE  ListSound'
<1>1. /\ FeedTypeOK /\ ListSound /\ stream \in Streams
      /\ wire \in Seq(Rows \cup Notices) /\ queue \in Seq(Rows) /\ feed.rows \in Seq(Rows)
      /\ first.rows \in Seq(Rows) /\ older.rows \in Seq(Rows)
  BY ShapesMakeTypes DEF ExactInv, FeedInv, ListSound, StreamShape, FeedTypeOK
<1> DEFINE e == Head(wire)
<1>2. /\ wire # <<>> /\ wire' = Tail(wire)
      /\ queue' = IF e.id # NoId THEN Append(queue, e) ELSE queue
      /\ UNCHANGED <<stored, query, feed, first, older, holes>>
      /\ \E on : stream' = [stream EXCEPT !.sampling = on]
  BY DEF StreamEvent
<1>3. /\ stream'.tailed = stream.tailed /\ stream'.ready = stream.ready
      /\ stream'.started = stream.started
  BY <1>1, <1>2 DEF Streams
<1>4. /\ e \in Rows \cup Notices /\ e = wire[1] /\ 1 \in DOMAIN wire
      /\ DOMAIN wire = 1 .. Len(wire) /\ Len(wire) \in Nat
      /\ wire' \in Seq(Rows \cup Notices) /\ DOMAIN wire' = 1 .. Len(wire) - 1
      /\ \A i \in DOMAIN wire' : i + 1 \in DOMAIN wire /\ wire'[i] = wire[i + 1]
      /\ \A i \in DOMAIN wire : i = 1 \/ (i - 1 \in DOMAIN wire' /\ wire'[i - 1] = wire[i])
  <2>1. /\ Len(wire) \in Nat /\ Len(wire) # 0 /\ DOMAIN wire = 1 .. Len(wire)
        /\ Tail(wire) \in Seq(Rows \cup Notices) /\ Len(Tail(wire)) = Len(wire) - 1
        /\ \A i \in 1 .. Len(wire) - 1 : Tail(wire)[i] = wire[i + 1]
    BY <1>1, <1>2, LenProperties, EmptySeq, HeadTailProperties
  <2>2. e \in Rows \cup Notices /\ e = wire[1]
    BY <1>1, <1>2, HeadTailProperties
  <2>3. DOMAIN wire' = 1 .. Len(wire) - 1
    BY <1>2, <2>1, LenProperties
  <2>4. \A i \in 1 .. Len(wire) - 1 : i + 1 \in 1 .. Len(wire)
    BY <2>1
  <2>5. \A i \in 1 .. Len(wire) : i = 1 \/ (i - 1 \in 1 .. Len(wire) - 1 /\ (i - 1) + 1 = i)
    BY <2>1
  <2>6. 1 \in 1 .. Len(wire)
    BY <2>1
  <2> QED BY <1>2, <2>1, <2>2, <2>3, <2>4, <2>5, <2>6
<1>5. /\ IdsOf(wire) = IdsOf(wire)' \cup {e.id}
      /\ IdsOf(queue)' = IF e.id # NoId THEN IdsOf(queue) \cup {e.id} ELSE IdsOf(queue)
      /\ e.id # NoId => e \in Rows
      /\ NoId \notin Ids
  <2>1. IdsOf(wire) = IdsOf(wire)' \cup {e.id}
    BY <1>4 DEF IdsOf
  <2>2. NoId \notin Ids /\ (e.id # NoId => e \in Rows)
    BY <1>4, FeedAssumptions DEF Notices
  <2>3. e.id # NoId => IdsOf(queue)' = IdsOf(queue) \cup {e.id}
    <3> SUFFICES ASSUME e.id # NoId PROVE IdsOf(Append(queue, e)) = IdsOf(queue) \cup {e.id}
      BY <1>2 DEF IdsOf
    <3> DEFINE more == Append(queue, e)
    <3>1. e \in Rows
      BY <2>2
    <3> HIDE DEF e
    <3>2. /\ \A i \in DOMAIN queue : i \in DOMAIN more /\ more[i] = queue[i]
          /\ Len(queue) + 1 \in DOMAIN more /\ more[Len(queue) + 1] = e
          /\ \A i \in DOMAIN more : i \in DOMAIN queue \/ i = Len(queue) + 1
      BY <1>1, <3>1, WireGrows
    <3> HIDE DEF more
    <3>3. IdsOf(more) = IdsOf(queue) \cup {e.id}
      BY <3>2 DEF IdsOf
    <3> QED BY <3>3 DEF more
  <2>4. e.id = NoId => IdsOf(queue)' = IdsOf(queue)
    BY <1>2 DEF IdsOf
  <2> QED BY <2>1, <2>2, <2>3, <2>4
<1>6. \A id \in Ids : id \in IdsOf(queue)' \cup IdsOf(wire)' <=> id \in IdsOf(queue) \cup IdsOf(wire)
  BY <1>5
<1> HIDE DEF e
<1>7. /\ StreamOpen' /\ OlderIsOurs' /\ FailureIsNoted'
  BY <1>1, <1>2, <1>3 DEF ListSound, StreamOpen, OlderIsOurs, FailureIsNoted
<1>8. WireIsCurrent'
  <2> SUFFICES ASSUME "outrun" \notin holes, NEW i \in DOMAIN wire', wire'[i].id # NoId,
                      \A j \in DOMAIN wire' : wire'[j].id = wire'[i].id => j <= i
               PROVE  wire'[i] = Row(wire'[i].id)
    BY <1>2 DEF WireIsCurrent, Row
  <2>1. i + 1 \in DOMAIN wire /\ wire[i + 1] = wire'[i] /\ i \in Nat /\ i >= 1
    BY <1>4
  <2>2. \A j \in DOMAIN wire : wire[j].id = wire[i + 1].id => j <= i + 1
    <3> SUFFICES ASSUME NEW j \in DOMAIN wire, wire[j].id = wire[i + 1].id PROVE j <= i + 1
      OBVIOUS
    <3>1. CASE j = 1
      BY <2>1, <3>1
    <3>2. CASE j # 1
      <4>1. j - 1 \in DOMAIN wire' /\ wire'[j - 1].id = wire'[i].id
        BY <1>4, <2>1, <3>2
      <4>2. j - 1 <= i /\ j \in Nat
        BY <1>4, <4>1
      <4> QED BY <2>1, <4>2
    <3> QED BY <3>1, <3>2
  <2> QED BY <1>1, <2>1, <2>2 DEF ListSound, WireIsCurrent
<1>9. ASSUME query' # NoQuery, holes' = {} PROVE NothingMissing'
  <2>1. NothingMissing
    BY <1>1, <1>2, <1>9 DEF ListSound
  <2>2. QueueIsCurrent'
    <3> SUFFICES ASSUME stream.tailed, NEW id \in IdsOf(queue)' \ IdsOf(wire)', matches(query, id)
                 PROVE  Latest(queue', id) = Row(id)
      BY <1>2, <1>3 DEF QueueIsCurrent, matches, inWindow, Row, Latest
    <3>1. CASE id = e.id
      <4>1. e.id # NoId
        <5>1. id \in Ids
          BY <1>1, <1>5, <3>1, ListRows, RowTimes
        <5> QED BY <1>5, <3>1, <5>1
      <4>2. \A j \in DOMAIN wire : wire[j].id = wire[1].id => j <= 1
        <5> SUFFICES ASSUME NEW j \in DOMAIN wire, j # 1, wire[j].id = id PROVE FALSE
          BY <1>4, <3>1
        <5> QED BY <1>4 DEF IdsOf
      <4>3. e = Row(id)
        BY <1>1, <1>2, <1>4, <1>9, <3>1, <4>1, <4>2 DEF ListSound, WireIsCurrent
      <4>4. Latest(queue', id) = e
        BY <1>1, <1>2, <1>5, <3>1, <4>1, LatestStays
      <4> QED BY <4>3, <4>4
    <3>2. CASE id # e.id
      <4>1. id \in IdsOf(queue) \ IdsOf(wire)
        BY <1>5, <3>2
      <4>2. Latest(queue, id) = Row(id)
        BY <2>1, <4>1 DEF NothingMissing, QueueIsCurrent
      <4>3. Latest(queue', id) = Latest(queue, id)
        BY <1>1, <1>2, <1>5, <3>2, <4>1, LatestStays
      <4> QED BY <4>2, <4>3
    <3> QED BY <3>1, <3>2
  <2>3. \A id \in Ids :
          \/ stream'.tailed /\ id \in IdsOf(queue)' \cup IdsOf(wire)'
          \/ stored'[id] = stored[id] /\ ~(stream.tailed /\ id \in IdsOf(queue) \cup IdsOf(wire))
    BY <1>2, <1>3, <1>6
  <2> QED BY <1>2, <1>9, <2>1, <2>2, <2>3, NewsStays
<1> QED BY <1>7, <1>8, <1>9 DEF ListSound

\* A receipt changes, and the stream tells of it; unless something is noted to
\* be missed, the list is not about it or has the event still to come.
LEMMA ReceiptSounds ==
  ASSUME ExactInv, NEW id \in Ids, ReceiptChanges(id)
  PROVE  ListSound'
<1>1. /\ FeedTypeOK /\ ListSound /\ StreamMatches
      /\ wire \in Seq(Rows \cup Notices) /\ query \in Queries \cup {NoQuery}
  BY ShapesMakeTypes DEF ExactInv, FeedInv, ListSound, StreamShape, PageShape
<1>2. /\ UNCHANGED <<query, feed, first, older, stream, queue>>
      /\ stored' = [stored EXCEPT ![id] =
                      IF @ = "absent" /\ id \in Streamed THEN "open" ELSE "settled"]
      /\ holes \subseteq holes'
  BY DEF ReceiptChanges, pageVars, Missed
<1>3. /\ stored'[id] \in {"open", "settled"}
      /\ \A i \in Ids : i # id => stored'[i] = stored[i]
      /\ NoId \notin Ids
  BY <1>1, <1>2, FeedAssumptions DEF FeedTypeOK
<1> DEFINE e == [id |-> id, state |-> stored'[id]]
           d == Notice("dropped")
<1>4. e \in Rows \cup Notices /\ d \in Rows \cup Notices /\ e.id = id /\ e.state = stored'[id] /\ d.id = NoId
  BY <1>3, NoticesAreEvents DEF Rows
<1>5. id \in IdsOf(wire) => Sends(id)
  <2> SUFFICES ASSUME NEW i \in DOMAIN wire, wire[i].id = id PROVE Sends(id)
    BY DEF IdsOf
  <2>1. wire # <<>>
    OBVIOUS
  <2>2. stream.started /\ stream.ready
    BY <1>1, <2>1 DEF ListSound, StreamOpen
  <2>3. id \in Selects[stream.query]
    BY <1>1, <1>3 DEF StreamMatches
  <2> QED BY <2>2, <2>3 DEF Sends
<1>6. \/ /\ wire' = wire
         /\ id \in IdsOf(wire) => "outrun" \in holes'
         /\ holes' = {} => ~Concerns(id)
      \/ /\ Sends(id) /\ wire' = Append(wire, e)
         /\ holes' = {} => (Concerns(id) => stream.tailed)
      \/ /\ Sends(id) /\ wire' = Append(wire, d)
         /\ id \in IdsOf(wire) => "outrun" \in holes'
         /\ holes' = {} => ~Concerns(id)
  <2>1. CASE /\ wire' = IF Sends(id) THEN Append(wire, e) ELSE wire
             /\ holes' = IF Concerns(id) /\ ~(Sends(id) /\ stream.tailed) THEN holes \cup {"lost"} ELSE holes
    BY <1>5, <2>1
  <2>2. Concerns(id) => \E what : what \in Missed(id, "sampled")
    BY DEF Missed
  <2>3. Concerns(id) => \E what : what \in Missed(id, "dropped")
    BY DEF Missed
  <2>4. CASE holes' = holes \cup Missed(id, "sampled") /\ wire' = wire
    BY <2>2, <2>4 DEF Missed
  <2>5. CASE Sends(id) /\ holes' = holes \cup Missed(id, "dropped") /\ wire' = Append(wire, d)
    BY <2>3, <2>5 DEF Missed
  <2>6. CASE holes' = holes \cup Missed(id, "lost") /\ wire' = wire
    BY <2>6 DEF Missed
  <2> QED BY <2>1, <2>4, <2>5, <2>6 DEF ReceiptChanges
<1>7. /\ wire' = wire \/ (stream.ready /\ \E s \in {d, e} : wire' = Append(wire, s))
  BY <1>6 DEF Sends
<1>8. StreamOpen' /\ OlderIsOurs' /\ FailureIsNoted'
  BY <1>1, <1>2, <1>7 DEF ListSound, StreamOpen, OlderIsOurs, FailureIsNoted
<1>9. wire' = Append(wire, e) \/ wire' = Append(wire, d) =>
        /\ \A i \in DOMAIN wire : i \in DOMAIN wire' /\ wire'[i] = wire[i]
        /\ Len(wire) + 1 \in DOMAIN wire' /\ Len(wire) \in Nat /\ DOMAIN wire = 1 .. Len(wire)
        /\ wire' = Append(wire, e) => wire'[Len(wire) + 1] = e
        /\ wire' = Append(wire, d) => wire'[Len(wire) + 1] = d
        /\ \A i \in DOMAIN wire' : i \in DOMAIN wire \/ i = Len(wire) + 1
  <2> HIDE DEF e, d
  <2> QED BY <1>1, <1>4, WireGrows
<1>10. \A i \in Ids : i \in IdsOf(wire)' <=> i \in IdsOf(wire) \/ (i = id /\ wire' = Append(wire, e))
  <2>1. CASE wire' = wire
    <3>1. wire' # Append(wire, e)
      <4>1. Len(Append(wire, e)) = Len(wire) + 1 /\ Len(wire) \in Nat
        BY <1>1, AppendProperties
      <4> QED BY <2>1, <4>1
    <3> QED BY <2>1, <3>1 DEF IdsOf
  <2>2. CASE wire' = Append(wire, e)
    BY <1>1, <1>4, <2>2, EventOnWire
  <2>3. CASE wire' = Append(wire, d) /\ wire' # Append(wire, e)
    BY <1>1, <1>3, <1>4, <2>3, EventOnWire
  <2> QED BY <1>6, <2>1, <2>2, <2>3
<1> HIDE DEF e, d
<1>11. WireIsCurrent'
  <2> SUFFICES ASSUME "outrun" \notin holes', NEW i \in DOMAIN wire', wire'[i].id # NoId,
                      \A j \in DOMAIN wire' : wire'[j].id = wire'[i].id => j <= i
               PROVE  wire'[i] = [id |-> wire'[i].id, state |-> stored'[wire'[i].id]]
    BY DEF WireIsCurrent, Row
  <2>1. ASSUME i \in DOMAIN wire, wire'[i] = wire[i], wire[i].id # id,
               \A j \in DOMAIN wire : j \in DOMAIN wire' /\ wire'[j] = wire[j]
        PROVE  wire'[i] = [id |-> wire'[i].id, state |-> stored'[wire'[i].id]]
    <3>1. \A j \in DOMAIN wire : wire[j].id = wire[i].id => j <= i
      BY <2>1
    <3>2. wire[i] = Row(wire[i].id)
      BY <1>1, <1>2, <2>1, <3>1 DEF ListSound, WireIsCurrent
    <3>3. wire[i].id \in Ids
      <4>1. wire[i] \in Rows \cup Notices
        BY <1>1, <2>1, LenProperties, ElementOfSeq
      <4> QED BY <2>1, <4>1 DEF Rows, Notices
    <3> QED BY <1>3, <2>1, <3>2, <3>3 DEF Row
  <2>2. CASE wire' = wire
    <3>1. id \notin IdsOf(wire)
      BY <1>4, <1>6, <1>9, <1>10, <2>2
    <3> QED BY <2>1, <2>2, <3>1 DEF IdsOf
  <2>3. CASE wire' = Append(wire, e)
    <3>1. CASE i = Len(wire) + 1
      BY <1>4, <1>9, <2>3, <3>1 DEF e
    <3>2. CASE i \in DOMAIN wire
      <4>1. wire[i].id # id
        <5>1. wire'[Len(wire) + 1].id = id /\ ~(Len(wire) + 1 <= i)
          BY <1>4, <1>9, <2>3, <3>2
        <5> QED BY <1>9, <2>3, <3>2, <5>1
      <4> QED BY <1>9, <2>1, <2>3, <3>2, <4>1
    <3> QED BY <1>9, <2>3, <3>1, <3>2
  <2>4. CASE wire' = Append(wire, d) /\ wire' # Append(wire, e) /\ wire' # wire
    <3>1. id \notin IdsOf(wire)
      BY <1>6, <2>4
    <3>2. i \in DOMAIN wire
      BY <1>4, <1>9, <2>4
    <3> QED BY <1>9, <2>1, <2>4, <3>1, <3>2 DEF IdsOf
  <2> QED BY <1>6, <2>2, <2>3, <2>4
<1>12. ASSUME query' # NoQuery, holes' = {} PROVE NothingMissing'
  <2>1. NothingMissing /\ query # NoQuery
    BY <1>1, <1>2, <1>12 DEF ListSound
  <2>2. matches(query, id) => stream.tailed /\ id \in IdsOf(wire)'
    BY <1>6, <1>10, <1>12, <2>1 DEF Concerns
  <2>3. \A i \in Ids : matches(query, i) =>
          \/ stream.tailed /\ i \in IdsOf(wire)'
          \/ stored'[i] = stored[i] /\ (i \in IdsOf(wire) => i \in IdsOf(wire)')
    BY <1>3, <1>10, <2>2
  <2>4. \A i \in Ids : matches(query, i) =>
          i \in IdsOf(wire)' \/ (stored'[i] = stored[i] /\ i \notin IdsOf(wire))
    BY <2>3
  <2>5. QueueIsCurrent'
    BY <1>1, <1>2, <2>1, <2>4, QueueStaysCurrent DEF NothingMissing
  <2>6. \A i \in Ids : matches(query, i) =>
          \/ stream'.tailed /\ i \in IdsOf(queue)' \cup IdsOf(wire)'
          \/ stored'[i] = stored[i] /\ ~(stream.tailed /\ i \in IdsOf(queue) \cup IdsOf(wire))
    <3>1. IdsOf(queue)' = IdsOf(queue)
      BY <1>2 DEF IdsOf
    <3> SUFFICES ASSUME NEW i \in Ids, matches(query, i)
                 PROVE  \/ stream.tailed /\ i \in IdsOf(queue) \cup IdsOf(wire)'
                        \/ stored'[i] = stored[i] /\ ~(stream.tailed /\ i \in IdsOf(queue) \cup IdsOf(wire))
      BY <1>2, <3>1
    <3>2. CASE i = id
      BY <2>2, <3>2
    <3>3. CASE i # id
      BY <1>3, <1>10, <3>3
    <3> QED BY <3>2, <3>3
  <2> QED BY <1>2, <2>1, <2>5, <2>6, NewsStays
<1> QED BY <1>8, <1>11, <1>12 DEF ListSound

\* Where the next page starts, of a list that ends in a row or has none.
LEMMA NextIsBelow ==
  ASSUME NEW f \in Feeds
  PROVE  /\ nextBefore(f) = NoTs <=> f.continueBefore = NoTs /\ f.rows = <<>>
         /\ f.continueBefore # NoTs => nextBefore(f) = f.continueBefore
         /\ f.continueBefore = NoTs /\ f.rows # <<>> =>
              /\ nextBefore(f) = Ts(Last(f.rows)) + 1
              /\ Last(f.rows) \in Range(f.rows) /\ Last(f.rows) = f.rows[Len(f.rows)]
              /\ Len(f.rows) \in DOMAIN f.rows
         /\ nextBefore(f) \in Nat
<1>1. f.rows \in Seq(Rows) /\ f.continueBefore \in Nat
  BY FeedAssumptions DEF Feeds
<1>2. ASSUME f.rows # <<>>
      PROVE  /\ Last(f.rows) \in Range(f.rows) /\ Ts(Last(f.rows)) \in Nat
             /\ Last(f.rows) = f.rows[Len(f.rows)] /\ Len(f.rows) \in DOMAIN f.rows
  <2>1. Len(f.rows) \in DOMAIN f.rows
    <3>1. Len(f.rows) # 0
      BY <1>1, <1>2, EmptySeq
    <3> QED BY <1>1, <3>1, ListRows
  <2>2. Last(f.rows) = f.rows[Len(f.rows)]
    BY DEF Last
  <2> QED BY <1>1, <2>1, <2>2, ListRows, RowTimes
<1>3. CASE f.continueBefore # NoTs
  BY <1>1, <1>3 DEF nextBefore
<1>4. CASE f.continueBefore = NoTs /\ f.rows = <<>>
  BY <1>4 DEF nextBefore, NoTs
<1>5. CASE f.continueBefore = NoTs /\ f.rows # <<>>
  <2>1. nextBefore(f) = Ts(Last(f.rows)) + 1
    BY <1>5 DEF nextBefore
  <2>2. nextBefore(f) # NoTs /\ nextBefore(f) \in Nat
    BY <1>2, <1>5, <2>1 DEF NoTs
  <2> QED BY <1>2, <1>5, <2>1, <2>2
<1> QED BY <1>3, <1>4, <1>5

\* A page has room for a receipt.
LEMMA PagesHaveRoom == Page \in Nat /\ Page >= 1
<1>1. 1 \in 1 .. MaxTs
  BY FeedAssumptions
<1> DEFINE one == {id \in Ids : TsOf[id] = 1}
<1>2. IsFiniteSet(one)
  BY FeedAssumptions, FS_Subset
<1>3. Cardinality(one) \in Nat /\ Cardinality(one) < Page
  BY <1>1, <1>2, FeedAssumptions, FS_CardinalityType
<1> QED BY <1>3, FeedAssumptions

\* The first page comes in, or does not: the list goes down to where the page
\* does, or to the last row that the stream has put there meanwhile.
LEMMA FirstSounds ==
  ASSUME ExactInv, firstAnswered \/ firstFailed
  PROVE  ListSound'
<1>1. /\ FeedTypeOK /\ ListSound /\ PagesMatch /\ LoadsOnce
      /\ feed \in Feeds /\ first \in FirstRequests /\ Distinct(feed.rows) /\ Distinct(first.rows)
      /\ feed.rows \in Seq(Rows) /\ first.rows \in Seq(Rows) /\ first.continueBefore \in Nat
  BY ShapesMakeTypes, FeedAssumptions
     DEF ExactInv, FeedInv, ListSound, ListShape, FirstShape, Feeds, FirstRequests
<1>2. /\ UNCHANGED <<stored, query, older, stream, wire, queue>>
      /\ first' = NoRequest /\ first.at # "none" /\ holes \subseteq holes'
  BY DEF firstAnswered, firstFailed, pageVars, streamVars
<1>3. first'.at = "none" /\ ~feed.loaded
  BY <1>1, <1>2 DEF NoRequest, LoadsOnce
<1>4. older.at = "none" \/ older.stale
  BY <1>1, <1>3 DEF ListSound, OlderIsOurs
<1>5. StreamOpen' /\ OlderIsOurs' /\ FailureIsNoted'
  BY <1>1, <1>2, <1>3, <1>4 DEF ListSound, StreamOpen, OlderIsOurs, FailureIsNoted
<1>6. WireIsCurrent'
  BY <1>1, <1>2 DEF ListSound, WireIsCurrent, Row
<1>7. ASSUME query' # NoQuery, holes' = {} PROVE NothingMissing'
  <2>1. NothingMissing /\ holes = {}
    BY <1>1, <1>2, <1>7 DEF ListSound
  <2>2. firstAnswered /\ first.at = "read"
    BY <1>1, <2>1 DEF firstAnswered, firstFailed, ListSound, FailureIsNoted
  <2> DEFINE rows == mergeNewer(feed.rows, first.rows)
             end  == Len(first.rows) < Page /\ first.continueBefore = NoTs
  <2>3. feed' = [rows |-> rows, loaded |-> TRUE, reachedEnd |-> end,
                 continueBefore |-> first.continueBefore]
    BY <2>2 DEF firstAnswered
  <2>4. first.continueBefore = NoTs /\ Len(first.rows) = Page =>
          \A r \in Range(feed.rows) : ~(Ts(r) < Ts(Last(first.rows)))
    BY <1>7, <2>2 DEF firstAnswered
  <2>5. /\ rows \in Seq(Rows) /\ IdsOf(rows) = IdsOf(feed.rows) \cup IdsOf(first.rows)
        /\ Range(rows) = Range(feed.rows) \cup {r \in Range(first.rows) : r.id \notin IdsOf(feed.rows)}
    BY <1>1, MergeKeeps
  <2> HIDE DEF rows, end
  <2>6. /\ feed'.rows = rows /\ feed'.reachedEnd = end /\ feed'.continueBefore = first.continueBefore
        /\ feed' \in Feeds
    BY <1>1, <2>3, <2>5 DEF Feeds, FirstRequests, end
  <2>7. \A id : (Pending(id)' <=> Pending(id)) /\ Row(id)' = Row(id)
    BY <1>2 DEF Pending, Row, IdsOf
  <2>8. QueueIsCurrent'
    BY <1>2, <2>1 DEF NothingMissing, QueueIsCurrent, matches, inWindow, Latest, IdsOf, Row
  <2>9. AreCurrent(feed.rows, {})'
    <3> SUFFICES ASSUME NEW i \in DOMAIN rows, ~Pending(rows[i].id)
                 PROVE  rows[i] = Row(rows[i].id)
      BY <1>2, <2>6 DEF AreCurrent, Pending, Row, IdsOf
    <3>1. rows[i] \in Range(rows)
      BY <2>5, ListRows
    <3>2. CASE rows[i] \in Range(feed.rows)
      <4>1. PICK k \in DOMAIN feed.rows : rows[i] = feed.rows[k]
        BY <1>1, <3>2, ListRows
      <4>2. AreCurrent(feed.rows, {})
        BY <2>1 DEF NothingMissing
      <4> QED BY <4>1, <4>2 DEF AreCurrent
    <3>3. CASE rows[i] \in Range(first.rows) /\ rows[i].id \notin IdsOf(feed.rows)
      <4>1. PICK k \in DOMAIN first.rows : rows[i] = first.rows[k]
        BY <1>1, <3>3, ListRows
      <4>2. AreCurrent(first.rows, IdsOf(feed.rows))
        BY <2>1, <2>2 DEF NothingMissing
      <4> QED BY <3>3, <4>1, <4>2 DEF AreCurrent
    <3> QED BY <2>5, <3>1, <3>2, <3>3
  <2>10. ListIsComplete'
    <3>1. Page \in Nat /\ Page >= 1 /\ Len(first.rows) \in Nat
      BY <1>1, PagesHaveRoom, ListRows
    <3>2. ASSUME NEW id \in Ids, stored[id] # "absent", matches(query, id), ListReaches(id)'
          PROVE  Accounted(id)'
      <4>1. IsComplete(first, NoTs)
        BY <2>1, <2>2 DEF NothingMissing
      <4>2. Accounted(id) \/ id \in IdsOf(first.rows) \/ LiesBelow(first, id)
        BY <3>2, <4>1 DEF IsComplete
      <4>3. Accounted(id) \/ id \in IdsOf(first.rows) => Accounted(id)'
        BY <2>5, <2>6, <2>7 DEF Accounted
      <4>4. TsOf[id] \in Nat
        BY FeedAssumptions
      <4>5. feed'.reachedEnd \/ (nextBefore(feed') # NoTs /\ TsOf[id] >= nextBefore(feed'))
        BY <3>2 DEF ListReaches, nextBefore
      <4>6. CASE LiesBelow(first, id)
        <5>1. CASE first.continueBefore # NoTs
          <6>1. ~feed'.reachedEnd /\ nextBefore(feed') = first.continueBefore
            BY <2>6, <5>1, NextIsBelow DEF end
          <6> QED BY <1>1, <4>4, <4>5, <4>6, <5>1, <6>1 DEF LiesBelow
        <5>2. CASE first.continueBefore = NoTs
          <6>1. Len(first.rows) = Page /\ \A i \in DOMAIN first.rows : TsOf[id] <= Ts(first.rows[i])
            BY <4>6, <5>2 DEF LiesBelow
          <6>0. ~end
            BY <3>1, <6>1 DEF end
          <6>2. ~feed'.reachedEnd
            BY <2>6, <6>0
          <6>3. /\ rows # <<>> /\ TsOf[id] >= Ts(Last(rows)) + 1
                /\ Last(rows) \in Range(rows)
            BY <2>6, <4>5, <5>2, <6>2, NextIsBelow
          <6>4. Ts(Last(rows)) \in Nat
            BY <2>5, <6>3, ListRows, RowTimes
          <6>5. Len(first.rows) \in DOMAIN first.rows /\ Last(first.rows) = first.rows[Len(first.rows)]
            BY <1>1, <3>1, <6>1, ListRows DEF Last
          <6>6. TsOf[id] <= Ts(Last(first.rows)) /\ Ts(Last(first.rows)) \in Nat
            BY <1>1, <6>1, <6>5, ListRows, RowTimes
          <6>7. CASE Last(rows) \in Range(feed.rows)
            BY <2>4, <4>4, <5>2, <6>1, <6>3, <6>4, <6>6, <6>7
          <6>8. CASE Last(rows) \in Range(first.rows)
            <7>1. TsOf[id] <= Ts(Last(rows))
              BY <1>1, <6>1, <6>8, ListRows
            <7> QED BY <4>4, <6>3, <6>4, <7>1
          <6> QED BY <2>5, <6>3, <6>7, <6>8
        <5> QED BY <5>1, <5>2
      <4> QED BY <4>2, <4>3, <4>6
    <3>3. nextBefore(feed)' = NoTs => feed'.reachedEnd
      <4> SUFFICES ASSUME nextBefore(feed') = NoTs PROVE feed'.reachedEnd
        BY DEF nextBefore
      <4>0. nextBefore(feed') = NoTs <=> feed'.continueBefore = NoTs /\ feed'.rows = <<>>
        BY <2>6, NextIsBelow
      <4>1. first.continueBefore = NoTs /\ rows = <<>>
        BY <2>6, <4>0
      <4>2. IdsOf(first.rows) = {}
        <5>1. IdsOf(<<>>) = {}
          BY DEF IdsOf
        <5> QED BY <2>5, <4>1, <5>1
      <4>3. Len(first.rows) = 0
        <5> SUFFICES ASSUME Len(first.rows) # 0 PROVE FALSE
          OBVIOUS
        <5>1. 1 \in DOMAIN first.rows
          BY <1>1, <3>1, ListRows
        <5> QED BY <4>2, <5>1 DEF IdsOf
      <4>4. end
        BY <3>1, <4>1, <4>3 DEF end
      <4> QED BY <2>6, <4>4
    <3>4. \A id \in Ids : matches(query, id)' <=> matches(query, id)
      BY <1>2 DEF matches, inWindow
    <3> QED BY <1>2, <3>2, <3>3, <3>4 DEF ListIsComplete
  <2> QED BY <1>2, <1>3, <1>4, <2>8, <2>9, <2>10 DEF NothingMissing
<1> QED BY <1>5, <1>6, <1>7 DEF ListSound

\* An older page comes in: the list goes down to where the page does.
LEMMA OlderSounds ==
  ASSUME ExactInv, olderAnswered
  PROVE  ListSound'
<1>1. /\ FeedTypeOK /\ ListSound /\ PagesMatch /\ LoadsOnce
      /\ feed \in Feeds /\ older \in OlderRequests /\ Distinct(feed.rows) /\ Distinct(older.rows)
      /\ feed.rows \in Seq(Rows) /\ older.rows \in Seq(Rows) /\ older.continueBefore \in Nat
      /\ older.before \in Nat
  BY ShapesMakeTypes, FeedAssumptions
     DEF ExactInv, FeedInv, ListSound, ListShape, OlderShape, Feeds, OlderRequests
<1>2. /\ UNCHANGED <<stored, query, first, stream, wire, queue>>
      /\ older.at = "read" /\ older' = NoOlder /\ holes \subseteq holes'
  BY DEF olderAnswered, streamVars
<1>3. older'.at = "none"
  BY <1>2 DEF NoOlder
<1>4. StreamOpen' /\ OlderIsOurs' /\ FailureIsNoted'
  BY <1>1, <1>2, <1>3 DEF ListSound, StreamOpen, OlderIsOurs, FailureIsNoted
<1>5. WireIsCurrent'
  BY <1>1, <1>2 DEF ListSound, WireIsCurrent, Row
<1>6. ASSUME query' # NoQuery, holes' = {} PROVE NothingMissing'
  <2>1. NothingMissing /\ holes = {} /\ query # NoQuery
    BY <1>1, <1>2, <1>6 DEF ListSound
  <2>2. QueueIsCurrent'
    BY <1>2, <2>1 DEF NothingMissing, QueueIsCurrent, matches, inWindow, Latest, IdsOf, Row
  <2>3. CASE ~ForThisQuery
    <3>1. UNCHANGED feed
      BY <2>3 DEF olderAnswered
    <3>2. \A id \in Ids :
            \/ stream'.tailed /\ id \in IdsOf(queue)' \cup IdsOf(wire)'
            \/ stored'[id] = stored[id] /\ ~(stream.tailed /\ id \in IdsOf(queue) \cup IdsOf(wire))
      BY <1>2 DEF IdsOf
    <3> QED BY <1>2, <1>3, <2>1, <2>2, <3>1, <3>2, NewsStays
  <2>4. CASE ForThisQuery
    <3> DEFINE fresh == notSeen(feed.rows, older.rows)
               ended == older.continueBefore = NoTs /\ (Len(older.rows) < Page \/ fresh = <<>>)
               rows  == feed.rows \o fresh
    <3>1. feed' = [feed EXCEPT !.rows = rows, !.reachedEnd = ended,
                               !.continueBefore = older.continueBefore]
      BY <2>4 DEF olderAnswered
    <3>2. holes' = holes \cup (IF older.stale THEN {"outdated"} ELSE {})
                         \cup (IF ended /\ Len(older.rows) = Page THEN {"allSeen"} ELSE {})
      BY <2>4 DEF olderAnswered
    <3>3. ~older.stale /\ ~(ended /\ Len(older.rows) = Page)
      <4>1. older.stale => "outdated" \in holes'
        BY <3>2
      <4>2. ended /\ Len(older.rows) = Page => "allSeen" \in holes'
        BY <3>2
      <4> QED BY <1>6, <4>1, <4>2
    <3>4. older.stale = FALSE /\ feed.loaded /\ first.at = "none"
      BY <1>1, <1>2, <3>3 DEF ListSound, OlderIsOurs, LoadsOnce, OlderRequests
    <3>5. /\ older.before = nextBefore(feed) /\ feed.rows # <<>> /\ older.before # NoTs
          /\ AreCurrent(older.rows, IdsOf(feed.rows)) /\ IsComplete(older, older.before)
          /\ AreCurrent(feed.rows, {}) /\ ListIsComplete
      BY <1>1, <1>2, <2>1, <3>4 DEF NothingMissing, PagesMatch
    <3>6. /\ fresh \in Seq(Rows)
          /\ IdsOf(fresh) = IdsOf(older.rows) \cap (Ids \ IdsOf(feed.rows))
          /\ Range(fresh) = {r \in Range(older.rows) : r.id \in Ids \ IdsOf(feed.rows)}
      BY <1>1, FilterKeeps DEF notSeen
    <3>7. ended \in BOOLEAN /\ (ended <=> older.continueBefore = NoTs
                                            /\ (Len(older.rows) < Page \/ fresh = <<>>))
      OBVIOUS
    <3> HIDE DEF fresh, ended
    <3>8. /\ rows \in Seq(Rows) /\ Range(rows) = Range(feed.rows) \cup Range(fresh)
          /\ IdsOf(rows) = IdsOf(feed.rows) \cup IdsOf(fresh) /\ Len(rows) = Len(feed.rows) + Len(fresh)
      BY <1>1, <3>6, JoinKeeps
    <3>9. /\ rows # <<>>
          /\ fresh # <<>> => Last(rows) \in Range(fresh)
      <4>1. /\ Len(feed.rows) \in Nat /\ Len(fresh) \in Nat /\ DOMAIN fresh = 1 .. Len(fresh)
            /\ Len(feed.rows) # 0 /\ (fresh # <<>> => Len(fresh) # 0)
        BY <1>1, <3>5, <3>6, ListRows, EmptySeq
      <4>2. Len(rows) # 0
        BY <3>8, <4>1
      <4>3. ASSUME fresh # <<>> PROVE Last(rows) \in Range(fresh)
        <5>1. Last(rows) = rows[Len(feed.rows) + Len(fresh)]
          BY <3>8 DEF Last
        <5>2. /\ Len(feed.rows) + Len(fresh) \in 1 .. Len(feed.rows) + Len(fresh)
              /\ ~(Len(feed.rows) + Len(fresh) <= Len(feed.rows))
              /\ Len(feed.rows) + Len(fresh) - Len(feed.rows) = Len(fresh)
              /\ Len(fresh) \in DOMAIN fresh
          BY <4>1, <4>3
        <5>3. Last(rows) = fresh[Len(fresh)]
          BY <1>1, <3>6, <5>1, <5>2, ConcatProperties
        <5> QED BY <3>6, <5>2, <5>3, ListRows
      <4>4. rows # <<>>
        BY <4>2, EmptySeq
      <4> QED BY <4>3, <4>4
    <3> HIDE DEF rows
    <3>10. /\ feed'.rows = rows /\ feed'.reachedEnd = ended
           /\ feed'.continueBefore = older.continueBefore /\ feed' \in Feeds
      BY <1>1, <3>1, <3>7, <3>8 DEF Feeds, OlderRequests
    <3>11. \A id : (Pending(id)' <=> Pending(id)) /\ Row(id)' = Row(id)
      BY <1>2 DEF Pending, Row, IdsOf
    <3>12. AreCurrent(feed.rows, {})'
      <4> SUFFICES ASSUME NEW i \in DOMAIN rows, ~Pending(rows[i].id)
                   PROVE  rows[i] = Row(rows[i].id)
        BY <1>2, <3>10 DEF AreCurrent, Pending, Row, IdsOf
      <4>1. rows[i] \in Range(rows)
        BY <3>8, ListRows
      <4>2. CASE rows[i] \in Range(feed.rows)
        <5>1. PICK k \in DOMAIN feed.rows : rows[i] = feed.rows[k]
          BY <1>1, <4>2, ListRows
        <5> QED BY <3>5, <5>1 DEF AreCurrent
      <4>3. CASE rows[i] \in Range(fresh)
        <5>1. rows[i] \in Range(older.rows) /\ rows[i].id \notin IdsOf(feed.rows)
          BY <3>6, <4>3
        <5>2. PICK k \in DOMAIN older.rows : rows[i] = older.rows[k]
          BY <1>1, <5>1, ListRows
        <5> QED BY <3>5, <5>1, <5>2 DEF AreCurrent
      <4> QED BY <3>8, <4>1, <4>2, <4>3
    <3>13. ASSUME NEW id \in Ids, stored[id] # "absent", matches(query, id), ListReaches(id)'
           PROVE  Accounted(id)'
      <4>1. TsOf[id] \in Nat
        BY FeedAssumptions
      <4>2. Accounted(id) \/ id \in IdsOf(older.rows) => Accounted(id)'
        <5>1. IdsOf(feed.rows) \cup IdsOf(older.rows) \subseteq IdsOf(rows)
          BY <1>1, <3>6, <3>8, ListRows
        <5> QED BY <3>10, <3>11, <5>1 DEF Accounted
      <4>3. CASE TsOf[id] >= older.before
        <5>1. ListReaches(id)
          BY <3>5, <4>3 DEF ListReaches
        <5> QED BY <3>5, <3>13, <4>2, <5>1 DEF ListIsComplete
      <4>4. CASE TsOf[id] < older.before
        <5>1. Accounted(id) \/ id \in IdsOf(older.rows) \/ LiesBelow(older, id)
          BY <3>5, <3>13, <4>4 DEF IsComplete
        <5>2. feed'.reachedEnd \/ (nextBefore(feed') # NoTs /\ TsOf[id] >= nextBefore(feed'))
          BY <3>13 DEF ListReaches, nextBefore
        <5>3. CASE LiesBelow(older, id)
          <6>1. CASE older.continueBefore # NoTs
            <7>1. ~feed'.reachedEnd /\ nextBefore(feed') = older.continueBefore
              BY <3>7, <3>10, <6>1, NextIsBelow
            <7> QED BY <1>1, <4>1, <5>2, <5>3, <6>1, <7>1 DEF LiesBelow
          <6>2. CASE older.continueBefore = NoTs
            <7>1. /\ Len(older.rows) = Page
                  /\ \A i \in DOMAIN older.rows : TsOf[id] <= Ts(older.rows[i])
              BY <5>3, <6>2 DEF LiesBelow
            <7>2. ~ended
              BY <3>3, <7>1
            <7>3. ~feed'.reachedEnd /\ fresh # <<>>
              BY <3>7, <3>10, <6>2, <7>2
            <7>4. TsOf[id] >= Ts(Last(rows)) + 1
              BY <3>9, <3>10, <5>2, <6>2, <7>3, NextIsBelow
            <7>5. Last(rows) \in Range(older.rows)
              BY <3>6, <3>9, <7>3
            <7>6. TsOf[id] <= Ts(Last(rows)) /\ Ts(Last(rows)) \in Nat
              BY <1>1, <7>1, <7>5, ListRows, RowTimes
            <7> QED BY <4>1, <7>4, <7>6
          <6> QED BY <6>1, <6>2
        <5> QED BY <4>2, <5>1, <5>3
      <4> QED BY <1>1, <4>1, <4>3, <4>4
    <3>14. nextBefore(feed)' # NoTs
      <4>1. nextBefore(feed') # NoTs
        BY <3>9, <3>10, NextIsBelow
      <4> QED BY <4>1 DEF nextBefore
    <3>15. \A id \in Ids : matches(query, id)' <=> matches(query, id)
      BY <1>2 DEF matches, inWindow
    <3>16. ListIsComplete'
      BY <1>2, <3>13, <3>14, <3>15 DEF ListIsComplete
    <3>17. first'.at = "none"
      BY <1>2, <3>4
    <3> QED BY <1>3, <2>2, <3>12, <3>16, <3>17 DEF NothingMissing
  <2> QED BY <2>3, <2>4
<1> QED BY <1>4, <1>5, <1>6 DEF ListSound

\* A batch leaves the last row the last one, or takes it away from a full list.
LEMMA LiveKeepsEnd ==
  ASSUME NEW rows \in Seq(Rows), NEW batch \in Seq(Rows), Distinct(rows), batch # <<>>
  PROVE  LET cut  == applyLive(rows, batch)
             gone == (IdsOf(rows) \cup IdsOf(batch)) \ IdsOf(cut)
         IN  /\ cut \in Seq(Rows) /\ cut # <<>>
             /\ Range(cut) \subseteq {Latest(batch, id) : id \in IdsOf(batch)}
                                     \cup {r \in Range(rows) : r.id \notin IdsOf(batch)}
             /\ gone = {} /\ rows # <<>> => Last(cut).id = Last(rows).id
             /\ gone # {} => Len(cut) = MaxRows
             /\ gone # {} /\ rows # <<>> => Last(rows).id \in gone
<1> DEFINE fresh  == Fresh(rows, batch)
           known  == [i \in DOMAIN rows |-> Settled(rows[i], batch)]
           joined == fresh \o known
           cut    == applyLive(rows, batch)
           gone   == (IdsOf(rows) \cup IdsOf(batch)) \ IdsOf(cut)
<1>1. /\ joined \in Seq(Rows) /\ cut = UpToMax(joined) /\ Distinct(joined)
      /\ IdsOf(joined) = IdsOf(rows) \cup IdsOf(batch)
      /\ Range(joined) = {Latest(batch, id) : id \in IdsOf(batch)}
                         \cup {r \in Range(rows) : r.id \notin IdsOf(batch)}
  BY BatchJoins
<1>3. /\ fresh \in Seq(Rows) /\ Len(fresh) \in Nat
      /\ Len(rows) \in Nat /\ DOMAIN rows = 1 .. Len(rows)
  BY FreshAreNew, ListRows
<1>4. \A i \in DOMAIN rows : known[i] \in Rows /\ known[i].id = rows[i].id
  <2> SUFFICES ASSUME NEW i \in DOMAIN rows
               PROVE  Settled(rows[i], batch) \in Rows /\ Settled(rows[i], batch).id = rows[i].id
    OBVIOUS
  <2>1. CASE rows[i].id \in IdsOf(batch)
    <3>1. Settled(rows[i], batch) = Latest(batch, rows[i].id)
      BY <2>1 DEF Settled
    <3>2. Latest(batch, rows[i].id) \in Range(batch) /\ Latest(batch, rows[i].id).id = rows[i].id
      BY <2>1, LatestIsACopy
    <3> QED BY <3>1, <3>2, ListRows
  <2>2. CASE rows[i].id \notin IdsOf(batch)
    BY <2>2, ListRows DEF Settled
  <2> QED BY <2>1, <2>2
<1>5. known \in Seq(Rows) /\ Len(known) = Len(rows)
  BY <1>3, <1>4
<1> HIDE DEF fresh, known, cut
<1>6. /\ Len(joined) = Len(fresh) + Len(known)
      /\ \A m \in 1 .. Len(fresh) + Len(known) :
           joined[m] = IF m <= Len(fresh) THEN fresh[m] ELSE known[m - Len(fresh)]
  BY <1>3, <1>5, ConcatProperties
<1> HIDE DEF joined
<1>2. /\ cut \in Seq(Rows) /\ (Len(cut) = MaxRows \/ cut = joined)
      /\ Len(cut) <= Len(joined)
      /\ \A i \in DOMAIN cut : i \in DOMAIN joined /\ cut[i] = joined[i]
      /\ Range(cut) \subseteq Range(joined)
  BY <1>1, CutKeeps
<1>7. /\ Len(joined) \in Nat /\ DOMAIN joined = 1 .. Len(joined)
      /\ Len(cut) \in Nat /\ DOMAIN cut = 1 .. Len(cut)
  BY <1>1, <1>2, ListRows
<1>8. Len(joined) # 0
  <2>1. 1 \in DOMAIN batch
    <3>1. Len(batch) # 0 /\ Len(batch) \in Nat /\ DOMAIN batch = 1 .. Len(batch)
      BY EmptySeq, ListRows
    <3> QED BY <3>1
  <2>2. batch[1].id \in IdsOf(joined)
    BY <1>1, <2>1 DEF IdsOf
  <2>3. \E i \in DOMAIN joined : joined[i].id = batch[1].id
    BY <2>2 DEF IdsOf
  <2> QED BY <1>7, <2>3
<1>9. Len(cut) # 0 /\ cut # <<>>
  <2>1. Len(cut) # 0
    BY <1>2, <1>8, FeedAssumptions
  <2> QED BY <2>1, EmptySeq
<1>10. rows # <<>> => joined[Len(joined)].id = Last(rows).id
  <2> SUFFICES ASSUME rows # <<>> PROVE joined[Len(joined)].id = rows[Len(rows)].id
    BY DEF Last
  <2>1. Len(rows) # 0
    BY EmptySeq
  <2>2. /\ Len(joined) \in 1 .. Len(fresh) + Len(known) /\ ~(Len(joined) <= Len(fresh))
        /\ Len(joined) - Len(fresh) = Len(rows) /\ Len(rows) \in DOMAIN rows
    BY <1>3, <1>5, <1>6, <2>1
  <2>3. joined[Len(joined)] = known[Len(rows)]
    BY <1>6, <2>2
  <2> QED BY <1>4, <2>2, <2>3
<1>11. joined[Len(joined)].id \in IdsOf(cut) => Len(cut) = Len(joined)
  <2> SUFFICES ASSUME joined[Len(joined)].id \in IdsOf(cut) PROVE Len(cut) = Len(joined)
    OBVIOUS
  <2>1. PICK i \in DOMAIN cut : cut[i].id = joined[Len(joined)].id
    BY DEF IdsOf
  <2>2. i \in DOMAIN joined /\ joined[i].id = joined[Len(joined)].id
    BY <1>2, <2>1
  <2>3. Len(joined) \in DOMAIN joined
    BY <1>7, <1>8
  <2>4. i = Len(joined)
    BY <1>1, <2>2, <2>3 DEF Distinct
  <2>5. Len(joined) <= Len(cut)
    BY <1>7, <2>1, <2>4
  <2>6. Len(cut) <= Len(joined)
    BY <1>2
  <2>7. Len(cut) \in Nat /\ Len(joined) \in Nat
    BY <1>7
  <2> QED BY <2>5, <2>6, <2>7
<1>12. Len(cut) = Len(joined) => IdsOf(cut) = IdsOf(joined)
  <2> SUFFICES ASSUME Len(cut) = Len(joined) PROVE IdsOf(cut) = IdsOf(joined)
    OBVIOUS
  <2>1. DOMAIN cut = DOMAIN joined
    BY <1>7
  <2> QED BY <1>2, <2>1 DEF IdsOf
<1>13. joined[Len(joined)].id \in IdsOf(rows) \cup IdsOf(batch)
  <2>1. Len(joined) \in DOMAIN joined
    BY <1>7, <1>8
  <2>2. joined[Len(joined)].id \in IdsOf(joined)
    BY <2>1 DEF IdsOf
  <2> QED BY <1>1, <2>2
<1>14. ASSUME gone = {}, rows # <<>> PROVE Last(cut).id = Last(rows).id
  <2>1. Len(cut) = Len(joined)
    BY <1>11, <1>13, <1>14
  <2>2. Len(cut) \in DOMAIN cut
    BY <1>7, <1>9
  <2>3. Last(cut) = joined[Len(joined)]
    BY <1>2, <2>1, <2>2 DEF Last
  <2> QED BY <1>10, <1>14, <2>3
<1>15. ASSUME gone # {} PROVE Len(cut) = MaxRows /\ Len(cut) # Len(joined)
  BY <1>1, <1>2, <1>12, <1>15
<1>16. ASSUME gone # {}, rows # <<>> PROVE Last(rows).id \in gone
  BY <1>10, <1>11, <1>13, <1>15, <1>16
<1>17. Range(cut) \subseteq {Latest(batch, id) : id \in IdsOf(batch)}
                            \cup {r \in Range(rows) : r.id \notin IdsOf(batch)}
  BY <1>1, <1>2
<1>18. cut \in Seq(Rows)
  BY <1>2
<1> QED BY <1>9, <1>14, <1>15, <1>16, <1>17, <1>18 DEF cut

\* The queue goes to the list.  A full list gives up rows at its end, and with
\* them its claim to go down so far; unless a page is under way that starts
\* from there.
LEMMA FlushSounds ==
  ASSUME ExactInv, flush
  PROVE  ListSound'
<1>1. /\ FeedTypeOK /\ ListSound /\ PagesMatch /\ LoadsOnce /\ StreamMatches
      /\ feed \in Feeds /\ feed.rows \in Seq(Rows) /\ Distinct(feed.rows) /\ queue \in Seq(Rows)
      /\ first.rows \in Seq(Rows) /\ older.rows \in Seq(Rows)
  BY ShapesMakeTypes DEF ExactInv, FeedInv, ListSound, ListShape, Feeds, FeedTypeOK
<1>2. /\ UNCHANGED <<stored, query, first, older, stream, wire>> /\ queue' = <<>>
      /\ IF stream.tailed THEN onReceipts(queue) ELSE UNCHANGED <<feed, holes>>
      /\ holes \subseteq holes' /\ ("outrun" \in holes' => "outrun" \in holes)
  <2>1. /\ UNCHANGED <<stored, query, first, older, stream, wire>> /\ queue' = <<>>
        /\ IF stream.tailed THEN onReceipts(queue) ELSE UNCHANGED <<feed, holes>>
    BY DEF flush, pageVars
  <2>2. onReceipts(queue) => holes' = holes \/ holes' = holes \cup {"trimmed"}
    BY DEF onReceipts
  <2> QED BY <2>1, <2>2
<1>3. feed'.loaded = feed.loaded
  <2>1. UNCHANGED feed \/ \E rows, end : feed' = [feed EXCEPT !.rows = rows, !.reachedEnd = end]
    BY <1>2 DEF onReceipts
  <2> QED BY <1>1, <2>1 DEF Feeds
<1>4. StreamOpen' /\ OlderIsOurs' /\ FailureIsNoted'
  BY <1>1, <1>2, <1>3 DEF ListSound, StreamOpen, OlderIsOurs, FailureIsNoted
<1>5. WireIsCurrent'
  BY <1>1, <1>2 DEF ListSound, WireIsCurrent, Row
<1>6. ASSUME query' # NoQuery, holes' = {} PROVE NothingMissing'
  <2>1. NothingMissing /\ query # NoQuery /\ query \in Queries
    BY <1>1, <1>2, <1>6 DEF ListSound, FeedTypeOK
  <2>2. QueueIsCurrent' /\ IdsOf(queue)' = {}
    BY <1>2 DEF QueueIsCurrent, IdsOf
  <2> DEFINE live == Filtered(queue, {id \in Ids : inWindow(query, id)})
             rows == applyLive(feed.rows, live)
             gone == (IdsOf(feed.rows) \cup IdsOf(live)) \ IdsOf(rows)
  <2>3. /\ live \in Seq(Rows)
        /\ IdsOf(live) = IdsOf(queue) \cap {id \in Ids : inWindow(query, id)}
        /\ \A id \in IdsOf(live) : Latest(live, id) = Latest(queue, id)
    BY <1>1, FilterKeeps, LatestStays
  <2> HIDE DEF live
  <2>4. \A id \in Ids : matches(query, id) => (id \in IdsOf(queue) <=> id \in IdsOf(live))
    BY <2>3 DEF matches
  <2>5. CASE ~stream.tailed \/ live = <<>>
    <3>1. UNCHANGED feed
      BY <1>2, <2>5 DEF onReceipts, live
    <3>2. \A id \in Ids : matches(query, id) =>
            \/ stream'.tailed /\ id \in IdsOf(queue)' \cup IdsOf(wire)'
            \/ stored'[id] = stored[id] /\ ~(stream.tailed /\ id \in IdsOf(queue) \cup IdsOf(wire))
      <4>1. live = <<>> => IdsOf(live) = {}
        BY DEF IdsOf
      <4>2. IdsOf(wire)' = IdsOf(wire)
        BY <1>2 DEF IdsOf
      <4> QED BY <1>2, <2>2, <2>4, <2>5, <4>1, <4>2
    <3> QED BY <1>2, <2>1, <2>2, <3>1, <3>2, NewsStays
  <2>6. CASE stream.tailed /\ live # <<>>
    <3> DEFINE next == [feed EXCEPT !.rows = rows, !.reachedEnd = @ /\ Len(rows) < MaxRows]
               lost == /\ gone # {}
                       /\ \/ \E id \in gone : TsOf[id] >= nextBefore(next)
                          \/ older.at # "none" \/ first.at # "none"
    <3>1. feed' = next /\ (lost => "trimmed" \in holes')
      <4> HIDE DEF rows
      <4>1. onReceipts(queue)
        BY <1>2, <2>6
      <4> QED BY <2>6, <4>1 DEF onReceipts, live, rows
    <3>2. ~lost
      BY <1>6, <3>1
    <3>3. /\ rows \in Seq(Rows) /\ rows # <<>>
          /\ Range(rows) \subseteq {Latest(live, id) : id \in IdsOf(live)}
                                   \cup {r \in Range(feed.rows) : r.id \notin IdsOf(live)}
          /\ gone = {} /\ feed.rows # <<>> => Last(rows).id = Last(feed.rows).id
          /\ gone # {} => Len(rows) = MaxRows
          /\ gone # {} /\ feed.rows # <<>> => Last(feed.rows).id \in gone
      BY <1>1, <2>3, <2>6, LiveKeepsEnd
    <3> HIDE DEF rows
    <3>4. /\ feed'.rows = rows /\ feed'.continueBefore = feed.continueBefore
          /\ feed'.reachedEnd = (feed.reachedEnd /\ Len(rows) < MaxRows)
          /\ feed' \in Feeds
      BY <1>1, <3>1, <3>3 DEF Feeds
    <3>5. gone # {} =>
            /\ \A id \in gone : ~(TsOf[id] >= nextBefore(feed'))
            /\ older.at = "none" /\ first.at = "none"
      BY <3>1, <3>2
    <3> HIDE DEF next, lost
    <3>6. IdsOf(feed.rows) \cup IdsOf(live) \subseteq IdsOf(rows) \cup gone
      OBVIOUS
    <3>g. gone = {} => IdsOf(feed.rows) \cup IdsOf(live) \subseteq IdsOf(rows)
      OBVIOUS
    <3> HIDE DEF gone
    <3>7. \A id : Pending(id)' <=> id \in IdsOf(wire)
      BY <1>2, <2>2, <2>6 DEF Pending, IdsOf
    <3>8. \A id \in Ids : matches(query, id) =>
            (Pending(id) <=> id \in IdsOf(live) \cup IdsOf(wire))
      BY <2>4, <2>6 DEF Pending
    <3>9. AreCurrent(feed.rows, {})'
      <4> SUFFICES ASSUME NEW i \in DOMAIN rows, rows[i].id \notin IdsOf(wire)
                   PROVE  rows[i] = Row(rows[i].id)
        BY <1>2, <2>2, <2>6, <3>4 DEF AreCurrent, Pending, Row, IdsOf
      <4>1. rows[i] \in Range(rows)
        BY <3>3, ListRows
      <4>2. ASSUME NEW id \in IdsOf(live), rows[i] = Latest(live, id)
            PROVE  rows[i] = Row(rows[i].id)
        <5>1. id \in IdsOf(queue) /\ rows[i].id = id /\ id \in Ids /\ inWindow(query, id)
          BY <2>3, <4>2, LatestIsACopy
        <5>2. id \in Selects[FilterOf[query]]
          <6>1. PICK k \in DOMAIN queue : queue[k].id = id
            BY <5>1 DEF IdsOf
          <6> QED BY <1>1, <2>6, <6>1 DEF StreamMatches
        <5>3. Latest(queue, id) = Row(id)
          BY <2>1, <2>6, <5>1, <5>2 DEF NothingMissing, QueueIsCurrent, matches
        <5> QED BY <2>3, <4>2, <5>1, <5>3
      <4>3. ASSUME rows[i] \in Range(feed.rows), rows[i].id \notin IdsOf(live)
            PROVE  rows[i] = Row(rows[i].id)
        <5>1. PICK k \in DOMAIN feed.rows : rows[i] = feed.rows[k]
          BY <1>1, <4>3, ListRows
        <5>2. matches(query, rows[i].id) /\ rows[i].id \in Ids
          BY <1>1, <2>1, <4>3, <5>1, ListRows DEF PagesMatch, AllMatch
        <5>3. ~Pending(rows[i].id)
          BY <3>8, <4>3, <5>2
        <5> QED BY <2>1, <5>1, <5>3 DEF NothingMissing, AreCurrent
      <4> QED BY <3>3, <4>1, <4>2, <4>3
    <3>10. \A id \in Ids : matches(query, id) /\ Accounted(id) => Accounted(id)' \/ id \in gone
      <4> SUFFICES ASSUME NEW id \in Ids, matches(query, id), Accounted(id)
                   PROVE  Accounted(id)' \/ id \in gone
        OBVIOUS
      <4>1. id \in IdsOf(feed.rows) \cup IdsOf(live) \cup IdsOf(wire)
        BY <3>8 DEF Accounted
      <4>2. Accounted(id)' <=> id \in IdsOf(rows) \/ id \in IdsOf(wire)
        BY <3>4, <3>7 DEF Accounted, IdsOf
      <4> QED BY <3>6, <4>1, <4>2
    <3>11. /\ nextBefore(feed') # NoTs /\ nextBefore(feed') \in Nat
           /\ nextBefore(feed') = IF feed.continueBefore # NoTs THEN feed.continueBefore
                                  ELSE TsOf[Last(rows).id] + 1
      BY <3>3, <3>4, NextIsBelow DEF Ts
    <3>12. /\ feed.rows # <<>> =>
                nextBefore(feed) = IF feed.continueBefore # NoTs THEN feed.continueBefore
                                   ELSE TsOf[Last(feed.rows).id] + 1
           /\ nextBefore(feed) \in Nat
      BY <1>1, NextIsBelow DEF Ts
    <3>13. feed.rows # <<>> /\ gone = {} => nextBefore(feed') = nextBefore(feed)
      BY <3>3, <3>11, <3>12
    <3>14. feed.rows # <<>> => nextBefore(feed) <= nextBefore(feed')
      <4> SUFFICES ASSUME feed.rows # <<>>, gone # {} PROVE nextBefore(feed) <= nextBefore(feed')
        BY <3>11, <3>12, <3>13
      <4>1. CASE feed.continueBefore # NoTs
        BY <3>11, <3>12, <4>1
      <4>2. CASE feed.continueBefore = NoTs
        <5>1. ~(TsOf[Last(feed.rows).id] >= nextBefore(feed'))
          BY <3>3, <3>5
        <5>2. TsOf[Last(feed.rows).id] \in Nat
          <6>1. Last(feed.rows) \in Range(feed.rows)
            BY <1>1, <4>2, NextIsBelow
          <6>2. Last(feed.rows).id \in Ids
            BY <1>1, <6>1, ListRows
          <6> QED BY <6>2, FeedAssumptions
        <5> QED BY <3>11, <3>12, <4>2, <5>1, <5>2
      <4> QED BY <4>1, <4>2
    <3>15. feed.loaded => ListIsComplete'
      <4> SUFFICES ASSUME feed.loaded PROVE ListIsComplete'
        OBVIOUS
      <4>1. ListIsComplete
        BY <2>1 DEF NothingMissing
      <4>2. ASSUME NEW id \in Ids, stored[id] # "absent", matches(query, id), ListReaches(id)'
            PROVE  Accounted(id)'
        <5>1. feed'.reachedEnd \/ TsOf[id] >= nextBefore(feed')
          BY <4>2 DEF ListReaches, nextBefore
        <5>2. TsOf[id] \in Nat
          BY FeedAssumptions
        <5>3. ListReaches(id)
          <6>1. CASE feed'.reachedEnd
            BY <3>4, <6>1 DEF ListReaches
          <6>2. CASE ~feed'.reachedEnd /\ feed.rows = <<>>
            <7>1. CASE feed.continueBefore = NoTs
              <8>1. nextBefore(feed) = NoTs
                BY <1>1, <6>2, <7>1, NextIsBelow
              <8> QED BY <4>1, <8>1 DEF ListIsComplete, ListReaches
            <7>2. CASE feed.continueBefore # NoTs
              <8>1. nextBefore(feed) = nextBefore(feed')
                BY <1>1, <3>11, <7>2, NextIsBelow
              <8> QED BY <3>11, <5>1, <6>2, <8>1 DEF ListReaches
            <7> QED BY <7>1, <7>2
          <6>3. CASE ~feed'.reachedEnd /\ feed.rows # <<>>
            <7>1. nextBefore(feed) # NoTs
              BY <1>1, <6>3, NextIsBelow
            <7>2. TsOf[id] >= nextBefore(feed)
              BY <3>11, <3>12, <3>14, <5>1, <5>2, <6>3
            <7> QED BY <7>1, <7>2 DEF ListReaches
          <6> QED BY <6>1, <6>2, <6>3
        <5>4. Accounted(id)' \/ id \in gone
          BY <3>10, <4>1, <4>2, <5>3 DEF ListIsComplete
        <5>5. id \notin gone
          <6> SUFFICES ASSUME id \in gone PROVE FALSE
            OBVIOUS
          <6>1. Len(rows) = MaxRows /\ MaxRows \in Nat
            BY <3>3, FeedAssumptions
          <6>2. ~(Len(rows) < MaxRows)
            BY <6>1
          <6>3. ~feed'.reachedEnd
            BY <3>4, <6>2
          <6> QED BY <3>5, <5>1, <6>3
        <5> QED BY <5>4, <5>5
      <4>3. nextBefore(feed)' # NoTs
        BY <3>11 DEF nextBefore
      <4>4. \A id \in Ids : matches(query, id)' <=> matches(query, id)
        BY <1>2 DEF matches, inWindow
      <4> QED BY <1>2, <4>2, <4>3, <4>4 DEF ListIsComplete
    <3>16. ASSUME NEW r \in {first, older}, r.at # "none", r.rows \in Seq(Rows),
                  AllMatch(query, r.rows), NEW before,
                  AreCurrent(r.rows, IdsOf(feed.rows)), IsComplete(r, before)
           PROVE  /\ \A i \in DOMAIN r.rows :
                       r.rows[i].id \notin IdsOf(rows) \cup IdsOf(wire) => r.rows[i] = Row(r.rows[i].id)
                  /\ \A id \in Ids :
                       stored[id] # "absent" /\ matches(query, id) /\ (before # NoTs => TsOf[id] < before)
                         => Accounted(id)' \/ id \in IdsOf(r.rows) \/ LiesBelow(r, id)
      <4>1. gone = {}
        BY <3>5, <3>16
      <4>2. ASSUME NEW i \in DOMAIN r.rows, r.rows[i].id \notin IdsOf(rows) \cup IdsOf(wire)
            PROVE  r.rows[i] = Row(r.rows[i].id)
        <5>1. r.rows[i].id \in Ids /\ matches(query, r.rows[i].id)
          BY <3>16, ListRows DEF AllMatch
        <5>2. r.rows[i].id \notin IdsOf(feed.rows) /\ r.rows[i].id \notin IdsOf(live)
          BY <3>g, <4>1, <4>2
        <5>3. ~Pending(r.rows[i].id)
          BY <3>8, <4>2, <5>1, <5>2
        <5> QED BY <3>16, <5>2, <5>3 DEF AreCurrent
      <4>3. ASSUME NEW id \in Ids, stored[id] # "absent", matches(query, id),
                   before # NoTs => TsOf[id] < before
            PROVE  Accounted(id)' \/ id \in IdsOf(r.rows) \/ LiesBelow(r, id)
        BY <3>10, <3>16, <4>1, <4>3 DEF IsComplete
      <4> QED BY <4>2, <4>3
    <3>17. first.at = "read" => AreCurrent(first.rows, IdsOf(feed.rows))' /\ IsComplete(first, NoTs)'
      <4> SUFFICES ASSUME first.at = "read"
                   PROVE  AreCurrent(first.rows, IdsOf(feed.rows))' /\ IsComplete(first, NoTs)'
        OBVIOUS
      <4>1. /\ \A i \in DOMAIN first.rows :
                 first.rows[i].id \notin IdsOf(rows) \cup IdsOf(wire) => first.rows[i] = Row(first.rows[i].id)
            /\ \A id \in Ids :
                 stored[id] # "absent" /\ matches(query, id)
                   => Accounted(id)' \/ id \in IdsOf(first.rows) \/ LiesBelow(first, id)
        <5>1. AreCurrent(first.rows, IdsOf(feed.rows)) /\ IsComplete(first, NoTs)
          BY <2>1 DEF NothingMissing
        <5>2. AllMatch(query, first.rows)
          BY <1>1 DEF PagesMatch
        <5> QED BY <1>1, <3>16, <5>1, <5>2
      <4>2. AreCurrent(first.rows, IdsOf(feed.rows))'
        BY <1>2, <2>2, <2>6, <3>4, <4>1 DEF AreCurrent, Pending, Row, IdsOf
      <4>3. IsComplete(first, NoTs)'
        BY <1>2, <4>1 DEF IsComplete, LiesBelow, matches, inWindow, IdsOf
      <4> QED BY <4>2, <4>3
    <3>18. ASSUME older.at # "none", ~older.stale
           PROVE  /\ older'.before = nextBefore(feed)'
                  /\ older.at = "read" =>
                       AreCurrent(older.rows, IdsOf(feed.rows))' /\ IsComplete(older, older.before)'
      <4>1. older.before = nextBefore(feed) /\ feed.rows # <<>> /\ gone = {} /\ older.q = query
        BY <1>1, <2>1, <3>5, <3>18 DEF NothingMissing, ListSound, OlderIsOurs
      <4>2. older'.before = nextBefore(feed)'
        BY <1>2, <3>13, <4>1 DEF nextBefore
      <4>3. ASSUME older.at = "read"
            PROVE  AreCurrent(older.rows, IdsOf(feed.rows))' /\ IsComplete(older, older.before)'
        <5>1. AreCurrent(older.rows, IdsOf(feed.rows)) /\ IsComplete(older, older.before)
          BY <2>1, <3>18, <4>3 DEF NothingMissing
        <5>2. AllMatch(query, older.rows)
          BY <1>1, <4>1, <4>3 DEF PagesMatch
        <5>3. /\ \A i \in DOMAIN older.rows :
                   older.rows[i].id \notin IdsOf(rows) \cup IdsOf(wire)
                     => older.rows[i] = Row(older.rows[i].id)
              /\ \A id \in Ids :
                   stored[id] # "absent" /\ matches(query, id)
                       /\ (older.before # NoTs => TsOf[id] < older.before)
                     => Accounted(id)' \/ id \in IdsOf(older.rows) \/ LiesBelow(older, id)
          BY <1>1, <3>16, <3>18, <5>1, <5>2
        <5>4. AreCurrent(older.rows, IdsOf(feed.rows))'
          BY <1>2, <2>2, <2>6, <3>4, <5>3 DEF AreCurrent, Pending, Row, IdsOf
        <5>5. IsComplete(older, older.before)'
          BY <1>2, <5>3 DEF IsComplete, LiesBelow, matches, inWindow, IdsOf
        <5> QED BY <5>4, <5>5
      <4> QED BY <4>2, <4>3
    <3>19. feed'.rows # <<>>
      BY <3>3, <3>4
    <3> QED BY <1>2, <1>3, <2>2, <3>9, <3>15, <3>17, <3>18, <3>19 DEF NothingMissing
  <2> QED BY <2>5, <2>6
<1> QED BY <1>4, <1>5, <1>6 DEF ListSound

\* The reason why a quiet list is exact, kept by every step.
LEMMA ExactStepKeeps == ExactInv /\ [FeedNext]_feedVars => ExactInv'
<1> SUFFICES ASSUME ExactInv, [FeedNext]_feedVars PROVE ExactInv'
  OBVIOUS
<1>1. FeedInv' /\ LoadsOnce'
  BY FeedStepKeeps, LoadsOnceStays DEF ExactInv
<1>2. ListSound'
  <2>1. CASE FeedServer
    BY <2>1, FirstReadSounds, OlderReadSounds, QuietStepsKeep, BreakSounds, ReceiptSounds
       DEF FeedServer
  <2>2. CASE FeedTab
    BY <2>2, EventSounds, FlushSounds, QuietStepsKeep, FirstSounds, OlderSounds DEF FeedTab
  <2>3. CASE FeedReader
    BY <2>3, LoadsSound, QuietStepsKeep DEF FeedReader
  <2>4. CASE UNCHANGED feedVars
    BY <2>4, QuietStepsKeep
  <2> QED BY <2>1, <2>2, <2>3, <2>4 DEF FeedNext
<1> QED BY <1>1, <1>2 DEF ExactInv, ListSound

LEMMA ExactInvariant == FeedSpec => []ExactInv
<1>1. FeedInit => ExactInv
  <2> SUFFICES ASSUME FeedInit PROVE ExactInv
    OBVIOUS
  <2>1. FeedInv
    BY FeedInitHolds
  <2>2. LoadsOnce /\ StreamOpen /\ OlderIsOurs /\ FailureIsNoted /\ WireIsCurrent /\ query = NoQuery
    BY DEF FeedInit, LoadsOnce, StreamOpen, OlderIsOurs, FailureIsNoted, WireIsCurrent, NoRequest, NoOlder
  <2> QED BY <2>1, <2>2 DEF ExactInv
<1> QED BY <1>1, ExactStepKeeps, PTL DEF FeedSpec

\* Once no answer and no event is on its way, a loaded list shows every receipt
\* that it goes down to, as the server has it: the first page, however many
\* older ones and all that the stream has told of meanwhile fit together
\* (nextBefore, applyLive, mergeNewer, notSeen), and "that's everything" is
\* true.  The ways to miss a row that the code leaves open are those that are
\* noted in holes, and there is no other.
THEOREM QuietListsAreExact == FeedSpec => []ListIsExact
<1>1. ExactInv => ListIsExact
  <2> SUFFICES ASSUME ExactInv, query # NoQuery, feed.loaded, Quiet, holes = {},
                      NEW id \in Ids, stored[id] # "absent", matches(query, id),
                      feed.reachedEnd \/ ReachesDownTo(id)
               PROVE  Row(id) \in Range(feed.rows)
    BY DEF ListIsExact
  <2>1. /\ AreCurrent(feed.rows, {}) /\ ListIsComplete
        /\ feed \in Feeds /\ feed.rows \in Seq(Rows)
    BY ShapesMakeTypes DEF ExactInv, NothingMissing, FeedInv, ListShape, Feeds
  <2>2. \A i : ~Pending(i)
    BY DEF Quiet, Pending, IdsOf
  <2>3. ListReaches(id)
    <3> SUFFICES ASSUME ReachesDownTo(id) PROVE nextBefore(feed) # NoTs /\ TsOf[id] >= nextBefore(feed)
      BY DEF ListReaches
    <3>1. CASE feed.continueBefore # NoTs
      BY <2>1, <3>1, NextIsBelow DEF ReachesDownTo
    <3>2. CASE feed.continueBefore = NoTs
      <4>1. feed.rows # <<>> /\ TsOf[id] > Ts(Last(feed.rows))
        BY <3>2 DEF ReachesDownTo
      <4>2. nextBefore(feed) = Ts(Last(feed.rows)) + 1 /\ Last(feed.rows) \in Range(feed.rows)
        BY <2>1, <3>2, <4>1, NextIsBelow
      <4>3. Ts(Last(feed.rows)) \in Nat /\ TsOf[id] \in Nat
        BY <2>1, <4>2, ListRows, RowTimes, FeedAssumptions
      <4> QED BY <4>1, <4>2, <4>3 DEF NoTs
    <3> QED BY <3>1, <3>2
  <2>4. PICK i \in DOMAIN feed.rows : feed.rows[i].id = id
    BY <2>1, <2>2, <2>3 DEF ListIsComplete, Accounted, IdsOf
  <2>5. feed.rows[i] = Row(id)
    BY <2>1, <2>2, <2>4 DEF AreCurrent
  <2> QED BY <2>1, <2>4, <2>5, ListRows
<1> QED BY <1>1, ExactInvariant, PTL
=============================================================================
