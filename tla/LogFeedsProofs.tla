--------------------------- MODULE LogFeedsProofs ---------------------------
(***************************************************************************)
(* Theorems about LogFeeds: for any number of records, any times, any size *)
(* of a page and any number of failed searches.                            *)
(***************************************************************************)
EXTENDS LogFeeds, FiniteSetTheorems, SequenceTheorems, WellFoundedInduction, TLAPS

Records == [ts : Nat, id : Nat, late : BOOLEAN]

(***************************************************************************)
(* The records are sorted by time and each has an id of its own, and the   *)
(* query returns records: sorted, each once, up to lastTS.                 *)
(***************************************************************************)
IndexInv ==
    /\ index \in Seq(Records)
    /\ \A i, j \in DOMAIN index : i < j => index[i].ts <= index[j].ts
    /\ \A i \in DOMAIN index : index[i].id <= Len(index)
    /\ \A i, j \in DOMAIN index : i # j => index[i].id # index[j].id

ResultsInv ==
    /\ results \in Seq(Records)
    /\ lastTS \in Int /\ lastTS >= -1
    /\ \A i \in DOMAIN results : results[i].ts <= lastTS
    /\ \A i \in DOMAIN results : \E j \in DOMAIN index : results[i] = index[j]
    /\ \A i, j \in DOMAIN results : i < j => results[i].ts <= results[j].ts
    /\ \A i, j \in DOMAIN results : i # j => results[i].id # results[j].id

(***************************************************************************)
(* What may be missing of the records up to lastTS; after the empty page   *)
(* no record is beyond lastTS.                                             *)
(***************************************************************************)
Returned(r) ==
    \/ \E j \in DOMAIN results : results[j].id = r.id
    \/ r.late
    \/ r.ts \in ends

CoverInv ==
    /\ \A i \in DOMAIN index : index[i].ts <= lastTS => Returned(index[i])
    /\ errors \in Nat
    /\ qpc = "returned" /\ errors = 0 =>
          \A i \in DOMAIN index : index[i].ts <= lastTS

QueryInv == IndexInv /\ ResultsInv /\ CoverInv
-----------------------------------------------------------------------------
(***************************************************************************)
(* In a sorted index the records up to a time come first, so UpTo is the   *)
(* position of the last of them.                                           *)
(***************************************************************************)
LEMMA LeastOf ==
    ASSUME NEW S, S \subseteq Nat, S # {}
    PROVE  \E m \in S : \A j \in S : m <= j
<1>1. PICK m \in S : \A j \in S : ~(<<j, m>> \in OpToRel(<, Nat))
  BY NatLessThanWellFounded, WFMin
<1>2. \A j \in S : ~(j < m)
  BY <1>1 DEF OpToRel
<1>3. QED
  BY <1>2

LEMMA UpToIsPosition ==
    ASSUME IndexInv, NEW t \in Int
    PROVE  /\ UpTo(t) \in 0 .. Len(index)
           /\ \A i \in 1 .. Len(index) : index[i].ts <= t <=> i <= UpTo(t)
<1> DEFINE N == Len(index)
           Beyond == {i \in 1 .. N + 1 : i <= N => index[i].ts > t}
<1>1. /\ N \in Nat /\ DOMAIN index = 1 .. N
      /\ \A i \in 1 .. N : index[i] \in Records
  BY DEF IndexInv
<1>2. \A i \in 1 .. N : index[i].ts \in Nat
  BY <1>1 DEF Records
<1>3. N + 1 \in Beyond /\ Beyond \subseteq Nat
  BY <1>1
<1>4. PICK m \in Beyond : \A j \in Beyond : m <= j
  BY <1>3, LeastOf
<1>5. m \in 1 .. N + 1
  BY <1>4
<1>6. \A i \in 1 .. N : index[i].ts <= t <=> i <= m - 1
  <2> SUFFICES ASSUME NEW i \in 1 .. N
               PROVE  index[i].ts <= t <=> i <= m - 1
    OBVIOUS
  <2>1. CASE i < m
    <3>1. i \notin Beyond
      BY <1>1, <1>4, <1>5, <2>1
    <3>2. QED
      BY <1>1, <1>2, <1>5, <2>1, <3>1
  <2>2. CASE i >= m
    <3>1. m \in 1 .. N /\ index[m].ts > t
      BY <1>1, <1>4, <1>5, <2>2
    <3>2. index[m].ts <= index[i].ts
      BY <1>1, <1>2, <2>2, <3>1 DEF IndexInv
    <3>3. QED
      BY <1>2, <1>5, <2>2, <3>1, <3>2
  <2>3. QED
    BY <1>1, <1>5, <2>1, <2>2
<1>7. {i \in DOMAIN index : index[i].ts <= t} = 1 .. m - 1
  BY <1>1, <1>5, <1>6
<1>8. Cardinality(1 .. m - 1) = m - 1
  BY <1>1, <1>5, FS_Interval
<1>9. UpTo(t) = m - 1
  BY <1>7, <1>8 DEF UpTo
<1>10. QED
  BY <1>1, <1>5, <1>6, <1>9
-----------------------------------------------------------------------------
(***************************************************************************)
(* A record arrives: the others keep their order.                          *)
(***************************************************************************)
LEMMA InsertFacts ==
    ASSUME NEW s \in Seq(Records), NEW k \in 1 .. Len(s) + 1, NEW e \in Records
    PROVE  /\ InsertAt(s, k, e) \in Seq(Records)
           /\ Len(InsertAt(s, k, e)) = Len(s) + 1
           /\ \A i \in 1 .. Len(s) + 1 :
                InsertAt(s, k, e)[i] = IF i < k THEN s[i] ELSE IF i = k THEN e ELSE s[i - 1]
<1> DEFINE a == SubSeq(s, 1, k - 1)
           b == SubSeq(s, k, Len(s))
<1>1. Len(s) \in Nat /\ k \in Nat /\ k >= 1 /\ k <= Len(s) + 1
  OBVIOUS
<1>2. a \in Seq(Records) /\ Len(a) = k - 1 /\ \A i \in 1 .. k - 1 : a[i] = s[i]
  <2>1. \A i \in 1 .. k - 1 : s[i] \in Records
    BY <1>1
  <2>2. QED
    BY <1>1, <2>1
<1>3. /\ b \in Seq(Records) /\ Len(b) = Len(s) + 1 - k
      /\ \A i \in 1 .. Len(s) + 1 - k : b[i] = s[k + i - 1]
  <2>1. \A i \in k .. Len(s) : s[i] \in Records
    BY <1>1
  <2>2. QED
    BY <1>1, <2>1
<1> HIDE DEF a, b
<1>4. /\ a \o <<e>> \in Seq(Records) /\ Len(a \o <<e>>) = k
      /\ \A i \in 1 .. k : (a \o <<e>>)[i] = IF i < k THEN s[i] ELSE e
  BY <1>1, <1>2
<1> DEFINE c == a \o <<e>>
<1> HIDE DEF c
<1>5. c \in Seq(Records) /\ Len(c) = k /\ \A i \in 1 .. k : c[i] = IF i < k THEN s[i] ELSE e
  BY <1>4 DEF c
<1>6. /\ c \o b \in Seq(Records) /\ Len(c \o b) = Len(c) + Len(b)
      /\ \A i \in 1 .. Len(c) + Len(b) : (c \o b)[i] = IF i <= Len(c) THEN c[i] ELSE b[i - Len(c)]
  BY <1>3, <1>5, ConcatProperties
<1> DEFINE d == c \o b
<1> HIDE DEF d
<1>7. /\ d \in Seq(Records) /\ Len(d) = Len(s) + 1
      /\ \A i \in 1 .. Len(s) + 1 : d[i] = IF i <= k THEN c[i] ELSE b[i - k]
  BY <1>1, <1>3, <1>5, <1>6 DEF d
<1>8. ASSUME NEW i \in 1 .. Len(s) + 1
      PROVE  d[i] = IF i < k THEN s[i] ELSE IF i = k THEN e ELSE s[i - 1]
  <2>1. i \in Nat /\ i >= 1 /\ (i <= k \/ i > k)
    BY <1>1
  <2>2. CASE i <= k
    BY <1>1, <1>5, <1>7, <2>1, <2>2
  <2>3. CASE i > k
    <3>1. i - k \in 1 .. Len(s) + 1 - k /\ k + (i - k) - 1 = i - 1
      BY <1>1, <2>1, <2>3
    <3>2. b[i - k] = s[i - 1]
      BY <1>3, <3>1
    <3>3. QED
      BY <1>1, <1>7, <2>1, <2>3, <3>2
  <2>4. QED
    BY <2>1, <2>2, <2>3
<1>9. InsertAt(s, k, e) = d
  BY DEF InsertAt, a, b, c, d
<1>10. QED
  BY <1>7, <1>8, <1>9

LEMMA IngestStep ==
    ASSUME QueryInv, Ingest
    PROVE  QueryInv'
<1>1. PICK t \in Times :
        index' = InsertAt(index, UpTo(t) + 1,
                          [ts |-> t, id |-> Len(index) + 1, late |-> lastTS # -1])
  BY DEF Ingest
<1> DEFINE N == Len(index)
           k == UpTo(t) + 1
           e == [ts |-> t, id |-> N + 1, late |-> lastTS # -1]
<1>2. UNCHANGED <<lastTS, results, errors, ends, qpc>> /\ qpc = "search"
  BY DEF Ingest
<1>3. t \in Nat
  BY FeedsAssumption
<1>4. index \in Seq(Records) /\ N \in Nat /\ DOMAIN index = 1 .. N
  BY DEF QueryInv, IndexInv
<1>5. \A i \in 1 .. N : index[i] \in Records /\ index[i].ts \in Nat /\ index[i].id \in Nat
  <2>1. \A i \in 1 .. N : index[i] \in Records
    BY <1>4
  <2>2. QED
    BY <2>1 DEF Records
<1>6. e \in Records /\ e.ts = t /\ e.id = N + 1 /\ e.late = (lastTS # -1)
  BY <1>3, <1>4 DEF Records
<1>7. k \in 1 .. N + 1 /\ \A i \in 1 .. N : index[i].ts <= t <=> i < k
  <2>1. UpTo(t) \in 0 .. N /\ \A i \in 1 .. N : index[i].ts <= t <=> i <= UpTo(t)
    BY <1>3, UpToIsPosition DEF QueryInv
  <2>2. QED
    BY <1>4, <2>1
<1> HIDE DEF k, e
<1>8. index' = InsertAt(index, k, e)
  BY <1>1 DEF k, e
<1>9. /\ index' \in Seq(Records) /\ Len(index') = N + 1
      /\ \A i \in 1 .. N + 1 :
           index'[i] = IF i < k THEN index[i] ELSE IF i = k THEN e ELSE index[i - 1]
  <2>1. /\ InsertAt(index, k, e) \in Seq(Records)
        /\ Len(InsertAt(index, k, e)) = N + 1
        /\ \A i \in 1 .. N + 1 :
             InsertAt(index, k, e)[i] = IF i < k THEN index[i] ELSE IF i = k THEN e ELSE index[i - 1]
    BY <1>4, <1>6, <1>7, InsertFacts
  <2>2. QED
    BY <1>8, <2>1
<1>10. DOMAIN index' = 1 .. N + 1
  BY <1>9
\* An old record has a position in the new index, and the other way round.
<1> DEFINE Old(i) == IF i < k THEN i ELSE i - 1
<1>11. \A i \in 1 .. N + 1 : i # k => Old(i) \in 1 .. N /\ index'[i] = index[Old(i)]
  BY <1>4, <1>7, <1>9
<1>12. \A i, j \in 1 .. N + 1 : i < j /\ i # k /\ j # k => Old(i) < Old(j)
  BY <1>4, <1>7
<1>13. \A i \in 1 .. N + 1 : i # k => (index'[i].ts <= t <=> i < k)
  BY <1>4, <1>7, <1>11
<1>14. \A j \in 1 .. N : \E i \in 1 .. N + 1 : i # k /\ index'[i] = index[j]
  <2> SUFFICES ASSUME NEW j \in 1 .. N
               PROVE  \E i \in 1 .. N + 1 : i # k /\ index'[i] = index[j]
    OBVIOUS
  <2>1. CASE j < k
    BY <1>4, <1>7, <1>9, <2>1
  <2>2. CASE j >= k
    <3>1. j + 1 \in 1 .. N + 1 /\ j + 1 # k /\ index'[j + 1] = index[j]
      BY <1>4, <1>7, <1>9, <2>2
    <3>2. QED
      BY <3>1
  <2>3. QED
    BY <1>4, <1>7, <2>1, <2>2
<1>15. index'[k] = e
  BY <1>7, <1>9
<1>16. IndexInv'
  <2>1. \A i, j \in 1 .. N + 1 : i < j => index'[i].ts <= index'[j].ts
    <3> SUFFICES ASSUME NEW i \in 1 .. N + 1, NEW j \in 1 .. N + 1, i < j
                 PROVE  index'[i].ts <= index'[j].ts
      OBVIOUS
    <3>1. CASE i = k
      BY <1>3, <1>4, <1>5, <1>6, <1>7, <1>11, <1>13, <1>15, <3>1
    <3>2. CASE j = k
      BY <1>3, <1>4, <1>5, <1>6, <1>7, <1>11, <1>13, <1>15, <3>2
    <3>3. CASE i # k /\ j # k
      <4>1. Old(i) \in 1 .. N /\ Old(j) \in 1 .. N /\ Old(i) < Old(j)
        BY <1>11, <1>12, <3>3
      <4>2. index[Old(i)].ts <= index[Old(j)].ts
        BY <1>4, <4>1 DEF QueryInv, IndexInv
      <4>3. QED
        BY <1>11, <3>3, <4>2
    <3>4. QED
      BY <3>1, <3>2, <3>3
  <2>2. \A i \in 1 .. N + 1 : index'[i].id <= N + 1 /\ (i # k => index'[i].id <= N)
    <3> SUFFICES ASSUME NEW i \in 1 .. N + 1
                 PROVE  index'[i].id <= N + 1 /\ (i # k => index'[i].id <= N)
      OBVIOUS
    <3>1. CASE i = k
      BY <1>4, <1>6, <1>15, <3>1
    <3>2. CASE i # k
      <4>1. Old(i) \in 1 .. N /\ index'[i] = index[Old(i)]
        BY <1>11, <3>2
      <4>2. index[Old(i)].id <= N /\ index[Old(i)].id \in Nat
        BY <1>4, <1>5, <4>1 DEF QueryInv, IndexInv
      <4>3. QED
        BY <1>4, <4>1, <4>2
    <3>3. QED
      BY <3>1, <3>2
  <2>3. \A i, j \in 1 .. N + 1 : i < j => index'[i].id # index'[j].id
    <3> SUFFICES ASSUME NEW i \in 1 .. N + 1, NEW j \in 1 .. N + 1, i < j
                 PROVE  index'[i].id # index'[j].id
      OBVIOUS
    <3>1. CASE i = k \/ j = k
      BY <1>4, <1>6, <1>15, <2>2, <3>1
    <3>2. CASE i # k /\ j # k
      <4>1. Old(i) \in 1 .. N /\ Old(j) \in 1 .. N /\ Old(i) < Old(j)
        BY <1>11, <1>12, <3>2
      <4>2. index[Old(i)].id # index[Old(j)].id
        BY <1>4, <4>1 DEF QueryInv, IndexInv
      <4>3. QED
        BY <1>11, <3>2, <4>2
    <3>3. QED
      BY <3>1, <3>2
  <2>4. \A i, j \in 1 .. N + 1 : i # j => i < j \/ j < i
    BY <1>4
  <2>5. QED
    BY <1>9, <1>10, <2>1, <2>2, <2>3, <2>4 DEF IndexInv
<1>17. ResultsInv'
  <2>1. \A i \in DOMAIN results : \E j \in DOMAIN index' : results[i] = index'[j]
    BY <1>4, <1>10, <1>14 DEF QueryInv, ResultsInv
  <2>2. QED
    BY <1>2, <2>1 DEF QueryInv, ResultsInv
<1>18. CoverInv'
  <2>1. ASSUME NEW i \in 1 .. N + 1, index'[i].ts <= lastTS
        PROVE  Returned(index'[i])
    <3>1. CASE i = k
      <4>1. t <= lastTS /\ lastTS \in Int
        BY <1>6, <1>15, <2>1, <3>1 DEF QueryInv, ResultsInv
      <4>2. lastTS # -1
        BY <1>3, <4>1
      <4>3. index'[i].late
        BY <1>6, <1>15, <3>1, <4>2
      <4>4. QED
        BY <4>3 DEF Returned
    <3>2. CASE i # k
      BY <1>4, <1>11, <2>1, <3>2 DEF QueryInv, CoverInv
    <3>3. QED
      BY <3>1, <3>2
  <2>2. \A i \in DOMAIN index' : index'[i].ts <= lastTS => Returned(index'[i])
    BY <1>10, <2>1
  <2>3. errors \in Nat
    BY DEF QueryInv, CoverInv
  <2>4. QED
    BY <1>2, <2>2, <2>3 DEF CoverInv, Returned
<1>19. QED
  BY <1>16, <1>17, <1>18 DEF QueryInv
-----------------------------------------------------------------------------
(***************************************************************************)
(* A page is the part of the index that follows lastTS, up to PageSize.    *)
(***************************************************************************)
LEMMA PageFacts ==
    ASSUME QueryInv
    PROVE  /\ UpTo(lastTS) \in 0 .. Len(index)
           /\ Page \in Seq(Records)
           /\ Len(Page) = IF Len(index) - UpTo(lastTS) < PageSize
                          THEN Len(index) - UpTo(lastTS) ELSE PageSize
           /\ \A i \in 1 .. Len(Page) : Page[i] = index[UpTo(lastTS) + i]
           /\ \A i \in 1 .. Len(index) : index[i].ts <= lastTS <=> i <= UpTo(lastTS)
<1> DEFINE n == UpTo(lastTS)
           N == Len(index)
<1>1. index \in Seq(Records) /\ N \in Nat /\ lastTS \in Int
  BY DEF QueryInv, IndexInv, ResultsInv
<1>2. n \in 0 .. N /\ \A i \in 1 .. N : index[i].ts <= lastTS <=> i <= n
  BY <1>1, UpToIsPosition DEF QueryInv
<1> HIDE DEF n
<1>3. \A i \in n + 1 .. N : index[i] \in Records
  BY <1>1, <1>2
<1>4. Hits = SubSeq(index, n + 1, N)
  BY DEF Hits, n
<1>5. Hits \in Seq(Records) /\ Len(Hits) = N - n /\ \A i \in 1 .. N - n : Hits[i] = index[n + i]
  BY <1>1, <1>2, <1>3, <1>4
<1> DEFINE p == IF N - n < PageSize THEN N - n ELSE PageSize
<1>6. p \in Nat /\ p <= N - n /\ PageSize \in Nat
  BY <1>1, <1>2, FeedsAssumption
<1>7. Page = SubSeq(Hits, 1, p)
  BY <1>5 DEF Page
<1> HIDE DEF p
<1>8. \A i \in 1 .. p : Hits[i] \in Records
  BY <1>1, <1>2, <1>5, <1>6
<1>9. Page \in Seq(Records) /\ Len(Page) = p /\ \A i \in 1 .. p : Page[i] = Hits[i]
  BY <1>5, <1>6, <1>7, <1>8
<1>10. \A i \in 1 .. p : Page[i] = index[n + i]
  <2>1. \A i \in 1 .. p : i \in 1 .. N - n
    BY <1>1, <1>2, <1>6
  <2>2. QED
    BY <1>5, <1>9, <2>1
<1>11. QED
  BY <1>2, <1>9, <1>10 DEF n, p

LEMMA PageStep ==
    ASSUME QueryInv, Page # <<>>,
           UNCHANGED <<index, errors>>, qpc = "search", UNCHANGED qpc,
           results' = results \o Page,
           lastTS' = Last(Page).ts,
           ends' = ends \cup {Last(Page).ts}
    PROVE  QueryInv'
<1> DEFINE n == UpTo(lastTS)
           N == Len(index)
           p == Len(Page)
           M == Len(results)
<1>1. index \in Seq(Records) /\ N \in Nat /\ DOMAIN index = 1 .. N
  BY DEF QueryInv, IndexInv
<1>2. results \in Seq(Records) /\ M \in Nat /\ DOMAIN results = 1 .. M
  BY DEF QueryInv, ResultsInv
<1>3. n \in 0 .. N /\ \A i \in 1 .. N : index[i].ts <= lastTS <=> i <= n
  BY PageFacts
<1>4. Page \in Seq(Records) /\ p \in Nat /\ \A i \in 1 .. p : Page[i] = index[n + i]
  BY PageFacts
<1>5. p >= 1 /\ n + p <= N
  <2>1. p # 0
    BY <1>4, EmptySeq
  <2>2. p = IF N - n < PageSize THEN N - n ELSE PageSize
    BY PageFacts
  <2>3. QED
    BY <1>1, <1>3, <1>4, <2>1, <2>2, FeedsAssumption
<1>6. \A i \in 1 .. N : index[i] \in Records
  BY <1>1
<1>7. \A i \in 1 .. N : index[i].ts \in Nat
  BY <1>6 DEF Records
<1>8. lastTS \in Int
  BY DEF QueryInv, ResultsInv
<1> DEFINE R == results \o Page
           T == index[n + p].ts
<1>9. R \in Seq(Records) /\ Len(R) = M + p
      /\ \A i \in 1 .. M + p : R[i] = IF i <= M THEN results[i] ELSE Page[i - M]
  BY <1>2, <1>4, ConcatProperties
<1> HIDE DEF n, p, N, M, R
<1>10. n \in Nat /\ n + p \in 1 .. N
  BY <1>1, <1>3, <1>4, <1>5
<1>11. Last(Page).ts = T
  <2>1. Last(Page) = Page[p]
    BY DEF Last, p
  <2>2. Page[p] = index[n + p]
    BY <1>4, <1>5
  <2>3. QED
    BY <2>1, <2>2
<1>12. T \in Nat /\ T > lastTS
  BY <1>3, <1>4, <1>5, <1>7, <1>8, <1>10
<1> HIDE DEF T
<1>13. lastTS' = T /\ ends' = ends \cup {T} /\ results' = R
  BY <1>11 DEF R
<1>14. \A i \in 1 .. M : i \in 1 .. M + p /\ R[i] = results[i]
  BY <1>2, <1>4, <1>9
<1>15. \A i \in 1 .. M + p : i > M => n + (i - M) \in 1 .. N /\ n + (i - M) > n /\ n + (i - M) <= n + p
                                      /\ R[i] = index[n + (i - M)]
  <2> SUFFICES ASSUME NEW i \in 1 .. M + p, i > M
               PROVE  n + (i - M) \in 1 .. N /\ n + (i - M) > n /\ n + (i - M) <= n + p
                      /\ R[i] = index[n + (i - M)]
    OBVIOUS
  <2>1. i - M \in 1 .. p
    BY <1>2, <1>4
  <2>2. R[i] = Page[i - M]
    BY <1>2, <1>4, <1>9
  <2>3. Page[i - M] = index[n + (i - M)]
    BY <1>4, <2>1
  <2>4. QED
    BY <1>1, <1>4, <1>5, <1>10, <2>1, <2>2, <2>3
<1>16. IndexInv'
  BY DEF QueryInv, IndexInv
\* The records of the page have times between lastTS and T.
<1>17. \A i \in 1 .. M + p : i > M => R[i].ts > lastTS /\ R[i].ts <= T /\ R[i].ts \in Nat
  <2> SUFFICES ASSUME NEW i \in 1 .. M + p, i > M
               PROVE  R[i].ts > lastTS /\ R[i].ts <= T /\ R[i].ts \in Nat
    OBVIOUS
  <2> DEFINE q == n + (i - M)
  <2>1. q \in 1 .. N /\ q > n /\ q <= n + p /\ R[i] = index[q]
    BY <1>15
  <2> HIDE DEF q
  <2>2. index[q].ts \in Nat /\ index[q].ts > lastTS
    BY <1>1, <1>3, <1>7, <1>8, <1>10, <2>1
  <2>3. index[q].ts <= T
    <3>1. CASE q = n + p
      BY <1>12, <3>1 DEF T
    <3>2. CASE q < n + p
      BY <1>1, <1>10, <2>1, <3>2 DEF T, QueryInv, IndexInv
    <3>3. QED
      BY <1>1, <1>10, <2>1, <3>1, <3>2
  <2>4. QED
    BY <2>1, <2>2, <2>3
<1>18. \A i \in 1 .. M : R[i].ts <= lastTS /\ R[i].ts \in Nat
  <2>1. \A i \in 1 .. M : results[i] \in Records
    BY <1>2 DEF M
  <2>2. \A i \in 1 .. M : results[i].ts \in Nat
    BY <2>1 DEF Records
  <2>3. QED
    BY <1>2, <1>14, <2>2 DEF QueryInv, ResultsInv
<1>19. \A i \in 1 .. M + p : R[i].ts <= T
  <2> SUFFICES ASSUME NEW i \in 1 .. M + p
               PROVE  R[i].ts <= T
    OBVIOUS
  <2>1. CASE i > M
    BY <1>17, <2>1
  <2>2. CASE i <= M
    <3>1. i \in 1 .. M
      BY <1>2, <1>4, <2>2
    <3>2. R[i].ts <= lastTS /\ R[i].ts \in Nat
      BY <1>18, <3>1
    <3>3. QED
      BY <1>8, <1>12, <3>2
  <2>3. QED
    BY <1>2, <1>4, <2>1, <2>2
<1>20. \A i \in 1 .. M + p : \E j \in 1 .. N : R[i] = index[j]
  <2> SUFFICES ASSUME NEW i \in 1 .. M + p
               PROVE  \E j \in 1 .. N : R[i] = index[j]
    OBVIOUS
  <2>1. CASE i <= M
    <3>1. i \in 1 .. M
      BY <1>2, <2>1
    <3>2. QED
      BY <1>1, <1>2, <1>14, <3>1 DEF QueryInv, ResultsInv
  <2>2. CASE i > M
    BY <1>15, <2>2
  <2>3. i <= M \/ i > M
    BY <1>2, <1>4
  <2>4. QED
    BY <2>1, <2>2, <2>3, Zenon
<1>21. ASSUME NEW i \in 1 .. M + p, NEW j \in 1 .. M + p, i < j
       PROVE  R[i].ts <= R[j].ts /\ R[i].id # R[j].id
  <2>1. i \in Nat /\ j \in Nat /\ i >= 1 /\ j >= 1
    BY <1>2, <1>4
  <2>2. CASE j <= M
    <3>1. i \in 1 .. M /\ j \in 1 .. M /\ i # j
      BY <1>2, <1>21, <2>1, <2>2
    <3>2. QED
      BY <1>2, <1>14, <1>21, <3>1 DEF QueryInv, ResultsInv
  <2>3. CASE i <= M /\ j > M
    <3>1. i \in 1 .. M
      BY <1>2, <2>1, <2>3
    <3>2. R[i].ts <= lastTS /\ R[i].ts \in Nat
      BY <1>18, <3>1
    <3>3. R[j].ts > lastTS /\ R[j].ts \in Nat
      BY <1>17, <2>3
    <3>4. PICK a \in 1 .. N : R[i] = index[a]
      BY <1>20
    <3>5. PICK b \in 1 .. N : R[j] = index[b]
      BY <1>20
    <3>6. a # b
      BY <1>8, <3>2, <3>3, <3>4, <3>5
    <3>7. index[a].id # index[b].id
      BY <1>1, <3>6 DEF QueryInv, IndexInv
    <3>8. QED
      BY <1>8, <3>2, <3>3, <3>4, <3>5, <3>7
  <2>4. CASE i > M
    <3> DEFINE a == n + (i - M)
               b == n + (j - M)
    <3>1. j > M
      BY <1>2, <1>21, <2>1, <2>4
    <3>2. a \in 1 .. N /\ b \in 1 .. N /\ R[i] = index[a] /\ R[j] = index[b]
      BY <1>15, <2>4, <3>1
    <3>3. a < b
      BY <1>2, <1>10, <1>21, <2>1
    <3> HIDE DEF a, b
    <3>4. a # b
      BY <1>1, <3>2, <3>3
    <3>5. index[a].ts <= index[b].ts /\ index[a].id # index[b].id
      BY <1>1, <3>2, <3>3, <3>4 DEF QueryInv, IndexInv
    <3>6. QED
      BY <3>2, <3>5
  <2>5. QED
    BY <1>2, <2>1, <2>2, <2>3, <2>4
<1>22. DOMAIN R = 1 .. M + p
  BY <1>9
<1>23. ResultsInv'
  <2>1. \A i, j \in 1 .. M + p : i # j => i < j \/ j < i
    BY <1>2, <1>4
  <2>2. \A i, j \in 1 .. M + p : i # j => R[i].id # R[j].id
    BY <1>21, <2>1
  <2>3. \A i \in 1 .. M + p : \E j \in DOMAIN index' : R[i] = index'[j]
    BY <1>1, <1>20
  <2>4. lastTS' \in Int /\ lastTS' >= -1
    BY <1>12, <1>13
  <2>5. QED
    BY <1>9, <1>13, <1>19, <1>21, <1>22, <2>2, <2>3, <2>4 DEF ResultsInv
\* What is left out has the time of the page's last record.
<1>24. ASSUME NEW i \in 1 .. N, index[i].ts <= T
       PROVE  \/ \E j \in 1 .. M + p : R[j].id = index[i].id
              \/ index[i].late
              \/ index[i].ts \in ends \cup {T}
  <2>1. CASE i <= n
    <3>1. Returned(index[i])
      BY <1>1, <1>3, <2>1 DEF QueryInv, CoverInv
    <3>2. QED
      BY <1>2, <1>14, <3>1 DEF Returned
  <2>2. CASE i > n /\ i <= n + p
    <3>1. i - n \in 1 .. p /\ M + (i - n) \in 1 .. M + p /\ M + (i - n) > M
          /\ n + ((M + (i - n)) - M) = i
      BY <1>1, <1>2, <1>4, <1>10, <2>2
    <3>2. R[M + (i - n)] = index[i]
      BY <1>15, <3>1
    <3>3. QED
      BY <3>1, <3>2
  <2>3. CASE i > n + p
    <3>1. T <= index[i].ts
      BY <1>1, <1>10, <2>3 DEF T, QueryInv, IndexInv
    <3>2. index[i].ts = T
      BY <1>7, <1>12, <1>24, <3>1
    <3>3. QED
      BY <3>2
  <2>4. QED
    BY <1>1, <1>4, <1>10, <2>1, <2>2, <2>3
<1>25. CoverInv'
  <2>1. errors' \in Nat /\ qpc' # "returned"
    BY DEF QueryInv, CoverInv
  <2>2. UNCHANGED index /\ DOMAIN index' = 1 .. N /\ DOMAIN results' = 1 .. M + p
    BY <1>1, <1>13, <1>22
  <2>3. ASSUME NEW i \in 1 .. N, index[i].ts <= T
        PROVE  \/ \E j \in DOMAIN results' : results'[j].id = index[i].id
               \/ index[i].late
               \/ index[i].ts \in ends'
    BY <1>13, <1>24, <2>2, <2>3
  <2>4. QED
    BY <1>13, <2>1, <2>2, <2>3 DEF CoverInv, Returned
<1>26. QED
  BY <1>16, <1>23, <1>25 DEF QueryInv

LEMMA LastPageStep ==
    ASSUME QueryInv, Page = <<>>,
           UNCHANGED <<index, errors, results, lastTS, ends>>
    PROVE  QueryInv'
<1>1. Len(Page) = 0
  BY EmptySeq
<1>2. Len(index) \in Nat /\ DOMAIN index = 1 .. Len(index)
  BY DEF QueryInv, IndexInv
<1>3. UpTo(lastTS) = Len(index)
  BY <1>1, <1>2, PageFacts, FeedsAssumption
<1>4. \A i \in DOMAIN index : index[i].ts <= lastTS
  BY <1>2, <1>3, PageFacts
<1>5. QED
  BY <1>4 DEF QueryInv, IndexInv, ResultsInv, CoverInv, Returned
-----------------------------------------------------------------------------
LEMMA QueryNext == QueryInv /\ [Next]_vars => QueryInv'
<1> SUFFICES ASSUME QueryInv, [Next]_vars
             PROVE  QueryInv'
  OBVIOUS
<1>1. CASE UNCHANGED query
  BY <1>1 DEF query, QueryInv, IndexInv, ResultsInv, CoverInv, Returned
<1>2. CASE Ingest
  BY <1>2, IngestStep
<1>3. CASE Search
  <2>1. qpc = "search" /\ UNCHANGED <<index, errors>>
    BY <1>3 DEF Search
  <2>2. CASE Page # <<>>
    <3>1. /\ results' = results \o Page /\ lastTS' = Last(Page).ts
          /\ ends' = ends \cup {Last(Page).ts} /\ UNCHANGED qpc
      BY <1>3, <2>2 DEF Search
    <3>2. QED
      BY <2>1, <2>2, <3>1, PageStep
  <2>3. CASE Page = <<>>
    <3>1. UNCHANGED <<results, lastTS, ends>>
      BY <1>3, <2>3 DEF Search
    <3>2. QED
      BY <2>1, <2>3, <3>1, LastPageStep
  <2>4. QED
    BY <2>2, <2>3
<1>4. CASE SearchFails
  <2>1. /\ errors' = errors + 1
        /\ UNCHANGED <<index, lastTS, results, ends>>
    BY <1>4 DEF SearchFails
  <2>2. errors \in Nat /\ errors' \in Nat /\ errors' # 0
    BY <2>1 DEF QueryInv, CoverInv
  <2>3. QED
    BY <2>1, <2>2 DEF QueryInv, IndexInv, ResultsInv, CoverInv, Returned
<1>5. CASE Writer
  BY <1>1, <1>5 DEF Writer, WriteLine, WriteHalf, WriteRest, Rotate, Truncate, Write
<1>6. CASE Watch
  BY <1>1, <1>6 DEF Watch
<1>7. CASE Tail_
  BY <1>1, <1>7 DEF Tail_, Open, ReadExisting, HandleCreate, HandleWrite, IgnoreEvent, Stat, Receive
<1>8. CASE Stop
  BY <1>1, <1>8 DEF Stop
<1>9. CASE UNCHANGED vars
  BY <1>1, <1>9 DEF vars
<1>10. QED
  BY <1>2, <1>3, <1>4, <1>5, <1>6, <1>7, <1>8, <1>9 DEF Next

LEMMA QueryInit == Init => QueryInv
BY DEF Init, QueryInv, IndexInv, ResultsInv, CoverInv

(***************************************************************************)
(* As many ids as records, since no two records of the results share one.  *)
(***************************************************************************)
LEMMA IdsCounted ==
    ASSUME ResultsInv
    PROVE  Cardinality(Ids(results)) = Len(results)
<1> DEFINE M == Len(results)
           f == [i \in 1 .. M |-> results[i].id]
<1>1. M \in Nat /\ DOMAIN results = 1 .. M
  BY DEF ResultsInv
<1>2. f \in Bijection(1 .. M, Ids(results))
  <2>1. f \in [1 .. M -> Ids(results)]
    BY <1>1 DEF Ids
  <2>2. \A i, j \in 1 .. M : f[i] = f[j] => i = j
    BY <1>1 DEF ResultsInv
  <2>3. \A x \in Ids(results) : \E i \in 1 .. M : f[i] = x
    BY <1>1 DEF Ids
  <2>4. QED
    BY <2>1, <2>2, <2>3 DEF Bijection, Injection, Surjection, IsInjective
<1>3. IsFiniteSet(1 .. M)
  BY <1>1, FS_Interval
<1>4. Cardinality(1 .. M) = M
  <2> HIDE DEF M, f
  <2>1. M \in Int /\ (1 > M => M = 0) /\ M - 1 + 1 = M
    BY <1>1
  <2>2. Cardinality(1 .. M) = IF 1 > M THEN 0 ELSE M - 1 + 1
    BY <2>1, FS_Interval
  <2>3. QED
    BY <2>1, <2>2
<1>5. ExistsBijection(1 .. M, Ids(results))
  BY <1>2 DEF ExistsBijection
<1>6. QED
  BY <1>3, <1>4, <1>5, FS_Bijection

(***************************************************************************)
(* QueryES returns no record twice and all of them by time, and without an *)
(* error every record that was there at the first page, unless it has the  *)
(* time of the last record of a page: for any size of a page and any       *)
(* records that arrive between two of them.                                *)
(***************************************************************************)
THEOREM PagesReturnAll == Spec => []PagesComplete
<1>1. QueryInv => PagesComplete
  <2> SUFFICES ASSUME QueryInv
               PROVE  PagesComplete
    OBVIOUS
  <2>1. Cardinality(Ids(results)) = Len(results)
    BY IdsCounted DEF QueryInv
  <2>2. \A i \in 1 .. Len(results) - 1 : results[i].ts <= results[i + 1].ts
    <3>1. Len(results) \in Nat /\ DOMAIN results = 1 .. Len(results)
      BY DEF QueryInv, ResultsInv
    <3>2. \A i \in 1 .. Len(results) - 1 :
            i \in DOMAIN results /\ i + 1 \in DOMAIN results /\ i < i + 1
      BY <3>1
    <3>3. QED
      BY <3>2 DEF QueryInv, ResultsInv
  <2>3. ASSUME qpc = "returned", errors = 0, NEW i \in DOMAIN index
        PROVE  index[i].id \in Ids(GetAuditLogs) \/ index[i].late \/ index[i].ts \in ends
    <3>1. Returned(index[i])
      BY <2>3 DEF QueryInv, CoverInv
    <3>2. GetAuditLogs = results
      BY <2>3 DEF GetAuditLogs
    <3>3. QED
      BY <3>1, <3>2 DEF Returned, Ids
  <2>4. QED
    BY <2>1, <2>2, <2>3 DEF PagesComplete
<1>2. QED
  BY <1>1, QueryInit, QueryNext, PTL DEF Spec
-----------------------------------------------------------------------------
(***************************************************************************)
(* The log file.  A file holds whole lines, three bytes each, and at most  *)
(* the first byte of another one.  Third counts the whole lines up to a    *)
(* position, and a file's first line follows the `earlier` lines.          *)
(***************************************************************************)
Bytes == [line : Nat, part : Nat]

LineReads == [line : Nat, len : Nat]

Third(i) == i \div 3

Whole(b) == Third(Len(b))

Content(b, earlier) ==
    \A k \in Nat, p \in 1 .. 3 :
        3 * k + p <= Len(b) => b[3 * k + p] = Byte(earlier + k + 1, p)

Complete == IF half THEN written - 1 ELSE written

\* The whole lines that were written before the current file's.
Earlier == Complete - Whole(current)

older == files[Len(files) - 1]

EarlierStill == Earlier - Whole(older)

TailType ==
    /\ files \in Seq(Seq(Bytes)) /\ Len(files) >= 1
    /\ written \in Nat /\ half \in BOOLEAN
    /\ events \in Seq({"write", "create"})
    /\ watching \in BOOLEAN /\ truncated \in BOOLEAN
    /\ pc \in {"open", "read", "wait", "stat", "done"}
    /\ fd \in Nat /\ offset \in Nat /\ curReadPos \in Nat
    /\ delivered \in Seq(LineReads)

FileInv ==
    /\ Earlier \in Nat
    /\ Content(current, Earlier)
    /\ Len(current) = 3 * Whole(current) + (IF half THEN 1 ELSE 0)
    /\ half => written \in split

(***************************************************************************)
(* The reader in a file: it has read the lines up to its offset, and when  *)
(* it has read a line in part, that line was written in two parts.         *)
(***************************************************************************)
ReadUpTo(b, earlier) ==
    /\ curReadPos <= offset /\ offset <= Len(b)
    /\ Len(delivered) = earlier + Third(offset)
    /\ offset <= 3 * Third(offset) + 1
    /\ offset = 3 * Third(offset) + 1 => earlier + Third(offset) + 1 \in split

NoCreate == \A i \in DOMAIN events : events[i] = "write"

\* The reader has the current file, and an event for what it has not read.
InCurrent ==
    /\ NoCreate
    /\ ~truncated => /\ ReadUpTo(current, Earlier)
                     /\ pc \in {"wait", "stat"} /\ offset < Len(current) => events # <<>>
    /\ truncated => /\ curReadPos <= offset /\ Len(delivered) = Earlier
                    /\ current = <<>> \/ Len(current) < curReadPos

\* The reader has the file that was renamed: an event for the new file waits
\* for it, behind one for what it has not read and before one for what was
\* written since.
InOlder ==
    /\ ~truncated
    /\ EarlierStill \in Nat
    /\ Content(older, EarlierStill)
    /\ Len(older) = 3 * Whole(older)
    /\ ReadUpTo(older, EarlierStill)
    /\ \E c \in DOMAIN events :
          /\ events[c] = "create"
          /\ \A i \in DOMAIN events : i # c => events[i] = "write"
          /\ offset = Len(older) \/ pc = "read" \/ c > 1
          /\ current # <<>> => Len(events) > c

NotOpen ==
    /\ fd = 0 /\ Len(files) = 1 /\ delivered = <<>> /\ offset = 0 /\ curReadPos = 0
    /\ ~truncated /\ NoCreate /\ Earlier = 0

ReaderInv ==
    /\ pc = "open" => NotOpen
    /\ pc = "read" => offset = 0 /\ curReadPos = 0 /\ ~truncated
    /\ pc = "stat" \/ events # <<>> => watching
    /\ pc # "open" => \/ fd = Len(files) /\ InCurrent
                      \/ fd = Len(files) - 1 /\ fd >= 1 /\ InOlder

Delivered ==
    \A i \in DOMAIN delivered :
        delivered[i].line = i /\ (delivered[i].len = 2 \/ i \in split)

TailInv ==
    incidents = {} => TailType /\ FileInv /\ (pc # "done" => ReaderInv) /\ Delivered
-----------------------------------------------------------------------------
(***************************************************************************)
(* Whole lines, and what readLines finds in a file of them.                *)
(***************************************************************************)
LEMMA ThirdFacts ==
    ASSUME NEW i \in Nat
    PROVE  Third(i) \in Nat /\ 3 * Third(i) <= i /\ i < 3 * Third(i) + 3
BY DEF Third

LEMMA ThirdOf ==
    ASSUME NEW i \in Nat, NEW k \in Nat, 3 * k <= i, i < 3 * k + 3
    PROVE  Third(i) = k
BY DEF Third

LEMMA MaxFacts ==
    ASSUME NEW S, NEW m \in S, S \subseteq Int, \A x \in S : x <= m
    PROVE  Max(S) = m
<1>1. Max(S) \in S /\ \A y \in S : Max(S) >= y
  <2>1. \E x \in S : \A y \in S : x >= y
    OBVIOUS
  <2>2. QED
    BY <2>1 DEF Max
<1>2. Max(S) \in Int /\ m \in Int /\ Max(S) >= m /\ Max(S) <= m
  BY <1>1
<1>3. QED
  BY <1>2

Triples(a, m) == {3 * k : k \in a + 1 .. m}

LEMMA TriplesCount ==
    ASSUME NEW a \in Nat, NEW m \in Nat, a <= m
    PROVE  Cardinality(Triples(a, m)) = m - a
<1> DEFINE f == [i \in 1 .. m - a |-> 3 * (a + i)]
           d == m - a
<1>1. f \in Bijection(1 .. d, Triples(a, m))
  <2>1. f \in [1 .. d -> Triples(a, m)]
    <3> SUFFICES ASSUME NEW i \in 1 .. d
                 PROVE  3 * (a + i) \in Triples(a, m)
      OBVIOUS
    <3>1. a + i \in a + 1 .. m
      OBVIOUS
    <3>2. QED
      BY <3>1 DEF Triples
  <2>2. \A i, j \in 1 .. d : f[i] = f[j] => i = j
    OBVIOUS
  <2>3. \A x \in Triples(a, m) : \E i \in 1 .. d : f[i] = x
    <3> SUFFICES ASSUME NEW k \in a + 1 .. m
                 PROVE  \E i \in 1 .. d : f[i] = 3 * k
      BY DEF Triples
    <3>1. k - a \in 1 .. d /\ f[k - a] = 3 * k
      OBVIOUS
    <3>2. QED
      BY <3>1
  <2>4. QED
    BY <2>1, <2>2, <2>3 DEF Bijection, Injection, Surjection, IsInjective
<1>2. d \in Nat /\ d \in Int
  OBVIOUS
<1> HIDE DEF d
<1>3. (1 > d => d = 0) /\ d - 1 + 1 = d
  BY <1>2
<1>4. IsFiniteSet(1 .. d) /\ Cardinality(1 .. d) = IF 1 > d THEN 0 ELSE d - 1 + 1
  BY <1>2, FS_Interval
<1>5. ExistsBijection(1 .. d, Triples(a, m))
  BY <1>1 DEF ExistsBijection
<1>6. Cardinality(Triples(a, m)) = d
  BY <1>3, <1>4, <1>5, FS_Bijection
<1>7. QED
  BY <1>6 DEF d

(***************************************************************************)
(* A file of whole lines, or with one byte more, read from the start of a  *)
(* line or after its first byte.                                           *)
(***************************************************************************)
Readable(b, earlier, from) ==
    /\ b \in Seq(Bytes) /\ earlier \in Nat /\ from \in Nat
    /\ Content(b, earlier)
    /\ Len(b) <= 3 * Whole(b) + 1
    /\ from <= Len(b) /\ from <= 3 * Third(from) + 1

LEMMA EndsFacts ==
    ASSUME NEW b, NEW earlier, NEW from, Readable(b, earlier, from)
    PROVE  /\ Third(from) \in Nat /\ Whole(b) \in Nat /\ Third(from) <= Whole(b)
           /\ 3 * Third(from) <= from /\ 3 * Whole(b) <= Len(b)
           /\ Ends(b, from) = Triples(Third(from), Whole(b))
<1> DEFINE a == Third(from)
           m == Whole(b)
           N == Len(b)
<1>1. N \in Nat /\ from \in Nat /\ from <= N /\ from <= 3 * a + 1 /\ N <= 3 * m + 1
      /\ earlier \in Nat
  BY DEF Readable
<1>2. a \in Nat /\ 3 * a <= from /\ from < 3 * a + 3
  BY <1>1, ThirdFacts
<1>3. m \in Nat /\ 3 * m <= N /\ N < 3 * m + 3
  BY <1>1, ThirdFacts DEF Whole
<1>4. \A k \in Nat, p \in 1 .. 3 : 3 * k + p <= N => b[3 * k + p].part = p
  <2>1. \A k \in Nat, p \in 1 .. 3 : 3 * k + p <= N => b[3 * k + p] = Byte(earlier + k + 1, p)
    BY DEF Readable, Content
  <2>2. \A x, p : Byte(x, p).part = p
    BY DEF Byte
  <2>3. QED
    BY <2>1, <2>2, ZenonT(60)
<1> HIDE DEF a, m, N
<1>5. a <= m
  BY <1>1, <1>2, <1>3
<1>6. ASSUME NEW i \in from + 1 .. N, b[i].part = NewLine
      PROVE  i \in Triples(a, m)
  <2> DEFINE k == Third(i - 1)
             p == i - 3 * k
  <2>1. i \in Nat /\ i >= 1 /\ i - 1 \in Nat /\ i > from /\ i <= N
    BY <1>1, <1>6
  <2>2. k \in Nat /\ 3 * k <= i - 1 /\ i - 1 < 3 * k + 3
    BY <2>1, ThirdFacts
  <2> HIDE DEF k
  <2>3. p \in 1 .. 3 /\ 3 * k + p = i
    BY <2>1, <2>2
  <2> HIDE DEF p
  <2>4. b[i].part = p
    BY <1>4, <2>1, <2>2, <2>3
  <2>5. p = 3
    BY <1>6, <2>4 DEF NewLine
  <2>6. k + 1 \in a + 1 .. m /\ i = 3 * (k + 1)
    BY <1>1, <1>2, <1>3, <2>1, <2>2, <2>3, <2>5
  <2>7. QED
    BY <2>6 DEF Triples
<1>7. ASSUME NEW k \in a + 1 .. m
      PROVE  3 * k \in from + 1 .. N /\ b[3 * k].part = NewLine
  <2>1. k \in Nat /\ k - 1 \in Nat /\ 3 * (k - 1) + 3 = 3 * k /\ 3 * k <= N /\ 3 * k > from
    BY <1>1, <1>2, <1>3, <1>7
  <2>2. b[3 * k].part = 3
    <3> DEFINE h == k - 1
    <3>1. h \in Nat /\ 3 \in 1 .. 3 /\ 3 * h + 3 = 3 * k /\ 3 * k <= N
      BY <2>1
    <3> HIDE DEF h
    <3>2. 3 * h + 3 <= N => b[3 * h + 3].part = 3
      BY <1>4, <3>1
    <3>3. QED
      BY <3>1, <3>2
  <2>3. QED
    BY <1>1, <2>1, <2>2 DEF NewLine
<1>8. Ends(b, from) = Triples(a, m)
  <2>1. Ends(b, from) \subseteq Triples(a, m)
    BY <1>6 DEF Ends, N
  <2>2. Triples(a, m) \subseteq Ends(b, from)
    BY <1>7 DEF Ends, N, Triples
  <2>3. QED
    BY <2>1, <2>2
<1>9. QED
  BY <1>2, <1>3, <1>5, <1>8 DEF a, m, N

LEMMA NthEndFacts ==
    ASSUME NEW b, NEW earlier, NEW from, Readable(b, earlier, from),
           NEW n \in 1 .. Whole(b) - Third(from)
    PROVE  NthEnd(b, from, n) = 3 * (Third(from) + n)
<1> DEFINE a == Third(from)
           m == Whole(b)
           E == Ends(b, from)
           Rank(i) == Cardinality({j \in E : j <= i})
<1>1. a \in Nat /\ m \in Nat /\ a <= m /\ E = Triples(a, m)
  BY EndsFacts
<1>2. n \in 1 .. m - a
  OBVIOUS
<1> HIDE DEF a, m, E
<1>3. \A k \in a + 1 .. m : Rank(3 * k) = k - a
  <2> SUFFICES ASSUME NEW k \in a + 1 .. m
               PROVE  Rank(3 * k) = k - a
    OBVIOUS
  <2>1. {j \in E : j <= 3 * k} = Triples(a, k)
    BY <1>1 DEF Triples
  <2>2. Cardinality(Triples(a, k)) = k - a
    BY <1>1, TriplesCount
  <2>3. QED
    BY <2>1, <2>2
<1>4. a + n \in a + 1 .. m
  BY <1>1, <1>2
<1>5. 3 * (a + n) \in E /\ Rank(3 * (a + n)) = n
  <2>1. 3 * (a + n) \in Triples(a, m)
    BY <1>4 DEF Triples
  <2>2. Rank(3 * (a + n)) = (a + n) - a
    BY <1>3, <1>4
  <2>3. QED
    BY <1>1, <1>2, <2>1, <2>2
<1>6. \A i \in E : Rank(i) = n => i = 3 * (a + n)
  <2> SUFFICES ASSUME NEW k \in a + 1 .. m, Rank(3 * k) = n
               PROVE  3 * k = 3 * (a + n)
    BY <1>1 DEF Triples
  <2>1. k - a = n
    BY <1>3
  <2>2. QED
    BY <1>1, <1>2, <2>1
<1>7. (CHOOSE i \in E : Rank(i) = n) = 3 * (a + n)
  <2> HIDE DEF Rank
  <2>1. QED
    BY <1>5, <1>6
<1>8. QED
  BY <1>7 DEF NthEnd, a, E

LEMMA LineFacts ==
    ASSUME NEW b, NEW earlier, NEW from, Readable(b, earlier, from),
           NEW n \in 1 .. Whole(b) - Third(from)
    PROVE  LET l == LineEnding(b, from, NthEnd(b, from, n))
           IN  /\ l \in LineReads
               /\ l.line = earlier + Third(from) + n
               /\ l.len = 2 \/ (n = 1 /\ from = 3 * Third(from) + 1)
<1> DEFINE a == Third(from)
           m == Whole(b)
           i == 3 * (a + n)
           E == Ends(b, from)
           Before == {from} \cup {j \in E : j < i}
           l == LineEnding(b, from, NthEnd(b, from, n))
<1>1. a \in Nat /\ m \in Nat /\ a <= m /\ E = Triples(a, m) /\ 3 * a <= from /\ 3 * m <= Len(b)
  BY EndsFacts
<1>2. /\ earlier \in Nat /\ from \in Nat /\ from <= 3 * a + 1 /\ Len(b) \in Nat
      /\ \A k \in Nat, p \in 1 .. 3 : 3 * k + p <= Len(b) => b[3 * k + p] = Byte(earlier + k + 1, p)
  BY DEF Readable, Content
<1>3. l = [line |-> b[i].line, len |-> i - 1 - Max(Before)]
  BY NthEndFacts DEF LineEnding
<1>4. n \in 1 .. m - a
  OBVIOUS
<1> HIDE DEF a, m, E, l
<1>5. b[i].line = earlier + a + n
  <2> DEFINE h == a + n - 1
  <2>1. h \in Nat /\ 3 \in 1 .. 3 /\ 3 * h + 3 = i /\ i <= Len(b) /\ earlier + h + 1 = earlier + a + n
    BY <1>1, <1>2, <1>4
  <2> HIDE DEF h, i
  <2>2. b[i] = Byte(earlier + h + 1, 3)
    BY <1>2, <2>1
  <2>3. QED
    BY <2>1, <2>2 DEF Byte
<1>6. Before = {from} \cup {3 * k : k \in a + 1 .. a + n - 1}
  <2>1. {j \in E : j < i} = {3 * k : k \in a + 1 .. a + n - 1}
    BY <1>1, <1>4 DEF Triples
  <2>2. QED
    BY <2>1
<1>7. Before \subseteq Int
  BY <1>1, <1>2, <1>6
<1> HIDE DEF Before
<1>8. i - 1 - Max(Before) \in Nat /\ (i - 1 - Max(Before) = 2 \/ (n = 1 /\ from = 3 * a + 1))
  <2>1. CASE n = 1
    <3>1. \A k \in a + 1 .. a + n - 1 : FALSE
      BY <1>1, <2>1
    <3>2. Before = {from}
      BY <1>6, <3>1
    <3>3. Max(Before) = from
      <4>1. from \in Before /\ \A x \in Before : x <= from
        BY <1>2, <3>2
      <4>2. QED
        BY <1>7, <4>1, MaxFacts
    <3>4. QED
      BY <1>1, <1>2, <2>1, <3>3
  <2>2. CASE n # 1
    <3>1. a + n - 1 \in a + 1 .. a + n - 1
      BY <1>1, <1>4, <2>2
    <3>2. 3 * (a + n - 1) \in Before
      BY <1>6, <3>1
    <3>3. \A x \in Before : x <= 3 * (a + n - 1)
      BY <1>1, <1>2, <1>4, <1>6, <2>2
    <3>4. Max(Before) = 3 * (a + n - 1)
      BY <1>7, <3>2, <3>3, MaxFacts
    <3>5. i - 1 - Max(Before) = 2
      BY <1>1, <1>4, <3>4
    <3>6. QED
      BY <3>5
  <2>3. QED
    BY <2>1, <2>2
<1>9. l.line = earlier + a + n /\ l.len = i - 1 - Max(Before) /\ l \in LineReads
  BY <1>1, <1>2, <1>3, <1>4, <1>5, <1>8 DEF LineReads
<1>10. QED
  BY <1>8, <1>9 DEF a, l

LEMMA LinesFacts ==
    ASSUME NEW b, NEW earlier, NEW from, Readable(b, earlier, from)
    PROVE  /\ LinesFrom(b, from) \in Seq(LineReads)
           /\ Len(LinesFrom(b, from)) = Whole(b) - Third(from)
           /\ \A n \in 1 .. Whole(b) - Third(from) :
                 /\ LinesFrom(b, from)[n].line = earlier + Third(from) + n
                 /\ LinesFrom(b, from)[n].len = 2 \/ (n = 1 /\ from = 3 * Third(from) + 1)
<1> DEFINE d == Whole(b) - Third(from)
           L(n) == LineEnding(b, from, NthEnd(b, from, n))
<1>1. Third(from) \in Nat /\ Whole(b) \in Nat /\ Third(from) <= Whole(b)
      /\ Ends(b, from) = Triples(Third(from), Whole(b))
  BY EndsFacts
<1>2. Cardinality(Ends(b, from)) = d /\ d \in Nat
  BY <1>1, TriplesCount
<1>3. \A n \in 1 .. d : /\ L(n) \in LineReads
                        /\ L(n).line = earlier + Third(from) + n
                        /\ L(n).len = 2 \/ (n = 1 /\ from = 3 * Third(from) + 1)
  BY LineFacts
<1> HIDE DEF L
<1>4. LinesFrom(b, from) = [n \in 1 .. d |-> L(n)]
  BY <1>2 DEF LinesFrom, L
<1>5. [n \in 1 .. d |-> L(n)] \in Seq(LineReads) /\ Len([n \in 1 .. d |-> L(n)]) = d
  BY <1>2, <1>3
<1>6. \A n \in 1 .. d : [k \in 1 .. d |-> L(k)][n] = L(n)
  OBVIOUS
<1>7. QED
  BY <1>3, <1>4, <1>5, <1>6

LEMMA EndFacts ==
    ASSUME NEW b, NEW earlier, NEW from, Readable(b, earlier, from)
    PROVE  LET end == Max({from} \cup Ends(b, from))
           IN  /\ end \in Nat
               /\ end <= Len(b)
               /\ end - from >= Whole(b) - Third(from)
<1> DEFINE a == Third(from)
           m == Whole(b)
           S == {from} \cup Ends(b, from)
<1>1. a \in Nat /\ m \in Nat /\ a <= m /\ Ends(b, from) = Triples(a, m)
      /\ 3 * a <= from /\ 3 * m <= Len(b)
  BY EndsFacts
<1>2. from \in Nat /\ from <= Len(b) /\ from <= 3 * a + 1 /\ Len(b) \in Nat
  BY DEF Readable
<1>3. S = {from} \cup {3 * k : k \in a + 1 .. m}
  BY <1>1 DEF Triples
<1> HIDE DEF a, m, S
<1>4. S \subseteq Int
  BY <1>1, <1>2, <1>3
<1>5. CASE a = m
  <2>1. \A k \in a + 1 .. m : FALSE
    BY <1>1, <1>5
  <2>2. S = {from}
    BY <1>3, <2>1
  <2>3. Max(S) = from
    <3>1. from \in S /\ \A x \in S : x <= from
      BY <1>2, <2>2
    <3>2. QED
      BY <1>4, <3>1, MaxFacts
  <2>4. QED
    BY <1>1, <1>2, <1>5, <2>3 DEF S, a, m
<1>6. CASE a < m
  <2>1. m \in a + 1 .. m
    BY <1>1, <1>6
  <2>2. 3 * m \in S
    BY <1>3, <2>1
  <2>3. \A x \in S : x <= 3 * m
    BY <1>1, <1>2, <1>3, <1>6
  <2>4. Max(S) = 3 * m
    BY <1>4, <2>2, <2>3, MaxFacts
  <2>5. 3 * m \in Nat /\ 3 * m <= Len(b) /\ 3 * m - from >= m - a
    BY <1>1, <1>2, <1>6
  <2>6. QED
    BY <2>4, <2>5 DEF S, a, m
<1>7. QED
  BY <1>1, <1>5, <1>6

(***************************************************************************)
(* readLines delivers the lines that the reader has not seen, and consumes *)
(* the file; at its end it delivers nothing.                               *)
(***************************************************************************)
LEMMA ReadStep ==
    ASSUME NEW b, NEW earlier, NEW from, NEW pos \in Nat,
           Readable(b, earlier, from), pos <= from,
           b = files[fd], readLines(from, pos), UNCHANGED split,
           delivered \in Seq(LineReads), Delivered,
           Len(delivered) = earlier + Third(from),
           from = 3 * Third(from) + 1 => earlier + Third(from) + 1 \in split
    PROVE  /\ delivered' \in Seq(LineReads) /\ Delivered'
           /\ Len(delivered') = earlier + Whole(b)
           /\ offset' = Len(b)
           /\ curReadPos' \in Nat /\ curReadPos' <= Len(b)
<1> DEFINE a == Third(from)
           m == Whole(b)
           d == m - a
           new == LinesFrom(b, from)
           M == Len(delivered)
           end == Max({from} \cup Ends(b, from))
<1>1. a \in Nat /\ m \in Nat /\ a <= m
  BY EndsFacts
<1>2. /\ new \in Seq(LineReads) /\ Len(new) = d
      /\ \A n \in 1 .. d : /\ new[n].line = earlier + a + n
                           /\ new[n].len = 2 \/ (n = 1 /\ from = 3 * a + 1)
  BY LinesFacts
<1>3. end \in Nat /\ end <= Len(b) /\ end - from >= d
  BY EndFacts
<1>4. earlier \in Nat /\ from \in Nat /\ from <= Len(b) /\ Len(b) \in Nat
  BY DEF Readable
<1>5. /\ delivered' = delivered \o new
      /\ offset' = Max({from, Len(b)})
      /\ curReadPos' = pos + (end - from) - Len(new)
  BY DEF readLines
<1>6. M \in Nat /\ M = earlier + a
  OBVIOUS
<1> HIDE DEF a, m, new, M, end
<1>7. offset' = Len(b)
  <2>1. Len(b) \in {from, Len(b)} /\ {from, Len(b)} \subseteq Int
        /\ \A x \in {from, Len(b)} : x <= Len(b)
    BY <1>4
  <2>2. QED
    BY <1>5, <2>1, MaxFacts
<1>8. curReadPos' \in Nat /\ curReadPos' <= Len(b)
  BY <1>1, <1>2, <1>3, <1>4, <1>5
<1>9. /\ delivered \o new \in Seq(LineReads)
      /\ Len(delivered \o new) = M + Len(new)
      /\ \A i \in 1 .. M + Len(new) :
           (delivered \o new)[i] = IF i <= M THEN delivered[i] ELSE new[i - M]
  BY <1>2, ConcatProperties DEF M
<1>10. /\ delivered' \in Seq(LineReads) /\ Len(delivered') = M + d
       /\ \A i \in 1 .. M + d : delivered'[i] = IF i <= M THEN delivered[i] ELSE new[i - M]
  BY <1>2, <1>5, <1>9
<1>11. ASSUME NEW i \in 1 .. M + d
       PROVE  delivered'[i].line = i /\ (delivered'[i].len = 2 \/ i \in split')
  <2>1. CASE i <= M
    <3>1. i \in DOMAIN delivered /\ delivered'[i] = delivered[i]
      BY <1>1, <1>6, <1>10, <1>11, <2>1 DEF M
    <3>2. QED
      BY <3>1 DEF Delivered
  <2>2. CASE i > M
    <3>1. i - M \in 1 .. d /\ delivered'[i] = new[i - M]
      BY <1>1, <1>6, <1>10, <1>11, <2>2
    <3>2. new[i - M].line = earlier + a + (i - M) /\ (new[i - M].len = 2 \/ (i - M = 1 /\ from = 3 * a + 1))
      BY <1>2, <3>1
    <3>3. earlier + a + (i - M) = i
      BY <1>1, <1>4, <1>6, <1>11
    <3>4. i - M = 1 /\ from = 3 * a + 1 => i \in split'
      <4>1. from = 3 * a + 1 => earlier + a + 1 \in split'
        BY DEF a
      <4>2. i - M = 1 => i = earlier + a + 1
        BY <1>1, <1>4, <3>3
      <4>3. QED
        BY <4>1, <4>2
    <3>5. QED
      BY <3>1, <3>2, <3>3, <3>4
  <2>3. QED
    BY <1>1, <1>6, <2>1, <2>2
<1>12. DOMAIN delivered' = 1 .. M + d
  BY <1>10
<1>13. Delivered'
  BY <1>11, <1>12 DEF Delivered
<1>14. Len(delivered') = earlier + m
  BY <1>1, <1>4, <1>6, <1>10
<1>15. QED
  BY <1>7, <1>8, <1>10, <1>13, <1>14 DEF m

LEMMA ReadNothing ==
    ASSUME NEW b \in Seq(Bytes), NEW from \in Nat, NEW pos \in Nat,
           Len(b) <= from, b = files[fd], readLines(from, pos),
           delivered \in Seq(LineReads)
    PROVE  UNCHANGED delivered /\ offset' = from /\ curReadPos' = pos
<1>1. Len(b) \in Nat
  OBVIOUS
<1>2. Ends(b, from) = {}
  <2>1. \A i \in from + 1 .. Len(b) : FALSE
    BY <1>1
  <2>2. QED
    BY <2>1 DEF Ends
<1>3. Cardinality(Ends(b, from)) = 0
  BY <1>2, FS_EmptySet
<1>4. LinesFrom(b, from) = <<>>
  <2> DEFINE L(n) == LineEnding(b, from, NthEnd(b, from, n))
  <2> HIDE DEF L
  <2>1. LinesFrom(b, from) = [n \in 1 .. 0 |-> L(n)]
    BY <1>3 DEF LinesFrom, L
  <2>2. [n \in 1 .. 0 |-> L(n)] = <<>>
    OBVIOUS
  <2>3. QED
    BY <2>1, <2>2
<1>5. Max({from} \cup Ends(b, from)) = from
  <2> DEFINE S == {from} \cup Ends(b, from)
  <2>1. S = {from}
    BY <1>2
  <2>2. from \in S /\ S \subseteq Int /\ \A x \in S : x <= from
    BY <2>1
  <2> HIDE DEF S
  <2>3. Max(S) = from
    BY <2>2, MaxFacts
  <2>4. QED
    BY <2>3 DEF S
<1>6. Max({from, Len(b)}) = from
  <2>1. from \in {from, Len(b)} /\ {from, Len(b)} \subseteq Int
        /\ \A x \in {from, Len(b)} : x <= from
    BY <1>1
  <2>2. QED
    BY <2>1, MaxFacts
<1>7. /\ delivered' = delivered \o <<>>
      /\ offset' = from
      /\ curReadPos' = pos + (from - from) - Len(<<>>)
  BY <1>4, <1>5, <1>6 DEF readLines
<1>8. delivered \o <<>> = delivered
  BY ConcatEmptySeq
<1>9. Len(<<>>) = 0
  OBVIOUS
<1>10. QED
  BY <1>7, <1>8, <1>9
-----------------------------------------------------------------------------
(***************************************************************************)
(* The writer.  Bytes are appended to the current file, with an event.     *)
(***************************************************************************)
LEMMA CurrentFacts ==
    ASSUME TailType
    PROVE  /\ Len(files) \in Nat /\ Len(files) >= 1 /\ Len(files) \in DOMAIN files
           /\ DOMAIN files = 1 .. Len(files)
           /\ current \in Seq(Bytes) /\ Len(current) \in Nat /\ Whole(current) \in Nat
           /\ \A i \in 1 .. Len(files) : files[i] \in Seq(Bytes) /\ Whole(files[i]) \in Nat
<1>1. /\ files \in Seq(Seq(Bytes)) /\ Len(files) \in Nat /\ Len(files) >= 1
      /\ DOMAIN files = 1 .. Len(files)
  BY DEF TailType
<1>2. \A i \in 1 .. Len(files) : files[i] \in Seq(Bytes)
  BY <1>1
<1>3. \A i \in 1 .. Len(files) : Len(files[i]) \in Nat
  BY <1>2
<1>4. \A i \in 1 .. Len(files) : Whole(files[i]) \in Nat
  BY <1>3, ThirdFacts DEF Whole
<1>5. Len(files) \in 1 .. Len(files)
  BY <1>1
<1>6. QED
  BY <1>1, <1>2, <1>3, <1>4, <1>5 DEF current

LEMMA AppendFacts ==
    ASSUME TailType, NEW bytes \in Seq(Bytes),
           files' = [files EXCEPT ![Len(files)] = @ \o bytes]
    PROVE  /\ files' \in Seq(Seq(Bytes)) /\ Len(files') = Len(files)
           /\ current' = current \o bytes
           /\ current \o bytes \in Seq(Bytes)
           /\ Len(current \o bytes) = Len(current) + Len(bytes)
           /\ \A i \in 1 .. Len(files) - 1 : files'[i] = files[i]
<1>1. /\ Len(files) \in Nat /\ Len(files) >= 1 /\ Len(files) \in DOMAIN files
      /\ current \in Seq(Bytes) /\ DOMAIN files = 1 .. Len(files)
  BY CurrentFacts
<1>2. current \o bytes \in Seq(Bytes) /\ Len(current \o bytes) = Len(current) + Len(bytes)
  BY <1>1, ConcatProperties
<1>3. files' = [files EXCEPT ![Len(files)] = current \o bytes]
  BY DEF current
<1> DEFINE c == current \o bytes
<1> HIDE DEF c
<1>4. c \in Seq(Bytes) /\ files' = [files EXCEPT ![Len(files)] = c]
  BY <1>2, <1>3 DEF c
<1>5. files' \in Seq(Seq(Bytes)) /\ Len(files') = Len(files)
  BY <1>1, <1>4 DEF TailType
<1>6. files'[Len(files)] = c
  BY <1>1, <1>4
<1>7. \A i \in 1 .. Len(files) - 1 : files'[i] = files[i]
  <2> DEFINE N == Len(files)
  <2>1. N \in Nat /\ DOMAIN files = 1 .. N /\ files' = [files EXCEPT ![N] = c]
    BY <1>1, <1>4
  <2> HIDE DEF N
  <2>2. \A i \in 1 .. N - 1 : i \in 1 .. N /\ i # N
    BY <2>1
  <2>3. \A i \in 1 .. N - 1 : files'[i] = files[i]
    BY <2>1, <2>2
  <2>4. QED
    BY <2>3 DEF N
<1>8. QED
  BY <1>2, <1>5, <1>6, <1>7 DEF c, current

LEMMA NotifyFacts ==
    ASSUME NEW event \in {"write", "create"}, Notify(event), UNCHANGED watching,
           events \in Seq({"write", "create"}),
           events # <<>> => watching
    PROVE  /\ events' \in Seq({"write", "create"})
           /\ DOMAIN events = 1 .. Len(events) /\ Len(events) \in Nat
           /\ DOMAIN events' = 1 .. Len(events') /\ Len(events') \in Nat
           /\ Len(events') >= Len(events)
           /\ \A i \in 1 .. Len(events) : events'[i] = events[i]
           /\ \A i \in 1 .. Len(events') : i > Len(events) => events'[i] = event
           /\ events' # <<>> => watching'
           /\ watching => events' # <<>> /\ Len(events') >= 1 /\ events'[Len(events')] = event
<1>1. Len(events) \in Nat /\ DOMAIN events = 1 .. Len(events)
  OBVIOUS
<1>2. CASE watching /\ events' = Append(events, event)
  <2>1. /\ events' \in Seq({"write", "create"}) /\ Len(events') = Len(events) + 1
        /\ \A i \in 1 .. Len(events) : events'[i] = events[i]
        /\ events'[Len(events) + 1] = event
    BY <1>2
  <2>2. events' # <<>>
    BY <1>1, <2>1
  <2>3. \A i \in 1 .. Len(events) + 1 : i > Len(events) => i = Len(events) + 1
    BY <1>1
  <2>4. QED
    BY <1>1, <1>2, <2>1, <2>2, <2>3
<1>3. CASE ~watching /\ UNCHANGED events
  BY <1>1, <1>3
<1>4. CASE events # <<>> /\ Last(events) = event /\ UNCHANGED events
  <2>1. Len(events) >= 1 /\ events[Len(events)] = event
    BY <1>1, <1>4 DEF Last
  <2>2. QED
    BY <1>1, <1>4, <2>1
<1>5. QED
  BY <1>2, <1>3, <1>4 DEF Notify

LEMMA WriteStep ==
    ASSUME TailInv, NEW bytes \in Seq(Bytes), Len(bytes) >= 1,
           Write(bytes), pc # "done", incidents' = {},
           written' \in Nat, half' \in BOOLEAN, split \subseteq split',
           FileInv', Earlier' = Earlier
    PROVE  TailInv'
<1>1. incidents = {} /\ (watching \/ pc # "wait")
      /\ (~truncated \/ ~(Len(current \o bytes) >= curReadPos))
  BY DEF Write, Incident
<1>2. TailType /\ FileInv /\ ReaderInv /\ Delivered
  BY <1>1 DEF TailInv
<1>3. /\ files' = [files EXCEPT ![Len(files)] = @ \o bytes]
      /\ Notify("write")
      /\ UNCHANGED <<watching, truncated, pc, fd, offset, curReadPos, delivered>>
  BY DEF Write, reader
<1>4. /\ Len(files) \in Nat /\ Len(files) >= 1
      /\ current \in Seq(Bytes) /\ Len(current) \in Nat
  BY <1>2, CurrentFacts
<1>5. /\ files' \in Seq(Seq(Bytes)) /\ Len(files') = Len(files)
      /\ current' = current \o bytes
      /\ Len(current') = Len(current) + Len(bytes)
      /\ \A i \in 1 .. Len(files) - 1 : files'[i] = files[i]
  BY <1>2, <1>3, AppendFacts
<1>6. Len(bytes) \in Nat /\ Len(current') > Len(current) /\ Len(current') \in Nat
  BY <1>4, <1>5
<1>7. /\ events \in Seq({"write", "create"})
      /\ fd \in Nat /\ offset \in Nat /\ curReadPos \in Nat
      /\ watching \in BOOLEAN /\ truncated \in BOOLEAN /\ delivered \in Seq(LineReads)
      /\ pc \in {"open", "read", "wait", "stat", "done"}
  BY <1>2 DEF TailType
<1>8. events # <<>> => watching
  BY <1>2 DEF ReaderInv
<1>9. /\ events' \in Seq({"write", "create"})
      /\ DOMAIN events = 1 .. Len(events) /\ Len(events) \in Nat
      /\ DOMAIN events' = 1 .. Len(events') /\ Len(events') \in Nat
      /\ Len(events') >= Len(events)
      /\ \A i \in 1 .. Len(events) : events'[i] = events[i]
      /\ \A i \in 1 .. Len(events') : i > Len(events) => events'[i] = "write"
      /\ events' # <<>> => watching'
      /\ watching => events' # <<>> /\ Len(events') >= 1 /\ events'[Len(events')] = "write"
  BY <1>3, <1>7, <1>8, NotifyFacts
<1>10. TailType'
  BY <1>3, <1>4, <1>5, <1>7, <1>9 DEF TailType
<1>11. Delivered'
  BY <1>2, <1>3 DEF Delivered
<1>12. ASSUME NoCreate
       PROVE  NoCreate'
  <2>1. \A i \in 1 .. Len(events') : i <= Len(events) => events'[i] = "write"
    BY <1>9, <1>12 DEF NoCreate
  <2>2. \A i \in 1 .. Len(events') : i <= Len(events) \/ i > Len(events)
    BY <1>9
  <2>3. QED
    BY <1>9, <2>1, <2>2 DEF NoCreate
<1>13. CASE pc = "open"
  <2>1. NotOpen
    BY <1>2, <1>13 DEF ReaderInv
  <2>2. NotOpen'
    BY <1>3, <1>5, <1>12, <2>1 DEF NotOpen
  <2>3. ReaderInv'
    BY <1>3, <1>9, <1>13, <2>2 DEF ReaderInv
  <2>4. QED
    BY <1>10, <1>11, <2>3 DEF TailInv
<1>14. CASE pc # "open" /\ fd = Len(files) /\ InCurrent
  <2>1. ASSUME ~truncated
        PROVE  ReadUpTo(current, Earlier)'
    <3>1. ReadUpTo(current, Earlier)
      BY <1>14, <2>1 DEF InCurrent
    <3>2. offset <= Len(current')
      BY <1>4, <1>6, <1>7, <3>1 DEF ReadUpTo
    <3>3. QED
      BY <1>3, <3>1, <3>2 DEF ReadUpTo
  <2>2. pc \in {"wait", "stat"} => events' # <<>>
    BY <1>1, <1>2, <1>9 DEF ReaderInv
  <2>3. truncated => curReadPos <= offset /\ Len(delivered) = Earlier /\ Len(current') < curReadPos
    <3>1. truncated => Len(current') < curReadPos
      BY <1>1, <1>5, <1>6, <1>7
    <3>2. QED
      BY <1>14, <3>1 DEF InCurrent
  <2>4. InCurrent'
    BY <1>3, <1>12, <1>14, <2>1, <2>2, <2>3 DEF InCurrent
  <2>5. ReaderInv'
    BY <1>2, <1>3, <1>5, <1>9, <1>14, <2>4 DEF ReaderInv
  <2>6. QED
    BY <1>10, <1>11, <2>5 DEF TailInv
<1>15. CASE pc # "open" /\ fd = Len(files) - 1 /\ fd >= 1 /\ InOlder
  <2>1. older' = older /\ EarlierStill' = EarlierStill
    <3>1. Len(files) - 1 \in 1 .. Len(files) - 1
      BY <1>4, <1>15
    <3>2. older' = older
      BY <1>5, <3>1 DEF older
    <3>3. QED
      BY <3>2 DEF EarlierStill
  <2>2. PICK c \in DOMAIN events :
          /\ events[c] = "create"
          /\ \A i \in DOMAIN events : i # c => events[i] = "write"
          /\ offset = Len(older) \/ pc = "read" \/ c > 1
    BY <1>15 DEF InOlder
  <2>3. c \in 1 .. Len(events) /\ c \in DOMAIN events' /\ events'[c] = "create"
    BY <1>9, <2>2
  <2>4. \A i \in DOMAIN events' : i # c => events'[i] = "write"
    <3> SUFFICES ASSUME NEW i \in 1 .. Len(events'), i # c
                 PROVE  events'[i] = "write"
      BY <1>9
    <3>1. CASE i <= Len(events)
      BY <1>9, <2>2, <3>1
    <3>2. CASE i > Len(events)
      BY <1>9, <3>2
    <3>3. QED
      BY <1>9, <3>1, <3>2
  <2>5. Len(events') > c
    <3>1. events # <<>>
      BY <1>9, <2>3
    <3>2. events'[Len(events')] = "write"
      BY <1>8, <1>9, <3>1
    <3>3. Len(events') # c
      BY <2>3, <3>2
    <3>4. QED
      BY <1>9, <2>3, <3>3
  <2>6. ReadUpTo(older, EarlierStill)'
    BY <1>3, <1>15, <2>1 DEF InOlder, ReadUpTo
  <2>7. Content(older, EarlierStill)'
    BY <1>15, <2>1 DEF InOlder, Content
  <2>8. \E x \in DOMAIN events' :
          /\ events'[x] = "create"
          /\ \A i \in DOMAIN events' : i # x => events'[i] = "write"
          /\ offset' = Len(older') \/ pc' = "read" \/ x > 1
          /\ current' # <<>> => Len(events') > x
    BY <1>3, <2>1, <2>2, <2>3, <2>4, <2>5
  <2>9. InOlder'
    BY <1>3, <1>15, <2>1, <2>6, <2>7, <2>8 DEF InOlder
  <2>10. ReaderInv'
    BY <1>2, <1>3, <1>5, <1>9, <1>15, <2>9 DEF ReaderInv
  <2>11. QED
    BY <1>10, <1>11, <2>10 DEF TailInv
<1>16. QED
  BY <1>2, <1>13, <1>14, <1>15 DEF ReaderInv

\* The bytes that follow are those of the line that follows.
LEMMA ContentGrows ==
    ASSUME NEW b \in Seq(Bytes), NEW bytes \in Seq(Bytes), NEW earlier \in Nat,
           Content(b, earlier),
           \A k \in Nat, p \in 1 .. 3 :
              3 * k + p > Len(b) /\ 3 * k + p <= Len(b) + Len(bytes) =>
                 bytes[3 * k + p - Len(b)] = Byte(earlier + k + 1, p)
    PROVE  Content(b \o bytes, earlier)
<1>1. /\ Len(b) \in Nat /\ Len(bytes) \in Nat
      /\ Len(b \o bytes) = Len(b) + Len(bytes)
      /\ \A i \in 1 .. Len(b) + Len(bytes) :
            (b \o bytes)[i] = IF i <= Len(b) THEN b[i] ELSE bytes[i - Len(b)]
  BY ConcatProperties
<1>2. SUFFICES ASSUME NEW k \in Nat, NEW p \in 1 .. 3, 3 * k + p <= Len(b) + Len(bytes)
               PROVE  (b \o bytes)[3 * k + p] = Byte(earlier + k + 1, p)
  BY <1>1 DEF Content
<1> DEFINE i == 3 * k + p
<1>3. i \in Nat /\ i >= 1 /\ i <= Len(b) + Len(bytes)
  BY <1>2
<1>4. i <= Len(b) => b[i] = Byte(earlier + k + 1, p)
  BY DEF Content
<1>5. i > Len(b) => bytes[i - Len(b)] = Byte(earlier + k + 1, p)
  BY <1>3, SMTT(30)
<1> HIDE DEF i
<1>6. (b \o bytes)[i] = IF i <= Len(b) THEN b[i] ELSE bytes[i - Len(b)]
  BY <1>1, <1>3
<1>7. (b \o bytes)[i] = Byte(earlier + k + 1, p)
  BY <1>1, <1>3, <1>4, <1>5, <1>6
<1>8. QED
  BY <1>7 DEF i

LEMMA ByteType == \A line, part \in Nat : Byte(line, part) \in Bytes
BY DEF Byte, Bytes

LEMMA WriteLineStep ==
    ASSUME TailInv, WriteLine, incidents' = {}
    PROVE  TailInv'
<1> DEFINE bytes == [p \in 1 .. 3 |-> Byte(written + 1, p)]
           W == Whole(current)
<1>1. Write(bytes) /\ ~half /\ written' = written + 1 /\ UNCHANGED <<half, split>> /\ pc # "done"
  BY DEF WriteLine, Tailing
<1>2. incidents = {}
  BY <1>1 DEF Write
<1>3. TailType /\ FileInv
  BY <1>2 DEF TailInv
<1>4. written \in Nat /\ half \in BOOLEAN
  BY <1>3 DEF TailType
<1>5. \A p \in 1 .. 3 : bytes[p] = Byte(written + 1, p) /\ bytes[p] \in Bytes
  BY <1>4, ByteType
<1>6. bytes \in Seq(Bytes) /\ Len(bytes) = 3
  BY <1>5
<1> HIDE DEF bytes
<1>7. current \in Seq(Bytes) /\ Len(current) \in Nat /\ W \in Nat
  BY <1>3, CurrentFacts
<1>8. Earlier = written - W /\ Earlier \in Nat /\ Len(current) = 3 * W /\ Content(current, Earlier)
  BY <1>1, <1>3, <1>4, <1>7 DEF FileInv, Earlier, Complete
<1>9. current' = current \o bytes /\ Len(current') = 3 * W + 3
  <2>1. files' = [files EXCEPT ![Len(files)] = @ \o bytes]
    BY <1>1 DEF Write
  <2>2. current' = current \o bytes /\ Len(current \o bytes) = Len(current) + Len(bytes)
    BY <1>3, <1>6, <2>1, AppendFacts
  <2>3. QED
    BY <1>6, <1>7, <1>8, <2>2
<1> HIDE DEF W
<1>10. Whole(current') = W + 1
  <2>1. Len(current') \in Nat /\ W + 1 \in Nat /\ 3 * (W + 1) <= Len(current') /\ Len(current') < 3 * (W + 1) + 3
    BY <1>7, <1>9
  <2>2. QED
    BY <2>1, ThirdOf DEF Whole
<1>11. Earlier' = Earlier
  BY <1>1, <1>4, <1>7, <1>8, <1>10 DEF Earlier, Complete
<1>12. Content(current', Earlier)
  <2>1. ASSUME NEW k \in Nat, NEW p \in 1 .. 3, 3 * k + p > 3 * W, 3 * k + p <= 3 * W + 3
        PROVE  bytes[3 * k + p - 3 * W] = Byte(Earlier + k + 1, p)
    <3>1. k = W
      BY <1>7, <2>1
    <3>2. 3 * k + p - 3 * W = p /\ Earlier + k + 1 = written + 1
      BY <1>4, <1>7, <1>8, <3>1
    <3>3. QED
      BY <1>5, <3>2
  <2>2. \A k \in Nat, p \in 1 .. 3 :
           3 * k + p > Len(current) /\ 3 * k + p <= Len(current) + Len(bytes) =>
              bytes[3 * k + p - Len(current)] = Byte(Earlier + k + 1, p)
    BY <1>6, <1>8, <2>1
  <2>3. bytes \in Seq(Bytes) /\ current \in Seq(Bytes) /\ Earlier \in Nat /\ Content(current, Earlier)
    BY <1>6, <1>7, <1>8
  <2>4. Content(current \o bytes, Earlier)
    BY <2>2, <2>3, ContentGrows
  <2>5. QED
    BY <1>9, <2>4
<1>13. FileInv'
  BY <1>1, <1>7, <1>8, <1>9, <1>10, <1>11, <1>12 DEF FileInv
<1>14. written' \in Nat /\ half' \in BOOLEAN /\ split \subseteq split'
  BY <1>1, <1>4
<1>15. Write(bytes) /\ bytes \in Seq(Bytes) /\ Len(bytes) >= 1 /\ pc # "done"
  BY <1>1, <1>6
<1>16. QED
  BY <1>11, <1>13, <1>14, <1>15, WriteStep

LEMMA WriteHalfStep ==
    ASSUME TailInv, WriteHalf, incidents' = {}
    PROVE  TailInv'
<1> DEFINE bytes == <<Byte(written + 1, 1)>>
           W == Whole(current)
<1>1. Write(bytes) /\ ~half /\ written' = written + 1 /\ half' = TRUE
      /\ split' = split \cup {written + 1} /\ pc # "done"
  BY DEF WriteHalf, Tailing
<1>2. incidents = {}
  BY <1>1 DEF Write
<1>3. TailType /\ FileInv
  BY <1>2 DEF TailInv
<1>4. written \in Nat /\ half \in BOOLEAN
  BY <1>3 DEF TailType
<1>5. Byte(written + 1, 1) \in Bytes
  BY <1>4, ByteType
<1>6. bytes \in Seq(Bytes) /\ Len(bytes) = 1 /\ bytes[1] = Byte(written + 1, 1)
  BY <1>5
<1> HIDE DEF bytes
<1>7. current \in Seq(Bytes) /\ Len(current) \in Nat /\ W \in Nat
  BY <1>3, CurrentFacts
<1>8. Earlier = written - W /\ Earlier \in Nat /\ Len(current) = 3 * W /\ Content(current, Earlier)
  BY <1>1, <1>3, <1>4, <1>7 DEF FileInv, Earlier, Complete
<1>9. current' = current \o bytes /\ Len(current') = 3 * W + 1
  <2>1. files' = [files EXCEPT ![Len(files)] = @ \o bytes]
    BY <1>1 DEF Write
  <2>2. current' = current \o bytes /\ Len(current \o bytes) = Len(current) + Len(bytes)
    BY <1>3, <1>6, <2>1, AppendFacts
  <2>3. QED
    BY <1>6, <1>7, <1>8, <2>2
<1> HIDE DEF W
<1>10. Whole(current') = W
  <2>1. Len(current') \in Nat /\ 3 * W <= Len(current') /\ Len(current') < 3 * W + 3
    BY <1>7, <1>9
  <2>2. QED
    BY <1>7, <2>1, ThirdOf DEF Whole
<1>11. Earlier' = Earlier
  BY <1>1, <1>4, <1>7, <1>8, <1>10 DEF Earlier, Complete
<1>12. Content(current', Earlier)
  <2>1. ASSUME NEW k \in Nat, NEW p \in 1 .. 3, 3 * k + p > 3 * W, 3 * k + p <= 3 * W + 1
        PROVE  bytes[3 * k + p - 3 * W] = Byte(Earlier + k + 1, p)
    <3>1. k = W /\ p = 1
      BY <1>7, <2>1
    <3>2. 3 * k + p - 3 * W = 1 /\ Earlier + k + 1 = written + 1
      BY <1>4, <1>7, <1>8, <3>1
    <3>3. QED
      BY <1>6, <3>1, <3>2
  <2>2. \A k \in Nat, p \in 1 .. 3 :
           3 * k + p > Len(current) /\ 3 * k + p <= Len(current) + Len(bytes) =>
              bytes[3 * k + p - Len(current)] = Byte(Earlier + k + 1, p)
    BY <1>6, <1>8, <2>1, SMTT(30)
  <2>3. bytes \in Seq(Bytes) /\ current \in Seq(Bytes) /\ Earlier \in Nat /\ Content(current, Earlier)
    BY <1>6, <1>7, <1>8
  <2>4. Content(current \o bytes, Earlier)
    BY <2>2, <2>3, ContentGrows
  <2>5. QED
    BY <1>9, <2>4
<1>13. FileInv'
  BY <1>1, <1>7, <1>8, <1>9, <1>10, <1>11, <1>12 DEF FileInv
<1>14. written' \in Nat /\ half' \in BOOLEAN /\ split \subseteq split'
  BY <1>1, <1>4
<1>15. Write(bytes) /\ bytes \in Seq(Bytes) /\ Len(bytes) >= 1 /\ pc # "done"
  BY <1>1, <1>6
<1>16. QED
  BY <1>11, <1>13, <1>14, <1>15, WriteStep

LEMMA WriteRestStep ==
    ASSUME TailInv, WriteRest, incidents' = {}
    PROVE  TailInv'
<1> DEFINE bytes == <<Byte(written, 2), Byte(written, NewLine)>>
           W == Whole(current)
<1>1. Write(bytes) /\ half /\ half' = FALSE /\ UNCHANGED <<written, split>> /\ pc # "done"
  BY DEF WriteRest, Tailing
<1>2. incidents = {}
  BY <1>1 DEF Write
<1>3. TailType /\ FileInv
  BY <1>2 DEF TailInv
<1>4. written \in Nat /\ half \in BOOLEAN
  BY <1>3 DEF TailType
<1>5. Byte(written, 2) \in Bytes /\ Byte(written, NewLine) \in Bytes
  BY <1>4, ByteType DEF NewLine
<1>6. /\ bytes \in Seq(Bytes) /\ Len(bytes) = 2
      /\ bytes[1] = Byte(written, 2) /\ bytes[2] = Byte(written, 3)
  BY <1>5 DEF NewLine
<1> HIDE DEF bytes
<1>7. current \in Seq(Bytes) /\ Len(current) \in Nat /\ W \in Nat
  BY <1>3, CurrentFacts
<1>8. Earlier = written - 1 - W /\ Earlier \in Nat /\ Len(current) = 3 * W + 1 /\ Content(current, Earlier)
  BY <1>1, <1>3, <1>4, <1>7 DEF FileInv, Earlier, Complete
<1>9. current' = current \o bytes /\ Len(current') = 3 * W + 3
  <2>1. files' = [files EXCEPT ![Len(files)] = @ \o bytes]
    BY <1>1 DEF Write
  <2>2. current' = current \o bytes /\ Len(current \o bytes) = Len(current) + Len(bytes)
    BY <1>3, <1>6, <2>1, AppendFacts
  <2>3. QED
    BY <1>6, <1>7, <1>8, <2>2
<1> HIDE DEF W
<1>10. Whole(current') = W + 1
  <2>1. Len(current') \in Nat /\ W + 1 \in Nat /\ 3 * (W + 1) <= Len(current') /\ Len(current') < 3 * (W + 1) + 3
    BY <1>7, <1>9
  <2>2. QED
    BY <2>1, ThirdOf DEF Whole
<1>11. Earlier' = Earlier
  BY <1>1, <1>4, <1>7, <1>8, <1>10 DEF Earlier, Complete
<1>12. Content(current', Earlier)
  <2>1. ASSUME NEW k \in Nat, NEW p \in 1 .. 3,
               3 * k + p > 3 * W + 1, 3 * k + p <= 3 * W + 1 + 2
        PROVE  bytes[3 * k + p - (3 * W + 1)] = Byte(Earlier + k + 1, p)
    <3>1. k = W /\ (p = 2 \/ p = 3)
      BY <1>7, <2>1
    <3>2. 3 * k + p - (3 * W + 1) = p - 1 /\ Earlier + k + 1 = written
      BY <1>4, <1>7, <1>8, <3>1
    <3>3. bytes[p - 1] = Byte(written, p)
      BY <1>6, <3>1
    <3>4. QED
      BY <3>2, <3>3
  <2>2. \A k \in Nat, p \in 1 .. 3 :
           3 * k + p > Len(current) /\ 3 * k + p <= Len(current) + Len(bytes) =>
              bytes[3 * k + p - Len(current)] = Byte(Earlier + k + 1, p)
    BY <1>6, <1>8, <2>1, ZenonT(60)
  <2>3. bytes \in Seq(Bytes) /\ current \in Seq(Bytes) /\ Earlier \in Nat /\ Content(current, Earlier)
    BY <1>6, <1>7, <1>8
  <2>4. Content(current \o bytes, Earlier)
    BY <2>2, <2>3, ContentGrows
  <2>5. QED
    BY <1>9, <2>4
<1>13. FileInv'
  BY <1>1, <1>7, <1>8, <1>9, <1>10, <1>11, <1>12 DEF FileInv
<1>14. written' \in Nat /\ half' \in BOOLEAN /\ split \subseteq split'
  BY <1>1, <1>4
<1>15. Write(bytes) /\ bytes \in Seq(Bytes) /\ Len(bytes) >= 1 /\ pc # "done"
  BY <1>1, <1>6
<1>16. QED
  BY <1>11, <1>13, <1>14, <1>15, WriteStep

\* An empty file has no lines.
LEMMA EmptyFile ==
    /\ <<>> \in Seq(Bytes) /\ Len(<<>>) = 0 /\ Whole(<<>>) = 0
    /\ \A e : Content(<<>>, e)
<1>1. Third(0) = 0
  BY ThirdOf
<1>2. Len(<<>>) = 0 /\ <<>> \in Seq(Bytes)
  OBVIOUS
<1>3. \A k \in Nat, p \in 1 .. 3 : ~(3 * k + p <= 0)
  OBVIOUS
<1>4. QED
  BY <1>1, <1>2, <1>3 DEF Whole, Content

\* A new file: the reader still has the old one, and an event waits for it.
LEMMA RotateStep ==
    ASSUME TailInv, Rotate, incidents' = {}
    PROVE  TailInv'
<1> DEFINE N == Len(files)
<1>1. /\ incidents = {} /\ pc # "open" /\ watching /\ ~truncated /\ pc # "stat"
      /\ ~Contains(events, "create") /\ pc # "done"
  BY DEF Rotate, Incident, Tailing
<1>2. TailType /\ FileInv /\ ReaderInv /\ Delivered
  BY <1>1 DEF TailInv
<1>3. /\ ~half /\ pc # "done" /\ files' = Append(files, <<>>) /\ Notify("create") /\ truncated' = FALSE
      /\ UNCHANGED <<written, half, split, watching, pc, fd, offset, curReadPos, delivered>>
  BY DEF Rotate, reader, Tailing
<1>4. /\ files \in Seq(Seq(Bytes)) /\ N \in Nat /\ N >= 1
      /\ current \in Seq(Bytes) /\ Len(current) \in Nat /\ Whole(current) \in Nat
  BY <1>2, CurrentFacts DEF TailType
<1>5. /\ events \in Seq({"write", "create"}) /\ offset \in Nat /\ written \in Nat
      /\ pc \in {"open", "read", "wait", "stat", "done"}
      /\ events # <<>> => watching
  BY <1>2 DEF TailType, ReaderInv
<1>6. Len(events) \in Nat /\ DOMAIN events = 1 .. Len(events)
  BY <1>5
<1>7. \A i \in 1 .. Len(events) : events[i] # "create" /\ events[i] = "write"
  <2>1. \A i \in 1 .. Len(events) : events[i] \in {"write", "create"}
    BY <1>5
  <2>2. \A i \in 1 .. Len(events) : events[i] # "create"
    BY <1>1 DEF Contains
  <2>3. QED
    BY <2>1, <2>2
<1>8. fd = N /\ InCurrent
  <2>1. ~InOlder
    BY <1>6, <1>7 DEF InOlder
  <2>2. QED
    BY <1>1, <1>2, <2>1 DEF ReaderInv
<1>9. events' = Append(events, "create")
  <2>1. ~(events # <<>> /\ Last(events) = "create")
    <3>1. events # <<>> => Len(events) \in 1 .. Len(events)
      BY <1>5, <1>6
    <3>2. QED
      BY <1>7, <3>1 DEF Last
  <2>2. QED
    BY <1>1, <1>3, <2>1 DEF Notify
<1> DEFINE c == Len(events) + 1
<1>10. /\ events' \in Seq({"write", "create"}) /\ Len(events') = c /\ DOMAIN events' = 1 .. c
       /\ events'[c] = "create"
       /\ \A i \in 1 .. Len(events) : events'[i] = events[i]
  BY <1>5, <1>9
<1>11. c \in DOMAIN events' /\ \A i \in DOMAIN events' : i # c => events'[i] = "write"
  <2>1. \A i \in 1 .. c : i # c => i \in 1 .. Len(events)
    BY <1>6
  <2>2. c \in 1 .. c
    BY <1>6
  <2>3. QED
    BY <1>7, <1>10, <2>1, <2>2
<1>12. /\ files' \in Seq(Seq(Bytes)) /\ Len(files') = N + 1
       /\ files'[N + 1] = <<>> /\ \A i \in 1 .. N : files'[i] = files[i]
  <2>1. <<>> \in Seq(Bytes)
    BY EmptyFile
  <2>2. QED
    BY <1>3, <1>4, <2>1
<1>13. current' = <<>>
  BY <1>12 DEF current
<1>14. older' = current
  <2>1. Len(files') - 1 = N /\ N \in 1 .. N
    BY <1>4, <1>12
  <2>2. older' = files'[Len(files') - 1]
    BY DEF older
  <2>3. QED
    BY <1>12, <2>1, <2>2 DEF current
<1>15. Whole(current') = 0 /\ Len(current') = 0
  BY <1>13, EmptyFile
<1>16. Earlier = written - Whole(current) /\ Earlier \in Nat
  BY <1>2, <1>3 DEF FileInv, Earlier, Complete
<1>17. Earlier' = written
  BY <1>3, <1>5, <1>15 DEF Earlier, Complete
<1>18. EarlierStill' = Earlier
  BY <1>4, <1>5, <1>14, <1>16, <1>17 DEF EarlierStill
<1>19. FileInv'
  <2>1. Content(current, Earlier)'
    BY <1>13, EmptyFile
  <2>2. QED
    BY <1>3, <1>5, <1>15, <1>17, <2>1 DEF FileInv
<1>20. TailType'
  <2>1. files' \in Seq(Seq(Bytes)) /\ Len(files') >= 1 /\ events' \in Seq({"write", "create"})
    BY <1>4, <1>10, <1>12
  <2>2. truncated' \in BOOLEAN
    BY <1>3
  <2>3. QED
    BY <1>2, <1>3, <2>1, <2>2 DEF TailType
<1>21. Delivered'
  BY <1>2, <1>3 DEF Delivered
<1>22. ReadUpTo(older, EarlierStill)'
  <2>1. ReadUpTo(current, Earlier)
    BY <1>1, <1>8 DEF InCurrent
  <2>2. QED
    BY <1>3, <1>14, <1>18, <2>1 DEF ReadUpTo
<1>23. Content(older, EarlierStill)' /\ Len(older') = 3 * Whole(older')
  <2>1. Content(current, Earlier) /\ Len(current) = 3 * Whole(current) + 0
    BY <1>2, <1>3 DEF FileInv
  <2>2. Len(current) = 3 * Whole(current)
    BY <1>4, <2>1
  <2>3. QED
    BY <1>14, <1>18, <2>1, <2>2
<1>24. offset' = Len(older') \/ pc' = "read" \/ c > 1
  <2>1. CASE pc = "read"
    BY <1>3, <2>1
  <2>2. CASE pc = "wait"
    <3>1. offset <= Len(current) /\ (offset < Len(current) => events # <<>>)
      BY <1>1, <1>8, <2>2 DEF InCurrent, ReadUpTo
    <3>2. events # <<>> => c > 1
      BY <1>5, <1>6
    <3>3. QED
      BY <1>3, <1>4, <1>5, <1>14, <3>1, <3>2
  <2>3. QED
    BY <1>1, <1>3, <1>5, <2>1, <2>2
<1> HIDE DEF c
<1>25. \E x \in DOMAIN events' :
          /\ events'[x] = "create"
          /\ \A i \in DOMAIN events' : i # x => events'[i] = "write"
          /\ offset' = Len(older') \/ pc' = "read" \/ x > 1
          /\ current' # <<>> => Len(events') > x
  BY <1>10, <1>11, <1>13, <1>24
<1>26. InOlder'
  BY <1>3, <1>16, <1>18, <1>22, <1>23, <1>25 DEF InOlder
<1>27. fd' = Len(files') - 1 /\ fd' >= 1
  BY <1>3, <1>4, <1>8, <1>12
<1>28. ReaderInv'
  BY <1>1, <1>2, <1>3, <1>26, <1>27 DEF ReaderInv
<1>29. QED
  BY <1>19, <1>20, <1>21, <1>28 DEF TailInv

\* The file is emptied: everything in it was read, and is not there any more.
LEMMA TruncateStep ==
    ASSUME TailInv, Truncate, incidents' = {}
    PROVE  TailInv'
<1> DEFINE N == Len(files)
<1>1. /\ incidents = {} /\ ~half /\ current # <<>> /\ pc # "done"
      /\ fd = N /\ ~truncated /\ ~(offset < Len(current))
      /\ files' = [files EXCEPT ![N] = <<>>] /\ Notify("write") /\ truncated' = TRUE
      /\ UNCHANGED <<written, half, split, watching, pc, fd, offset, curReadPos, delivered>>
  BY DEF Truncate, Tailing, Incident, reader
<1>2. TailType /\ FileInv /\ ReaderInv /\ Delivered
  BY <1>1 DEF TailInv
<1>3. /\ files \in Seq(Seq(Bytes)) /\ N \in Nat /\ N >= 1 /\ N \in 1 .. N
      /\ Len(current) \in Nat /\ Whole(current) \in Nat
  BY <1>2, CurrentFacts DEF TailType
<1>4. /\ events \in Seq({"write", "create"}) /\ offset \in Nat /\ written \in Nat /\ curReadPos \in Nat
      /\ truncated \in BOOLEAN
  BY <1>2 DEF TailType
<1>5. InCurrent /\ pc # "open" /\ (events # <<>> => watching)
  <2>1. ~(fd = Len(files) - 1) /\ fd # 0
    BY <1>1, <1>3
  <2>2. QED
    BY <1>1, <1>2, <2>1 DEF ReaderInv, NotOpen
<1>6. Len(current) > 0
  BY <1>1, <1>2, <1>3, CurrentFacts, EmptySeq
<1>7. curReadPos <= offset /\ Len(delivered) = Earlier + Third(offset) /\ offset = Len(current)
  BY <1>1, <1>3, <1>4, <1>5 DEF InCurrent, ReadUpTo
<1>8. Earlier = written - Whole(current)
  BY <1>1 DEF Earlier, Complete
<1>9. Len(delivered) = written
  BY <1>3, <1>4, <1>7, <1>8 DEF Whole
<1>10. /\ files' \in Seq(Seq(Bytes)) /\ Len(files') = N /\ files'[N] = <<>>
  <2>1. <<>> \in Seq(Bytes)
    BY EmptyFile
  <2>2. QED
    BY <1>1, <1>3, <2>1, ExceptSeq
<1>11. current' = <<>>
  BY <1>10 DEF current
<1>12. Whole(current') = 0 /\ Len(current') = 0
  BY <1>11, EmptyFile
<1>13. Earlier' = written
  BY <1>1, <1>4, <1>12 DEF Earlier, Complete
<1>14. FileInv'
  <2>1. Content(current, Earlier)'
    BY <1>11, EmptyFile
  <2>2. QED
    BY <1>1, <1>4, <1>12, <1>13, <2>1 DEF FileInv
<1>15. events' \in Seq({"write", "create"}) /\ (\A i \in DOMAIN events' : events'[i] = "write")
       /\ (events' # <<>> => watching)
  <2>1. \A i \in DOMAIN events : events[i] = "write"
    BY <1>5 DEF InCurrent, NoCreate
  <2>2. QED
    BY <1>1, <1>4, <1>5, <2>1, NotifyFacts
<1>16. TailType'
  BY <1>1, <1>2, <1>10, <1>15 DEF TailType
<1>17. Delivered'
  BY <1>1, <1>2 DEF Delivered
<1>18. InCurrent'
  BY <1>1, <1>7, <1>9, <1>11, <1>13, <1>15 DEF InCurrent, NoCreate
<1>19. ReaderInv'
  <2>1. pc # "read"
    BY <1>2, <1>3, <1>6, <1>7 DEF ReaderInv
  <2>2. QED
    BY <1>1, <1>2, <1>5, <1>10, <1>15, <1>18, <2>1 DEF ReaderInv
<1>20. QED
  BY <1>14, <1>16, <1>17, <1>19 DEF TailInv
-----------------------------------------------------------------------------
(***************************************************************************)
(* The reader, which leaves the files alone.                               *)
(***************************************************************************)
LEMMA FileSame ==
    ASSUME UNCHANGED <<files, written, half, split>>
    PROVE  /\ current' = current /\ older' = older
           /\ Earlier' = Earlier /\ EarlierStill' = EarlierStill
           /\ FileInv => FileInv'
           /\ \A b, e : Content(b, e)' <=> Content(b, e)
<1>1. current' = current /\ older' = older
  BY DEF current, older
<1>2. Earlier' = Earlier
  BY <1>1 DEF Earlier, Complete
<1>3. QED
  BY <1>1, <1>2 DEF EarlierStill, FileInv, Content

LEMMA ReadCurrent ==
    ASSUME TailType, FileInv, Delivered, fd = Len(files),
           NEW from \in Nat, NEW pos \in Nat, pos <= from,
           from <= Len(current), from <= 3 * Third(from) + 1,
           Len(delivered) = Earlier + Third(from),
           from = 3 * Third(from) + 1 => Earlier + Third(from) + 1 \in split,
           readLines(from, pos), UNCHANGED <<files, written, half, split>>
    PROVE  /\ delivered' \in Seq(LineReads) /\ Delivered'
           /\ offset' = Len(current) /\ offset' \in Nat /\ curReadPos' \in Nat
           /\ ReadUpTo(current, Earlier)'
<1> DEFINE W == Whole(current)
<1>1. /\ current \in Seq(Bytes) /\ Len(current) \in Nat /\ W \in Nat
      /\ current = files[fd] /\ delivered \in Seq(LineReads)
      /\ written \in Nat /\ half \in BOOLEAN
  BY CurrentFacts DEF current, TailType
<1>2. Earlier \in Nat /\ Content(current, Earlier)
      /\ Len(current) = 3 * W + (IF half THEN 1 ELSE 0) /\ (half => written \in split)
  BY DEF FileInv
<1>3. Len(current) <= 3 * W + 1 /\ (Len(current) = 3 * W + 1 => half)
  BY <1>1, <1>2
<1>4. Readable(current, Earlier, from)
  BY <1>1, <1>2, <1>3 DEF Readable
<1>5. /\ delivered' \in Seq(LineReads) /\ Delivered'
      /\ Len(delivered') = Earlier + W
      /\ offset' = Len(current)
      /\ curReadPos' \in Nat /\ curReadPos' <= Len(current)
  BY <1>1, <1>4, ReadStep
<1>6. half => Earlier + W + 1 = written
  BY <1>1 DEF Earlier, Complete
<1>7. current' = current /\ Earlier' = Earlier
  BY FileSame
<1>8. Third(offset') = W
  BY <1>5 DEF Whole
<1> HIDE DEF W
<1>9. offset' = 3 * W + 1 => Earlier + W + 1 \in split'
  BY <1>2, <1>3, <1>5, <1>6
<1>10. ReadUpTo(current, Earlier)'
  BY <1>1, <1>3, <1>5, <1>7, <1>8, <1>9 DEF ReadUpTo
<1>11. QED
  BY <1>1, <1>5, <1>10

LEMMA ReadOlder ==
    ASSUME TailType, InOlder, Delivered, fd = Len(files) - 1, fd >= 1,
           readLines(offset, curReadPos), UNCHANGED <<files, written, half, split>>
    PROVE  /\ delivered' \in Seq(LineReads) /\ Delivered'
           /\ offset' = Len(older) /\ offset' \in Nat /\ curReadPos' \in Nat
           /\ ReadUpTo(older, EarlierStill)'
<1> DEFINE W == Whole(older)
<1>1. /\ older \in Seq(Bytes) /\ Len(older) \in Nat /\ W \in Nat
      /\ older = files[fd] /\ delivered \in Seq(LineReads)
      /\ offset \in Nat /\ curReadPos \in Nat
  <2>1. fd \in 1 .. Len(files) /\ older = files[fd]
    BY CurrentFacts DEF older
  <2>2. delivered \in Seq(LineReads) /\ offset \in Nat /\ curReadPos \in Nat
    BY Zenon DEF TailType
  <2>3. older \in Seq(Bytes) /\ Len(older) \in Nat /\ W \in Nat
    BY <2>1, CurrentFacts
  <2>4. QED
    BY <2>1, <2>2, <2>3, Zenon
<1>2. EarlierStill \in Nat /\ Content(older, EarlierStill) /\ Len(older) = 3 * W
      /\ ReadUpTo(older, EarlierStill)
  BY DEF InOlder
<1>3. Readable(older, EarlierStill, offset) /\ curReadPos <= offset
      /\ Len(delivered) = EarlierStill + Third(offset)
      /\ (offset = 3 * Third(offset) + 1 => EarlierStill + Third(offset) + 1 \in split)
  BY <1>1, <1>2 DEF Readable, ReadUpTo
<1>4. /\ delivered' \in Seq(LineReads) /\ Delivered'
      /\ Len(delivered') = EarlierStill + W
      /\ offset' = Len(older)
      /\ curReadPos' \in Nat /\ curReadPos' <= Len(older)
  BY <1>1, <1>3, ReadStep
<1>5. older' = older /\ EarlierStill' = EarlierStill
  BY FileSame
<1>6. Third(offset') = W
  BY <1>4 DEF Whole
<1> HIDE DEF W
<1>7. offset' # 3 * W + 1
  BY <1>1, <1>2, <1>4
<1>8. ReadUpTo(older, EarlierStill)'
  BY <1>1, <1>2, <1>4, <1>5, <1>6, <1>7, SMTT(30) DEF ReadUpTo
<1>9. QED
  BY <1>1, <1>4, <1>8

LEMMA OpenStep ==
    ASSUME TailInv, Open, incidents' = {}
    PROVE  TailInv'
<1>1. /\ pc = "open" /\ fd' = Len(files) /\ pc' = "read"
      /\ UNCHANGED <<files, written, half, split, events, watching, truncated, incidents,
                     offset, curReadPos, delivered>>
  BY DEF Open, file
<1>2. TailType /\ FileInv /\ ReaderInv /\ Delivered
  BY <1>1 DEF TailInv
<1>3. NotOpen
  BY <1>1, <1>2 DEF ReaderInv
<1>4. Len(current) \in Nat /\ Len(files) \in Nat
  BY <1>2, CurrentFacts
<1>5. current' = current /\ Earlier' = Earlier /\ FileInv'
  BY <1>1, <1>2, FileSame
<1>6. Third(0) = 0 /\ Len(<<>>) = 0
  BY ThirdOf
<1>7. ReadUpTo(current, Earlier)'
  BY <1>1, <1>3, <1>4, <1>5, <1>6 DEF NotOpen, ReadUpTo
<1>8. InCurrent'
  BY <1>1, <1>3, <1>7 DEF NotOpen, InCurrent, NoCreate
<1>9. ReaderInv'
  BY <1>1, <1>2, <1>3, <1>8 DEF ReaderInv, NotOpen
<1>10. TailType'
  BY <1>1, <1>2, <1>4 DEF TailType
<1>11. Delivered'
  BY <1>1, <1>2 DEF Delivered
<1>12. QED
  BY <1>5, <1>9, <1>10, <1>11 DEF TailInv

LEMMA ReadExistingStep ==
    ASSUME TailInv, ReadExisting, incidents' = {}
    PROVE  TailInv'
<1>1. /\ pc = "read" /\ readLines(0, 0) /\ pc' = "wait"
      /\ UNCHANGED <<files, written, half, split, events, watching, truncated, incidents, fd>>
  BY DEF ReadExisting, file
<1>2. TailType /\ FileInv /\ ReaderInv /\ Delivered
  BY <1>1 DEF TailInv
<1>3. offset = 0 /\ curReadPos = 0 /\ ~truncated
  BY <1>1, <1>2 DEF ReaderInv
<1>4. /\ current' = current /\ Earlier' = Earlier /\ FileInv'
      /\ older' = older /\ EarlierStill' = EarlierStill
      /\ \A b, e : Content(b, e)' <=> Content(b, e)
  BY <1>1, <1>2, FileSame
<1>5. Len(current) \in Nat /\ Len(files) \in Nat
  BY <1>2, CurrentFacts
<1>6. CASE fd = Len(files) /\ InCurrent
  <2>1. ReadUpTo(current, Earlier)
    BY <1>3, <1>6 DEF InCurrent
  <2>2. /\ 0 <= Len(current) /\ 0 <= 3 * Third(0) + 1 /\ Len(delivered) = Earlier + Third(0)
        /\ 0 = 3 * Third(0) + 1 => Earlier + Third(0) + 1 \in split
    BY <1>3, <2>1 DEF ReadUpTo
  <2>3. /\ delivered' \in Seq(LineReads) /\ Delivered'
        /\ offset' = Len(current) /\ offset' \in Nat /\ curReadPos' \in Nat
        /\ ReadUpTo(current, Earlier)'
    BY <1>1, <1>2, <1>6, <2>2, ReadCurrent
  <2>4. ~(offset' < Len(current'))
    BY <1>4, <1>5, <2>3
  <2>5. InCurrent'
    BY <1>1, <1>3, <1>6, <2>3, <2>4 DEF InCurrent, NoCreate
  <2>6. ReaderInv'
    BY <1>1, <1>2, <1>6, <2>5 DEF ReaderInv
  <2>7. TailType'
    BY <1>1, <1>2, <2>3 DEF TailType
  <2>8. QED
    BY <1>4, <2>3, <2>6, <2>7 DEF TailInv
<1>7. CASE fd = Len(files) - 1 /\ fd >= 1 /\ InOlder
  <2>1. /\ delivered' \in Seq(LineReads) /\ Delivered'
        /\ offset' = Len(older) /\ offset' \in Nat /\ curReadPos' \in Nat
        /\ ReadUpTo(older, EarlierStill)'
    BY <1>1, <1>2, <1>3, <1>7, ReadOlder
  <2>2. InOlder'
    BY <1>1, <1>4, <1>7, <2>1 DEF InOlder
  <2>3. ReaderInv'
    BY <1>1, <1>2, <1>7, <2>2 DEF ReaderInv
  <2>4. TailType'
    BY <1>1, <1>2, <2>1 DEF TailType
  <2>5. QED
    BY <1>4, <2>1, <2>3, <2>4 DEF TailInv
<1>8. QED
  BY <1>1, <1>2, <1>6, <1>7 DEF ReaderInv

\* What receiving an event leaves of the events.
LEMMA ReceiveFacts ==
    ASSUME events \in Seq({"write", "create"}), events # <<>>, events' = Tail(events)
    PROVE  /\ events' \in Seq({"write", "create"})
           /\ Len(events) \in Nat /\ Len(events) >= 1 /\ DOMAIN events = 1 .. Len(events)
           /\ Len(events') = Len(events) - 1 /\ DOMAIN events' = 1 .. Len(events) - 1
           /\ \A i \in 1 .. Len(events) - 1 : i + 1 \in 1 .. Len(events) /\ events'[i] = events[i + 1]
           /\ Head(events) = events[1]
<1> DEFINE N == Len(events)
<1>1. N \in Nat /\ DOMAIN events = 1 .. N
  OBVIOUS
<1>2. N >= 1
  BY <1>1, EmptySeq
<1>3. Tail(events) \in Seq({"write", "create"}) /\ Len(Tail(events)) = N - 1
  OBVIOUS
<1>4. \A i \in 1 .. N - 1 : Tail(events)[i] = events[i + 1]
  OBVIOUS
<1>5. \A i \in 1 .. N - 1 : i + 1 \in 1 .. N
  BY <1>1
<1>6. Head(events) = events[1]
  OBVIOUS
<1>7. DOMAIN Tail(events) = 1 .. N - 1
  BY <1>3
<1>8. QED
  BY <1>1, <1>2, <1>3, <1>4, <1>5, <1>6, <1>7

LEMMA HandleCreateStep ==
    ASSUME TailInv, HandleCreate, incidents' = {}
    PROVE  TailInv'
<1>1. /\ pc = "wait" /\ events # <<>> /\ Head(events) = "create" /\ events' = Tail(events)
      /\ fd' = Len(files) /\ offset' = 0 /\ curReadPos' = 0
      /\ UNCHANGED <<files, written, half, split, watching, incidents, truncated, pc, delivered>>
  BY DEF HandleCreate, Receive
<1>2. TailType /\ FileInv /\ ReaderInv /\ Delivered
  BY <1>1 DEF TailInv
<1>3. events \in Seq({"write", "create"})
  BY <1>2 DEF TailType
<1>4. /\ events' \in Seq({"write", "create"})
      /\ Len(events) \in Nat /\ Len(events) >= 1 /\ DOMAIN events = 1 .. Len(events)
      /\ Len(events') = Len(events) - 1 /\ DOMAIN events' = 1 .. Len(events) - 1
      /\ \A i \in 1 .. Len(events) - 1 : i + 1 \in 1 .. Len(events) /\ events'[i] = events[i + 1]
      /\ events[1] = "create"
  BY <1>1, <1>3, ReceiveFacts
<1>5. 1 \in DOMAIN events
  BY <1>4
<1>6. fd = Len(files) - 1 /\ fd >= 1 /\ InOlder
  <2>1. ~InCurrent
    BY <1>4, <1>5 DEF InCurrent, NoCreate
  <2>2. QED
    BY <1>1, <1>2, <2>1 DEF ReaderInv
<1>7. PICK c \in DOMAIN events :
        /\ events[c] = "create"
        /\ \A i \in DOMAIN events : i # c => events[i] = "write"
        /\ offset = Len(older) \/ pc = "read" \/ c > 1
        /\ current # <<>> => Len(events) > c
  BY <1>6 DEF InOlder
<1>8. c = 1
  BY <1>4, <1>5, <1>7
<1>9. offset = Len(older)
  BY <1>1, <1>7, <1>8
<1>10. /\ current' = current /\ Earlier' = Earlier /\ FileInv'
  BY <1>1, <1>2, FileSame
<1>11. Len(current) \in Nat /\ Len(files) \in Nat /\ Whole(older) \in Nat /\ Whole(current) \in Nat
  <2>1. Len(files) - 1 \in 1 .. Len(files)
    BY <1>2, <1>6, CurrentFacts
  <2>2. QED
    BY <1>2, <2>1, CurrentFacts DEF older
<1>12. Len(delivered) = Earlier
  <2>1. Len(delivered) = EarlierStill + Whole(older)
    BY <1>6, <1>9 DEF InOlder, ReadUpTo, Whole
  <2>2. Earlier \in Nat
    BY <1>2 DEF FileInv
  <2>3. QED
    BY <1>11, <2>1, <2>2 DEF EarlierStill
<1>13. NoCreate'
  <2>1. \A i \in 1 .. Len(events) - 1 : i + 1 # 1 /\ i + 1 \in 1 .. Len(events)
    BY <1>4
  <2>2. QED
    BY <1>4, <1>7, <1>8, <2>1 DEF NoCreate
<1>14. Third(0) = 0
  BY ThirdOf
<1>15. ReadUpTo(current, Earlier)'
  <2>1. Earlier \in Nat
    BY <1>2 DEF FileInv
  <2>2. QED
    BY <1>1, <1>10, <1>11, <1>12, <1>14, <2>1 DEF ReadUpTo
<1>16. offset' < Len(current') => events' # <<>>
  <2>1. 0 < Len(current) => Len(events) > 1
    BY <1>7, <1>8, <1>11, EmptyFile
  <2>2. Len(events) > 1 => events' # <<>>
    BY <1>4
  <2>3. QED
    BY <1>1, <1>10, <2>1, <2>2
<1>17. ~truncated'
  BY <1>1, <1>6 DEF InOlder
<1>18. InCurrent'
  BY <1>13, <1>15, <1>16, <1>17 DEF InCurrent
<1>19. ReaderInv'
  BY <1>1, <1>2, <1>18 DEF ReaderInv
<1>20. TailType'
  BY <1>1, <1>2, <1>4, <1>11 DEF TailType
<1>21. Delivered'
  BY <1>1, <1>2 DEF Delivered
<1>22. QED
  BY <1>10, <1>19, <1>20, <1>21 DEF TailInv

LEMMA HandleWriteStep ==
    ASSUME TailInv, HandleWrite, incidents' = {}
    PROVE  TailInv'
<1>1. /\ pc = "wait" /\ events # <<>> /\ Head(events) = "write" /\ events' = Tail(events)
      /\ readLines(offset, curReadPos) /\ pc' = "stat"
      /\ UNCHANGED <<files, written, half, split, watching, incidents, truncated, fd>>
  BY DEF HandleWrite, Receive
<1>2. TailType /\ FileInv /\ ReaderInv /\ Delivered
  BY <1>1 DEF TailInv
<1>3. /\ events \in Seq({"write", "create"}) /\ offset \in Nat /\ curReadPos \in Nat
      /\ delivered \in Seq(LineReads) /\ truncated \in BOOLEAN
  BY <1>2 DEF TailType
<1>4. /\ events' \in Seq({"write", "create"})
      /\ Len(events) \in Nat /\ Len(events) >= 1 /\ DOMAIN events = 1 .. Len(events)
      /\ Len(events') = Len(events) - 1 /\ DOMAIN events' = 1 .. Len(events) - 1
      /\ \A i \in 1 .. Len(events) - 1 : i + 1 \in 1 .. Len(events) /\ events'[i] = events[i + 1]
      /\ events[1] = "write"
  BY <1>1, <1>3, ReceiveFacts
<1>5. /\ current' = current /\ Earlier' = Earlier /\ FileInv'
      /\ older' = older /\ EarlierStill' = EarlierStill
      /\ \A b, e : Content(b, e)' <=> Content(b, e)
  BY <1>1, <1>2, FileSame
<1>6. Len(current) \in Nat /\ Len(files) \in Nat /\ current \in Seq(Bytes)
  BY <1>2, CurrentFacts
<1>7. watching'
  BY <1>1, <1>2 DEF ReaderInv
<1>8. CASE fd = Len(files) /\ InCurrent
  <2>1. NoCreate'
    BY <1>4, <1>8 DEF InCurrent, NoCreate
  <2>2. CASE ~truncated
    <3>1. ReadUpTo(current, Earlier)
      BY <1>8, <2>2 DEF InCurrent
    <3>2. /\ delivered' \in Seq(LineReads) /\ Delivered'
          /\ offset' = Len(current) /\ offset' \in Nat /\ curReadPos' \in Nat
          /\ ReadUpTo(current, Earlier)'
      <4>1. /\ curReadPos <= offset /\ offset <= Len(current) /\ offset <= 3 * Third(offset) + 1
            /\ Len(delivered) = Earlier + Third(offset)
            /\ offset = 3 * Third(offset) + 1 => Earlier + Third(offset) + 1 \in split
        BY <3>1 DEF ReadUpTo
      <4>2. QED
        BY <1>1, <1>2, <1>3, <1>8, <4>1, ReadCurrent
    <3>3. ~(offset' < Len(current'))
      BY <1>5, <1>6, <3>2
    <3>4. InCurrent'
      BY <1>1, <2>1, <2>2, <3>2, <3>3 DEF InCurrent
    <3>5. ReaderInv'
      BY <1>1, <1>7, <1>8, <3>4 DEF ReaderInv
    <3>6. TailType'
      BY <1>1, <1>2, <1>4, <3>2 DEF TailType
    <3>7. QED
      BY <1>5, <3>2, <3>5, <3>6 DEF TailInv
  <2>3. CASE truncated
    <3>1. /\ curReadPos <= offset /\ Len(delivered) = Earlier
          /\ current = <<>> \/ Len(current) < curReadPos
      BY <1>8, <2>3 DEF InCurrent
    <3>2. Len(current) <= offset
      BY <1>3, <1>6, <3>1, EmptyFile
    <3>3. current = files[fd]
      BY <1>8 DEF current
    <3>4. UNCHANGED delivered /\ offset' = offset /\ curReadPos' = curReadPos
      BY <1>1, <1>3, <1>6, <3>2, <3>3, ReadNothing
    <3>5. InCurrent'
      BY <1>1, <1>5, <2>1, <2>3, <3>1, <3>4 DEF InCurrent
    <3>6. ReaderInv'
      BY <1>1, <1>7, <1>8, <3>5 DEF ReaderInv
    <3>7. TailType'
      BY <1>1, <1>2, <1>4, <3>4 DEF TailType
    <3>8. Delivered'
      BY <1>1, <1>2, <3>4 DEF Delivered
    <3>9. QED
      BY <1>5, <3>6, <3>7, <3>8 DEF TailInv
  <2>4. QED
    BY <2>2, <2>3
<1>9. CASE fd = Len(files) - 1 /\ fd >= 1 /\ InOlder
  <2>1. /\ delivered' \in Seq(LineReads) /\ Delivered'
        /\ offset' = Len(older) /\ offset' \in Nat /\ curReadPos' \in Nat
        /\ ReadUpTo(older, EarlierStill)'
    BY <1>1, <1>2, <1>9, ReadOlder
  <2>2. PICK c \in DOMAIN events :
          /\ events[c] = "create"
          /\ \A i \in DOMAIN events : i # c => events[i] = "write"
          /\ current # <<>> => Len(events) > c
    BY <1>9 DEF InOlder
  <2>3. c \in 1 .. Len(events) /\ c # 1
    BY <1>4, <2>2
  <2> DEFINE d == c - 1
  <2>4. d \in 1 .. Len(events) - 1 /\ d + 1 = c
    BY <1>4, <2>3
  <2>5. d \in DOMAIN events' /\ events'[d] = "create"
    BY <1>4, <2>2, <2>4
  <2>6. \A i \in DOMAIN events' : i # d => events'[i] = "write"
    <3>1. \A i \in 1 .. Len(events) - 1 : i # d => i + 1 # c
      BY <1>4, <2>4
    <3>2. QED
      BY <1>4, <2>2, <3>1
  <2>7. current' # <<>> => Len(events') > d
    BY <1>4, <1>5, <2>2, <2>3
  <2> HIDE DEF d
  <2>8. InOlder'
    BY <1>1, <1>5, <1>9, <2>1, <2>5, <2>6, <2>7 DEF InOlder
  <2>9. ReaderInv'
    BY <1>1, <1>7, <1>9, <2>8 DEF ReaderInv
  <2>10. TailType'
    BY <1>1, <1>2, <1>4, <2>1 DEF TailType
  <2>11. QED
    BY <1>5, <2>1, <2>9, <2>10 DEF TailInv
<1>10. QED
  BY <1>1, <1>2, <1>8, <1>9 DEF ReaderInv

LEMMA StatStep ==
    ASSUME TailInv, Stat, incidents' = {}
    PROVE  TailInv'
<1>1. /\ pc = "stat" /\ pc' = "wait"
      /\ UNCHANGED <<files, written, half, split, events, watching, incidents, fd>>
  BY DEF Stat
<1>2. TailType /\ FileInv /\ ReaderInv /\ Delivered
  BY <1>1 DEF TailInv
<1>3. /\ offset \in Nat /\ curReadPos \in Nat /\ delivered \in Seq(LineReads)
      /\ truncated \in BOOLEAN /\ fd \in Nat
  BY <1>2 DEF TailType
<1>4. /\ current' = current /\ Earlier' = Earlier /\ FileInv'
      /\ older' = older /\ EarlierStill' = EarlierStill
      /\ \A b, e : Content(b, e)' <=> Content(b, e)
  BY <1>1, <1>2, FileSame
<1>5. Len(current) \in Nat /\ Len(files) \in Nat
  BY <1>2, CurrentFacts
\* The file was not shorter: nothing changes.
<1>6. ASSUME UNCHANGED <<offset, curReadPos, delivered, truncated>>
      PROVE  TailInv'
  <2>1. fd = Len(files) /\ InCurrent => InCurrent'
    BY <1>1, <1>4, <1>6 DEF InCurrent, NoCreate, ReadUpTo
  <2>2. InOlder => InOlder'
    BY <1>1, <1>4, <1>6 DEF InOlder, ReadUpTo
  <2>3. ReaderInv'
    BY <1>1, <1>2, <2>1, <2>2 DEF ReaderInv
  <2>4. TailType'
    BY <1>1, <1>2, <1>6 DEF TailType
  <2>5. Delivered'
    BY <1>1, <1>2, <1>6 DEF Delivered
  <2>6. QED
    BY <1>4, <2>3, <2>4, <2>5 DEF TailInv
<1>7. CASE fd = Len(files) /\ InCurrent /\ truncated /\ Len(files[fd]) < curReadPos
  <2>1. readLines(0, 0) /\ truncated' = FALSE
    BY <1>7 DEF Stat
  <2>2. Third(0) = 0 /\ Earlier \in Nat
    BY <1>2, ThirdOf DEF FileInv
  <2>3. Len(delivered) = Earlier
    BY <1>7 DEF InCurrent
  <2>4. /\ 0 <= Len(current) /\ 0 <= 3 * Third(0) + 1 /\ Len(delivered) = Earlier + Third(0)
        /\ 0 = 3 * Third(0) + 1 => Earlier + Third(0) + 1 \in split
    BY <1>5, <2>2, <2>3
  <2>5. /\ delivered' \in Seq(LineReads) /\ Delivered'
        /\ offset' = Len(current) /\ offset' \in Nat /\ curReadPos' \in Nat
        /\ ReadUpTo(current, Earlier)'
    BY <1>1, <1>2, <1>7, <2>1, <2>4, ReadCurrent
  <2>6. ~(offset' < Len(current'))
    BY <1>4, <1>5, <2>5
  <2>7. InCurrent'
    BY <1>1, <1>7, <2>1, <2>5, <2>6 DEF InCurrent, NoCreate
  <2>8. ReaderInv'
    BY <1>1, <1>2, <1>7, <2>7 DEF ReaderInv
  <2>9. TailType'
    BY <1>1, <1>2, <2>1, <2>5 DEF TailType
  <2>10. QED
    BY <1>4, <2>5, <2>8, <2>9 DEF TailInv
<1>8. CASE ~(Len(files[fd]) < curReadPos)
  BY <1>6, <1>8 DEF Stat
\* A file that was not truncated is at least as long as what was read of it.
<1>9. CASE fd = Len(files) /\ InCurrent /\ ~truncated
  <2>1. curReadPos <= offset /\ offset <= Len(current) /\ current = files[fd]
    BY <1>9 DEF InCurrent, ReadUpTo, current
  <2>2. ~(Len(files[fd]) < curReadPos)
    BY <1>3, <1>5, <2>1
  <2>3. QED
    BY <1>8, <2>2
<1>10. CASE fd = Len(files) - 1 /\ fd >= 1 /\ InOlder
  <2>1. curReadPos <= offset /\ offset <= Len(older) /\ older = files[fd]
    BY <1>10 DEF InOlder, ReadUpTo, older
  <2>2. fd \in 1 .. Len(files)
    BY <1>3, <1>5, <1>10
  <2>3. older \in Seq(Bytes)
    BY <1>2, <2>1, <2>2, CurrentFacts
  <2>4. Len(older) \in Nat
    BY <2>3
  <2>5. ~(Len(files[fd]) < curReadPos)
    BY <1>3, <2>1, <2>4
  <2>6. QED
    BY <1>8, <2>5
<1>11. QED
  BY <1>1, <1>2, <1>7, <1>8, <1>9, <1>10 DEF ReaderInv

LEMMA WatchStep ==
    ASSUME TailInv, Watch, incidents' = {}
    PROVE  TailInv'
<1>1. /\ watching' = TRUE
      /\ UNCHANGED <<files, written, half, split, events, truncated, incidents,
                     pc, fd, offset, curReadPos, delivered>>
  BY DEF Watch, reader
<1>2. TailType /\ FileInv /\ (pc # "done" => ReaderInv) /\ Delivered
  BY <1>1 DEF TailInv
<1>3. /\ current' = current /\ Earlier' = Earlier /\ FileInv'
      /\ older' = older /\ EarlierStill' = EarlierStill
      /\ \A b, e : Content(b, e)' <=> Content(b, e)
  BY <1>1, <1>2, FileSame
<1>4. /\ InCurrent => InCurrent'
      /\ InOlder => InOlder'
      /\ NotOpen => NotOpen'
  BY <1>1, <1>3 DEF InCurrent, InOlder, NotOpen, NoCreate, ReadUpTo
<1>5. pc' # "done" => ReaderInv'
  BY <1>1, <1>2, <1>4 DEF ReaderInv
<1>6. TailType'
  BY <1>1, <1>2 DEF TailType
<1>7. Delivered'
  BY <1>1, <1>2 DEF Delivered
<1>8. QED
  BY <1>3, <1>5, <1>6, <1>7 DEF TailInv

LEMMA StopStep ==
    ASSUME TailInv, Stop, incidents' = {}
    PROVE  TailInv'
<1>1. /\ pc' = "done"
      /\ UNCHANGED <<files, written, half, split, events, watching, truncated, incidents,
                     fd, offset, curReadPos, delivered>>
  BY DEF Stop, file
<1>2. TailType /\ FileInv /\ Delivered
  BY <1>1 DEF TailInv
<1>3. FileInv'
  BY <1>1, <1>2, FileSame
<1>4. TailType'
  BY <1>1, <1>2 DEF TailType
<1>5. Delivered'
  BY <1>1, <1>2 DEF Delivered
<1>6. QED
  BY <1>1, <1>3, <1>4, <1>5 DEF TailInv

LEMMA TailSame ==
    ASSUME TailInv, UNCHANGED <<file, reader>>
    PROVE  TailInv'
<1>1. UNCHANGED <<files, written, half, split, events, watching, truncated, incidents,
                  pc, fd, offset, curReadPos, delivered>>
  BY DEF file, reader
<1>2. /\ current' = current /\ Earlier' = Earlier /\ (FileInv => FileInv')
      /\ older' = older /\ EarlierStill' = EarlierStill
      /\ \A b, e : Content(b, e)' <=> Content(b, e)
  BY <1>1, FileSame
<1>3. /\ InCurrent => InCurrent'
      /\ InOlder => InOlder'
      /\ NotOpen => NotOpen'
  BY <1>1, <1>2 DEF InCurrent, InOlder, NotOpen, NoCreate, ReadUpTo
<1>4. ReaderInv => ReaderInv'
  BY <1>1, <1>3 DEF ReaderInv
<1>5. (TailType => TailType') /\ (Delivered => Delivered')
  BY <1>1 DEF TailType, Delivered
<1>6. QED
  BY <1>1, <1>2, <1>4, <1>5 DEF TailInv

LEMMA TailNext == TailInv /\ [Next]_vars => TailInv'
<1> SUFFICES ASSUME TailInv, [Next]_vars
             PROVE  TailInv'
  OBVIOUS
<1>1. CASE incidents' # {}
  BY <1>1 DEF TailInv
<1>2. CASE incidents' = {}
  <2>1. CASE Writer
    BY <1>2, <2>1, WriteLineStep, WriteHalfStep, WriteRestStep, RotateStep, TruncateStep DEF Writer
  <2>2. CASE Tail_
    BY <1>2, <2>2, OpenStep, ReadExistingStep, HandleCreateStep, HandleWriteStep, StatStep
       DEF Tail_, IgnoreEvent
  <2>3. CASE Watch
    BY <1>2, <2>3, WatchStep
  <2>4. CASE Stop
    BY <1>2, <2>4, StopStep
  <2>5. CASE Ingest
    BY <2>5, TailSame DEF Ingest
  <2>6. CASE Search
    BY <2>6, TailSame DEF Search
  <2>7. CASE SearchFails
    BY <2>7, TailSame DEF SearchFails
  <2>8. CASE UNCHANGED vars
    BY <2>8, TailSame DEF vars
  <2>9. QED
    BY <2>1, <2>2, <2>3, <2>4, <2>5, <2>6, <2>7, <2>8 DEF Next
<1>3. QED
  BY <1>1, <1>2

LEMMA TailInit == Init => TailInv
<1> SUFFICES ASSUME Init
             PROVE  TailType /\ FileInv /\ ReaderInv /\ Delivered
  BY DEF TailInv
<1>1. /\ files = << <<>> >> /\ written = 0 /\ half = FALSE /\ split = {}
      /\ events = <<>> /\ watching = FALSE /\ truncated = FALSE
      /\ pc = "open" /\ fd = 0 /\ offset = 0 /\ curReadPos = 0 /\ delivered = <<>>
  BY DEF Init
<1>2. files \in Seq(Seq(Bytes)) /\ Len(files) = 1 /\ current = <<>>
  <2>1. <<>> \in Seq(Bytes)
    BY EmptyFile
  <2>2. QED
    BY <1>1, <2>1 DEF current
<1>3. Earlier = 0
  BY <1>1, <1>2, EmptyFile DEF Earlier, Complete
<1>4. TailType
  <2>1. events \in Seq({"write", "create"}) /\ delivered \in Seq(LineReads)
    BY <1>1
  <2>2. half \in BOOLEAN /\ watching \in BOOLEAN /\ truncated \in BOOLEAN
    BY <1>1
  <2>3. Len(files) >= 1 /\ written \in Nat /\ fd \in Nat /\ offset \in Nat /\ curReadPos \in Nat
    BY <1>1, <1>2
  <2>4. QED
    BY <1>1, <1>2, <2>1, <2>2, <2>3 DEF TailType
<1>5. FileInv
  <2>1. Content(current, Earlier) /\ Len(current) = 0 /\ Whole(current) = 0
    BY <1>2, EmptyFile
  <2>2. QED
    BY <1>1, <1>3, <2>1 DEF FileInv
<1>6. ReaderInv
  BY <1>1, <1>2, <1>3 DEF ReaderInv, NotOpen, NoCreate
<1>7. Delivered
  BY <1>1 DEF Delivered
<1>8. QED
  BY <1>4, <1>5, <1>6, <1>7

(***************************************************************************)
(* tail gives the parser each line once, in order and in full but for the  *)
(* lines that were written in two parts: for any number of lines,          *)
(* rotations and truncations at any time, unless one of the incidents that *)
(* the property names has happened.                                        *)
(***************************************************************************)
THEOREM LinesComeOnce == Spec => []OnePerLine
<1>1. TailInv => OnePerLine
  BY DEF TailInv, Delivered, OnePerLine
<1>2. QED
  BY <1>1, TailInit, TailNext, PTL DEF Spec
=============================================================================
