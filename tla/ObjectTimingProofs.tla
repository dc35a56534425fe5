------------------------- MODULE ObjectTimingProofs -------------------------
(***************************************************************************)
(* Theorems about ObjectTiming: for any audit log whose lines are those of *)
(* FeedAssumption, in any order, and both copies of the parser.            *)
(***************************************************************************)
EXTENDS ObjectTiming, FiniteSetTheorems, SequenceTheorems, WellFoundedInduction, TLAPS

(***************************************************************************)
(* Sequences: Append, RemoveAt and the last index with a property.         *)
(***************************************************************************)
LEMMA AppendFacts ==
    ASSUME NEW s, s \in Seq(Range(s)), NEW e
    PROVE  LET w == Append(s, e)
           IN  /\ w \in Seq(Range(w)) /\ Range(w) = Range(s) \cup {e}
               /\ Len(s) \in Nat /\ Len(w) = Len(s) + 1
               /\ DOMAIN s = 1..Len(s) /\ DOMAIN w = 1..(Len(s) + 1)
               /\ \A i \in 1..Len(s) : w[i] = s[i]
               /\ w[Len(s) + 1] = e
<1> DEFINE T == Range(s) \cup {e}
           w == Append(s, e)
<1>1. s \in Seq(T) /\ e \in T
  BY SeqMonotonic
<1> HIDE DEF T
<1>2. /\ w \in Seq(T) /\ Len(w) = Len(s) + 1 /\ DOMAIN w = 1..(Len(s) + 1)
      /\ DOMAIN s = 1..Len(s) /\ Len(s) \in Nat
      /\ \A i \in 1..Len(s) : w[i] = s[i]
      /\ w[Len(s) + 1] = e
  BY <1>1, AppendProperties, LenProperties
<1>3. 1..(Len(s) + 1) = 1..Len(s) \cup {Len(s) + 1}
  BY <1>2
<1>4. Range(w) = T
  BY <1>2, <1>3 DEF Range, T
<1>5. QED
  BY <1>2, <1>4 DEF T

LEMMA RemoveFacts ==
    ASSUME NEW s, s \in Seq(Range(s)), NEW k \in DOMAIN s
    PROVE  LET w == RemoveAt(s, k)
           IN  /\ w \in Seq(Range(w)) /\ Len(s) \in Nat /\ k \in 1..Len(s)
               /\ DOMAIN s = 1..Len(s) /\ DOMAIN w = 1..(Len(s) - 1)
               /\ \A i \in 1..(Len(s) - 1) : w[i] = IF i < k THEN s[i] ELSE s[i + 1]
<1> DEFINE S == Range(s)
           n == Len(s)
           a == SubSeq(s, 1, k - 1)
           b == SubSeq(s, k + 1, n)
           w == a \o b
<1>1. n \in Nat /\ DOMAIN s = 1..n /\ k \in 1..n /\ \A i \in 1..n : s[i] \in S
  BY LenProperties DEF Range
<1> HIDE DEF S, n
<1>2. /\ a \in Seq(S) /\ Len(a) = k - 1
      /\ \A i \in 1..(k - 1) : a[i] = s[i]
  <2>1. 1 \in Int /\ k - 1 \in Int /\ \A i \in 1..(k - 1) : s[i] \in S
    BY <1>1
  <2>2. /\ a \in Seq(S) /\ Len(a) = IF 1 <= k - 1 THEN k - 1 - 1 + 1 ELSE 0
        /\ \A i \in 1..(k - 1 - 1 + 1) : a[i] = s[1 + i - 1]
    BY <2>1, SubSeqProperties
  <2>3. QED
    BY <1>1, <2>2
<1>3. /\ b \in Seq(S) /\ Len(b) = n - k
      /\ \A i \in 1..(n - k) : b[i] = s[k + i]
  <2>1. k + 1 \in Int /\ n \in Int /\ \A i \in (k + 1)..n : s[i] \in S
    BY <1>1
  <2>2. /\ b \in Seq(S) /\ Len(b) = IF k + 1 <= n THEN n - (k + 1) + 1 ELSE 0
        /\ \A i \in 1..(n - (k + 1) + 1) : b[i] = s[k + 1 + i - 1]
    BY <2>1, SubSeqProperties
  <2>3. QED
    BY <1>1, <2>2
<1> HIDE DEF a, b
<1>4. /\ w \in Seq(S) /\ Len(w) = Len(a) + Len(b)
      /\ \A i \in 1..(Len(a) + Len(b)) : w[i] = IF i <= Len(a) THEN a[i] ELSE b[i - Len(a)]
  BY <1>2, <1>3, ConcatProperties
<1> HIDE DEF w
<1>5. /\ DOMAIN w = 1..(n - 1) /\ Len(w) = n - 1
      /\ \A i \in 1..(n - 1) : w[i] = IF i < k THEN s[i] ELSE s[i + 1]
  <2>1. Len(a) + Len(b) = n - 1
    BY <1>1, <1>2, <1>3
  <2>2. ASSUME NEW i \in 1..(n - 1) PROVE w[i] = IF i < k THEN s[i] ELSE s[i + 1]
    <3>1. CASE i < k
      BY <1>1, <1>2, <1>4, <2>1, <3>1
    <3>2. CASE ~(i < k)
      <4>1. i - (k - 1) \in 1..(n - k) /\ k + (i - (k - 1)) = i + 1
        BY <1>1, <3>2
      <4>2. w[i] = b[i - (k - 1)]
        BY <1>1, <1>2, <1>4, <2>1, <3>2
      <4>3. b[i - (k - 1)] = s[k + (i - (k - 1))]
        BY <1>3, <4>1
      <4>4. QED
        BY <3>2, <4>1, <4>2, <4>3
    <3>3. QED
      BY <3>1, <3>2
  <2>3. QED
    BY <1>4, <2>1, <2>2, LenProperties
<1>6. w \in Seq(Range(w))
  <2>1. w \in [1..(n - 1) -> Range(w)]
    BY <1>4, <1>5 DEF Range
  <2>2. QED
    BY <1>1, <1>5, <2>1
<1>7. QED
  BY <1>1, <1>5, <1>6 DEF RemoveAt, w, a, b, n

LEMMA MaxFacts ==
    ASSUME NEW n \in Nat, NEW S, S \subseteq 1..n, S # {}
    PROVE  Max(S) \in S /\ \A i \in S : i <= Max(S)
<1> DEFINE B == {m \in Nat : \A i \in S : i <= m}
<1>1. B \subseteq Nat /\ n \in B
  OBVIOUS
<1>2. PICK m \in B : \A j \in B : ~(<<j, m>> \in OpToRel(<, Nat))
  BY <1>1, NatLessThanWellFounded, WFMin
<1>3. \A j \in B : ~(j < m)
  BY <1>1, <1>2 DEF OpToRel
<1>4. m \in S
  <2>1. SUFFICES ASSUME m \notin S PROVE FALSE
    OBVIOUS
  <2>2. PICK i \in S : TRUE
    OBVIOUS
  <2>3. \A j \in S : j \in Nat /\ j <= m - 1
    BY <2>1
  <2>4. m - 1 \in Nat
    BY <2>2, <2>3
  <2>5. QED
    BY <1>3, <2>3, <2>4
<1>5. \A i \in S : m >= i
  BY <1>1
<1>6. Max(S) \in S /\ \A i \in S : Max(S) >= i
  BY <1>4, <1>5 DEF Max
<1>7. QED
  BY <1>6
-----------------------------------------------------------------------------
(***************************************************************************)
(* The sequences of records, after n lines.  An ongoing record has no end, *)
(* and is added at the end of the sequence with the time of its line.      *)
(***************************************************************************)
Fields == {"action", "id", "kind", "start", "end", "from", "to", "unfinished", "pv",
           "attach", "container", "bound", "timed"}

RecordAt(r, n, fl) ==
    /\ DOMAIN r = Fields
    /\ r.start \in 1..n
    /\ r.action = "create" => "create" \in fl /\ r.id[2] \in DOMAIN createEndCrit

OngoingAt(s, n, fl) ==
    /\ s \in Seq(Range(s))
    /\ \A i \in DOMAIN s : RecordAt(s[i], n, fl) /\ s[i].end = 0
    /\ \A i, j \in DOMAIN s : i < j => s[i].start < s[j].start

ReportedAt(s, n, fl) ==
    /\ s \in Seq(Range(s))
    /\ \A i \in DOMAIN s : RecordAt(s[i], n, fl) /\ s[i].end \in 1..n

SeqInv ==
    /\ copy \in {"library", "command"}
    /\ feed \in Feeds
    /\ log \in Seq(Range(log)) /\ Range(log) \subseteq feed.lines
    /\ OngoingAt(ongoing, Len(log), flags)
    /\ ReportedAt(results, Len(log), flags)
    /\ ReportedAt(printed, Len(log), flags)

(***************************************************************************)
(* The creations and the scales among the records, by what the properties  *)
(* are about.                                                              *)
(***************************************************************************)
Core(r) == [id |-> r.id, start |-> r.start, end |-> r.end, from |-> r.from, to |-> r.to]

CoresOf(a, s) == {Core(s[i]) : i \in {j \in DOMAIN s : s[j].action = a}}

Open == CoresOf("create", ongoing)

Closed == CoresOf("create", IF copy = "library" THEN results ELSE printed)

OpenScales == CoresOf("scale", ongoing)

ClosedScales == CoresOf("scale", IF copy = "library" THEN results ELSE printed)

(***************************************************************************)
(* Every creation the library has read is recorded, and those after the    *)
(* start of a closed one were closed before it.                            *)
(***************************************************************************)
CreationLine(l, id) == Creates(l, id) /\ id[2] \in DOMAIN createEndCrit

NewestAt(op, cl, lg, cp, fl) ==
    cp = "library" /\ "create" \in fl =>
        /\ \A t \in DOMAIN lg : \A id : CreationLine(lg[t], id) =>
              \E q \in op \cup cl : q.start = t /\ q.id = id
        /\ \A q \in cl : \A t \in q.start + 1 .. q.end - 1 : CreationLine(lg[t], q.id) =>
              \E p \in cl : p.start = t /\ p.end < q.end

ReadyAt(op, cl, lg, cp) ==
    \A t \in DOMAIN lg : \A r \in op \cup cl :
        /\ r.start < t /\ (r.end = 0 \/ t < r.end)
        /\ cp = "library" \/ r.id[3] \in Namespaces
        /\ Ready(lg[t], r.id)
        => \E q \in cl : q.id = r.id /\ q.end = t

NewestInv == NewestAt(Open, Closed, log, copy, flags)

(***************************************************************************)
(* Scales.  The store has the spec of the last get or create of an object; *)
(* a recorded scale starts from it; and a line that shows another spec is  *)
(* in the time of a recorded scale.                                        *)
(***************************************************************************)
Reads(lg, t, id) == {u \in 1 .. t - 1 : Shows(lg[u], id) /\ lg[u].verb \in {"get", "create"}}

LastRead(lg, t, id) == lg[Max(Reads(lg, t, id))].spec

Scalable(id) == id[2] \in DOMAIN scaleEndCrit

StoreAt(store, lg) ==
    /\ \A id \in DOMAIN store : /\ Scalable(id) /\ Reads(lg, Len(lg) + 1, id) # {}
                                /\ store[id] = LastRead(lg, Len(lg) + 1, id)
    /\ \A u \in DOMAIN lg :
          LET id == getIdentification(lg[u])
          IN  Scalable(id) /\ u \in Reads(lg, Len(lg) + 1, id) => id \in DOMAIN store

FromRead(r, lg, fl) ==
    /\ "scale" \in fl /\ Scalable(r.id)
    /\ r.start \in 1..Len(lg) /\ Reads(lg, r.start, r.id) # {}
    /\ r.from = LastRead(lg, r.start, r.id) /\ r.from # 0 /\ r.to # r.from

Changes(lg, u, id) ==
    /\ Shows(lg[u], id) /\ lg[u].verb \in {"patch", "update"} /\ Scalable(id)
    /\ Reads(lg, u, id) # {}
    /\ LastRead(lg, u, id) # 0 /\ lg[u].spec \notin {0, LastRead(lg, u, id)}

ChangesAt(sc, lg, cp, fl) ==
    "scale" \in fl => \A u \in DOMAIN lg :
        LET id == getIdentification(lg[u])
        IN  Changes(lg, u, id) /\ (cp = "library" \/ id[3] \in Namespaces) =>
                \E q \in sc : q.id = id /\ q.start <= u /\ (q.end = 0 \/ q.end >= u)

Scales == OpenScales \cup ClosedScales

ScaleInv ==
    /\ StoreAt(objstore, log)
    /\ \A r \in Scales : FromRead(r, log, flags)
    /\ ChangesAt(Scales, log, copy, flags)

ReadyInv == ReadyAt(Open, Closed, log, copy)
-----------------------------------------------------------------------------
(***************************************************************************)
(* The sequences of records under the operations of the parser.            *)
(***************************************************************************)
LEMMA OngoingLater ==
    ASSUME NEW s, NEW n \in Nat, NEW fl, OngoingAt(s, n, fl)
    PROVE  OngoingAt(s, n + 1, fl)
<1>1. \A i \in DOMAIN s : s[i].start \in 1..(n + 1)
  BY DEF OngoingAt, RecordAt
<1>2. QED
  BY <1>1 DEF OngoingAt, RecordAt

LEMMA ReportedLater ==
    ASSUME NEW s, NEW n \in Nat, NEW fl, ReportedAt(s, n, fl)
    PROVE  ReportedAt(s, n + 1, fl)
<1>1. \A i \in DOMAIN s : s[i].start \in 1..(n + 1) /\ s[i].end \in 1..(n + 1)
  BY DEF ReportedAt, RecordAt
<1>2. QED
  BY <1>1 DEF ReportedAt, RecordAt

LEMMA OngoingAppend ==
    ASSUME NEW s, NEW n \in Nat, NEW fl, OngoingAt(s, n, fl),
           NEW e, RecordAt(e, n + 1, fl), e.start = n + 1, e.end = 0
    PROVE  OngoingAt(Append(s, e), n + 1, fl)
<1> DEFINE w == Append(s, e)
           m == Len(s)
<1>1. /\ w \in Seq(Range(w)) /\ m \in Nat /\ DOMAIN s = 1..m /\ DOMAIN w = 1..(m + 1)
      /\ \A i \in 1..m : w[i] = s[i]
      /\ w[m + 1] = e
  BY AppendFacts DEF OngoingAt
<1> HIDE DEF w, m
<1>2. \A i \in 1..m : RecordAt(s[i], n + 1, fl) /\ s[i].end = 0 /\ s[i].start \in 1..n
  BY <1>1, OngoingLater DEF OngoingAt, RecordAt
<1>3. \A i \in DOMAIN w : i \in 1..m \/ i = m + 1
  BY <1>1
<1>4. \A i \in DOMAIN w : RecordAt(w[i], n + 1, fl) /\ w[i].end = 0
  BY <1>1, <1>2, <1>3
<1>5. ASSUME NEW i \in DOMAIN w, NEW j \in DOMAIN w, i < j
      PROVE  w[i].start < w[j].start
  <2>1. i \in 1..m
    BY <1>1, <1>5
  <2>2. CASE j = m + 1
    BY <1>1, <1>2, <2>1, <2>2
  <2>3. CASE j \in 1..m
    <3>1. s[i].start < s[j].start
      BY <1>1, <1>5, <2>1, <2>3 DEF OngoingAt
    <3>2. QED
      BY <1>1, <2>1, <2>3, <3>1
  <2>4. QED
    BY <1>3, <2>2, <2>3
<1>6. QED
  BY <1>1, <1>4, <1>5 DEF OngoingAt, w

LEMMA ReportedAppend ==
    ASSUME NEW s, NEW n \in Nat, NEW fl, ReportedAt(s, n, fl),
           NEW e, RecordAt(e, n, fl), e.end \in 1..n
    PROVE  ReportedAt(Append(s, e), n, fl)
<1> DEFINE w == Append(s, e)
           m == Len(s)
<1>1. /\ w \in Seq(Range(w)) /\ m \in Nat /\ DOMAIN s = 1..m /\ DOMAIN w = 1..(m + 1)
      /\ \A i \in 1..m : w[i] = s[i]
      /\ w[m + 1] = e
  BY AppendFacts DEF ReportedAt
<1> HIDE DEF w, m
<1>3. \A i \in DOMAIN w : i \in 1..m \/ i = m + 1
  BY <1>1
<1>4. \A i \in DOMAIN w : RecordAt(w[i], n, fl) /\ w[i].end \in 1..n
  BY <1>1, <1>3 DEF ReportedAt
<1>6. QED
  BY <1>1, <1>4 DEF ReportedAt, w

LEMMA OngoingRemove ==
    ASSUME NEW s, NEW n \in Nat, NEW fl, OngoingAt(s, n, fl), NEW k \in DOMAIN s
    PROVE  OngoingAt(RemoveAt(s, k), n, fl)
<1> DEFINE w == RemoveAt(s, k)
           m == Len(s)
           at(i) == IF i < k THEN i ELSE i + 1
<1>1. /\ w \in Seq(Range(w)) /\ m \in Nat /\ k \in 1..m
      /\ DOMAIN s = 1..m /\ DOMAIN w = 1..(m - 1)
      /\ \A i \in 1..(m - 1) : w[i] = IF i < k THEN s[i] ELSE s[i + 1]
  BY RemoveFacts DEF OngoingAt
<1> HIDE DEF w, m
<1>2. \A i \in DOMAIN w : at(i) \in DOMAIN s /\ w[i] = s[at(i)]
  BY <1>1
<1>3. \A i, j \in DOMAIN w : i < j => at(i) < at(j)
  BY <1>1
<1> HIDE DEF at
<1>4. QED
  BY <1>1, <1>2, <1>3 DEF OngoingAt, w

(***************************************************************************)
(* The creations, or the scales, of the sequences.                         *)
(***************************************************************************)
LEMMA CoresAppend ==
    ASSUME NEW s, s \in Seq(Range(s)), NEW e, NEW a
    PROVE  CoresOf(a, Append(s, e)) =
               CoresOf(a, s) \cup (IF e.action = a THEN {Core(e)} ELSE {})
<1> DEFINE w == Append(s, e)
           m == Len(s)
<1>1. /\ m \in Nat /\ DOMAIN s = 1..m /\ DOMAIN w = 1..(m + 1)
      /\ \A i \in 1..m : w[i] = s[i]
      /\ w[m + 1] = e
  BY AppendFacts
<1> HIDE DEF w, m
<1>2. DOMAIN w = DOMAIN s \cup {m + 1}
  BY <1>1
<1>3. CoresOf(a, w) = CoresOf(a, s) \cup (IF e.action = a THEN {Core(e)} ELSE {})
  BY <1>1, <1>2 DEF CoresOf
<1>4. QED
  BY <1>3 DEF w

LEMMA CoresRemove ==
    ASSUME NEW s, s \in Seq(Range(s)), NEW k \in DOMAIN s, NEW a
    PROVE  /\ CoresOf(a, RemoveAt(s, k)) \subseteq CoresOf(a, s)
           /\ CoresOf(a, s) \subseteq CoresOf(a, RemoveAt(s, k)) \cup
                                 (IF s[k].action = a THEN {Core(s[k])} ELSE {})
<1> DEFINE w == RemoveAt(s, k)
           m == Len(s)
           at(i) == IF i < k THEN i ELSE i + 1
           of(i) == IF i < k THEN i ELSE i - 1
<1>1. /\ m \in Nat /\ k \in 1..m
      /\ DOMAIN s = 1..m /\ DOMAIN w = 1..(m - 1)
      /\ \A i \in 1..(m - 1) : w[i] = IF i < k THEN s[i] ELSE s[i + 1]
  BY RemoveFacts
<1> HIDE DEF w, m
<1>2. \A i \in DOMAIN w : at(i) \in DOMAIN s /\ w[i] = s[at(i)]
  BY <1>1
<1>3. \A i \in DOMAIN s : i # k => of(i) \in DOMAIN w /\ at(of(i)) = i
  BY <1>1
<1> HIDE DEF at, of
<1>4. \A i \in DOMAIN s : i # k => of(i) \in DOMAIN w /\ w[of(i)] = s[i]
  BY <1>2, <1>3
<1>5. CoresOf(a, w) \subseteq CoresOf(a, s)
  BY <1>2 DEF CoresOf
<1>6. CoresOf(a, s) \subseteq CoresOf(a, w) \cup
                         (IF s[k].action = a THEN {Core(s[k])} ELSE {})
  BY <1>4 DEF CoresOf
<1>7. QED
  BY <1>5, <1>6 DEF w
\* Records of other actions.
LEMMA CoresKept ==
    ASSUME NEW s, s \in Seq(Range(s)), NEW a
    PROVE  /\ \A e : e.action # a => CoresOf(a, Append(s, e)) = CoresOf(a, s)
           /\ \A k \in DOMAIN s : s[k].action # a => CoresOf(a, RemoveAt(s, k)) = CoresOf(a, s)
<1>1. ASSUME NEW e, e.action # a PROVE CoresOf(a, Append(s, e)) = CoresOf(a, s)
  <2>1. CoresOf(a, Append(s, e)) =
            CoresOf(a, s) \cup (IF e.action = a THEN {Core(e)} ELSE {})
    BY CoresAppend
  <2>2. QED
    BY <1>1, <2>1
<1>2. ASSUME NEW k \in DOMAIN s, s[k].action # a
      PROVE  CoresOf(a, RemoveAt(s, k)) = CoresOf(a, s)
  <2> DEFINE w == CoresOf(a, RemoveAt(s, k))
  <2>1. /\ w \subseteq CoresOf(a, s)
        /\ CoresOf(a, s) \subseteq w \cup (IF s[k].action = a THEN {Core(s[k])} ELSE {})
    BY CoresRemove
  <2> HIDE DEF w
  <2>2. w = CoresOf(a, s)
    BY <1>2, <2>1
  <2>3. QED
    BY <2>2 DEF w
<1>3. QED
  BY <1>1, <1>2
-----------------------------------------------------------------------------
(***************************************************************************)
(* The parts of a step.                                                    *)
(***************************************************************************)
LEMMA NewRecord ==
    ASSUME NEW a, NEW l
    PROVE  LET r == initializeRecord(a, l)
           IN  /\ DOMAIN r = Fields /\ r.action = a /\ r.id = getIdentification(l)
               /\ r.start = now /\ r.end = 0
BY DEF initializeRecord, Fields

LEMMA FindFacts ==
    ASSUME ongoing \in Seq(Range(ongoing)), NEW a, NEW id
    PROVE  LET i == findLog(a, id)
           IN  /\ i # 0 => /\ i \in DOMAIN ongoing
                           /\ ongoing[i].action = a /\ ongoing[i].id = id
                           /\ \A j \in DOMAIN ongoing :
                                 ongoing[j].action = a /\ ongoing[j].id = id => j <= i
               /\ i = 0 => \A j \in DOMAIN ongoing :
                              ~(ongoing[j].action = a /\ ongoing[j].id = id)
<1> DEFINE M == {i \in DOMAIN ongoing : ongoing[i].action = a /\ ongoing[i].id = id}
           n == Len(ongoing)
<1>1. n \in Nat /\ DOMAIN ongoing = 1..n /\ M \subseteq 1..n
  BY LenProperties
<1>2. CASE M = {}
  BY <1>2 DEF findLog
<1>3. CASE M # {}
  <2>1. Max(M) \in M /\ \A i \in M : i <= Max(M)
    <3> HIDE DEF M, n
    <3>1. QED
      BY <1>1, <1>3, MaxFacts
  <2>2. findLog(a, id) = Max(M)
    BY <1>3 DEF findLog
  <2>3. Max(M) # 0
    BY <1>1, <2>1
  <2>4. QED
    BY <2>1, <2>2, <2>3
<1>4. QED
  BY <1>2, <1>3

LEMMA LineFacts ==
    ASSUME SeqInv, NEW l \in feed.lines, NEW step, ReadLine(l, step)
    PROVE  /\ Len(log) \in Nat /\ now = Len(log) + 1
           /\ log' \in Seq(Range(log')) /\ Range(log') \subseteq feed'.lines
           /\ Len(log') = Len(log) + 1
           /\ DOMAIN log = 1..Len(log) /\ DOMAIN log' = 1..(Len(log) + 1)
           /\ \A t \in 1..Len(log) : log'[t] = log[t]
           /\ log'[Len(log) + 1] = l
           /\ copy' = copy /\ feed' = feed /\ flags' = flags
<1>1. log' = Append(log, l) /\ copy' = copy /\ feed' = feed /\ flags' = flags
  BY DEF ReadLine
<1>2. log \in Seq(Range(log)) /\ Range(log) \subseteq feed.lines
  BY DEF SeqInv
<1>3. Range(log') = Range(log) \cup {l}
  BY <1>1, <1>2, AppendFacts
<1>4. QED
  BY <1>1, <1>2, <1>3, AppendFacts DEF now

LEMMA SeqPrimed ==
    ASSUME SeqInv, NEW l \in feed.lines, NEW step, ReadLine(l, step),
           OngoingAt(ongoing', Len(log) + 1, flags),
           ReportedAt(results', Len(log) + 1, flags),
           ReportedAt(printed', Len(log) + 1, flags)
    PROVE  SeqInv'
<1>1. OngoingAt(ongoing', Len(log'), flags') /\ ReportedAt(results', Len(log'), flags')
  BY LineFacts
<1>2. ReportedAt(printed', Len(log'), flags')
  BY LineFacts
<1>3. copy' \in {"library", "command"} /\ feed' \in Feeds
  BY LineFacts DEF SeqInv
<1>4. log' \in Seq(Range(log')) /\ Range(log') \subseteq feed'.lines
  BY LineFacts
<1>5. QED
  BY <1>1, <1>2, <1>3, <1>4 DEF SeqInv

LEMMA FinishedFacts ==
    ASSUME SeqInv, copy' = copy, Len(log) \in Nat, NEW r, Finished(r),
           RecordAt(r, Len(log) + 1, flags), r.end \in 1..(Len(log) + 1)
    PROVE  /\ ReportedAt(results', Len(log) + 1, flags)
           /\ ReportedAt(printed', Len(log) + 1, flags)
           /\ Closed \subseteq Closed'
           /\ Closed' \subseteq Closed \cup (IF r.action = "create" THEN {Core(r)} ELSE {})
           /\ r.action = "create" /\ (copy = "library" \/ r.id[3] \in Namespaces)
                => Core(r) \in Closed'
           /\ ClosedScales \subseteq ClosedScales'
           /\ ClosedScales' \subseteq
                 ClosedScales \cup (IF r.action = "scale" THEN {Core(r)} ELSE {})
           /\ r.action = "scale" /\ (copy = "library" \/ r.id[3] \in Namespaces)
                => Core(r) \in ClosedScales'
<1> DEFINE n == Len(log) + 1
           k == [r EXCEPT !.kind = convertName(@), !.timed = TRUE]
<1>1. /\ ReportedAt(results, n, flags) /\ ReportedAt(printed, n, flags)
      /\ results \in Seq(Range(results)) /\ printed \in Seq(Range(printed))
  BY ReportedLater DEF SeqInv, ReportedAt
<1>2. n \in Nat /\ r.end \in 1..n /\ RecordAt(r, n, flags)
  OBVIOUS
<1>3. DOMAIN k = DOMAIN r /\ DOMAIN r = Fields
  BY <1>2 DEF RecordAt
<1>4. /\ k.action = r.action /\ k.id = r.id /\ k.start = r.start /\ k.end = r.end
      /\ k.from = r.from /\ k.to = r.to
  BY <1>3 DEF Fields
<1> HIDE DEF n, k
<1>5. Core(k) = Core(r) /\ RecordAt(k, n, flags) /\ k.end \in 1..n
  BY <1>2, <1>3, <1>4 DEF Core, RecordAt
<1>6. CASE copy = "library"
  <2>1. results' = Append(results, r) /\ printed' = printed
    BY <1>6 DEF Finished
  <2>2. ReportedAt(Append(results, r), n, flags)
    BY <1>1, <1>2, ReportedAppend
  <2>3. \A a : CoresOf(a, Append(results, r)) =
            CoresOf(a, results) \cup (IF r.action = a THEN {Core(r)} ELSE {})
    BY <1>1, CoresAppend
  <2>4. /\ Closed = CoresOf("create", results) /\ Closed' = CoresOf("create", results')
        /\ ClosedScales = CoresOf("scale", results) /\ ClosedScales' = CoresOf("scale", results')
    BY <1>6 DEF Closed, ClosedScales
  <2>5. QED
    BY <1>1, <2>1, <2>2, <2>3, <2>4 DEF n
<1>7. CASE copy # "library"
  <2>1. results' = results /\ printed' = Output(r)
    BY <1>7 DEF Finished
  <2>2. /\ Closed = CoresOf("create", printed) /\ Closed' = CoresOf("create", printed')
        /\ ClosedScales = CoresOf("scale", printed) /\ ClosedScales' = CoresOf("scale", printed')
    BY <1>7 DEF Closed, ClosedScales
  <2>3. CASE r.id[3] \in Namespaces
    <3>1. printed' = Append(printed, k)
      BY <2>1, <2>3 DEF Output, k
    <3>2. ReportedAt(Append(printed, k), n, flags)
      BY <1>1, <1>2, <1>5, ReportedAppend
    <3>3. \A a : CoresOf(a, Append(printed, k)) =
            CoresOf(a, printed) \cup (IF k.action = a THEN {Core(k)} ELSE {})
      BY <1>1, CoresAppend
    <3>4. QED
      BY <1>1, <1>4, <1>5, <2>1, <2>2, <3>1, <3>2, <3>3 DEF n
  <2>4. CASE r.id[3] \notin Namespaces
    <3>1. printed' = printed
      BY <2>1, <2>4 DEF Output
    <3>2. QED
      BY <1>1, <1>7, <2>1, <2>2, <2>4, <3>1 DEF n
  <2>5. QED
    BY <2>3, <2>4
<1>8. QED
  BY <1>6, <1>7
-----------------------------------------------------------------------------
(***************************************************************************)
(* What the step that parses line l does to the creations: it opens one    *)
(* with the time of the line, or closes the newest open one of an object.  *)
(***************************************************************************)
Effects(l) ==
    /\ \A c \in Open' : c \in Open \/ c.start = now
    /\ Closed \subseteq Closed'
    /\ \A c \in Closed' : c \notin Closed =>
          /\ c.end = now
          /\ \E o \in Open : /\ c.id = o.id /\ c.start = o.start
                             /\ \A p \in Open : p.id = o.id => p.start <= o.start
    /\ copy = "library" => \A o \in Open :
          o \in Open' \/ \E c \in Closed' : c.id = o.id /\ c.start = o.start
    /\ StepOf(l) = "createStart" /\ copy = "library" =>
          \E c \in Open' : c.id = getIdentification(l) /\ c.start = now
    /\ StepOf(l) = "createEnd" /\ (copy = "library" \/ l.ns \in Namespaces) =>
          \E c \in Closed' : c.id = getIdentification(l) /\ c.end = now

(***************************************************************************)
(* What it does to the scales.                                             *)
(***************************************************************************)
SameScales == OpenScales' = OpenScales /\ ClosedScales' = ClosedScales

ScaleEffects(l) ==
    /\ \A c \in OpenScales' : c \notin OpenScales =>
          /\ StepOf(l) = "scaleStart" /\ c.id = getIdentification(l)
          /\ c.start = now /\ c.from = objstore[getIdentification(l)] /\ c.to = l.spec
    /\ ClosedScales \subseteq ClosedScales'
    /\ \A c \in ClosedScales' : c \notin ClosedScales =>
          \E o \in OpenScales :
              c.id = o.id /\ c.start = o.start /\ c.from = o.from /\ c.to = o.to
    /\ \A o \in OpenScales : copy = "library" \/ o.id[3] \in Namespaces =>
          \/ o \in OpenScales'
          \/ \E c \in ClosedScales' : c.id = o.id /\ c.start = o.start /\ c.end = now
    /\ StepOf(l) = "scaleStart" =>
          \E c \in OpenScales' : c.id = getIdentification(l) /\ c.start = now /\ c.end = 0

LEMMA QuietStep ==
    ASSUME SeqInv, NEW l \in feed.lines, NEW step, ReadLine(l, step),
           step \notin {"createStart", "createEnd"},
           OngoingAt(ongoing', Len(log) + 1, flags), Open' = Open,
           ReportedAt(results', Len(log) + 1, flags),
           ReportedAt(printed', Len(log) + 1, flags), Closed' = Closed
    PROVE  SeqInv' /\ Effects(l)
<1>1. SeqInv'
  BY SeqPrimed
<1>2. StepOf(l) = step
  BY DEF ReadLine
<1>3. QED
  BY <1>1, <1>2 DEF Effects

\* Lines that change no record: any, or only fields the properties do not speak of.
LEMMA KeepStep ==
    ASSUME SeqInv, NEW l \in feed.lines, NEW step, ReadLine(l, step),
           step \notin {"createStart", "createEnd"},
           UNCHANGED <<results, printed>>, DOMAIN ongoing' = DOMAIN ongoing,
           ongoing' \in Seq(Range(ongoing')),
           \A i \in DOMAIN ongoing : /\ DOMAIN ongoing'[i] = DOMAIN ongoing[i]
                                     /\ ongoing'[i].action = ongoing[i].action
                                     /\ ongoing'[i].id = ongoing[i].id
                                     /\ ongoing'[i].start = ongoing[i].start
                                     /\ ongoing'[i].end = ongoing[i].end
                                     /\ ongoing'[i].from = ongoing[i].from
                                     /\ ongoing'[i].to = ongoing[i].to
    PROVE  SeqInv' /\ Effects(l) /\ SameScales
<1> DEFINE n == Len(log) + 1
<1>1. Len(log) \in Nat /\ n \in Nat /\ copy' = copy
  BY LineFacts
<1>2. /\ ReportedAt(results, n, flags) /\ ReportedAt(printed, n, flags)
      /\ OngoingAt(ongoing, n, flags)
  BY <1>1, ReportedLater, OngoingLater DEF SeqInv
<1>3. OngoingAt(ongoing', n, flags)
  BY <1>2 DEF OngoingAt, RecordAt
<1>4. \A a : CoresOf(a, ongoing') = CoresOf(a, ongoing)
  BY DEF CoresOf, Core
<1>5. Open' = Open /\ Closed' = Closed
  BY <1>1, <1>4 DEF Open, Closed
<1>6. SameScales
  BY <1>1, <1>4 DEF SameScales, OpenScales, ClosedScales
<1>7. QED
  BY <1>2, <1>3, <1>5, <1>6, QuietStep

LEMMA UnchangedStep ==
    ASSUME SeqInv, NEW l \in feed.lines, NEW step, ReadLine(l, step),
           step \notin {"createStart", "createEnd"}, UNCHANGED <<ongoing, results, printed>>
    PROVE  SeqInv' /\ Effects(l) /\ SameScales
BY KeepStep DEF SeqInv, OngoingAt

LEMMA AttachStep ==
    ASSUME SeqInv, NEW l \in feed.lines, SetAttachTime(l) \/ SetContainerTime(l)
    PROVE  SeqInv' /\ Effects(l) /\ SameScales
<1> DEFINE k == PodRecord(l)
<1>1. PICK step \in {"attach", "container"} : ReadLine(l, step)
  BY DEF SetAttachTime, SetContainerTime
<1>2. UNCHANGED <<results, printed>>
  BY DEF SetAttachTime, SetContainerTime
<1>3. ongoing \in Seq(Range(ongoing)) /\ \A i \in DOMAIN ongoing : DOMAIN ongoing[i] = Fields
  BY DEF SeqInv, OngoingAt, RecordAt
<1>4. CASE k = 0
  BY <1>1, <1>2, <1>4, UnchangedStep DEF SetAttachTime, SetContainerTime
<1>5. CASE k # 0
  <2>1. k \in DOMAIN ongoing
    BY <1>3, <1>5, FindFacts DEF PodRecord
  <2>2. PICK v, w, f :
           /\ ongoing' = [ongoing EXCEPT ![k] = f]
           /\ f = [[ongoing[k] EXCEPT !.attach = v] EXCEPT !.pv = w]
              \/ f = [ongoing[k] EXCEPT !.container = v]
    <3>1. CASE SetContainerTime(l)
      <4>1. ongoing' = [ongoing EXCEPT ![k] = [ongoing[k] EXCEPT !.container = now]]
        BY <1>5, <3>1 DEF SetContainerTime
      <4>2. QED
        BY <4>1
    <3>2. CASE SetAttachTime(l)
      <4>1. ongoing' = [ongoing EXCEPT ![k] = [[ongoing[k] EXCEPT !.attach = now] EXCEPT !.pv = l.pv]]
        BY <1>5, <2>1, <3>2 DEF SetAttachTime
      <4>2. QED
        BY <4>1
    <3>3. QED
      BY <3>1, <3>2
  <2> HIDE DEF k
  <2>3. /\ DOMAIN f = Fields /\ f.action = ongoing[k].action /\ f.id = ongoing[k].id
        /\ f.start = ongoing[k].start /\ f.end = ongoing[k].end
        /\ f.from = ongoing[k].from /\ f.to = ongoing[k].to
    BY <1>3, <2>1, <2>2 DEF Fields
  <2>4. DOMAIN ongoing' = DOMAIN ongoing /\ ongoing'[k] = f
        /\ \A i \in DOMAIN ongoing : i # k => ongoing'[i] = ongoing[i]
    BY <2>1, <2>2
  <2>5. ongoing' \in Seq(Range(ongoing'))
    <3>1. Len(ongoing) \in Nat /\ DOMAIN ongoing = 1..Len(ongoing)
      BY <1>3, LenProperties
    <3>2. ongoing' \in [1..Len(ongoing) -> Range(ongoing')]
      BY <2>2, <2>4, <3>1 DEF Range
    <3>3. QED
      BY <3>1, <3>2
  <2>6. QED
    BY <1>1, <1>2, <1>3, <2>3, <2>4, <2>5, KeepStep
<1>6. QED
  BY <1>4, <1>5

LEMMA ScaleStep ==
    ASSUME SeqInv, NEW l \in feed.lines, ScaleStart(l) \/ ScaleEnd(l)
    PROVE  SeqInv' /\ Effects(l) /\ ScaleEffects(l)
<1> DEFINE n == Len(log) + 1
           i == getEndIndex("scale", l)
           g == getScaleStart(l)
           o == ongoing[i]
           e == setEndTime(o)
           f == [e EXCEPT !.unfinished = TRUE]
           id == getIdentification(l)
<1>1. PICK step \in {"scaleStart", "scaleEnd"} : ReadLine(l, step)
  BY DEF ScaleStart, ScaleEnd
<1>2. Len(log) \in Nat /\ n \in Nat /\ n \in 1..n /\ now = n /\ copy' = copy
  BY <1>1, LineFacts
<1>3. /\ ReportedAt(results, n, flags) /\ ReportedAt(printed, n, flags)
      /\ OngoingAt(ongoing, n, flags) /\ OngoingAt(ongoing, Len(log), flags)
      /\ ongoing \in Seq(Range(ongoing))
  BY <1>2, ReportedLater, OngoingLater DEF SeqInv, OngoingAt
<1>4. /\ DOMAIN g = Fields /\ g.action = "scale" /\ g.start = now /\ g.end = 0
      /\ g.id = id /\ g.from = objstore[id] /\ g.to = l.spec
  <2> DEFINE r == initializeRecord("scale", l)
  <2>1. DOMAIN r = Fields /\ r.action = "scale" /\ r.start = now /\ r.end = 0 /\ r.id = id
    BY NewRecord
  <2> HIDE DEF r
  <2>2. g = [[r EXCEPT !.from = objstore[id]] EXCEPT !.to = l.spec]
    BY DEF getScaleStart, r
  <2> HIDE DEF g, id
  <2>3. QED
    BY <2>1, <2>2 DEF Fields
<1>5. RecordAt(g, n, flags)
  BY <1>2, <1>4 DEF RecordAt
<1>6. i # 0 => i \in DOMAIN ongoing /\ o.action = "scale"
  BY <1>3, FindFacts DEF getEndIndex
<1>7. /\ ScaleEnd(l) => StepOf(l) = "scaleEnd" /\ i # 0
      /\ ScaleStart(l) => StepOf(l) = "scaleStart"
  BY DEF ScaleEnd, ScaleStart, ReadLine, StepOf, isScaleEnd
<1>8. /\ ScaleEnd(l) => ongoing' = RemoveAt(ongoing, i) /\ Finished(e)
      /\ ScaleStart(l) /\ i # 0 => ongoing' = Append(RemoveAt(ongoing, i), g) /\ Finished(f)
      /\ ScaleStart(l) /\ i = 0 => ongoing' = Append(ongoing, g) /\ UNCHANGED <<results, printed>>
  BY DEF ScaleEnd, ScaleStart
<1> HIDE DEF g, i, o, id
<1>9. /\ Core(g).id = id /\ Core(g).start = now /\ Core(g).end = 0
      /\ Core(g).from = objstore[id] /\ Core(g).to = l.spec
  BY <1>4 DEF Core
\* The record that ends.
<1>10. ASSUME i # 0
       PROVE  \A r \in {e, f} :
                 /\ r.action = "scale" /\ RecordAt(r, n, flags) /\ r.end \in 1..n
                 /\ r.id = o.id /\ r.start = o.start /\ r.end = now
                 /\ r.from = o.from /\ r.to = o.to
  <2>1. RecordAt(o, n, flags) /\ DOMAIN o = Fields
    BY <1>3, <1>6, <1>10 DEF OngoingAt, RecordAt, o
  <2>2. /\ DOMAIN e = Fields /\ e.action = "scale" /\ e.start = o.start /\ e.end = n
        /\ e.id = o.id /\ e.from = o.from /\ e.to = o.to
    BY <1>2, <1>6, <1>10, <2>1 DEF setEndTime, Fields
  <2> HIDE DEF e
  <2>3. /\ DOMAIN f = Fields /\ f.action = "scale" /\ f.start = o.start /\ f.end = n
        /\ f.id = o.id /\ f.from = o.from /\ f.to = o.to
    BY <2>2 DEF Fields
  <2> HIDE DEF f
  <2>4. QED
    BY <1>2, <2>1, <2>2, <2>3 DEF RecordAt
<1> HIDE DEF e, f
<1>11. ASSUME i # 0, NEW r \in {e, f}, Finished(r)
       PROVE  /\ ReportedAt(results', n, flags) /\ ReportedAt(printed', n, flags)
              /\ Closed' = Closed
              /\ ClosedScales \subseteq ClosedScales'
              /\ ClosedScales' \subseteq ClosedScales \cup {Core(r)}
              /\ copy = "library" \/ o.id[3] \in Namespaces => Core(r) \in ClosedScales'
              /\ Core(r).id = o.id /\ Core(r).start = o.start /\ Core(r).end = now
              /\ Core(r).from = o.from /\ Core(r).to = o.to
  <2>1. /\ r.action = "scale" /\ RecordAt(r, n, flags) /\ r.end \in 1..n
        /\ r.id = o.id /\ r.start = o.start /\ r.end = now /\ r.from = o.from /\ r.to = o.to
    BY <1>10, <1>11
  <2>2. /\ ReportedAt(results', n, flags) /\ ReportedAt(printed', n, flags)
        /\ Closed \subseteq Closed' /\ ClosedScales \subseteq ClosedScales'
        /\ Closed' \subseteq Closed \cup (IF r.action = "create" THEN {Core(r)} ELSE {})
        /\ ClosedScales' \subseteq ClosedScales \cup (IF r.action = "scale" THEN {Core(r)} ELSE {})
        /\ r.action = "scale" /\ (copy = "library" \/ r.id[3] \in Namespaces)
             => Core(r) \in ClosedScales'
    BY <1>2, <1>11, <2>1, FinishedFacts
  <2>3. /\ Core(r).id = o.id /\ Core(r).start = o.start /\ Core(r).end = now
        /\ Core(r).from = o.from /\ Core(r).to = o.to
    BY <2>1 DEF Core
  <2>4. Closed' = Closed
    BY <2>1, <2>2
  <2>5. QED
    BY <2>1, <2>2, <2>3, <2>4
<1>12. ASSUME i # 0
       PROVE  /\ OngoingAt(RemoveAt(ongoing, i), n, flags)
              /\ OngoingAt(RemoveAt(ongoing, i), Len(log), flags)
              /\ RemoveAt(ongoing, i) \in Seq(Range(RemoveAt(ongoing, i)))
              /\ CoresOf("create", RemoveAt(ongoing, i)) = Open
              /\ CoresOf("scale", RemoveAt(ongoing, i)) \subseteq OpenScales
              /\ OpenScales \subseteq CoresOf("scale", RemoveAt(ongoing, i)) \cup {Core(o)}
              /\ Core(o) \in OpenScales
  <2>1. i \in DOMAIN ongoing /\ ongoing[i] = o /\ o.action = "scale"
    BY <1>6, <1>12 DEF o
  <2>2. OngoingAt(RemoveAt(ongoing, i), n, flags)
    BY <1>2, <1>3, <2>1, OngoingRemove
  <2>3. OngoingAt(RemoveAt(ongoing, i), Len(log), flags)
    BY <1>2, <1>3, <2>1, OngoingRemove
  <2>4. CoresOf("create", RemoveAt(ongoing, i)) = Open
    BY <1>3, <2>1, CoresKept DEF Open
  <2>5. /\ CoresOf("scale", RemoveAt(ongoing, i)) \subseteq CoresOf("scale", ongoing)
        /\ CoresOf("scale", ongoing) \subseteq CoresOf("scale", RemoveAt(ongoing, i)) \cup
               (IF ongoing[i].action = "scale" THEN {Core(ongoing[i])} ELSE {})
    BY <1>3, <2>1, CoresRemove
  <2>6. Core(o) \in OpenScales
    BY <2>1 DEF OpenScales, CoresOf
  <2>7. QED
    BY <2>1, <2>2, <2>3, <2>4, <2>5, <2>6 DEF OpenScales, OngoingAt
<1>13. /\ Core(o).id = o.id /\ Core(o).start = o.start
       /\ Core(o).from = o.from /\ Core(o).to = o.to
  BY DEF Core
<1>14. CASE ScaleEnd(l)
  <2>1. i # 0 /\ ongoing' = RemoveAt(ongoing, i) /\ Finished(e) /\ StepOf(l) = "scaleEnd"
    BY <1>7, <1>8, <1>14
  <2>2. /\ OngoingAt(ongoing', n, flags) /\ Open' = Open
        /\ OpenScales' \subseteq OpenScales /\ OpenScales \subseteq OpenScales' \cup {Core(o)}
    BY <1>12, <2>1 DEF Open, OpenScales
  <2>3. SeqInv' /\ Effects(l)
    BY <1>1, <1>11, <2>1, <2>2, QuietStep
  <2>4. ScaleEffects(l)
    BY <1>11, <1>12, <1>13, <2>1, <2>2 DEF ScaleEffects
  <2>5. QED
    BY <2>3, <2>4
<1>15. CASE ScaleStart(l) /\ i # 0
  <2> DEFINE w == RemoveAt(ongoing, i)
  <2>1. ongoing' = Append(w, g) /\ Finished(f) /\ StepOf(l) = "scaleStart"
    BY <1>7, <1>8, <1>15
  <2>2. /\ OngoingAt(w, n, flags) /\ OngoingAt(w, Len(log), flags) /\ w \in Seq(Range(w))
        /\ CoresOf("create", w) = Open /\ CoresOf("scale", w) \subseteq OpenScales
        /\ OpenScales \subseteq CoresOf("scale", w) \cup {Core(o)} /\ Core(o) \in OpenScales
    BY <1>12, <1>15
  <2> HIDE DEF w
  <2>3. OngoingAt(ongoing', n, flags)
    BY <1>2, <1>4, <1>5, <2>1, <2>2, OngoingAppend
  <2>4. CoresOf("create", Append(w, g)) = CoresOf("create", w)
    BY <1>4, <2>2, CoresKept
  <2>5. CoresOf("scale", Append(w, g)) =
            CoresOf("scale", w) \cup (IF g.action = "scale" THEN {Core(g)} ELSE {})
    BY <2>2, CoresAppend
  <2>6. /\ Open' = Open
        /\ OpenScales' = CoresOf("scale", w) \cup {Core(g)}
    BY <1>4, <2>1, <2>2, <2>4, <2>5 DEF Open, OpenScales
  <2>7. SeqInv' /\ Effects(l)
    BY <1>1, <1>11, <1>15, <2>1, <2>3, <2>6, QuietStep
  <2>8. ScaleEffects(l)
    BY <1>9, <1>11, <1>13, <1>15, <2>1, <2>2, <2>6 DEF ScaleEffects, id
  <2>9. QED
    BY <2>7, <2>8
<1>16. CASE ScaleStart(l) /\ i = 0
  <2>1. /\ ongoing' = Append(ongoing, g) /\ UNCHANGED <<results, printed>>
        /\ StepOf(l) = "scaleStart"
    BY <1>7, <1>8, <1>16
  <2>2. OngoingAt(ongoing', n, flags)
    BY <1>2, <1>3, <1>4, <1>5, <2>1, OngoingAppend
  <2>3. CoresOf("create", Append(ongoing, g)) = CoresOf("create", ongoing)
    BY <1>3, <1>4, CoresKept
  <2>4. CoresOf("scale", Append(ongoing, g)) =
            CoresOf("scale", ongoing) \cup (IF g.action = "scale" THEN {Core(g)} ELSE {})
    BY <1>3, CoresAppend
  <2>5. /\ Open' = Open /\ Closed' = Closed /\ ClosedScales' = ClosedScales
        /\ OpenScales' = OpenScales \cup {Core(g)}
    BY <1>2, <1>4, <2>1, <2>3, <2>4 DEF Open, Closed, OpenScales, ClosedScales
  <2>6. SeqInv' /\ Effects(l)
    BY <1>1, <1>3, <2>1, <2>2, <2>5, QuietStep
  <2>7. ScaleEffects(l)
    BY <1>9, <2>1, <2>5 DEF ScaleEffects, id
  <2>8. QED
    BY <2>6, <2>7
<1>17. QED
  BY <1>14, <1>15, <1>16

LEMMA CreateStartStep ==
    ASSUME SeqInv, NEW l \in feed.lines, CreateStart(l)
    PROVE  SeqInv' /\ Effects(l) /\ SameScales
<1> DEFINE n == Len(log) + 1
           r == initializeRecord("create", l)
<1>1. ReadLine(l, "createStart") /\ StepOf(l) = "createStart"
  BY DEF CreateStart, ReadLine
<1>2. Len(log) \in Nat /\ n \in Nat /\ n \in 1..n /\ now = n /\ copy' = copy
  BY <1>1, LineFacts
<1>3. /\ ReportedAt(results, n, flags) /\ ReportedAt(printed, n, flags)
      /\ OngoingAt(ongoing, n, flags) /\ OngoingAt(ongoing, Len(log), flags)
      /\ ongoing \in Seq(Range(ongoing))
  BY <1>2, ReportedLater, OngoingLater DEF SeqInv, OngoingAt
<1>4. "create" \in flags /\ l.resource \in DOMAIN createEndCrit
  BY <1>1 DEF StepOf, isCreateStart
<1>5. /\ DOMAIN r = Fields /\ r.action = "create" /\ r.id = getIdentification(l)
      /\ r.start = now /\ r.end = 0
  BY NewRecord
<1>6. /\ ongoing' = ongoing \/ ongoing' = Append(ongoing, r)
      /\ copy = "library" => ongoing' = Append(ongoing, r)
      /\ UNCHANGED <<results, printed>>
  BY DEF CreateStart
<1> HIDE DEF r
<1>7. RecordAt(r, n, flags)
  BY <1>2, <1>4, <1>5 DEF RecordAt, getIdentification
<1>8. OngoingAt(Append(ongoing, r), n, flags)
  BY <1>2, <1>3, <1>5, <1>7, OngoingAppend
<1>9. CoresOf("create", Append(ongoing, r)) = CoresOf("create", ongoing) \cup {Core(r)}
  BY <1>3, <1>5, CoresAppend
<1>10. Core(r).start = now /\ Core(r).id = getIdentification(l)
  BY <1>5 DEF Core
<1>11. OngoingAt(ongoing', n, flags)
  BY <1>3, <1>6, <1>8
<1>12. SeqInv'
  BY <1>1, <1>3, <1>6, <1>11, SeqPrimed
<1>13. /\ Open \subseteq Open' /\ Open' \subseteq Open \cup {Core(r)}
       /\ copy = "library" => Core(r) \in Open'
       /\ Closed' = Closed
  BY <1>2, <1>6, <1>9 DEF Open, Closed
<1>14. CoresOf("scale", Append(ongoing, r)) = CoresOf("scale", ongoing)
  BY <1>3, <1>5, CoresKept
<1>15. SameScales
  BY <1>2, <1>6, <1>14 DEF SameScales, OpenScales, ClosedScales
<1>16. QED
  BY <1>1, <1>10, <1>12, <1>13, <1>15 DEF Effects

LEMMA CreateEndStep ==
    ASSUME SeqInv, NEW l \in feed.lines, CreateEnd(l)
    PROVE  SeqInv' /\ Effects(l) /\ SameScales
<1> DEFINE n == Len(log) + 1
           i == getEndIndex("create", l)
           o == ongoing[i]
           e == setEndTime(o)
           r == IF l.resource = "persistentvolumeclaims" THEN [e EXCEPT !.pv = l.pv] ELSE e
<1>1. ReadLine(l, "createEnd") /\ StepOf(l) = "createEnd"
  BY DEF CreateEnd, ReadLine
<1>2. Len(log) \in Nat /\ n \in Nat /\ n \in 1..n /\ now = n /\ copy' = copy
  BY <1>1, LineFacts
<1>3. /\ OngoingAt(ongoing, n, flags) /\ OngoingAt(ongoing, Len(log), flags)
      /\ ongoing \in Seq(Range(ongoing))
  BY <1>2, OngoingLater DEF SeqInv, OngoingAt
<1>4. i # 0
  BY <1>1 DEF StepOf, isCreateEnd
<1>5. /\ i \in DOMAIN ongoing /\ o.action = "create" /\ o.id = getIdentification(l)
      /\ \A j \in DOMAIN ongoing :
            ongoing[j].action = "create" /\ ongoing[j].id = getIdentification(l) => j <= i
  BY <1>3, <1>4, FindFacts DEF getEndIndex
<1>6. ongoing' = RemoveAt(ongoing, i) /\ Finished(r)
  BY DEF CreateEnd
<1> HIDE DEF i
<1>7. RecordAt(o, n, flags) /\ DOMAIN o = Fields
  BY <1>3, <1>5 DEF OngoingAt, RecordAt
<1> HIDE DEF o
<1>8. DOMAIN e = Fields /\ e.action = o.action /\ e.id = o.id /\ e.start = o.start /\ e.end = n
  BY <1>2, <1>7 DEF setEndTime, Fields
<1> HIDE DEF e
<1>9. DOMAIN r = Fields /\ r.action = o.action /\ r.id = o.id /\ r.start = o.start /\ r.end = n
  BY <1>8 DEF Fields
<1> HIDE DEF r
<1>10. RecordAt(r, n, flags) /\ r.end \in 1..n /\ r.action = "create"
  BY <1>2, <1>5, <1>7, <1>9 DEF RecordAt
<1>11. ReportedAt(results', n, flags) /\ ReportedAt(printed', n, flags)
  BY <1>2, <1>6, <1>10, FinishedFacts
<1>12. /\ Closed \subseteq Closed' /\ Closed' \subseteq Closed \cup {Core(r)}
       /\ copy = "library" \/ r.id[3] \in Namespaces => Core(r) \in Closed'
  BY <1>2, <1>6, <1>10, FinishedFacts
<1>13. OngoingAt(ongoing', n, flags)
  BY <1>2, <1>3, <1>5, <1>6, OngoingRemove
<1>14. Open' \subseteq Open /\ Open \subseteq Open' \cup {Core(o)}
  BY <1>3, <1>5, <1>6, CoresRemove DEF Open, o
<1>15. /\ Core(o).id = o.id /\ Core(o).start = o.start
       /\ Core(r).id = o.id /\ Core(r).start = o.start /\ Core(r).end = n
  BY <1>9 DEF Core
<1>16. Core(o) \in Open
  BY <1>5 DEF Open, CoresOf, o
<1>17. ASSUME NEW p \in Open, p.id = o.id PROVE p.start <= o.start
  <2>1. PICK j \in DOMAIN ongoing : ongoing[j].action = "create" /\ p = Core(ongoing[j])
    BY DEF Open, CoresOf
  <2>2. ongoing[j].id = o.id /\ ongoing[j].start = p.start
    BY <1>17, <2>1 DEF Core
  <2>3. j <= i
    BY <1>5, <2>1, <2>2
  <2>4. DOMAIN ongoing = 1..Len(ongoing) /\ Len(ongoing) \in Nat
    BY <1>3, LenProperties
  <2>5. j < i => ongoing[j].start < ongoing[i].start
    BY <1>3, <1>5 DEF OngoingAt
  <2>6. ongoing[j].start \in Nat /\ ongoing[i].start \in Nat
    BY <1>2, <1>3, <1>5 DEF OngoingAt, RecordAt
  <2>7. QED
    BY <1>5, <2>2, <2>3, <2>4, <2>5, <2>6 DEF o
<1>18. SeqInv'
  BY <1>1, <1>11, <1>13, SeqPrimed
<1>19. o.id = getIdentification(l) /\ o.id[3] = l.ns
  BY <1>5 DEF getIdentification
<1>20. /\ \A c \in Open' : c \in Open \/ c.start = now
       /\ Closed \subseteq Closed'
       /\ StepOf(l) # "createStart"
  BY <1>1, <1>12, <1>14
<1>21. \A c \in Closed' : c \notin Closed =>
          /\ c.end = now
          /\ \E q \in Open : /\ c.id = q.id /\ c.start = q.start
                             /\ \A p \in Open : p.id = q.id => p.start <= q.start
  BY <1>2, <1>12, <1>15, <1>16, <1>17
<1>22. copy = "library" => \A q \in Open :
          q \in Open' \/ \E c \in Closed' : c.id = q.id /\ c.start = q.start
  BY <1>12, <1>14, <1>15
<1>23. copy = "library" \/ l.ns \in Namespaces =>
          \E c \in Closed' : c.id = getIdentification(l) /\ c.end = now
  BY <1>2, <1>9, <1>12, <1>15, <1>19
<1>24. ClosedScales' = ClosedScales
  BY <1>2, <1>6, <1>10, FinishedFacts
<1>25. CoresOf("scale", RemoveAt(ongoing, i)) = CoresOf("scale", ongoing)
  BY <1>3, <1>5, CoresKept DEF o
<1>26. OpenScales' = OpenScales
  BY <1>6, <1>25 DEF OpenScales
<1>27. QED
  BY <1>18, <1>20, <1>21, <1>22, <1>23, <1>24, <1>26 DEF Effects, SameScales

\* What it does to the store.
StoreEffect(l) ==
    LET id == getIdentification(l)
    IN  IF StepOf(l) = "save" /\ l.code \in {200, 201} /\ Scalable(id)
        THEN /\ DOMAIN objstore' = DOMAIN objstore \cup {id} /\ objstore'[id] = l.spec
             /\ \A d \in DOMAIN objstore : d # id => objstore'[d] = objstore[d]
        ELSE objstore' = objstore

LEMMA OtherEffects ==
    ASSUME NEW l, NEW step, ReadLine(l, step), step \notin {"scaleStart", "save"}, SameScales,
           objstore' = objstore
    PROVE  ScaleEffects(l) /\ StoreEffect(l)
<1>1. StepOf(l) = step
  BY DEF ReadLine
<1>2. ScaleEffects(l)
  BY <1>1 DEF ScaleEffects, SameScales
<1>3. QED
  BY <1>1, <1>2 DEF StoreEffect

LEMMA LineStep ==
    ASSUME SeqInv, NEW l \in feed.lines,
           \/ Undecodable(l) \/ Panics(l) \/ CreateStart(l) \/ CreateEnd(l)
           \/ ScaleStart(l) \/ ScaleEnd(l)
           \/ SetAttachTime(l) \/ SetContainerTime(l)
           \/ SaveObjInfo(l) \/ IgnoreLine(l)
    PROVE  /\ SeqInv' /\ Effects(l) /\ ScaleEffects(l) /\ StoreEffect(l)
           /\ \E step : ReadLine(l, step)
<1>1. CASE Undecodable(l) \/ Panics(l)
  BY <1>1, UnchangedStep, OtherEffects DEF Undecodable, Panics
<1>2. CASE CreateStart(l)
  BY <1>2, CreateStartStep, OtherEffects DEF CreateStart
<1>3. CASE CreateEnd(l)
  BY <1>3, CreateEndStep, OtherEffects DEF CreateEnd
<1>4. CASE ScaleStart(l)
  <2>1. ReadLine(l, "scaleStart") /\ StepOf(l) = "scaleStart" /\ objstore' = objstore
    BY <1>4 DEF ScaleStart, ReadLine
  <2>2. StoreEffect(l)
    BY <2>1 DEF StoreEffect
  <2>3. QED
    BY <1>4, <2>1, <2>2, ScaleStep
<1>5. CASE ScaleEnd(l)
  <2>1. ReadLine(l, "scaleEnd") /\ StepOf(l) = "scaleEnd" /\ objstore' = objstore
    BY <1>5 DEF ScaleEnd, ReadLine
  <2>2. StoreEffect(l)
    BY <2>1 DEF StoreEffect
  <2>3. QED
    BY <1>5, <2>1, <2>2, ScaleStep
<1>6. CASE SetAttachTime(l)
  BY <1>6, AttachStep, OtherEffects DEF SetAttachTime
<1>7. CASE SetContainerTime(l)
  BY <1>7, AttachStep, OtherEffects DEF SetContainerTime
<1>8. CASE SaveObjInfo(l)
  <2>1. /\ ReadLine(l, "save") /\ StepOf(l) = "save" /\ UNCHANGED <<ongoing, results, printed>>
        /\ objstore' = IF l.code \in {200, 201} /\ l.resource \in DOMAIN scaleEndCrit
                       THEN [id \in DOMAIN objstore \cup {getIdentification(l)} |->
                                IF id = getIdentification(l) THEN l.spec ELSE objstore[id]]
                       ELSE objstore
    BY <1>8 DEF SaveObjInfo, ReadLine
  <2>2. SeqInv' /\ Effects(l) /\ SameScales
    BY <2>1, UnchangedStep
  <2>3. ScaleEffects(l)
    BY <2>1, <2>2 DEF ScaleEffects, SameScales
  <2>4. Scalable(getIdentification(l)) <=> l.resource \in DOMAIN scaleEndCrit
    BY DEF Scalable, getIdentification
  <2>5. StoreEffect(l)
    BY <2>1, <2>4 DEF StoreEffect
  <2>6. QED
    BY <2>1, <2>2, <2>3, <2>5
<1>9. CASE IgnoreLine(l)
  BY <1>9, UnchangedStep, OtherEffects DEF IgnoreLine
<1>10. QED
  BY <1>1, <1>2, <1>3, <1>4, <1>5, <1>6, <1>7, <1>8, <1>9

\* Formatting the results keeps the creations.
LEMMA ReturnStep ==
    ASSUME SeqInv, Return
    PROVE  /\ SeqInv' /\ Open' = Open /\ Closed' = Closed
           /\ Scales' = Scales /\ UNCHANGED <<copy, feed, flags, log, objstore>>
<1>1. UNCHANGED <<copy, feed, flags, log, ongoing, objstore, printed>>
  BY DEF Return
<1>2. ReportedAt(results', Len(log), flags) /\ \A a : CoresOf(a, results') = CoresOf(a, results)
  <2>1. CASE results' = results
    BY <2>1 DEF SeqInv
  <2>2. CASE results' = [i \in DOMAIN results |->
                            [results[i] EXCEPT !.kind = convertName(@), !.timed = TRUE,
                                               !.bound = BoundTime(i)]]
    <3>1. /\ results \in Seq(Range(results))
          /\ \A i \in DOMAIN results : RecordAt(results[i], Len(log), flags)
                                        /\ results[i].end \in 1..Len(log)
      BY DEF SeqInv, ReportedAt
    <3>2. DOMAIN results' = DOMAIN results
      BY <2>2
    <3>3. ASSUME NEW i \in DOMAIN results
          PROVE  /\ DOMAIN results'[i] = Fields
                 /\ results'[i].action = results[i].action /\ results'[i].id = results[i].id
                 /\ results'[i].start = results[i].start /\ results'[i].end = results[i].end
                 /\ results'[i].from = results[i].from /\ results'[i].to = results[i].to
      <4>1. DOMAIN results[i] = Fields
        BY <3>1 DEF RecordAt
      <4>2. PICK a, b : results'[i] =
               [[[results[i] EXCEPT !.kind = a] EXCEPT !.timed = TRUE] EXCEPT !.bound = b]
        BY <2>2
      <4>3. QED
        BY <4>1, <4>2 DEF Fields
    <3>4. results' \in Seq(Range(results'))
      <4>1. Len(results) \in Nat /\ DOMAIN results = 1..Len(results)
        BY <3>1, LenProperties
      <4>2. results' \in [1..Len(results) -> Range(results')]
        BY <2>2, <3>2, <4>1 DEF Range
      <4>3. QED
        BY <4>1, <4>2
    <3>5. ReportedAt(results', Len(log), flags)
      BY <3>1, <3>2, <3>3, <3>4 DEF ReportedAt, RecordAt
    <3>6. \A a : CoresOf(a, results') = CoresOf(a, results)
      BY <3>2, <3>3 DEF CoresOf, Core
    <3>7. QED
      BY <3>5, <3>6
  <2>3. QED
    BY <2>1, <2>2 DEF Return
<1>3. Open' = Open /\ Closed' = Closed /\ Scales' = Scales
  BY <1>1, <1>2 DEF Open, Closed, Scales, OpenScales, ClosedScales
<1>4. SeqInv'
  <2>1. /\ OngoingAt(ongoing', Len(log'), flags') /\ ReportedAt(results', Len(log'), flags')
        /\ ReportedAt(printed', Len(log'), flags')
    BY <1>1, <1>2 DEF SeqInv
  <2>2. /\ copy' \in {"library", "command"} /\ feed' \in Feeds
        /\ log' \in Seq(Range(log')) /\ Range(log') \subseteq feed'.lines
    BY <1>1 DEF SeqInv
  <2>3. QED
    BY <2>1, <2>2 DEF SeqInv
<1>5. QED
  BY <1>1, <1>3, <1>4
-----------------------------------------------------------------------------
(***************************************************************************)
(* The creations after any number of lines.                                *)
(***************************************************************************)
LEMMA OpenFacts ==
    ASSUME NEW s, NEW n, NEW fl, OngoingAt(s, n, fl), NEW o \in CoresOf("create", s)
    PROVE  /\ o.start \in 1..n /\ o.end = 0
           /\ "create" \in fl /\ o.id[2] \in DOMAIN createEndCrit
BY DEF OngoingAt, RecordAt, CoresOf, Core

LEMMA ClosedFacts ==
    ASSUME NEW s, NEW n, NEW fl, ReportedAt(s, n, fl), NEW c \in CoresOf("create", s)
    PROVE  /\ c.start \in 1..n /\ c.end \in 1..n
           /\ "create" \in fl /\ c.id[2] \in DOMAIN createEndCrit
BY DEF ReportedAt, RecordAt, CoresOf, Core

LEMMA StateFacts ==
    ASSUME SeqInv
    PROVE  /\ Len(log) \in Nat /\ DOMAIN log = 1..Len(log)
           /\ \A o \in Open : /\ o.start \in 1..Len(log) /\ o.end = 0
                              /\ "create" \in flags /\ o.id[2] \in DOMAIN createEndCrit
           /\ \A c \in Closed : /\ c.start \in 1..Len(log) /\ c.end \in 1..Len(log)
                                /\ "create" \in flags /\ c.id[2] \in DOMAIN createEndCrit
<1>1. Len(log) \in Nat /\ DOMAIN log = 1..Len(log)
  BY LenProperties DEF SeqInv
<1>2. \A o \in Open : /\ o.start \in 1..Len(log) /\ o.end = 0
                      /\ "create" \in flags /\ o.id[2] \in DOMAIN createEndCrit
  BY OpenFacts DEF SeqInv, Open
<1>3. \A c \in Closed : /\ c.start \in 1..Len(log) /\ c.end \in 1..Len(log)
                        /\ "create" \in flags /\ c.id[2] \in DOMAIN createEndCrit
  <2>1. CASE copy = "library"
    BY <2>1, ClosedFacts DEF SeqInv, Closed
  <2>2. CASE copy # "library"
    BY <2>2, ClosedFacts DEF SeqInv, Closed
  <2>3. QED
    BY <2>1, <2>2
<1>4. QED
  BY <1>1, <1>2, <1>3

(***************************************************************************)
(* The lines that a creation is about.                                     *)
(***************************************************************************)
LEMMA CreatesStep ==
    ASSUME SeqInv, NEW l \in feed.lines, "create" \in flags, NEW id, CreationLine(l, id)
    PROVE  StepOf(l) = "createStart" /\ id = getIdentification(l)
<1>1. id = getIdentification(l) /\ l.resource \in DOMAIN createEndCrit
  BY DEF CreationLine, Creates, getIdentification
<1>2. Decodes(l)
  BY <1>1, FeedAssumption DEF SeqInv
<1>3. QED
  BY <1>1, <1>2 DEF StepOf, isCreateStart, CreationLine, Creates

LEMMA ReadyStep ==
    ASSUME SeqInv, NEW l \in feed.lines, NEW o \in Open, Ready(l, o.id)
    PROVE  StepOf(l) = "createEnd" /\ o.id = getIdentification(l)
<1>1. o.id = getIdentification(l)
  BY DEF Ready
<1>2. "create" \in flags /\ l.resource \in DOMAIN createEndCrit
  BY <1>1, StateFacts DEF getIdentification
<1>3. Decodes(l) /\ l.phase \in createEndCrit[l.resource]
  BY <1>2, FeedAssumption DEF SeqInv, Ready
<1>4. getEndIndex("create", l) # 0
  <2>1. PICK i \in DOMAIN ongoing : ongoing[i].action = "create" /\ o = Core(ongoing[i])
    BY DEF Open, CoresOf
  <2>2. ongoing[i].id = getIdentification(l)
    BY <1>1, <2>1 DEF Core
  <2>3. ongoing \in Seq(Range(ongoing))
    BY DEF SeqInv, OngoingAt
  <2>4. QED
    BY <2>1, <2>2, <2>3, FindFacts DEF getEndIndex
<1>5. ~isCreateStart(l) /\ isCreateEnd(l) /\ l.stage = "ResponseComplete"
  BY <1>2, <1>3, <1>4 DEF isCreateStart, isCreateEnd, Ready
<1>6. QED
  BY <1>1, <1>2, <1>3, <1>5 DEF StepOf

LEMMA ReadyPreserved ==
    ASSUME SeqInv, SeqInv', ReadyInv, NEW l \in feed.lines, NEW step, ReadLine(l, step), Effects(l)
    PROVE  ReadyInv'
<1> DEFINE n == Len(log) + 1
<1>1. /\ Len(log) \in Nat /\ now = n /\ DOMAIN log = 1..Len(log) /\ DOMAIN log' = 1..n
      /\ (\A t \in 1..Len(log) : log'[t] = log[t]) /\ log'[n] = l
      /\ copy' = copy /\ feed' = feed /\ flags' = flags
  BY LineFacts
<1>2. SUFFICES ASSUME NEW t \in DOMAIN log', NEW r \in Open' \cup Closed',
                      r.start < t, r.end = 0 \/ t < r.end,
                      copy = "library" \/ r.id[3] \in Namespaces, Ready(log'[t], r.id)
               PROVE  \E q \in Closed' : q.id = r.id /\ q.end = t
  BY <1>1 DEF ReadyInv, ReadyAt
<1>3. /\ \A o \in Open : o.start \in 1..Len(log) /\ o.end = 0
      /\ \A c \in Closed : c.start \in 1..Len(log) /\ c.end \in 1..Len(log)
  BY StateFacts
<1>4. PICK o \in Open \cup Closed :
         /\ o.id = r.id /\ o.start = r.start
         /\ (o \in Open /\ o.end = 0) \/ o = r
  <2>1. CASE r \in Open'
    <3>1. r.start # now
      BY <1>1, <1>2
    <3>2. r \in Open
      BY <2>1, <3>1 DEF Effects
    <3>3. QED
      BY <3>2
  <2>2. CASE r \in Closed
    BY <2>2
  <2>3. CASE r \in Closed' /\ r \notin Closed
    <3>1. PICK o \in Open : r.id = o.id /\ r.start = o.start
      BY <2>3 DEF Effects
    <3>2. QED
      BY <1>3, <3>1
  <2>4. QED
    BY <2>1, <2>2, <2>3
<1>5. CASE t = n
  <2>1. o \in Open
    BY <1>1, <1>2, <1>3, <1>4, <1>5
  <2>2. StepOf(l) = "createEnd" /\ o.id = getIdentification(l) /\ l.ns = o.id[3]
    BY <1>1, <1>2, <1>4, <1>5, <2>1, ReadyStep DEF getIdentification
  <2>3. QED
    BY <1>1, <1>2, <1>4, <1>5, <2>2 DEF Effects
<1>6. CASE t # n
  <2>1. t \in DOMAIN log /\ log'[t] = log[t]
    BY <1>1, <1>6
  <2>2. o.start < t /\ (o.end = 0 \/ t < o.end)
    BY <1>2, <1>4
  <2>3. \E q \in Closed : q.id = o.id /\ q.end = t
    BY <1>2, <1>4, <2>1, <2>2 DEF ReadyInv, ReadyAt
  <2>4. QED
    BY <1>4, <2>3 DEF Effects
<1>7. QED
  BY <1>5, <1>6

LEMMA NewestPreserved ==
    ASSUME SeqInv, SeqInv', NewestInv, NEW l \in feed.lines, NEW step, ReadLine(l, step), Effects(l)
    PROVE  NewestInv'
<1> DEFINE n == Len(log) + 1
<1>1. /\ Len(log) \in Nat /\ now = n /\ DOMAIN log = 1..Len(log) /\ DOMAIN log' = 1..n
      /\ (\A t \in 1..Len(log) : log'[t] = log[t]) /\ log'[n] = l
      /\ copy' = copy /\ feed' = feed /\ flags' = flags
  BY LineFacts
<1>2. SUFFICES ASSUME copy = "library", "create" \in flags
               PROVE  /\ \A t \in DOMAIN log' : \A id : CreationLine(log'[t], id) =>
                            \E q \in Open' \cup Closed' : q.start = t /\ q.id = id
                      /\ \A q \in Closed' : \A t \in q.start + 1 .. q.end - 1 :
                            CreationLine(log'[t], q.id) =>
                               \E p \in Closed' : p.start = t /\ p.end < q.end
  BY <1>1 DEF NewestInv, NewestAt
<1>3. /\ \A o \in Open : o.start \in 1..Len(log) /\ o.end = 0
      /\ \A c \in Closed : c.start \in 1..Len(log) /\ c.end \in 1..Len(log)
  BY StateFacts
<1>4. /\ \A t \in DOMAIN log : \A id : CreationLine(log[t], id) =>
            \E q \in Open \cup Closed : q.start = t /\ q.id = id
      /\ \A q \in Closed : \A t \in q.start + 1 .. q.end - 1 : CreationLine(log[t], q.id) =>
            \E p \in Closed : p.start = t /\ p.end < q.end
  BY <1>2 DEF NewestInv, NewestAt
<1>5. ASSUME NEW t \in DOMAIN log', NEW id, CreationLine(log'[t], id)
      PROVE  \E q \in Open' \cup Closed' : q.start = t /\ q.id = id
  <2>1. CASE t = n
    <3>1. StepOf(l) = "createStart" /\ id = getIdentification(l)
      BY <1>1, <1>2, <1>5, <2>1, CreatesStep
    <3>2. QED
      BY <1>1, <1>2, <2>1, <3>1 DEF Effects
  <2>2. CASE t # n
    <3>1. t \in DOMAIN log /\ log'[t] = log[t]
      BY <1>1, <2>2
    <3>2. PICK q \in Open \cup Closed : q.start = t /\ q.id = id
      BY <1>4, <1>5, <3>1
    <3>3. QED
      BY <1>2, <3>2 DEF Effects
  <2>3. QED
    BY <2>1, <2>2
<1>6. ASSUME NEW q \in Closed', NEW t \in q.start + 1 .. q.end - 1,
             CreationLine(log'[t], q.id)
      PROVE  \E p \in Closed' : p.start = t /\ p.end < q.end
  <2>1. CASE q \in Closed
    <3>1. t \in DOMAIN log /\ log'[t] = log[t]
      BY <1>1, <1>3, <2>1
    <3>2. QED
      BY <1>4, <1>6, <2>1, <3>1 DEF Effects
  <2>2. CASE q \notin Closed
    <3>1. PICK o \in Open : /\ q.id = o.id /\ q.start = o.start /\ q.end = now
                            /\ \A p \in Open : p.id = o.id => p.start <= o.start
      BY <2>2 DEF Effects
    <3>2. o.start \in Nat /\ q.end = n
      BY <1>1, <1>3, <3>1
    <3>3. t \in DOMAIN log /\ log'[t] = log[t] /\ t > o.start
      BY <1>1, <3>1, <3>2
    <3>4. PICK p \in Open \cup Closed : p.start = t /\ p.id = q.id
      BY <1>4, <1>6, <3>3
    <3>5. p \in Closed
      BY <3>1, <3>2, <3>3, <3>4
    <3>6. p.end < q.end
      BY <1>1, <1>3, <3>2, <3>5
    <3>7. QED
      BY <3>4, <3>5, <3>6 DEF Effects
  <2>3. QED
    BY <2>1, <2>2
<1>7. QED
  BY <1>5, <1>6
-----------------------------------------------------------------------------
Inv == SeqInv /\ ReadyInv /\ NewestInv

LEMMA InvInit == Init => Inv
<1> SUFFICES ASSUME Init PROVE Inv
  OBVIOUS
<1>1. /\ copy \in {"library", "command"} /\ feed \in Feeds
      /\ log = <<>> /\ ongoing = <<>> /\ results = <<>> /\ printed = <<>>
  BY DEF Init
<1>2. DOMAIN <<>> = {} /\ <<>> \in Seq(Range(<<>>)) /\ Range(<<>>) = {}
  BY DEF Range
<1>3. OngoingAt(<<>>, Len(log), flags) /\ ReportedAt(<<>>, Len(log), flags)
  BY <1>2 DEF OngoingAt, ReportedAt
<1>4. SeqInv
  BY <1>1, <1>2, <1>3 DEF SeqInv
<1>5. CoresOf("create", <<>>) = {}
  BY <1>2 DEF CoresOf
<1>6. Open = {} /\ Closed = {} /\ DOMAIN log = {}
  BY <1>1, <1>2, <1>5 DEF Open, Closed
<1>7. QED
  BY <1>4, <1>6 DEF Inv, ReadyInv, ReadyAt, NewestInv, NewestAt

LEMMA InvNext == Inv /\ [Next]_vars => Inv'
<1> SUFFICES ASSUME Inv, [Next]_vars PROVE Inv'
  OBVIOUS
<1>1. SeqInv /\ ReadyInv /\ NewestInv
  BY DEF Inv
<1>2. CASE ParseLine
  <2>1. PICK l \in feed.lines :
           \/ Undecodable(l) \/ Panics(l) \/ CreateStart(l) \/ CreateEnd(l)
           \/ ScaleStart(l) \/ ScaleEnd(l)
           \/ SetAttachTime(l) \/ SetContainerTime(l)
           \/ SaveObjInfo(l) \/ IgnoreLine(l)
    BY <1>2 DEF ParseLine
  <2>2. SeqInv' /\ Effects(l)
    BY <1>1, <2>1, LineStep
  <2>3. PICK step : ReadLine(l, step)
    BY <1>1, <2>1, LineStep
  <2>4. ReadyInv' /\ NewestInv'
    BY <1>1, <2>2, <2>3, ReadyPreserved, NewestPreserved
  <2>5. QED
    BY <2>2, <2>4 DEF Inv
<1>3. CASE Return
  BY <1>1, <1>3, ReturnStep DEF Inv, ReadyInv, ReadyAt, NewestInv, NewestAt
<1>4. CASE UNCHANGED vars
  BY <1>1, <1>4 DEF vars, Inv, SeqInv, ReadyInv, ReadyAt, NewestInv, NewestAt, Open, Closed
<1>5. QED
  BY <1>2, <1>3, <1>4 DEF Next

LEMMA ReadyImplies ==
    ASSUME SeqInv, ReadyInv
    PROVE  ReadyEndsOne
<1> DEFINE shown == IF copy = "library" THEN results ELSE printed
<1>1. Reported = Range(shown) /\ Closed = CoresOf("create", shown) /\ Open = CoresOf("create", ongoing)
  BY DEF Reported, Closed, Open
<1> HIDE DEF shown
<1>2. SUFFICES ASSUME NEW t \in DOMAIN log, NEW r \in Recorded,
                      r.action = "create", r.start < t, r.end = 0 \/ t < r.end,
                      copy = "library" \/ r.id[3] \in Namespaces, Ready(log[t], r.id)
               PROVE  \E q \in Reported : q.action = "create" /\ q.id = r.id /\ q.end = t
  BY DEF ReadyEndsOne
<1>3. Core(r) \in Open \cup Closed
  BY <1>1, <1>2 DEF Recorded, Range, CoresOf
<1>4. Core(r).id = r.id /\ Core(r).start = r.start /\ Core(r).end = r.end
  BY DEF Core
<1>5. PICK c \in Closed : c.id = r.id /\ c.end = t
  BY <1>2, <1>3, <1>4 DEF ReadyInv, ReadyAt
<1>6. PICK i \in DOMAIN shown : shown[i].action = "create" /\ c = Core(shown[i])
  BY <1>1 DEF CoresOf
<1>7. shown[i] \in Reported /\ shown[i].id = r.id /\ shown[i].end = t
  BY <1>1, <1>5, <1>6 DEF Core, Range
<1>8. QED
  BY <1>6, <1>7

LEMMA NewestImplies ==
    ASSUME SeqInv, NewestInv
    PROVE  NewestFirst
<1> SUFFICES ASSUME copy = "library", NEW r \in Reported, r.action = "create",
                    NEW t \in r.start + 1 .. r.end - 1, Creates(log[t], r.id)
             PROVE  \E q \in Reported : q.action = "create" /\ q.start = t /\ q.end < r.end
  BY DEF NewestFirst
<1>1. Reported = Range(results) /\ Closed = CoresOf("create", results)
  BY DEF Reported, Closed
<1>2. Core(r) \in Closed
  BY <1>1 DEF Range, CoresOf
<1>3. Core(r).id = r.id /\ Core(r).start = r.start /\ Core(r).end = r.end
  BY DEF Core
<1>4. "create" \in flags /\ r.id[2] \in DOMAIN createEndCrit
  BY <1>2, <1>3, StateFacts
<1>5. CreationLine(log[t], r.id)
  BY <1>4 DEF CreationLine
<1>6. PICK c \in Closed : c.start = t /\ c.end < r.end
  BY <1>2, <1>3, <1>4, <1>5 DEF NewestInv, NewestAt
<1>7. PICK i \in DOMAIN results : results[i].action = "create" /\ c = Core(results[i])
  BY <1>1 DEF CoresOf
<1>8. results[i] \in Reported /\ results[i].start = t /\ results[i].end < r.end
  BY <1>1, <1>6, <1>7 DEF Core, Range
<1>9. QED
  BY <1>7, <1>8

(***************************************************************************)
(* For any audit log and both copies of the parser: an audit line that     *)
(* shows an object ready while a creation of it is recorded as open ends   *)
(* one (create.go: isCreateEnd, getCreateEndIndex).                        *)
(***************************************************************************)
THEOREM NoReadyObjectIsMissed == Spec => []ReadyEndsOne
<1>1. Inv => ReadyEndsOne
  BY ReadyImplies DEF Inv
<1>2. QED
  BY <1>1, InvInit, InvNext, PTL DEF Spec

(***************************************************************************)
(* For any audit log: the library ends the creations of an object newest   *)
(* first (getEndIndex searches ongoing from its end), so that an object    *)
(* created again is not timed from an earlier creation.                    *)
(***************************************************************************)
THEOREM CreationsEndNewestFirst == Spec => []NewestFirst
<1>1. Inv => NewestFirst
  BY NewestImplies DEF Inv
<1>2. QED
  BY <1>1, InvInit, InvNext, PTL DEF Spec
-----------------------------------------------------------------------------
(***************************************************************************)
(* The reads of an object, and the step of a line that shows its spec.     *)
(***************************************************************************)
LEMMA MaxIs ==
    ASSUME NEW n \in Nat, NEW S, S \subseteq 1..n, NEW m \in S, \A i \in S : i <= m
    PROVE  Max(S) = m
<1> DEFINE x == Max(S)
<1>1. x \in S /\ \A i \in S : i <= x
  <2>1. S # {}
    OBVIOUS
  <2>2. QED
    BY <2>1, MaxFacts
<1> HIDE DEF x
<1>2. x = m
  BY <1>1
<1>3. QED
  BY <1>2 DEF x

LEMMA ReadsFacts ==
    ASSUME NEW lg, NEW t \in Nat, NEW id, Reads(lg, t, id) # {}
    PROVE  LET m == Max(Reads(lg, t, id))
           IN  /\ m \in Reads(lg, t, id) /\ m \in 1..(t - 1) /\ t - 1 \in Nat
               /\ \A u \in Reads(lg, t, id) : u <= m
<1> DEFINE S == Reads(lg, t, id)
<1>1. S \subseteq 1..(t - 1) /\ t - 1 \in Nat
  BY DEF Reads
<1> HIDE DEF S
<1>2. Max(S) \in S /\ \A u \in S : u <= Max(S)
  BY <1>1, MaxFacts DEF S
<1>3. QED
  BY <1>1, <1>2 DEF S

LEMMA ReadsKept ==
    ASSUME SeqInv, NEW l \in feed.lines, NEW step, ReadLine(l, step)
    PROVE  LET n == Len(log) + 1
           IN  /\ \A t \in 1..n : \A id :
                     /\ Reads(log', t, id) = Reads(log, t, id)
                     /\ Reads(log, t, id) # {} => LastRead(log', t, id) = LastRead(log, t, id)
               /\ \A id : Reads(log', n + 1, id) =
                     Reads(log, n, id) \cup {u \in {n} : Shows(l, id) /\ l.verb \in {"get", "create"}}
<1> DEFINE n == Len(log) + 1
<1>1. /\ Len(log) \in Nat /\ n \in Nat /\ (\A t \in 1..Len(log) : log'[t] = log[t]) /\ log'[n] = l
  BY LineFacts
<1> HIDE DEF n
<1>2. n - 1 = Len(log)
  BY <1>1 DEF n
<1>3. ASSUME NEW t \in 1..n, NEW id
      PROVE  /\ Reads(log', t, id) = Reads(log, t, id)
             /\ Reads(log, t, id) # {} => LastRead(log', t, id) = LastRead(log, t, id)
  <2>1. \A u \in 1..(t - 1) : u \in 1..Len(log) /\ log'[u] = log[u]
    BY <1>1, <1>2
  <2>2. Reads(log', t, id) = Reads(log, t, id)
    BY <2>1 DEF Reads
  <2>3. ASSUME Reads(log, t, id) # {} PROVE LastRead(log', t, id) = LastRead(log, t, id)
    <3>1. Max(Reads(log, t, id)) \in 1..(t - 1)
      BY <1>1, <2>3, ReadsFacts
    <3>2. QED
      BY <2>1, <2>2, <3>1 DEF LastRead
  <2>4. QED
    BY <2>2, <2>3
<1>4. ASSUME NEW id
      PROVE  Reads(log', n + 1, id) =
                Reads(log, n, id) \cup {u \in {n} : Shows(l, id) /\ l.verb \in {"get", "create"}}
  <2> DEFINE R(k) == Shows(k, id) /\ k.verb \in {"get", "create"}
  <2>1. Reads(log', n + 1, id) = {u \in 1..n : R(log'[u])}
    <3>1. 1..(n + 1 - 1) = 1..n
      BY <1>1
    <3>2. QED
      BY <1>1, <3>1 DEF Reads
  <2>2. Reads(log, n, id) = {u \in 1..Len(log) : R(log[u])}
    BY <1>2 DEF Reads
  <2> HIDE DEF R
  <2>3. \A u : u \in 1..n <=> u \in 1..Len(log) \/ u = n
    BY <1>1, <1>2
  <2>4. {u \in 1..n : R(log'[u])} = {u \in 1..Len(log) : R(log[u])} \cup {u \in {n} : R(l)}
    BY <1>1, <2>3
  <2>5. QED
    BY <2>1, <2>2, <2>4 DEF R
<1>5. QED
  BY <1>3, <1>4 DEF n

\* A get or create of a scalable object is saved.
LEMMA ReadStep ==
    ASSUME NEW l, NEW id, Scalable(id), Shows(l, id), l.verb \in {"get", "create"}
    PROVE  StepOf(l) = "save" /\ l.code \in {200, 201} /\ id = getIdentification(l)
<1>1. id = getIdentification(l) /\ l.resource \in DOMAIN scaleEndCrit
  BY DEF Shows, Scalable, getIdentification
<1>2. l.resource \notin DOMAIN createEndCrit /\ l.resource \notin {"events", "pods"}
  BY <1>1 DEF scaleEndCrit, createEndCrit
<1>3. /\ ~isCreateStart(l) /\ ~isCreateEnd(l) /\ ~isScaleStart(l)
      /\ ~StatusOverflows(l) /\ ~isScaleEnd(l)
  BY <1>2 DEF isCreateStart, isCreateEnd, isScaleStart, isScaleEnd, StatusOverflows, IsScaleStatus
<1>4. /\ ~isAttachVolumeEvent(l) /\ ~StatusMissing(l) /\ ~isContainerCreatingStatus(l)
      /\ isGetCreateRequest(l)
  BY <1>2 DEF isAttachVolumeEvent, isContainerCreatingStatus, isGetCreateRequest, StatusMissing,
     IsPodStatus
<1>5. QED
  BY <1>1, <1>3, <1>4 DEF StepOf, Shows

\* Whatever is saved was read.
LEMMA SaveStep ==
    ASSUME NEW l, StepOf(l) = "save", l.code \in {200, 201}
    PROVE  Shows(l, getIdentification(l)) /\ l.verb \in {"get", "create"}
<1>1. Decodes(l) /\ l.stage = "ResponseComplete" /\ isGetCreateRequest(l)
  BY DEF StepOf
<1>2. QED
  BY <1>1 DEF Shows, isGetCreateRequest

LEMMA StorePreserved ==
    ASSUME SeqInv, StoreAt(objstore, log), NEW l \in feed.lines, NEW step, ReadLine(l, step),
           StoreEffect(l)
    PROVE  StoreAt(objstore', log')
<1> DEFINE n == Len(log) + 1
           id == getIdentification(l)
           new(d) == Shows(l, d) /\ l.verb \in {"get", "create"}
<1>1. /\ n \in Nat /\ n >= 1 /\ Len(log') = n /\ DOMAIN log = 1..Len(log) /\ DOMAIN log' = 1..n
      /\ (\A t \in 1..Len(log) : log'[t] = log[t]) /\ log'[n] = l /\ Len(log) \in Nat
  BY LineFacts
<1>2. /\ \A d : Reads(log', n, d) = Reads(log, n, d)
      /\ \A d : Reads(log, n, d) # {} => LastRead(log', n, d) = LastRead(log, n, d)
      /\ \A d : Reads(log', n + 1, d) = Reads(log, n, d) \cup {u \in {n} : new(d)}
  BY <1>1, ReadsKept
<1>3. /\ \A d \in DOMAIN objstore : /\ Scalable(d) /\ Reads(log, n, d) # {}
                                    /\ objstore[d] = LastRead(log, n, d)
      /\ \A u \in DOMAIN log : LET d == getIdentification(log[u])
                               IN  Scalable(d) /\ u \in Reads(log, n, d) => d \in DOMAIN objstore
  BY DEF StoreAt
<1>4. \A d : new(d) => d = id
  BY DEF Shows
<1>5. (StepOf(l) = "save" /\ l.code \in {200, 201} /\ Scalable(id)) <=> (Scalable(id) /\ new(id))
  BY ReadStep, SaveStep
<1>6. Scalable(id) /\ new(id) =>
         /\ DOMAIN objstore' = DOMAIN objstore \cup {id} /\ objstore'[id] = l.spec
         /\ \A d \in DOMAIN objstore : d # id => objstore'[d] = objstore[d]
  BY <1>5 DEF StoreEffect
<1>7. ~(Scalable(id) /\ new(id)) => objstore' = objstore
  BY <1>5 DEF StoreEffect
<1> HIDE DEF n, id, new
\* The spec of an object that the line does not read.
<1>8. ASSUME NEW d, ~new(d)
      PROVE  /\ Reads(log', n + 1, d) = Reads(log, n, d)
             /\ Reads(log, n, d) # {} => LastRead(log', n + 1, d) = LastRead(log, n, d)
  <2>1. Reads(log', n + 1, d) = Reads(log, n, d)
    BY <1>2, <1>8
  <2>2. QED
    BY <1>2, <2>1 DEF LastRead
<1>9. ASSUME NEW d, new(d)
      PROVE  Reads(log', n + 1, d) # {} /\ LastRead(log', n + 1, d) = l.spec
  <2>1. n \in Reads(log', n + 1, d)
    BY <1>2, <1>9
  <2>2. Reads(log', n + 1, d) \subseteq 1..n
    <3>1. 1..(n + 1 - 1) = 1..n
      BY <1>1
    <3>2. QED
      BY <1>1, <3>1 DEF Reads
  <2>3. \A u \in Reads(log', n + 1, d) : u <= n
    BY <1>1, <2>2
  <2>4. Max(Reads(log', n + 1, d)) = n
    BY <1>1, <2>1, <2>2, <2>3, MaxIs
  <2>5. QED
    BY <1>1, <2>1, <2>4 DEF LastRead
<1>10. ASSUME NEW d \in DOMAIN objstore'
       PROVE  /\ Scalable(d) /\ Reads(log', n + 1, d) # {}
              /\ objstore'[d] = LastRead(log', n + 1, d)
  <2>1. CASE new(d)
    <3>1. d = id
      BY <1>4, <2>1
    <3>2. Scalable(d)
      BY <1>3, <1>7, <3>1
    <3>3. QED
      BY <1>6, <1>9, <2>1, <3>1, <3>2
  <2>2. CASE ~new(d)
    <3>1. d \in DOMAIN objstore /\ objstore'[d] = objstore[d]
      BY <1>4, <1>6, <1>7, <2>2
    <3>2. QED
      BY <1>3, <1>8, <2>2, <3>1
  <2>3. QED
    BY <2>1, <2>2
<1>11. ASSUME NEW u \in DOMAIN log', Scalable(getIdentification(log'[u])),
              u \in Reads(log', n + 1, getIdentification(log'[u]))
       PROVE  getIdentification(log'[u]) \in DOMAIN objstore'
  <2>1. DOMAIN objstore \subseteq DOMAIN objstore'
    BY <1>6, <1>7
  <2>2. CASE u = n
    <3>1. getIdentification(log'[u]) = id
      BY <1>1, <2>2 DEF id
    <3>2. n \notin Reads(log, n, id)
      BY <1>1 DEF Reads
    <3>3. new(id)
      BY <1>2, <1>11, <2>2, <3>1, <3>2
    <3>4. QED
      BY <1>6, <1>11, <3>1, <3>3
  <2>3. CASE u # n
    <3>1. u \in DOMAIN log /\ log'[u] = log[u]
      BY <1>1, <2>3 DEF n
    <3>2. u \in Reads(log, n, getIdentification(log[u]))
      BY <1>2, <1>11, <2>3, <3>1
    <3>3. QED
      BY <1>3, <1>11, <2>1, <3>1, <3>2
  <2>4. QED
    BY <2>2, <2>3
<1>12. QED
  BY <1>1, <1>10, <1>11 DEF StoreAt

(***************************************************************************)
(* The recorded scales after a line.                                       *)
(***************************************************************************)
LEMMA ScaleEnds ==
    ASSUME SeqInv
    PROVE  (\A o \in OpenScales : o.end = 0) /\ \A c \in Scales : c.end \in Nat
<1>1. \A o \in OpenScales : o.end = 0
  BY DEF SeqInv, OngoingAt, OpenScales, CoresOf, Core
<1>2. \A c \in ClosedScales : c.end \in Nat
  <2>1. Len(log) \in Nat
    BY LenProperties DEF SeqInv
  <2>2. CASE copy = "library"
    BY <2>1, <2>2 DEF SeqInv, ReportedAt, ClosedScales, CoresOf, Core
  <2>3. CASE copy # "library"
    BY <2>1, <2>3 DEF SeqInv, ReportedAt, ClosedScales, CoresOf, Core
  <2>4. QED
    BY <2>2, <2>3
<1>3. QED
  BY <1>1, <1>2 DEF Scales

LEMMA FromReadPreserved ==
    ASSUME SeqInv, StoreAt(objstore, log), \A r \in Scales : FromRead(r, log, flags),
           NEW l \in feed.lines, NEW step, ReadLine(l, step), ScaleEffects(l)
    PROVE  \A r \in Scales' : FromRead(r, log', flags')
<1> DEFINE n == Len(log) + 1
           id == getIdentification(l)
<1>1. /\ Len(log) \in Nat /\ n \in Nat /\ Len(log') = n /\ now = n /\ flags' = flags
  BY LineFacts
<1>2. \A t \in 1..n : \A d :
         /\ Reads(log', t, d) = Reads(log, t, d)
         /\ Reads(log, t, d) # {} => LastRead(log', t, d) = LastRead(log, t, d)
  BY ReadsKept
<1> HIDE DEF n
<1>3. \A t \in 1..Len(log) : t \in 1..n
  BY <1>1 DEF n
<1>4. \A r : FromRead(r, log, flags) => FromRead(r, log', flags)
  <2> TAKE r
  <2>1. HAVE FromRead(r, log, flags)
  <2>2. /\ r.start \in 1..Len(log) /\ Reads(log, r.start, r.id) # {}
        /\ r.from = LastRead(log, r.start, r.id)
    BY <2>1 DEF FromRead
  <2>3. /\ r.start \in 1..Len(log') /\ Reads(log', r.start, r.id) # {}
        /\ r.from = LastRead(log', r.start, r.id)
    BY <1>1, <1>2, <1>3, <2>2
  <2>4. QED
    BY <2>1, <2>3 DEF FromRead
<1>5. ASSUME NEW r, StepOf(l) = "scaleStart", r.id = id, r.start = now,
             r.from = objstore[id], r.to = l.spec
      PROVE  FromRead(r, log', flags)
  <2>1. "scale" \in flags /\ isScaleStart(l)
    BY <1>5 DEF StepOf
  <2>2. id \in DOMAIN objstore /\ objstore[id] # 0 /\ objstore[id] # l.spec
    BY <2>1 DEF isScaleStart
  <2>3. Scalable(id) /\ Reads(log, n, id) # {} /\ objstore[id] = LastRead(log, n, id)
    BY <2>2 DEF StoreAt, n
  <2>4. n \in 1..n
    BY <1>1 DEF n
  <2>5. Reads(log', n, id) # {} /\ objstore[id] = LastRead(log', n, id)
    BY <1>2, <2>3, <2>4
  <2>6. QED
    BY <1>1, <1>5, <2>1, <2>2, <2>3, <2>4, <2>5 DEF FromRead
<1>6. ASSUME NEW r \in Scales' PROVE FromRead(r, log', flags)
  <2>1. CASE r \in Scales
    BY <1>4, <2>1
  <2>2. CASE r \in OpenScales' /\ r \notin OpenScales
    <3>1. /\ StepOf(l) = "scaleStart" /\ r.id = id
          /\ r.start = now /\ r.from = objstore[id] /\ r.to = l.spec
      BY <2>2 DEF ScaleEffects
    <3>2. QED
      BY <1>5, <3>1
  <2>3. CASE r \in ClosedScales' /\ r \notin ClosedScales
    <3>1. PICK o \in OpenScales :
             r.id = o.id /\ r.start = o.start /\ r.from = o.from /\ r.to = o.to
      BY <2>3 DEF ScaleEffects
    <3>2. FromRead(o, log', flags)
      BY <1>4 DEF Scales
    <3>3. QED
      BY <3>1, <3>2 DEF FromRead
  <2>4. QED
    BY <2>1, <2>2, <2>3 DEF Scales
<1>7. QED
  BY <1>1, <1>6

(***************************************************************************)
(* A patch or an update that creates its object (server-side apply) is not *)
(* looked at by the parser: no line of the feeds is one.                   *)
(***************************************************************************)
UpdatesCreateNothing ==
    \A f \in Feeds : \A l \in f.lines : l.verb \in {"patch", "update"} => l.code # 201

\* A line that changes a spec is inside the time of a recorded scale.
LEMMA ChangeStep ==
    ASSUME UpdatesCreateNothing, SeqInv, StoreAt(objstore, log), "scale" \in flags,
           NEW l \in feed.lines, NEW step, ReadLine(l, step), ScaleEffects(l),
           \A r \in Scales : FromRead(r, log, flags),
           Changes(log', now, getIdentification(l)),
           copy = "library" \/ getIdentification(l)[3] \in Namespaces
    PROVE  \E q \in Scales' : /\ q.id = getIdentification(l)
                              /\ q.start <= now /\ (q.end = 0 \/ q.end >= now)
<1> DEFINE n == Len(log) + 1
           id == getIdentification(l)
           i == getEndIndex("scale", l)
<1>1. Len(log) \in Nat /\ n \in 1..n /\ now = n /\ log'[n] = l /\ DOMAIN log = 1..Len(log)
  BY LineFacts
<1>2. /\ Shows(l, id) /\ l.verb \in {"patch", "update"} /\ Scalable(id)
      /\ Reads(log', n, id) # {}
      /\ LastRead(log', n, id) # 0 /\ l.spec \notin {0, LastRead(log', n, id)}
  BY <1>1 DEF Changes
<1>3. /\ Reads(log', n, id) = Reads(log, n, id)
      /\ Reads(log, n, id) # {} => LastRead(log', n, id) = LastRead(log, n, id)
  BY <1>1, ReadsKept
<1>4. id \in DOMAIN objstore /\ objstore[id] = LastRead(log, n, id)
  <2>1. PICK u \in Reads(log, n, id) : TRUE
    BY <1>2, <1>3
  <2>2. u \in 1..Len(log) /\ getIdentification(log[u]) = id
    BY <1>1, <2>1 DEF Reads, Shows
  <2>3. id \in DOMAIN objstore
    BY <1>1, <1>2, <2>1, <2>2 DEF StoreAt
  <2>4. QED
    BY <2>3 DEF StoreAt
<1>5. /\ l.code = 200 /\ l.stage = "ResponseComplete" /\ Decodes(l)
      /\ l.resource \in DOMAIN scaleEndCrit /\ l.resource \notin DOMAIN createEndCrit
  <2>1. l.code = 200 /\ l.stage = "ResponseComplete" /\ Decodes(l)
    BY <1>2 DEF Shows, UpdatesCreateNothing, SeqInv
  <2>2. l.resource \in DOMAIN scaleEndCrit
    BY <1>2 DEF Scalable, getIdentification
  <2>3. QED
    BY <2>1, <2>2 DEF scaleEndCrit, createEndCrit
<1>6. CASE isScaleStart(l)
  <2>1. ~isCreateStart(l) /\ ~isCreateEnd(l)
    BY <1>5 DEF isCreateStart, isCreateEnd
  <2>2. StepOf(l) = "scaleStart"
    BY <1>5, <1>6, <2>1 DEF StepOf
  <2>3. QED
    BY <1>1, <2>2 DEF ScaleEffects, Scales
<1>7. CASE ~isScaleStart(l)
  <2>1. i # 0
    BY <1>2, <1>3, <1>4, <1>5, <1>7 DEF isScaleStart
  <2>2. ongoing \in Seq(Range(ongoing))
    BY DEF SeqInv, OngoingAt
  <2>3. i \in DOMAIN ongoing /\ ongoing[i].action = "scale" /\ ongoing[i].id = id
    BY <2>1, <2>2, FindFacts DEF getEndIndex
  <2> HIDE DEF i, id
  <2>4. PICK o \in OpenScales : o.id = id
    <3>1. Core(ongoing[i]) \in OpenScales
      BY <2>3 DEF OpenScales, CoresOf
    <3>2. Core(ongoing[i]).id = id
      BY <2>3 DEF Core
    <3>3. QED
      BY <3>1, <3>2
  <2>5. o.end = 0 /\ o.start \in 1..Len(log)
    BY ScaleEnds DEF Scales, FromRead
  <2>6. CASE o \in OpenScales'
    BY <1>1, <2>4, <2>5, <2>6 DEF Scales, id
  <2>7. CASE o \notin OpenScales'
    <3>1. PICK c \in ClosedScales' : c.id = o.id /\ c.start = o.start /\ c.end = now
      BY <2>4, <2>7 DEF ScaleEffects, id
    <3>2. QED
      BY <1>1, <2>4, <2>5, <3>1 DEF Scales, id
  <2>8. QED
    BY <2>6, <2>7
<1>8. QED
  BY <1>6, <1>7

LEMMA ChangesPreserved ==
    ASSUME UpdatesCreateNothing, SeqInv, ScaleInv,
           NEW l \in feed.lines, NEW step, ReadLine(l, step), ScaleEffects(l)
    PROVE  ChangesAt(Scales', log', copy', flags')
<1> DEFINE n == Len(log) + 1
<1>1. /\ Len(log) \in Nat /\ n \in Nat /\ now = n /\ DOMAIN log = 1..Len(log) /\ DOMAIN log' = 1..n
      /\ (\A t \in 1..Len(log) : log'[t] = log[t]) /\ log'[n] = l
      /\ copy' = copy /\ flags' = flags
  BY LineFacts
<1>2. StoreAt(objstore, log) /\ \A r \in Scales : FromRead(r, log, flags)
  BY DEF ScaleInv
<1> HIDE DEF n
<1>3. SUFFICES ASSUME "scale" \in flags, NEW u \in DOMAIN log',
                      Changes(log', u, getIdentification(log'[u])),
                      copy = "library" \/ getIdentification(log'[u])[3] \in Namespaces
               PROVE  \E q \in Scales' : /\ q.id = getIdentification(log'[u])
                                         /\ q.start <= u /\ (q.end = 0 \/ q.end >= u)
  BY <1>1 DEF ChangesAt
<1>4. CASE u = n
  BY <1>1, <1>2, <1>3, <1>4, ChangeStep
<1>5. CASE u # n
  <2> DEFINE id == getIdentification(log[u])
  <2>1. u \in 1..Len(log) /\ log'[u] = log[u] /\ u \in 1..n
    BY <1>1, <1>5 DEF n
  <2>2. /\ Reads(log', u, id) = Reads(log, u, id)
        /\ Reads(log, u, id) # {} => LastRead(log', u, id) = LastRead(log, u, id)
    BY <2>1, ReadsKept DEF n
  <2> HIDE DEF id
  <2>3. Changes(log, u, id)
    BY <1>3, <2>1, <2>2 DEF Changes, id
  <2>4. PICK q \in Scales : q.id = id /\ q.start <= u /\ (q.end = 0 \/ q.end >= u)
    BY <1>1, <1>3, <2>1, <2>3 DEF ScaleInv, ChangesAt, id
  <2>5. CASE q \in Scales'
    BY <2>1, <2>4, <2>5 DEF id
  <2>6. CASE q \notin Scales'
    <3>1. q \in OpenScales
      BY <2>6 DEF Scales, ScaleEffects
    <3>2. PICK c \in ClosedScales' : c.id = q.id /\ c.start = q.start /\ c.end = now
      BY <1>3, <2>1, <2>4, <2>6, <3>1 DEF ScaleEffects, Scales, id
    <3>3. c.end >= u
      BY <1>1, <2>1, <3>2 DEF n
    <3>4. QED
      BY <2>1, <2>4, <3>2, <3>3 DEF Scales, id
  <2>7. QED
    BY <2>5, <2>6
<1>6. QED
  BY <1>4, <1>5

LEMMA ScaleInvInit == Init => ScaleInv
<1> SUFFICES ASSUME Init PROVE ScaleInv
  OBVIOUS
<1>1. log = <<>> /\ ongoing = <<>> /\ results = <<>> /\ printed = <<>> /\ DOMAIN objstore = {}
  BY DEF Init
<1>2. DOMAIN <<>> = {}
  OBVIOUS
<1>3. CoresOf("scale", <<>>) = {}
  BY <1>2 DEF CoresOf
<1>4. Scales = {} /\ DOMAIN log = {}
  BY <1>1, <1>2, <1>3 DEF Scales, OpenScales, ClosedScales
<1>5. QED
  BY <1>1, <1>4 DEF ScaleInv, StoreAt, ChangesAt

LEMMA ScaleInvNext ==
    ASSUME UpdatesCreateNothing, SeqInv, ScaleInv, [Next]_vars
    PROVE  ScaleInv'
<1>1. CASE ParseLine
  <2>1. PICK l \in feed.lines :
           \/ Undecodable(l) \/ Panics(l) \/ CreateStart(l) \/ CreateEnd(l)
           \/ ScaleStart(l) \/ ScaleEnd(l)
           \/ SetAttachTime(l) \/ SetContainerTime(l)
           \/ SaveObjInfo(l) \/ IgnoreLine(l)
    BY <1>1 DEF ParseLine
  <2>2. ScaleEffects(l) /\ StoreEffect(l)
    BY <2>1, LineStep
  <2>3. PICK step : ReadLine(l, step)
    BY <2>1, LineStep
  <2>4. StoreAt(objstore, log) /\ \A r \in Scales : FromRead(r, log, flags)
    BY DEF ScaleInv
  <2>5. StoreAt(objstore', log')
    BY <2>2, <2>3, <2>4, StorePreserved
  <2>6. \A r \in Scales' : FromRead(r, log', flags')
    BY <2>2, <2>3, <2>4, FromReadPreserved
  <2>7. ChangesAt(Scales', log', copy', flags')
    BY <2>2, <2>3, ChangesPreserved
  <2>8. QED
    BY <2>5, <2>6, <2>7 DEF ScaleInv
<1>2. CASE Return
  <2>1. Scales' = Scales /\ copy' = copy /\ flags' = flags /\ log' = log /\ objstore' = objstore
    BY <1>2, ReturnStep
  <2>2. QED
    BY <2>1 DEF ScaleInv
<1>3. CASE UNCHANGED vars
  <2>1. Scales' = Scales /\ copy' = copy /\ flags' = flags /\ log' = log /\ objstore' = objstore
    BY <1>3 DEF vars, Scales, OpenScales, ClosedScales
  <2>2. QED
    BY <2>1 DEF ScaleInv
<1>4. QED
  BY <1>1, <1>2, <1>3 DEF Next

LEMMA ScaleImplies ==
    ASSUME SeqInv, ScaleInv
    PROVE  ScaleIsChange
<1> DEFINE reported == IF copy = "library" THEN results ELSE printed
<1>1. /\ Reported = Range(reported) /\ ClosedScales = CoresOf("scale", reported)
      /\ OpenScales = CoresOf("scale", ongoing)
  BY DEF Reported, ClosedScales, OpenScales
<1> HIDE DEF reported
<1>2. SUFFICES ASSUME NEW r \in Recorded, r.action = "scale",
                      copy = "library" \/ r.id[3] \in Namespaces
               PROVE  LET read  == Max(ShownBefore(r.start, r.id, {"get", "create"}))
                          shown == Max(ShownBefore(r.start, r.id,
                                                   {"get", "create", "patch", "update"}))
                      IN  \/ r.from = log[shown].spec /\ r.to # r.from
                          \/ \E q \in Recorded :
                                /\ q.action = "scale" /\ q.id = r.id
                                /\ q.start < r.start /\ (q.end = 0 \/ q.end > read)
                          \/ \E u \in read .. r.start : Shows(log[u], r.id) /\ log[u].spec = 0
  BY DEF ScaleIsChange
<1> DEFINE A == ShownBefore(r.start, r.id, {"get", "create"})
           B == ShownBefore(r.start, r.id, {"get", "create", "patch", "update"})
           read == Max(A)
           shown == Max(B)
<1>3. Core(r) \in Scales
  BY <1>1, <1>2 DEF Recorded, Range, CoresOf, Scales
<1>4. /\ Core(r).id = r.id /\ Core(r).start = r.start /\ Core(r).end = r.end
      /\ Core(r).from = r.from /\ Core(r).to = r.to
  BY DEF Core
<1>5. FromRead(Core(r), log, flags)
  BY <1>3 DEF ScaleInv
<1>6. /\ "scale" \in flags /\ Scalable(r.id) /\ r.start \in 1..Len(log)
      /\ Reads(log, r.start, r.id) # {}
      /\ r.from = LastRead(log, r.start, r.id) /\ r.from # 0 /\ r.to # r.from
  BY <1>4, <1>5 DEF FromRead
<1>7. Len(log) \in Nat /\ DOMAIN log = 1..Len(log)
  BY LenProperties DEF SeqInv
<1>8. A = Reads(log, r.start, r.id) /\ A \subseteq B
  BY DEF ShownBefore, Reads
<1>9. /\ read \in A /\ (\A u \in A : u <= read) /\ read \in 1..(r.start - 1)
      /\ r.from = log[read].spec
  BY <1>6, <1>7, <1>8, ReadsFacts DEF LastRead
<1>10. shown \in B /\ (\A u \in B : u <= shown) /\ shown \in 1..(r.start - 1)
  <2>1. B \subseteq 1..(r.start - 1) /\ r.start - 1 \in Nat
    BY <1>6, <1>7 DEF ShownBefore
  <2>2. B # {}
    BY <1>8, <1>9
  <2> HIDE DEF A, B
  <2>3. shown \in B /\ \A u \in B : u <= shown
    BY <2>1, <2>2, MaxFacts
  <2>4. QED
    BY <2>1, <2>3
<1>11. Shows(log[shown], r.id) /\ log[shown].verb \in {"get", "create", "patch", "update"}
  BY <1>10 DEF ShownBefore
<1>12. log[shown].verb \in {"get", "create"} => shown \in A
  BY <1>10, <1>11 DEF ShownBefore
<1>13. \A u \in 1..(shown - 1) : u \in Reads(log, shown, r.id) <=> u \in A
  BY <1>6, <1>7, <1>8, <1>10 DEF Reads
<1>14. Reads(log, shown, r.id) \subseteq 1..(shown - 1)
  BY DEF Reads
<1>15. read <= shown /\ read \in Nat /\ shown \in Nat /\ shown \in DOMAIN log /\ r.start \in Nat
       /\ shown < r.start
  BY <1>6, <1>7, <1>8, <1>9, <1>10
<1> HIDE DEF A, B, read, shown
<1>16. CASE shown = read
  BY <1>6, <1>9, <1>16 DEF read, shown, A, B
<1>17. CASE shown # read /\ log[shown].spec = 0
  <2>1. shown \in read .. r.start
    BY <1>15
  <2>2. QED
    BY <1>11, <1>17, <2>1 DEF read, A
<1>18. CASE shown # read /\ log[shown].spec = r.from
  BY <1>6, <1>18 DEF shown, B
<1>19. CASE shown # read /\ log[shown].spec \notin {0, r.from}
  <2>1. log[shown].verb \in {"patch", "update"}
    BY <1>9, <1>11, <1>12, <1>15, <1>19
  <2>2. /\ read \in Reads(log, shown, r.id)
        /\ \A u \in Reads(log, shown, r.id) : u <= read
    <3>1. read \in 1..(shown - 1)
      BY <1>9, <1>15, <1>19
    <3>2. QED
      BY <1>9, <1>13, <1>14, <3>1
  <2>3. Max(Reads(log, shown, r.id)) = read
    <3> DEFINE R == Reads(log, shown, r.id)
               m == shown - 1
    <3>1. m \in Nat /\ R \subseteq 1..m /\ read \in R /\ \A u \in R : u <= read
      BY <1>10, <1>14, <1>15, <2>2
    <3> HIDE DEF R, m
    <3>2. Max(R) = read
      BY <3>1, MaxIs
    <3>3. QED
      BY <3>2 DEF R
  <2>4. Changes(log, shown, r.id)
    BY <1>6, <1>9, <1>11, <1>19, <2>1, <2>2, <2>3 DEF Changes, LastRead
  <2>5. getIdentification(log[shown]) = r.id
    BY <1>11 DEF Shows
  <2>6. PICK c \in Scales : c.id = r.id /\ c.start <= shown /\ (c.end = 0 \/ c.end >= shown)
    BY <1>2, <1>6, <1>15, <2>4, <2>5 DEF ScaleInv, ChangesAt
  <2>7. PICK q \in Recorded : q.action = "scale" /\ c = Core(q)
    BY <1>1 DEF Scales, CoresOf, Recorded, Range
  <2>8. q.id = c.id /\ q.start = c.start /\ q.end = c.end
    BY <2>7 DEF Core
  <2>9. c.start \in Nat
    BY <1>7 DEF ScaleInv, FromRead
  <2>10. q.start < r.start
    BY <1>15, <2>6, <2>8, <2>9
  <2>11. q.end = 0 \/ q.end > read
    BY <1>15, <1>19, <2>6, <2>8, ScaleEnds
  <2>12. QED
    BY <2>6, <2>7, <2>8, <2>10, <2>11 DEF read, A
<1>20. QED
  BY <1>16, <1>17, <1>18, <1>19

(***************************************************************************)
(* For any audit log in which a patch or an update creates nothing, and    *)
(* both copies of the parser: a recorded scale is a change of the replicas *)
(* that the log showed last, unless another scale of the object, or a      *)
(* scale to zero, came after the last get or create of it (scale.go:       *)
(* isScaleStart compares with the object store, which only gets and        *)
(* creates write).                                                         *)
(***************************************************************************)
THEOREM ScalesAreChanges ==
    ASSUME UpdatesCreateNothing
    PROVE  Spec => []ScaleIsChange
<1> DEFINE I == Inv /\ ScaleInv
<1>1. Init => I
  BY InvInit, ScaleInvInit
<1>2. I /\ [Next]_vars => I'
  <2>1. SUFFICES ASSUME Inv, ScaleInv, [Next]_vars PROVE Inv' /\ ScaleInv'
    OBVIOUS
  <2>2. SeqInv
    BY <2>1 DEF Inv
  <2>3. QED
    BY <2>1, <2>2, InvNext, ScaleInvNext
<1>3. I => ScaleIsChange
  BY ScaleImplies DEF Inv
<1>4. QED
  BY <1>1, <1>2, <1>3, PTL DEF Spec
-----------------------------------------------------------------------------
(***************************************************************************)
(* The panic.  Of a pod's record without the time of its containers, up to *)
(* the line at e: no status of them came, or went to a newer record.       *)
(***************************************************************************)
Missed(lg, r, e) ==
    \/ ~\E t \in r.start .. e - 1 : Container(lg[t], r.id)
    \/ \E t \in r.start + 1 .. e - 1 : Creates(lg[t], r.id)

PodAt(lg, r, e) ==
    /\ r.attach # 0 => r.action = "create" /\ IsPod(r)
    /\ r.action = "create" => Creates(lg[r.start], r.id)
    /\ r.action = "create" /\ IsPod(r) /\ r.container = 0 => Missed(lg, r, e)

\* The records while the library reads; each has the start of its own line.
PodsAt(lg, on, re) ==
    /\ \A r \in Range(on) : PodAt(lg, r, Len(lg) + 1)
    /\ \A i \in DOMAIN re : PodAt(lg, re[i], re[i].end)
    /\ \A i, j \in DOMAIN re : i # j => re[i].start # re[j].start
    /\ \A i \in DOMAIN re : \A r \in Range(on) : r.start # re[i].start

Waits == copy = "library" /\ "pvcpod" \in flags /\ status = "reading"

PodsInv == (Waits => PodsAt(log, ongoing, results)) /\ PanicCause

(***************************************************************************)
(* What the step that parses line l does to the records of the library: it *)
(* adds one, or keeps one, perhaps with other times; it reports at most    *)
(* one that was ongoing.                                                   *)
(***************************************************************************)
SamePlace(r, o) == r.start = o.start /\ r.id = o.id /\ r.action = o.action

NewPod(l, r) ==
    /\ r.start = now /\ r.attach = 0 /\ ~Container(l, r.id)
    /\ r.action = "create" => Creates(l, r.id)

KeptPod(l, r, o) ==
    /\ SamePlace(r, o)
    /\ r.attach # 0 => o.attach # 0 \/ (o.action = "create" /\ IsPod(o))
    /\ r.container = 0 => o.container = 0
    /\ r.container = 0 /\ r.action = "create" /\ Container(l, r.id) =>
          \E p \in Range(ongoing) : p.action = "create" /\ p.id = r.id /\ p.start > r.start

ReportsOne(r) ==
    /\ results' = Append(results, r) /\ r.end = now
    /\ \E o \in Range(ongoing) :
          SamePlace(r, o) /\ r.attach = o.attach /\ r.container = o.container
    /\ \A p \in Range(ongoing') : p.start # r.start

PodEffects(l) ==
    /\ \A r \in Range(ongoing') : NewPod(l, r) \/ \E o \in Range(ongoing) : KeptPod(l, r, o)
    /\ results' = results \/ \E r : ReportsOne(r)

LEMMA ContainerStep ==
    ASSUME SeqInv, "pvcpod" \in flags, NEW l \in feed.lines, NEW id, Container(l, id)
    PROVE  /\ StepOf(l) \in {"createEnd", "container"}
           /\ id = getIdentification(l) /\ id = <<l.name, "pods", l.ns>>
<1>1. l.verb = "patch" /\ l.resource = "pods" /\ l.stage = "ResponseComplete"
  BY DEF Container, isContainerCreatingStatus, IsPodStatus
<1>2. Decodes(l)
  BY <1>1, FeedAssumption DEF SeqInv, createEndCrit
<1>3. /\ ~isCreateStart(l) /\ ~isScaleStart(l) /\ ~StatusOverflows(l) /\ ~isScaleEnd(l)
      /\ ~isAttachVolumeEvent(l) /\ ~StatusMissing(l)
  <2>1. l.sent
    BY DEF Container, isContainerCreatingStatus
  <2>2. QED
    BY <1>1, <2>1 DEF isCreateStart, isScaleStart, isScaleEnd, StatusOverflows, IsScaleStatus,
       isAttachVolumeEvent, StatusMissing, scaleEndCrit
<1>4. isContainerCreatingStatus(l) /\ id = getIdentification(l)
  BY DEF Container
<1>5. id = <<l.name, "pods", l.ns>>
  BY <1>1, <1>4 DEF getIdentification
<1>6. QED
  BY <1>1, <1>2, <1>3, <1>4, <1>5 DEF StepOf

LEMMA OngoingFacts ==
    ASSUME SeqInv
    PROVE  /\ ongoing \in Seq(Range(ongoing))
           /\ \A o \in Range(ongoing) : DOMAIN o = Fields /\ o.start \in 1..Len(log)
           /\ \A i, j \in DOMAIN ongoing :
                 i \in Nat /\ (i < j => ongoing[i].start < ongoing[j].start)
           /\ \A i, j \in DOMAIN ongoing : i # j => ongoing[i].start # ongoing[j].start
<1>1. /\ ongoing \in Seq(Range(ongoing))
      /\ \A i \in DOMAIN ongoing : RecordAt(ongoing[i], Len(log), flags)
      /\ \A i, j \in DOMAIN ongoing : i < j => ongoing[i].start < ongoing[j].start
  BY DEF SeqInv, OngoingAt
<1>2. Len(log) \in Nat
  BY LenProperties DEF SeqInv
<1>3. \A o \in Range(ongoing) : DOMAIN o = Fields /\ o.start \in 1..Len(log)
  BY <1>1 DEF Range, RecordAt
<1>4. \A i \in DOMAIN ongoing : i \in Nat /\ ongoing[i].start \in Nat
  BY <1>1, <1>2, LenProperties DEF RecordAt
<1>5. \A i, j \in DOMAIN ongoing : i # j => ongoing[i].start # ongoing[j].start
  <2> TAKE i, j \in DOMAIN ongoing
  <2>1. HAVE i # j
  <2>2. i < j \/ j < i
    BY <1>4, <2>1
  <2>3. QED
    BY <1>1, <1>4, <2>2
<1>6. QED
  BY <1>1, <1>3, <1>4, <1>5

LEMMA RemovedRange ==
    ASSUME NEW s, s \in Seq(Range(s)), NEW k \in DOMAIN s
    PROVE  \A r \in Range(RemoveAt(s, k)) : \E j \in DOMAIN s : j # k /\ r = s[j]
<1> DEFINE w == RemoveAt(s, k)
           at(i) == IF i < k THEN i ELSE i + 1
<1>1. /\ Len(s) \in Nat /\ k \in 1..Len(s)
      /\ DOMAIN s = 1..Len(s) /\ DOMAIN w = 1..(Len(s) - 1)
      /\ \A i \in 1..(Len(s) - 1) : w[i] = IF i < k THEN s[i] ELSE s[i + 1]
  BY RemoveFacts
<1> HIDE DEF w
<1>2. \A i \in DOMAIN w : at(i) \in DOMAIN s /\ at(i) # k /\ w[i] = s[at(i)]
  BY <1>1
<1> HIDE DEF at
<1>3. \A r \in Range(w) : \E j \in DOMAIN s : j # k /\ r = s[j]
  BY <1>2 DEF Range
<1>4. QED
  BY <1>3 DEF w

LEMMA KeptFacts ==
    ASSUME NEW l, NEW o, ~Container(l, o.id)
    PROVE  KeptPod(l, o, o)
BY DEF KeptPod, SamePlace

\* Lines that leave the records alone, and the creations that start.
LEMMA PodsQuiet ==
    ASSUME SeqInv, "pvcpod" \in flags, copy = "library", NEW l \in feed.lines,
           Undecodable(l) \/ Panics(l) \/ CreateStart(l) \/ SaveObjInfo(l) \/ IgnoreLine(l)
    PROVE  PodEffects(l)
<1>1. StepOf(l) \notin {"createEnd", "container"} /\ results' = results
  BY DEF Undecodable, Panics, CreateStart, SaveObjInfo, IgnoreLine, ReadLine
<1>2. \A id : ~Container(l, id)
  BY <1>1, ContainerStep
<1>3. \A o \in Range(ongoing) : KeptPod(l, o, o)
  BY <1>2, KeptFacts
<1>4. CASE ~CreateStart(l)
  <2>1. ongoing' = ongoing
    BY <1>4 DEF Undecodable, Panics, SaveObjInfo, IgnoreLine
  <2>2. QED
    BY <1>1, <1>3, <2>1 DEF PodEffects
<1>5. CASE CreateStart(l)
  <2> DEFINE e == initializeRecord("create", l)
  <2>1. ongoing' = Append(ongoing, e) /\ StepOf(l) = "createStart"
    BY <1>5 DEF CreateStart, ReadLine
  <2>2. e.start = now /\ e.attach = 0 /\ e.id = getIdentification(l)
    BY DEF initializeRecord
  <2>3. isCreateStart(l) /\ l.stage = "ResponseComplete"
    BY <2>1 DEF StepOf
  <2> HIDE DEF e
  <2>4. NewPod(l, e)
    BY <1>2, <2>2, <2>3 DEF NewPod, Creates, isCreateStart
  <2>5. Range(ongoing') = Range(ongoing) \cup {e}
    BY <2>1, AppendFacts, OngoingFacts
  <2>6. QED
    BY <1>1, <1>3, <2>4, <2>5 DEF PodEffects
<1>6. QED
  BY <1>4, <1>5

\* Attachments and container statuses.
LEMMA PodsTimed ==
    ASSUME SeqInv, "pvcpod" \in flags, NEW l \in feed.lines,
           SetAttachTime(l) \/ SetContainerTime(l)
    PROVE  PodEffects(l)
<1> DEFINE k == PodRecord(l)
           pod == <<l.name, "pods", l.ns>>
<1>1. /\ ongoing \in Seq(Range(ongoing))
      /\ \A o \in Range(ongoing) : DOMAIN o = Fields /\ o.start \in 1..Len(log)
      /\ \A i, j \in DOMAIN ongoing :
            i \in Nat /\ (i < j => ongoing[i].start < ongoing[j].start)
  BY OngoingFacts
<1>2. Len(log) \in Nat /\ now \in Nat /\ now # 0
  <2>1. Len(log) \in Nat
    BY LenProperties DEF SeqInv
  <2>2. QED
    BY <2>1 DEF now
<1>3. /\ k # 0 => /\ k \in DOMAIN ongoing /\ ongoing[k].action = "create" /\ ongoing[k].id = pod
                  /\ \A j \in DOMAIN ongoing :
                        ongoing[j].action = "create" /\ ongoing[j].id = pod => j <= k
      /\ k = 0 => \A j \in DOMAIN ongoing :
                     ~(ongoing[j].action = "create" /\ ongoing[j].id = pod)
  BY <1>1, FindFacts DEF PodRecord
<1>4. results' = results
  BY DEF SetAttachTime, SetContainerTime
<1>5. \A id : Container(l, id) => id = pod /\ StepOf(l) \in {"createEnd", "container"}
  BY ContainerStep
<1>6. ASSUME SetAttachTime(l), NEW j \in DOMAIN ongoing
      PROVE  KeptPod(l, ongoing'[j], ongoing[j])
  <2>1. \A id : ~Container(l, id)
    BY <1>5, <1>6 DEF SetAttachTime, ReadLine
  <2>2. CASE k # 0 /\ j = k
    <3>1. ongoing' = [ongoing EXCEPT ![k].attach = now, ![k].pv = l.pv]
      BY <1>6, <2>2 DEF SetAttachTime
    <3> DEFINE o == ongoing[k]
    <3>2. DOMAIN o = Fields
      BY <1>1, <1>6, <2>2 DEF Range
    <3>3. ongoing'[k] = [[o EXCEPT !.attach = now] EXCEPT !.pv = l.pv]
      BY <1>3, <2>2, <3>1
    <3> HIDE DEF o, k
    <3>4. SamePlace(ongoing'[k], o) /\ ongoing'[k].container = o.container
      BY <3>2, <3>3 DEF SamePlace, Fields
    <3>5. o.action = "create" /\ IsPod(o)
      BY <1>3, <2>2 DEF o, IsPod
    <3>6. QED
      BY <2>1, <2>2, <3>4, <3>5 DEF KeptPod, o
  <2>3. CASE ~(k # 0 /\ j = k)
    <3>1. ongoing'[j] = ongoing[j]
      BY <1>6, <2>3 DEF SetAttachTime
    <3>2. QED
      BY <2>1, <3>1, KeptFacts
  <2>4. QED
    BY <2>2, <2>3
<1>7. ASSUME SetContainerTime(l), NEW j \in DOMAIN ongoing
      PROVE  KeptPod(l, ongoing'[j], ongoing[j])
  <2>1. CASE k # 0 /\ j = k
    <3>1. ongoing' = [ongoing EXCEPT ![k].container = now]
      BY <1>7, <2>1 DEF SetContainerTime
    <3> DEFINE o == ongoing[k]
    <3>2. DOMAIN o = Fields
      BY <1>1, <1>7, <2>1 DEF Range
    <3>3. ongoing'[k] = [o EXCEPT !.container = now]
      BY <1>3, <2>1, <3>1
    <3> HIDE DEF o, k
    <3>4. /\ SamePlace(ongoing'[k], o) /\ ongoing'[k].container = now
          /\ ongoing'[k].attach = o.attach
      BY <3>2, <3>3 DEF SamePlace, Fields
    <3>5. QED
      BY <1>2, <2>1, <3>4 DEF KeptPod, o
  <2>2. CASE ~(k # 0 /\ j = k)
    <3>1. ongoing'[j] = ongoing[j]
      BY <1>7, <2>2 DEF SetContainerTime
    <3>2. ASSUME ongoing[j].action = "create", Container(l, ongoing[j].id)
          PROVE  \E p \in Range(ongoing) : /\ p.action = "create" /\ p.id = ongoing[j].id
                                           /\ p.start > ongoing[j].start
      <4>1. ongoing[j].id = pod
        BY <1>5, <3>2
      <4>2. k # 0 /\ k \in DOMAIN ongoing /\ j <= k /\ j # k
        BY <1>3, <1>7, <2>2, <3>2, <4>1
      <4>3. j \in Nat /\ k \in Nat
        BY <1>1, <4>2
      <4> HIDE DEF k
      <4>4. j < k
        BY <4>2, <4>3
      <4>5. ongoing[j].start < ongoing[k].start
        BY <1>1, <4>2, <4>4
      <4>6. ongoing[k] \in Range(ongoing) /\ ongoing[j] \in Range(ongoing)
        BY <4>2 DEF Range
      <4>7. ongoing[k].start > ongoing[j].start
        BY <1>1, <1>2, <4>5, <4>6
      <4>8. QED
        BY <1>3, <4>1, <4>2, <4>6, <4>7
    <3>3. QED
      BY <3>1, <3>2 DEF KeptPod, SamePlace
  <2>3. QED
    BY <2>1, <2>2
<1>8. DOMAIN ongoing' = DOMAIN ongoing
  BY DEF SetAttachTime, SetContainerTime
<1>9. \A r \in Range(ongoing') : \E o \in Range(ongoing) : KeptPod(l, r, o)
  BY <1>6, <1>7, <1>8 DEF Range
<1>10. QED
  BY <1>4, <1>9 DEF PodEffects

\* Creations that end, scales that start and end.
LEMMA PodsClosed ==
    ASSUME SeqInv, "pvcpod" \in flags, copy = "library", NEW l \in feed.lines,
           CreateEnd(l) \/ ScaleStart(l) \/ ScaleEnd(l)
    PROVE  PodEffects(l)
<1> DEFINE a == IF CreateEnd(l) THEN "create" ELSE "scale"
           i == getEndIndex(a, l)
           o == ongoing[i]
           id == getIdentification(l)
           g == getScaleStart(l)
<1>1. /\ ongoing \in Seq(Range(ongoing))
      /\ \A p \in Range(ongoing) : DOMAIN p = Fields /\ p.start \in 1..Len(log)
      /\ \A j, k \in DOMAIN ongoing :
            j \in Nat /\ (j < k => ongoing[j].start < ongoing[k].start)
      /\ \A j, k \in DOMAIN ongoing : j # k => ongoing[j].start # ongoing[k].start
  BY OngoingFacts
<1>2. i # 0 => /\ i \in DOMAIN ongoing /\ o.action = a /\ o.id = id
               /\ \A j \in DOMAIN ongoing : ongoing[j].action = a /\ ongoing[j].id = id => j <= i
  BY <1>1, FindFacts DEF getEndIndex
<1>3. Len(log) \in Nat /\ now = Len(log) + 1
  BY LenProperties DEF SeqInv, now
<1>4. /\ CreateEnd(l) => StepOf(l) = "createEnd"
      /\ ScaleStart(l) => StepOf(l) = "scaleStart"
      /\ ScaleEnd(l) => StepOf(l) = "scaleEnd"
  BY DEF CreateEnd, ScaleStart, ScaleEnd, ReadLine
<1>5. /\ CreateEnd(l) => ~ScaleStart(l) /\ ~ScaleEnd(l) /\ a = "create" /\ i # 0
      /\ ScaleStart(l) => ~CreateEnd(l) /\ ~ScaleEnd(l) /\ a = "scale"
      /\ ScaleEnd(l) => ~CreateEnd(l) /\ ~ScaleStart(l) /\ a = "scale" /\ i # 0
  BY <1>4 DEF StepOf, isCreateEnd, isScaleEnd
<1>6. ASSUME NEW d, Container(l, d) PROVE CreateEnd(l) /\ d = id
  BY <1>4, <1>6, ContainerStep
\* The record that is added.
<1>7. g.start = now /\ g.attach = 0 /\ g.action = "scale" /\ g.id = id
  BY DEF getScaleStart, initializeRecord
\* The record that ends.
<1>8. i # 0 => \E r : /\ Finished(r) /\ r.end = now
                      /\ SamePlace(r, o) /\ r.attach = o.attach /\ r.container = o.container
  <2>1. SUFFICES ASSUME i # 0 PROVE \E r : /\ Finished(r) /\ r.end = now /\ SamePlace(r, o)
                                          /\ r.attach = o.attach /\ r.container = o.container
    OBVIOUS
  <2>2. DOMAIN o = Fields
    BY <1>1, <1>2, <2>1 DEF Range
  <2> DEFINE e == setEndTime(o)
             c == IF l.resource = "persistentvolumeclaims" THEN [e EXCEPT !.pv = l.pv] ELSE e
             f == [e EXCEPT !.unfinished = TRUE]
  <2>3. Finished(c) \/ Finished(e) \/ Finished(f)
    BY <1>5, <2>1 DEF CreateEnd, ScaleStart, ScaleEnd
  <2> HIDE DEF o
  <2>4. /\ DOMAIN e = Fields /\ e.end = now
        /\ SamePlace(e, o) /\ e.attach = o.attach /\ e.container = o.container
    BY <2>2 DEF setEndTime, Fields, SamePlace
  <2> HIDE DEF e
  <2>5. f.end = now /\ SamePlace(f, o) /\ f.attach = o.attach /\ f.container = o.container
    BY <2>4 DEF Fields, SamePlace
  <2>6. c.end = now /\ SamePlace(c, o) /\ c.attach = o.attach /\ c.container = o.container
    BY <2>4 DEF Fields, SamePlace
  <2> HIDE DEF c, f
  <2>7. QED
    BY <2>3, <2>4, <2>5, <2>6
\* The records that stay.
<1>9. ASSUME NEW j \in DOMAIN ongoing, j # i PROVE KeptPod(l, ongoing[j], ongoing[j])
  <2>1. ASSUME ongoing[j].action = "create", Container(l, ongoing[j].id)
        PROVE  \E p \in Range(ongoing) : /\ p.action = "create" /\ p.id = ongoing[j].id
                                         /\ p.start > ongoing[j].start
    <3>1. CreateEnd(l) /\ ongoing[j].id = id /\ a = "create" /\ i # 0
      BY <1>5, <1>6, <2>1
    <3>2. i \in DOMAIN ongoing /\ o.action = "create" /\ o.id = id /\ j <= i
      BY <1>2, <1>9, <2>1, <3>1
    <3>3. i \in Nat /\ j \in Nat
      BY <1>1, <3>2
    <3> HIDE DEF i
    <3>4. j < i
      BY <1>9, <3>2, <3>3
    <3>5. ongoing[j].start < o.start
      BY <1>1, <3>2, <3>4
    <3>6. o \in Range(ongoing) /\ ongoing[j] \in Range(ongoing)
      BY <3>2 DEF Range
    <3>7. o.start > ongoing[j].start
      BY <1>1, <1>3, <3>5, <3>6
    <3>8. QED
      BY <3>1, <3>2, <3>6, <3>7
  <2>2. QED
    BY <2>1 DEF KeptPod, SamePlace
<1>10. /\ CreateEnd(l) \/ ScaleEnd(l) => ongoing' = RemoveAt(ongoing, i)
       /\ ScaleStart(l) /\ i # 0 => ongoing' = Append(RemoveAt(ongoing, i), g)
       /\ ScaleStart(l) /\ i = 0 => ongoing' = Append(ongoing, g) /\ results' = results
  BY <1>5 DEF CreateEnd, ScaleStart, ScaleEnd
<1>11. ScaleStart(l) => NewPod(l, g)
  BY <1>5, <1>6, <1>7 DEF NewPod
<1> HIDE DEF i, o, a, id, g
<1>12. CASE i # 0
  <2> DEFINE w == RemoveAt(ongoing, i)
  <2>1. w \in Seq(Range(w)) /\ \A r \in Range(w) : \E j \in DOMAIN ongoing : j # i /\ r = ongoing[j]
    BY <1>1, <1>2, <1>12, RemoveFacts, RemovedRange
  <2> HIDE DEF w
  <2>2. Range(Append(w, g)) = Range(w) \cup {g}
    BY <2>1, AppendFacts
  <2>3. \/ ongoing' = w
        \/ ScaleStart(l) /\ ongoing' = Append(w, g)
    BY <1>10, <1>12 DEF w
  <2>4. \A r \in Range(ongoing') :
           \/ r \in Range(w)
           \/ NewPod(l, r)
    BY <1>11, <2>2, <2>3
  <2>5. \A r \in Range(w) : (\E p \in Range(ongoing) : KeptPod(l, r, p)) /\ r.start # o.start
    BY <1>1, <1>2, <1>9, <1>12, <2>1, ZenonT(60) DEF Range, o
  <2>6. PICK r : /\ Finished(r) /\ r.end = now
                 /\ SamePlace(r, o) /\ r.attach = o.attach /\ r.container = o.container
    BY <1>8, <1>12
  <2>7. results' = Append(results, r)
    BY <2>6 DEF Finished
  <2>8. o \in Range(ongoing) /\ r.start = o.start /\ o.start # now
    <3>1. o \in Range(ongoing)
      BY <1>2, <1>12 DEF Range, o
    <3>2. o.start \in 1..Len(log)
      BY <1>1, <3>1
    <3>3. QED
      BY <1>3, <2>6, <3>1, <3>2 DEF SamePlace
  <2>9. \A p \in Range(ongoing') : p.start # r.start
    BY <2>4, <2>5, <2>8 DEF NewPod
  <2>10. ReportsOne(r)
    BY <2>6, <2>7, <2>8, <2>9 DEF ReportsOne
  <2>11. QED
    BY <2>4, <2>5, <2>10 DEF PodEffects
<1>13. CASE i = 0
  <2>1. ScaleStart(l) /\ ongoing' = Append(ongoing, g) /\ results' = results
    BY <1>5, <1>10, <1>13
  <2>2. Range(ongoing') = Range(ongoing) \cup {g}
    BY <1>1, <2>1, AppendFacts
  <2>3. \A r \in Range(ongoing) : KeptPod(l, r, r)
    <3>1. \A j \in DOMAIN ongoing : j # i
      BY <1>1, <1>13, LenProperties
    <3>2. QED
      BY <1>9, <3>1 DEF Range
  <2>4. QED
    BY <1>11, <2>1, <2>2, <2>3 DEF PodEffects
<1>14. QED
  BY <1>12, <1>13

(***************************************************************************)
(* The parts of PodsAt after a line.                                       *)
(***************************************************************************)
LEMMA PodAtKept ==
    ASSUME SeqInv, NEW l \in feed.lines, NEW step, ReadLine(l, step),
           NEW r, NEW o, NEW e, e \in 1..(Len(log) + 1), o.start \in 1..Len(log),
           SamePlace(r, o), r.attach = o.attach, r.container = o.container, PodAt(log, o, e)
    PROVE  PodAt(log', r, e)
<1>1. Len(log) \in Nat /\ \A t \in 1..Len(log) : log'[t] = log[t]
  BY LineFacts
<1>2. \A t \in o.start .. e - 1 : t \in 1..Len(log) /\ log'[t] = log[t]
  BY <1>1
<1>3. \A t \in o.start + 1 .. e - 1 : t \in 1..Len(log) /\ log'[t] = log[t]
  BY <1>1
<1>4. Missed(log, o, e) => Missed(log', r, e)
  BY <1>2, <1>3 DEF Missed, SamePlace
<1>5. log'[o.start] = log[o.start]
  BY <1>1
<1>6. QED
  BY <1>4, <1>5 DEF PodAt, SamePlace, IsPod

LEMMA PodAtLater ==
    ASSUME SeqInv, NEW l \in feed.lines, NEW step, ReadLine(l, step),
           \A p \in Range(ongoing) : PodAt(log, p, Len(log) + 1),
           NEW r, NEW o \in Range(ongoing), KeptPod(l, r, o)
    PROVE  PodAt(log', r, Len(log) + 2)
<1> DEFINE n == Len(log) + 1
<1>1. Len(log) \in Nat /\ n \in Nat /\ (\A t \in 1..Len(log) : log'[t] = log[t]) /\ log'[n] = l
  BY LineFacts
<1>2. PodAt(log, o, n) /\ o.start \in 1..Len(log)
  BY OngoingFacts
<1>3. r.start = o.start /\ r.id = o.id /\ r.action = o.action /\ (IsPod(r) <=> IsPod(o))
  BY DEF KeptPod, SamePlace, IsPod
<1>4. r.attach # 0 => r.action = "create" /\ IsPod(r)
  BY <1>2, <1>3 DEF PodAt, KeptPod
<1>5. r.action = "create" => Creates(log'[r.start], r.id)
  BY <1>1, <1>2, <1>3 DEF PodAt
<1>6. ASSUME r.action = "create", IsPod(r), r.container = 0
      PROVE  Missed(log', r, n + 1)
  <2>1. Missed(log, o, n)
    BY <1>2, <1>3, <1>6 DEF PodAt, KeptPod
  <2>2. CASE \E t \in o.start + 1 .. n - 1 : Creates(log[t], o.id)
    <3>1. PICK t \in o.start + 1 .. n - 1 : Creates(log[t], o.id)
      BY <2>2
    <3>2. t \in r.start + 1 .. n + 1 - 1 /\ log'[t] = log[t]
      BY <1>1, <1>2, <1>3
    <3>3. QED
      BY <1>3, <3>1, <3>2 DEF Missed
  <2>3. CASE ~\E t \in o.start .. n - 1 : Container(log[t], o.id)
    <3>1. CASE Container(l, r.id)
      <4>1. PICK p \in Range(ongoing) : p.action = "create" /\ p.id = r.id /\ p.start > r.start
        BY <1>6, <3>1 DEF KeptPod
      <4>2. Creates(log[p.start], r.id) /\ p.start \in 1..Len(log)
        BY <4>1, OngoingFacts DEF PodAt
      <4>3. p.start \in r.start + 1 .. n + 1 - 1 /\ log'[p.start] = log[p.start]
        BY <1>1, <1>2, <1>3, <4>1, <4>2
      <4>4. QED
        BY <4>2, <4>3 DEF Missed
    <3>2. CASE ~Container(l, r.id)
      <4>1. \A t \in r.start .. n + 1 - 1 :
               t = n \/ (t \in o.start .. n - 1 /\ log'[t] = log[t])
        BY <1>1, <1>2, <1>3
      <4>2. \A t \in r.start .. n + 1 - 1 : ~Container(log'[t], r.id)
        BY <1>1, <1>3, <2>3, <3>2, <4>1
      <4>3. QED
        BY <4>2 DEF Missed
    <3>3. QED
      BY <3>1, <3>2
  <2>4. QED
    BY <2>1, <2>2, <2>3 DEF Missed
<1>7. n + 1 = Len(log) + 2
  BY <1>1
<1>8. QED
  BY <1>4, <1>5, <1>6, <1>7 DEF PodAt

LEMMA PodsPreserved ==
    ASSUME SeqInv, PodsAt(log, ongoing, results), NEW l \in feed.lines, NEW step,
           ReadLine(l, step), PodEffects(l)
    PROVE  PodsAt(log', ongoing', results')
<1> DEFINE n == Len(log) + 1
<1>1. /\ Len(log) \in Nat /\ n \in Nat /\ now = n /\ Len(log') = n /\ log'[n] = l
  BY LineFacts
<1>2. Len(log') + 1 = Len(log) + 2 /\ Len(log') + 1 = n + 1
  BY <1>1
<1>3. /\ \A p \in Range(ongoing) : PodAt(log, p, n) /\ p.start \in 1..Len(log)
      /\ \A i \in DOMAIN results : PodAt(log, results[i], results[i].end)
      /\ \A i, j \in DOMAIN results : i # j => results[i].start # results[j].start
      /\ \A i \in DOMAIN results : \A p \in Range(ongoing) : p.start # results[i].start
  BY OngoingFacts DEF PodsAt
<1>4. /\ results \in Seq(Range(results))
      /\ \A i \in DOMAIN results : /\ results[i].start \in 1..Len(log)
                                   /\ results[i].end \in 1..Len(log)
  BY DEF SeqInv, ReportedAt, RecordAt
<1> HIDE DEF n
<1>5. ASSUME NEW r \in Range(ongoing') PROVE PodAt(log', r, n + 1)
  <2>1. CASE NewPod(l, r)
    <3>1. r.start = n /\ r.attach = 0 /\ ~Container(l, r.id)
          /\ (r.action = "create" => Creates(l, r.id))
      BY <1>1, <2>1 DEF NewPod
    <3>2. \A t \in r.start .. n + 1 - 1 : t = n
      BY <1>1, <3>1
    <3>3. Missed(log', r, n + 1)
      BY <1>1, <3>1, <3>2 DEF Missed
    <3>4. QED
      BY <1>1, <3>1, <3>3 DEF PodAt
  <2>2. CASE \E o \in Range(ongoing) : KeptPod(l, r, o)
    <3>1. PodAt(log', r, Len(log) + 2)
      BY <1>3, <2>2, PodAtLater DEF n
    <3>2. QED
      BY <1>2, <3>1
  <2>3. QED
    BY <2>1, <2>2 DEF PodEffects
<1>6. \A i \in DOMAIN results : PodAt(log', results[i], results[i].end)
  <2> TAKE i \in DOMAIN results
  <2>1. SamePlace(results[i], results[i]) /\ results[i].end \in 1..(Len(log) + 1)
    BY <1>1, <1>4 DEF SamePlace
  <2>2. QED
    BY <1>3, <1>4, <2>1, PodAtKept
<1>7. \A r \in Range(ongoing') : r.start = n \/ \E o \in Range(ongoing) : r.start = o.start
  BY <1>1 DEF PodEffects, NewPod, KeptPod, SamePlace
<1>8. \A r \in Range(ongoing') : \A i \in DOMAIN results : r.start # results[i].start
  BY <1>1, <1>3, <1>4, <1>7 DEF n
<1>9. CASE results' = results
  BY <1>2, <1>3, <1>5, <1>6, <1>8, <1>9 DEF PodsAt
<1>10. CASE \E r : ReportsOne(r)
  <2>1. PICK r : ReportsOne(r)
    BY <1>10
  <2>2. PICK o \in Range(ongoing) :
           SamePlace(r, o) /\ r.attach = o.attach /\ r.container = o.container
    BY <2>1 DEF ReportsOne
  <2>3. /\ results' = Append(results, r) /\ r.end = n
        /\ \A p \in Range(ongoing') : p.start # r.start
    BY <1>1, <2>1 DEF ReportsOne
  <2> DEFINE m == Len(results)
  <2>4. /\ m \in Nat /\ DOMAIN results = 1..m /\ DOMAIN results' = 1..(m + 1)
        /\ (\A i \in 1..m : results'[i] = results[i]) /\ results'[m + 1] = r
    BY <1>4, <2>3, AppendFacts
  <2> HIDE DEF m
  <2>5. \A i \in DOMAIN results' : (i \in DOMAIN results /\ results'[i] = results[i])
                                   \/ (i = m + 1 /\ results'[i] = r)
    BY <2>4
  <2>6. PodAt(log', r, r.end)
    <3>1. n \in 1..(Len(log) + 1)
      BY <1>1 DEF n
    <3>2. PodAt(log, o, n) /\ o.start \in 1..Len(log)
      BY <1>3
    <3>3. QED
      BY <2>2, <2>3, <3>1, <3>2, PodAtKept
  <2>7. \A i \in DOMAIN results' : PodAt(log', results'[i], results'[i].end)
    BY <1>6, <2>5, <2>6
  <2>8. \A i \in DOMAIN results : results[i].start # r.start
    BY <1>3, <2>2 DEF SamePlace
  <2>9. \A i, j \in DOMAIN results' : i # j => results'[i].start # results'[j].start
    BY <1>3, <2>5, <2>8
  <2>10. \A i \in DOMAIN results' : \A p \in Range(ongoing') : p.start # results'[i].start
    BY <1>8, <2>3, <2>5
  <2>11. QED
    BY <1>2, <1>5, <2>7, <2>9, <2>10 DEF PodsAt
<1>11. QED
  BY <1>9, <1>10 DEF PodEffects

(***************************************************************************)
(* The end of the log.                                                     *)
(***************************************************************************)
LEMMA PanicStep ==
    ASSUME SeqInv, PodsAt(log, ongoing, results), copy = "library",
           NEW i \in DOMAIN results, LacksTime(i)
    PROVE  \E r \in Range(results) :
              /\ r.attach # 0
              /\ \/ ~\E c \in Range(results) : IsClaim(c) /\ c.pv = r.pv
                 \/ \E q \in Range(results) : IsPod(q) /\ q # r /\ q.attach # 0 /\ q.pv = r.pv
                 \/ ~\E t \in r.start .. r.end - 1 : Container(log[t], r.id)
                 \/ \E t \in r.start + 1 .. r.end - 1 : Creates(log[t], r.id)
<1> DEFINE r == results[i]
           claims == {j \in DOMAIN results : IsClaim(results[j]) /\ results[j].pv = r.pv}
           pods == {j \in DOMAIN results : /\ IsPod(results[j]) /\ results[j].attach # 0
                                           /\ results[j].pv = r.pv}
<1>1. r \in Range(results)
  BY DEF Range
<1>2. r.attach # 0 /\ (BoundTime(i) = 0 \/ r.container = 0)
  BY DEF LacksTime
<1>3. PodAt(log, r, r.end) /\ r.action = "create" /\ IsPod(r)
  BY <1>2 DEF PodsAt, PodAt
<1>4. CASE r.container = 0
  <2>1. Missed(log, r, r.end)
    BY <1>3, <1>4 DEF PodAt
  <2>2. QED
    BY <1>1, <1>2, <2>1 DEF Missed
<1>5. CASE BoundTime(i) = 0
  <2>1. /\ Len(results) \in Nat /\ DOMAIN results = 1..Len(results)
        /\ \A j \in DOMAIN results : results[j].end # 0
    <3>1. /\ results \in Seq(Range(results))
          /\ \A j \in DOMAIN results : results[j].end \in 1..Len(log)
      BY DEF SeqInv, ReportedAt
    <3>2. Len(log) \in Nat
      BY LenProperties DEF SeqInv
    <3>3. QED
      BY <3>1, <3>2, LenProperties
  <2>2. i \in pods
    BY <1>2, <1>3
  <2>3. BoundTime(i) = IF claims # {} /\ i \in pods /\ i = Min(pods)
                       THEN results[Max(claims)].end ELSE 0
    BY DEF BoundTime
  <2>4. CASE claims = {}
    <3>1. ~\E c \in Range(results) : IsClaim(c) /\ c.pv = r.pv
      BY <2>4 DEF Range
    <3>2. QED
      BY <1>1, <1>2, <3>1
  <2>5. CASE claims # {}
    <3>1. Max(claims) \in DOMAIN results
      <4>1. claims \subseteq 1..Len(results) /\ claims # {}
        BY <2>1, <2>5
      <4> HIDE DEF claims
      <4>2. Max(claims) \in claims
        BY <2>1, <4>1, MaxFacts
      <4>3. QED
        BY <2>1, <4>1, <4>2
    <3>2. i # Min(pods)
      <4> HIDE DEF claims, pods
      <4>1. QED
        BY <1>5, <2>1, <2>2, <2>3, <2>5, <3>1
    <3>3. pods # {i}
      <4>1. SUFFICES ASSUME pods = {i} PROVE Min(pods) = i
        BY <3>2
      <4>2. i \in Nat
        BY <2>1
      <4>3. i <= i
        BY <4>2
      <4>4. i \in pods /\ \A y \in pods : i <= y
        BY <4>1, <4>3
      <4>5. Min(pods) \in pods
        BY <4>4 DEF Min
      <4>6. QED
        BY <4>1, <4>5
    <3>4. PICK j \in pods : j # i
      BY <2>2, <3>3
    <3>5. results[j].start # r.start
      BY <3>4 DEF PodsAt
    <3>6. results[j] \in Range(results) /\ results[j] # r
      BY <3>5 DEF Range
    <3>7. IsPod(results[j]) /\ results[j].attach # 0 /\ results[j].pv = r.pv
      OBVIOUS
    <3>8. QED
      BY <1>1, <1>2, <3>6, <3>7
  <2>6. QED
    BY <2>4, <2>5
<1>6. QED
  BY <1>2, <1>4, <1>5

LEMMA PodsInit == Init => PodsInv
<1> SUFFICES ASSUME Init PROVE PodsInv
  OBVIOUS
<1>1. ongoing = <<>> /\ results = <<>> /\ status = "reading"
  BY DEF Init
<1>2. DOMAIN <<>> = {} /\ Range(<<>>) = {}
  BY DEF Range
<1>3. QED
  BY <1>1, <1>2 DEF PodsInv, PodsAt, PanicCause

LEMMA PodsNext ==
    ASSUME SeqInv, PodsInv, [Next]_vars
    PROVE  PodsInv'
<1>1. CASE ParseLine
  <2>1. PICK l \in feed.lines :
           \/ Undecodable(l) \/ Panics(l) \/ CreateStart(l) \/ CreateEnd(l)
           \/ ScaleStart(l) \/ ScaleEnd(l)
           \/ SetAttachTime(l) \/ SetContainerTime(l)
           \/ SaveObjInfo(l) \/ IgnoreLine(l)
    BY <1>1 DEF ParseLine
  <2>2. PICK step : ReadLine(l, step)
    BY <2>1, LineStep
  <2>3. status = "reading" /\ copy' = copy /\ flags' = flags
    BY <2>2 DEF ReadLine
  <2>4. status' \in {status, "failed"} \/ Panics(l)
    BY <2>1 DEF Undecodable, CreateStart, CreateEnd, ScaleStart, ScaleEnd, SetAttachTime,
                SetContainerTime, SaveObjInfo, IgnoreLine
  <2>5. PanicCause'
    <3>1. CASE ~Panics(l)
      BY <2>3, <2>4, <3>1 DEF PanicCause
    <3>2. CASE Panics(l)
      <4>1. /\ Len(log) \in Nat /\ Len(log') = Len(log) + 1 /\ log'[Len(log) + 1] = l
        BY <2>2, LineFacts
      <4>2. Last(log') = l /\ log' # <<>>
        BY <4>1 DEF Last
      <4>3. StepOf(l) = "panic"
        BY <3>2 DEF Panics, ReadLine
      <4>4. StatusOverflows(l) \/ ("pvcpod" \in flags /\ StatusMissing(l))
        BY <4>3 DEF StepOf
      <4>5. \/ l.resource \in DOMAIN scaleEndCrit /\ \E f \in DOMAIN l.stat : l.stat[f] >= 2^8
            \/ "pvcpod" \in flags' /\ l.resource = "pods" /\ ~l.sent
        BY <2>3, <4>4 DEF StatusOverflows, StatusMissing, IsScaleStatus, IsPodStatus
      <4>6. BadStatus'
        BY <4>2, <4>5 DEF BadStatus
      <4>7. QED
        BY <4>6 DEF PanicCause
    <3>3. QED
      BY <3>1, <3>2
  <2>6. ASSUME Waits' PROVE PodsAt(log', ongoing', results')
    <3>1. copy = "library" /\ "pvcpod" \in flags /\ Waits
      BY <2>3, <2>6 DEF Waits
    <3>2. PodsAt(log, ongoing, results)
      BY <3>1 DEF PodsInv
    <3>3. PodEffects(l)
      BY <2>1, <3>1, PodsQuiet, PodsTimed, PodsClosed
    <3>4. QED
      BY <2>2, <3>2, <3>3, PodsPreserved
  <2>7. QED
    BY <2>5, <2>6 DEF PodsInv
<1>2. CASE Return
  <2>1. status = "reading" /\ status' \in {"panic", "returned"} /\ copy' = copy /\ log' = log
    BY <1>2 DEF Return
  <2>2. ~Waits'
    BY <2>1 DEF Waits
  <2>3. ASSUME status' = "panic" PROVE PanicCause'
    <3>2. "pvcpod" \in flags /\ results' = results /\ copy = "library"
      BY <1>2, <2>3 DEF Return
    <3>3. PICK i \in DOMAIN results : LacksTime(i)
      BY <1>2, <2>3 DEF Return
    <3>4. PodsAt(log, ongoing, results)
      BY <2>1, <3>2 DEF PodsInv, Waits
    <3>5. Reported' = Range(results)
      BY <2>1, <3>2 DEF Reported
    <3>6. QED
      BY <2>1, <3>2, <3>3, <3>4, <3>5, PanicStep DEF PanicCause
  <2>4. QED
    BY <2>1, <2>2, <2>3 DEF PodsInv, PanicCause
<1>3. CASE UNCHANGED vars
  BY <1>3 DEF vars, PodsInv, Waits, PanicCause, Reported, BadStatus
<1>4. QED
  BY <1>1, <1>2, <1>3 DEF Next

(***************************************************************************)
(* For any audit log: apart from a status that cannot be decoded, the      *)
(* parser panics only in calculateDeltas, and there only for a pod whose   *)
(* volume was attached during its creation and whose claim is missing from *)
(* the results or shared with another pod of them, or whose                *)
(* ContainerCreating status is missing or went to a newer creation of it.  *)
(***************************************************************************)
THEOREM PanicsHaveACause == Spec => []PanicCause
<1> DEFINE I == Inv /\ PodsInv
<1>1. Init => I
  BY InvInit, PodsInit
<1>2. I /\ [Next]_vars => I'
  <2>1. SUFFICES ASSUME Inv, PodsInv, [Next]_vars PROVE Inv' /\ PodsInv'
    OBVIOUS
  <2>2. SeqInv
    BY <2>1 DEF Inv
  <2>3. QED
    BY <2>1, <2>2, InvNext, PodsNext
<1>3. I => PanicCause
  BY DEF PodsInv
<1>4. QED
  BY <1>1, <1>2, <1>3, PTL DEF Spec
=============================================================================
