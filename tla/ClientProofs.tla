---------------------------- MODULE ClientProofs ----------------------------
(* Theorems about the two parts of the system whose other end is a browser  *)
(* page: LiveTransport, for any bounds of the queue, sizes, keys and        *)
(* numbers of changes, sockets, messages and reloads; and OverviewEditor,   *)
(* for any pages, elements and names, any canvas and any limits, and any    *)
(* number of edits, requests, time-outs and changes by others.              *)
EXTENDS LiveTransport, OverviewEditor, FiniteSetTheorems, SequenceTheorems,
        WellFoundedInduction, TLAPS

-----------------------------------------------------------------------------
(***************************************************************************)
(* LiveTransport                                                           *)
(***************************************************************************)

(* Induction on numbers, from the theorem of the library that every set of  *)
(* finite sets has a minimal one: the intervals 0 .. n of the n outside I.  *)

LEMMA Induction ==
  ASSUME NEW I \in SUBSET Nat, 0 \in I, \A n \in I : n + 1 \in I
  PROVE  I = Nat
<1> SUFFICES ASSUME NEW m \in Nat, m \notin I PROVE FALSE
  OBVIOUS
<1> DEFINE R == StrictSubsetOrdering(Nat)
           F == FiniteSubsetsOf(Nat)
           T == {0 .. n : n \in Nat \ I}
<1>1. IsWellFoundedOn(R, F)
  BY FS_StrictSubsetOrderingWellFounded
<1>2. T \subseteq F
  <2>1. \A n \in Nat : 0 .. n \in F
    BY FS_Interval DEF FiniteSubsetsOf
  <2> QED
    BY <2>1
<1>3. T # {}
  OBVIOUS
<1>4. \E x \in T : \A y \in T : <<y, x>> \notin R
  <2> HIDE DEF R, F, T
  <2> QED
    BY <1>1, <1>2, <1>3, WFMin
<1>5. PICK n \in Nat \ I : \A k \in Nat \ I : <<0 .. k, 0 .. n>> \notin R
  BY <1>4
<1>6. n # 0 /\ n - 1 \in Nat /\ n - 1 \notin I
  <2>1. n # 0
    OBVIOUS
  <2>2. n - 1 \in Nat /\ (n - 1) + 1 = n
    BY <2>1
  <2> QED
    BY <2>1, <2>2
<1>7. <<0 .. n - 1, 0 .. n>> \in R
  BY <1>6 DEF StrictSubsetOrdering
<1> QED
  BY <1>5, <1>6, <1>7

LEMMA LeastMember ==
  ASSUME NEW S \in SUBSET Nat, S # {}
  PROVE  \E x \in S : \A y \in S : x <= y
<1> SUFFICES ASSUME \A x \in S : \E y \in S : ~ (x <= y) PROVE FALSE
  OBVIOUS
<1> DEFINE I == {n \in Nat : \A y \in S : n <= y}
<1>1. 0 \in I
  OBVIOUS
<1>2. ASSUME NEW n \in I PROVE n + 1 \in I
  <2>1. n \notin S
    OBVIOUS
  <2>2. ASSUME NEW y \in S PROVE n + 1 <= y
    <3>1. n <= y /\ n # y /\ y \in Nat
      BY <2>1
    <3> QED
      BY <3>1
  <2> QED
    BY <2>2
<1>3. I = Nat
  <2> HIDE DEF I
  <2>1. I \in SUBSET Nat
    BY DEF I
  <2> QED
    BY <1>1, <1>2, <2>1, Induction
<1>4. PICK y \in S : TRUE
  OBVIOUS
<1>5. y + 1 \in I /\ y \in Nat
  BY <1>3
<1> QED
  BY <1>5

-----------------------------------------------------------------------------
(* Sequences of events.                                                     *)

LEMMA RemoveAtType ==
  ASSUME NEW S, NEW s \in Seq(S), NEW i \in 1 .. Len(s)
  PROVE  /\ RemoveAt(s, i) \in Seq(S)
         /\ Len(RemoveAt(s, i)) = Len(s) - 1
         /\ \A j \in 1 .. Len(s) - 1 :
              RemoveAt(s, i)[j] = IF j < i THEN s[j] ELSE s[j + 1]
<1> DEFINE front == SubSeq(s, 1, i - 1)
           back == SubSeq(s, i + 1, Len(s))
<1>1. Len(s) \in Nat /\ i \in Nat /\ 1 <= i /\ i <= Len(s)
  BY LenProperties
<1>2. /\ front \in Seq(S) /\ Len(front) = i - 1
      /\ \A j \in 1 .. i - 1 : front[j] = s[j]
  <2>1. i - 1 \in 1 - 1 .. Len(s) /\ 1 \in 1 .. Len(s) + 1
    BY <1>1
  <2>2. /\ front \in Seq(S)
        /\ Len(front) = IF 1 <= i - 1 THEN (i - 1) - 1 + 1 ELSE 0
        /\ \A j \in 1 .. (i - 1) - 1 + 1 : front[j] = s[1 + j - 1]
    BY <1>1, <2>1, SubSeqProperties
  <2> QED
    BY <1>1, <2>2
<1>3. /\ back \in Seq(S) /\ Len(back) = Len(s) - i
      /\ \A j \in 1 .. Len(s) - i : back[j] = s[i + j]
  <2>1. i + 1 \in 1 .. Len(s) + 1 /\ Len(s) \in (i + 1) - 1 .. Len(s)
    BY <1>1
  <2>2. /\ back \in Seq(S)
        /\ Len(back) = IF i + 1 <= Len(s) THEN Len(s) - (i + 1) + 1 ELSE 0
        /\ \A j \in 1 .. Len(s) - (i + 1) + 1 : back[j] = s[(i + 1) + j - 1]
    BY <1>1, <2>1, SubSeqProperties
  <2> QED
    BY <1>1, <2>2
<1>4. RemoveAt(s, i) = front \o back
  BY DEF RemoveAt
<1> HIDE DEF front, back
<1>5. /\ front \o back \in Seq(S)
      /\ Len(front \o back) = Len(front) + Len(back)
      /\ \A j \in 1 .. Len(front) + Len(back) :
           (front \o back)[j] = IF j <= Len(front) THEN front[j] ELSE back[j - Len(front)]
  BY <1>2, <1>3, ConcatProperties
<1>6. ASSUME NEW j \in 1 .. Len(s) - 1
      PROVE  (front \o back)[j] = IF j < i THEN s[j] ELSE s[j + 1]
  <2>1. CASE j < i
    BY <1>1, <1>2, <1>3, <1>5, <2>1
  <2>2. CASE i <= j
    <3>1. (front \o back)[j] = back[j - (i - 1)] /\ j - (i - 1) \in 1 .. Len(s) - i
      BY <1>1, <1>2, <1>3, <1>5, <2>2
    <3>2. i + (j - (i - 1)) = j + 1
      BY <1>1
    <3>3. ~ (j < i)
      BY <1>1, <2>2
    <3> QED
      BY <1>1, <1>3, <3>1, <3>2, <3>3
  <2>3. j < i \/ i <= j
    BY <1>1
  <2>4. i <= j => ~ (j < i)
    BY <1>1
  <2> QED
    BY <2>1, <2>2, <2>3, <2>4
<1>7. Len(front) + Len(back) = Len(s) - 1
  BY <1>1, <1>2, <1>3
<1> QED
  BY <1>4, <1>5, <1>6, <1>7

LEMMA EventAt ==
  ASSUME NEW q \in Seq(Event)
  PROVE  /\ Len(q) \in Nat /\ DOMAIN q = 1 .. Len(q)
         /\ \A i \in 1 .. Len(q) :
              q[i] \in Event /\ q[i].revision \in Nat /\ q[i].size \in Nat /\ q[i] \in ToSet(q)
         /\ \A x \in ToSet(q) : x \in Event /\ \E i \in 1 .. Len(q) : q[i] = x
<1>1. /\ q \in [1 .. Len(q) -> Event] /\ Len(q) \in Nat /\ DOMAIN q = 1 .. Len(q)
  BY LenProperties
<1>2. \A x \in Event : x.revision \in Nat /\ x.size \in Nat
  BY DEF Event
<1> QED
  BY <1>1, <1>2 DEF ToSet

-----------------------------------------------------------------------------
(* The sum of the sizes.                                                    *)

Sums(q) ==
  LET sum[n \in 0 .. Len(q)] == IF n = 0 THEN 0 ELSE sum[n - 1] + q[n].size
  IN  sum

(* A function is what its recursion says, when there is such a function:    *)
(* it is built up to each length in turn.                                   *)
LEMMA SumsAre ==
  ASSUME NEW q \in Seq(Event)
  PROVE  /\ Sums(q) = [n \in 0 .. Len(q) |->
                          IF n = 0 THEN 0 ELSE Sums(q)[n - 1] + q[n].size]
         /\ Total(q) = Sums(q)[Len(q)]
<1> DEFINE I == {m \in Nat : \E s : s = [n \in 0 .. m |->
                                IF n = 0 THEN 0 ELSE s[n - 1] + q[n].size]}
<1>1. 0 \in I
  <2> DEFINE s == [n \in 0 .. 0 |-> 0]
  <2>1. s = [n \in 0 .. 0 |-> IF n = 0 THEN 0 ELSE s[n - 1] + q[n].size]
    OBVIOUS
  <2> QED
    BY <2>1
<1>2. ASSUME NEW m \in I PROVE m + 1 \in I
  <2>1. PICK s : s = [n \in 0 .. m |-> IF n = 0 THEN 0 ELSE s[n - 1] + q[n].size]
    OBVIOUS
  <2> DEFINE t == [n \in 0 .. m + 1 |-> IF n = m + 1 THEN s[m] + q[m + 1].size ELSE s[n]]
  <2>2. ASSUME NEW n \in 0 .. m + 1
        PROVE  t[n] = IF n = 0 THEN 0 ELSE t[n - 1] + q[n].size
    <3>1. CASE n = m + 1
      <4>1. n # 0 /\ n - 1 = m /\ t[m] = s[m]
        BY <3>1
      <4> QED
        BY <3>1, <4>1
    <3>2. CASE n # m + 1
      <4>1. n \in 0 .. m
        BY <3>2
      <4>2. t[n] = s[n] /\ (n # 0 => t[n - 1] = s[n - 1])
        BY <3>2, <4>1
      <4>3. s[n] = IF n = 0 THEN 0 ELSE s[n - 1] + q[n].size
        BY <2>1, <4>1
      <4> QED
        BY <4>2, <4>3
    <3> QED
      BY <3>1, <3>2
  <2> HIDE DEF t
  <2>3. t = [n \in 0 .. m + 1 |-> t[n]]
    BY DEF t
  <2>4. t = [n \in 0 .. m + 1 |-> IF n = 0 THEN 0 ELSE t[n - 1] + q[n].size]
    BY <2>2, <2>3
  <2>5. m + 1 \in Nat
    OBVIOUS
  <2> HIDE DEF t
  <2> QED
    BY <2>4, <2>5, Zenon
<1>3. I = Nat
  <2> HIDE DEF I
  <2>1. I \in SUBSET Nat
    BY DEF I
  <2> QED
    BY <1>1, <1>2, <2>1, Induction
<1>4. \E s : s = [n \in 0 .. Len(q) |-> IF n = 0 THEN 0 ELSE s[n - 1] + q[n].size]
  <2>1. Len(q) \in I
    BY <1>3, LenProperties
  <2> QED
    BY <2>1
<1> QED
  BY <1>4 DEF Sums, Total

LEMMA SumAt ==
  ASSUME NEW q \in Seq(Event)
  PROVE  /\ Sums(q)[0] = 0
         /\ \A n \in 1 .. Len(q) : Sums(q)[n] = Sums(q)[n - 1] + q[n].size
         /\ \A n \in 0 .. Len(q) : Sums(q)[n] \in Nat
<1>1. Len(q) \in Nat
  BY LenProperties
<1>2. Sums(q)[0] = 0
  BY <1>1, SumsAre
<1>3. \A n \in 1 .. Len(q) : Sums(q)[n] = Sums(q)[n - 1] + q[n].size
  <2> SUFFICES ASSUME NEW n \in 1 .. Len(q)
               PROVE  Sums(q)[n] = Sums(q)[n - 1] + q[n].size
    OBVIOUS
  <2>1. n \in 0 .. Len(q) /\ n # 0
    BY <1>1
  <2> QED
    BY <2>1, SumsAre
<1> DEFINE I == {n \in Nat : n <= Len(q) => Sums(q)[n] \in Nat}
<1>4. 0 \in I
  BY <1>2
<1>5. ASSUME NEW n \in I PROVE n + 1 \in I
  <2> SUFFICES ASSUME n + 1 <= Len(q) PROVE Sums(q)[n + 1] \in Nat
    OBVIOUS
  <2>1. n + 1 \in 1 .. Len(q) /\ n <= Len(q) /\ (n + 1) - 1 = n
    BY <1>1
  <2>2. Sums(q)[n + 1] = Sums(q)[n] + q[n + 1].size
    BY <1>3, <2>1
  <2>3. Sums(q)[n] \in Nat /\ q[n + 1].size \in Nat
    BY <2>1, EventAt
  <2> QED
    BY <2>2, <2>3
<1>6. I = Nat
  <2> HIDE DEF I
  <2>1. I \in SUBSET Nat
    BY DEF I
  <2> QED
    BY <1>4, <1>5, <2>1, Induction
<1>7. \A n \in 0 .. Len(q) : Sums(q)[n] \in Nat
  BY <1>1, <1>6
<1> QED
  BY <1>2, <1>3, <1>7

(* Taking an event out takes out its size.                                  *)
LEMMA TotalWithout ==
  ASSUME NEW q \in Seq(Event), NEW p \in Seq(Event), NEW i \in 1 .. Len(q),
         Len(p) = Len(q) - 1,
         \A j \in 1 .. Len(p) : p[j] = IF j < i THEN q[j] ELSE q[j + 1]
  PROVE  /\ Total(p) = Total(q) - q[i].size
         /\ Total(p) \in Nat /\ Total(p) <= Total(q)
<1>1. /\ Len(q) \in Nat /\ Len(p) \in Nat /\ i \in Nat /\ 1 <= i /\ i <= Len(q)
      /\ q[i].size \in Nat
  BY EventAt
<1> DEFINE I == {j \in Nat : j <= Len(p) =>
                   Sums(p)[j] = IF j < i THEN Sums(q)[j] ELSE Sums(q)[j + 1] - q[i].size}
<1>2. 0 \in I
  BY <1>1, SumAt
<1>3. ASSUME NEW j \in I PROVE j + 1 \in I
  <2> SUFFICES ASSUME j + 1 <= Len(p)
               PROVE  Sums(p)[j + 1] = IF j + 1 < i THEN Sums(q)[j + 1]
                                       ELSE Sums(q)[(j + 1) + 1] - q[i].size
    OBVIOUS
  <2>1. /\ j \in Nat /\ j <= Len(p) /\ j + 1 \in 1 .. Len(p) /\ (j + 1) - 1 = j
        /\ j + 1 \in 1 .. Len(q) /\ j + 2 \in 1 .. Len(q) /\ (j + 2) - 1 = j + 1
        /\ (j + 1) + 1 = j + 2
    BY <1>1
  <2>2. Sums(p)[j + 1] = Sums(p)[j] + p[j + 1].size
    BY <2>1, SumAt
  <2>3. /\ Sums(q)[j + 1] = Sums(q)[j] + q[j + 1].size
        /\ Sums(q)[j + 2] = Sums(q)[j + 1] + q[j + 2].size
    BY <2>1, SumAt
  <2>4. Sums(p)[j] = IF j < i THEN Sums(q)[j] ELSE Sums(q)[j + 1] - q[i].size
    BY <2>1
  <2>5. /\ Sums(q)[j] \in Nat /\ Sums(q)[j + 1] \in Nat /\ Sums(q)[j + 2] \in Nat
        /\ q[j + 1].size \in Nat /\ q[j + 2].size \in Nat
    <3>1. j \in 0 .. Len(q) /\ j + 1 \in 0 .. Len(q) /\ j + 2 \in 0 .. Len(q)
      BY <1>1, <2>1
    <3> QED
      BY <2>1, <3>1, SumAt, EventAt
  <2>6. CASE j + 1 < i
    <3>1. p[j + 1] = q[j + 1] /\ j < i
      BY <1>1, <2>1, <2>6
    <3> QED
      BY <2>2, <2>3, <2>4, <2>6, <3>1
  <2>7. CASE j + 1 = i
    <3>1. p[j + 1] = q[j + 2] /\ j < i /\ ~ (j + 1 < i)
      BY <1>1, <2>1, <2>7
    <3>2. Sums(p)[j + 1] = Sums(q)[j] + q[j + 2].size
      BY <2>2, <2>4, <3>1
    <3>3. Sums(q)[j + 2] - q[j + 1].size = Sums(q)[j] + q[j + 2].size
      <4> DEFINE a == Sums(q)[j]      b == Sums(q)[j + 1]  c == Sums(q)[j + 2]
                 x == q[j + 1].size   y == q[j + 2].size
      <4>1. a \in Nat /\ b \in Nat /\ c \in Nat /\ x \in Nat /\ y \in Nat /\ b = a + x /\ c = b + y
        BY <2>3, <2>5
      <4>2. c - x = a + y
        <5> HIDE DEF a, b, c, x, y
        <5> QED
          BY <4>1
      <4> QED
        BY <4>2
    <3> QED
      BY <2>1, <2>7, <3>1, <3>2, <3>3
  <2>8. CASE i < j + 1
    <3>0. ~ (j < i) /\ ~ (j + 1 < i)
      BY <1>1, <2>8
    <3>1. p[j + 1] = q[j + 2] /\ ~ (j < i) /\ ~ (j + 1 < i)
      BY <2>1, <3>0
    <3>2. Sums(p)[j + 1] = (Sums(q)[j + 1] - q[i].size) + q[j + 2].size
      BY <2>2, <2>4, <3>1
    <3>3. Sums(q)[j + 2] - q[i].size = (Sums(q)[j + 1] - q[i].size) + q[j + 2].size
      <4> DEFINE b == Sums(q)[j + 1]  c == Sums(q)[j + 2]
                 x == q[i].size       y == q[j + 2].size
      <4>1. b \in Nat /\ c \in Nat /\ x \in Nat /\ y \in Nat /\ c = b + y
        BY <1>1, <2>3, <2>5
      <4>2. c - x = (b - x) + y
        <5> HIDE DEF b, c, x, y
        <5> QED
          BY <4>1
      <4> QED
        BY <4>2
    <3> QED
      BY <2>1, <3>1, <3>2, <3>3
  <2> QED
    BY <1>1, <2>1, <2>6, <2>7, <2>8
<1>4. I = Nat
  <2> HIDE DEF I
  <2>1. I \in SUBSET Nat
    BY DEF I
  <2> QED
    BY <1>2, <1>3, <2>1, Induction
<1>5. Sums(p)[Len(p)] = IF Len(p) < i THEN Sums(q)[Len(p)] ELSE Sums(q)[Len(p) + 1] - q[i].size
  <2>1. Len(p) \in I
    BY <1>1, <1>4
  <2> QED
    BY <1>1, <2>1
<1>6. Sums(p)[Len(p)] = Sums(q)[Len(q)] - q[i].size
  <2>1. CASE Len(p) < i
    <3>1. i = Len(q) /\ i - 1 = Len(p)
      BY <1>1, <2>1
    <3>2. Sums(q)[i] = Sums(q)[i - 1] + q[i].size
      BY SumAt
    <3>3. Sums(q)[i - 1] \in Nat
      <4>1. i - 1 \in 0 .. Len(q)
        BY <1>1
      <4> QED
        BY <4>1, SumAt
    <3> QED
      BY <1>1, <1>5, <2>1, <3>1, <3>2, <3>3
  <2>2. CASE ~ (Len(p) < i)
    <3>1. Len(p) + 1 = Len(q)
      BY <1>1
    <3> QED
      BY <1>5, <2>2, <3>1
  <2> QED
    BY <2>1, <2>2
<1>7. Total(p) = Sums(p)[Len(p)] /\ Total(q) = Sums(q)[Len(q)]
  BY SumsAre
<1>8. Sums(p)[Len(p)] \in Nat /\ Sums(q)[Len(q)] \in Nat
  <2>1. Len(p) \in 0 .. Len(p) /\ Len(q) \in 0 .. Len(q)
    BY <1>1
  <2> QED
    BY <2>1, SumAt
<1> QED
  BY <1>1, <1>6, <1>7, <1>8

LEMMA TotalWith ==
  ASSUME NEW q \in Seq(Event), NEW e \in Event
  PROVE  Total(Append(q, e)) = Total(q) + e.size
<1> DEFINE p == Append(q, e)
<1>1. /\ p \in Seq(Event) /\ Len(p) = Len(q) + 1 /\ p[Len(q) + 1] = e
      /\ \A j \in 1 .. Len(q) : p[j] = q[j]
  BY AppendProperties
<1> HIDE DEF p
<1>2. Len(q) \in Nat
  BY LenProperties
<1> DEFINE I == {j \in Nat : j <= Len(q) => Sums(p)[j] = Sums(q)[j]}
<1>3. 0 \in I
  BY <1>1, SumAt
<1>4. ASSUME NEW j \in I PROVE j + 1 \in I
  <2> SUFFICES ASSUME j + 1 <= Len(q) PROVE Sums(p)[j + 1] = Sums(q)[j + 1]
    OBVIOUS
  <2>1. /\ j <= Len(q) /\ j + 1 \in 1 .. Len(q) /\ j + 1 \in 1 .. Len(p) /\ (j + 1) - 1 = j
    BY <1>1, <1>2
  <2>2. Sums(p)[j + 1] = Sums(p)[j] + p[j + 1].size /\ Sums(q)[j + 1] = Sums(q)[j] + q[j + 1].size
    BY <1>1, <2>1, SumAt
  <2> QED
    BY <1>1, <2>1, <2>2
<1>5. I = Nat
  <2> HIDE DEF I
  <2>1. I \in SUBSET Nat
    BY DEF I
  <2> QED
    BY <1>3, <1>4, <2>1, Induction
<1>6. Sums(p)[Len(q)] = Sums(q)[Len(q)]
  BY <1>2, <1>5
<1>7. Sums(p)[Len(p)] = Sums(p)[Len(q)] + e.size
  <2>1. Len(q) + 1 \in 1 .. Len(p) /\ (Len(q) + 1) - 1 = Len(q)
    BY <1>1, <1>2
  <2> QED
    BY <1>1, <2>1, SumAt
<1>8. Total(p) = Sums(p)[Len(p)] /\ Total(q) = Sums(q)[Len(q)]
  BY <1>1, SumsAre
<1> QED
  BY <1>6, <1>7, <1>8 DEF p

LEMMA TotalEmpty == Total(<<>>) = 0
<1>1. <<>> \in Seq(Event) /\ Len(<<>>) = 0
  BY EmptySeq
<1> QED
  BY <1>1, SumAt, SumsAre

-----------------------------------------------------------------------------
(* The buffer: a queue with its totalBytes, of revisions up to r.           *)

Sorted(q) == \A i, j \in 1 .. Len(q) : i < j => q[i].revision <= q[j].revision

Good(b, r) ==
  /\ b.queue \in Seq(Event)
  /\ b.bytes \in Nat /\ b.bytes = Total(b.queue) /\ b.bytes <= MaxBytes
  /\ Len(b.queue) <= MaxMessages
  /\ Sorted(b.queue)
  /\ \A x \in ToSet(b.queue) : x.revision <= r /\ (Critical(x) => x.key = Nothing)

(* c is b without some of its telemetry.                                    *)
Thinned(b, c) ==
  /\ ToSet(c.queue) \subseteq ToSet(b.queue)
  /\ \A x \in ToSet(b.queue) : Critical(x) => x \in ToSet(c.queue)

LEMMA RemoveThins ==
  ASSUME NEW b, NEW r \in Nat, Good(b, r),
         NEW i \in 1 .. Len(b.queue), ~ Critical(b.queue[i])
  PROVE  Good(RemoveEvent(b, i), r) /\ Thinned(b, RemoveEvent(b, i))
<1> DEFINE q == b.queue
           p == RemoveAt(q, i)
           by == b.bytes - q[i].size
<1>1. RemoveEvent(b, i).queue = p /\ RemoveEvent(b, i).bytes = by
  BY DEF RemoveEvent
<1>2. q \in Seq(Event) /\ b.bytes \in Nat /\ b.bytes <= MaxBytes /\ Len(q) <= MaxMessages
  BY DEF Good
<1>3. Len(q) \in Nat /\ i \in Nat /\ 1 <= i /\ i <= Len(q) /\ MaxMessages \in Nat /\ MaxBytes \in Nat
  BY <1>2, EventAt, TransportAssumption
<1>4. /\ p \in Seq(Event) /\ Len(p) = Len(q) - 1
      /\ \A j \in 1 .. Len(p) : p[j] = IF j < i THEN q[j] ELSE q[j + 1]
  <2> HIDE DEF q
  <2> QED
    BY <1>2, RemoveAtType DEF q
<1> HIDE DEF p
<1>5. /\ Total(p) = Total(q) - q[i].size /\ Total(p) \in Nat /\ Total(p) <= Total(q)
  BY <1>2, <1>4, TotalWithout
<1>6. /\ by = Total(p) /\ by \in Nat /\ by <= MaxBytes
  <2>1. b.bytes = Total(q)
    BY DEF Good
  <2> QED
    BY <1>2, <1>3, <1>5, <2>1
<1>7. Len(p) <= MaxMessages
  BY <1>2, <1>3, <1>4
<1> DEFINE from(j) == IF j < i THEN j ELSE j + 1
<1>8. \A j \in 1 .. Len(p) : from(j) \in 1 .. Len(q) /\ p[j] = q[from(j)]
  BY <1>3, <1>4
<1>9. Sorted(p)
  <2> SUFFICES ASSUME NEW j \in 1 .. Len(p), NEW k \in 1 .. Len(p), j < k
               PROVE  p[j].revision <= p[k].revision
    BY DEF Sorted
  <2>1. from(j) < from(k)
    BY <1>3, <1>4
  <2> HIDE DEF from
  <2> QED
    BY <1>8, <2>1 DEF Good, Sorted
<1>10. ASSUME NEW k \in 1 .. Len(q), k # i
       PROVE  \E j \in 1 .. Len(p) : p[j] = q[k]
  <2>1. CASE k < i
    <3>1. k \in 1 .. Len(p) /\ from(k) = k
      BY <1>3, <1>4, <2>1
    <3> QED
      BY <1>8, <3>1
  <2>2. CASE i < k
    <3>1. k - 1 \in 1 .. Len(p) /\ from(k - 1) = k
      BY <1>3, <1>4, <2>2
    <3> QED
      BY <1>8, <3>1
  <2> QED
    BY <1>3, <1>10, <2>1, <2>2
<1> HIDE DEF from
<1>11. ASSUME NEW x \in ToSet(p) PROVE x \in ToSet(q)
  <2>1. PICK j \in 1 .. Len(p) : p[j] = x
    BY <1>4, EventAt
  <2>2. x = q[from(j)] /\ from(j) \in 1 .. Len(q)
    BY <1>8, <2>1
  <2> QED
    BY <1>2, <2>2, EventAt
<1>12. ASSUME NEW x \in ToSet(q), Critical(x)
       PROVE  x \in ToSet(p)
  <2>1. PICK k \in 1 .. Len(q) : q[k] = x
    BY <1>2, EventAt
  <2>2. k # i
    BY <1>12, <2>1
  <2>3. PICK j \in 1 .. Len(p) : p[j] = q[k]
    BY <1>10, <2>2
  <2> QED
    BY <1>4, <2>1, <2>3, EventAt
<1>13. \A x \in ToSet(p) : x.revision <= r /\ (Critical(x) => x.key = Nothing)
  BY <1>11 DEF Good
<1>14. Good(RemoveEvent(b, i), r)
  BY <1>1, <1>4, <1>6, <1>7, <1>9, <1>13 DEF Good
<1> QED
  BY <1>1, <1>11, <1>12, <1>14 DEF Thinned

LEMMA OldestIs ==
  ASSUME NEW q \in Seq(Event), NEW k \in 1 .. Len(q), ~ Critical(q[k])
  PROVE  Oldest(q) \in 1 .. Len(q) /\ ~ Critical(q[Oldest(q)])
<1> DEFINE S == {i \in 1 .. Len(q) : ~ Critical(q[i])}
<1>1. Len(q) \in Nat /\ DOMAIN q = 1 .. Len(q)
  BY EventAt
<1>2. S \in SUBSET Nat /\ k \in S
  BY <1>1
<1>3. PICK i \in S : \A j \in S : i <= j
  <2> HIDE DEF S
  <2> QED
    BY <1>2, LeastMember
<1>4. i \in DOMAIN q /\ ~ Critical(q[i]) /\ \A j \in 1 .. i - 1 : Critical(q[j])
  <2>1. i \in 1 .. Len(q) /\ ~ Critical(q[i])
    OBVIOUS
  <2>2. ASSUME NEW j \in 1 .. i - 1 PROVE Critical(q[j])
    <3>1. j \in 1 .. Len(q) /\ ~ (i <= j)
      BY <1>1, <2>1
    <3> QED
      BY <1>3, <3>1
  <2> QED
    BY <1>1, <2>1, <2>2
<1> QED
  BY <1>1, <1>4 DEF Oldest

(* What is left after n of the steps of Room().                             *)
After(b, e) ==
  LET after[n \in 0 .. Len(b.queue)] ==
        IF n = 0 THEN b
        ELSE LET c == after[n - 1]
             IN  IF Fits(c, e) \/ \A i \in DOMAIN c.queue : Critical(c.queue[i]) THEN c
                 ELSE RemoveEvent(c, Oldest(c.queue))
  IN  after

Less(c, e) ==
  IF Fits(c, e) \/ \A i \in DOMAIN c.queue : Critical(c.queue[i]) THEN c
  ELSE RemoveEvent(c, Oldest(c.queue))

LEMMA AfterIs ==
  ASSUME NEW b, NEW e, Len(b.queue) \in Nat
  PROVE  /\ After(b, e) = [n \in 0 .. Len(b.queue) |->
                             IF n = 0 THEN b ELSE Less(After(b, e)[n - 1], e)]
         /\ Room(b, e) = After(b, e)[Len(b.queue)]
<1> DEFINE I == {m \in Nat : \E s : s = [n \in 0 .. m |-> IF n = 0 THEN b ELSE Less(s[n - 1], e)]}
<1>1. 0 \in I
  <2> DEFINE s == [n \in 0 .. 0 |-> b]
  <2>1. s = [n \in 0 .. 0 |-> IF n = 0 THEN b ELSE Less(s[n - 1], e)]
    OBVIOUS
  <2>2. 0 \in Nat
    OBVIOUS
  <2> HIDE DEF s
  <2> QED
    BY <2>1, <2>2, Zenon
<1>2. ASSUME NEW m \in I PROVE m + 1 \in I
  <2>1. PICK s : s = [n \in 0 .. m |-> IF n = 0 THEN b ELSE Less(s[n - 1], e)]
    OBVIOUS
  <2> DEFINE t == [n \in 0 .. m + 1 |-> IF n = m + 1 THEN Less(s[m], e) ELSE s[n]]
  <2>2. ASSUME NEW n \in 0 .. m + 1
        PROVE  t[n] = IF n = 0 THEN b ELSE Less(t[n - 1], e)
    <3>1. CASE n = m + 1
      <4>1. n # 0 /\ n - 1 = m /\ t[m] = s[m]
        BY <3>1
      <4> QED
        BY <3>1, <4>1
    <3>2. CASE n # m + 1
      <4>1. n \in 0 .. m
        BY <3>2
      <4>2. t[n] = s[n] /\ (n # 0 => t[n - 1] = s[n - 1])
        BY <3>2, <4>1
      <4>3. s[n] = IF n = 0 THEN b ELSE Less(s[n - 1], e)
        BY <2>1, <4>1
      <4> QED
        BY <4>2, <4>3
    <3> QED
      BY <3>1, <3>2
  <2> HIDE DEF t
  <2>3. t = [n \in 0 .. m + 1 |-> t[n]]
    BY DEF t
  <2>4. t = [n \in 0 .. m + 1 |-> IF n = 0 THEN b ELSE Less(t[n - 1], e)]
    BY <2>2, <2>3
  <2>5. m + 1 \in Nat
    OBVIOUS
  <2> QED
    BY <2>4, <2>5, Zenon
<1>3. I = Nat
  <2> HIDE DEF I
  <2>1. I \in SUBSET Nat
    BY DEF I
  <2> QED
    BY <1>1, <1>2, <2>1, Induction
<1>4. \E s : s = [n \in 0 .. Len(b.queue) |-> IF n = 0 THEN b ELSE Less(s[n - 1], e)]
  <2>1. Len(b.queue) \in I
    BY <1>3
  <2> QED
    BY <2>1
<1>5. After(b, e) = [n \in 0 .. Len(b.queue) |->
                       IF n = 0 THEN b ELSE Less(After(b, e)[n - 1], e)]
  BY <1>4, Zenon DEF After, Less
<1>6. Room(b, e) = After(b, e)[Len(b.queue)]
  BY DEF Room, After
<1> QED
  BY <1>5, <1>6

LEMMA RoomThins ==
  ASSUME NEW b, NEW r \in Nat, Good(b, r), NEW e
  PROVE  Good(Room(b, e), r) /\ Thinned(b, Room(b, e))
<1>1. Len(b.queue) \in Nat
  BY EventAt DEF Good
<1> DEFINE A == After(b, e)
           I == {n \in Nat : n <= Len(b.queue) => Good(A[n], r) /\ Thinned(b, A[n])}
<1>2. A = [n \in 0 .. Len(b.queue) |-> IF n = 0 THEN b ELSE Less(A[n - 1], e)]
  BY <1>1, AfterIs
<1> HIDE DEF A
<1>3. 0 \in I
  <2>1. A[0] = b
    BY <1>1, <1>2
  <2> QED
    BY <2>1 DEF Thinned
<1>4. ASSUME NEW n \in I PROVE n + 1 \in I
  <2> SUFFICES ASSUME n + 1 <= Len(b.queue)
               PROVE  Good(A[n + 1], r) /\ Thinned(b, A[n + 1])
    OBVIOUS
  <2> DEFINE c == A[n]
  <2>1. n \in Nat /\ n <= Len(b.queue) /\ n + 1 \in 0 .. Len(b.queue) /\ n + 1 # 0 /\ (n + 1) - 1 = n
    BY <1>1
  <2>2. A[n + 1] = Less(c, e)
    BY <1>2, <2>1
  <2>3. Good(c, r) /\ Thinned(b, c)
    BY <2>1
  <2> HIDE DEF c
  <2>4. CASE Fits(c, e) \/ \A i \in DOMAIN c.queue : Critical(c.queue[i])
    BY <2>2, <2>3, <2>4 DEF Less
  <2>5. CASE ~ (Fits(c, e) \/ \A i \in DOMAIN c.queue : Critical(c.queue[i]))
    <3> DEFINE i == Oldest(c.queue)
    <3>1. c.queue \in Seq(Event)
      BY <2>3 DEF Good
    <3>2. PICK k \in 1 .. Len(c.queue) : ~ Critical(c.queue[k])
      BY <2>5, <3>1, EventAt
    <3>3. i \in 1 .. Len(c.queue) /\ ~ Critical(c.queue[i])
      BY <3>1, <3>2, OldestIs
    <3>4. A[n + 1] = RemoveEvent(c, i)
      BY <2>2, <2>5 DEF Less
    <3> HIDE DEF i
    <3>5. Good(A[n + 1], r) /\ Thinned(c, A[n + 1])
      BY <2>3, <3>3, <3>4, RemoveThins
    <3> QED
      BY <2>3, <3>5 DEF Thinned
  <2> QED
    BY <2>4, <2>5
<1>5. I = Nat
  <2> HIDE DEF I
  <2>1. I \in SUBSET Nat
    BY DEF I
  <2> QED
    BY <1>3, <1>4, <2>1, Induction
<1>6. Good(A[Len(b.queue)], r) /\ Thinned(b, A[Len(b.queue)])
  BY <1>1, <1>5
<1>7. Room(b, e) = A[Len(b.queue)]
  BY <1>1, AfterIs DEF A
<1> QED
  BY <1>6, <1>7

LEMMA GoodLater ==
  ASSUME NEW b, NEW r \in Nat, NEW s \in Nat, r <= s, Good(b, r)
  PROVE  Good(b, s)
<1>1. \A x \in ToSet(b.queue) : x.revision \in Nat
  BY EventAt DEF Good
<1>2. ASSUME NEW x \in ToSet(b.queue) PROVE x.revision <= s
  <2>1. x.revision <= r /\ x.revision \in Nat
    BY <1>1 DEF Good
  <2> QED
    BY <2>1
<1> QED
  BY <1>2 DEF Good

LEMMA AppendIs ==
  ASSUME NEW q \in Seq(Event), NEW e \in Event
  PROVE  /\ Append(q, e) \in Seq(Event)
         /\ Len(Append(q, e)) = Len(q) + 1
         /\ ToSet(Append(q, e)) = ToSet(q) \cup {e}
         /\ Sorted(q) /\ (\A x \in ToSet(q) : x.revision <= e.revision) => Sorted(Append(q, e))
<1> DEFINE p == Append(q, e)
<1>1. Len(q) \in Nat
  BY EventAt
<1>2. /\ p \in Seq(Event) /\ Len(p) = Len(q) + 1 /\ p[Len(q) + 1] = e
      /\ \A j \in 1 .. Len(q) : p[j] = q[j]
  BY AppendProperties
<1> HIDE DEF p
<1>3. \A j \in 1 .. Len(p) : j \in 1 .. Len(q) \/ (j = Len(q) + 1 /\ p[j] = e)
  BY <1>1, <1>2
<1>4. ToSet(p) = ToSet(q) \cup {e}
  <2>1. ASSUME NEW x \in ToSet(p) PROVE x \in ToSet(q) \cup {e}
    <3>1. PICK j \in 1 .. Len(p) : p[j] = x
      BY <1>2, EventAt
    <3> QED
      BY <1>2, <1>3, <3>1, EventAt
  <2>2. ASSUME NEW x \in ToSet(q) PROVE x \in ToSet(p)
    <3>1. PICK j \in 1 .. Len(q) : q[j] = x
      BY EventAt
    <3>2. j \in 1 .. Len(p)
      BY <1>1, <1>2
    <3> QED
      BY <1>2, <3>1, <3>2, EventAt
  <2>3. e \in ToSet(p)
    <3>1. Len(q) + 1 \in 1 .. Len(p)
      BY <1>1, <1>2
    <3> QED
      BY <1>2, <3>1, EventAt
  <2> QED
    BY <2>1, <2>2, <2>3
<1>5. ASSUME Sorted(q), \A x \in ToSet(q) : x.revision <= e.revision
      PROVE  Sorted(p)
  <2> SUFFICES ASSUME NEW j \in 1 .. Len(p), NEW k \in 1 .. Len(p), j < k
               PROVE  p[j].revision <= p[k].revision
    BY DEF Sorted
  <2>1. j \in 1 .. Len(q)
    BY <1>1, <1>2
  <2>2. CASE k \in 1 .. Len(q)
    BY <1>2, <1>5, <2>1, <2>2 DEF Sorted
  <2>3. CASE k = Len(q) + 1
    <3>1. p[j] \in ToSet(q)
      BY <1>2, <2>1, EventAt
    <3> QED
      BY <1>2, <1>5, <2>3, <3>1
  <2> QED
    BY <1>3, <2>2, <2>3
<1> QED
  BY <1>2, <1>4, <1>5 DEF p

LEMMA PushEnters ==
  ASSUME NEW b, NEW e \in Event, Good(b, e.revision), Fits(b, e),
         Critical(e) => e.key = Nothing
  PROVE  /\ Good(Push(b, e), e.revision)
         /\ ToSet(Push(b, e).queue) = ToSet(b.queue) \cup {e}
<1> DEFINE q == b.queue
           p == Append(q, e)
           by == b.bytes + e.size
<1>1. Push(b, e).queue = p /\ Push(b, e).bytes = by
  BY DEF Push
<1>2. q \in Seq(Event) /\ b.bytes \in Nat /\ b.bytes = Total(q) /\ Len(q) \in Nat
  BY EventAt DEF Good
<1>3. e.revision \in Nat /\ e.size \in Nat /\ MaxMessages \in Nat
  BY TransportAssumption DEF Event
<1>4. /\ p \in Seq(Event) /\ Len(p) = Len(q) + 1 /\ ToSet(p) = ToSet(q) \cup {e}
      /\ Sorted(p)
  <2>1. Sorted(q) /\ \A x \in ToSet(q) : x.revision <= e.revision
    BY DEF Good
  <2> HIDE DEF q
  <2> QED
    BY <1>2, <2>1, AppendIs
<1>5. Total(p) = Total(q) + e.size
  BY <1>2, TotalWith
<1> HIDE DEF p
<1>6. by \in Nat /\ by = Total(p) /\ by <= MaxBytes
  BY <1>2, <1>3, <1>5 DEF Fits
<1>7. Len(p) <= MaxMessages
  BY <1>2, <1>3, <1>4 DEF Fits
<1>8. \A x \in ToSet(p) : x.revision <= e.revision /\ (Critical(x) => x.key = Nothing)
  <2>1. e.revision <= e.revision
    BY <1>3
  <2> QED
    BY <1>4, <2>1 DEF Good
<1> QED
  BY <1>1, <1>4, <1>6, <1>7, <1>8 DEF Good

LEMMA ResyncIs ==
  ASSUME NEW r \in Nat
  PROVE  /\ Resync(r) \in Event /\ Resync(r).kind = "resync" /\ Resync(r).revision = r
         /\ Critical(Resync(r)) /\ Resync(r).key = Nothing /\ Resync(r).size = 1
BY DEF Resync, Event, Critical

LEMMA EmptyIs ==
  ASSUME NEW r \in Nat
  PROVE  Good([queue |-> <<>>, bytes |-> 0], r) /\ ToSet(<<>>) = {}
<1>1. <<>> \in Seq(Event) /\ Len(<<>>) = 0 /\ Total(<<>>) = 0
  BY EmptySeq, TotalEmpty
<1>2. ToSet(<<>>) = {}
  <2> SUFFICES ASSUME NEW y \in ToSet(<<>>) PROVE FALSE
    OBVIOUS
  <2>1. \E i \in 1 .. Len(<<>>) : <<>>[i] = y
    BY <1>1, EventAt
  <2> QED
    BY <1>1, <2>1
<1>3. Sorted(<<>>) /\ 0 <= MaxBytes /\ 0 <= MaxMessages
  BY <1>1, TransportAssumption DEF Sorted
<1> QED
  BY <1>1, <1>2, <1>3 DEF Good

LEMMA ResetIs ==
  ASSUME NEW r \in Nat
  PROVE  Good(Reset(r), r) /\ ToSet(Reset(r).queue) = {Resync(r)}
<1> DEFINE x == Resync(r)
           b == [queue |-> <<>>, bytes |-> 0]
<1>1. /\ x \in Event /\ x.revision = r /\ x.size = 1 /\ x.key = Nothing
  BY ResyncIs
<1> HIDE DEF x
<1>2. Good(b, r) /\ ToSet(<<>>) = {} /\ Len(<<>>) = 0
  BY EmptyIs, EmptySeq
<1>3. Fits(b, x)
  BY <1>1, <1>2, TransportAssumption DEF Fits
<1>4. Push(b, x) = Reset(r)
  <2>1. Append(<<>>, x) = <<x>>
    OBVIOUS
  <2> QED
    BY <1>1, <1>3, <2>1 DEF Push, Reset, x
<1>5. Good(Push(b, x), r) /\ ToSet(Push(b, x).queue) = ToSet(b.queue) \cup {x}
  BY <1>1, <1>2, <1>3, PushEnters
<1> QED
  BY <1>2, <1>4, <1>5 DEF x

LEMMA CoalescedThins ==
  ASSUME NEW b, NEW r \in Nat, Good(b, r), NEW e, NEW c \in Coalesced(b, e)
  PROVE  Good(c, r) /\ Thinned(b, c)
<1>1. CASE c = b
  BY <1>1 DEF Thinned
<1>2. CASE c # b
  <2>1. PICK i \in DOMAIN b.queue : /\ e.key # Nothing /\ b.queue[i].key = e.key
                                    /\ c = RemoveEvent(b, i)
    BY <1>2 DEF Coalesced
  <2>2. b.queue \in Seq(Event)
    BY DEF Good
  <2>3. i \in 1 .. Len(b.queue) /\ b.queue[i] \in ToSet(b.queue)
    BY <2>2, EventAt
  <2>4. ~ Critical(b.queue[i])
    BY <2>1, <2>3 DEF Good
  <2> QED
    BY <2>1, <2>3, <2>4, RemoveThins
<1> QED
  BY <1>1, <1>2

(* What becomes of b when e enters: every event left is an old one, e or    *)
(* the resync of its revision; a control event is there, or that resync is; *)
(* and telemetry takes no control event away.                               *)
Entered(b, d, e) ==
  /\ Good(d, e.revision)
  /\ ToSet(d.queue) \subseteq ToSet(b.queue) \cup {e, Resync(e.revision)}
  /\ Critical(e) => ToSet(d.queue) \cap {e, Resync(e.revision)} # {}
  /\ \/ Resync(e.revision) \in ToSet(d.queue)
     \/ \A x \in ToSet(b.queue) : Critical(x) => x \in ToSet(d.queue)

LEMMA EnqueueEnters ==
  ASSUME NEW b, NEW e \in Event, Good(b, e.revision), Critical(e) => e.key = Nothing,
         NEW d \in Enqueued(b, e)
  PROVE  Entered(b, d, e)
<1> DEFINE r == e.revision
<1>1. r \in Nat
  BY DEF Event
<1>2. Good(Reset(r), r) /\ ToSet(Reset(r).queue) = {Resync(r)}
  BY <1>1, ResetIs
<1>3. CASE e.size > MaxBytes
  <2>1. d = IF Critical(e) THEN Reset(r) ELSE b
    BY <1>3 DEF Enqueued
  <2> HIDE DEF r
  <2>2. CASE Critical(e)
    BY <1>2, <2>1, <2>2 DEF Entered, r
  <2>3. CASE ~ Critical(e)
    BY <2>1, <2>3 DEF Entered
  <2> QED
    BY <2>2, <2>3
<1>4. CASE ~ (e.size > MaxBytes)
  <2>1. PICK c \in Coalesced(b, e) :
          d = LET m == Room(c, e)
              IN  IF Fits(m, e) THEN Push(m, e)
                  ELSE IF Critical(e) THEN Push(Reset(r), e) ELSE m
    BY <1>4 DEF Enqueued
  <2> DEFINE m == Room(c, e)
  <2>2. d = IF Fits(m, e) THEN Push(m, e)
            ELSE IF Critical(e) THEN Push(Reset(r), e) ELSE m
    BY <2>1
  <2>3. Good(c, r) /\ Thinned(b, c)
    BY <1>1, CoalescedThins
  <2>4. Good(m, r) /\ Thinned(c, m)
    BY <1>1, <2>3, RoomThins
  <2> HIDE DEF m
  <2>5. Thinned(b, m)
    BY <2>3, <2>4 DEF Thinned
  <2>6. CASE Fits(m, e)
    <3>1. d = Push(m, e)
      BY <2>2, <2>6
    <3>2. Good(d, r) /\ ToSet(d.queue) = ToSet(m.queue) \cup {e}
      BY <2>4, <2>6, <3>1, PushEnters
    <3> QED
      BY <2>5, <3>2 DEF Entered, Thinned
  <2>7. CASE ~ Fits(m, e) /\ Critical(e)
    <3> DEFINE z == Reset(r)
    <3>1. d = Push(z, e)
      BY <2>2, <2>7
    <3>2. Good(z, r) /\ ToSet(z.queue) = {Resync(r)}
      BY <1>2
    <3> HIDE DEF z
    <3>3. CASE Fits(z, e)
      <4>1. Good(d, r) /\ ToSet(d.queue) = {Resync(r)} \cup {e}
        BY <2>7, <3>1, <3>2, <3>3, PushEnters
      <4> QED
        BY <2>7, <4>1 DEF Entered
    <3>4. CASE ~ Fits(z, e)
      <4>1. d = z
        BY <3>1, <3>4 DEF Push
      <4> QED
        BY <2>7, <3>2, <4>1 DEF Entered
    <3> QED
      BY <3>3, <3>4
  <2>8. CASE ~ Fits(m, e) /\ ~ Critical(e)
    <3>1. d = m
      BY <2>2, <2>8
    <3> QED
      BY <2>4, <2>5, <2>8, <3>1 DEF Entered, Thinned
  <2> QED
    BY <2>6, <2>7, <2>8
<1> QED
  BY <1>3, <1>4

LEMMA TailIs ==
  ASSUME NEW q \in Seq(Event), q # <<>>
  PROVE  /\ Head(q) \in Event /\ Tail(q) \in Seq(Event)
         /\ ToSet(q) = {Head(q)} \cup ToSet(Tail(q))
         /\ Total(Tail(q)) = Total(q) - Head(q).size
         /\ Total(Tail(q)) \in Nat /\ Total(Tail(q)) <= Total(q)
         /\ Len(Tail(q)) <= Len(q)
         /\ Sorted(q) => /\ Sorted(Tail(q))
                         /\ \A x \in ToSet(Tail(q)) : Head(q).revision <= x.revision
<1> DEFINE p == Tail(q)
           h == Head(q)
<1>1. /\ p \in Seq(Event) /\ h = q[1] /\ Len(p) = Len(q) - 1
      /\ \A j \in 1 .. Len(p) : p[j] = q[j + 1]
  BY HeadTailProperties
<1>2. Len(q) \in Nat /\ Len(p) \in Nat /\ Len(q) >= 1
  BY <1>1, EventAt
<1>3. h \in Event /\ 1 \in 1 .. Len(q)
  BY <1>1, <1>2, EventAt
<1> HIDE DEF p, h
<1>4. /\ Total(p) = Total(q) - h.size /\ Total(p) \in Nat /\ Total(p) <= Total(q)
  <2>1. \A j \in 1 .. Len(p) : p[j] = IF j < 1 THEN q[j] ELSE q[j + 1]
    BY <1>1, <1>2
  <2> QED
    BY <1>1, <1>3, <2>1, TotalWithout
<1>5. \A j \in 1 .. Len(q) : j = 1 \/ (j - 1 \in 1 .. Len(p) /\ p[j - 1] = q[j])
  BY <1>1, <1>2
<1>6. \A j \in 1 .. Len(p) : j + 1 \in 1 .. Len(q) /\ 1 < j + 1
  BY <1>1, <1>2
<1>7. ToSet(q) = {h} \cup ToSet(p)
  <2>1. ASSUME NEW x \in ToSet(q) PROVE x \in {h} \cup ToSet(p)
    <3>1. PICK j \in 1 .. Len(q) : q[j] = x
      BY EventAt
    <3> QED
      BY <1>1, <1>5, <3>1, EventAt
  <2>2. ASSUME NEW x \in ToSet(p) PROVE x \in ToSet(q)
    <3>1. PICK j \in 1 .. Len(p) : p[j] = x
      BY <1>1, EventAt
    <3> QED
      BY <1>1, <1>6, <3>1, EventAt
  <2>3. h \in ToSet(q)
    BY <1>1, <1>3, EventAt
  <2> QED
    BY <2>1, <2>2, <2>3
<1>8. ASSUME Sorted(q)
      PROVE  Sorted(p) /\ \A x \in ToSet(p) : h.revision <= x.revision
  <2>1. ASSUME NEW j \in 1 .. Len(p), NEW k \in 1 .. Len(p), j < k
        PROVE  p[j].revision <= p[k].revision
    <3>1. j + 1 < k + 1
      BY <1>2, <2>1
    <3> QED
      BY <1>1, <1>6, <1>8, <3>1 DEF Sorted
  <2>2. ASSUME NEW x \in ToSet(p) PROVE h.revision <= x.revision
    <3>1. PICK j \in 1 .. Len(p) : p[j] = x
      BY <1>1, EventAt
    <3> QED
      BY <1>1, <1>3, <1>6, <1>8, <3>1 DEF Sorted
  <2> QED
    BY <2>1, <2>2 DEF Sorted
<1>9. Len(p) <= Len(q)
  BY <1>1, <1>2
<1> QED
  BY <1>1, <1>3, <1>4, <1>7, <1>8, <1>9 DEF p, h

-----------------------------------------------------------------------------
(* The inductive invariant.                                                 *)

Buffer == [queue |-> queue, bytes |-> bytes]

(* Along the way to the client revisions do not decrease, from what it has  *)
(* seen to the latest one.                                                  *)
Ordered ==
  /\ Good(Buffer, revision)
  /\ Sorted(wire)
  /\ \A x \in ToSet(wire) : /\ seen <= x.revision /\ x.revision <= revision
                            /\ \A y \in ToSet(queue) : x.revision <= y.revision
  /\ \A y \in ToSet(queue) : seen <= y.revision
  /\ seen <= revision
  /\ \A o \in owed : o[2] <= revision

LiveInv ==
  /\ TypeOK
  /\ Ordered
  /\ NoSilentLoss
  /\ NoLostFlush

LEMMA BufferIs ==
  ASSUME LiveInv
  PROVE  /\ Good(Buffer, revision) /\ Buffer.queue = queue /\ Buffer.bytes = bytes
         /\ queue \in Seq(Event) /\ wire \in Seq(Event)
         /\ revision \in Nat /\ seen \in Nat /\ changed \in [Part -> Nat]
         /\ owed \subseteq Part \X Nat
BY DEF LiveInv, Ordered, TypeOK, Buffer

LEMMA RevisionIn ==
  ASSUME NEW q \in Seq(Event), NEW x \in ToSet(q)
  PROVE  x \in Event /\ x.revision \in Nat
BY EventAt DEF Event

(* The queue takes events of the latest revision.                           *)
LEMMA Grows ==
  ASSUME LiveInv, NEW d, Good(d, revision'), queue' = d.queue, bytes' = d.bytes,
         \A y \in ToSet(d.queue) : y \in ToSet(queue) \/ y.revision = revision',
         revision' \in Nat, revision <= revision', wire' = wire, seen' = seen,
         \A o \in owed' : o \in owed \/ o[2] = revision'
  PROVE  Ordered'
<1>1. /\ revision \in Nat /\ seen \in Nat /\ wire \in Seq(Event) /\ owed \subseteq Part \X Nat
  BY BufferIs
<1>2. Good([queue |-> queue', bytes |-> bytes'], revision')
  BY DEF Good
<1>3. seen <= revision'
  <2>1. seen <= revision
    BY DEF LiveInv, Ordered
  <2> QED
    BY <1>1, <2>1
<1>4. ASSUME NEW y \in ToSet(d.queue) PROVE seen <= y.revision
  BY <1>3 DEF LiveInv, Ordered
<1>5. ASSUME NEW x \in ToSet(wire)
      PROVE  /\ seen <= x.revision /\ x.revision <= revision'
             /\ \A y \in ToSet(d.queue) : x.revision <= y.revision
  <2>1. x.revision \in Nat
    BY <1>1, RevisionIn
  <2>2. /\ seen <= x.revision /\ x.revision <= revision
        /\ \A y \in ToSet(queue) : x.revision <= y.revision
    BY DEF LiveInv, Ordered
  <2>3. x.revision <= revision'
    BY <1>1, <2>1, <2>2
  <2> QED
    BY <2>2, <2>3
<1>6. Sorted(wire)
  BY DEF LiveInv, Ordered
<1>7. ASSUME NEW o \in owed' PROVE o[2] <= revision'
  <2>1. CASE o \in owed
    <3>1. o[2] \in Nat /\ o[2] <= revision
      BY <1>1, <2>1 DEF LiveInv, Ordered
    <3> QED
      BY <1>1, <3>1
  <2> QED
    BY <2>1
<1> QED
  BY <1>2, <1>3, <1>4, <1>5, <1>6, <1>7 DEF Ordered, Buffer, Good, Sorted

(* A queue that keeps the control events, or has a resync that stands for   *)
(* them, tells of all that was owed.                                        *)
LEMMA StillTold ==
  ASSUME LiveInv, open, NEW d, NEW r \in Nat, revision <= r,
         \/ Resync(r) \in ToSet(d.queue)
         \/ \A x \in ToSet(queue) : Critical(x) => x \in ToSet(d.queue),
         NEW o \in owed
  PROVE  \E m \in ToSet(wire) \cup ToSet(d.queue) : Tells(m, o)
<1>1. o[2] \in Nat /\ o[2] <= revision /\ revision \in Nat
  BY BufferIs DEF LiveInv, Ordered
<1>2. CASE Resync(r) \in ToSet(d.queue)
  <2>1. o[2] <= r
    BY <1>1
  <2>2. Tells(Resync(r), o)
    BY <2>1, ResyncIs DEF Tells
  <2> QED
    BY <1>2, <2>2
<1>3. CASE \A x \in ToSet(queue) : Critical(x) => x \in ToSet(d.queue)
  <2>1. PICK m \in ToSet(wire) \cup ToSet(queue) : Tells(m, o)
    BY DEF LiveInv, NoSilentLoss
  <2>2. Critical(m)
    BY <2>1 DEF Tells, Critical
  <2> QED
    BY <1>3, <2>1, <2>2
<1> QED
  BY <1>2, <1>3

(* scheduleFlush() leaves one flusher.                                      *)
LEMMA ScheduleFlushes ==
  ASSUME LiveInv, Scheduled
  PROVE  NoLostFlush' /\ timer' \in BOOLEAN /\ flushing' \in BOOLEAN
BY DEF LiveInv, TypeOK, NoLostFlush, Scheduled

LEMMA StateEventIs ==
  ASSUME NEW p \in Part, NEW size \in Sizes, changed' \in [Part -> Nat], revision' \in Nat
  PROVE  /\ StateEvent(p, size) \in Event /\ StateEvent(p, size).revision = revision'
         /\ StateEvent(p, size).kind = "state" /\ StateEvent(p, size).part = p
         /\ Critical(StateEvent(p, size)) /\ StateEvent(p, size).key = Nothing
<1>1. changed'[p] \in Nat /\ size \in Nat
  BY TransportAssumption
<1> DEFINE v == changed'[p]
<1>2. v \in Nat
  BY <1>1
<1> HIDE DEF v
<1>3. StateEvent(p, size) = [kind |-> "state", revision |-> revision', part |-> p,
                             version |-> v, size |-> size, key |-> Nothing]
  BY DEF StateEvent, v
<1> QED
  BY <1>1, <1>2, <1>3 DEF Event, Critical

LEMMA HelloIs ==
  ASSUME revision' \in Nat
  PROVE  /\ Hello \in Event /\ Hello.revision = revision' /\ Critical(Hello)
         /\ Hello.key = Nothing
BY DEF Hello, Event, Critical

(* What a control event leaves tells of it, itself or the resync.           *)
LEMMA EventTold ==
  ASSUME NEW b, NEW d, NEW p \in Part, NEW size \in Sizes,
         changed' \in [Part -> Nat], revision' \in Nat,
         Good(b, revision'), d \in Enqueued(b, StateEvent(p, size))
  PROVE  /\ Good(d, revision')
         /\ \A y \in ToSet(d.queue) : y \in ToSet(b.queue) \/ y.revision = revision'
         /\ \/ Resync(revision') \in ToSet(d.queue)
            \/ \A x \in ToSet(b.queue) : Critical(x) => x \in ToSet(d.queue)
         /\ \E m \in ToSet(d.queue) : Tells(m, <<p, revision'>>)
<1> DEFINE e == StateEvent(p, size)
           r == revision'
<1>1. /\ e \in Event /\ e.revision = r /\ e.kind = "state" /\ Critical(e) /\ e.key = Nothing
      /\ e.part = p
  BY StateEventIs
<1>2. Resync(r).revision = r /\ Resync(r).kind = "resync" /\ r \in Nat /\ Good(b, r)
  BY ResyncIs
<1>3. d \in Enqueued(b, e)
  OBVIOUS
<1> HIDE DEF e, r
<1>4. Entered(b, d, e)
  BY <1>1, <1>2, <1>3, EnqueueEnters
<1>5. \A y \in ToSet(d.queue) : y \in ToSet(b.queue) \/ y.revision = r
  BY <1>1, <1>2, <1>4 DEF Entered
<1>6. Tells(e, <<p, r>>) /\ Tells(Resync(r), <<p, r>>)
  BY <1>1, <1>2 DEF Tells
<1>7. \E m \in ToSet(d.queue) : Tells(m, <<p, r>>)
  BY <1>1, <1>4, <1>6 DEF Entered
<1> QED
  BY <1>1, <1>4, <1>5, <1>7 DEF Entered, r

(* d is b after control events of revision r, and tells of those in O.      *)
Carries(b, d, O, r) ==
  /\ Good(d, r)
  /\ \A y \in ToSet(d.queue) : y \in ToSet(b.queue) \/ y.revision = r
  /\ \/ Resync(r) \in ToSet(d.queue)
     \/ \A x \in ToSet(b.queue) : Critical(x) => x \in ToSet(d.queue)
  /\ \A o \in O : \E m \in ToSet(d.queue) : Tells(m, o)

LEMMA CarriesOn ==
  ASSUME NEW b, NEW c, NEW d, NEW O, NEW p \in Part, NEW size \in Sizes,
         changed' \in [Part -> Nat], revision' \in Nat,
         \A o \in O : o[2] = revision',
         Carries(b, c, O, revision'), d \in Enqueued(c, StateEvent(p, size))
  PROVE  Carries(b, d, O \cup {<<p, revision'>>}, revision')
<1> DEFINE r == revision'
<1>1. /\ Good(d, r)
      /\ \A y \in ToSet(d.queue) : y \in ToSet(c.queue) \/ y.revision = r
      /\ \/ Resync(r) \in ToSet(d.queue)
         \/ \A x \in ToSet(c.queue) : Critical(x) => x \in ToSet(d.queue)
      /\ \E m \in ToSet(d.queue) : Tells(m, <<p, r>>)
  BY EventTold DEF Carries
<1>2. /\ Resync(r).kind = "resync" /\ Resync(r).revision = r /\ Critical(Resync(r)) /\ r \in Nat
  BY ResyncIs DEF Critical
<1>3. \A o \in O : o[2] = r
  OBVIOUS
<1>4. Carries(b, c, O, r)
  OBVIOUS
<1> HIDE DEF r
<1>5. \/ Resync(r) \in ToSet(d.queue)
      \/ \A x \in ToSet(b.queue) : Critical(x) => x \in ToSet(d.queue)
  BY <1>1, <1>2, <1>4 DEF Carries
<1>6. ASSUME NEW o \in O PROVE \E m \in ToSet(d.queue) : Tells(m, o)
  <2>1. PICK m \in ToSet(c.queue) : Tells(m, o)
    BY <1>4 DEF Carries
  <2>2. Critical(m)
    BY <2>1 DEF Tells, Critical
  <2>3. o[2] <= r
    BY <1>2, <1>3
  <2>4. Tells(Resync(r), o)
    BY <1>2, <2>3 DEF Tells
  <2> QED
    BY <1>1, <2>1, <2>2, <2>4
<1>7. \A y \in ToSet(d.queue) : y \in ToSet(b.queue) \/ y.revision = r
  BY <1>1, <1>4 DEF Carries
<1> QED
  BY <1>1, <1>5, <1>6, <1>7 DEF Carries, r

(* The queues after a greeting and the first parts of a snapshot.           *)
Parts(b, size) ==
  LET after[n \in 0 .. Len(SnapshotParts)] ==
        IF n = 0 THEN Enqueued(b, Hello) ELSE Then(after[n - 1], SnapshotParts[n], size)
  IN  after

LEMMA PartsAre ==
  ASSUME NEW b, NEW size
  PROVE  /\ Parts(b, size) = [n \in 0 .. Len(SnapshotParts) |->
                                IF n = 0 THEN Enqueued(b, Hello)
                                ELSE Then(Parts(b, size)[n - 1], SnapshotParts[n], size)]
         /\ Snapshot(b, size) = Parts(b, size)[Len(SnapshotParts)]
<1> DEFINE h == Enqueued(b, Hello)
           T(S, n) == Then(S, SnapshotParts[n], size)
           I == {m \in Nat : \E s : s = [n \in 0 .. m |-> IF n = 0 THEN h ELSE T(s[n - 1], n)]}
<1> HIDE DEF h, T
<1>1. 0 \in I
  <2> DEFINE s == [n \in 0 .. 0 |-> h]
  <2>1. s = [n \in 0 .. 0 |-> IF n = 0 THEN h ELSE T(s[n - 1], n)]
    OBVIOUS
  <2>2. 0 \in Nat
    OBVIOUS
  <2> HIDE DEF s
  <2> QED
    BY <2>1, <2>2, Zenon
<1>2. ASSUME NEW m \in I PROVE m + 1 \in I
  <2>1. PICK s : s = [n \in 0 .. m |-> IF n = 0 THEN h ELSE T(s[n - 1], n)]
    OBVIOUS
  <2> DEFINE t == [n \in 0 .. m + 1 |-> IF n = m + 1 THEN T(s[m], n) ELSE s[n]]
  <2>2. ASSUME NEW n \in 0 .. m + 1
        PROVE  t[n] = IF n = 0 THEN h ELSE T(t[n - 1], n)
    <3>1. CASE n = m + 1
      <4>1. n # 0 /\ n - 1 = m /\ t[m] = s[m]
        BY <3>1
      <4> QED
        BY <3>1, <4>1
    <3>2. CASE n # m + 1
      <4>1. n \in 0 .. m
        BY <3>2
      <4>2. t[n] = s[n] /\ (n # 0 => t[n - 1] = s[n - 1])
        BY <3>2, <4>1
      <4>3. s[n] = IF n = 0 THEN h ELSE T(s[n - 1], n)
        BY <2>1, <4>1
      <4> QED
        BY <4>2, <4>3
    <3> QED
      BY <3>1, <3>2
  <2> HIDE DEF t
  <2>3. t = [n \in 0 .. m + 1 |-> t[n]]
    BY DEF t
  <2>4. t = [n \in 0 .. m + 1 |-> IF n = 0 THEN h ELSE T(t[n - 1], n)]
    BY <2>2, <2>3
  <2>5. m + 1 \in Nat
    OBVIOUS
  <2> HIDE DEF t
  <2> QED
    BY <2>4, <2>5, Zenon
<1>3. I = Nat
  <2> HIDE DEF I
  <2>1. I \in SUBSET Nat
    BY DEF I
  <2> QED
    BY <1>1, <1>2, <2>1, Induction
<1>4. \E s : s = [n \in 0 .. Len(SnapshotParts) |-> IF n = 0 THEN h ELSE T(s[n - 1], n)]
  <2>1. Len(SnapshotParts) \in I
    BY <1>3, TransportAssumption, LenProperties
  <2> QED
    BY <2>1
<1>5. Parts(b, size) = [n \in 0 .. Len(SnapshotParts) |->
                          IF n = 0 THEN Enqueued(b, Hello)
                          ELSE Then(Parts(b, size)[n - 1], SnapshotParts[n], size)]
  BY <1>4, Zenon DEF Parts, h, T
<1>6. Snapshot(b, size) = Parts(b, size)[Len(SnapshotParts)]
  BY DEF Snapshot, Parts
<1> QED
  BY <1>5, <1>6

(* The queue a snapshot leaves tells of its parts, and of all it had.       *)
LEMMA SnapshotEnters ==
  ASSUME NEW b, NEW size \in Sizes, changed' \in [Part -> Nat], revision' \in Nat,
         Good(b, revision'), NEW d \in Snapshot(b, size)
  PROVE  Carries(b, d, InSnapshot, revision')
<1> DEFINE r == revision'
           L == Len(SnapshotParts)
           O(n) == {<<SnapshotParts[i], r>> : i \in 1 .. n}
           P(n) == \A c \in Parts(b, size)[n] : Carries(b, c, O(n), r)
           I == {n \in Nat : n <= L => P(n)}
<1>1. /\ L \in Nat /\ DOMAIN SnapshotParts = 1 .. L
      /\ \A i \in 1 .. L : SnapshotParts[i] \in Part
  BY TransportAssumption, LenProperties
<1>2. P(0)
  <2> SUFFICES ASSUME NEW c \in Parts(b, size)[0] PROVE Carries(b, c, O(0), r)
    OBVIOUS
  <2>1. c \in Enqueued(b, Hello)
    BY <1>1, PartsAre
  <2>2. /\ Hello \in Event /\ Hello.revision = r /\ Critical(Hello) /\ Hello.key = Nothing
        /\ Resync(r).revision = r /\ Good(b, r)
    BY HelloIs, ResyncIs
  <2>3. O(0) = {}
    OBVIOUS
  <2> HIDE DEF O, r
  <2>4. Entered(b, c, Hello)
    BY <2>1, <2>2, EnqueueEnters
  <2> QED
    BY <2>2, <2>3, <2>4 DEF Entered, Carries
<1>3. ASSUME NEW n \in Nat, P(n), n + 1 <= L
      PROVE  P(n + 1)
  <2> SUFFICES ASSUME NEW c \in Parts(b, size)[n + 1]
               PROVE  Carries(b, c, O(n + 1), r)
    OBVIOUS
  <2>1. /\ n + 1 \in 0 .. L /\ n + 1 \in 1 .. L /\ n + 1 # 0 /\ (n + 1) - 1 = n
    BY <1>1, <1>3
  <2>2. Parts(b, size)[n + 1] = Then(Parts(b, size)[n], SnapshotParts[n + 1], size)
    BY <2>1, PartsAre
  <2>3. PICK a \in Parts(b, size)[n] : c \in Enqueued(a, StateEvent(SnapshotParts[n + 1], size))
    BY <2>2 DEF Then
  <2>4. Carries(b, a, O(n), r)
    BY <1>3, <2>3
  <2>5. O(n + 1) = O(n) \cup {<<SnapshotParts[n + 1], r>>}
    <3>1. \A i : i \in 1 .. n + 1 <=> i \in 1 .. n \/ i = n + 1
      BY <2>1
    <3> QED
      BY <3>1
  <2>6. \A o \in O(n) : o[2] = r
    OBVIOUS
  <2>7. SnapshotParts[n + 1] \in Part
    BY <1>1, <2>1
  <2> HIDE DEF O
  <2> QED
    BY <2>3, <2>4, <2>5, <2>6, <2>7, CarriesOn
<1>4. O(L) = InSnapshot
  <2>1. ASSUME NEW o \in O(L) PROVE o \in InSnapshot
    BY <1>1 DEF InSnapshot, ToSet
  <2>2. ASSUME NEW o \in InSnapshot PROVE o \in O(L)
    <3>1. PICK i \in 1 .. L : o = <<SnapshotParts[i], r>>
      BY <1>1 DEF InSnapshot, ToSet
    <3> QED
      BY <3>1
  <2> HIDE DEF O
  <2> QED
    BY <2>1, <2>2
<1> HIDE DEF P
<1>5. I = Nat
  <2>1. 0 \in I
    BY <1>2
  <2>2. ASSUME NEW n \in I PROVE n + 1 \in I
    <3>1. n \in Nat /\ n + 1 \in Nat /\ (n + 1 <= L => n <= L)
      BY <1>1
    <3> QED
      BY <1>3, <3>1
  <2> HIDE DEF I
  <2>3. I \in SUBSET Nat
    BY DEF I
  <2> QED
    BY <2>1, <2>2, <2>3, Induction
<1>6. P(L)
  <2>1. L \in I
    BY <1>1, <1>5
  <2> QED
    BY <1>1, <2>1
<1>7. d \in Parts(b, size)[L]
  BY PartsAre
<1>8. Carries(b, d, O(L), r)
  <2> HIDE DEF O, r
  <2> QED
    BY <1>6, <1>7 DEF P
<1> HIDE DEF O
<1> QED
  BY <1>4, <1>8

LEMMA SnapshotOwes ==
  ASSUME revision' \in Nat
  PROVE  InSnapshot \subseteq Part \X Nat /\ \A o \in InSnapshot : o[2] = revision'
<1>1. ToSet(SnapshotParts) \subseteq Part
  BY TransportAssumption, LenProperties DEF ToSet
<1> QED
  BY <1>1 DEF InSnapshot

-----------------------------------------------------------------------------
(* The steps.                                                               *)

LEMMA ChangeKeeps ==
  ASSUME LiveInv, NEW p \in Part, NEW size \in Sizes, Change(p, size)
  PROVE  LiveInv'
<1>1. /\ revision' = revision + 1 /\ changed' = [changed EXCEPT ![p] = revision']
      /\ open' = open /\ wire' = wire /\ asked' = asked /\ sockets' = sockets
      /\ seen' = seen /\ shown' = shown /\ loads' = loads
  BY DEF Change
<1>2. /\ revision' \in Nat /\ revision <= revision' /\ changed' \in [Part -> Nat]
  BY <1>1, BufferIs
<1>3. Good(Buffer, revision')
  BY <1>2, BufferIs, GoodLater
<1>4. CASE open
  <2> DEFINE r == revision'
  <2>1. PICK d \in Enqueued(Buffer, StateEvent(p, size)) : queue' = d.queue /\ bytes' = d.bytes
    BY <1>4 DEF Change, Enqueue, QueueOf, Buffer
  <2>2. Scheduled /\ owed' = owed \cup {<<p, r>>}
    BY <1>4 DEF Change, Enqueue
  <2>3. /\ Good(d, r)
        /\ \A y \in ToSet(d.queue) : y \in ToSet(queue) \/ y.revision = r
        /\ \/ Resync(r) \in ToSet(d.queue)
           \/ \A x \in ToSet(queue) : Critical(x) => x \in ToSet(d.queue)
        /\ \E m \in ToSet(d.queue) : Tells(m, <<p, r>>)
    BY <1>2, <1>3, <2>1, EventTold DEF Buffer
  <2>4. Ordered'
    <3>1. \A o \in owed' : o \in owed \/ o[2] = r
      BY <2>2
    <3> QED
      BY <1>1, <1>2, <2>1, <2>3, <3>1, Grows
  <2>5. NoSilentLoss'
    <3>1. \A o \in owed : \E m \in ToSet(wire) \cup ToSet(d.queue) : Tells(m, o)
      BY <1>2, <1>4, <2>3, StillTold
    <3> QED
      BY <1>1, <2>1, <2>2, <2>3, <3>1 DEF NoSilentLoss, Tells
  <2>6. queue' \in Seq(Event) /\ bytes' \in Nat
    BY <2>1, <2>3 DEF Good
  <2>7. TypeOK'
    <3>1. owed' \subseteq Part \X Nat
      BY <1>2, <2>2, BufferIs
    <3> QED
      BY <1>1, <1>2, <2>2, <2>6, <3>1, ScheduleFlushes DEF LiveInv, TypeOK
  <2> QED
    BY <2>2, <2>4, <2>5, <2>7, ScheduleFlushes DEF LiveInv
<1>5. CASE ~ open
  <2>1. queue' = queue /\ bytes' = bytes /\ timer' = timer /\ flushing' = flushing /\ owed' = owed
    BY <1>5 DEF Change, sending
  <2>2. Ordered'
    BY <1>1, <1>2, <1>3, <2>1, BufferIs, Grows
  <2>3. NoSilentLoss' /\ NoLostFlush'
    BY <1>1, <1>5, <2>1 DEF LiveInv, NoSilentLoss, NoLostFlush
  <2>4. TypeOK'
    BY <1>1, <1>2, <2>1 DEF LiveInv, TypeOK
  <2> QED
    BY <2>2, <2>3, <2>4 DEF LiveInv
<1> QED
  BY <1>4, <1>5

LEMMA TelemetryKeeps ==
  ASSUME LiveInv, NEW key \in Key, NEW size \in Sizes, Telemetry(key, size)
  PROVE  LiveInv'
<1> DEFINE e == [kind |-> "telemetry", revision |-> revision', part |-> Nothing, version |-> 0,
                 size |-> size, key |-> key]
           r == revision'
<1>1. /\ revision' = revision + 1 /\ changed' = changed
      /\ open' = open /\ wire' = wire /\ asked' = asked /\ sockets' = sockets
      /\ seen' = seen /\ owed' = owed /\ shown' = shown /\ loads' = loads
      /\ Scheduled
  BY DEF Telemetry, Enqueue, client
<1>2. revision' \in Nat /\ revision <= revision'
  BY <1>1, BufferIs
<1>3. Good(Buffer, revision')
  BY <1>2, BufferIs, GoodLater
<1>4. PICK d \in Enqueued(Buffer, e) : queue' = d.queue /\ bytes' = d.bytes
  BY DEF Telemetry, Enqueue, QueueOf, Buffer
<1>5. e \in Event /\ e.revision = r /\ ~ Critical(e)
  BY <1>2, TransportAssumption DEF Event, Critical
<1> HIDE DEF e
<1>6. Entered(Buffer, d, e)
  BY <1>3, <1>4, <1>5, EnqueueEnters
<1>7. /\ Good(d, r) /\ ToSet(d.queue) \subseteq ToSet(queue) \cup {e, Resync(r)}
      /\ \/ Resync(r) \in ToSet(d.queue)
         \/ \A x \in ToSet(queue) : Critical(x) => x \in ToSet(d.queue)
  BY <1>5, <1>6 DEF Entered, Buffer
<1>8. \A y \in ToSet(d.queue) : y \in ToSet(queue) \/ y.revision = r
  BY <1>2, <1>5, <1>7, ResyncIs
<1>9. Ordered'
  BY <1>1, <1>2, <1>4, <1>7, <1>8, Grows
<1>10. NoSilentLoss'
  <2> SUFFICES ASSUME open, NEW o \in owed
               PROVE  \E m \in ToSet(wire) \cup ToSet(d.queue) : Tells(m, o)
    BY <1>1, <1>4 DEF NoSilentLoss, Tells
  <2> QED
    BY <1>2, <1>7, StillTold
<1>11. queue' \in Seq(Event) /\ bytes' \in Nat
  BY <1>4, <1>7 DEF Good
<1>12. TypeOK'
  BY <1>1, <1>2, <1>11, ScheduleFlushes DEF LiveInv, TypeOK
<1> QED
  BY <1>1, <1>9, <1>10, <1>12, ScheduleFlushes DEF LiveInv

LEMMA OpenKeeps ==
  ASSUME LiveInv, NEW size \in Sizes, Open(size)
  PROVE  LiveInv'
<1> DEFINE b == [queue |-> <<>>, bytes |-> 0]
<1>1. /\ revision' = revision /\ changed' = changed
      /\ open' = TRUE /\ sockets' = sockets + 1 /\ flushing' = FALSE /\ timer' = TRUE
      /\ wire' = <<>> /\ asked' = 1 /\ seen' = 0 /\ owed' = InSnapshot /\ shown' = shown
      /\ loads' = Append(loads, Waiting)
  BY DEF Open, server, Load
<1>2. PICK d \in Snapshot(b, size) : queue' = d.queue /\ bytes' = d.bytes
  BY DEF Open, QueueOf
<1>3. revision' \in Nat /\ changed' \in [Part -> Nat]
  BY <1>1, BufferIs
<1>4. Good(b, revision') /\ ToSet(<<>>) = {} /\ <<>> \in Seq(Event)
  BY <1>3, EmptyIs, EmptySeq
<1>5. Good(d, revision') /\ \A o \in InSnapshot : \E m \in ToSet(d.queue) : Tells(m, o)
  BY <1>2, <1>3, <1>4, SnapshotEnters DEF Carries
<1>6. \A y \in ToSet(d.queue) : 0 <= y.revision
  BY <1>5, RevisionIn DEF Good
<1>7. InSnapshot \subseteq Part \X Nat /\ \A o \in InSnapshot : o[2] = revision'
  BY <1>3, SnapshotOwes
<1>8. Ordered'
  <2>1. Good([queue |-> queue', bytes |-> bytes'], revision')
    BY <1>2, <1>5 DEF Good
  <2>2. Sorted(<<>>)
    BY EmptySeq DEF Sorted
  <2>3. 0 <= revision' /\ revision' <= revision'
    BY <1>3
  <2>4. \A o \in owed' : o[2] <= revision'
    BY <1>1, <1>7, <2>3
  <2> QED
    BY <1>1, <1>2, <1>4, <1>6, <2>1, <2>2, <2>3, <2>4 DEF Ordered, Buffer, Good, Sorted
<1>9. NoSilentLoss'
  BY <1>1, <1>2, <1>5 DEF NoSilentLoss, Tells
<1>10. loads' \in Seq([Part -> Nat] \cup {Waiting})
  <2>1. loads \in Seq([Part -> Nat] \cup {Waiting})
    BY DEF LiveInv, TypeOK
  <2> QED
    BY <1>1, <2>1, AppendProperties
<1>11. queue' \in Seq(Event) /\ bytes' \in Nat
  BY <1>2, <1>5 DEF Good
<1>12. TypeOK'
  <2>1. revision' \in Nat /\ changed' \in [Part -> Nat] /\ sockets' \in Nat
    <3>1. sockets \in Nat
      BY DEF LiveInv, TypeOK
    <3> QED
      BY <1>1, <1>3, <3>1
  <2>2. wire' \in Seq(Event)
    BY <1>1, <1>4
  <2>3. shown' \in [Part -> Nat] /\ owed' \subseteq Part \X Nat
    BY <1>1, <1>7 DEF LiveInv, TypeOK
  <2>4. /\ open' \in BOOLEAN /\ flushing' \in BOOLEAN /\ timer' \in BOOLEAN
        /\ asked' \in Nat /\ seen' \in Nat
    BY <1>1
  <2> QED
    BY <1>10, <1>11, <2>1, <2>2, <2>3, <2>4 DEF TypeOK
<1>13. NoLostFlush'
  BY <1>1 DEF NoLostFlush
<1> QED
  BY <1>8, <1>9, <1>12, <1>13 DEF LiveInv

LEMMA CloseKeeps ==
  ASSUME LiveInv, Close
  PROVE  LiveInv'
<1>1. /\ revision' = revision /\ changed' = changed
      /\ open' = FALSE /\ sockets' = sockets /\ flushing' = FALSE /\ timer' = FALSE
      /\ wire' = <<>> /\ queue' = <<>> /\ bytes' = 0 /\ asked' = 0 /\ owed' = {}
      /\ seen' = seen /\ shown' = shown /\ loads' = loads
  BY DEF Close, server
<1>2. revision \in Nat
  BY BufferIs
<1>3. Good([queue |-> <<>>, bytes |-> 0], revision) /\ ToSet(<<>>) = {} /\ <<>> \in Seq(Event)
  BY <1>2, EmptyIs, EmptySeq
<1>4. Ordered'
  <2>1. Sorted(<<>>)
    BY EmptySeq DEF Sorted
  <2> QED
    BY <1>1, <1>3, <2>1 DEF LiveInv, Ordered, Buffer, Good, Sorted
<1>5. NoSilentLoss' /\ NoLostFlush'
  BY <1>1 DEF NoSilentLoss, NoLostFlush
<1>6. TypeOK'
  BY <1>1, <1>3 DEF LiveInv, TypeOK
<1> QED
  BY <1>4, <1>5, <1>6 DEF LiveInv

LEMMA ResyncAskedKeeps ==
  ASSUME LiveInv, NEW size \in Sizes, ResyncAsked(size)
  PROVE  LiveInv'
<1>1. /\ revision' = revision /\ changed' = changed
      /\ open' = open /\ sockets' = sockets /\ wire' = wire /\ asked' = asked - 1 /\ asked > 0
      /\ seen' = seen /\ owed' = owed \cup InSnapshot /\ shown' = shown /\ loads' = loads
      /\ Scheduled
  BY DEF ResyncAsked, server
<1>2. PICK d \in Snapshot(Buffer, size) : queue' = d.queue /\ bytes' = d.bytes
  BY DEF ResyncAsked, QueueOf, Buffer
<1>3. revision' \in Nat /\ changed' \in [Part -> Nat] /\ revision <= revision'
  BY <1>1, BufferIs
<1>4. Good(Buffer, revision')
  BY <1>1, BufferIs
<1>5. Carries(Buffer, d, InSnapshot, revision')
  BY <1>2, <1>3, <1>4, SnapshotEnters
<1>6. /\ Good(d, revision')
      /\ \A y \in ToSet(d.queue) : y \in ToSet(queue) \/ y.revision = revision'
      /\ \/ Resync(revision') \in ToSet(d.queue)
         \/ \A x \in ToSet(queue) : Critical(x) => x \in ToSet(d.queue)
      /\ \A o \in InSnapshot : \E m \in ToSet(d.queue) : Tells(m, o)
  BY <1>5 DEF Carries, Buffer
<1>7. InSnapshot \subseteq Part \X Nat /\ \A o \in InSnapshot : o[2] = revision'
  BY <1>3, SnapshotOwes
<1>8. Ordered'
  <2>1. \A o \in owed' : o \in owed \/ o[2] = revision'
    BY <1>1, <1>7
  <2> QED
    BY <1>1, <1>2, <1>3, <1>6, <2>1, Grows
<1>9. NoSilentLoss'
  <2> SUFFICES ASSUME open, NEW o \in owed \cup InSnapshot
               PROVE  \E m \in ToSet(wire) \cup ToSet(d.queue) : Tells(m, o)
    BY <1>1, <1>2 DEF NoSilentLoss, Tells
  <2>1. CASE o \in owed
    BY <1>3, <1>6, <2>1, StillTold
  <2>2. CASE o \in InSnapshot
    BY <1>6, <2>2
  <2> QED
    BY <2>1, <2>2
<1>10. queue' \in Seq(Event) /\ bytes' \in Nat
  BY <1>2, <1>6 DEF Good
<1>11. TypeOK'
  <2>1. asked' \in Nat
    BY <1>1 DEF LiveInv, TypeOK
  <2>2. owed' \subseteq Part \X Nat
    BY <1>1, <1>7, BufferIs
  <2> QED
    BY <1>1, <1>3, <1>10, <2>1, <2>2, ScheduleFlushes DEF LiveInv, TypeOK
<1> QED
  BY <1>1, <1>8, <1>9, <1>11, ScheduleFlushes DEF LiveInv

(* An event goes from the head of the queue to the wire.                    *)
LEMMA SendKeeps ==
  ASSUME LiveInv, Send, timer' = FALSE, UNCHANGED <<server, sockets, open, asked, client>>
  PROVE  LiveInv'
<1>1. /\ revision' = revision /\ changed' = changed
      /\ open' = open /\ sockets' = sockets /\ asked' = asked
      /\ seen' = seen /\ owed' = owed /\ shown' = shown /\ loads' = loads
  BY DEF server, client
<1>2. CASE queue = <<>>
  <2>1. flushing' = FALSE /\ queue' = queue /\ bytes' = bytes /\ wire' = wire
    BY <1>2 DEF Send
  <2>2. Ordered' /\ NoSilentLoss'
    BY <1>1, <2>1 DEF LiveInv, Ordered, Buffer, Good, Sorted, NoSilentLoss, Tells
  <2>3. TypeOK'
    BY <1>1, <2>1 DEF LiveInv, TypeOK
  <2>4. NoLostFlush'
    BY <1>2, <2>1 DEF NoLostFlush
  <2> QED
    BY <2>2, <2>3, <2>4 DEF LiveInv
<1>3. CASE queue # <<>>
  <2> DEFINE h == Head(queue)
             q == Tail(queue)
             w == Append(wire, h)
  <2>1. /\ flushing' = TRUE /\ wire' = w /\ queue' = q /\ bytes' = bytes - h.size
    BY <1>3 DEF Send
  <2>2. /\ queue \in Seq(Event) /\ wire \in Seq(Event) /\ revision \in Nat /\ seen \in Nat
        /\ Good(Buffer, revision) /\ Buffer.queue = queue /\ Buffer.bytes = bytes
    BY BufferIs
  <2>3. /\ h \in Event /\ q \in Seq(Event) /\ ToSet(queue) = {h} \cup ToSet(q)
        /\ Total(q) = Total(queue) - h.size /\ Total(q) \in Nat /\ Total(q) <= Total(queue)
        /\ Len(q) <= Len(queue)
        /\ Sorted(q) /\ \A x \in ToSet(q) : h.revision <= x.revision
    BY <1>3, <2>2, TailIs DEF Good
  <2> HIDE DEF h, q
  <2>4. \A x \in ToSet(wire) : /\ seen <= x.revision /\ x.revision <= revision
                               /\ \A y \in ToSet(queue) : x.revision <= y.revision
    BY DEF LiveInv, Ordered
  <2>5. w \in Seq(Event) /\ ToSet(w) = ToSet(wire) \cup {h} /\ Sorted(w)
    <3>1. \A x \in ToSet(wire) : x.revision <= h.revision
      BY <2>3, <2>4
    <3>2. Sorted(wire)
      BY DEF LiveInv, Ordered
    <3> QED
      BY <2>2, <2>3, <3>1, <3>2, AppendIs
  <2> HIDE DEF w
  <2>6. Good([queue |-> q, bytes |-> bytes - h.size], revision)
    <3> DEFINE by == bytes - h.size
    <3>1. by = Total(q) /\ by \in Nat /\ by <= MaxBytes
      <4>1. bytes = Total(queue) /\ bytes \in Nat /\ bytes <= MaxBytes /\ MaxBytes \in Nat
        BY <2>2, TransportAssumption DEF Good
      <4> QED
        BY <2>3, <4>1
    <3>2. Len(q) <= MaxMessages
      <4>1. Len(queue) <= MaxMessages /\ MaxMessages \in Nat /\ Len(queue) \in Nat /\ Len(q) \in Nat
        BY <2>2, <2>3, EventAt, TransportAssumption DEF Good
      <4> QED
        BY <2>3, <4>1
    <3>3. \A x \in ToSet(q) : x.revision <= revision /\ (Critical(x) => x.key = Nothing)
      BY <2>2, <2>3 DEF Good
    <3> HIDE DEF by
    <3>4. Good([queue |-> q, bytes |-> by], revision)
      BY <2>3, <3>1, <3>2, <3>3 DEF Good
    <3> QED
      BY <3>4 DEF by
  <2>7. h.revision <= revision /\ seen <= h.revision /\ \A y \in ToSet(q) : seen <= y.revision
    BY <2>2, <2>3 DEF Good, LiveInv, Ordered
  <2>8. \A x \in ToSet(w) : /\ seen <= x.revision /\ x.revision <= revision
                            /\ \A y \in ToSet(q) : x.revision <= y.revision
    BY <2>3, <2>4, <2>5, <2>7
  <2>9. seen <= revision /\ \A o \in owed : o[2] <= revision
    BY DEF LiveInv, Ordered
  <2>10. Ordered'
    <3>1. Good(Buffer, revision)'
      BY <1>1, <2>1, <2>6 DEF Buffer, Good, Sorted
    <3> QED
      BY <1>1, <2>1, <2>5, <2>7, <2>8, <2>9, <3>1 DEF Ordered, Sorted
  <2>11. NoSilentLoss'
    BY <1>1, <2>1, <2>3, <2>5 DEF LiveInv, NoSilentLoss, Tells
  <2>12. NoLostFlush'
    BY <2>1 DEF NoLostFlush
  <2>13. TypeOK'
    <3>1. bytes' \in Nat
      BY <2>1, <2>6 DEF Good
    <3> QED
      BY <1>1, <2>1, <2>3, <2>5, <3>1 DEF LiveInv, TypeOK
  <2> QED
    BY <2>10, <2>11, <2>12, <2>13 DEF LiveInv
<1> QED
  BY <1>2, <1>3

LEMMA FlushKeeps ==
  ASSUME LiveInv, FlushTimer \/ Sent \/ SentSlow
  PROVE  LiveInv'
<1>1. CASE FlushTimer
  <2>1. timer' = FALSE /\ UNCHANGED <<server, sockets, open, asked, client>>
    BY <1>1 DEF FlushTimer
  <2>2. ~ flushing
    BY <1>1 DEF FlushTimer, LiveInv, NoLostFlush
  <2>3. Send
    BY <1>1, <2>2 DEF FlushTimer
  <2> QED
    BY <2>1, <2>3, SendKeeps
<1>2. CASE Sent
  <2>1. timer' = timer /\ Send /\ UNCHANGED <<server, sockets, open, asked, client>>
    BY <1>2 DEF Sent
  <2>2. timer = FALSE
    BY <1>2 DEF Sent, LiveInv, NoLostFlush, TypeOK
  <2> QED
    BY <2>1, <2>2, SendKeeps
<1>3. CASE SentSlow
  <2>1. /\ revision' = revision /\ changed' = changed
        /\ open' = open /\ sockets' = sockets /\ asked' = asked
        /\ queue' = queue /\ bytes' = bytes /\ wire' = wire
        /\ seen' = seen /\ owed' = owed /\ shown' = shown /\ loads' = loads
        /\ flushing' = FALSE /\ timer' = TRUE
    BY <1>3 DEF SentSlow, server, client
  <2>2. Ordered' /\ NoSilentLoss'
    BY <2>1 DEF LiveInv, Ordered, Buffer, Good, Sorted, NoSilentLoss, Tells
  <2>3. TypeOK' /\ NoLostFlush'
    BY <2>1 DEF LiveInv, TypeOK, NoLostFlush
  <2> QED
    BY <2>2, <2>3 DEF LiveInv
<1> QED
  BY <1>1, <1>2, <1>3

(* Nothing that arrives is older than what was seen, so that the client     *)
(* discards no event, and is told of what each one is about.                *)
LEMMA ReceiveKeeps ==
  ASSUME LiveInv, Receive
  PROVE  LiveInv'
<1> DEFINE m == Head(wire)
           w == Tail(wire)
<1>1. /\ wire # <<>> /\ wire' = w
      /\ revision' = revision /\ changed' = changed
      /\ open' = open /\ sockets' = sockets
      /\ queue' = queue /\ bytes' = bytes /\ flushing' = flushing /\ timer' = timer
  BY DEF Receive, server, sending
<1>2. /\ queue \in Seq(Event) /\ wire \in Seq(Event) /\ revision \in Nat /\ seen \in Nat
      /\ owed \subseteq Part \X Nat
  BY BufferIs
<1>3. /\ m \in Event /\ w \in Seq(Event) /\ ToSet(wire) = {m} \cup ToSet(w)
      /\ Sorted(w) /\ \A x \in ToSet(w) : m.revision <= x.revision
  BY <1>1, <1>2, TailIs DEF LiveInv, Ordered
<1>4. m.revision \in Nat
  BY <1>3 DEF Event
<1>5. seen <= m.revision /\ m.revision <= revision
      /\ \A y \in ToSet(queue) : m.revision <= y.revision
  BY <1>3 DEF LiveInv, Ordered
<1>6. ~ (m.revision < seen)
  BY <1>2, <1>4, <1>5
<1>7. /\ seen' = m.revision
      /\ owed' = {o \in owed : ~ Tells(m, o)}
      /\ shown' = IF m.kind = "state" THEN [shown EXCEPT ![m.part] = m.version] ELSE shown
      /\ IF m.kind = "resync" THEN Load /\ asked' = asked + 1
         ELSE loads' = loads /\ asked' = asked
  BY <1>6 DEF Receive
<1> HIDE DEF m, w
<1>8. \A o \in owed' : o \in owed /\ ~ Tells(m, o)
  BY <1>7
<1>9. \A o \in owed' : o[2] <= revision
  BY <1>8 DEF LiveInv, Ordered
<1>10. Ordered'
  <2>1. Good(Buffer, revision)'
    BY <1>1 DEF LiveInv, Ordered, Buffer, Good, Sorted
  <2>2. \A x \in ToSet(w) : /\ m.revision <= x.revision /\ x.revision <= revision
                            /\ \A y \in ToSet(queue) : x.revision <= y.revision
    BY <1>3 DEF LiveInv, Ordered
  <2> QED
    BY <1>1, <1>3, <1>5, <1>7, <1>9, <2>1, <2>2 DEF Ordered, Sorted
<1>11. NoSilentLoss'
  <2> SUFFICES ASSUME open, NEW o \in owed'
               PROVE  \E x \in ToSet(w) \cup ToSet(queue) : Tells(x, o)
    BY <1>1 DEF NoSilentLoss, Tells
  <2>1. PICK x \in ToSet(wire) \cup ToSet(queue) : Tells(x, o)
    BY <1>8 DEF LiveInv, NoSilentLoss
  <2>2. x # m
    BY <1>8, <2>1
  <2> QED
    BY <1>3, <2>1, <2>2
<1>12. TypeOK'
  <2>1. owed' \subseteq Part \X Nat /\ seen' \in Nat /\ shown' \in [Part -> Nat]
    <3>1. m.version \in Nat /\ shown \in [Part -> Nat]
      BY <1>3 DEF LiveInv, TypeOK, Event
    <3>2. shown' \in [Part -> Nat]
      BY <1>7, <3>1
    <3> QED
      BY <1>2, <1>4, <1>7, <1>8, <3>2
  <2>2. loads' \in Seq([Part -> Nat] \cup {Waiting}) /\ asked' \in Nat
    <3>1. loads \in Seq([Part -> Nat] \cup {Waiting}) /\ asked \in Nat
      BY DEF LiveInv, TypeOK
    <3>2. Append(loads, Waiting) \in Seq([Part -> Nat] \cup {Waiting})
      BY <3>1, AppendProperties
    <3>3. CASE m.kind = "resync"
      <4>1. loads' = Append(loads, Waiting) /\ asked' = asked + 1
        BY <1>7, <3>3 DEF Load
      <4>2. asked + 1 \in Nat
        BY <3>1
      <4> QED
        BY <3>2, <4>1, <4>2
    <3>4. CASE m.kind # "resync"
      <4>1. loads' = loads /\ asked' = asked
        BY <1>7, <3>4
      <4> QED
        BY <3>1, <4>1
    <3> QED
      BY <3>3, <3>4
  <2> QED
    BY <1>1, <1>3, <2>1, <2>2 DEF LiveInv, TypeOK
<1>13. NoLostFlush'
  BY <1>1 DEF LiveInv, NoLostFlush
<1> QED
  BY <1>10, <1>11, <1>12, <1>13 DEF LiveInv

(* A reload changes what is shown, and nothing on the way.                  *)
LEMMA LoadKeeps ==
  ASSUME LiveInv, NEW i \in 1 .. MaxLoads, LoadServed(i) \/ LoadArrives(i) \/ LoadFails(i)
  PROVE  LiveInv'
<1>1. /\ revision' = revision /\ changed' = changed
      /\ open' = open /\ sockets' = sockets /\ asked' = asked
      /\ queue' = queue /\ bytes' = bytes /\ wire' = wire
      /\ flushing' = flushing /\ timer' = timer
      /\ seen' = seen /\ owed' = owed
  BY DEF LoadServed, LoadArrives, LoadFails, server, sending
<1>2. Ordered' /\ NoSilentLoss' /\ NoLostFlush'
  BY <1>1 DEF LiveInv, Ordered, Buffer, Good, Sorted, NoSilentLoss, Tells, NoLostFlush
<1>3. loads' \in Seq([Part -> Nat] \cup {Waiting}) /\ shown' \in [Part -> Nat]
  <2> DEFINE S == [Part -> Nat] \cup {Waiting}
  <2>1. loads \in Seq(S) /\ changed \in [Part -> Nat] /\ shown \in [Part -> Nat] /\ changed \in S
    BY DEF LiveInv, TypeOK
  <2>2. i \in DOMAIN loads
    BY DEF LoadServed, LoadArrives, LoadFails
  <2>3. CASE LoadServed(i)
    <3>1. loads' = [loads EXCEPT ![i] = changed] /\ shown' = shown
      BY <2>3 DEF LoadServed
    <3> HIDE DEF S
    <3>2. DOMAIN loads = 1 .. Len(loads) /\ loads \in [1 .. Len(loads) -> S] /\ Len(loads) \in Nat
      BY <2>1, LenProperties
    <3>3. loads' \in [1 .. Len(loads) -> S]
      BY <2>1, <3>1, <3>2
    <3>4. loads' \in Seq(S)
      BY <3>2, <3>3, IsASeq
    <3> QED
      BY <2>1, <3>1, <3>4 DEF S
  <2>4. CASE LoadArrives(i)
    <3>1. loads[i] # Waiting /\ shown' = loads[i] /\ loads' = RemoveAt(loads, i)
      BY <2>4 DEF LoadArrives
    <3>2. loads[i] \in S
      BY <2>1, <2>2, LenProperties
    <3>3. RemoveAt(loads, i) \in Seq(S)
      BY <2>1, <2>2, RemoveAtType
    <3> QED
      BY <3>1, <3>2, <3>3
  <2>5. CASE LoadFails(i)
    <3>1. shown' = shown /\ loads' = RemoveAt(loads, i)
      BY <2>5 DEF LoadFails
    <3>2. RemoveAt(loads, i) \in Seq(S)
      BY <2>1, <2>2, RemoveAtType
    <3> QED
      BY <2>1, <3>1, <3>2
  <2> QED
    BY <2>3, <2>4, <2>5
<1>4. TypeOK'
  BY <1>1, <1>3 DEF LiveInv, TypeOK
<1> QED
  BY <1>2, <1>4 DEF LiveInv

LEMMA NextKeeps ==
  ASSUME LiveInv, [Next]_vars
  PROVE  LiveInv'
<1>1. CASE UNCHANGED vars
  <2>1. /\ revision' = revision /\ changed' = changed
        /\ open' = open /\ sockets' = sockets /\ asked' = asked
        /\ queue' = queue /\ bytes' = bytes /\ wire' = wire
        /\ flushing' = flushing /\ timer' = timer
        /\ seen' = seen /\ owed' = owed /\ shown' = shown /\ loads' = loads
    BY <1>1 DEF vars, server, sending, client
  <2>2. TypeOK' /\ NoSilentLoss' /\ NoLostFlush'
    BY <2>1 DEF LiveInv, TypeOK, NoSilentLoss, Tells, NoLostFlush
  <2>3. Ordered'
    BY <2>1 DEF LiveInv, Ordered, Buffer, Good, Sorted
  <2> QED
    BY <2>2, <2>3 DEF LiveInv
<1>2. CASE Next
  BY <1>2, ChangeKeeps, OpenKeeps, ResyncAskedKeeps, TelemetryKeeps, FlushKeeps, ReceiveKeeps,
     CloseKeeps, LoadKeeps DEF Next
<1> QED
  BY <1>1, <1>2

-----------------------------------------------------------------------------
(* The theorems.                                                            *)

(* The inductive invariant holds in every state: revisions do not decrease  *)
(* from what the client has seen, over the wire and the queue, to the       *)
(* latest one; the queue is within its bounds with totalBytes the sum of    *)
(* its sizes; a control event has no coalescing key (liveTransport.ts       *)
(* 49-139).                                                                 *)
THEOREM LiveInvariant == Spec => []LiveInv
<1>1. Init => LiveInv
  <2> SUFFICES ASSUME Init PROVE LiveInv
    OBVIOUS
  <2>1. /\ Good([queue |-> <<>>, bytes |-> 0], 0) /\ ToSet(<<>>) = {}
        /\ <<>> \in Seq(Event) /\ <<>> \in Seq([Part -> Nat] \cup {Waiting}) /\ Sorted(<<>>)
    BY EmptyIs, EmptySeq DEF Sorted
  <2>2. TypeOK /\ NoSilentLoss /\ NoLostFlush
    BY <2>1 DEF Init, TypeOK, NoSilentLoss, NoLostFlush
  <2>3. Ordered
    BY <2>1 DEF Init, Ordered, Buffer
  <2> QED
    BY <2>2, <2>3 DEF LiveInv
<1>2. LiveInv /\ [Next]_vars => LiveInv'
  BY NextKeeps
<1> QED
  BY <1>1, <1>2, PTL DEF Spec

(* Every reachable state has its type.                                      *)
THEOREM TypeCorrect == Spec => []TypeOK
<1>1. LiveInv => TypeOK
  BY DEF LiveInv
<1> QED
  BY <1>1, LiveInvariant, PTL

(* The client discards nothing as old, whatever is coalesced, dropped or    *)
(* replaced by a resync (liveTransport.ts 49-89, App.tsx onmessage).        *)
THEOREM RevisionsCorrect == Spec => []RevisionsOrdered
<1>1. ASSUME LiveInv
      PROVE  RevisionsOrdered
  <2> DEFINE ahead == wire \o queue
  <2>1. /\ queue \in Seq(Event) /\ wire \in Seq(Event)
    BY <1>1, BufferIs
  <2>2. Len(queue) \in Nat /\ Len(wire) \in Nat
    BY <2>1, EventAt
  <2>3. /\ ahead \in Seq(Event) /\ Len(ahead) = Len(wire) + Len(queue)
        /\ \A i \in 1 .. Len(ahead) :
             ahead[i] = IF i <= Len(wire) THEN wire[i] ELSE queue[i - Len(wire)]
    BY <2>1, ConcatProperties
  <2> HIDE DEF ahead
  <2>4. DOMAIN ahead = 1 .. Len(ahead)
    BY <2>3, EventAt
  <2>5. ASSUME NEW i \in 1 .. Len(ahead)
        PROVE  \/ i <= Len(wire) /\ i \in 1 .. Len(wire) /\ ahead[i] = wire[i]
               \/ /\ ~ (i <= Len(wire)) /\ i - Len(wire) \in 1 .. Len(queue)
                  /\ ahead[i] = queue[i - Len(wire)]
    BY <2>2, <2>3
  <2>6. ASSUME NEW i \in 1 .. Len(ahead), NEW j \in 1 .. Len(ahead), i < j
        PROVE  ahead[i].revision <= ahead[j].revision
    <3>1. CASE i <= Len(wire) /\ j <= Len(wire)
      <4>1. /\ i \in 1 .. Len(wire) /\ j \in 1 .. Len(wire)
            /\ ahead[i] = wire[i] /\ ahead[j] = wire[j]
        BY <2>5, <3>1
      <4> QED
        BY <1>1, <2>6, <4>1 DEF LiveInv, Ordered, Sorted
    <3>2. CASE i <= Len(wire) /\ ~ (j <= Len(wire))
      <4>1. ahead[i] \in ToSet(wire) /\ ahead[j] \in ToSet(queue)
        BY <2>1, <2>5, <3>2, EventAt
      <4> QED
        BY <1>1, <4>1 DEF LiveInv, Ordered
    <3>3. CASE ~ (i <= Len(wire))
      <4>1. ~ (j <= Len(wire)) /\ i - Len(wire) < j - Len(wire)
        BY <2>2, <2>6, <3>3
      <4>2. /\ i - Len(wire) \in 1 .. Len(queue) /\ j - Len(wire) \in 1 .. Len(queue)
            /\ ahead[i] = queue[i - Len(wire)] /\ ahead[j] = queue[j - Len(wire)]
        BY <2>5, <3>3, <4>1
      <4> QED
        BY <1>1, <4>1, <4>2, BufferIs DEF Good, Sorted
    <3> QED
      BY <3>1, <3>2, <3>3
  <2>7. ASSUME NEW i \in 1 .. Len(ahead)
        PROVE  seen <= ahead[i].revision
    <3>1. ahead[i] \in ToSet(wire) \cup ToSet(queue)
      BY <2>1, <2>5, EventAt
    <3> QED
      BY <1>1, <3>1 DEF LiveInv, Ordered
  <2> QED
    BY <2>4, <2>6, <2>7 DEF RevisionsOrdered, ahead
<1> QED
  BY <1>1, LiveInvariant, PTL

(* Every control event queued for an open socket, of whatever part of the   *)
(* state, is on its way until the client gets it, or a resync made since    *)
(* is: no pressure on the queue loses one silently, and a later event does  *)
(* not make up for an earlier one (liveTransport.ts 49-109).                *)
THEOREM LossCorrect == Spec => []NoSilentLoss
<1>1. LiveInv => NoSilentLoss
  BY DEF LiveInv
<1> QED
  BY <1>1, LiveInvariant, PTL

(* The queue keeps within both of its bounds, and totalBytes is the sum of  *)
(* what it holds (liveTransport.ts 49-139).                                 *)
THEOREM BoundsCorrect == Spec => []QueueBounded
<1>1. LiveInv => QueueBounded
  BY DEF LiveInv, Ordered, Good, Buffer, QueueBounded
<1> QED
  BY <1>1, LiveInvariant, PTL

(* What is queued will be looked at, by one flusher at a time (index.ts,    *)
(* scheduleFlush and flushClient).                                          *)
THEOREM FlushCorrect == Spec => []NoLostFlush
<1>1. LiveInv => NoLostFlush
  BY DEF LiveInv
<1> QED
  BY <1>1, LiveInvariant, PTL

-----------------------------------------------------------------------------
(***************************************************************************)
(* OverviewEditor                                                          *)
(***************************************************************************)

(* Undo and redo as a walk along the lists of elements the user has made:   *)
(* the past is the piece of it that ends before the present list, the       *)
(* future is all that comes after.                                          *)

Walk(all, at, els, past, future, edits) ==
  /\ \E S : all \in Seq(S)
  /\ at \in 1 .. Len(all) /\ edits \in Nat /\ Len(all) - 1 <= edits
  /\ els = all[at]
  /\ future = SubSeq(all, at + 1, Len(all))
  /\ Len(past) \in 0 .. at - 1
  /\ past = SubSeq(all, at - Len(past), at - 1)
  /\ Len(past) = at - 1 \/ edits > HistoryLimit

LEMMA WalkStarts ==
  ASSUME NEW els, NEW edits \in Nat
  PROVE  Walk(<<els>>, 1, els, NoHistory.past, NoHistory.future, edits)
<1>1. <<els>> \in Seq({els}) /\ Len(<<els>>) = 1 /\ <<els>>[1] = els
  OBVIOUS
<1> DEFINE all == <<els>>
           none == <<>>
<1>2. SubSeq(all, 2, 1) = none /\ SubSeq(all, 1, 0) = none
  BY SubSeqEmpty
<1>3. Len(none) = 0 /\ NoHistory.past = none /\ NoHistory.future = none
  BY DEF NoHistory
<1>4. all \in Seq({els}) /\ Len(all) = 1 /\ all[1] = els
  BY <1>1
<1> HIDE DEF all, none
<1>5. Walk(all, 1, els, none, none, edits)
  BY <1>2, <1>3, <1>4 DEF Walk
<1> QED
  BY <1>3, <1>5 DEF all

LEMMA Piece ==
  ASSUME NEW S, NEW s \in Seq(S), NEW a \in 1 .. Len(s) + 1, NEW b \in a - 1 .. Len(s)
  PROVE  /\ SubSeq(s, a, b) \in Seq(S) /\ Len(SubSeq(s, a, b)) = b - a + 1
         /\ \A i \in 1 .. b - a + 1 : SubSeq(s, a, b)[i] = s[a + i - 1]
<1>1. \A i \in 1 .. Len(s) : s[i] \in S
  BY ElementOfSeq
<1> QED
  BY <1>1, SubSeqProperties, LenProperties

(* What is cut off a piece of the walk is another piece.                    *)
LEMMA PieceOfPiece ==
  ASSUME NEW S, NEW s \in Seq(S), NEW a \in 1 .. Len(s) + 1, NEW b \in a - 1 .. Len(s),
         NEW c \in a .. b + 1
  PROVE  /\ SubSeq(SubSeq(s, a, b), c - a + 1, b - a + 1) = SubSeq(s, c, b)
         /\ Len(SubSeq(s, a, b)) = b - a + 1
<1>1. Len(s) \in Nat
  BY LenProperties
<1>2. /\ c \in 1 .. Len(s) + 1 /\ b \in c - 1 .. Len(s)
      /\ a \in Nat /\ b \in Int /\ c \in Nat /\ a <= c /\ c <= b + 1
  BY <1>1
<1> DEFINE t == SubSeq(s, a, b)
           v == SubSeq(s, c, b)
           p == c - a + 1
           q == b - a + 1
<1>3. t \in Seq(S) /\ Len(t) = q /\ \A i \in 1 .. q : t[i] = s[a + i - 1]
  BY Piece
<1>4. v \in Seq(S) /\ Len(v) = b - c + 1 /\ \A i \in 1 .. b - c + 1 : v[i] = s[c + i - 1]
  BY <1>2, Piece
<1>5. p \in 1 .. q + 1 /\ q \in p - 1 .. q /\ q - p + 1 = b - c + 1
  BY <1>2
<1>6. \A i \in 1 .. b - c + 1 : p + i - 1 \in 1 .. q /\ a + (p + i - 1) - 1 = c + i - 1
  BY <1>2
<1> HIDE DEF t, v, p, q
<1> DEFINE u == SubSeq(t, p, q)
<1>7. /\ u \in Seq(S) /\ Len(u) = q - p + 1
      /\ \A i \in 1 .. q - p + 1 : u[i] = t[p + i - 1]
  BY <1>3, <1>5, Piece
<1> HIDE DEF u
<1>8. ASSUME NEW i \in 1 .. b - c + 1
      PROVE  u[i] = v[i]
  <2>1. u[i] = t[p + i - 1]
    BY <1>5, <1>7
  <2>2. t[p + i - 1] = s[a + (p + i - 1) - 1]
    BY <1>3, <1>6
  <2> QED
    BY <1>4, <1>6, <2>1, <2>2
<1>9. u = v
  <2>1. Len(u) = Len(v) /\ \A i \in 1 .. Len(u) : u[i] = v[i]
    BY <1>4, <1>5, <1>7, <1>8
  <2> QED
    BY <1>4, <1>7, <2>1, SeqEqual
<1> QED
  BY <1>3, <1>9 DEF u, v, t, p, q

(* One more element at the end of a piece.                                  *)
LEMMA PieceGrows ==
  ASSUME NEW S, NEW s \in Seq(S), NEW a \in 1 .. Len(s), NEW b \in a .. Len(s)
  PROVE  Append(SubSeq(s, a, b - 1), s[b]) = SubSeq(s, a, b)
<1>1. SubSeq(s, a, b) = SubSeq(s, a, b - 1) \o <<s[b]>>
  BY SubSeqRecursiveSecond
<1>2. \A i \in 1 .. Len(s) : s[i] \in S
  BY ElementOfSeq
<1>3. SubSeq(s, a, b - 1) \in Seq(S)
  BY <1>2, SubSeqProperties, LenProperties
<1>4. s[b] \in S
  BY <1>2
<1> QED
  BY <1>1, <1>3, <1>4, AppendIsConcat

(* An edit cuts what could be redone, and forgets at most what exceeds the  *)
(* limit.                                                                   *)
LEMMA WalkPushes ==
  ASSUME ElementsAssumption,
         NEW all, NEW at, NEW els, NEW past, NEW future, NEW edits,
         Walk(all, at, els, past, future, edits), NEW next,
         NEW history, history.past = past
  PROVE  Walk(Append(SubSeq(all, 1, at), next), at + 1, next,
              Pushed(history, els).past, Pushed(history, els).future, edits + 1)
<1> DEFINE k == Len(past)
<1>1. PICK R : all \in Seq(R)
  BY DEF Walk
<1> DEFINE S == R \cup {next}
<1>2. all \in Seq(S) /\ next \in S
  BY <1>1, SeqMonotonic
<1>3. /\ at \in 1 .. Len(all) /\ edits \in Nat /\ Len(all) - 1 <= edits /\ els = all[at]
      /\ k \in 0 .. at - 1 /\ past = SubSeq(all, at - k, at - 1)
      /\ k = at - 1 \/ edits > HistoryLimit
  BY DEF Walk
<1>4. Len(all) \in Nat /\ k \in Nat /\ at \in Nat
  BY <1>2, <1>3, LenProperties
<1> HIDE DEF k, S
<1> DEFINE cut == SubSeq(all, 1, at)
           new == Append(cut, next)
           longer == Append(past, els)
<1>5. \A i \in 1 .. Len(all) : all[i] \in S
  BY <1>2, ElementOfSeq
<1>6. cut \in Seq(S) /\ Len(cut) = at /\ \A i \in 1 .. at : cut[i] = all[i]
  BY <1>3, <1>4, <1>5, SubSeqProperties
<1> HIDE DEF cut
<1>7. /\ new \in Seq(S) /\ Len(new) = at + 1 /\ new[at + 1] = next
      /\ \A i \in 1 .. at : new[i] = all[i]
  BY <1>2, <1>6, AppendProperties
<1> HIDE DEF new
<1>8. longer = SubSeq(all, at - k, at)
  <2> DEFINE a == at - k
  <2>1. a \in 1 .. Len(all) /\ at \in a .. Len(all)
    BY <1>3, <1>4
  <2> HIDE DEF a
  <2>2. Append(SubSeq(all, a, at - 1), all[at]) = SubSeq(all, a, at)
    BY <1>2, <2>1, PieceGrows
  <2> QED
    BY <1>3, <2>2 DEF a
<1>9. \A a \in 1 .. at + 1 : SubSeq(new, a, at) = SubSeq(all, a, at)
  <2> SUFFICES ASSUME NEW a \in 1 .. at + 1
               PROVE  SubSeq(new, a, at) = SubSeq(all, a, at)
    OBVIOUS
  <2>1. /\ a \in 1 .. Len(new) + 1 /\ at \in a - 1 .. Len(new)
        /\ a \in 1 .. Len(all) + 1 /\ at \in a - 1 .. Len(all)
    BY <1>3, <1>4, <1>7
  <2> DEFINE u == SubSeq(new, a, at)
             v == SubSeq(all, a, at)
  <2>2. u \in Seq(S) /\ Len(u) = at - a + 1 /\ \A i \in 1 .. at - a + 1 : u[i] = new[a + i - 1]
    BY <1>7, <2>1, Piece
  <2>3. v \in Seq(S) /\ Len(v) = at - a + 1 /\ \A i \in 1 .. at - a + 1 : v[i] = all[a + i - 1]
    BY <1>2, <2>1, Piece
  <2>4. \A i \in 1 .. at - a + 1 : a + i - 1 \in 1 .. at
    BY <1>4
  <2> HIDE DEF u, v
  <2>5. \A i \in 1 .. Len(u) : u[i] = v[i]
    BY <1>7, <2>2, <2>3, <2>4
  <2>6. u = v
    BY <2>2, <2>3, <2>5, SeqEqual
  <2> QED
    BY <2>6 DEF u, v
<1>10. Len(longer) = k + 1
  <2> DEFINE a == at - k
  <2>1. a \in 1 .. Len(all) + 1 /\ at \in a - 1 .. Len(all) /\ at - a + 1 = k + 1
    BY <1>3, <1>4
  <2>2. longer = SubSeq(all, a, at)
    BY <1>8
  <2> HIDE DEF a, longer
  <2> QED
    BY <1>2, <2>1, <2>2, Piece
<1> HIDE DEF longer
<1> DEFINE kept == LastOf(longer, HistoryLimit)
<1> HIDE DEF kept
<1>11. HistoryLimit \in Nat \ {0}
  BY DEF ElementsAssumption
<1>12. ASSUME kept = SubSeq(new, (at + 1) - Len(kept), (at + 1) - 1),
              Len(kept) \in 0 .. (at + 1) - 1,
              Len(kept) = (at + 1) - 1 \/ edits + 1 > HistoryLimit
       PROVE  Walk(new, at + 1, next, Pushed(history, els).past, Pushed(history, els).future,
                   edits + 1)
  <2> DEFINE none == <<>>
  <2>1. Pushed(history, els).past = kept /\ Pushed(history, els).future = none
    BY DEF Pushed, kept, longer
  <2>2. SubSeq(new, (at + 1) + 1, Len(new)) = none
    BY <1>4, <1>7, SubSeqEmpty
  <2>3. Len(new) - 1 <= edits + 1 /\ at + 1 \in 1 .. Len(new) /\ edits + 1 \in Nat
    BY <1>3, <1>4, <1>7
  <2> HIDE DEF none
  <2> QED
    BY <1>7, <1>12, <2>1, <2>2, <2>3 DEF Walk
<1>13. CASE k + 1 > HistoryLimit
  <2>1. kept = SubSeq(longer, k + 1 - HistoryLimit + 1, k + 1)
    BY <1>4, <1>10, <1>11, <1>13 DEF LastOf, kept
  <2>2. kept = SubSeq(all, at - HistoryLimit + 1, at)
    <3> DEFINE a == at - k
               c == at - HistoryLimit + 1
    <3>1. a \in 1 .. Len(all) + 1 /\ at \in a - 1 .. Len(all) /\ c \in a .. at + 1
      BY <1>3, <1>4, <1>11, <1>13
    <3>2. c - a + 1 = k + 1 - HistoryLimit + 1 /\ at - a + 1 = k + 1
      BY <1>4, <1>11
    <3> HIDE DEF a, c
    <3>3. SubSeq(SubSeq(all, a, at), c - a + 1, at - a + 1) = SubSeq(all, c, at)
      BY <1>2, <3>1, PieceOfPiece
    <3> QED
      BY <1>8, <2>1, <3>2, <3>3 DEF a, c
  <2>3. Len(kept) = HistoryLimit /\ HistoryLimit \in 0 .. at
    <3> DEFINE c == at - HistoryLimit + 1
    <3>1. c \in 1 .. Len(all) + 1 /\ at \in c - 1 .. Len(all) /\ c \in c .. at + 1
      BY <1>3, <1>4, <1>11, <1>13
    <3> HIDE DEF c
    <3>2. Len(SubSeq(all, c, at)) = at - c + 1
      BY <1>2, <3>1, PieceOfPiece
    <3> QED
      BY <1>3, <1>4, <1>11, <1>13, <2>2, <3>2 DEF c
  <2>4. kept = SubSeq(new, at - HistoryLimit + 1, at)
    <3>1. at - HistoryLimit + 1 \in 1 .. at + 1
      BY <1>4, <1>11, <2>3
    <3> QED
      BY <1>9, <2>2, <3>1
  <2>5. edits + 1 > HistoryLimit
    BY <1>3, <1>4, <1>11, <1>13
  <2>6. at + 1 - Len(kept) = at - HistoryLimit + 1
    BY <1>4, <1>11, <2>3
  <2>7. kept = SubSeq(new, (at + 1) - Len(kept), (at + 1) - 1) /\ Len(kept) \in 0 .. (at + 1) - 1
    BY <1>4, <2>3, <2>4, <2>6
  <2> QED
    BY <1>12, <2>5, <2>7 DEF new, cut
<1>14. CASE ~(k + 1 > HistoryLimit)
  <2>1. kept = longer
    BY <1>10, <1>14 DEF LastOf, kept
  <2>2. kept = SubSeq(new, at - k, at)
    <3>1. at - k \in 1 .. at + 1
      BY <1>3, <1>4
    <3> QED
      BY <1>8, <1>9, <2>1, <3>1
  <2>3. at + 1 - Len(kept) = at - k /\ Len(kept) \in 0 .. at
    <3>1. Len(kept) = k + 1
      BY <1>10, <2>1
    <3> QED
      BY <1>3, <1>4, <3>1
  <2>4. kept = SubSeq(new, (at + 1) - Len(kept), (at + 1) - 1) /\ Len(kept) \in 0 .. (at + 1) - 1
    BY <1>4, <2>2, <2>3
  <2>5. Len(kept) = (at + 1) - 1 \/ edits + 1 > HistoryLimit
    <3>1. Len(kept) = k + 1
      BY <1>10, <2>1
    <3> QED
      BY <1>3, <1>4, <1>11, <3>1
  <2> QED
    BY <1>12, <2>4, <2>5 DEF new, cut
<1> QED
  BY <1>13, <1>14

LEMMA WalkUndoes ==
  ASSUME NEW all, NEW at, NEW els, NEW past, NEW future, NEW edits,
         Walk(all, at, els, past, future, edits), past # <<>>,
         NEW history, history.past = past, history.future = future
  PROVE  Walk(all, at - 1, Last(past), Undone(history, els).past, Undone(history, els).future,
              edits)
<1> DEFINE k == Len(past)
           before == Front(past)
           after == <<els>> \o future
<1>1. PICK S : all \in Seq(S)
  BY DEF Walk
<1>2. /\ at \in 1 .. Len(all) /\ edits \in Nat /\ Len(all) - 1 <= edits /\ els = all[at]
      /\ k \in 0 .. at - 1 /\ past = SubSeq(all, at - k, at - 1)
      /\ future = SubSeq(all, at + 1, Len(all))
      /\ k = at - 1 \/ edits > HistoryLimit
  BY DEF Walk
<1>3. Len(all) \in Nat /\ k \in Nat /\ at \in Nat
  BY <1>1, <1>2, LenProperties
<1>4. \A i \in 1 .. Len(all) : all[i] \in S
  BY <1>1, ElementOfSeq
<1>5. k >= 1
  <2> SUFFICES ASSUME k = 0
               PROVE  FALSE
    BY <1>3
  <2>1. past = <<>>
    BY <1>2, <1>3, SubSeqEmpty
  <2> QED
    BY <2>1
<1> HIDE DEF k
<1> DEFINE a == at - k
           b == at - 1
<1>6. a \in 1 .. Len(all) /\ b \in a .. Len(all) /\ b - a + 1 = k /\ a \in Nat /\ b \in Nat /\ b - 1 \in Int
  BY <1>2, <1>3, <1>5
<1>7. past = SubSeq(all, a, b) /\ Len(past) = k
  BY <1>2 DEF k
<1> HIDE DEF a, b
<1>8. /\ past \in Seq(S)
      /\ \A i \in 1 .. k : past[i] = all[a + i - 1]
  BY <1>4, <1>6, <1>7, SubSeqProperties
<1>9. Last(past) = all[b]
  BY <1>3, <1>5, <1>6, <1>7, <1>8 DEF Last
<1>10. before = SubSeq(all, a, b - 1) /\ Len(before) = k - 1
  <2> DEFINE v == SubSeq(all, a, b - 1)
  <2>1. v \in Seq(S) /\ Len(v) = k - 1 /\ \A i \in 1 .. k - 1 : v[i] = all[a + i - 1]
    <3>1. \A i \in a .. b - 1 : all[i] \in S
      BY <1>4, <1>6
    <3>2. /\ v \in Seq(S) /\ Len(v) = (IF a <= b - 1 THEN b - 1 - a + 1 ELSE 0)
          /\ \A i \in 1 .. b - 1 - a + 1 : v[i] = all[a + i - 1]
      BY <1>6, <3>1, SubSeqProperties
    <3>3. b - 1 - a + 1 = k - 1 /\ (a <= b - 1 <=> k - 1 >= 1)
      BY <1>3, <1>6
    <3> QED
      BY <1>3, <1>5, <3>2, <3>3
  <2> HIDE DEF v
  <2>2. Append(v, all[b]) = past
    BY <1>1, <1>6, <1>7, PieceGrows DEF v
  <2>3. all[b] \in S
    BY <1>4, <1>6
  <2>4. \A i \in 1 .. k - 1 : past[i] = v[i]
    BY <1>3, <1>8, <2>1
  <2>5. \A i \in 1 .. k - 1 : past[i] \in S
    <3>1. \A i \in 1 .. Len(past) : past[i] \in S
      BY <1>8, ElementOfSeq
    <3>2. Len(past) = k /\ \A i \in 1 .. k - 1 : i \in 1 .. k
      BY <1>3, <1>7
    <3> QED
      BY <3>1, <3>2
  <2>6. /\ before \in Seq(S) /\ Len(before) = k - 1
        /\ \A i \in 1 .. k - 1 : before[i] = past[i]
    <3>1. before = SubSeq(past, 1, k - 1)
      BY <1>7 DEF Front
    <3>2. /\ SubSeq(past, 1, k - 1) \in Seq(S)
          /\ Len(SubSeq(past, 1, k - 1)) = (IF 1 <= k - 1 THEN k - 1 - 1 + 1 ELSE 0)
          /\ \A i \in 1 .. k - 1 - 1 + 1 : SubSeq(past, 1, k - 1)[i] = past[1 + i - 1]
      BY <1>3, <2>5, SubSeqProperties
    <3> HIDE DEF before
    <3> QED
      BY <1>3, <1>5, <3>1, <3>2
  <2>7. \A i \in 1 .. Len(before) : before[i] = v[i]
    BY <2>4, <2>6
  <2>8. before = v
    BY <2>1, <2>6, <2>7, SeqEqual
  <2> QED
    BY <2>1, <2>8 DEF v
<1>11. after = SubSeq(all, at, Len(all))
  <2>1. at \in 1 .. Len(all) /\ Len(all) \in at .. Len(all)
    BY <1>2, <1>3
  <2> QED
    BY <1>1, <1>2, <2>1, SubSeqRecursiveFirst
<1>12. Undone(history, els).past = before /\ Undone(history, els).future = after
  BY DEF Undone
<1> HIDE DEF before, after
<1>13. /\ at - 1 \in 1 .. Len(all) /\ all[at - 1] = all[b] /\ (at - 1) + 1 = at
       /\ Len(before) \in 0 .. (at - 1) - 1
       /\ (at - 1) - Len(before) = a /\ (at - 1) - 1 = b - 1
       /\ Len(before) = (at - 1) - 1 \/ edits > HistoryLimit
  BY <1>2, <1>3, <1>5, <1>10 DEF a, b
<1> QED
  BY <1>1, <1>2, <1>9, <1>10, <1>11, <1>12, <1>13 DEF Walk

LEMMA WalkRedoes ==
  ASSUME NEW all, NEW at, NEW els, NEW past, NEW future, NEW edits,
         Walk(all, at, els, past, future, edits), future # <<>>,
         NEW history, history.past = past, history.future = future
  PROVE  Walk(all, at + 1, Head(future), Redone(history, els).past, Redone(history, els).future,
              edits)
<1> DEFINE k == Len(past)
           before == Append(past, els)
           after == Tail(future)
<1>1. PICK S : all \in Seq(S)
  BY DEF Walk
<1>2. /\ at \in 1 .. Len(all) /\ edits \in Nat /\ Len(all) - 1 <= edits /\ els = all[at]
      /\ k \in 0 .. at - 1 /\ past = SubSeq(all, at - k, at - 1)
      /\ future = SubSeq(all, at + 1, Len(all))
      /\ k = at - 1 \/ edits > HistoryLimit
  BY DEF Walk
<1>3. Len(all) \in Nat /\ k \in Nat /\ at \in Nat
  BY <1>1, <1>2, LenProperties
<1>4. at < Len(all)
  <2> SUFFICES ASSUME at = Len(all)
               PROVE  FALSE
    BY <1>2, <1>3
  <2> QED
    BY <1>2, <1>3, SubSeqEmpty
<1>5. at + 1 \in 1 .. Len(all) /\ Len(all) \in at + 1 .. Len(all)
  BY <1>3, <1>4
<1>6. Head(future) = all[at + 1] /\ after = SubSeq(all, (at + 1) + 1, Len(all))
  BY <1>1, <1>2, <1>5, HeadTailOfSubSeq
<1> HIDE DEF k
<1> DEFINE a == at - k
<1>7. a \in 1 .. Len(all) /\ at \in a .. Len(all) /\ a \in Nat
  <2>1. at \in 1 .. Len(all) /\ k \in 0 .. at - 1
    BY <1>2
  <2> QED
    BY <1>3, <2>1
<1>8. past = SubSeq(all, a, at - 1) /\ Len(past) = k
  BY <1>2 DEF k
<1>9. at - a + 1 = k + 1
  BY <1>3
<1> HIDE DEF a
<1>10. before = SubSeq(all, a, at)
  BY <1>1, <1>2, <1>7, <1>8, PieceGrows
<1>11. Len(before) = k + 1
  <2>1. a \in 1 .. Len(all) + 1 /\ at \in a - 1 .. Len(all) /\ a \in a .. at + 1
    BY <1>3, <1>7
  <2>2. Len(SubSeq(all, a, at)) = at - a + 1
    BY <1>1, <2>1, PieceOfPiece
  <2> QED
    BY <1>9, <1>10, <2>2
<1>12. Redone(history, els).past = before /\ Redone(history, els).future = after
  BY DEF Redone
<1> HIDE DEF before, after
<1>13. /\ (at + 1) - 1 = at /\ (at + 1) - Len(before) = a
       /\ Len(before) \in 0 .. (at + 1) - 1
       /\ Len(before) = (at + 1) - 1 \/ edits > HistoryLimit
  BY <1>2, <1>3, <1>11 DEF a
<1> QED
  BY <1>1, <1>2, <1>5, <1>6, <1>10, <1>12, <1>13 DEF Walk

(* More edits elsewhere do not make a walk less of one.                     *)
LEMMA WalkStays ==
  ASSUME ElementsAssumption,
         NEW all, NEW at, NEW els, NEW past, NEW future, NEW edits, NEW more \in Nat,
         Walk(all, at, els, past, future, edits), edits <= more
  PROVE  Walk(all, at, els, past, future, more)
<1>1. PICK S : all \in Seq(S)
  BY DEF Walk
<1>2. edits \in Nat /\ Len(all) \in Nat /\ Len(all) - 1 <= edits /\ HistoryLimit \in Nat
  BY <1>1, LenProperties DEF Walk, ElementsAssumption
<1>3. Len(all) - 1 <= more /\ (edits > HistoryLimit => more > HistoryLimit)
  BY <1>2
<1> QED
  BY <1>2, <1>3 DEF Walk

(* A walk has the parts that the property names.                            *)
LEMMA WalkMeans ==
  ASSUME NEW all, NEW at, NEW els, NEW past, NEW future, NEW edits,
         Walk(all, at, els, past, future, edits)
  PROVE  /\ els = all[at]
         /\ future = SubSeq(all, at + 1, Len(all))
         /\ past = LastOf(SubSeq(all, 1, at - 1), Len(past))
         /\ Len(past) = at - 1 \/ edits > HistoryLimit
<1> DEFINE k == Len(past)
           front == SubSeq(all, 1, at - 1)
<1>1. PICK S : all \in Seq(S)
  BY DEF Walk
<1>2. /\ at \in 1 .. Len(all) /\ els = all[at]
      /\ k \in 0 .. at - 1 /\ past = SubSeq(all, at - k, at - 1)
      /\ future = SubSeq(all, at + 1, Len(all))
      /\ k = at - 1 \/ edits > HistoryLimit
  BY DEF Walk
<1>3. Len(all) \in Nat /\ k \in Nat /\ at \in Nat
  BY <1>1, <1>2, LenProperties
<1> HIDE DEF k
<1> DEFINE b == at - 1
           c == at - k
<1>4. 1 \in 1 .. Len(all) + 1 /\ b \in 1 - 1 .. Len(all) /\ c \in 1 .. b + 1 /\ b \in Nat /\ c \in Nat
  BY <1>2, <1>3
<1>5. b - c + 1 = k
  BY <1>3
<1>6. past = SubSeq(all, c, b) /\ front = SubSeq(all, 1, b)
  BY <1>2
<1> HIDE DEF b, c, front
<1>7. SubSeq(front, c - 1 + 1, b - 1 + 1) = past /\ Len(front) = b - 1 + 1
  BY <1>1, <1>4, <1>6, PieceOfPiece
<1>8. c - 1 + 1 = b - k + 1 /\ b - 1 + 1 = b
  BY <1>3, <1>4, <1>5
<1>9. SubSeq(front, Len(front) - k + 1, Len(front)) = past /\ Len(front) = b
  BY <1>7, <1>8
<1>10. past = LastOf(front, k)
  <2>1. CASE b > k
    BY <1>9, <2>1 DEF LastOf
  <2>2. CASE ~(b > k)
    <3>1. b = k /\ c = 1
      BY <1>2, <1>3, <2>2 DEF b, c
    <3> QED
      BY <1>6, <1>9, <2>2, <3>1 DEF LastOf
  <2> QED
    BY <2>1, <2>2
<1> QED
  BY <1>2, <1>10 DEF front, k

-----------------------------------------------------------------------------
(* The inductive invariant.                                                 *)

Fields == {"page", "active", "mode", "state", "base", "draft", "history", "gesture",
           "dialog", "pending", "target", "view", "listed", "token", "loading"}
PageFields == {"id", "name", "els", "layer", "vp", "rev"}
MessageFields == {"op", "page", "body", "token", "waiting", "answer", "by"}

IsPage(page) == DOMAIN page = PageFields /\ page.rev \in Nat

(* The variables are the records they are meant to be.                      *)
Shape ==
  /\ DOMAIN ui = Fields
  /\ ui.mode \in {"VIEW", "EDIT"}
  /\ ui.draft # None => IsPage(ui.draft)
  /\ trail = [all |-> trail.all, at |-> trail.at]
  /\ spent \in [edits : Nat, requests : Nat, timeouts : Nat, others : Nat]

(* A page of the stored is filed under its ID, which was used before.       *)
Filed(stored, ids) ==
  /\ DOMAIN stored \subseteq ids
  /\ \A p \in DOMAIN stored : IsPage(stored[p]) /\ stored[p].id = p

(* A record the stored once had: what it has now is newer, unless it is     *)
(* this one.                                                                *)
Original(page, stored, ids) ==
  /\ IsPage(page) /\ page.id \in ids
  /\ page.id \in DOMAIN stored =>
       /\ page.rev <= stored[page.id].rev
       /\ page.rev = stored[page.id].rev => page = stored[page.id]

(* Whatever record the client holds as its own is one the stored once had,  *)
(* and its draft is of the page of its baseline.                            *)
Held ==
  /\ ui.active # None => Original(ui.active, pages, known)
  /\ ui.base # None => Original(ui.base, pages, known)
  /\ ui.draft # None /\ ui.base # None => ui.draft.id = ui.base.id

(* So is a record on its way to the client, and the baseline of a save.     *)
PageAnswers == {"put", "open", "switch", "load", "create", "duplicate", "rename"}
Message(m, stored, ids) ==
  /\ DOMAIN m = MessageFields /\ m.waiting \in BOOLEAN
  /\ m.op \in PageAnswers \cup {"list", "delete"}
  /\ m.op = "put" =>
       /\ Original(m.body.base, stored, ids) /\ m.body.base.id = m.page
       /\ IsPage(m.body.draft) /\ m.body.draft.id = m.page
  /\ m.answer # None /\ m.answer.ok /\ m.op \in PageAnswers =>
       Original(m.answer.page, stored, ids)
Messages == \A m \in net : Message(m, pages, known)

(* One request of a dialog is waited for at a time, under that dialog, and  *)
(* one about pages in VIEW.                                                 *)
Crud == {"create", "rename", "duplicate", "delete"}
Modal(m) == m.waiting /\ m.op \in Crud \cup {"put"}
Dialogs ==
  /\ \A m \in net : Modal(m) =>
       /\ ui.pending
       /\ m.op = "put" => ui.dialog = "save"
       /\ m.op \in Crud => ui.dialog = "page" /\ ui.mode = "VIEW"
  /\ \A m, k \in net : Modal(m) /\ Modal(k) => m = k

(* The draft is a point of the walk; in VIEW there is nothing to undo.      *)
Walks ==
  /\ ui.draft # None =>
       Walk(trail.all, trail.at, ui.draft.els, ui.history.past, ui.history.future, spent.edits)
  /\ ui.mode = "VIEW" => ui.history = NoHistory

IInv ==
  Shape /\ Filed(pages, known) /\ Held /\ Messages /\ Dialogs /\ Walks /\ SavedMeansSaved

-----------------------------------------------------------------------------
(* The pages of the stored.                                                 *)

(* What may happen to them: a page keeps its record or gets a newer one, is *)
(* deleted, or is new under an ID that was never used.                      *)
Advances(stored, ids, after, more) ==
  /\ ids \subseteq more
  /\ \A p \in DOMAIN after :
       \/ p \in DOMAIN stored /\ (after[p] = stored[p] \/ after[p].rev > stored[p].rev)
       \/ p \notin ids

LEMMA OriginalKept ==
  ASSUME NEW stored, NEW ids, NEW after, NEW more,
         Filed(stored, ids), Filed(after, more), Advances(stored, ids, after, more),
         NEW page, Original(page, stored, ids)
  PROVE  Original(page, after, more)
<1>1. IsPage(page) /\ page.id \in more /\ page.rev \in Nat
  BY DEF Original, Advances, IsPage
<1>2. ASSUME page.id \in DOMAIN after
      PROVE  /\ page.rev <= after[page.id].rev
             /\ page.rev = after[page.id].rev => page = after[page.id]
  <2> DEFINE p == page.id
  <2>1. /\ p \in DOMAIN stored
        /\ after[p] = stored[p] \/ after[p].rev > stored[p].rev
    BY <1>2 DEF Advances, Original
  <2>2. stored[p].rev \in Nat /\ after[p].rev \in Nat
    BY <1>2, <2>1 DEF Filed, IsPage
  <2>3. /\ page.rev <= stored[p].rev
        /\ page.rev = stored[p].rev => page = stored[p]
    BY <2>1 DEF Original
  <2> QED
    BY <1>1, <2>1, <2>2, <2>3
<1> QED
  BY <1>1, <1>2 DEF Original

LEMMA MessageKept ==
  ASSUME NEW stored, NEW ids, NEW after, NEW more,
         Filed(stored, ids), Filed(after, more), Advances(stored, ids, after, more),
         NEW m, Message(m, stored, ids)
  PROVE  Message(m, after, more)
BY OriginalKept DEF Message

(* A page is stored: with a new revision, or as a new page.                 *)
LEMMA PutFine ==
  ASSUME Filed(pages, known), NEW p, NEW page, IsPage(page), page.id = p,
         \/ p \in DOMAIN pages /\ page.rev > pages[p].rev
         \/ p \notin known
  PROVE  LET after == Put(p, page)
             more == known \cup DOMAIN after
         IN  /\ Filed(after, more) /\ Advances(pages, known, after, more)
             /\ Original(page, after, more)
<1> DEFINE after == Put(p, page)
           more == known \cup DOMAIN after
<1>1. DOMAIN after = DOMAIN pages \cup {p}
  BY DEF Put
<1>2. after[p] = page /\ \A q \in DOMAIN pages : q # p => after[q] = pages[q]
  BY DEF Put
<1> HIDE DEF after
<1>3. Filed(after, more)
  BY <1>1, <1>2 DEF Filed
<1>4. Advances(pages, known, after, more)
  BY <1>1, <1>2 DEF Advances
<1>5. Original(page, after, more)
  BY <1>1, <1>2 DEF Original, IsPage
<1> QED
  BY <1>3, <1>4, <1>5 DEF after

LEMMA NoChange ==
  ASSUME Filed(pages, known)
  PROVE  /\ known \cup DOMAIN pages = known
         /\ Advances(pages, known, pages, known)
BY DEF Filed, Advances

LEMMA DeleteFine ==
  ASSUME Filed(pages, known), NEW p
  PROVE  LET after == [q \in DOMAIN pages \ {p} |-> pages[q]]
         IN  /\ known \cup DOMAIN after = known
             /\ Filed(after, known) /\ Advances(pages, known, after, known)
BY DEF Filed, Advances

LEMMA Stored1 ==
  ASSUME Filed(pages, known), NEW p \in DOMAIN pages
  PROVE  Original(pages[p], pages, known)
BY DEF Filed, Original, IsPage

(* A request carried out: the pages go on, and the answer is of them.       *)
LEMMA ServesFine ==
  ASSUME Shape, Filed(pages, known), Messages, NEW m \in net, NEW answer, NEW after,
         Serves(m, answer, after),
         Filed(after, known \cup DOMAIN after),
         Advances(pages, known, after, known \cup DOMAIN after),
         answer.ok /\ m.op \in PageAnswers =>
           Original(answer.page, after, known \cup DOMAIN after)
  PROVE  /\ Filed(pages', known') /\ Advances(pages, known, pages', known')
         /\ Messages'
<1>1. /\ pages' = after /\ known' = known \cup DOMAIN after
      /\ net' = (net \ {m}) \cup (IF m.waiting THEN {[m EXCEPT !.answer = answer]} ELSE {})
  BY DEF Serves
<1>2. \A k \in net : Message(k, pages', known')
  BY <1>1, MessageKept DEF Messages
<1>3. Message([m EXCEPT !.answer = answer], pages', known')
  <2> DEFINE k == [m EXCEPT !.answer = answer]
  <2>1. Message(m, pages', known')
    BY <1>2
  <2>2. /\ DOMAIN k = MessageFields /\ k.waiting = m.waiting /\ k.op = m.op
        /\ k.body = m.body /\ k.page = m.page /\ k.answer = answer
    BY <2>1 DEF Message, MessageFields
  <2>3. answer.ok /\ m.op \in PageAnswers => Original(answer.page, pages', known')
    BY <1>1
  <2> HIDE DEF k
  <2> QED
    BY <2>1, <2>2, <2>3 DEF Message
<1>4. \A k \in net' : Message(k, pages', known')
  BY <1>1, <1>2, <1>3
<1> QED
  BY <1>1, <1>4 DEF Messages

(* A PUT is carried out only against the revision of its baseline, and that *)
(* is the page it was made from.                                            *)
LEMMA UpdateFine ==
  ASSUME Shape, Filed(pages, known), Messages, NEW m \in net, m.op = "put", Update(m)
  PROVE  /\ Filed(pages', known') /\ Advances(pages, known, pages', known') /\ Messages'
         /\ pages' # pages => m.page \in DOMAIN pages /\ pages[m.page] = m.body.base
<1>1. /\ IsPage(m.body.draft) /\ m.body.draft.id = m.page /\ m.body.base.id = m.page
      /\ Original(m.body.base, pages, known)
  BY DEF Messages, Message
<1>2. ~Failed.ok /\ ~Conflict.ok
  BY DEF Failed, Conflict
<1>3. ASSUME NEW answer, ~answer.ok, Serves(m, answer, pages)
      PROVE  /\ Filed(pages', known') /\ Advances(pages, known, pages', known') /\ Messages'
             /\ pages' = pages
  <2>1. Filed(pages, known \cup DOMAIN pages) /\ Advances(pages, known, pages, known \cup DOMAIN pages)
    BY NoChange
  <2>2. pages' = pages
    BY <1>3 DEF Serves
  <2> QED
    BY <1>3, <2>1, <2>2, ServesFine
<1>4. CASE m.page \notin DOMAIN pages
  BY <1>2, <1>3, <1>4 DEF Update
<1>5. CASE m.page \in DOMAIN pages /\ ~Accepts(m)
  BY <1>2, <1>3, <1>5 DEF Update
<1>6. CASE m.page \in DOMAIN pages /\ Accepts(m)
  <2> DEFINE page == m.body.draft
             new == [page EXCEPT !.rev = pages[m.page].rev + 1]
             after == Put(m.page, new)
             more == known \cup DOMAIN after
  <2>1. \/ Serves(m, Failed, pages)
        \/ Serves(m, Answer(new), after)
    BY <1>6 DEF Update
  <2>2. pages[m.page].rev \in Nat
    BY <1>6 DEF Filed, IsPage
  <2>3. IsPage(new) /\ new.id = m.page /\ new.rev > pages[m.page].rev
    BY <1>1, <2>2 DEF IsPage, PageFields
  <2>4. Answer(new).page = new
    BY DEF Answer
  <2> HIDE DEF new
  <2>5. Filed(after, more) /\ Advances(pages, known, after, more) /\ Original(new, after, more)
    BY <1>6, <2>3, PutFine
  <2>6. pages[m.page] = m.body.base
    BY <1>1, <1>6 DEF Accepts, Original
  <2> HIDE DEF after
  <2>7. CASE Serves(m, Answer(new), after)
    BY <1>6, <2>4, <2>5, <2>6, <2>7, ServesFine
  <2>8. CASE Serves(m, Failed, pages)
    BY <1>2, <1>3, <2>8
  <2> QED
    BY <2>1, <2>7, <2>8
<1> QED
  BY <1>4, <1>5, <1>6

(* A copy is a page of its own.                                             *)
LEMMA CopiesFine ==
  ASSUME NEW page, IsPage(page), NEW id, NEW copy \in Copies(page, id)
  PROVE  IsPage(copy) /\ copy.id = id
<1>1. PICK f : copy = [page EXCEPT !.id = id, !.rev = 1,
                         !.els = [i \in DOMAIN page.els |-> [page.els[i] EXCEPT !.id = f[@]]],
                         !.layer = [i \in DOMAIN page.layer |-> f[page.layer[i]]]]
  BY DEF Copies
<1> QED
  BY <1>1 DEF IsPage, PageFields

LEMMA EmptyFine ==
  ASSUME NEW id, NEW name
  PROVE  IsPage(Empty(id, name)) /\ Empty(id, name).id = id
BY DEF Empty, IsPage, PageFields

LEMMA BumpedFine ==
  ASSUME NEW page, IsPage(page)
  PROVE  IsPage(Bumped(page)) /\ Bumped(page).id = page.id /\ Bumped(page).rev > page.rev
BY DEF Bumped, IsPage, PageFields

(* An answer that changes no page, and one with the page it has stored.     *)
LEMMA AnswerFine ==
  ASSUME Shape, Filed(pages, known), Messages, NEW m \in net, NEW answer,
         Serves(m, answer, pages),
         answer.ok /\ m.op \in PageAnswers => Original(answer.page, pages, known)
  PROVE  Filed(pages', known') /\ Advances(pages, known, pages', known') /\ Messages'
<1>1. known \cup DOMAIN pages = known /\ Advances(pages, known, pages, known)
  BY NoChange
<1> QED
  BY <1>1, ServesFine

LEMMA FailedFine ==
  ASSUME Shape, Filed(pages, known), Messages, NEW m \in net, Serves(m, Failed, pages)
  PROVE  Filed(pages', known') /\ Advances(pages, known, pages', known') /\ Messages'
<1>1. ~Failed.ok
  BY DEF Failed
<1> DEFINE answer == Failed
<1>2. Serves(m, answer, pages) /\ ~answer.ok
  BY <1>1
<1> HIDE DEF answer
<1> QED
  BY <1>2, AnswerFine

LEMMA StoreFine ==
  ASSUME Shape, Filed(pages, known), Messages, NEW m \in net, NEW p, NEW page,
         IsPage(page), page.id = p,
         \/ p \in DOMAIN pages /\ page.rev > pages[p].rev
         \/ p \notin known,
         Serves(m, Answer(page), Put(p, page))
  PROVE  Filed(pages', known') /\ Advances(pages, known, pages', known') /\ Messages'
<1> DEFINE after == Put(p, page)
           more == known \cup DOMAIN after
           answer == Answer(page)
<1>1. Filed(after, more) /\ Advances(pages, known, after, more) /\ Original(page, after, more)
  BY PutFine
<1>2. Serves(m, answer, after) /\ answer.page = page
  BY DEF Answer
<1> HIDE DEF after, answer
<1> QED
  BY <1>1, <1>2, ServesFine

LEMMA ServeFine ==
  ASSUME Shape, Filed(pages, known), Messages, Serve
  PROVE  Filed(pages', known') /\ Advances(pages, known, pages', known') /\ Messages'
<1> DEFINE Fine == Filed(pages', known') /\ Advances(pages, known, pages', known') /\ Messages'
<1>0. PICK m \in net :
        /\ m.answer = None /\ UNCHANGED <<ui, trail, abandoned, spent>>
        /\ \/ m.op = "put" /\ Update(m)
           \/ m.op = "list" /\ Serves(m, Answer([p \in DOMAIN pages |-> pages[p].name]), pages)
           \/ /\ m.op \in {"open", "switch", "load"}
              /\ Serves(m, IF m.page \in DOMAIN pages THEN Answer(pages[m.page]) ELSE Failed, pages)
           \/ /\ m.op = "create"
              /\ \/ Serves(m, Failed, pages)
                 \/ \E p \in PageIds :
                      /\ NewPage(p) /\ ~Taken(m.body, None)
                      /\ Serves(m, Answer(Empty(p, m.body)), Put(p, Empty(p, m.body)))
           \/ /\ m.op = "rename"
              /\ IF m.page \notin DOMAIN pages \/ Taken(m.body, m.page) THEN Serves(m, Failed, pages)
                 ELSE LET page == Bumped([pages[m.page] EXCEPT !.name = m.body])
                      IN  Serves(m, Answer(page), Put(m.page, page))
           \/ /\ m.op = "duplicate"
              /\ \/ Serves(m, Failed, pages)
                 \/ \E p \in PageIds, n \in Names :
                      /\ m.page \in DOMAIN pages /\ NewPage(p) /\ ~Taken(n, None)
                      /\ \E copy \in Copies([pages[m.page] EXCEPT !.name = n], p) :
                           Serves(m, Answer(copy), Put(p, copy))
           \/ /\ m.op = "delete"
              /\ IF m.page \notin DOMAIN pages \/ Cardinality(DOMAIN pages) = 1
                 THEN Serves(m, Failed, pages)
                 ELSE Serves(m, Answer(None), [q \in DOMAIN pages \ {m.page} |-> pages[q]])
  BY DEF Serve
<1>1. \A page : Answer(page).page = page
  BY DEF Answer
<1> SUFFICES Fine
  OBVIOUS
<1>5. CASE m.op = "put" /\ Update(m)
  BY <1>5, UpdateFine
<1>6. CASE m.op = "list" /\ Serves(m, Answer([p \in DOMAIN pages |-> pages[p].name]), pages)
  <2> DEFINE answer == Answer([p \in DOMAIN pages |-> pages[p].name])
  <2>1. Serves(m, answer, pages) /\ m.op \notin PageAnswers
    BY <1>6 DEF PageAnswers
  <2> HIDE DEF answer
  <2> QED
    BY <2>1, AnswerFine
<1>7. CASE /\ m.op \in {"open", "switch", "load"}
           /\ Serves(m, IF m.page \in DOMAIN pages THEN Answer(pages[m.page]) ELSE Failed, pages)
  <2>1. CASE m.page \in DOMAIN pages
    <3> DEFINE answer == Answer(pages[m.page])
    <3>1. Serves(m, answer, pages) /\ Original(answer.page, pages, known)
      BY <1>1, <1>7, <2>1, Stored1
    <3> HIDE DEF answer
    <3> QED
      BY <3>1, AnswerFine
  <2>2. CASE m.page \notin DOMAIN pages
    BY <1>7, <2>2, FailedFine
  <2> QED
    BY <2>1, <2>2
<1>8. CASE /\ m.op = "create"
           /\ \/ Serves(m, Failed, pages)
              \/ \E p \in PageIds :
                   /\ NewPage(p) /\ ~Taken(m.body, None)
                   /\ Serves(m, Answer(Empty(p, m.body)), Put(p, Empty(p, m.body)))
  <2>1. ASSUME NEW p \in PageIds, NewPage(p),
               Serves(m, Answer(Empty(p, m.body)), Put(p, Empty(p, m.body)))
        PROVE  Fine
    <3>1. p \notin known
      BY <2>1 DEF NewPage
    <3> QED
      BY <2>1, <3>1, EmptyFine, StoreFine
  <2> QED
    BY <1>8, <2>1, FailedFine
<1>9. CASE /\ m.op = "rename"
           /\ IF m.page \notin DOMAIN pages \/ Taken(m.body, m.page) THEN Serves(m, Failed, pages)
              ELSE LET page == Bumped([pages[m.page] EXCEPT !.name = m.body])
                   IN  Serves(m, Answer(page), Put(m.page, page))
  <2> DEFINE old == [pages[m.page] EXCEPT !.name = m.body]
             page == Bumped(old)
  <2>1. CASE m.page \in DOMAIN pages /\ ~Taken(m.body, m.page)
    <3>1. IsPage(old) /\ old.id = m.page /\ old.rev = pages[m.page].rev
      BY <2>1 DEF Filed, IsPage, PageFields
    <3>2. IsPage(page) /\ page.id = m.page /\ page.rev > pages[m.page].rev
      BY <3>1, BumpedFine
    <3>3. Serves(m, Answer(page), Put(m.page, page))
      BY <1>9, <2>1
    <3> HIDE DEF page
    <3> QED
      BY <2>1, <3>2, <3>3, StoreFine
  <2>2. CASE ~(m.page \in DOMAIN pages /\ ~Taken(m.body, m.page))
    BY <1>9, <2>2, FailedFine
  <2> QED
    BY <2>1, <2>2
<1>10. CASE /\ m.op = "duplicate"
            /\ \/ Serves(m, Failed, pages)
               \/ \E p \in PageIds, n \in Names :
                    /\ m.page \in DOMAIN pages /\ NewPage(p) /\ ~Taken(n, None)
                    /\ \E copy \in Copies([pages[m.page] EXCEPT !.name = n], p) :
                         Serves(m, Answer(copy), Put(p, copy))
  <2>1. ASSUME NEW p \in PageIds, NEW n \in Names, m.page \in DOMAIN pages, NewPage(p),
               NEW copy \in Copies([pages[m.page] EXCEPT !.name = n], p),
               Serves(m, Answer(copy), Put(p, copy))
        PROVE  Fine
    <3>1. IsPage([pages[m.page] EXCEPT !.name = n])
      BY <2>1 DEF Filed, IsPage, PageFields
    <3>2. IsPage(copy) /\ copy.id = p /\ p \notin known
      BY <2>1, <3>1, CopiesFine DEF NewPage
    <3> QED
      BY <2>1, <3>2, StoreFine
  <2> QED
    BY <1>10, <2>1, FailedFine
<1>11. CASE /\ m.op = "delete"
            /\ IF m.page \notin DOMAIN pages \/ Cardinality(DOMAIN pages) = 1
               THEN Serves(m, Failed, pages)
               ELSE Serves(m, Answer(None), [q \in DOMAIN pages \ {m.page} |-> pages[q]])
  <2> DEFINE after == [q \in DOMAIN pages \ {m.page} |-> pages[q]]
             answer == Answer(None)
  <2>1. /\ known \cup DOMAIN after = known
        /\ Filed(after, known) /\ Advances(pages, known, after, known)
    BY DeleteFine
  <2>2. Serves(m, Failed, pages) \/ Serves(m, answer, after)
    BY <1>11
  <2>3. m.op \notin PageAnswers
    BY <1>11 DEF PageAnswers
  <2> HIDE DEF after, answer
  <2>4. CASE Serves(m, answer, after)
    BY <2>1, <2>3, <2>4, ServesFine
  <2> QED
    BY <2>2, <2>4, FailedFine
<1> QED
  BY <1>0, <1>5, <1>6, <1>7, <1>8, <1>9, <1>10, <1>11

LEMMA OtherPut ==
  ASSUME Filed(pages, known), NEW p \in DOMAIN pages, NEW old, IsPage(old), old.id = p,
         old.rev = pages[p].rev, pages' = Put(p, Bumped(old)), known' = known
  PROVE  Filed(pages', known') /\ Advances(pages, known, pages', known')
<1> DEFINE page == Bumped(old)
           after == Put(p, page)
           more == known \cup DOMAIN after
<1>1. IsPage(page) /\ page.id = p /\ page.rev > pages[p].rev
  BY BumpedFine
<1>2. pages' = after
  OBVIOUS
<1> HIDE DEF page
<1>3. Filed(after, more) /\ Advances(pages, known, after, more)
  BY <1>1, PutFine
<1>4. more = known
  BY DEF Filed, Put
<1> HIDE DEF after, more
<1> QED
  BY <1>2, <1>3, <1>4

LEMMA OthersFine ==
  ASSUME Shape, Filed(pages, known), Messages, OtherClient
  PROVE  Filed(pages', known') /\ Advances(pages, known, pages', known') /\ Messages'
<1>1. PICK p \in DOMAIN pages :
        /\ \/ pages' = Put(p, Bumped([pages[p] EXCEPT !.els = <<>>, !.layer = <<>>]))
           \/ \E n \in Names : ~Taken(n, p) /\ pages' = Put(p, Bumped([pages[p] EXCEPT !.name = n]))
           \/ Cardinality(DOMAIN pages) > 1 /\ pages' = [q \in DOMAIN pages \ {p} |-> pages[q]]
        /\ UNCHANGED <<known, net>>
  BY DEF OtherClient
<1> DEFINE Fine == Filed(pages', known') /\ Advances(pages, known, pages', known')
<1>2. Fine => Messages'
  <2> SUFFICES ASSUME Fine, NEW k \in net'
               PROVE  Message(k, pages', known')
    BY DEF Messages
  <2> QED
    BY <1>1, MessageKept DEF Messages
<1>3. SUFFICES Fine
  BY <1>2
<1>4. CASE pages' = Put(p, Bumped([pages[p] EXCEPT !.els = <<>>, !.layer = <<>>]))
  <2> DEFINE old == [pages[p] EXCEPT !.els = <<>>, !.layer = <<>>]
  <2>1. IsPage(old) /\ old.id = p /\ old.rev = pages[p].rev
    BY DEF Filed, IsPage, PageFields
  <2>2. pages' = Put(p, Bumped(old))
    BY <1>4
  <2> HIDE DEF old
  <2> QED
    BY <1>1, <2>1, <2>2, OtherPut
<1>5. CASE \E n \in Names : ~Taken(n, p) /\ pages' = Put(p, Bumped([pages[p] EXCEPT !.name = n]))
  <2> PICK n \in Names : pages' = Put(p, Bumped([pages[p] EXCEPT !.name = n]))
    BY <1>5
  <2> DEFINE old == [pages[p] EXCEPT !.name = n]
  <2>1. IsPage(old) /\ old.id = p /\ old.rev = pages[p].rev
    BY DEF Filed, IsPage, PageFields
  <2>2. pages' = Put(p, Bumped(old))
    OBVIOUS
  <2> HIDE DEF old
  <2> QED
    BY <1>1, <2>1, <2>2, OtherPut
<1>6. CASE pages' = [q \in DOMAIN pages \ {p} |-> pages[q]]
  <2> DEFINE after == [q \in DOMAIN pages \ {p} |-> pages[q]]
  <2>1. Filed(after, known) /\ Advances(pages, known, after, known)
    BY DeleteFine
  <2>2. pages' = after
    BY <1>6
  <2> HIDE DEF after
  <2> QED
    BY <1>1, <2>1, <2>2
<1> QED
  BY <1>1, <1>4, <1>5, <1>6

-----------------------------------------------------------------------------
(* The steps of the client, as far as the drafts go.                        *)

(* The fields stay what they are, and edits are only ever added.            *)
Frame ==
  /\ DOMAIN ui' = Fields /\ ui'.mode \in {"VIEW", "EDIT"}
  /\ trail' = [all |-> trail'.all, at |-> trail'.at]
  /\ spent' \in [edits : Nat, requests : Nat, timeouts : Nat, others : Nat]

(* The draft gets other elements.                                           *)
Redrawn(els) ==
  /\ Editing /\ ui'.mode = ui.mode /\ ui'.active = ui.active /\ ui'.base = ui.base
  /\ ui'.draft = [ui.draft EXCEPT !.els = els, !.layer = LayerOrder(els)]
  /\ ui'.state = "SAVED" => ui'.draft = ui'.base

Edited(els) ==
  /\ Redrawn(els) /\ spent'.edits = spent.edits + 1
  /\ ui'.history = Pushed(ui.history, ui.draft.els)
  /\ trail'.all = Append(SubSeq(trail.all, 1, trail.at), els) /\ trail'.at = trail.at + 1

WalkedBack ==
  /\ ui.history.past # <<>> /\ Redrawn(Last(ui.history.past))
  /\ ui'.history = Undone(ui.history, ui.draft.els)
  /\ trail'.all = trail.all /\ trail'.at = trail.at - 1 /\ spent' = spent

WalkedOn ==
  /\ ui.history.future # <<>> /\ Redrawn(Head(ui.history.future))
  /\ ui'.history = Redone(ui.history, ui.draft.els)
  /\ trail'.all = trail.all /\ trail'.at = trail.at + 1 /\ spent' = spent

(* A session starts, or ends, with a record of the stored or with none.     *)
Restarts(page) ==
  /\ ui'.draft = page /\ ui'.base = page /\ ui'.active \in {page, ui.active}
  /\ ui'.history = NoHistory /\ spent' = spent
  /\ page # None => trail' = TrailOf(page) /\ Original(page, pages, known)

(* The draft, its history and its baseline are left alone.                  *)
Keeps ==
  /\ ui'.draft = ui.draft /\ ui'.base = ui.base /\ ui'.active = ui.active
  /\ ui'.history = ui.history /\ ui'.mode = ui.mode /\ trail' = trail
  /\ spent.edits <= spent'.edits
  /\ ui'.mode = "EDIT" /\ ui'.state = "SAVED" /\ ~abandoned' =>
       ui.state = "SAVED" /\ ~abandoned

ClientStep ==
  Frame /\ ((\E els : Edited(els)) \/ WalkedBack \/ WalkedOn \/ (\E page : Restarts(page)) \/ Keeps)

LEMMA RedrawnFine ==
  ASSUME IInv, NEW els, Redrawn(els)
  PROVE  /\ IsPage(ui'.draft) /\ ui'.draft.els = els /\ ui'.draft.id = ui.draft.id
         /\ ui'.mode = "EDIT"
         /\ SavedMeansSaved'
<1>1. ui.mode = "EDIT" /\ IsPage(ui.draft)
  BY DEF Redrawn, Editing, IInv, Shape
<1>2. IsPage(ui'.draft) /\ ui'.draft.els = els /\ ui'.draft.id = ui.draft.id
  BY <1>1 DEF Redrawn, IsPage, PageFields
<1>3. SavedMeansSaved'
  BY DEF Redrawn, SavedMeansSaved
<1> QED
  BY <1>1, <1>2, <1>3 DEF Redrawn

(* So the invariant holds of what the client has after such a step,         *)
(* whatever pages the stored has then.                                      *)
LEMMA ClientFine ==
  ASSUME ElementsAssumption, IInv, ClientStep, pages' = pages, known' = known
  PROVE  Shape' /\ Held' /\ Walks' /\ SavedMeansSaved'
<1> USE DEF IInv
<1>1. spent.edits \in Nat /\ spent'.edits \in Nat /\ Frame
  BY DEF ClientStep, Shape, Frame
<1>2. \A page : Original(page, pages, known) => IsPage(page)
  BY DEF Original
<1>3. CASE \E els : Edited(els)
  <2> PICK els : Edited(els)
    BY <1>3
  <2>1. Redrawn(els)
    BY DEF Edited
  <2>2. /\ IsPage(ui'.draft) /\ ui'.draft.els = els /\ ui'.draft.id = ui.draft.id
        /\ ui'.mode = "EDIT" /\ SavedMeansSaved'
    BY <2>1, RedrawnFine
  <2>3. Shape'
    BY <1>1, <2>2 DEF Frame, Shape
  <2>4. Held'
    BY <2>1, <2>2 DEF Redrawn, Held, Editing
  <2>5. Walk(trail.all, trail.at, ui.draft.els, ui.history.past, ui.history.future, spent.edits)
    BY <2>1 DEF Redrawn, Editing, Walks
  <2>6. Walk(trail'.all, trail'.at, els, ui'.history.past, ui'.history.future, spent'.edits)
    BY <2>5, WalkPushes DEF Edited
  <2> QED
    BY <2>2, <2>3, <2>4, <2>6 DEF Walks
<1>4. CASE WalkedBack
  <2> DEFINE els == Last(ui.history.past)
  <2>1. Redrawn(els)
    BY <1>4 DEF WalkedBack
  <2>2. /\ IsPage(ui'.draft) /\ ui'.draft.els = els /\ ui'.draft.id = ui.draft.id
        /\ ui'.mode = "EDIT" /\ SavedMeansSaved'
    BY <2>1, RedrawnFine
  <2>3. Shape'
    BY <1>1, <2>2 DEF Frame, Shape
  <2>4. Held'
    BY <2>1, <2>2 DEF Redrawn, Held, Editing
  <2>5. Walk(trail.all, trail.at, ui.draft.els, ui.history.past, ui.history.future, spent.edits)
    BY <2>1 DEF Redrawn, Editing, Walks
  <2>6. Walk(trail'.all, trail'.at, els, ui'.history.past, ui'.history.future, spent'.edits)
    BY <1>4, <2>5, WalkUndoes DEF WalkedBack
  <2> HIDE DEF els
  <2> QED
    BY <2>2, <2>3, <2>4, <2>6 DEF Walks
<1>5. CASE WalkedOn
  <2> DEFINE els == Head(ui.history.future)
  <2>1. Redrawn(els)
    BY <1>5 DEF WalkedOn
  <2>2. /\ IsPage(ui'.draft) /\ ui'.draft.els = els /\ ui'.draft.id = ui.draft.id
        /\ ui'.mode = "EDIT" /\ SavedMeansSaved'
    BY <2>1, RedrawnFine
  <2>3. Shape'
    BY <1>1, <2>2 DEF Frame, Shape
  <2>4. Held'
    BY <2>1, <2>2 DEF Redrawn, Held, Editing
  <2>5. Walk(trail.all, trail.at, ui.draft.els, ui.history.past, ui.history.future, spent.edits)
    BY <2>1 DEF Redrawn, Editing, Walks
  <2>6. Walk(trail'.all, trail'.at, els, ui'.history.past, ui'.history.future, spent'.edits)
    BY <1>5, <2>5, WalkRedoes DEF WalkedOn
  <2> HIDE DEF els
  <2> QED
    BY <2>2, <2>3, <2>4, <2>6 DEF Walks
<1>6. CASE \E page : Restarts(page)
  <2> PICK page : Restarts(page)
    BY <1>6
  <2>1. ui'.draft = page /\ ui'.base = page /\ ui'.history = NoHistory /\ spent' = spent
    BY DEF Restarts
  <2>2. page # None => Original(page, pages, known) /\ trail' = TrailOf(page)
    BY DEF Restarts
  <2>3. Shape'
    BY <1>1, <1>2, <2>1, <2>2 DEF Frame, Shape
  <2>4. Held'
    BY <2>1, <2>2 DEF Restarts, Held
  <2>5. page # None => Walk(trail'.all, trail'.at, page.els, NoHistory.past, NoHistory.future,
                            spent'.edits)
    BY <1>1, <2>2, WalkStarts DEF TrailOf
  <2>6. Walks'
    BY <2>1, <2>5 DEF Walks
  <2> QED
    BY <2>1, <2>3, <2>4, <2>6 DEF SavedMeansSaved
<1>7. CASE Keeps
  <2>1. Shape'
    BY <1>1, <1>7 DEF Keeps, Frame, Shape
  <2>2. Held'
    BY <1>7 DEF Keeps, Held
  <2>3. ui.draft # None =>
          Walk(trail.all, trail.at, ui.draft.els, ui.history.past, ui.history.future, spent'.edits)
    BY <1>1, <1>7, WalkStays DEF Keeps, Walks
  <2>4. Walks'
    BY <1>7, <2>3 DEF Keeps, Walks
  <2> QED
    BY <1>7, <2>1, <2>2, <2>4 DEF Keeps, SavedMeansSaved
<1> QED
  BY <1>3, <1>4, <1>5, <1>6, <1>7 DEF ClientStep

-----------------------------------------------------------------------------
(* The handlers of the client.                                              *)

(* No request of a dialog is sent; the dialogs stand, or none is waited for.*)
Quiet ==
  /\ \A m \in net' : Modal(m) => m \in net
  /\ \/ ui'.pending = ui.pending /\ ui'.dialog = ui.dialog /\ ui'.mode \in {ui.mode, "VIEW"}
     \/ \A m \in net' : ~Modal(m)

NoModal == \A m \in net : ~Modal(m)

LEMMA QuietFine ==
  ASSUME Dialogs, Quiet
  PROVE  Dialogs'
<1>1. CASE \A m \in net' : ~Modal(m)
  BY <1>1 DEF Dialogs
<1>2. CASE ui'.pending = ui.pending /\ ui'.dialog = ui.dialog /\ ui'.mode \in {ui.mode, "VIEW"}
  <2>1. \A m \in net' : Modal(m) => m \in net
    BY DEF Quiet
  <2> QED
    BY <1>2, <2>1 DEF Dialogs
<1> QED
  BY <1>1, <1>2 DEF Quiet

LEMMA NothingWaited ==
  ASSUME Dialogs, ~ui.pending \/ ui.dialog \notin {"save", "page"}
  PROVE  NoModal
BY DEF Dialogs, NoModal, Modal

LEMMA FreeWaits ==
  ASSUME EditorAssumption, Dialogs, ui.dialog = None
  PROVE  NoModal
BY NothingWaited DEF EditorAssumption

(* What a handler does besides: it changes no page, and what it sends is a  *)
(* message.                                                                 *)
Besides ==
  /\ pages' = pages /\ known' = known
  /\ \A m \in net' : Message(m, pages, known)
  /\ Dialogs'

LEMMA StillFits ==
  ASSUME IInv, pages' = pages, known' = known, net' \subseteq net, Quiet
  PROVE  Besides
BY QuietFine DEF IInv, Messages, Besides

(* The elements of the draft are edited.                                    *)
LEMMA MutatedStep ==
  ASSUME IInv, NEW els, Mutates(els), DOMAIN ui' = Fields,
         ui'.mode = ui.mode, ui'.active = ui.active, ui'.base = ui.base,
         ui'.draft = Mutated(els).draft, ui'.state = Mutated(els).state,
         ui'.history = Mutated(els).history
  PROVE  ClientStep
<1>1. /\ Mutated(els).draft = [ui.draft EXCEPT !.els = els, !.layer = LayerOrder(els)]
      /\ Mutated(els).state = "SAVED" => Mutated(els).draft = ui.base
      /\ Mutated(els).history = Pushed(ui.history, ui.draft.els)
  BY DEF IInv, Shape, Fields, Mutated, applyOverviewDraftPatch, overviewDraftMatchesBaseline
<1>2. Editing /\ spent' = [spent EXCEPT !["edits"] = @ + 1]
  BY DEF Mutates, Spend
<1>3. /\ spent' \in [edits : Nat, requests : Nat, timeouts : Nat, others : Nat]
      /\ spent'.edits = spent.edits + 1
  BY <1>2 DEF IInv, Shape
<1>4. /\ trail' = [all |-> trail'.all, at |-> trail'.at]
      /\ trail'.all = Append(SubSeq(trail.all, 1, trail.at), els) /\ trail'.at = trail.at + 1
  BY DEF Mutates
<1>5. Frame
  BY <1>3, <1>4 DEF Frame, IInv, Shape
<1>6. Edited(els)
  BY <1>1, <1>2, <1>3, <1>4 DEF Edited, Redrawn
<1> QED
  BY <1>5, <1>6 DEF ClientStep

LEMMA MutatedFields ==
  ASSUME IInv, NEW els
  PROVE  /\ DOMAIN Mutated(els) = Fields
         /\ Mutated(els).mode = ui.mode /\ Mutated(els).active = ui.active
         /\ Mutated(els).base = ui.base /\ Mutated(els).pending = ui.pending
         /\ Mutated(els).dialog = ui.dialog
BY DEF IInv, Shape, Fields, Mutated, applyOverviewDraftPatch

LEMMA MutatedFine ==
  ASSUME IInv, NEW els, Mutates(els), ui' = Mutated(els)
  PROVE  ClientStep /\ Besides
<1>1. ClientStep
  BY MutatedStep, MutatedFields
<1>2. pages' = pages /\ known' = known /\ net' = net
  BY DEF Mutates
<1>3. Quiet
  BY <1>2, MutatedFields DEF Quiet
<1> QED
  BY <1>1, <1>2, <1>3, StillFits

(* Nothing of the session is touched.                                       *)
LEMMA KeepsStep ==
  ASSUME IInv, Keeps, DOMAIN ui' = Fields,
         \/ spent' = spent
         \/ \E what \in {"edits", "requests", "timeouts"} : Spend(what)
  PROVE  ClientStep
<1>1. spent' \in [edits : Nat, requests : Nat, timeouts : Nat, others : Nat]
  BY DEF IInv, Shape, Spend
<1>2. Frame
  BY <1>1 DEF Frame, Keeps, IInv, Shape
<1> QED
  BY <1>2 DEF ClientStep

LEMMA EditFine ==
  ASSUME IInv, Edit
  PROVE  ClientStep /\ Besides
<1> DEFINE Fine == ClientStep /\ Besides
<1>0. SUFFICES Fine
  OBVIOUS
<1>1. ASSUME NEW els, Mutates(els) /\ ui' = Mutated(els)
      PROVE  Fine
  BY <1>1, MutatedFine
<1>2. ASSUME Keeps, DOMAIN ui' = Fields, ui'.pending = ui.pending,
             UNCHANGED <<pages, known, net, spent>>,
             ui'.dialog = ui.dialog \/ NoModal
      PROVE  Fine
  <2>1. Quiet
    BY <1>2 DEF Quiet, NoModal, Keeps
  <2> QED
    BY <1>2, <2>1, KeepsStep, StillFits
<1>3. ASSUME NEW els, NEW history,
             ui' = Restored(els, history), Editing,
             UNCHANGED <<pages, known, net, spent>>
      PROVE  /\ Redrawn(els) /\ ui'.history = history /\ DOMAIN ui' = Fields
             /\ Besides
  <2>1. /\ Redrawn(els) /\ ui'.history = history /\ DOMAIN ui' = Fields
        /\ ui'.pending = ui.pending /\ ui'.dialog = ui.dialog /\ ui'.mode = ui.mode
    BY <1>3 DEF IInv, Shape, Fields, Restored, Redrawn, applyOverviewDraftPatch,
                overviewDraftMatchesBaseline
  <2>2. Quiet
    BY <1>3, <2>1 DEF Quiet
  <2> QED
    BY <1>3, <2>1, <2>2, StillFits
<1>4. ASSUME Add \/ Move \/ Patch \/ Toggle \/ Layer \/ Duplicate
      PROVE  \E els : Mutates(els) /\ ui' = Mutated(els)
  <2>1. CASE Add
    BY <2>1 DEF Add
  <2>2. CASE Move
    BY <2>2 DEF Move
  <2>3. CASE Patch
    BY <2>3 DEF Patch
  <2>4. CASE Toggle
    BY <2>4 DEF Toggle
  <2>5. CASE Layer
    BY <2>5 DEF Layer
  <2>6. CASE Duplicate
    BY <2>6 DEF Duplicate
  <2> QED
    BY <1>4, <2>1, <2>2, <2>3, <2>4, <2>5, <2>6
<1>5. CASE AskDelete
  <2>1. /\ Free /\ UNCHANGED <<pages, known, net, trail, abandoned, spent>>
        /\ \E id : ui' = [ui EXCEPT !.dialog = "element", !.target = id]
    BY <1>5 DEF AskDelete
  <2>2. Keeps /\ DOMAIN ui' = Fields /\ ui'.pending = ui.pending
    BY <2>1 DEF IInv, Shape, Fields, Keeps
  <2>3. NoModal
    BY <2>1, FreeWaits, EditorAssumption DEF IInv, Free
  <2> QED
    BY <1>2, <2>1, <2>2, <2>3
<1>6. CASE ResizeMove
  <2>1. /\ UNCHANGED <<pages, known, net, trail, abandoned, spent>>
        /\ \E gesture : ui' = [ui EXCEPT !.gesture = gesture]
    BY <1>6 DEF ResizeMove
  <2>2. Keeps /\ DOMAIN ui' = Fields /\ ui'.pending = ui.pending /\ ui'.dialog = ui.dialog
    BY <2>1 DEF IInv, Shape, Fields, Keeps
  <2> QED
    BY <1>2, <2>1, <2>2
<1>7. CASE Undo
  <2> DEFINE els == Last(ui.history.past)
             history == Undone(ui.history, ui.draft.els)
  <2>1. /\ Editing /\ ui.history.past # <<>> /\ ui' = Restored(els, history)
        /\ trail' = [trail EXCEPT !.at = @ - 1]
        /\ UNCHANGED <<pages, known, net, abandoned, spent>>
    BY <1>7 DEF Undo, canUndoOverview
  <2> HIDE DEF els, history
  <2>2. Redrawn(els) /\ ui'.history = history /\ DOMAIN ui' = Fields /\ Besides
    BY <1>3, <2>1
  <2>3. Frame /\ trail'.all = trail.all /\ trail'.at = trail.at - 1
    BY <2>1, <2>2 DEF IInv, Shape, Frame, Redrawn
  <2>4. WalkedBack
    BY <2>1, <2>2, <2>3 DEF WalkedBack, els, history
  <2> QED
    BY <2>2, <2>3, <2>4 DEF ClientStep
<1>8. CASE Redo
  <2> DEFINE els == Head(ui.history.future)
             history == Redone(ui.history, ui.draft.els)
  <2>1. /\ Editing /\ ui.history.future # <<>> /\ ui' = Restored(els, history)
        /\ trail' = [trail EXCEPT !.at = @ + 1]
        /\ UNCHANGED <<pages, known, net, abandoned, spent>>
    BY <1>8 DEF Redo, canRedoOverview
  <2> HIDE DEF els, history
  <2>2. Redrawn(els) /\ ui'.history = history /\ DOMAIN ui' = Fields /\ Besides
    BY <1>3, <2>1
  <2>3. Frame /\ trail'.all = trail.all /\ trail'.at = trail.at + 1
    BY <2>1, <2>2 DEF IInv, Shape, Frame, Redrawn
  <2>4. WalkedOn
    BY <2>1, <2>2, <2>3 DEF WalkedOn, els, history
  <2> QED
    BY <2>2, <2>3, <2>4 DEF ClientStep
<1> QED
  BY <1>1, <1>4, <1>5, <1>6, <1>7, <1>8 DEF Edit

(* A dialog opens or closes, or a gesture ends, and nothing else happens.   *)
LEMMA KeptFine ==
  ASSUME IInv, Keeps, DOMAIN ui' = Fields, UNCHANGED <<pages, known, net, spent>>,
         (ui'.pending = ui.pending /\ ui'.dialog = ui.dialog) \/ NoModal
  PROVE  ClientStep /\ Besides
<1>1. Quiet
  BY DEF Quiet, NoModal, Keeps
<1> QED
  BY <1>1, KeepsStep, StillFits

LEMMA GestureFine ==
  ASSUME IInv, ConfirmDelete \/ ResizeEnd \/ ResizeCancel
  PROVE  ClientStep /\ Besides
<1>1. CASE ConfirmDelete
  <2> DEFINE els == Without(ui.draft.els, ui.target)
  <2>1. /\ ui.dialog = "element"
        /\ \/ Mutates(els) /\ ui' = [Mutated(els) EXCEPT !.dialog = None, !.target = None]
           \/ ui' = [ui EXCEPT !.dialog = None, !.target = None]
              /\ UNCHANGED <<pages, known, net, trail, abandoned, spent>>
    BY <1>1 DEF ConfirmDelete
  <2> HIDE DEF els
  <2>2. NoModal
    BY <2>1, NothingWaited DEF IInv
  <2>3. CASE Mutates(els) /\ ui' = [Mutated(els) EXCEPT !.dialog = None, !.target = None]
    <3> DEFINE new == Mutated(els)
    <3>1. /\ DOMAIN new = Fields /\ new.mode = ui.mode /\ new.active = ui.active
          /\ new.base = ui.base
      BY MutatedFields
    <3>2. ui' = [new EXCEPT !.dialog = None, !.target = None] /\ Mutates(els)
      BY <2>3
    <3>a. new = Mutated(els)
      OBVIOUS
    <3> HIDE DEF new
    <3>3. /\ DOMAIN ui' = Fields /\ ui'.mode = ui.mode /\ ui'.active = ui.active
          /\ ui'.base = ui.base /\ ui'.draft = new.draft /\ ui'.state = new.state
          /\ ui'.history = new.history
      BY <3>1, <3>2 DEF Fields
    <3>4. ClientStep
      BY <3>2, <3>3, <3>a, MutatedStep
    <3>5. pages' = pages /\ known' = known /\ net' = net
      BY <3>2 DEF Mutates
    <3>6. Quiet
      BY <2>2, <3>5 DEF Quiet, NoModal
    <3> QED
      BY <3>4, <3>5, <3>6, StillFits
  <2>4. CASE ui' = [ui EXCEPT !.dialog = None, !.target = None]
             /\ UNCHANGED <<pages, known, net, trail, abandoned, spent>>
    <3>1. Keeps /\ DOMAIN ui' = Fields
      BY <2>4 DEF Keeps, IInv, Shape, Fields
    <3> QED
      BY <2>2, <2>4, <3>1, KeptFine
  <2> QED
    BY <2>1, <2>3, <2>4
<1>2. CASE ResizeEnd
  <2>1. PICK els :
          \/ Mutates(els) /\ ui' = [Mutated(els) EXCEPT !.gesture = None]
          \/ ui' = [ui EXCEPT !.gesture = None]
             /\ UNCHANGED <<pages, known, net, trail, abandoned, spent>>
    BY <1>2 DEF ResizeEnd
  <2>2. CASE Mutates(els) /\ ui' = [Mutated(els) EXCEPT !.gesture = None]
    <3> DEFINE new == Mutated(els)
    <3>1. /\ DOMAIN new = Fields /\ new.mode = ui.mode /\ new.active = ui.active
          /\ new.base = ui.base /\ new.pending = ui.pending /\ new.dialog = ui.dialog
      BY MutatedFields
    <3>2. ui' = [new EXCEPT !.gesture = None] /\ Mutates(els)
      BY <2>2
    <3>a. new = Mutated(els)
      OBVIOUS
    <3> HIDE DEF new
    <3>3. /\ DOMAIN ui' = Fields /\ ui'.mode = ui.mode /\ ui'.active = ui.active
          /\ ui'.base = ui.base /\ ui'.draft = new.draft /\ ui'.state = new.state
          /\ ui'.history = new.history /\ ui'.pending = ui.pending /\ ui'.dialog = ui.dialog
      BY <3>1, <3>2 DEF Fields
    <3>4. ClientStep
      BY <3>2, <3>3, <3>a, MutatedStep
    <3>5. pages' = pages /\ known' = known /\ net' = net
      BY <3>2 DEF Mutates
    <3>6. Quiet
      BY <3>3, <3>5 DEF Quiet
    <3> QED
      BY <3>4, <3>5, <3>6, StillFits
  <2>3. CASE ui' = [ui EXCEPT !.gesture = None]
             /\ UNCHANGED <<pages, known, net, trail, abandoned, spent>>
    <3>1. Keeps /\ DOMAIN ui' = Fields /\ ui'.pending = ui.pending /\ ui'.dialog = ui.dialog
      BY <2>3 DEF Keeps, IInv, Shape, Fields
    <3> QED
      BY <2>3, <3>1, KeptFine
  <2> QED
    BY <2>1, <2>2, <2>3
<1>3. CASE ResizeCancel
  <2>1. UNCHANGED <<pages, known, net, trail, abandoned, spent>>
    BY <1>3 DEF ResizeCancel
  <2>2. Keeps /\ DOMAIN ui' = Fields /\ ui'.pending = ui.pending /\ ui'.dialog = ui.dialog
    BY <1>3 DEF ResizeCancel, Keeps, IInv, Shape, Fields
  <2> QED
    BY <2>1, <2>2, KeptFine
<1> QED
  BY <1>1, <1>2, <1>3

LEMMA ResetFine ==
  ASSUME IInv, NEW page, Restarts(page), DOMAIN ui' = Fields, ui'.mode \in {"VIEW", "EDIT"},
         trail' = [all |-> trail'.all, at |-> trail'.at]
  PROVE  ClientStep
BY DEF IInv, Shape, Restarts, Frame, ClientStep

LEMMA TrailShape ==
  ASSUME NEW page, trail' = TrailOf(page)
  PROVE  trail' = [all |-> trail'.all, at |-> trail'.at]
BY DEF TrailOf

(* Opening and closing of dialogs, panning, and the start of a session.     *)
LEMMA ViewFine ==
  ASSUME IInv, AskSave \/ CloseSave \/ CloseDialog \/ Pan \/ EnterEdit
  PROVE  ClientStep /\ Besides
<1>1. CASE AskSave
  <2>1. Keeps /\ DOMAIN ui' = Fields /\ UNCHANGED <<pages, known, net, spent>>
    BY <1>1 DEF AskSave, Keeps, IInv, Shape, Fields
  <2>2. NoModal
    BY <1>1, FreeWaits, EditorAssumption DEF AskSave, Free, IInv
  <2> QED
    BY <2>1, <2>2, KeptFine
<1>2. CASE CloseSave
  <2>1. Keeps /\ DOMAIN ui' = Fields /\ UNCHANGED <<pages, known, net, spent>>
    BY <1>2 DEF CloseSave, Keeps, IInv, Shape, Fields
  <2>2. NoModal
    BY <1>2, NothingWaited DEF CloseSave, IInv
  <2> QED
    BY <2>1, <2>2, KeptFine
<1>3. CASE CloseDialog
  <2>1. Keeps /\ DOMAIN ui' = Fields /\ UNCHANGED <<pages, known, net, spent>>
    BY <1>3 DEF CloseDialog, Keeps, IInv, Shape, Fields
  <2>2. NoModal
    BY <1>3, NothingWaited DEF CloseDialog, IInv
  <2> QED
    BY <2>1, <2>2, KeptFine
<1>4. CASE Pan
  <2>1. /\ Spend("edits") /\ UNCHANGED <<pages, known, net, trail, abandoned>>
        /\ \E v : ui' = [ui EXCEPT !.view = v]
    BY <1>4 DEF Pan
  <2>2. spent.edits <= spent'.edits
    BY <2>1 DEF Spend, IInv, Shape
  <2>3. Keeps /\ DOMAIN ui' = Fields /\ ui'.pending = ui.pending /\ ui'.dialog = ui.dialog
    BY <2>1, <2>2 DEF Keeps, IInv, Shape, Fields
  <2>4. Quiet
    BY <2>1, <2>3 DEF Quiet, Keeps
  <2> QED
    BY <2>1, <2>3, <2>4, KeepsStep, StillFits
<1>5. CASE EnterEdit
  <2>1. /\ ui' = [beginOverviewEdit(ui, ui.active) EXCEPT !.history = NoHistory]
        /\ trail' = TrailOf(ui.active) /\ UNCHANGED <<pages, known, net, spent>>
        /\ ui.active # None /\ ui.dialog = None
    BY <1>5 DEF EnterEdit, Free
  <2>2. /\ DOMAIN ui' = Fields /\ ui'.mode = "EDIT" /\ ui'.active = ui.active
        /\ ui'.base = ui.active /\ ui'.draft = ui.active /\ ui'.history = NoHistory
    BY <2>1 DEF beginOverviewEdit, IInv, Shape, Fields
  <2>3. Restarts(ui.active)
    BY <2>1, <2>2 DEF Restarts, IInv, Held
  <2>4. ClientStep
    BY <2>1, <2>2, <2>3, ResetFine, TrailShape
  <2>5. NoModal
    BY <2>1, FreeWaits, EditorAssumption DEF IInv
  <2>6. Quiet
    BY <2>1, <2>5 DEF Quiet, NoModal
  <2> QED
    BY <2>1, <2>4, <2>6, StillFits
<1> QED
  BY <1>1, <1>2, <1>3, <1>4, <1>5

(* What the client sends is a message.                                      *)
Asked == {"list", "open", "switch", "load", "create", "rename", "duplicate", "delete"}

LEMMA RequestIs ==
  ASSUME NEW op \in Asked, NEW page, NEW body
  PROVE  LET m == Request(op, page, body)
         IN  Message(m, pages, known) /\ (Modal(m) => op \in Crud)
BY DEF Asked, Request, Message, MessageFields, PageAnswers, Modal, Crud

LEMMA FetchIs ==
  ASSUME NEW op \in {"list", "open", "switch", "load"}, NEW page, NEW body
  PROVE  LET m == [Fetch(op, page) EXCEPT !.body = body]
         IN  Message(m, pages, known) /\ ~Modal(m)
BY DEF Fetch, Request, Message, MessageFields, PageAnswers, Modal, Crud

LEMMA FetchIsPlain ==
  ASSUME NEW op \in {"list", "open", "switch", "load"}, NEW page
  PROVE  LET m == Fetch(op, page)
         IN  Message(m, pages, known) /\ ~Modal(m)
BY DEF Fetch, Request, Message, MessageFields, PageAnswers, Modal, Crud

LEMMA PutIs ==
  ASSUME IInv, NEW view, ui.base # None, ui.draft # None
  PROVE  LET m == updateOverviewPage(ui.draft.id, ui.base, [ui.draft EXCEPT !.vp = view])
         IN  Message(m, pages, known) /\ m.op = "put"
<1> DEFINE patch == [ui.draft EXCEPT !.vp = view]
           m == updateOverviewPage(ui.draft.id, ui.base, patch)
<1>1. IsPage(patch) /\ patch.id = ui.draft.id
  BY DEF IInv, Shape, IsPage, PageFields
<1>2. Original(ui.base, pages, known) /\ ui.base.id = ui.draft.id
  BY DEF IInv, Held
<1> HIDE DEF patch
<1>3. /\ DOMAIN m = MessageFields /\ m.waiting \in BOOLEAN /\ m.op = "put" /\ m.answer = None
      /\ m.page = ui.draft.id /\ m.body.base = ui.base /\ m.body.draft = patch
  BY DEF updateOverviewPage, Request, MessageFields
<1> HIDE DEF m
<1>4. Message(m, pages, known)
  BY <1>1, <1>2, <1>3 DEF Message, PageAnswers
<1> QED
  BY <1>3, <1>4 DEF m, patch

(* A request is added to those in flight: one that no dialog waits for, or  *)
(* the one a dialog does.                                                   *)
LEMMA SendFits ==
  ASSUME IInv, pages' = pages, known' = known, NEW m, Message(m, pages, known), ~Modal(m),
         \A k \in net' : k \in net \/ k = m,
         \/ ui'.pending = ui.pending /\ ui'.dialog = ui.dialog /\ ui'.mode \in {ui.mode, "VIEW"}
         \/ \A k \in net' : ~Modal(k)
  PROVE  Besides
<1>1. Quiet
  BY DEF Quiet
<1> QED
  BY <1>1, QuietFine DEF Besides, IInv, Messages

LEMMA DialogFits ==
  ASSUME IInv, pages' = pages, known' = known, NoModal, NEW m, Message(m, pages, known),
         net' = net \cup {m}, ui'.pending,
         m.op = "put" => ui'.dialog = "save",
         m.op \in Crud => ui'.dialog = "page" /\ ui'.mode = "VIEW"
  PROVE  Besides
<1>1. \A k \in net' : Modal(k) => k = m
  BY DEF NoModal
<1>2. Dialogs'
  BY <1>1 DEF Dialogs
<1> QED
  BY <1>2 DEF Besides, IInv, Messages

(* Saving: the request has the baseline and the draft that the dialog shows.*)
LEMMA ConfirmSaveFine ==
  ASSUME IInv, ConfirmSave
  PROVE  ClientStep /\ Besides
<1>1. pages' = pages /\ known' = known /\ NoModal
  BY NothingWaited DEF ConfirmSave, IInv
<1>2. CASE ui' = Finished(ui, ui.base) /\ trail' = TrailOf(ui.base) /\ UNCHANGED <<net, spent>>
  <2>1. /\ DOMAIN ui' = Fields /\ ui'.mode = "VIEW" /\ ui'.active = ui.base
        /\ ui'.base = ui.base /\ ui'.draft = ui.base /\ ui'.history = NoHistory
    BY <1>2 DEF Finished, IInv, Shape, Fields
  <2>2. Restarts(ui.base)
    BY <1>2, <2>1 DEF Restarts, IInv, Held
  <2>3. ClientStep
    BY <1>2, <2>1, <2>2, ResetFine, TrailShape
  <2>4. Quiet
    BY <1>1, <1>2 DEF Quiet, NoModal
  <2> QED
    BY <1>1, <1>2, <2>3, <2>4, StillFits
<1>3. CASE /\ overviewSaveNeedsViewportPut(ui.base, ui.draft, ui.view) /\ Spend("requests")
           /\ ui' = [ui EXCEPT !.pending = TRUE, !.state = "SAVING"]
           /\ net' = net \cup {updateOverviewPage(Shown.id, ui.base, [ui.draft EXCEPT !.vp = ui.view])}
           /\ UNCHANGED <<trail, abandoned>> /\ ui.dialog = "save"
  <2>1. ui.base # None /\ ui.draft # None /\ Shown = ui.draft
    BY <1>3 DEF overviewSaveNeedsViewportPut, Shown
  <2> DEFINE m == updateOverviewPage(ui.draft.id, ui.base, [ui.draft EXCEPT !.vp = ui.view])
  <2>2. Message(m, pages, known) /\ m.op = "put" /\ net' = net \cup {m}
    BY <1>3, <2>1, PutIs
  <2> HIDE DEF m
  <2>3. /\ DOMAIN ui' = Fields /\ ui'.pending /\ ui'.dialog = "save" /\ ui'.state = "SAVING"
        /\ ui'.draft = ui.draft /\ ui'.base = ui.base /\ ui'.active = ui.active
        /\ ui'.history = ui.history /\ ui'.mode = ui.mode
    BY <1>3 DEF IInv, Shape, Fields
  <2>4. spent.edits <= spent'.edits
    BY <1>3 DEF Spend, IInv, Shape
  <2>5. Keeps
    BY <1>3, <2>3, <2>4 DEF Keeps
  <2>6. ClientStep
    BY <1>3, <2>3, <2>5, KeepsStep
  <2>7. m.op \notin Crud
    BY <2>2 DEF Crud
  <2> QED
    BY <1>1, <2>2, <2>3, <2>6, <2>7, DialogFits
<1> QED
  BY <1>2, <1>3 DEF ConfirmSave

(* Cancelling.                                                              *)
LEMMA CancelledFine ==
  ASSUME IInv, NoModal, ui.base # None, ui' = Cancelled, trail' = TrailOf(ui.base),
         UNCHANGED <<pages, known, net, spent>>
  PROVE  ClientStep /\ Besides
<1>1. /\ DOMAIN ui' = Fields /\ ui'.mode = "VIEW" /\ ui'.active = ui.active
      /\ ui'.base = ui.base /\ ui'.draft = ui.base /\ ui'.history = NoHistory
  BY DEF Cancelled, cancelOverviewEdit, IInv, Shape, Fields
<1>2. Restarts(ui.base)
  BY <1>1 DEF Restarts, IInv, Held
<1>3. ClientStep
  BY <1>1, <1>2, ResetFine, TrailShape
<1>4. Quiet
  BY DEF Quiet, NoModal
<1> QED
  BY <1>3, <1>4, StillFits

LEMMA CancelFine ==
  ASSUME IInv, AskCancel \/ ConfirmCancel
  PROVE  ClientStep /\ Besides
<1>1. CASE ConfirmCancel
  <2>1. NoModal
    BY <1>1, NothingWaited DEF ConfirmCancel, IInv
  <2> QED
    BY <1>1, <2>1, CancelledFine DEF ConfirmCancel
<1>2. CASE AskCancel
  <2>1. NoModal /\ UNCHANGED <<pages, known, net, spent, abandoned>> /\ ui.base # None
    BY <1>2, FreeWaits, EditorAssumption DEF AskCancel, Free, IInv
  <2>2. CASE ui' = Cancelled /\ trail' = TrailOf(ui.base)
    BY <2>1, <2>2, CancelledFine
  <2>3. CASE ui' = [ui EXCEPT !.dialog = "cancel"] /\ UNCHANGED trail
    <3>1. Keeps /\ DOMAIN ui' = Fields
      BY <2>1, <2>3 DEF Keeps, IInv, Shape, Fields
    <3> QED
      BY <2>1, <3>1, KeptFine
  <2> QED
    BY <1>2, <2>2, <2>3 DEF AskCancel
<1> QED
  BY <1>1, <1>2

(* Pages are asked for: nothing of the session changes until they arrive.   *)
LEMMA AskPagesFine ==
  ASSUME IInv, Mount \/ Select \/ ConfirmSwitch
  PROVE  ClientStep /\ Besides
<1>1. CASE Mount
  <2> DEFINE m == Fetch("list", None)
  <2>1. ui' = Fetching(ui) /\ net' = net \cup {m} /\ UNCHANGED <<pages, known, trail, abandoned, spent>>
    BY <1>1 DEF Mount
  <2>2. Message(m, pages, known) /\ ~Modal(m)
    BY FetchIsPlain
  <2>3. Keeps /\ DOMAIN ui' = Fields /\ ui'.pending = ui.pending /\ ui'.dialog = ui.dialog
    BY <2>1 DEF Fetching, Keeps, IInv, Shape, Fields
  <2> HIDE DEF m
  <2>4. Besides
    BY <2>1, <2>2, <2>3, SendFits DEF Keeps
  <2> QED
    BY <2>1, <2>3, <2>4, KeepsStep
<1>2. CASE Select
  <2>1. PICK p : /\ \/ /\ ui' = Fetching(ui) /\ net' = net \cup {Fetch("open", p)}
                       /\ Spend("requests")
                    \/ /\ ui' = [ui EXCEPT !.dialog = "switch", !.target = p]
                       /\ UNCHANGED <<net, spent>>
                 /\ UNCHANGED <<pages, known, trail, abandoned>> /\ ui.dialog = None
    BY <1>2 DEF Select, Free
  <2>2. CASE ui' = Fetching(ui) /\ net' = net \cup {Fetch("open", p)} /\ Spend("requests")
    <3> DEFINE m == Fetch("open", p)
    <3>1. Message(m, pages, known) /\ ~Modal(m) /\ net' = net \cup {m}
      BY <2>2, FetchIsPlain
    <3>2. spent.edits <= spent'.edits
      BY <2>2 DEF Spend, IInv, Shape
    <3>3. Keeps /\ DOMAIN ui' = Fields /\ ui'.pending = ui.pending /\ ui'.dialog = ui.dialog
      BY <2>1, <2>2, <3>2 DEF Fetching, Keeps, IInv, Shape, Fields
    <3> HIDE DEF m
    <3>4. Besides
      BY <2>1, <3>1, <3>3, SendFits DEF Keeps
    <3> QED
      BY <2>2, <3>3, <3>4, KeepsStep
  <2>3. CASE ui' = [ui EXCEPT !.dialog = "switch", !.target = p] /\ UNCHANGED <<net, spent>>
    <3>1. Keeps /\ DOMAIN ui' = Fields
      BY <2>1, <2>3 DEF Keeps, IInv, Shape, Fields
    <3>2. NoModal
      BY <2>1, FreeWaits, EditorAssumption DEF IInv
    <3> QED
      BY <2>1, <2>3, <3>1, <3>2, KeptFine
  <2> QED
    BY <2>1, <2>2, <2>3
<1>3. CASE ConfirmSwitch
  <2> DEFINE m == Fetch("switch", ui.target)
  <2>1. /\ ui.dialog = "switch" /\ abandoned' = TRUE /\ Spend("requests")
        /\ ui' = [Fetching(ui) EXCEPT !.dialog = None, !.target = None, !.state = "SAVED"]
        /\ net' = net \cup {m} /\ UNCHANGED <<pages, known, trail>>
    BY <1>3 DEF ConfirmSwitch
  <2>2. Message(m, pages, known) /\ ~Modal(m)
    BY FetchIsPlain
  <2>3. spent.edits <= spent'.edits
    BY <2>1 DEF Spend, IInv, Shape
  <2>4. Keeps /\ DOMAIN ui' = Fields
    BY <2>1, <2>3 DEF Fetching, Keeps, IInv, Shape, Fields
  <2>5. NoModal
    BY <2>1, NothingWaited DEF IInv
  <2> HIDE DEF m
  <2>6. \A k \in net' : ~Modal(k)
    BY <2>1, <2>2, <2>5 DEF NoModal
  <2>7. Besides
    BY <2>1, <2>2, <2>6, SendFits
  <2> QED
    BY <2>1, <2>4, <2>7, KeepsStep
<1> QED
  BY <1>1, <1>2, <1>3

(* A dialog about pages, in VIEW.                                           *)
LEMMA SubmitsFine ==
  ASSUME IInv, NEW op \in Crud, NEW page, NEW body, Submits(Request(op, page, body))
  PROVE  ClientStep /\ Besides
<1> DEFINE m == Request(op, page, body)
<1>1. /\ Free /\ ~pageCrudDisabledInMode /\ Spend("requests") /\ net' = net \cup {m}
      /\ ui' = [ui EXCEPT !.dialog = "page", !.pending = TRUE]
      /\ UNCHANGED <<pages, known, trail, abandoned>>
  BY DEF Submits
<1>2. op \in Asked
  BY DEF Asked, Crud
<1>3. Message(m, pages, known)
  BY <1>2, RequestIs
<1>4. m.op # "put"
  BY DEF Request, Crud
<1> HIDE DEF m
<1>5. spent.edits <= spent'.edits
  BY <1>1 DEF Spend, IInv, Shape
<1>6. /\ Keeps /\ DOMAIN ui' = Fields /\ ui'.pending /\ ui'.dialog = "page"
      /\ ui'.mode = ui.mode /\ ui.mode = "VIEW"
  <2>1. \/ ui.mode = "VIEW"
        \/ ui.mode = "EDIT" /\ Editing
        \/ ui.mode = "EDIT" /\ ui.draft = None
    BY DEF IInv, Shape, Editing
  <2>2. ui.mode = "VIEW"
    BY <1>1, <2>1 DEF pageCrudDisabledInMode
  <2> QED
    BY <1>1, <1>5, <2>2 DEF Keeps, IInv, Shape, Fields
<1>7. NoModal
  BY <1>1, FreeWaits, EditorAssumption DEF IInv, Free
<1>8. Besides
  BY <1>1, <1>3, <1>4, <1>6, <1>7, DialogFits
<1> QED
  BY <1>1, <1>6, <1>8, KeepsStep

LEMMA AskChangesFine ==
  ASSUME IInv, submitNameDialog \/ confirmDelete
  PROVE  ClientStep /\ Besides
<1>1. \E op \in Crud : \E page, body : Submits(Request(op, page, body))
  <2>1. {"create", "rename", "duplicate", "delete"} = Crud
    BY DEF Crud
  <2>2. CASE submitNameDialog
    <3>1. \E n : \/ Submits(Request("create", None, n))
                 \/ Submits(Request("rename", Shown.id, n))
                 \/ Submits(Request("duplicate", Shown.id, n))
      BY <2>2 DEF submitNameDialog, createOverviewPage, renameOverviewPage, duplicateOverviewPage
    <3> QED
      BY <2>1, <3>1
  <2>3. CASE confirmDelete
    <3>1. Submits(Request("delete", Shown.id, None))
      BY <2>3 DEF confirmDelete, deleteOverviewPage
    <3> QED
      BY <2>1, <3>1
  <2> QED
    BY <2>2, <2>3
<1> QED
  BY <1>1, SubmitsFine

-----------------------------------------------------------------------------
(* Answers and time-outs.                                                   *)

(* What is waited for under a dialog is the one request that is.            *)
LEMMA OneWaited ==
  ASSUME Dialogs, NEW m \in net, Modal(m)
  PROVE  \A k \in net \ {m} : ~Modal(k)
BY DEF Dialogs

(* The request leaves, and the step resets the session or leaves it.        *)
LEMMA PageArrives ==
  ASSUME IInv, NEW m \in net, m.answer # None, m.answer.ok, m.op \in PageAnswers
  PROVE  Original(m.answer.page, pages, known)
BY DEF IInv, Messages, Message

LEMMA PutArrives ==
  ASSUME IInv, NEW m \in net, m.waiting, m.answer # None, m.answer.ok, m.op = "put",
         UNCHANGED <<pages, known, spent>>, Succeeds(m)
  PROVE  ClientStep /\ Besides
<1> DEFINE page == m.answer.page
<1>1. Original(page, pages, known)
  BY PageArrives DEF PageAnswers
<1>2. /\ ui' = [Finished(ui, page) EXCEPT !.listed = Relisted(@, page)]
      /\ trail' = TrailOf(page) /\ net' = net \ {m}
  BY DEF Succeeds
<1> HIDE DEF page
<1>3. /\ DOMAIN ui' = Fields /\ ui'.mode = "VIEW" /\ ui'.active = page /\ ui'.base = page
      /\ ui'.draft = page /\ ui'.history = NoHistory
  BY <1>2 DEF Finished, IInv, Shape, Fields
<1>4. Restarts(page)
  BY <1>1, <1>2, <1>3 DEF Restarts
<1>5. Modal(m)
  BY DEF Modal
<1>6. \A k \in net' : ~Modal(k)
  BY <1>2, <1>5, OneWaited DEF IInv
<1>7. Quiet
  BY <1>6 DEF Quiet
<1>8. ClientStep
  BY <1>2, <1>3, <1>4, ResetFine, TrailShape
<1> QED
  BY <1>2, <1>7, <1>8, StillFits

LEMMA RenameArrives ==
  ASSUME IInv, NEW m \in net, m.waiting, m.answer # None, m.answer.ok, m.op = "rename",
         UNCHANGED <<pages, known, spent>>, Succeeds(m)
  PROVE  ClientStep /\ Besides
<1> DEFINE page == m.answer.page
<1>1. Original(page, pages, known)
  BY PageArrives DEF PageAnswers
<1>2. /\ ui' = [ui EXCEPT !.active = page, !.base = page, !.draft = page, !.dialog = None,
                          !.pending = FALSE, !.listed = Relisted(@, page)]
      /\ trail' = TrailOf(page) /\ net' = net \ {m}
  BY DEF Succeeds
<1> HIDE DEF page
<1>3. Modal(m) /\ m.op \in Crud
  BY DEF Modal, Crud
<1>4. ui.mode = "VIEW" /\ ui.history = NoHistory
  BY <1>3 DEF IInv, Dialogs, Walks
<1>5. /\ DOMAIN ui' = Fields /\ ui'.mode = "VIEW" /\ ui'.active = page /\ ui'.base = page
      /\ ui'.draft = page /\ ui'.history = NoHistory
  BY <1>2, <1>4 DEF IInv, Shape, Fields
<1>6. Restarts(page)
  BY <1>1, <1>2, <1>5 DEF Restarts
<1>7. \A k \in net' : ~Modal(k)
  BY <1>2, <1>3, OneWaited DEF IInv
<1>8. Quiet
  BY <1>7 DEF Quiet
<1>9. ClientStep
  BY <1>2, <1>5, <1>6, ResetFine, TrailShape
<1> QED
  BY <1>2, <1>8, <1>9, StillFits

LEMMA OpenedIs ==
  ASSUME IInv, NEW page
  PROVE  /\ DOMAIN Opened(ui, page) = Fields
         /\ Opened(ui, page).mode = ui.mode /\ Opened(ui, page).active = page
         /\ Opened(ui, page).base = page /\ Opened(ui, page).draft = page
         /\ Opened(ui, page).history = NoHistory /\ Opened(ui, page).pending = ui.pending
         /\ Opened(ui, page).dialog = ui.dialog
BY DEF Opened, IInv, Shape, Fields

LEMMA PageShown ==
  ASSUME IInv, NEW m \in net, m.answer # None, m.answer.ok, m.op \in {"open", "switch", "load"},
         ShowPage(m), net' = net \ {m}, UNCHANGED <<pages, known, spent>>
  PROVE  ClientStep /\ Besides
<1> DEFINE page == m.answer.page
           u == Opened(ui, page)
<1>1. Original(page, pages, known)
  BY PageArrives DEF PageAnswers
<1>2. trail' = TrailOf(page)
  BY DEF ShowPage
<1>3. \/ ui' = [u EXCEPT !.state = "SAVED", !.view = page.vp,
                         !.dialog = IF @ = "switch" THEN None ELSE @]
      \/ ui' = u
      \/ ui' = [u EXCEPT !.state = "SAVED", !.mode = "VIEW", !.view = page.vp]
  BY DEF ShowPage
<1>4. /\ DOMAIN u = Fields /\ u.mode = ui.mode /\ u.active = page /\ u.base = page
      /\ u.draft = page /\ u.history = NoHistory /\ u.pending = ui.pending
      /\ u.dialog = ui.dialog
  BY OpenedIs
<1> HIDE DEF page, u
<1>5. /\ DOMAIN ui' = Fields /\ ui'.mode \in {ui.mode, "VIEW"} /\ ui'.active = page
      /\ ui'.base = page /\ ui'.draft = page /\ ui'.history = NoHistory
      /\ ui'.pending = ui.pending
  BY <1>3, <1>4 DEF Fields
<1>6. ui'.dialog = ui.dialog \/ ui.dialog = "switch"
  BY <1>3, <1>4 DEF Fields
<1>7. ui.dialog = "switch" => NoModal
  BY NothingWaited DEF IInv
<1>8. Quiet
  BY <1>5, <1>6, <1>7 DEF Quiet, NoModal
<1>9. Restarts(page)
  BY <1>1, <1>2, <1>5 DEF Restarts
<1>10. ui'.mode \in {"VIEW", "EDIT"}
  BY <1>5 DEF IInv, Shape
<1>11. ClientStep
  BY <1>2, <1>5, <1>9, <1>10, ResetFine, TrailShape
<1> QED
  BY <1>8, <1>11, StillFits

(* The list: one more page may be fetched.                                  *)
LEMMA ListShown ==
  ASSUME IInv, NEW m \in net, ShowList(m), UNCHANGED <<pages, known, spent, trail, abandoned>>
  PROVE  ClientStep /\ Besides
<1>1. PICK p :
        \/ /\ ui' = [[ui EXCEPT !.listed = m.answer.page, !.page = p] EXCEPT !.loading = FALSE]
           /\ net' = net \ {m}
        \/ /\ ui' = [ui EXCEPT !.listed = m.answer.page, !.page = p]
           /\ net' = (net \ {m}) \cup {Request("load", p, None)}
  BY DEF ShowList
<1> DEFINE k == Request("load", p, None)
<1>2. Message(k, pages, known) /\ ~Modal(k)
  BY RequestIs DEF Asked, Crud
<1>3. \A q \in net' : q \in net \/ q = k
  BY <1>1
<1>4. /\ DOMAIN ui' = Fields /\ Keeps /\ ui'.pending = ui.pending /\ ui'.dialog = ui.dialog
      /\ ui'.mode = ui.mode
  <2>1. spent.edits <= spent.edits
    BY DEF IInv, Shape
  <2> QED
    BY <1>1, <2>1 DEF Keeps, IInv, Shape, Fields
<1> HIDE DEF k
<1>5. Besides
  BY <1>2, <1>3, <1>4, SendFits
<1> QED
  BY <1>4, <1>5, KeepsStep

(* A page was made or deleted: the list is loaded again.                    *)
LEMMA ReloadFine ==
  ASSUME IInv, NEW m \in net, Modal(m), NEW u, NEW preferred, Reloads(m, u, preferred),
         DOMAIN u = Fields, UNCHANGED <<pages, known>>
  PROVE  /\ Besides /\ DOMAIN ui' = Fields
         /\ ui'.draft = u.draft /\ ui'.base = u.base /\ ui'.active = u.active
         /\ ui'.history = u.history /\ ui'.mode = u.mode /\ ui'.state = u.state
<1> DEFINE k == [Fetch("list", None) EXCEPT !.body = preferred]
<1>1. ui' = Fetching([u EXCEPT !.dialog = None, !.pending = FALSE])
  BY DEF Reloads
<1>2. net' = (net \ {m}) \cup {k}
  BY DEF Reloads
<1>3. Message(k, pages, known) /\ ~Modal(k)
  BY FetchIs
<1> HIDE DEF k
<1>4. \A q \in net' : ~Modal(q)
  BY <1>2, <1>3, OneWaited DEF IInv
<1>5. Besides
  BY <1>2, <1>3, <1>4, SendFits
<1> QED
  BY <1>1, <1>5 DEF Fetching, Fields

LEMMA CreateArrives ==
  ASSUME IInv, NEW m \in net, m.waiting, m.op \in {"create", "duplicate"},
         UNCHANGED <<pages, known, spent>>, Succeeds(m)
  PROVE  ClientStep /\ Besides
<1>1. PICK id : Reloads(m, ui, id) /\ UNCHANGED <<trail, abandoned>>
  BY DEF Succeeds
<1>2. Modal(m) /\ DOMAIN ui = Fields
  BY DEF Modal, Crud, IInv, Shape
<1>3. /\ Besides /\ DOMAIN ui' = Fields
      /\ ui'.draft = ui.draft /\ ui'.base = ui.base /\ ui'.active = ui.active
      /\ ui'.history = ui.history /\ ui'.mode = ui.mode /\ ui'.state = ui.state
  BY <1>1, <1>2, ReloadFine
<1>4. Keeps
  BY <1>1, <1>3 DEF Keeps, IInv, Shape
<1> QED
  BY <1>3, <1>4, KeepsStep

LEMMA DeleteArrives ==
  ASSUME IInv, NEW m \in net, m.waiting, m.op = "delete",
         UNCHANGED <<pages, known, spent>>, Succeeds(m)
  PROVE  ClientStep /\ Besides
<1> DEFINE u == [ui EXCEPT !.page = None, !.active = None, !.base = None, !.draft = None,
                           !.history = NoHistory]
<1>1. Reloads(m, u, None) /\ trail' = NoTrail
  BY DEF Succeeds
<1>2. Modal(m)
  BY DEF Modal, Crud
<1>3. /\ DOMAIN u = Fields /\ u.draft = None /\ u.base = None /\ u.active = None
      /\ u.history = NoHistory /\ u.mode = ui.mode
  BY DEF IInv, Shape, Fields
<1> HIDE DEF u
<1>4. /\ Besides /\ DOMAIN ui' = Fields
      /\ ui'.draft = None /\ ui'.base = None /\ ui'.active = None
      /\ ui'.history = NoHistory /\ ui'.mode = ui.mode
  BY <1>1, <1>2, <1>3, ReloadFine
<1>5. Restarts(None)
  BY <1>4 DEF Restarts
<1>6. trail' = [all |-> trail'.all, at |-> trail'.at]
  BY <1>1 DEF NoTrail
<1>7. ui'.mode \in {"VIEW", "EDIT"}
  BY <1>4 DEF IInv, Shape
<1> QED
  BY <1>4, <1>5, <1>6, <1>7, ResetFine

(* A failure closes the dialog of the request, or leaves the save dialog    *)
(* open: the request is waited for no longer.                               *)
LEMMA FailsKeep ==
  ASSUME IInv, NEW m \in net, m.waiting, NEW conflict, Fails(m, conflict),
         trail' = trail, abandoned' = abandoned, spent.edits <= spent'.edits
  PROVE  /\ Keeps /\ DOMAIN ui' = Fields
         /\ ~Modal(m) => ui'.pending = ui.pending /\ ui'.dialog = ui.dialog
<1>1. m.op \in PageAnswers \cup {"list", "delete"}
  BY DEF IInv, Messages, Message
<1>2. \/ /\ m.op = "put" /\ Modal(m)
         /\ ui' = [ui EXCEPT !.state = classifySaveFailure(conflict), !.pending = FALSE]
      \/ ui' \in {[ui EXCEPT !.loading = FALSE], ui}
      \/ m.op \in Crud /\ Modal(m) /\ ui' = [ui EXCEPT !.dialog = None, !.pending = FALSE]
  BY <1>1 DEF Fails, PageAnswers, Crud, Modal
<1>3. classifySaveFailure(conflict) # "SAVED"
  BY DEF classifySaveFailure
<1> QED
  BY <1>2, <1>3 DEF Keeps, IInv, Shape, Fields

LEMMA AnswersFine ==
  ASSUME IInv, ReceiveAnswer
  PROVE  ClientStep /\ Besides
<1>1. PICK m \in net :
        /\ m.waiting /\ m.answer # None /\ UNCHANGED <<pages, known, spent>>
        /\ \/ m.answer.ok /\ Succeeds(m)
           \/ Fails(m, m.answer.conflict) /\ net' = net \ {m} /\ UNCHANGED <<trail, abandoned>>
  BY DEF ReceiveAnswer
<1>2. CASE Fails(m, m.answer.conflict) /\ net' = net \ {m} /\ UNCHANGED <<trail, abandoned>>
  <2>1. spent.edits <= spent'.edits
    BY <1>1 DEF IInv, Shape
  <2>2. /\ Keeps /\ DOMAIN ui' = Fields
        /\ ~Modal(m) => ui'.pending = ui.pending /\ ui'.dialog = ui.dialog
    BY <1>1, <1>2, <2>1, FailsKeep
  <2>3. Modal(m) => \A k \in net' : ~Modal(k)
    BY <1>2, OneWaited DEF IInv
  <2>4. Quiet
    BY <1>2, <2>2, <2>3 DEF Quiet, Keeps
  <2> QED
    BY <1>1, <1>2, <2>2, <2>4, KeepsStep, StillFits
<1>3. CASE m.answer.ok /\ Succeeds(m)
  <2>1. CASE m.op = "put"
    BY <1>1, <1>3, <2>1, PutArrives
  <2>2. CASE m.op = "rename"
    BY <1>1, <1>3, <2>2, RenameArrives
  <2>3. CASE m.op \in {"create", "duplicate"}
    BY <1>1, <1>3, <2>3, CreateArrives
  <2>4. CASE m.op = "delete"
    BY <1>1, <1>3, <2>4, DeleteArrives
  <2>5. CASE m.op \in {"open", "switch", "load"} /\ Current(m)
    <3>1. ShowPage(m) /\ net' = net \ {m}
      BY <1>3, <2>5 DEF Succeeds
    <3> QED
      BY <1>1, <1>3, <2>5, <3>1, PageShown
  <2>6. CASE m.op = "list" /\ Current(m)
    <3>1. ShowList(m) /\ UNCHANGED <<trail, abandoned>>
      BY <1>3, <2>6 DEF Succeeds
    <3> QED
      BY <1>1, <3>1, ListShown
  <2>7. CASE m.op \in {"list", "open", "switch", "load"} /\ ~Current(m)
    <3>1. net' = net \ {m} /\ UNCHANGED <<ui, trail, abandoned>>
      BY <1>3, <2>7 DEF Succeeds
    <3>2. Keeps /\ DOMAIN ui' = Fields
      BY <1>1, <3>1 DEF Keeps, IInv, Shape
    <3>3. Quiet
      BY <3>1 DEF Quiet
    <3> QED
      BY <1>1, <3>1, <3>2, <3>3, KeepsStep, StillFits
  <2> QED
    BY <1>3, <2>1, <2>2, <2>3, <2>4, <2>5, <2>6, <2>7 DEF Succeeds
<1> QED
  BY <1>1, <1>2, <1>3

LEMMA TimesOutFine ==
  ASSUME IInv, TimesOut
  PROVE  ClientStep /\ Besides
<1>1. PICK m \in net :
        /\ m.waiting /\ Spend("timeouts") /\ Fails(m, FALSE)
        /\ \A k \in net' : k \in net \ {m} \/ k = [m EXCEPT !.waiting = FALSE]
        /\ UNCHANGED <<pages, known, trail, abandoned>>
  BY DEF TimesOut
<1>2. spent.edits <= spent'.edits
  BY <1>1 DEF Spend, IInv, Shape
<1>3. /\ Keeps /\ DOMAIN ui' = Fields
      /\ ~Modal(m) => ui'.pending = ui.pending /\ ui'.dialog = ui.dialog
  BY <1>1, <1>2, FailsKeep
<1> DEFINE left == [m EXCEPT !.waiting = FALSE]
<1>4. Message(m, pages, known)
  BY DEF IInv, Messages
<1>5. /\ DOMAIN left = MessageFields /\ ~left.waiting /\ left.op = m.op /\ left.page = m.page
      /\ left.body = m.body /\ left.answer = m.answer /\ left.waiting \in BOOLEAN
  BY <1>4 DEF Message, MessageFields
<1>6. \A k \in net' : k \in net \ {m} \/ k = left
  BY <1>1
<1> HIDE DEF left
<1>7. Message(left, pages, known) /\ ~Modal(left)
  BY <1>4, <1>5 DEF Message, Modal
<1>8. Modal(m) => \A k \in net' : ~Modal(k)
  BY <1>6, <1>7, OneWaited DEF IInv
<1>9. Besides
  BY <1>1, <1>3, <1>6, <1>7, <1>8, SendFits DEF Keeps
<1> QED
  BY <1>1, <1>3, <1>9, KeepsStep

-----------------------------------------------------------------------------
(* The steps of the stored.                                                 *)

LEMMA ServerFine ==
  ASSUME IInv, Filed(pages', known'), Advances(pages, known, pages', known'), Messages',
         Dialogs', UNCHANGED <<ui, trail, abandoned>>, spent'.edits = spent.edits,
         spent' \in [edits : Nat, requests : Nat, timeouts : Nat, others : Nat]
  PROVE  IInv'
<1>1. Shape'
  BY DEF IInv, Shape
<1>2. Held'
  BY OriginalKept DEF IInv, Held
<1>3. Walks' /\ SavedMeansSaved'
  BY DEF IInv, Walks, SavedMeansSaved
<1> QED
  BY <1>1, <1>2, <1>3 DEF IInv

LEMMA AnsweredDialogs ==
  ASSUME IInv, Serve
  PROVE  Dialogs'
<1>0. PICK m \in net : \E answer, after : Serves(m, answer, after) /\ UNCHANGED ui
  BY DEF Serve, Update
<1>1. PICK answer, after : Serves(m, answer, after) /\ UNCHANGED ui
  BY <1>0
<1> DEFINE k == [m EXCEPT !.answer = answer]
<1>2. net' = (net \ {m}) \cup (IF m.waiting THEN {k} ELSE {})
  BY <1>1 DEF Serves
<1>3. DOMAIN m = MessageFields
  BY DEF IInv, Messages, Message
<1>4. k.op = m.op /\ k.waiting = m.waiting
  BY <1>3 DEF MessageFields
<1> HIDE DEF k
<1>5. \A q \in net' : q \in net \ {m} \/ q = k
  BY <1>2
<1>6. Modal(k) => Modal(m)
  BY <1>4 DEF Modal
<1>7. ASSUME NEW q \in net', Modal(q)
      PROVE  /\ ui'.pending
             /\ q.op = "put" => ui'.dialog = "save"
             /\ q.op \in Crud => ui'.dialog = "page" /\ ui'.mode = "VIEW"
  BY <1>1, <1>4, <1>5, <1>6, <1>7 DEF IInv, Dialogs
<1>8. ASSUME NEW q \in net', NEW r \in net', Modal(q), Modal(r)
      PROVE  q = r
  BY <1>5, <1>6, <1>8 DEF IInv, Dialogs
<1> QED
  BY <1>7, <1>8 DEF Dialogs

LEMMA ServeKeeps ==
  ASSUME IInv, Serve
  PROVE  IInv'
<1>1. Filed(pages', known') /\ Advances(pages, known, pages', known') /\ Messages'
  BY ServeFine DEF IInv
<1>2. UNCHANGED <<ui, trail, abandoned, spent>>
  BY DEF Serve
<1>3. Dialogs'
  BY AnsweredDialogs
<1>4. /\ spent'.edits = spent.edits
      /\ spent' \in [edits : Nat, requests : Nat, timeouts : Nat, others : Nat]
  BY <1>2 DEF IInv, Shape
<1> QED
  BY <1>1, <1>2, <1>3, <1>4, ServerFine

LEMMA OthersKeep ==
  ASSUME IInv, OtherClient
  PROVE  IInv'
<1>1. Filed(pages', known') /\ Advances(pages, known, pages', known') /\ Messages'
  BY OthersFine DEF IInv
<1>2. UNCHANGED <<ui, net, trail, abandoned>> /\ spent' = [spent EXCEPT !["others"] = @ + 1]
  BY DEF OtherClient, Spend
<1>3. Dialogs'
  BY <1>2 DEF IInv, Dialogs
<1>4. /\ spent'.edits = spent.edits
      /\ spent' \in [edits : Nat, requests : Nat, timeouts : Nat, others : Nat]
  BY <1>2 DEF IInv, Shape
<1> QED
  BY <1>1, <1>2, <1>3, <1>4, ServerFine

-----------------------------------------------------------------------------
(* The theorems.                                                            *)

LEMMA EditorStarts ==
  ASSUME EditorAssumption, EditorInit
  PROVE  IInv
<1>1. /\ ui = [page |-> None, active |-> None, mode |-> "VIEW", state |-> "SAVED",
               base |-> None, draft |-> None, history |-> NoHistory, gesture |-> None,
               dialog |-> None, pending |-> FALSE, target |-> None,
               view |-> CHOOSE v \in Views : TRUE, listed |-> NoPages, token |-> 0,
               loading |-> FALSE]
      /\ pages = Stored /\ known = DOMAIN Stored /\ net = {} /\ trail = NoTrail
      /\ spent = [edits |-> 0, requests |-> 0, timeouts |-> 0, others |-> 0]
  BY DEF EditorInit
<1>2. /\ DOMAIN ui = Fields /\ ui.mode = "VIEW" /\ ui.draft = None /\ ui.base = None
      /\ ui.active = None /\ ui.history = NoHistory
  BY <1>1 DEF Fields
<1>3. Shape
  BY <1>1, <1>2 DEF Shape, NoTrail
<1>4. Filed(pages, known)
  BY <1>1 DEF EditorAssumption, Filed, IsPage, PageFields
<1>5. Held /\ Walks /\ SavedMeansSaved
  BY <1>2 DEF Held, Walks, SavedMeansSaved
<1>6. Messages /\ Dialogs
  BY <1>1 DEF Messages, Dialogs
<1> QED
  BY <1>3, <1>4, <1>5, <1>6 DEF IInv

LEMMA ClientActs ==
  ASSUME IInv, EditorNext, ~Serve, ~OtherClient
  PROVE  ClientStep /\ Besides
<1>1. \/ Edit
      \/ ConfirmDelete \/ ResizeEnd \/ ResizeCancel
      \/ AskSave \/ CloseSave \/ CloseDialog \/ Pan \/ EnterEdit
      \/ ConfirmSave
      \/ AskCancel \/ ConfirmCancel
      \/ Mount \/ Select \/ ConfirmSwitch
      \/ submitNameDialog \/ confirmDelete
      \/ ReceiveAnswer \/ TimesOut
  BY DEF EditorNext
<1> QED
  BY <1>1, EditFine, GestureFine, ViewFine, ConfirmSaveFine, CancelFine, AskPagesFine,
     AskChangesFine, AnswersFine, TimesOutFine

LEMMA EditorSteps ==
  ASSUME ElementsAssumption, IInv, [EditorNext]_editorVars
  PROVE  IInv'
<1>1. CASE UNCHANGED editorVars
  BY <1>1 DEF editorVars, IInv, Shape, Held, Messages, Dialogs, Walks, SavedMeansSaved
<1>2. CASE Serve
  BY <1>2, ServeKeeps
<1>3. CASE OtherClient
  BY <1>3, OthersKeep
<1>4. CASE EditorNext /\ ~Serve /\ ~OtherClient
  <2>1. ClientStep /\ Besides
    BY <1>4, ClientActs
  <2>2. Shape' /\ Held' /\ Walks' /\ SavedMeansSaved'
    BY <2>1, ClientFine DEF Besides
  <2>3. Filed(pages', known') /\ Messages' /\ Dialogs'
    BY <2>1 DEF Besides, IInv, Messages
  <2> QED
    BY <2>2, <2>3 DEF IInv
<1> QED
  BY <1>1, <1>2, <1>3, <1>4

(* The invariant holds in every behaviour: the records the client holds,    *)
(* receives and sends as baselines are ones the stored has had, one dialog  *)
(* at a time waits for one request, and the history is a walk.              *)
THEOREM EditorInductive == EditorSpec => []IInv
<1>1. EditorInit => IInv
  BY EditorStarts, EditorAssumption
<1>2. IInv /\ [EditorNext]_editorVars => IInv'
  BY EditorSteps, ElementsAssumption
<1> QED
  BY <1>1, <1>2, PTL DEF EditorSpec

(* Undo and redo walk exactly the lists the user has made, whatever was     *)
(* edited, saved, cancelled, renamed or answered late in between, however   *)
(* many edits there are and whatever the limit of the history.              *)
THEOREM UndoIsTrail == EditorSpec => []HistoryIsTrail
<1>1. IInv => HistoryIsTrail
  <2> SUFFICES ASSUME IInv, ui.draft # None
               PROVE  /\ ui.draft.els = trail.all[trail.at]
                      /\ ui.history.future = SubSeq(trail.all, trail.at + 1, Len(trail.all))
                      /\ ui.history.past = LastOf(SubSeq(trail.all, 1, trail.at - 1),
                                                  Len(ui.history.past))
                      /\ Len(ui.history.past) = trail.at - 1 \/ spent.edits > HistoryLimit
    BY DEF HistoryIsTrail
  <2>1. Walk(trail.all, trail.at, ui.draft.els, ui.history.past, ui.history.future, spent.edits)
    BY DEF IInv, Walks
  <2> QED
    BY <2>1, WalkMeans
<1> QED
  BY <1>1, EditorInductive, PTL

(* The editor never calls a draft saved that differs from its baseline,     *)
(* unless the user has confirmed that it may be discarded.                  *)
THEOREM SavedIsBaseline == EditorSpec => []SavedMeansSaved
<1>1. IInv => SavedMeansSaved
  BY DEF IInv
<1> QED
  BY <1>1, EditorInductive, PTL

(* A save that is carried out, late or repeated or neither, replaces        *)
(* exactly the record it was made from, whatever others have stored.        *)
THEOREM NoUpdateLost == EditorSpec => NoLostUpdate
<1>1. ASSUME IInv, [EditorNext]_editorVars, pages' # pages, NEW m \in net,
             m.op = "put", m.answer = None, m \notin net'
      PROVE  pages[m.page] = m.body.base
  <2>1. Serve \/ OtherClient
    <3> SUFFICES ASSUME ~Serve, ~OtherClient
                 PROVE  FALSE
      OBVIOUS
    <3>1. EditorNext
      BY <1>1 DEF editorVars
    <3> QED
      BY <1>1, <3>1, ClientActs DEF Besides
  <2>2. CASE OtherClient
    BY <1>1, <2>2 DEF OtherClient
  <2>3. CASE Serve
    <3>1. PICK k \in net :
            /\ \E answer, after : Serves(k, answer, after)
            /\ k.op = "put" => Update(k)
      BY <2>3 DEF Serve, Update
    <3>2. net \ {k} \subseteq net'
      BY <3>1 DEF Serves
    <3>3. k = m
      BY <1>1, <3>2
    <3> QED
      BY <1>1, <3>1, <3>3, UpdateFine DEF IInv
  <2> QED
    BY <2>1, <2>2, <2>3
<1>2. IInv /\ [EditorNext]_editorVars =>
        [pages' # pages =>
           \A m \in net :
             m.op = "put" /\ m.answer = None /\ m \notin net' => pages[m.page] = m.body.base]_editorVars
  BY <1>1
<1> QED
  BY <1>2, EditorInductive, PTL DEF EditorSpec, NoLostUpdate
=============================================================================
