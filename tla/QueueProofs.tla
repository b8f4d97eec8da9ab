---------------------------- MODULE QueueProofs ----------------------------
(***************************************************************************)
(* What is proved of the playback queue for every set of tracks, every     *)
(* choice of operations and every bound.                                   *)
(***************************************************************************)
EXTENDS MCQueue, SequenceTheorems, FiniteSetTheorems, TLAPS

-----------------------------------------------------------------------------
(* Sequences: what the helpers of the actions return. *)

(* A segment of a sequence is a sequence of the same set, as long as its
   bounds say. *)
LEMMA Segment ==
    ASSUME NEW S, NEW s \in Seq(S), NEW m \in 1 .. Len(s) + 1, NEW n \in 0 .. Len(s)
    PROVE  /\ SubSeq(s, m, n) \in Seq(S)
           /\ Len(SubSeq(s, m, n)) = IF m <= n THEN n - m + 1 ELSE 0
           /\ \A i \in 1 .. n - m + 1 : SubSeq(s, m, n)[i] = s[m + i - 1]
<1>1. \A i \in m .. n : s[i] \in S
  BY ElementOfSeq
<1>2. m \in Int /\ n \in Int
  BY LenProperties
<1> QED
  BY <1>1, <1>2, SubSeqProperties

(* One entry out: the others keep their order, those behind it move up. *)
LEMMA RemoveAtProperties ==
    ASSUME NEW S, NEW s \in Seq(S), NEW i \in 1 .. Len(s)
    PROVE  /\ RemoveAt(s, i) \in Seq(S)
           /\ Len(RemoveAt(s, i)) = Len(s) - 1
           /\ \A k \in 1 .. Len(s) - 1 :
                RemoveAt(s, i)[k] = IF k < i THEN s[k] ELSE s[k + 1]
<1> DEFINE a == SubSeq(s, 1, i - 1)
           b == SubSeq(s, i + 1, Len(s))
<1>1. Len(s) \in Nat
  BY LenProperties
<1>2. a \in Seq(S) /\ Len(a) = i - 1 /\ \A k \in 1 .. i - 1 : a[k] = s[k]
  BY <1>1, Segment
<1>3. b \in Seq(S) /\ Len(b) = Len(s) - i /\ \A k \in 1 .. Len(s) - i : b[k] = s[i + k]
  <2>1. i + 1 \in 1 .. Len(s) + 1 /\ Len(s) \in 0 .. Len(s)
    BY <1>1
  <2>2. /\ b \in Seq(S) /\ Len(b) = IF i + 1 <= Len(s) THEN Len(s) - (i + 1) + 1 ELSE 0
        /\ \A k \in 1 .. Len(s) - (i + 1) + 1 : b[k] = s[i + 1 + k - 1]
    BY <2>1, Segment
  <2> HIDE DEF b
  <2> QED
    BY <1>1, <2>2
<1> HIDE DEF a, b
<1>4. /\ a \o b \in Seq(S) /\ Len(a \o b) = Len(a) + Len(b)
      /\ \A k \in 1 .. Len(a) + Len(b) :
            (a \o b)[k] = IF k <= Len(a) THEN a[k] ELSE b[k - Len(a)]
  BY <1>2, <1>3, ConcatProperties
<1>5. RemoveAt(s, i) = a \o b
  BY DEF RemoveAt, a, b
<1>6. Len(a \o b) = Len(s) - 1
  BY <1>1, <1>2, <1>3, <1>4
<1>7. ASSUME NEW k \in 1 .. Len(s) - 1
      PROVE  (a \o b)[k] = IF k < i THEN s[k] ELSE s[k + 1]
  <2>1. (a \o b)[k] = IF k <= i - 1 THEN a[k] ELSE b[k - (i - 1)]
    BY <1>1, <1>2, <1>3, <1>4
  <2>2. CASE k < i
    BY <1>2, <2>1, <2>2
  <2>3. CASE ~ (k < i)
    <3>1. k - (i - 1) \in 1 .. Len(s) - i /\ i + (k - (i - 1)) = k + 1
      BY <1>1, <2>3
    <3>2. b[k - (i - 1)] = s[k + 1]
      BY <1>3, <3>1
    <3> QED
      BY <2>1, <2>3, <3>2
  <2> QED
    BY <2>2, <2>3
<1> QED
  BY <1>4, <1>5, <1>6, <1>7

(* Entry k after e was put in s at place i. *)
EntryAfterInsert(s, i, e, k) == IF k < i THEN s[k] ELSE IF k = i THEN e ELSE s[k - 1]

(* One entry in: those from its place on move down. *)
LEMMA InsertAtProperties ==
    ASSUME NEW S, NEW s \in Seq(S), NEW i \in 1 .. Len(s) + 1, NEW e \in S
    PROVE  /\ InsertAt(s, i, e) \in Seq(S)
           /\ Len(InsertAt(s, i, e)) = Len(s) + 1
           /\ \A k \in 1 .. Len(s) + 1 :
                InsertAt(s, i, e)[k] = EntryAfterInsert(s, i, e, k)
<1> DEFINE a == SubSeq(s, 1, i - 1)
           b == SubSeq(s, i, Len(s))
           c == a \o <<e>>
<1>1. Len(s) \in Nat
  BY LenProperties
<1>2. a \in Seq(S) /\ Len(a) = i - 1 /\ \A k \in 1 .. i - 1 : a[k] = s[k]
  BY <1>1, Segment
<1>3. /\ b \in Seq(S) /\ Len(b) = Len(s) - i + 1
      /\ \A k \in 1 .. Len(s) - i + 1 : b[k] = s[i + k - 1]
  <2>1. Len(s) \in 0 .. Len(s)
    BY <1>1
  <2>2. /\ b \in Seq(S) /\ Len(b) = IF i <= Len(s) THEN Len(s) - i + 1 ELSE 0
        /\ \A k \in 1 .. Len(s) - i + 1 : b[k] = s[i + k - 1]
    BY <2>1, Segment
  <2> HIDE DEF b
  <2> QED
    BY <1>1, <2>2
<1>4. InsertAt(s, i, e) = c \o b
  BY DEF InsertAt
<1> HIDE DEF a, b
<1>5. <<e>> \in Seq(S) /\ Len(<<e>>) = 1 /\ <<e>>[1] = e
  OBVIOUS
<1>6. /\ c \in Seq(S) /\ Len(c) = i
      /\ \A k \in 1 .. i : c[k] = IF k < i THEN s[k] ELSE e
  <2>1. /\ c \in Seq(S) /\ Len(c) = Len(a) + Len(<<e>>)
        /\ \A k \in 1 .. Len(a) + Len(<<e>>) :
              c[k] = IF k <= Len(a) THEN a[k] ELSE <<e>>[k - Len(a)]
    BY <1>2, <1>5, ConcatProperties
  <2> HIDE DEF c
  <2>2. Len(c) = i
    BY <1>1, <1>2, <1>5, <2>1
  <2>3. ASSUME NEW k \in 1 .. i PROVE c[k] = IF k < i THEN s[k] ELSE e
    <3>1. c[k] = IF k <= i - 1 THEN a[k] ELSE <<e>>[k - (i - 1)]
      BY <1>1, <1>2, <1>5, <2>1
    <3>2. CASE k < i
      BY <1>2, <3>1, <3>2
    <3>3. CASE k = i
      BY <1>1, <1>5, <3>1, <3>3
    <3> QED
      BY <3>2, <3>3
  <2> QED
    BY <2>1, <2>2, <2>3
<1> HIDE DEF c
<1>7. /\ c \o b \in Seq(S) /\ Len(c \o b) = Len(c) + Len(b)
      /\ \A k \in 1 .. Len(c) + Len(b) :
            (c \o b)[k] = IF k <= Len(c) THEN c[k] ELSE b[k - Len(c)]
  BY <1>3, <1>6, ConcatProperties
<1>8. Len(c \o b) = Len(s) + 1
  BY <1>1, <1>3, <1>6, <1>7
<1>9. ASSUME NEW k \in 1 .. Len(s) + 1
      PROVE  (c \o b)[k] = IF k < i THEN s[k] ELSE IF k = i THEN e ELSE s[k - 1]
  <2>1. (c \o b)[k] = IF k <= i THEN c[k] ELSE b[k - i]
    BY <1>1, <1>3, <1>6, <1>7
  <2>2. CASE k <= i
    BY <1>6, <2>1, <2>2
  <2>3. CASE ~ (k <= i)
    <3>1. k - i \in 1 .. Len(s) - i + 1 /\ i + (k - i) - 1 = k - 1
      BY <1>1, <2>3
    <3>2. b[k - i] = s[k - 1]
      BY <1>3, <3>1
    <3> QED
      BY <2>1, <2>3, <3>2
  <2> QED
    BY <2>2, <2>3
<1> QED
  BY <1>4, <1>7, <1>8, <1>9 DEF EntryAfterInsert

(* Where two sequences meet: what is done to one of them is done to both. *)
LEMMA InsertAtSeam ==
    ASSUME NEW S, NEW a \in Seq(S), NEW b \in Seq(S), NEW e \in S
    PROVE  InsertAt(a \o b, Len(a) + 1, e) = a \o (<<e>> \o b)
<1> DEFINE s == a \o b
           n == Len(a) + 1
           r == InsertAt(s, n, e)
           c == <<e>> \o b
           d == a \o c
<1>1. Len(a) \in Nat /\ Len(b) \in Nat
  BY LenProperties
<1>2. <<e>> \in Seq(S) /\ Len(<<e>>) = 1 /\ <<e>>[1] = e
  OBVIOUS
<1>3. /\ s \in Seq(S) /\ Len(s) = Len(a) + Len(b)
      /\ \A k \in 1 .. Len(a) + Len(b) : s[k] = IF k <= Len(a) THEN a[k] ELSE b[k - Len(a)]
  BY ConcatProperties
<1>4. /\ c \in Seq(S) /\ Len(c) = Len(<<e>>) + Len(b)
      /\ \A k \in 1 .. Len(<<e>>) + Len(b) : c[k] = IF k <= Len(<<e>>) THEN <<e>>[k] ELSE b[k - Len(<<e>>)]
  BY <1>2, ConcatProperties
<1> HIDE DEF s, c
<1>5. /\ c \in Seq(S) /\ Len(c) = 1 + Len(b)
      /\ c[1] = e /\ \A k \in 2 .. 1 + Len(b) : c[k] = b[k - 1]
  BY <1>1, <1>2, <1>4
<1>6. /\ d \in Seq(S) /\ Len(d) = Len(a) + Len(c)
      /\ \A k \in 1 .. Len(a) + Len(c) : d[k] = IF k <= Len(a) THEN a[k] ELSE c[k - Len(a)]
  BY <1>5, ConcatProperties
<1>7. n = Len(a) + 1 /\ n \in 1 .. Len(s) + 1
  BY <1>1, <1>3
<1> HIDE DEF n, r
<1>8. /\ r \in Seq(S) /\ Len(r) = Len(s) + 1
      /\ \A k \in 1 .. Len(s) + 1 :
            r[k] = IF k < n THEN s[k] ELSE IF k = n THEN e ELSE s[k - 1]
  <2>1. s \in Seq(S)
    BY <1>3
  <2>2. n \in 1 .. Len(s) + 1
    BY <1>7
  <2>3. InsertAt(s, n, e) \in Seq(S)
    BY <2>1, <2>2, InsertAtProperties
  <2>4. Len(InsertAt(s, n, e)) = Len(s) + 1
    BY <2>1, <2>2, InsertAtProperties
  <2>5. \A k \in 1 .. Len(s) + 1 :
            InsertAt(s, n, e)[k] = EntryAfterInsert(s, n, e, k)
    BY <2>1, <2>2, InsertAtProperties
  <2> QED
    BY <2>3, <2>4, <2>5, Zenon DEF r, EntryAfterInsert
<1> HIDE DEF d
<1>9. Len(r) = Len(d) /\ Len(r) = Len(a) + Len(b) + 1
  BY <1>1, <1>3, <1>5, <1>6, <1>8
<1>10. ASSUME NEW k \in 1 .. Len(r) PROVE r[k] = d[k]
  <2>1. CASE k <= Len(a)
    <3>1. r[k] = s[k] /\ s[k] = a[k]
      BY <1>1, <1>3, <1>7, <1>8, <1>9, <2>1
    <3>2. d[k] = a[k]
      BY <1>1, <1>5, <1>6, <1>9, <2>1
    <3> QED
      BY <3>1, <3>2
  <2>2. CASE k = Len(a) + 1
    <3>1. d[k] = c[k - Len(a)] /\ k - Len(a) = 1
      BY <1>1, <1>5, <1>6, <1>9, <2>2
    <3> QED
      BY <1>1, <1>3, <1>5, <1>7, <1>8, <1>9, <2>2, <3>1
  <2>3. CASE k > Len(a) + 1
    <3>1. d[k] = c[k - Len(a)] /\ k - Len(a) \in 2 .. 1 + Len(b)
      BY <1>1, <1>5, <1>6, <1>9, <2>3
    <3>2. c[k - Len(a)] = b[(k - Len(a)) - 1]
      BY <1>5, <3>1
    <3>3. r[k] = s[k - 1] /\ k - 1 \in 1 .. Len(a) + Len(b) /\ k - 1 > Len(a)
      BY <1>1, <1>3, <1>7, <1>8, <1>9, <2>3
    <3>4. s[k - 1] = b[(k - 1) - Len(a)]
      BY <1>1, <1>3, <3>3
    <3>5. (k - Len(a)) - 1 = (k - 1) - Len(a)
      BY <1>1
    <3> QED
      BY <3>1, <3>2, <3>3, <3>4, <3>5
  <2> QED
    BY <1>1, <2>1, <2>2, <2>3
<1>11. r = d
  BY <1>6, <1>7, <1>8, <1>9, <1>10, SeqEqual
<1> QED
  BY <1>11 DEF r, d, s, c, n

LEMMA RemoveAtLeft ==
    ASSUME NEW S, NEW a \in Seq(S), NEW b \in Seq(S), NEW i \in 1 .. Len(a)
    PROVE  RemoveAt(a \o b, i) = RemoveAt(a, i) \o b
<1> DEFINE s == a \o b
           r == RemoveAt(s, i)
           c == RemoveAt(a, i)
           d == c \o b
<1>1. Len(a) \in Nat /\ Len(b) \in Nat
  BY LenProperties
<1>2. /\ s \in Seq(S) /\ Len(s) = Len(a) + Len(b)
      /\ \A k \in 1 .. Len(a) + Len(b) : s[k] = IF k <= Len(a) THEN a[k] ELSE b[k - Len(a)]
  BY ConcatProperties
<1>3. /\ c \in Seq(S) /\ Len(c) = Len(a) - 1
      /\ \A k \in 1 .. Len(a) - 1 : c[k] = IF k < i THEN a[k] ELSE a[k + 1]
  BY RemoveAtProperties
<1> HIDE DEF s, c
<1>4. /\ d \in Seq(S) /\ Len(d) = Len(c) + Len(b)
      /\ \A k \in 1 .. Len(c) + Len(b) : d[k] = IF k <= Len(c) THEN c[k] ELSE b[k - Len(c)]
  BY <1>3, ConcatProperties
<1>5. i \in 1 .. Len(s)
  BY <1>1, <1>2
<1>6. /\ r \in Seq(S) /\ Len(r) = Len(s) - 1
      /\ \A k \in 1 .. Len(s) - 1 : r[k] = IF k < i THEN s[k] ELSE s[k + 1]
  BY <1>2, <1>5, RemoveAtProperties
<1> HIDE DEF r, d
<1>7. Len(r) = Len(d) /\ Len(r) = Len(a) + Len(b) - 1
  BY <1>1, <1>2, <1>3, <1>4, <1>6
<1>8. ASSUME NEW k \in 1 .. Len(r) PROVE r[k] = d[k]
  <2>1. CASE k < i
    BY <1>1, <1>2, <1>3, <1>4, <1>6, <1>7, <2>1
  <2>2. CASE k >= i /\ k < Len(a)
    <3>1. r[k] = s[k + 1] /\ k + 1 \in 1 .. Len(a) + Len(b) /\ k + 1 <= Len(a)
      BY <1>1, <1>2, <1>6, <1>7, <2>2
    <3>2. d[k] = a[k + 1]
      BY <1>1, <1>3, <1>4, <1>7, <2>2
    <3> QED
      BY <1>2, <3>1, <3>2
  <2>3. CASE k >= Len(a)
    <3>1. r[k] = s[k + 1] /\ k + 1 \in 1 .. Len(a) + Len(b) /\ ~ (k + 1 <= Len(a))
      BY <1>1, <1>2, <1>6, <1>7, <2>3
    <3>2. s[k + 1] = b[(k + 1) - Len(a)]
      BY <1>2, <3>1
    <3>3. d[k] = b[k - (Len(a) - 1)]
      BY <1>1, <1>3, <1>4, <1>7, <2>3
    <3>4. (k + 1) - Len(a) = k - (Len(a) - 1)
      BY <1>1
    <3> QED
      BY <3>1, <3>2, <3>3, <3>4
  <2> QED
    BY <1>1, <2>1, <2>2, <2>3
<1>9. r = d
  BY <1>4, <1>6, <1>7, <1>8, SeqEqual
<1> QED
  BY <1>9 DEF r, d, s, c

LEMMA RemoveAtRight ==
    ASSUME NEW S, NEW a \in Seq(S), NEW b \in Seq(S), NEW i \in 1 .. Len(b)
    PROVE  RemoveAt(a \o b, Len(a) + i) = a \o RemoveAt(b, i)
<1> DEFINE s == a \o b
           r == RemoveAt(s, Len(a) + i)
           c == RemoveAt(b, i)
           d == a \o c
<1>1. Len(a) \in Nat /\ Len(b) \in Nat
  BY LenProperties
<1>2. /\ s \in Seq(S) /\ Len(s) = Len(a) + Len(b)
      /\ \A k \in 1 .. Len(a) + Len(b) : s[k] = IF k <= Len(a) THEN a[k] ELSE b[k - Len(a)]
  BY ConcatProperties
<1>3. /\ c \in Seq(S) /\ Len(c) = Len(b) - 1
      /\ \A k \in 1 .. Len(b) - 1 : c[k] = IF k < i THEN b[k] ELSE b[k + 1]
  BY RemoveAtProperties
<1> HIDE DEF s, c
<1>4. /\ d \in Seq(S) /\ Len(d) = Len(a) + Len(c)
      /\ \A k \in 1 .. Len(a) + Len(c) : d[k] = IF k <= Len(a) THEN a[k] ELSE c[k - Len(a)]
  BY <1>3, ConcatProperties
<1>5. Len(a) + i \in 1 .. Len(s)
  BY <1>1, <1>2
<1>6. /\ r \in Seq(S) /\ Len(r) = Len(s) - 1
      /\ \A k \in 1 .. Len(s) - 1 : r[k] = IF k < Len(a) + i THEN s[k] ELSE s[k + 1]
  BY <1>2, <1>5, RemoveAtProperties
<1> HIDE DEF r, d
<1>7. Len(r) = Len(d) /\ Len(r) = Len(a) + Len(b) - 1
  BY <1>1, <1>2, <1>3, <1>4, <1>6
<1>8. ASSUME NEW k \in 1 .. Len(r) PROVE r[k] = d[k]
  <2>1. CASE k <= Len(a)
    BY <1>1, <1>2, <1>3, <1>4, <1>6, <1>7, <2>1
  <2>2. CASE k > Len(a)
    <3>1. d[k] = c[k - Len(a)] /\ k - Len(a) \in 1 .. Len(b) - 1
      BY <1>1, <1>3, <1>4, <1>7, <2>2
    <3>2. c[k - Len(a)] = IF k - Len(a) < i THEN b[k - Len(a)] ELSE b[(k - Len(a)) + 1]
      BY <1>3, <3>1
    <3>3. CASE k < Len(a) + i
      <4>1. r[k] = b[k - Len(a)]
        BY <1>1, <1>2, <1>6, <1>7, <2>2, <3>3
      <4>2. k - Len(a) < i
        BY <1>1, <3>3
      <4> QED
        BY <3>1, <3>2, <4>1, <4>2
    <3>4. CASE ~ (k < Len(a) + i)
      <4>1. r[k] = s[k + 1] /\ k + 1 \in 1 .. Len(a) + Len(b) /\ ~ (k + 1 <= Len(a))
        BY <1>1, <1>2, <1>6, <1>7, <2>2, <3>4
      <4>2. s[k + 1] = b[(k + 1) - Len(a)]
        BY <1>2, <4>1
      <4>3. (k + 1) - Len(a) = (k - Len(a)) + 1 /\ ~ (k - Len(a) < i)
        BY <1>1, <3>4
      <4> QED
        BY <3>1, <3>2, <4>1, <4>2, <4>3
    <3> QED
      BY <3>3, <3>4
  <2> QED
    BY <1>1, <2>1, <2>2
<1>9. r = d
  BY <1>4, <1>6, <1>7, <1>8, SeqEqual
<1> QED
  BY <1>9 DEF r, d, s, c

(* The last entry put back behind the others. *)
LEMMA FrontThenLast ==
    ASSUME NEW S, NEW s \in Seq(S), s # <<>>
    PROVE  /\ Front(s) \in Seq(S) /\ Len(Front(s)) = Len(s) - 1
           /\ Last(s) \in S
           /\ Front(s) \o <<Last(s)>> = s
<1>1. Len(s) \in Nat \ {0}
  BY EmptySeq
<1>2. /\ Front(s) \in Seq(S) /\ Len(Front(s)) = Len(s) - 1
      /\ \A i \in 1 .. Len(s) - 1 : Front(s)[i] = s[i]
  <2>1. Len(s) - 1 \in 0 .. Len(s) /\ 1 \in 1 .. Len(s) + 1
    BY <1>1
  <2>2. /\ SubSeq(s, 1, Len(s) - 1) \in Seq(S)
        /\ Len(SubSeq(s, 1, Len(s) - 1)) = IF 1 <= Len(s) - 1 THEN (Len(s) - 1) - 1 + 1 ELSE 0
        /\ \A i \in 1 .. (Len(s) - 1) - 1 + 1 : SubSeq(s, 1, Len(s) - 1)[i] = s[1 + i - 1]
    BY <2>1, Segment
  <2>3. Front(s) = SubSeq(s, 1, Len(s) - 1)
    BY Zenon DEF Front
  <2> DEFINE f == SubSeq(s, 1, Len(s) - 1)
  <2> HIDE DEF f
  <2>4. /\ f \in Seq(S) /\ Len(f) = IF 1 <= Len(s) - 1 THEN (Len(s) - 1) - 1 + 1 ELSE 0
        /\ \A i \in 1 .. (Len(s) - 1) - 1 + 1 : f[i] = s[1 + i - 1]
    BY <2>2 DEF f
  <2>5. f \in Seq(S) /\ Len(f) = Len(s) - 1
    <3>1. \A m \in Nat \ {0} : (IF 1 <= m - 1 THEN (m - 1) - 1 + 1 ELSE 0) = m - 1
      OBVIOUS
    <3> QED
      BY <1>1, <2>4, <3>1, Zenon
  <2>6. ASSUME NEW i \in 1 .. Len(s) - 1 PROVE f[i] = s[i]
    <3>1. i \in 1 .. (Len(s) - 1) - 1 + 1 /\ 1 + i - 1 = i
      BY <1>1
    <3> QED
      BY <2>4, <3>1
  <2> QED
    BY <2>3, <2>5, <2>6, Zenon DEF f
<1>3. Last(s) \in S /\ Last(s) = s[Len(s)]
  BY <1>1, ElementOfSeq DEF Last
<1> DEFINE f == Front(s)
           e == Last(s)
           d == f \o <<e>>
<1> HIDE DEF f, e
<1>4. f \in Seq(S) /\ Len(f) = Len(s) - 1 /\ \A i \in 1 .. Len(s) - 1 : f[i] = s[i]
  BY <1>2 DEF f
<1>5. e \in S /\ e = s[Len(s)]
  BY <1>3 DEF e
<1>6. <<e>> \in Seq(S) /\ Len(<<e>>) = 1 /\ <<e>>[1] = e
  BY <1>5
<1>7. /\ d \in Seq(S) /\ Len(d) = Len(f) + Len(<<e>>)
      /\ \A i \in 1 .. Len(f) + Len(<<e>>) : d[i] = IF i <= Len(f) THEN f[i] ELSE <<e>>[i - Len(f)]
  BY <1>4, <1>6, ConcatProperties
<1> HIDE DEF d
<1>8. Len(d) = Len(s)
  BY <1>1, <1>4, <1>6, <1>7
<1>9. ASSUME NEW i \in 1 .. Len(s) PROVE d[i] = s[i]
  <2>1. CASE i < Len(s)
    BY <1>1, <1>4, <1>6, <1>7, <2>1
  <2>2. CASE i = Len(s)
    <3>1. i - Len(f) = 1 /\ ~ (i <= Len(f))
      BY <1>1, <1>4, <2>2
    <3> QED
      BY <1>1, <1>4, <1>5, <1>6, <1>7, <2>2, <3>1
  <2> QED
    BY <1>1, <2>1, <2>2
<1>10. d = s
  BY <1>7, <1>8, <1>9, SeqEqual
<1> QED
  BY <1>2, <1>3, <1>10 DEF d, f, e

(* A sequence cut in three at h and at h + n is put together again. *)
LEMMA CutInThree ==
    ASSUME NEW S, NEW s \in Seq(S), NEW h \in 0 .. Len(s), NEW m \in h .. Len(s)
    PROVE  (SubSeq(s, 1, h) \o SubSeq(s, h + 1, m)) \o SubSeq(s, m + 1, Len(s)) = s
<1>1. Len(s) \in Nat
  BY LenProperties
<1>2. 1 \in 1 .. Len(s) + 1 /\ h \in 1 - 1 .. Len(s) /\ m \in h .. Len(s)
  BY <1>1
<1>3. SubSeq(s, 1, h) \o SubSeq(s, h + 1, m) = SubSeq(s, 1, m)
  BY <1>2, ConcatAdjacentSubSeq
<1>4. m \in 1 - 1 .. Len(s) /\ Len(s) \in m .. Len(s)
  BY <1>1
<1>5. SubSeq(s, 1, m) \o SubSeq(s, m + 1, Len(s)) = SubSeq(s, 1, Len(s))
  BY <1>2, <1>4, ConcatAdjacentSubSeq
<1>6. SubSeq(s, 1, Len(s)) = s
  BY SubSeqFull
<1> QED
  BY <1>3, <1>5, <1>6

(* The first entry taken off again. *)
LEMMA TailOfCons ==
    ASSUME NEW S, NEW e \in S, NEW s \in Seq(S)
    PROVE  Tail(<<e>> \o s) = s
<1> DEFINE r == <<e>> \o s
           t == Tail(r)
<1>1. Len(s) \in Nat
  BY LenProperties
<1>2. <<e>> \in Seq(S) /\ Len(<<e>>) = 1
  OBVIOUS
<1>3. /\ r \in Seq(S) /\ Len(r) = Len(<<e>>) + Len(s)
      /\ \A i \in 1 .. Len(<<e>>) + Len(s) :
            r[i] = IF i <= Len(<<e>>) THEN <<e>>[i] ELSE s[i - Len(<<e>>)]
  BY <1>2, ConcatProperties
<1> HIDE DEF r
<1>4. r \in Seq(S) /\ Len(r) = Len(s) + 1 /\ \A i \in 2 .. Len(s) + 1 : r[i] = s[i - 1]
  BY <1>1, <1>2, <1>3
<1>5. Len(<<>>) = 0
  OBVIOUS
<1>6. r # <<>>
  <2>1. Len(r) # 0
    BY <1>1, <1>4
  <2> QED
    BY <1>5, <2>1, Zenon
<1>7. /\ t \in Seq(S) /\ Len(t) = Len(r) - 1
      /\ \A i \in 1 .. Len(t) : t[i] = r[i + 1]
  BY <1>4, <1>6, HeadTailProperties
<1> HIDE DEF t
<1>8. Len(t) = Len(s)
  BY <1>1, <1>4, <1>7
<1>9. ASSUME NEW i \in 1 .. Len(s) PROVE t[i] = s[i]
  <2>1. i + 1 \in 2 .. Len(s) + 1 /\ (i + 1) - 1 = i
    BY <1>1
  <2>2. r[i + 1] = s[(i + 1) - 1]
    BY <1>4, <2>1
  <2> QED
    BY <1>7, <1>8, <2>1, <2>2
<1>10. t = s
  BY <1>7, <1>8, <1>9, SeqEqual
<1> QED
  BY <1>10 DEF t, r

(* One entry out and in again at another place. *)
Moved(s, f, t) == InsertAt(RemoveAt(s, f), t, s[f])

(* The move is a permutation of the entries. *)
LEMMA MovedProperties ==
    ASSUME NEW S, NEW s \in Seq(S), NEW f \in 1 .. Len(s), NEW t \in 1 .. Len(s)
    PROVE  /\ Moved(s, f, t) \in Seq(S)
           /\ Len(Moved(s, f, t)) = Len(s)
           /\ \E p \in Bijection(1 .. Len(s), 1 .. Len(s)) :
                 \A k \in 1 .. Len(s) : Moved(s, f, t)[k] = s[p[k]]
<1> DEFINE r == RemoveAt(s, f)
           e == s[f]
           m == InsertAt(r, t, e)
           D == 1 .. Len(s)
           Out(k) == IF k < f THEN k ELSE k + 1
           p == [k \in D |-> IF k = t THEN f ELSE Out(IF k < t THEN k ELSE k - 1)]
           Back(k) == IF k = f THEN t
                      ELSE IF (IF k < f THEN k ELSE k - 1) < t
                           THEN IF k < f THEN k ELSE k - 1
                           ELSE (IF k < f THEN k ELSE k - 1) + 1
<1>1. Len(s) \in Nat
  BY LenProperties
<1>2. e \in S
  BY ElementOfSeq
<1>3. /\ r \in Seq(S) /\ Len(r) = Len(s) - 1
      /\ \A k \in 1 .. Len(s) - 1 : r[k] = IF k < f THEN s[k] ELSE s[k + 1]
  BY RemoveAtProperties
<1> HIDE DEF r, e
<1>4. t \in 1 .. Len(r) + 1
  BY <1>1, <1>3
<1> HIDE DEF m
<1>5. Len(r) + 1 = Len(s)
  BY <1>1, <1>3
<1>6. /\ m \in Seq(S) /\ Len(m) = Len(s)
      /\ \A k \in D : m[k] = IF k < t THEN r[k] ELSE IF k = t THEN e ELSE r[k - 1]
  <2> HIDE DEF D, p
  <2>1. r \in Seq(S)
    BY <1>3
  <2>2. InsertAt(r, t, e) \in Seq(S)
    BY <1>2, <1>4, <2>1, InsertAtProperties
  <2>3. Len(InsertAt(r, t, e)) = Len(r) + 1
    BY <1>2, <1>4, <2>1, InsertAtProperties
  <2>4. \A k \in 1 .. Len(r) + 1 :
            InsertAt(r, t, e)[k] = EntryAfterInsert(r, t, e, k)
    BY <1>2, <1>4, <2>1, InsertAtProperties
  <2> QED
    BY <1>5, <2>2, <2>3, <2>4, Zenon DEF m, D, EntryAfterInsert
<1>7. p \in [D -> D]
  BY <1>1
<1>8. \A a, b \in D : p[a] = p[b] => a = b
  BY <1>1
<1>9. \A b \in D : Back(b) \in D /\ p[Back(b)] = b
  BY <1>1
<1>10. p \in Bijection(D, D)
  BY <1>7, <1>8, <1>9, Zenon DEF Bijection, Injection, IsInjective, Surjection
<1>11. ASSUME NEW k \in D PROVE m[k] = s[p[k]]
  <2>1. CASE k = t
    BY <1>6, <2>1 DEF e
  <2>2. CASE k < t
    <3>1. k \in 1 .. Len(s) - 1 /\ p[k] = Out(k)
      BY <1>1, <2>2
    <3>2. m[k] = r[k]
      BY <1>6, <2>2
    <3> QED
      BY <1>3, <3>1, <3>2
  <2>3. CASE k > t
    <3>1. k - 1 \in 1 .. Len(s) - 1 /\ p[k] = Out(k - 1)
      BY <1>1, <2>3
    <3>2. m[k] = r[k - 1]
      BY <1>1, <1>6, <2>3
    <3> QED
      BY <1>3, <3>1, <3>2
  <2> QED
    BY <1>1, <2>1, <2>2, <2>3
<1>12. Moved(s, f, t) = m
  BY DEF Moved, m, r, e
<1> HIDE DEF p
<1> QED
  BY <1>6, <1>10, <1>11, <1>12

(* A shuffle returns as many tracks of the same set. *)
LEMMA ReorderingProperties ==
    ASSUME NEW S, NEW s \in Seq(S), NEW r \in Reorderings(s)
    PROVE  r \in Seq(S) /\ Len(r) = Len(s)
<1>1. PICK p \in Bijection(DOMAIN s, DOMAIN s) : r = [i \in DOMAIN s |-> s[p[i]]]
  BY DEF Reorderings
<1>2. p \in [DOMAIN s -> DOMAIN s]
  BY DEF Bijection, Injection
<1>3. DOMAIN s = 1 .. Len(s) /\ Len(s) \in Nat
  BY LenProperties
<1>4. \A i \in 1 .. Len(s) : s[p[i]] \in S
  BY <1>2, <1>3, ElementOfSeq
<1> QED
  BY <1>1, <1>3, <1>4

-----------------------------------------------------------------------------
(* The slot of the current track as a sequence, and the view made with it. *)
LEMMA CurrentEntryProperties ==
    ASSUME TypeOK
    PROVE  /\ CurrentEntry \in Seq(Track)
           /\ Len(CurrentEntry) \in 0 .. 1
           /\ Len(CurrentEntry) = 1 <=> current # NoTrack
BY DEF TypeOK, CurrentEntry

LEMMA SnapshotProperties ==
    ASSUME TypeOK
    PROVE  /\ Snapshot \in Seq(Track)
           /\ Len(Snapshot) = QueueLen
           /\ QueueLen \in Nat
<1>1. /\ history \in Seq(Track) /\ Len(history) \in Nat
      /\ up_next \in Seq(Track) /\ Len(up_next) \in Nat
  BY LenProperties DEF TypeOK
<1>2. CurrentEntry \in Seq(Track) /\ Len(CurrentEntry) \in 0 .. 1
  BY CurrentEntryProperties
<1>3. /\ history \o CurrentEntry \in Seq(Track)
      /\ Len(history \o CurrentEntry) = Len(history) + Len(CurrentEntry)
  BY <1>1, <1>2, ConcatProperties
<1>4. /\ (history \o CurrentEntry) \o up_next \in Seq(Track)
      /\ Len((history \o CurrentEntry) \o up_next)
            = Len(history \o CurrentEntry) + Len(up_next)
  BY <1>1, <1>3, ConcatProperties
<1> QED
  BY <1>1, <1>2, <1>3, <1>4 DEF Snapshot, QueueLen

-----------------------------------------------------------------------------
(* The state after each operation, as far as the invariants need it. *)

(* The lengths of the two lists an operation keeps in step. *)
LEMMA ListLengths ==
    ASSUME TypeOK
    PROVE  /\ Len(history) \in Nat
           /\ Len(up_next) \in Nat
           /\ Len(original_order) \in Nat
BY LenProperties DEF TypeOK

LEMMA EnqueueStep ==
    ASSUME TypeOK, NEW t \in Track, Enqueue(t)
    PROVE  /\ TypeOK'
           /\ ShadowNeverLonger => ShadowNeverLonger'
<1>1. up_next' \in Seq(Track) /\ Len(up_next') = Len(up_next) + 1
  BY AppendProperties DEF TypeOK, Enqueue
<1>2. /\ original_order' \in Seq(Track)
      /\ Len(original_order') = Len(original_order) + 1
  BY AppendProperties DEF TypeOK, Enqueue
<1>3. TypeOK'
  BY <1>1, <1>2 DEF TypeOK, Enqueue
<1> QED
  BY <1>1, <1>2, <1>3, ListLengths DEF ShadowNeverLonger

LEMMA EnqueueNextStep ==
    ASSUME TypeOK, NEW t \in Track, EnqueueNext(t)
    PROVE  /\ TypeOK'
           /\ ShadowNeverLonger => ShadowNeverLonger'
<1>1. <<t>> \in Seq(Track) /\ Len(<<t>>) = 1
  OBVIOUS
<1>2. up_next' \in Seq(Track) /\ Len(up_next') = Len(up_next) + 1
  BY <1>1, ConcatProperties, ListLengths DEF TypeOK, EnqueueNext
<1>3. /\ original_order' \in Seq(Track)
      /\ Len(original_order') = Len(original_order) + 1
  BY <1>1, ConcatProperties, ListLengths DEF TypeOK, EnqueueNext
<1>4. TypeOK'
  BY <1>2, <1>3 DEF TypeOK, EnqueueNext
<1> QED
  BY <1>2, <1>3, <1>4, ListLengths DEF ShadowNeverLonger

LEMMA RemoveEntryStep ==
    ASSUME TypeOK, NEW position \in Position, RemoveEntry(position)
    PROVE  /\ TypeOK'
           /\ ShadowNeverLonger => ShadowNeverLonger'
<1>1. position \in Nat
  BY BoundAssumption DEF Position
<1>2. CASE RemoveFromHistory(position)
  <2>1. position + 1 \in 1 .. Len(history)
    BY <1>1, <1>2, ListLengths DEF RemoveFromHistory
  <2>2. history' \in Seq(Track)
    BY <1>2, <2>1, RemoveAtProperties DEF TypeOK, RemoveFromHistory
  <2> QED
    BY <1>2, <2>2 DEF TypeOK, RemoveEntry, RemoveFromHistory, ShadowNeverLonger
<1>3. CASE RemoveCurrent(position)
  BY <1>3 DEF TypeOK, RemoveEntry, RemoveCurrent, ShadowNeverLonger
<1>4. CASE RemoveUpcoming(position)
  <2> DEFINE i == position - Len(history) - Len(CurrentEntry) + 1
  <2>1. i \in 1 .. Len(up_next) /\ up_next' = RemoveAt(up_next, i)
    BY <1>4 DEF RemoveUpcoming
  <2>2. original_order' = IF i <= Len(original_order)
                          THEN RemoveAt(original_order, i) ELSE original_order
    BY <1>4 DEF RemoveUpcoming
  <2> HIDE DEF i
  <2>3. up_next' \in Seq(Track) /\ Len(up_next') = Len(up_next) - 1
    BY <2>1, RemoveAtProperties DEF TypeOK
  <2>4. CASE i <= Len(original_order)
    <3>1. i \in 1 .. Len(original_order)
      BY <2>1, <2>4, ListLengths
    <3>2. /\ original_order' \in Seq(Track)
          /\ Len(original_order') = Len(original_order) - 1
      BY <2>2, <2>4, <3>1, RemoveAtProperties DEF TypeOK
    <3> QED
      BY <1>4, <2>3, <3>2, ListLengths
      DEF TypeOK, RemoveEntry, RemoveUpcoming, ShadowNeverLonger
  <2>5. CASE ~ (i <= Len(original_order))
    <3>1. original_order' = original_order /\ Len(original_order) < Len(up_next)
      BY <2>1, <2>2, <2>5, ListLengths
    <3> QED
      BY <1>4, <2>3, <3>1, ListLengths
      DEF TypeOK, RemoveEntry, RemoveUpcoming, ShadowNeverLonger
  <2> QED
    BY <2>4, <2>5
<1>5. CASE UNCHANGED <<history, current, up_next, original_order>>
  BY <1>5 DEF TypeOK, RemoveEntry, ShadowNeverLonger
<1> QED
  BY <1>2, <1>3, <1>4, <1>5 DEF RemoveEntry

LEMMA MoveItemStep ==
    ASSUME TypeOK, NEW from \in Position, NEW to \in Position, MoveItem(from, to)
    PROVE  /\ TypeOK'
           /\ ShadowNeverLonger => ShadowNeverLonger'
<1> DEFINE h == Len(history)
           c == Len(CurrentEntry)
           flat == Moved(Snapshot, from + 1, to + 1)
<1>1. from \in Nat /\ to \in Nat /\ from < QueueLen /\ to < QueueLen
  BY BoundAssumption DEF Position, MoveItem
<1>2. /\ Snapshot \in Seq(Track) /\ Len(Snapshot) = QueueLen /\ QueueLen \in Nat
      /\ from + 1 \in 1 .. Len(Snapshot) /\ to + 1 \in 1 .. Len(Snapshot)
  BY <1>1, SnapshotProperties
<1>3. flat \in Seq(Track) /\ Len(flat) = QueueLen
  BY <1>2, MovedProperties
<1>4. /\ history' = SubSeq(flat, 1, h)
      /\ current' = IF c = 1 THEN flat[h + 1] ELSE NoTrack
      /\ up_next' = SubSeq(flat, h + c + 1, Len(flat))
      /\ UNCHANGED <<original_order, mode, shuffle>>
  BY DEF MoveItem, Moved
<1> HIDE DEF flat
<1>5. /\ h \in Nat /\ c \in 0 .. 1 /\ Len(up_next) \in Nat
      /\ Len(flat) = h + c + Len(up_next)
  BY <1>3, ListLengths, CurrentEntryProperties DEF QueueLen
<1>6. history' \in Seq(Track)
  BY <1>3, <1>4, <1>5, Segment
<1>7. up_next' \in Seq(Track) /\ Len(up_next') = Len(up_next)
  <2> DEFINE m == h + c + 1
  <2>1. m \in 1 .. Len(flat) + 1 /\ Len(flat) \in 0 .. Len(flat)
    BY <1>5
  <2>2. /\ SubSeq(flat, m, Len(flat)) \in Seq(Track)
        /\ Len(SubSeq(flat, m, Len(flat)))
              = IF m <= Len(flat) THEN Len(flat) - m + 1 ELSE 0
    <3> HIDE DEF m
    <3> QED
      BY <1>3, <2>1, Segment
  <2> QED
    BY <1>4, <1>5, <2>2
<1>8. current' \in Track \cup {NoTrack}
  <2>1. CASE c = 1
    <3>1. h + 1 \in 1 .. Len(flat)
      BY <1>5, <2>1
    <3> QED
      BY <1>3, <1>4, <2>1, <3>1, ElementOfSeq
  <2> QED
    BY <1>4, <2>1
<1> QED
  BY <1>4, <1>6, <1>7, <1>8 DEF TypeOK, ShadowNeverLonger

LEMMA ClearStep ==
    ASSUME TypeOK, Clear
    PROVE  TypeOK' /\ ShadowNeverLonger'
BY DEF TypeOK, Clear, ShadowNeverLonger

(* The entries played so far once the current track has joined them. *)
LEMMA PlayedProperties ==
    ASSUME TypeOK
    PROVE  history \o CurrentEntry \in Seq(Track)
BY ConcatProperties, CurrentEntryProperties DEF TypeOK

LEMMA NextTrackStep ==
    ASSUME TypeOK, NextTrack
    PROVE  /\ TypeOK'
           /\ ShadowNeverLonger => ShadowNeverLonger'
<1>1. CASE UNCHANGED <<history, current, up_next, original_order>>
  BY <1>1 DEF TypeOK, NextTrack, ShadowNeverLonger
<1>2. CASE PlayUpcoming
  <2>1. /\ history' \in Seq(Track)
        /\ current' \in Track
        /\ up_next' \in Seq(Track) /\ Len(up_next') = Len(up_next) - 1
    BY <1>2, PlayedProperties, HeadTailProperties DEF TypeOK, PlayUpcoming
  <2>2. /\ original_order' \in Seq(Track)
        /\ Len(original_order') = IF original_order = <<>> THEN 0
                                  ELSE Len(original_order) - 1
    BY <1>2, HeadTailProperties, EmptySeq DEF TypeOK, PlayUpcoming
  <2>3. up_next # <<>> => Len(up_next) > 0
    BY EmptySeq, ListLengths DEF TypeOK
  <2>4. original_order # <<>> => Len(original_order) > 0
    BY EmptySeq, ListLengths DEF TypeOK
  <2>5. up_next # <<>>
    BY <1>2 DEF PlayUpcoming
  <2>6. TypeOK'
    BY <2>1, <2>2 DEF TypeOK, NextTrack
  <2> QED
    BY <2>1, <2>2, <2>3, <2>4, <2>5, <2>6, ListLengths DEF ShadowNeverLonger
<1>3. CASE LoopAround
  <2> DEFINE played == history \o CurrentEntry
  <2>1. /\ history' = <<>> /\ current' = Head(played) /\ played # <<>>
        /\ up_next' = Tail(played) /\ original_order' = Tail(played)
    BY <1>3 DEF LoopAround
  <2>2. played \in Seq(Track)
    BY PlayedProperties
  <2> HIDE DEF played
  <2>3. Head(played) \in Track /\ Tail(played) \in Seq(Track)
    BY <2>1, <2>2, HeadTailProperties
  <2>4. Len(Tail(played)) \in Nat
    BY <2>3, LenProperties
  <2> QED
    BY <2>1, <2>3, <2>4 DEF TypeOK, NextTrack, ShadowNeverLonger
<1>4. CASE Exhaust
  BY <1>4, PlayedProperties DEF TypeOK, NextTrack, Exhaust, ShadowNeverLonger
<1> QED
  BY <1>1, <1>2, <1>3, <1>4 DEF NextTrack

LEMMA PrevTrackStep ==
    ASSUME TypeOK, PrevTrack
    PROVE  /\ TypeOK'
           /\ ShadowNeverLonger => ShadowNeverLonger'
<1>1. CASE UNCHANGED <<history, current, up_next, original_order>>
  BY <1>1 DEF TypeOK, PrevTrack, ShadowNeverLonger
<1>2. CASE StepBack
  <2> DEFINE t == Last(history)
  <2>1. /\ history # <<>> /\ history' = Front(history) /\ current' = t
        /\ up_next' = (CurrentEntry \o <<t>>) \o up_next
        /\ original_order' = <<t>> \o original_order
    BY <1>2 DEF StepBack
  <2>2. Len(history) \in 1 .. Len(history) /\ Len(history) - 1 \in 0 .. Len(history)
    BY <2>1, EmptySeq, ListLengths DEF TypeOK
  <2>3. t \in Track
    BY <2>2, ElementOfSeq DEF TypeOK, Last
  <2>4. Front(history) \in Seq(Track)
    BY <2>2, Segment, ListLengths DEF TypeOK, Front
  <2> HIDE DEF t
  <2>5. <<t>> \in Seq(Track) /\ Len(<<t>>) = 1
    BY <2>3
  <2>6. /\ original_order' \in Seq(Track)
        /\ Len(original_order') = Len(original_order) + 1
    BY <2>1, <2>5, ConcatProperties, ListLengths DEF TypeOK
  <2>7. up_next' \in Seq(Track) /\ Len(up_next') >= Len(up_next) + 1
    <3> DEFINE u == CurrentEntry \o <<t>>
    <3>1. u \in Seq(Track) /\ Len(u) = Len(CurrentEntry) + 1
      BY <2>5, CurrentEntryProperties, ConcatProperties
    <3> HIDE DEF u
    <3>2. u \o up_next \in Seq(Track) /\ Len(u \o up_next) = Len(u) + Len(up_next)
      BY <3>1, ConcatProperties DEF TypeOK
    <3>3. Len(u) >= 1 /\ Len(u) \in Nat
      BY <3>1, CurrentEntryProperties
    <3> QED
      BY <2>1, <3>2, <3>3, ListLengths DEF u
  <2>8. TypeOK'
    BY <2>1, <2>3, <2>4, <2>6, <2>7 DEF TypeOK, PrevTrack
  <2>9. Len(up_next') \in Nat
    BY <2>7, LenProperties
  <2> QED
    BY <2>6, <2>7, <2>8, <2>9, ListLengths DEF ShadowNeverLonger
<1>3. CASE StepBackNowhere
  BY <1>3 DEF TypeOK, PrevTrack, StepBackNowhere, ShadowNeverLonger
<1> QED
  BY <1>1, <1>2, <1>3 DEF PrevTrack

LEMMA SetShuffleStep ==
    ASSUME TypeOK, NEW on \in BOOLEAN, SetShuffle(on)
    PROVE  /\ TypeOK'
           /\ ShadowNeverLonger => ShadowNeverLonger'
<1>1. UNCHANGED <<history, current, original_order, mode>> /\ shuffle' \in BOOLEAN
  BY DEF SetShuffle
<1>2. CASE UNCHANGED up_next
  BY <1>1, <1>2 DEF TypeOK, ShadowNeverLonger
<1>3. CASE up_next' \in Reorderings(up_next)
  <2>1. up_next' \in Seq(Track) /\ Len(up_next') = Len(up_next)
    BY <1>3, ReorderingProperties DEF TypeOK
  <2> QED
    BY <1>1, <2>1 DEF TypeOK, ShadowNeverLonger
<1>4. CASE up_next' = original_order
  BY <1>1, <1>4, ListLengths DEF TypeOK, ShadowNeverLonger
<1> QED
  BY <1>2, <1>3, <1>4 DEF SetShuffle

-----------------------------------------------------------------------------
(* Type correctness and the bound on the shadow list.  The two are proved
   together: no further strengthening is needed. *)

LEMMA QueueInit ==
    ASSUME Init
    PROVE  TypeOK /\ ShadowNeverLonger
<1>1. <<>> \in Seq(Track) /\ Len(<<>>) = 0
  BY EmptySeq
<1>2. mode \in RepeatMode /\ shuffle \in BOOLEAN
  BY DEF Init, RepeatMode
<1>3. TypeOK
  BY <1>1, <1>2 DEF Init, TypeOK
<1> QED
  BY <1>1, <1>3 DEF Init, ShadowNeverLonger

LEMMA QueueStep ==
    ASSUME TypeOK, [Next]_vars
    PROVE  /\ TypeOK'
           /\ ShadowNeverLonger => ShadowNeverLonger'
<1>1. ASSUME NEW t \in Track, Enqueue(t)
      PROVE  TypeOK' /\ (ShadowNeverLonger => ShadowNeverLonger')
  BY <1>1, EnqueueStep
<1>2. ASSUME NEW t \in Track, EnqueueNext(t)
      PROVE  TypeOK' /\ (ShadowNeverLonger => ShadowNeverLonger')
  BY <1>2, EnqueueNextStep
<1>3. ASSUME NEW p \in Position, RemoveEntry(p)
      PROVE  TypeOK' /\ (ShadowNeverLonger => ShadowNeverLonger')
  BY <1>3, RemoveEntryStep
<1>4. ASSUME NEW from \in Position, NEW to \in Position, MoveItem(from, to)
      PROVE  TypeOK' /\ (ShadowNeverLonger => ShadowNeverLonger')
  BY <1>4, MoveItemStep
<1>5. CASE Clear
  BY <1>5, ClearStep
<1>6. CASE NextTrack
  BY <1>6, NextTrackStep
<1>7. CASE PrevTrack
  BY <1>7, PrevTrackStep
<1>8. ASSUME NEW on \in BOOLEAN, SetShuffle(on)
      PROVE  TypeOK' /\ (ShadowNeverLonger => ShadowNeverLonger')
  BY <1>8, SetShuffleStep
<1>9. ASSUME NEW m \in RepeatMode, SetRepeat(m)
      PROVE  TypeOK' /\ (ShadowNeverLonger => ShadowNeverLonger')
  BY <1>9 DEF TypeOK, SetRepeat, ShadowNeverLonger
<1>10. CASE UNCHANGED vars
  BY <1>10 DEF TypeOK, vars, ShadowNeverLonger
<1> QED
  BY <1>1, <1>2, <1>3, <1>4, <1>5, <1>6, <1>7, <1>8, <1>9, <1>10 DEF Next

(* The fields of the queue always hold values of their types: in particular
   `current` and the lists only ever hold tracks that were enqueued. *)
THEOREM TypeCorrect == Spec => []TypeOK
<1>1. Init => TypeOK
  BY QueueInit
<1>2. TypeOK /\ [Next]_vars => TypeOK'
  BY QueueStep
<1> QED
  BY <1>1, <1>2, PTL DEF Spec

(* However the operations follow each other, the shadow list is never longer
   than the upcoming list: shuffle-off can shorten the queue and never
   lengthens it, and the bounds test of `remove` is the only one needed. *)
THEOREM ShadowBounded == Spec => []ShadowNeverLonger
<1>1. Init => TypeOK /\ ShadowNeverLonger
  BY QueueInit
<1>2. TypeOK /\ ShadowNeverLonger /\ [Next]_vars => TypeOK' /\ ShadowNeverLonger'
  BY QueueStep
<1> QED
  BY <1>1, <1>2, PTL DEF Spec

-----------------------------------------------------------------------------
(* The shadow list is the upcoming list itself while shuffle is off, except
   for the two operations which break it: `prev` pushes the current track on
   the upcoming list alone, `move_item` reorders the upcoming list alone. *)

(* A step of any other operation. *)
KeepsOrder ==
    \/ \E t \in Track : Enqueue(t) \/ EnqueueNext(t)
    \/ \E p \in Position : RemoveEntry(p)
    \/ Clear
    \/ NextTrack
    \/ \E on \in BOOLEAN : SetShuffle(on)
    \/ \E m \in RepeatMode : SetRepeat(m)

LEMMA InOrderStep ==
    ASSUME TypeOK, InOrderShadow, [KeepsOrder]_vars
    PROVE  InOrderShadow'
<1>1. SUFFICES ASSUME ~shuffle' PROVE original_order' = up_next'
  BY DEF InOrderShadow
<1>2. shuffle' = shuffle => original_order = up_next
  BY <1>1 DEF InOrderShadow
<1>3. ASSUME NEW t \in Track, Enqueue(t)
      PROVE  original_order' = up_next'
  BY <1>2, <1>3 DEF Enqueue
<1>4. ASSUME NEW t \in Track, EnqueueNext(t)
      PROVE  original_order' = up_next'
  BY <1>2, <1>4 DEF EnqueueNext
<1>5. ASSUME NEW p \in Position, RemoveEntry(p)
      PROVE  original_order' = up_next'
  <2>1. original_order = up_next
    BY <1>2, <1>5 DEF RemoveEntry
  <2>2. CASE RemoveFromHistory(p)
    BY <2>1, <2>2 DEF RemoveFromHistory
  <2>3. CASE RemoveCurrent(p)
    BY <2>1, <2>3 DEF RemoveCurrent
  <2>4. CASE RemoveUpcoming(p)
    <3> DEFINE i == p - Len(history) - Len(CurrentEntry) + 1
    <3>1. /\ i \in 1 .. Len(up_next) /\ up_next' = RemoveAt(up_next, i)
          /\ original_order' = IF i <= Len(original_order)
                               THEN RemoveAt(original_order, i) ELSE original_order
      BY <2>4 DEF RemoveUpcoming
    <3> HIDE DEF i
    <3>2. i <= Len(original_order)
      BY <2>1, <3>1, ListLengths
    <3> QED
      BY <2>1, <3>1, <3>2
  <2>5. CASE UNCHANGED <<history, current, up_next, original_order>>
    BY <2>1, <2>5
  <2> QED
    BY <1>5, <2>2, <2>3, <2>4, <2>5 DEF RemoveEntry
<1>6. CASE Clear
  BY <1>6 DEF Clear
<1>7. CASE NextTrack
  <2>1. original_order = up_next
    BY <1>2, <1>7 DEF NextTrack
  <2>2. CASE PlayUpcoming
    BY <2>1, <2>2 DEF PlayUpcoming
  <2>3. CASE LoopAround
    BY <2>3 DEF LoopAround
  <2>4. CASE UNCHANGED <<up_next, original_order>>
    BY <2>1, <2>4
  <2> QED
    BY <1>7, <2>2, <2>3, <2>4 DEF NextTrack, Exhaust
<1>8. ASSUME NEW on \in BOOLEAN, SetShuffle(on)
      PROVE  original_order' = up_next'
  BY <1>1, <1>2, <1>8 DEF SetShuffle, TypeOK
<1>9. ASSUME NEW m \in RepeatMode, SetRepeat(m)
      PROVE  original_order' = up_next'
  BY <1>2, <1>9 DEF SetRepeat
<1>10. CASE UNCHANGED vars
  BY <1>2, <1>10 DEF vars
<1> QED
  BY <1>3, <1>4, <1>5, <1>6, <1>7, <1>8, <1>9, <1>10 DEF KeepsOrder

(* In every state any client can bring the queue to, only `prev` and `move_item`
   take the shadow list out of step with the upcoming list. *)
THEOREM OnlyPrevAndMoveBreakOrder == Spec => InOrderKept
<1>1. TypeOK /\ [Next]_vars =>
        [ InOrderShadow => \/ InOrderShadow'
                           \/ PrevTrack
                           \/ \E from, to \in Position : MoveItem(from, to) ]_vars
  <2>1. SUFFICES ASSUME TypeOK, Next, InOrderShadow,
                        ~PrevTrack, \A from, to \in Position : ~MoveItem(from, to)
                 PROVE  InOrderShadow'
    OBVIOUS
  <2>2. KeepsOrder
    BY <2>1 DEF Next, KeepsOrder
  <2> QED
    BY <2>1, <2>2, InOrderStep
<1>2. Spec => []TypeOK
  BY TypeCorrect
<1> QED
  BY <1>1, <1>2, PTL DEF Spec, InOrderKept

(* A client that never calls `prev` and `move_item` can rely on `remove`
   taking the entry it shows out of both lists, and on shuffle-off restoring
   exactly what it had, as long as shuffle has been off since. *)
THEOREM ShadowInOrder ==
    ASSUME "prev" \notin Ops, "move_item" \notin Ops
    PROVE  Spec => []InOrderShadow
<1>1. Init => InOrderShadow
  BY DEF Init, InOrderShadow
<1>2. TypeOK /\ InOrderShadow /\ [Next]_vars => InOrderShadow'
  <2>1. Next => KeepsOrder
    BY DEF Next, KeepsOrder
  <2> QED
    BY <2>1, InOrderStep
<1>3. Spec => []TypeOK
  BY TypeCorrect
<1> QED
  BY <1>1, <1>2, <1>3, PTL DEF Spec

-----------------------------------------------------------------------------
(* `next` and the view the client sees. *)

LEMMA HeadThenTail ==
    ASSUME NEW S, NEW s \in Seq(S), s # <<>>
    PROVE  <<Head(s)>> \o Tail(s) = s
<1>1. Len(s) \in Nat \ {0}
  BY EmptySeq
<1>2. SubSeq(s, 1, Len(s)) = <<s[1]>> \o SubSeq(s, 2, Len(s))
  BY <1>1, SubSeqRecursiveFirst
<1>3. SubSeq(s, 1, Len(s)) = s
  BY SubSeqFull
<1>4. Tail(s) = SubSeq(s, 2, Len(s))
  BY TailIsSubSeq
<1>5. Head(s) = s[1]
  BY <1>1
<1> QED
  BY <1>2, <1>3, <1>4, <1>5

LEMMA NextKeepsSnapshotStep ==
    ASSUME TypeOK, NextTrack
    PROVE  Snapshot' = Snapshot
<1> DEFINE played == history \o CurrentEntry
<1>1. played \in Seq(Track) /\ up_next \in Seq(Track)
  BY PlayedProperties DEF TypeOK
<1>2. NoTrack \notin Track
  BY TrackAssumption
<1>3. Snapshot = played \o up_next
  BY DEF Snapshot
<1>4. Snapshot' = (history' \o CurrentEntry') \o up_next'
  BY DEF Snapshot
<1>5. CASE UNCHANGED <<history, current, up_next, original_order>>
  BY <1>5 DEF Snapshot, CurrentEntry
<1>6. CASE PlayUpcoming
  <2>1. /\ up_next # <<>> /\ history' = played
        /\ current' = Head(up_next) /\ up_next' = Tail(up_next)
    BY <1>6 DEF PlayUpcoming
  <2> HIDE DEF played
  <2>2. Head(up_next) \in Track /\ Tail(up_next) \in Seq(Track)
    BY <1>1, <2>1, HeadTailProperties
  <2>3. CurrentEntry' = <<Head(up_next)>>
    BY <1>2, <2>1, <2>2 DEF CurrentEntry
  <2>4. (played \o <<Head(up_next)>>) \o Tail(up_next)
            = played \o (<<Head(up_next)>> \o Tail(up_next))
    <3>1. <<Head(up_next)>> \in Seq(Track)
      BY <2>2
    <3> QED
      BY <1>1, <2>2, <3>1, ConcatAssociative
  <2>5. <<Head(up_next)>> \o Tail(up_next) = up_next
    BY <1>1, <2>1, HeadThenTail
  <2> QED
    BY <1>3, <1>4, <2>1, <2>3, <2>4, <2>5
<1>7. CASE LoopAround
  <2>1. /\ up_next = <<>> /\ played # <<>> /\ history' = <<>>
        /\ current' = Head(played) /\ up_next' = Tail(played)
    BY <1>7 DEF LoopAround
  <2> HIDE DEF played
  <2>2. Head(played) \in Track /\ Tail(played) \in Seq(Track)
    BY <1>1, <2>1, HeadTailProperties
  <2>3. CurrentEntry' = <<Head(played)>> /\ <<Head(played)>> \in Seq(Track)
    BY <1>2, <2>1, <2>2 DEF CurrentEntry
  <2>4. history' \o CurrentEntry' = <<Head(played)>>
    BY <2>1, <2>3, ConcatEmptySeq
  <2>5. <<Head(played)>> \o Tail(played) = played
    BY <1>1, <2>1, HeadThenTail
  <2>6. played \o up_next = played
    BY <1>1, <2>1, ConcatEmptySeq
  <2> QED
    BY <1>3, <1>4, <2>1, <2>4, <2>5, <2>6
<1>8. CASE Exhaust
  <2>1. up_next = <<>> /\ up_next' = up_next /\ history' = played /\ current' = NoTrack
    BY <1>8 DEF Exhaust
  <2>2. CurrentEntry' = <<>>
    BY <2>1 DEF CurrentEntry
  <2> HIDE DEF played
  <2>3. history' \o CurrentEntry' = played
    BY <1>1, <2>1, <2>2, ConcatEmptySeq
  <2> QED
    BY <1>3, <1>4, <2>1, <2>3
<1> QED
  BY <1>5, <1>6, <1>7, <1>8 DEF NextTrack

(* Pressing next never reorders, drops or adds an entry of the list on the
   screen, whatever the modes and whatever was done to the queue before. *)
THEOREM NextIsPure == Spec => NextKeepsSnapshot
<1>1. TypeOK /\ [Next]_vars => [NextTrack => Snapshot' = Snapshot]_vars
  BY NextKeepsSnapshotStep
<1>2. Spec => []TypeOK
  BY TypeCorrect
<1> QED
  BY <1>1, <1>2, PTL DEF Spec, NextKeepsSnapshot

-----------------------------------------------------------------------------
(* The queue implements the listener's tape: one lemma for every operation. *)

Played == history \o CurrentEntry

LEMMA TapeParts ==
    ASSUME TypeOK
    PROVE  /\ Snapshot = Played \o up_next
           /\ Snapshot \in Seq(Track) /\ Len(Snapshot) = Len(Played) + Len(up_next)
           /\ Played \in Seq(Track) /\ Len(Played) \in Nat
           /\ up_next \in Seq(Track) /\ Len(up_next) \in Nat
           /\ history \in Seq(Track) /\ Len(history) \in Nat
           /\ Len(Played) = Len(history) + Len(CurrentEntry)
           /\ P!Done = Len(Played)
<1>1. /\ history \in Seq(Track) /\ Len(history) \in Nat
      /\ up_next \in Seq(Track) /\ Len(up_next) \in Nat
  BY LenProperties DEF TypeOK
<1>2. CurrentEntry \in Seq(Track) /\ Len(CurrentEntry) \in 0 .. 1
  BY CurrentEntryProperties
<1>3. Played \in Seq(Track) /\ Len(Played) = Len(history) + Len(CurrentEntry)
  BY <1>1, <1>2, ConcatProperties DEF Played
<1>4. Snapshot = Played \o up_next
  BY DEF Snapshot, Played
<1>5. Played \o up_next \in Seq(Track) /\ Len(Played \o up_next) = Len(Played) + Len(up_next)
  BY <1>1, <1>3, ConcatProperties
<1>6. Len(CurrentEntry) = IF current # NoTrack THEN 1 ELSE 0
  BY <1>2, CurrentEntryProperties
<1>7. P!Done = Len(history) + Len(CurrentEntry)
  BY <1>6, Zenon DEF P!Done
<1> QED
  BY <1>1, <1>2, <1>3, <1>4, <1>5, <1>7

(* Playlist's helpers are Queue's. *)
LEMMA SameHelpers ==
    /\ \A s, i, e : P!InsertAt(s, i, e) = InsertAt(s, i, e)
    /\ \A s, i : P!RemoveAt(s, i) = RemoveAt(s, i)
BY Zenon DEF InsertAt, RemoveAt, P!InsertAt, P!RemoveAt

LEMMA EnqueueMaps ==
    ASSUME TypeOK, NEW t \in Track, Enqueue(t)
    PROVE  P!AddLast(t)
<1>1. up_next' = Append(up_next, t) /\ UNCHANGED <<history, current, mode>>
  BY DEF Enqueue
<1>2. <<t>> \in Seq(Track)
  OBVIOUS
<1>3. Append(up_next, t) = up_next \o <<t>>
  BY TapeParts, AppendIsConcat
<1>4. Append(Played \o up_next, t) = (Played \o up_next) \o <<t>>
  BY TapeParts, AppendIsConcat
<1>5. (Played \o up_next) \o <<t>> = Played \o (up_next \o <<t>>)
  BY <1>2, TapeParts, ConcatAssociative
<1>6. Snapshot' = Played \o up_next'
  BY <1>1, Zenon DEF Snapshot, Played, CurrentEntry
<1>7. Snapshot' = Append(Snapshot, t)
  BY <1>1, <1>3, <1>4, <1>5, <1>6, TapeParts
<1> QED
  BY <1>1, <1>7, Zenon DEF P!AddLast

LEMMA EnqueueNextMaps ==
    ASSUME TypeOK, NEW t \in Track, EnqueueNext(t)
    PROVE  P!AddNext(t)
<1>1. up_next' = <<t>> \o up_next /\ UNCHANGED <<history, current, mode>>
  BY DEF EnqueueNext
<1>2. InsertAt(Played \o up_next, Len(Played) + 1, t) = Played \o (<<t>> \o up_next)
  BY TapeParts, InsertAtSeam
<1>3. Snapshot' = Played \o up_next'
  BY <1>1, Zenon DEF Snapshot, Played, CurrentEntry
<1>4. Snapshot' = InsertAt(Snapshot, P!Done + 1, t)
  BY <1>1, <1>2, <1>3, TapeParts
<1> QED
  BY <1>1, <1>4, SameHelpers, Zenon DEF P!AddNext

(* A removal at a position of the view takes out the entry shown there, in
   whichever list it is. *)
LEMMA RemoveEntryMaps ==
    ASSUME TypeOK, NEW position \in Position, RemoveEntry(position)
    PROVE  \/ \E i \in DOMAIN Snapshot : P!Delete(i)
           \/ UNCHANGED P!vars
<1> DEFINE d == position + 1
<1>1. position \in Nat /\ UNCHANGED mode
  BY BoundAssumption DEF Position, RemoveEntry
<1>2. /\ Snapshot = (history \o CurrentEntry) \o up_next
      /\ CurrentEntry \in Seq(Track) /\ Len(CurrentEntry) \in 0 .. 1
  BY CurrentEntryProperties DEF Snapshot
<1>3. DOMAIN Snapshot = 1 .. Len(Snapshot)
  BY TapeParts, LenProperties
<1>4. CASE RemoveFromHistory(position)
  <2>1. /\ history' = RemoveAt(history, d) /\ UNCHANGED <<current, up_next>>
        /\ d \in 1 .. Len(history) /\ position < Len(history)
    BY <1>1, <1>4, TapeParts DEF RemoveFromHistory
  <2> HIDE DEF d
  <2>2. RemoveAt(history, d) \in Seq(Track) /\ Len(RemoveAt(history, d)) = Len(history) - 1
    BY <2>1, TapeParts, RemoveAtProperties
  <2>3. RemoveAt(history \o CurrentEntry, d) = RemoveAt(history, d) \o CurrentEntry
    BY <1>2, <2>1, TapeParts, RemoveAtLeft
  <2>4. d \in 1 .. Len(Played)
    BY <1>2, <2>1, TapeParts
  <2>5. RemoveAt(Played \o up_next, d) = RemoveAt(Played, d) \o up_next
    BY <2>4, TapeParts, RemoveAtLeft
  <2>6. Snapshot' = (RemoveAt(history, d) \o CurrentEntry) \o up_next
    BY <2>1, Zenon DEF Snapshot, CurrentEntry
  <2>7. Snapshot' = RemoveAt(Snapshot, d)
    BY <2>3, <2>5, <2>6, TapeParts DEF Played
  <2>8. d \in DOMAIN Snapshot /\ d <= Len(history) /\ d # Len(history) + 1
    BY <1>3, <2>1, <2>4, TapeParts
  <2>9. Len(history') = IF d <= Len(history) THEN Len(history) - 1 ELSE Len(history)
    BY <2>1, <2>2, <2>8
  <2>10. (current' # NoTrack) = (current # NoTrack /\ d # Len(history) + 1)
    BY <2>1, <2>8, Zenon
  <2>11. P!Delete(d)
    BY <1>1, <2>7, <2>8, <2>9, <2>10, SameHelpers, Zenon DEF P!Delete
  <2> QED
    BY <2>8, <2>11, Zenon
<1>5. CASE RemoveCurrent(position)
  <2>1. /\ position = Len(history) /\ current # NoTrack /\ current' = NoTrack
        /\ UNCHANGED <<history, up_next>>
    BY <1>5 DEF RemoveCurrent
  <2>2. CurrentEntry = <<current>> /\ current \in Track
    BY <2>1 DEF CurrentEntry, TypeOK
  <2>3. CurrentEntry' = <<>>
    BY <2>1 DEF CurrentEntry
  <2>4. RemoveAt(<<current>>, 1) = <<>>
    BY <2>2 DEF RemoveAt
  <2>5. <<current>> \in Seq(Track) /\ 1 \in 1 .. Len(<<current>>) /\ Len(<<current>>) = 1
    BY <2>2
  <2>6. RemoveAt(history \o <<current>>, Len(history) + 1) = history \o <<>>
    <3> DEFINE one == <<current>>
    <3>1. one \in Seq(Track) /\ 1 \in 1 .. Len(one) /\ RemoveAt(one, 1) = <<>>
      BY <2>4, <2>5
    <3> HIDE DEF one
    <3>2. RemoveAt(history \o one, Len(history) + 1) = history \o RemoveAt(one, 1)
      BY <3>1, TapeParts, RemoveAtRight
    <3> QED
      BY <3>1, <3>2, Zenon DEF one
  <2>7. d = Len(history) + 1 /\ d \in 1 .. Len(Played)
    BY <2>1, <2>2, <2>5, TapeParts
  <2> HIDE DEF d
  <2>8. RemoveAt(Played \o up_next, d) = RemoveAt(Played, d) \o up_next
    BY <2>7, TapeParts, RemoveAtLeft
  <2>9. Snapshot' = (history \o <<>>) \o up_next
    BY <2>1, <2>3, Zenon DEF Snapshot
  <2>10. Snapshot' = RemoveAt(Snapshot, d)
    BY <2>2, <2>6, <2>7, <2>8, <2>9, TapeParts DEF Played
  <2>11. d \in DOMAIN Snapshot /\ ~ (d <= Len(history))
    BY <1>3, <2>7, TapeParts
  <2>12. (current' # NoTrack) = (current # NoTrack /\ d # Len(history) + 1)
    BY <2>1, <2>7, Zenon
  <2>13. P!Delete(d)
    BY <1>1, <2>1, <2>10, <2>11, <2>12, SameHelpers, Zenon DEF P!Delete
  <2> QED
    BY <2>11, <2>13, Zenon
<1>6. CASE RemoveUpcoming(position)
  <2> DEFINE i == position - Len(history) - Len(CurrentEntry) + 1
  <2>1. /\ i \in 1 .. Len(up_next) /\ up_next' = RemoveAt(up_next, i)
        /\ UNCHANGED <<history, current>>
    BY <1>6 DEF RemoveUpcoming
  <2>2. /\ Len(Played) = Len(history) + Len(CurrentEntry) /\ Len(history) \in Nat
        /\ Len(up_next) \in Nat /\ Len(Snapshot) = Len(Played) + Len(up_next)
        /\ Len(CurrentEntry) \in 0 .. 1 /\ (current # NoTrack => Len(CurrentEntry) = 1)
    BY <1>2, TapeParts, CurrentEntryProperties, Zenon
  <2>3. /\ d = Len(Played) + i /\ d \in 1 .. Len(Snapshot)
        /\ ~ (d <= Len(history)) /\ (current # NoTrack => d # Len(history) + 1)
    <3> DEFINE h == Len(history)
               c == Len(CurrentEntry)
               u == Len(up_next)
    <3>1. /\ h \in Nat /\ c \in 0 .. 1 /\ u \in Nat /\ position \in Nat
          /\ i = position - h - c + 1 /\ i \in 1 .. u
      BY <1>1, <2>1, <2>2, Zenon
    <3> HIDE DEF h, c, u, i
    <3>2. /\ position + 1 = (h + c) + i /\ position + 1 \in 1 .. (h + c) + u
          /\ ~ (position + 1 <= h) /\ (c = 1 => position + 1 # h + 1)
      BY <3>1
    <3> QED
      BY <2>2, <3>2, Zenon DEF h, c, u
  <2> HIDE DEF i, d
  <2>4. RemoveAt(Played \o up_next, Len(Played) + i) = Played \o RemoveAt(up_next, i)
    BY <2>1, TapeParts, RemoveAtRight
  <2>5. Snapshot' = Played \o RemoveAt(up_next, i)
    BY <2>1, Zenon DEF Snapshot, Played, CurrentEntry
  <2>6. Snapshot' = RemoveAt(Snapshot, d)
    BY <2>3, <2>4, <2>5, TapeParts
  <2>7. (current' # NoTrack) = (current # NoTrack /\ d # Len(history) + 1)
    BY <2>1, <2>3, Zenon
  <2>8. d \in DOMAIN Snapshot
    BY <1>3, <2>3
  <2>9. P!Delete(d)
    BY <1>1, <2>1, <2>3, <2>6, <2>7, <2>8, SameHelpers, Zenon DEF P!Delete
  <2> QED
    BY <2>8, <2>9, Zenon
<1>7. CASE UNCHANGED <<history, current, up_next, original_order>>
  BY <1>1, <1>7, Zenon DEF P!vars, Snapshot, CurrentEntry
<1> QED
  BY <1>4, <1>5, <1>6, <1>7, Zenon DEF RemoveEntry

LEMMA MoveItemMaps ==
    ASSUME TypeOK, NEW from \in Position, NEW to \in Position, MoveItem(from, to)
    PROVE  \E i, j \in DOMAIN Snapshot : P!Move(i, j)
<1> DEFINE h == Len(history)
           c == Len(CurrentEntry)
           flat == Moved(Snapshot, from + 1, to + 1)
<1>1. from \in Nat /\ to \in Nat /\ from < QueueLen /\ to < QueueLen
  BY BoundAssumption DEF Position, MoveItem
<1>2. /\ Snapshot \in Seq(Track) /\ Len(Snapshot) = QueueLen /\ QueueLen \in Nat
      /\ from + 1 \in 1 .. Len(Snapshot) /\ to + 1 \in 1 .. Len(Snapshot)
  BY <1>1, SnapshotProperties
<1>3. flat \in Seq(Track) /\ Len(flat) = QueueLen
  BY <1>2, MovedProperties
<1>4. /\ history' = SubSeq(flat, 1, h)
      /\ current' = IF c = 1 THEN flat[h + 1] ELSE NoTrack
      /\ up_next' = SubSeq(flat, h + c + 1, Len(flat))
      /\ UNCHANGED mode
  BY DEF MoveItem, Moved
<1>5. flat = InsertAt(RemoveAt(Snapshot, from + 1), to + 1, Snapshot[from + 1])
  BY DEF Moved
<1> HIDE DEF flat
<1>6. h \in Nat /\ c \in 0 .. 1 /\ Len(flat) = h + c + Len(up_next) /\ Len(up_next) \in Nat
  BY <1>3, ListLengths, CurrentEntryProperties DEF QueueLen
<1>7. /\ SubSeq(flat, 1, h) \in Seq(Track)
      /\ Len(SubSeq(flat, 1, h)) = h
  <2>1. 1 \in 1 .. Len(flat) + 1 /\ h \in 0 .. Len(flat)
    BY <1>6
  <2>2. /\ SubSeq(flat, 1, h) \in Seq(Track)
        /\ Len(SubSeq(flat, 1, h)) = IF 1 <= h THEN h - 1 + 1 ELSE 0
    BY <1>3, <2>1, Segment
  <2> QED
    BY <1>6, <2>2
<1>8. CurrentEntry' = SubSeq(flat, h + 1, h + c)
  <2>1. CASE c = 1
    <3>1. h + 1 \in 1 .. Len(flat)
      BY <1>6, <2>1
    <3>2. flat[h + 1] \in Track
      BY <1>3, <3>1, ElementOfSeq
    <3>3. CurrentEntry' = <<flat[h + 1]>>
      BY <1>4, <2>1, <3>2, TrackAssumption, Zenon DEF CurrentEntry
    <3>4. SubSeq(flat, h + 1, h + 1) = <<flat[h + 1]>>
      <4> DEFINE n == h + 1
                 one == SubSeq(flat, n, n)
      <4>1. n \in 1 .. Len(flat) /\ n \in 1 .. Len(flat) + 1 /\ n \in 0 .. Len(flat)
        BY <1>6, <3>1
      <4> HIDE DEF n
      <4>2. /\ one \in Seq(Track) /\ Len(one) = IF n <= n THEN n - n + 1 ELSE 0
            /\ \A k \in 1 .. n - n + 1 : one[k] = flat[n + k - 1]
        BY <1>3, <4>1, Segment
      <4> HIDE DEF one
      <4>3. Len(one) = 1 /\ one[1] = flat[n]
        BY <4>1, <4>2
      <4>4. <<flat[n]>> \in Seq(Track) /\ Len(<<flat[n]>>) = 1 /\ <<flat[n]>>[1] = flat[n]
        BY <3>2 DEF n
      <4>5. one = <<flat[n]>>
        BY <4>2, <4>3, <4>4, SeqEqual
      <4> QED
        BY <4>5 DEF one, n
    <3> QED
      BY <2>1, <3>3, <3>4
  <2>2. CASE c = 0
    <3>1. CurrentEntry' = <<>>
      BY <1>4, <2>2 DEF CurrentEntry
    <3>2. SubSeq(flat, h + 1, h) = <<>>
      BY <1>3, <1>6
    <3>3. h + c = h
      BY <1>6, <2>2
    <3> QED
      BY <3>1, <3>2, <3>3
  <2> QED
    BY <1>6, <2>1, <2>2
<1>9. (current' # NoTrack) = (current # NoTrack)
  <2>1. CASE c = 1
    <3>1. h + 1 \in 1 .. Len(flat)
      BY <1>6, <2>1
    <3>2. flat[h + 1] \in Track
      BY <1>3, <3>1, ElementOfSeq
    <3>3. current' # NoTrack /\ current # NoTrack
      BY <1>4, <2>1, <3>2, TrackAssumption, CurrentEntryProperties, Zenon
    <3> QED
      BY <3>3, Zenon
  <2>2. CASE c = 0
    <3>1. c # 1
      BY <2>2
    <3>2. current' = NoTrack /\ current = NoTrack
      BY <1>4, <3>1, CurrentEntryProperties, Zenon
    <3> QED
      BY <3>2, Zenon
  <2> QED
    BY <1>6, <2>1, <2>2
<1>10. (SubSeq(flat, 1, h) \o SubSeq(flat, h + 1, h + c)) \o SubSeq(flat, h + c + 1, Len(flat)) = flat
  <2>1. h \in 0 .. Len(flat) /\ h + c \in h .. Len(flat)
    BY <1>6
  <2> QED
    BY <1>3, <2>1, CutInThree
<1>11. Snapshot' = flat
  BY <1>4, <1>8, <1>10, Zenon DEF Snapshot
<1>12. Len(history') = Len(history)
  BY <1>4, <1>7
<1>13. from + 1 \in DOMAIN Snapshot /\ to + 1 \in DOMAIN Snapshot
  BY <1>2, LenProperties
<1>14. P!Move(from + 1, to + 1)
  BY <1>4, <1>5, <1>9, <1>11, <1>12, <1>13, SameHelpers, Zenon DEF P!Move
<1> QED
  BY <1>13, <1>14, Zenon

LEMMA ClearMaps ==
    ASSUME TypeOK, Clear
    PROVE  P!Empty
<1>1. history' = <<>> /\ current' = NoTrack /\ up_next' = <<>> /\ UNCHANGED mode
  BY DEF Clear
<1>2. CurrentEntry' = <<>>
  BY <1>1 DEF CurrentEntry
<1>3. (<<>> \o <<>>) \o <<>> = <<>>
  OBVIOUS
<1>4. Snapshot' = <<>>
  BY <1>1, <1>2, <1>3, Zenon DEF Snapshot
<1>5. Len(<<>>) = 0
  OBVIOUS
<1>6. Len(history') = 0
  BY <1>1, <1>5, Zenon
<1>7. (current' # NoTrack) = FALSE
  BY <1>1, Zenon
<1> QED
  BY <1>1, <1>4, <1>6, <1>7, Zenon DEF P!Empty

LEMMA NextTrackMaps ==
    ASSUME TypeOK, NextTrack
    PROVE  P!Advance \/ UNCHANGED P!vars
<1>1. Snapshot' = Snapshot /\ UNCHANGED mode
  BY NextKeepsSnapshotStep DEF NextTrack
<1>2. CASE Repeating /\ UNCHANGED <<history, current, up_next, original_order>>
  BY <1>1, <1>2, Zenon DEF P!vars
<1>3. CASE ~Repeating /\ PlayUpcoming
  <2>1. /\ up_next # <<>> /\ history' = Played /\ current' = Head(up_next)
        /\ ~ (mode = "one" /\ current # NoTrack)
    BY <1>3, Zenon DEF PlayUpcoming, Repeating, Played
  <2>2. Head(up_next) \in Track /\ Len(up_next) # 0
    BY <2>1, TapeParts, HeadTailProperties, EmptySeq
  <2>3. P!Done < Len(Snapshot) /\ Len(history') = P!Done
    BY <2>1, <2>2, TapeParts
  <2>4. (current' # NoTrack) = TRUE
    BY <2>1, <2>2, TrackAssumption, Zenon
  <2> QED
    BY <1>1, <2>1, <2>3, <2>4, Zenon DEF P!Advance
<1>4. CASE ~Repeating /\ LoopAround
  <2>1. /\ up_next = <<>> /\ mode = "all" /\ Played # <<>> /\ history' = <<>>
        /\ current' = Head(Played) /\ ~ (mode = "one" /\ current # NoTrack)
    BY <1>4, Zenon DEF LoopAround, Repeating, Played
  <2>2. Head(Played) \in Track
    BY <2>1, TapeParts, HeadTailProperties
  <2>3. Len(<<>>) = 0
    OBVIOUS
  <2>4. Len(history') = 0 /\ Len(up_next) = 0
    BY <2>1, <2>3, Zenon
  <2>5. P!Done = Len(Snapshot) /\ Len(Snapshot) # 0
    BY <2>1, <2>4, TapeParts, EmptySeq
  <2>6. Snapshot # <<>>
    BY <2>3, <2>5, Zenon
  <2>7. (current' # NoTrack) = TRUE
    BY <2>1, <2>2, TrackAssumption, Zenon
  <2> QED
    BY <1>1, <2>1, <2>4, <2>5, <2>6, <2>7, Zenon DEF P!Advance
<1>5. CASE ~Repeating /\ Exhaust
  <2>1. /\ up_next = <<>> /\ history' = Played /\ current' = NoTrack
        /\ ~ (mode = "all" /\ Played # <<>>) /\ ~ (mode = "one" /\ current # NoTrack)
    BY <1>5, Zenon DEF Exhaust, Repeating, Played
  <2>2. Len(<<>>) = 0
    OBVIOUS
  <2>3. Len(up_next) = 0
    BY <2>1, <2>2, Zenon
  <2>4. P!Done = Len(Snapshot) /\ Len(history') = P!Done
    BY <2>1, <2>3, TapeParts
  <2>5. Played \o <<>> = Played
    BY TapeParts, ConcatEmptySeq
  <2>6. mode # "all" \/ Snapshot = <<>>
    BY <2>1, <2>5, TapeParts, Zenon
  <2>7. (current' # NoTrack) = FALSE
    BY <2>1, Zenon
  <2> QED
    BY <1>1, <2>1, <2>4, <2>6, <2>7, Zenon DEF P!Advance
<1> QED
  BY <1>2, <1>3, <1>4, <1>5, Zenon DEF NextTrack

(* Going back leaves a copy of the track it plays in front of the upcoming
   ones, behind the track that was playing. *)
LEMMA PrevTrackMaps ==
    ASSUME TypeOK, PrevTrack
    PROVE  P!GoBack \/ UNCHANGED P!vars
<1>1. UNCHANGED mode
  BY DEF PrevTrack
<1>2. CASE Repeating /\ UNCHANGED <<history, current, up_next, original_order>>
  BY <1>1, <1>2, Zenon DEF P!vars, Snapshot, CurrentEntry
<1>3. CASE ~Repeating /\ StepBack
  <2> DEFINE t == Last(history)
             f == Front(history)
             e == CurrentEntry
             one == <<t>>
  <2>1. /\ history # <<>> /\ history' = f /\ current' = t
        /\ up_next' = (e \o one) \o up_next /\ ~ (mode = "one" /\ current # NoTrack)
    BY <1>3, Zenon DEF StepBack, Repeating
  <2>2. /\ f \in Seq(Track) /\ Len(f) = Len(history) - 1 /\ t \in Track
        /\ f \o one = history
    BY <2>1, TapeParts, FrontThenLast
  <2>3. t = history[Len(history)] /\ Len(history) > 0
    BY <2>1, TapeParts, EmptySeq DEF Last
  <2>4. e \in Seq(Track)
    BY CurrentEntryProperties
  <2> HIDE DEF t, f, e
  <2>5. one \in Seq(Track) /\ CurrentEntry' = one
    <3>1. t # NoTrack
      BY <2>2, TrackAssumption, Zenon
    <3> QED
      BY <2>1, <2>2, <3>1 DEF CurrentEntry
  <2> HIDE DEF one
  <2>6. Snapshot' = history \o ((e \o one) \o up_next)
    BY <2>1, <2>2, <2>5, Zenon DEF Snapshot
  <2>7. one \in Seq(Track) /\ up_next \in Seq(Track) /\ history \in Seq(Track)
    BY <2>5, TapeParts, Zenon
  <2>8. (e \o one) \o up_next = e \o (one \o up_next)
    BY <2>4, <2>7, ConcatAssociative
  <2>9. history \o (e \o (one \o up_next)) = (history \o e) \o (one \o up_next)
    <3> DEFINE w == one \o up_next
    <3>1. w \in Seq(Track)
      BY <2>7, ConcatProperties
    <3> HIDE DEF w
    <3>2. \A a, b, c \in Seq(Track) : (a \o b) \o c = a \o (b \o c)
      BY ConcatAssociative
    <3> QED
      BY <2>4, <2>7, <3>1, <3>2, Zenon DEF w
  <2>10. InsertAt(Played \o up_next, Len(Played) + 1, t) = Played \o (<<t>> \o up_next)
    BY <2>2, TapeParts, InsertAtSeam
  <2>11. Played = history \o e
    BY DEF Played, e
  <2>12. Snapshot' = InsertAt(Snapshot, P!Done + 1, t)
    BY <2>6, <2>8, <2>9, <2>10, <2>11, TapeParts, Zenon DEF one
  <2>13. Snapshot[Len(history)] = t
    <3>1. /\ \A i \in 1 .. Len(Played) + Len(up_next) :
                (Played \o up_next)[i] = IF i <= Len(Played) THEN Played[i]
                                         ELSE up_next[i - Len(Played)]
      BY TapeParts, ConcatProperties
    <3>2. \A i \in 1 .. Len(history) + Len(e) :
                (history \o e)[i] = IF i <= Len(history) THEN history[i]
                                    ELSE e[i - Len(history)]
      BY <2>4, TapeParts, ConcatProperties
    <3>3. Len(e) \in Nat /\ Len(Played) = Len(history) + Len(e)
      BY <2>4, TapeParts, LenProperties DEF e
    <3>4. Len(history) \in Nat /\ Len(up_next) \in Nat /\ Len(history) > 0
      BY <2>3, TapeParts, Zenon
    <3>5. Len(history) \in 1 .. Len(Played) + Len(up_next) /\ Len(history) <= Len(Played)
      BY <3>3, <3>4
    <3>6. (Played \o up_next)[Len(history)] = Played[Len(history)]
      BY <3>1, <3>5
    <3>7. Len(history) \in 1 .. Len(history) + Len(e) /\ Len(history) <= Len(history)
      BY <3>3, <3>4
    <3>8. (history \o e)[Len(history)] = history[Len(history)]
      BY <3>2, <3>7
    <3> QED
      BY <2>3, <2>11, <3>6, <3>8, TapeParts, Zenon
  <2>14. Len(history') = Len(history) - 1
    BY <2>1, <2>2
  <2>15. (current' # NoTrack) = TRUE
    BY <2>1, <2>2, TrackAssumption, Zenon
  <2> QED
    BY <1>1, <2>1, <2>3, <2>12, <2>13, <2>14, <2>15, SameHelpers, Zenon DEF P!GoBack
<1>4. CASE ~Repeating /\ StepBackNowhere
  <2>1. /\ history = <<>> /\ current' = NoTrack /\ UNCHANGED <<history, up_next>>
        /\ ~ (mode = "one" /\ current # NoTrack)
    BY <1>4, Zenon DEF StepBackNowhere, Repeating
  <2>2. Len(<<>>) = 0
    OBVIOUS
  <2>3. Len(history) = 0 /\ Len(history') = 0
    BY <2>1, <2>2, Zenon
  <2>4. CASE current = NoTrack
    BY <1>1, <2>1, <2>4, Zenon DEF P!vars, Snapshot, CurrentEntry
  <2>5. CASE current # NoTrack
    <3>1. CurrentEntry = <<current>> /\ CurrentEntry' = <<>> /\ current \in Track
      BY <2>1, <2>5 DEF CurrentEntry, TypeOK
    <3>2. <<current>> \in Seq(Track) /\ <<>> \in Seq(Track)
      BY <3>1
    <3>3. <<>> \o <<current>> = <<current>>
      BY <3>2, ConcatEmptySeq
    <3>4. <<>> \o <<>> = <<>> /\ <<>> \o up_next = up_next
      BY <3>2, TapeParts, ConcatEmptySeq
    <3>5. Snapshot = <<current>> \o up_next
      BY <2>1, <3>1, <3>3, Zenon DEF Snapshot
    <3>6. Snapshot' = up_next
      BY <2>1, <3>1, <3>4, Zenon DEF Snapshot
    <3>7. Tail(<<current>> \o up_next) = up_next
      BY <3>1, TapeParts, TailOfCons
    <3>8. (current' # NoTrack) = FALSE
      BY <2>1, Zenon
    <3>9. Snapshot' = Tail(Snapshot)
      BY <3>5, <3>6, <3>7, Zenon
    <3> QED
      BY <1>1, <2>1, <2>3, <2>5, <3>8, <3>9, Zenon DEF P!GoBack
  <2> QED
    BY <2>4, <2>5
<1> QED
  BY <1>2, <1>3, <1>4, Zenon DEF PrevTrack

(* Switching shuffle on permutes the upcoming part of the tape. *)
LEMMA ShuffleOnMaps ==
    ASSUME TypeOK, UNCHANGED <<history, current, mode>>, up_next' \in Reorderings(up_next)
    PROVE  P!Permute
<1> DEFINE d == Len(Played)
           n == Len(up_next)
           U == d + 1 .. d + n
<1>1. PICK p \in Bijection(DOMAIN up_next, DOMAIN up_next) :
         up_next' = [i \in DOMAIN up_next |-> up_next[p[i]]]
  BY DEF Reorderings
<1>2. /\ p \in [1 .. n -> 1 .. n] /\ DOMAIN up_next = 1 .. n
      /\ \A a, b \in 1 .. n : p[a] = p[b] => a = b
      /\ \A b \in 1 .. n : \E a \in 1 .. n : p[a] = b
  <2>1. DOMAIN up_next = 1 .. n
    BY TapeParts, LenProperties
  <2> QED
    BY <1>1, <2>1, Zenon DEF Bijection, Injection, IsInjective, Surjection
<1>3. up_next' \in Seq(Track) /\ Len(up_next') = n
  BY TapeParts, ReorderingProperties
<1>4. d \in Nat /\ n \in Nat /\ P!Done = d /\ Len(Snapshot) = d + n
  BY TapeParts, Zenon
<1> DEFINE q == [i \in U |-> d + p[i - d]]
           r == [i \in DOMAIN Snapshot |-> Snapshot[IF i > d THEN q[i] ELSE i]]
<1>5. DOMAIN Snapshot = 1 .. d + n
  BY <1>4, TapeParts, LenProperties
<1> HIDE DEF d, n
<1>6. \A i \in U : i - d \in 1 .. n /\ p[i - d] \in 1 .. n
  BY <1>2, <1>4
<1>7. q \in Bijection(U, U)
  <2>1. q \in [U -> U]
    <3>1. ASSUME NEW i \in U PROVE d + p[i - d] \in U
      <4>1. p[i - d] \in 1 .. n
        BY <1>6, Zenon
      <4>2. \A x \in 1 .. n : d + x \in U
        BY <1>4
      <4> QED
        BY <4>1, <4>2, Zenon
    <3> HIDE DEF U
    <3> QED
      BY <3>1, Zenon
  <2>2. ASSUME NEW a \in U, NEW b \in U, q[a] = q[b] PROVE a = b
    <3>1. \A x, y \in 1 .. n : d + x = d + y => x = y
      BY <1>4
    <3>2. d + p[a - d] = d + p[b - d]
      BY <2>2, Zenon
    <3>3. p[a - d] = p[b - d]
      BY <1>6, <3>1, <3>2, Zenon
    <3>4. a - d = b - d
      BY <1>2, <1>6, <3>3
    <3> QED
      BY <1>4, <3>4
  <2>3. ASSUME NEW b \in U PROVE \E a \in U : q[a] = b
    <3>1. PICK a \in 1 .. n : p[a] = b - d
      BY <1>2, <1>6
    <3>2. d + a \in U /\ (d + a) - d = a
      BY <1>4
    <3>3. q[d + a] = b
      BY <1>4, <3>1, <3>2
    <3> QED
      BY <3>2, <3>3, Zenon
  <2> HIDE DEF q, U
  <2> QED
    BY <2>1, <2>2, <2>3, Zenon DEF Bijection, Injection, IsInjective, Surjection
<1>8. /\ Snapshot = Played \o up_next /\ Played \in Seq(Track) /\ up_next \in Seq(Track)
      /\ d = Len(Played) /\ n = Len(up_next)
  BY TapeParts DEF d, n
<1>9. \A i \in 1 .. d + n : Snapshot[i] = IF i <= d THEN Played[i] ELSE up_next[i - d]
  BY <1>8, ConcatProperties
<1>10. Snapshot' = Played \o up_next'
  BY Zenon DEF Snapshot, Played, CurrentEntry
<1> DEFINE v == up_next'
           w == Played \o v
<1>11. v \in Seq(Track) /\ Len(v) = n /\ \A i \in 1 .. n : v[i] = up_next[p[i]]
  BY <1>1, <1>2, <1>3
<1> HIDE DEF v
<1>12. /\ w \in Seq(Track) /\ Len(w) = d + n
       /\ \A i \in 1 .. d + n : w[i] = IF i <= d THEN Played[i] ELSE v[i - d]
  <2>1. v \in Seq(Track) /\ Len(v) = n
    BY <1>11
  <2>2. Played \in Seq(Track)
    BY <1>8
  <2>3. /\ w \in Seq(Track) /\ Len(w) = Len(Played) + Len(v)
        /\ \A i \in 1 .. Len(Played) + Len(v) :
              w[i] = IF i <= Len(Played) THEN Played[i] ELSE v[i - Len(Played)]
    BY <2>1, <2>2, ConcatProperties
  <2> QED
    BY <1>8, <2>1, <2>3, Zenon
<1> HIDE DEF w
<1>13. ASSUME NEW i \in 1 .. d + n PROVE w[i] = Snapshot[IF i > d THEN q[i] ELSE i]
  <2>1. CASE i <= d
    BY <1>4, <1>9, <1>12, <2>1
  <2>2. CASE i > d
    <3>1. i \in U
      BY <1>4, <2>2
    <3>2. i \in U /\ i - d \in 1 .. n /\ p[i - d] \in 1 .. n
      BY <1>6, <3>1, Zenon
    <3>3. w[i] = up_next[p[i - d]]
      BY <1>4, <1>11, <1>12, <2>2, <3>2
    <3>4. q[i] = d + p[i - d] /\ q[i] \in 1 .. d + n /\ q[i] > d /\ q[i] - d = p[i - d]
      BY <1>4, <3>2
    <3>5. Snapshot[q[i]] = up_next[p[i - d]]
      <4> HIDE DEF q
      <4>1. ~ (q[i] <= d)
        BY <1>4, <3>4
      <4> QED
        BY <1>9, <3>4, <4>1
    <3> QED
      BY <2>2, <3>3, <3>5
  <2> QED
    BY <1>4, <2>1, <2>2
<1> HIDE DEF q
<1>14. \A i \in 1 .. d + n : Snapshot[IF i > d THEN q[i] ELSE i] \in Track
  <2>1. \A i \in 1 .. d + n : w[i] \in Track
    BY <1>12, ElementOfSeq
  <2> QED
    BY <1>13, <2>1
<1>15. w = [i \in 1 .. d + n |-> Snapshot[IF i > d THEN q[i] ELSE i]]
  <2> DEFINE g == [i \in 1 .. d + n |-> Snapshot[IF i > d THEN q[i] ELSE i]]
  <2>1. g \in Seq(Track) /\ Len(g) = d + n
    BY <1>4, <1>14
  <2>2. \A i \in 1 .. d + n : w[i] = g[i]
    BY <1>13
  <2> HIDE DEF g
  <2>3. w = g
    BY <1>12, <2>1, <2>2, SeqEqual
  <2> QED
    BY <2>3 DEF g
<1>16. Snapshot' = r
  BY <1>5, <1>10, <1>15, Zenon DEF w, v
<1>17. P!Bijection(U, U) = Bijection(U, U)
  BY Zenon DEF Bijection, Injection, IsInjective, Surjection,
               P!Bijection, P!Injection, P!IsInjective, P!Surjection
<1>18. P!Done + 1 .. Len(Snapshot) = U
  BY <1>4
<1> HIDE DEF U
<1>19. Snapshot' = [i \in DOMAIN Snapshot |-> Snapshot[IF i > P!Done THEN q[i] ELSE i]]
  BY <1>4, <1>16, Zenon
<1>20. UNCHANGED <<Len(history), current # NoTrack, mode>>
  OBVIOUS
<1> QED
  BY <1>7, <1>17, <1>18, <1>19, <1>20, Zenon DEF P!Permute

(* Switching shuffle off puts the shadow list in the place of the upcoming one:
   the played part stays, and the queue gets no longer. *)
LEMMA ShuffleOffMaps ==
    ASSUME TypeOK, ShadowNeverLonger, UNCHANGED <<history, current, mode>>,
           up_next' = original_order
    PROVE  P!Restore
<1> DEFINE d == Len(Played)
           w == Played \o original_order
<1>1. original_order \in Seq(Track) /\ Len(original_order) \in Nat
  BY LenProperties DEF TypeOK
<1>2. /\ d \in Nat /\ Len(up_next) \in Nat /\ P!Done = d /\ Len(Snapshot) = d + Len(up_next)
      /\ Played \in Seq(Track) /\ up_next \in Seq(Track) /\ Snapshot = Played \o up_next
  BY TapeParts, Zenon
<1>3. /\ w \in Seq(Track) /\ Len(w) = d + Len(original_order)
      /\ \A i \in 1 .. d + Len(original_order) :
            w[i] = IF i <= d THEN Played[i] ELSE original_order[i - d]
  BY <1>1, <1>2, ConcatProperties
<1>4. \A i \in 1 .. d + Len(up_next) :
            Snapshot[i] = IF i <= d THEN Played[i] ELSE up_next[i - d]
  BY <1>2, ConcatProperties
<1>5. Snapshot' = w
  BY Zenon DEF Snapshot, Played, CurrentEntry
<1> HIDE DEF w, d
<1>6. Len(w) \in d .. Len(Snapshot)
  <2>1. Len(original_order) <= Len(up_next)
    BY Zenon DEF ShadowNeverLonger
  <2> QED
    BY <1>1, <1>2, <1>3, <2>1
<1>7. \A i \in 1 .. d : w[i] = Snapshot[i]
  BY <1>1, <1>2, <1>3, <1>4
<1>8. UNCHANGED <<Len(history), current # NoTrack, mode>>
  OBVIOUS
<1> QED
  BY <1>2, <1>3, <1>5, <1>6, <1>7, <1>8, Zenon DEF P!Restore

LEMMA SetShuffleMaps ==
    ASSUME TypeOK, ShadowNeverLonger, NEW on \in BOOLEAN, SetShuffle(on)
    PROVE  P!Permute \/ P!Restore \/ UNCHANGED P!vars
<1>1. UNCHANGED <<history, current, mode>>
  BY DEF SetShuffle
<1>2. CASE UNCHANGED up_next
  BY <1>1, <1>2, Zenon DEF P!vars, Snapshot, CurrentEntry
<1>3. CASE up_next' \in Reorderings(up_next)
  BY <1>1, <1>3, ShuffleOnMaps
<1>4. CASE up_next' = original_order
  BY <1>1, <1>4, ShuffleOffMaps
<1> QED
  BY <1>2, <1>3, <1>4, Zenon DEF SetShuffle

LEMMA InitMaps == Init => P!Init
<1> SUFFICES ASSUME Init PROVE P!Init
  OBVIOUS
<1>1. history = <<>> /\ current = NoTrack /\ up_next = <<>> /\ mode = "off"
  BY Zenon DEF Init
<1>2. (<<>> \o <<>>) \o <<>> = <<>> /\ Len(<<>>) = 0
  OBVIOUS
<1>3. Snapshot = <<>>
  BY <1>1, <1>2, Zenon DEF Snapshot, CurrentEntry
<1>4. Len(history) = 0 /\ (current # NoTrack) = FALSE
  BY <1>1, <1>2, Zenon
<1> QED
  BY <1>1, <1>3, <1>4, Zenon DEF P!Init

LEMMA StepMaps == TypeOK /\ ShadowNeverLonger /\ [Next]_vars => [P!Next]_P!vars
<1> SUFFICES ASSUME TypeOK, ShadowNeverLonger, [Next]_vars PROVE P!Next \/ UNCHANGED P!vars
  OBVIOUS
<1>1. ASSUME NEW t \in Track, Enqueue(t) PROVE P!Next
  BY <1>1, EnqueueMaps, Zenon DEF P!Next
<1>2. ASSUME NEW t \in Track, EnqueueNext(t) PROVE P!Next
  BY <1>2, EnqueueNextMaps, Zenon DEF P!Next
<1>3. ASSUME NEW p \in Position, RemoveEntry(p) PROVE P!Next \/ UNCHANGED P!vars
  BY <1>3, RemoveEntryMaps, Zenon DEF P!Next
<1>4. ASSUME NEW from \in Position, NEW to \in Position, MoveItem(from, to) PROVE P!Next
  BY <1>4, MoveItemMaps, Zenon DEF P!Next
<1>5. CASE Clear
  BY <1>5, ClearMaps, Zenon DEF P!Next
<1>6. CASE NextTrack
  BY <1>6, NextTrackMaps, Zenon DEF P!Next
<1>7. CASE PrevTrack
  BY <1>7, PrevTrackMaps, Zenon DEF P!Next
<1>8. ASSUME NEW on \in BOOLEAN, SetShuffle(on) PROVE P!Next \/ UNCHANGED P!vars
  BY <1>8, SetShuffleMaps, Zenon DEF P!Next
<1>9. ASSUME NEW m \in RepeatMode, SetRepeat(m) PROVE P!Next
  <2>1. mode' \in {"off", "one", "all"} /\ UNCHANGED <<history, current, up_next>>
    BY <1>9 DEF SetRepeat, RepeatMode
  <2>2. P!Repeat
    BY <2>1, Zenon DEF P!Repeat, Snapshot, CurrentEntry
  <2> QED
    BY <2>2, Zenon DEF P!Next
<1>10. CASE UNCHANGED vars
  BY <1>10, Zenon DEF P!vars, vars, Snapshot, CurrentEntry
<1> QED
  BY <1>1, <1>2, <1>3, <1>4, <1>5, <1>6, <1>7, <1>8, <1>9, <1>10, Zenon DEF Next

(* Whatever is done to the queue, in any order and with any settings, its three
   lists behave as one tape with a cursor: the listener need not know of the
   shadow list, nor of where one list ends and the next begins. *)
THEOREM QueueImplementsPlaylist == Spec => QueueIsPlaylist
<1>1. TypeOK /\ ShadowNeverLonger /\ [Next]_vars => [P!Next]_P!vars
  BY StepMaps
<1> QED
  BY <1>1, InitMaps, TypeCorrect, ShadowBounded, PTL DEF Spec, QueueIsPlaylist, P!Spec

-----------------------------------------------------------------------------
(* What the queue holds, however its entries are ordered. *)

(* A permuted sequence has the same entries as often. *)
LEMMA PermutedEntries ==
    ASSUME NEW s \in Seq(Track), NEW r \in Seq(Track), Len(r) = Len(s),
           NEW p \in Bijection(1 .. Len(s), 1 .. Len(s)),
           \A k \in 1 .. Len(s) : r[k] = s[p[k]]
    PROVE  Entries(r) = Entries(s)
<1>1. ASSUME NEW t \in Track
      PROVE  Cardinality({i \in DOMAIN r : r[i] = t}) = Cardinality({i \in DOMAIN s : s[i] = t})
  <2> DEFINE D == 1 .. Len(s)
             A == {i \in D : r[i] = t}
             B == {i \in D : s[i] = t}
             f == [i \in A |-> p[i]]
  <2>1. DOMAIN r = D /\ DOMAIN s = D /\ Len(s) \in Nat
    BY LenProperties
  <2>2. /\ p \in [D -> D] /\ \A a, b \in D : p[a] = p[b] => a = b
        /\ \A b \in D : \E a \in D : p[a] = b
    BY Zenon DEF Bijection, Injection, IsInjective, Surjection
  <2>3. IsFiniteSet(A)
    <3>1. 1 \in Int /\ Len(s) \in Int
      BY <2>1
    <3>2. IsFiniteSet(D)
      BY <3>1, FS_Interval
    <3> QED
      BY <3>2, FS_Subset
  <2>4. \A k \in D : r[k] = s[p[k]]
    OBVIOUS
  <2> HIDE DEF D
  <2>5. f \in [A -> B]
    BY <2>2, <2>4
  <2>6. \A a, b \in A : f[a] = f[b] => a = b
    BY <2>2
  <2>7. ASSUME NEW b \in B PROVE \E a \in A : f[a] = b
    <3>1. PICK a \in D : p[a] = b
      BY <2>2
    <3>2. a \in A
      BY <2>4, <3>1
    <3> QED
      BY <3>1, <3>2
  <2>8. ExistsBijection(A, B)
    <3> HIDE DEF A, B, f
    <3>1. f \in Bijection(A, B)
      BY <2>5, <2>6, <2>7, Zenon DEF Bijection, Injection, IsInjective, Surjection
    <3> QED
      BY <3>1, Zenon DEF ExistsBijection
  <2>9. Cardinality(B) = Cardinality(A)
    BY <2>3, <2>8, FS_Bijection
  <2> QED
    BY <2>1, <2>9
<1> QED
  BY <1>1, Zenon DEF Entries

LEMMA MoveKeepsEntries ==
    ASSUME TypeOK, NEW from \in Position, NEW to \in Position, MoveItem(from, to)
    PROVE  Entries(Snapshot') = Entries(Snapshot)
<1>1. PICK i \in DOMAIN Snapshot, j \in DOMAIN Snapshot : P!Move(i, j)
  BY MoveItemMaps
<1>2. Snapshot' = Moved(Snapshot, i, j)
  BY <1>1, SameHelpers, Zenon DEF P!Move, Moved
<1>3. DOMAIN Snapshot = 1 .. Len(Snapshot) /\ Snapshot \in Seq(Track)
  BY TapeParts, LenProperties
<1> DEFINE s == Snapshot
           r == Moved(Snapshot, i, j)
<1>4. /\ r \in Seq(Track) /\ Len(r) = Len(s)
      /\ \E p \in Bijection(1 .. Len(s), 1 .. Len(s)) :
            \A k \in 1 .. Len(s) : r[k] = s[p[k]]
  BY <1>3, MovedProperties
<1> HIDE DEF s, r
<1>5. PICK p \in Bijection(1 .. Len(s), 1 .. Len(s)) : \A k \in 1 .. Len(s) : r[k] = s[p[k]]
  BY <1>4
<1>6. s \in Seq(Track)
  BY <1>3 DEF s
<1>7. Entries(r) = Entries(s)
  BY <1>4, <1>5, <1>6, PermutedEntries
<1> QED
  BY <1>2, <1>7, Zenon DEF r, s

LEMMA PermuteKeepsEntries ==
    ASSUME TypeOK, P!Permute
    PROVE  Entries(Snapshot') = Entries(Snapshot)
<1> DEFINE s == Snapshot
           d == P!Done
           n == Len(s)
           U == d + 1 .. n
           D == 1 .. n
<1>1. /\ s \in Seq(Track) /\ DOMAIN s = D /\ n \in Nat /\ d \in Nat /\ d <= n
  <2>1. Len(up_next) \in Nat /\ Len(Played) \in Nat
    BY TapeParts, Zenon
  <2> QED
    BY <2>1, TapeParts, LenProperties
<1>2. PICK q \in P!Bijection(U, U) : Snapshot' = [i \in DOMAIN s |-> s[IF i > d THEN q[i] ELSE i]]
  BY Zenon DEF P!Permute
<1> HIDE DEF s, d, n
<1>3. /\ q \in [U -> U] /\ \A a, b \in U : q[a] = q[b] => a = b
      /\ \A b \in U : \E a \in U : q[a] = b
  BY Zenon DEF P!Bijection, P!Injection, P!IsInjective, P!Surjection
<1> DEFINE p == [i \in D |-> IF i > d THEN q[i] ELSE i]
           r == [i \in D |-> s[p[i]]]
<1>4. \A i \in D : i > d <=> i \in U
  BY <1>1
<1>5. \A i \in U : i \in D /\ i > d
  BY <1>1
<1> HIDE DEF U, D
<1>6. \A i \in U : q[i] \in U /\ q[i] \in D /\ q[i] > d
  BY <1>3, <1>5, Zenon
<1>7. p \in [D -> D]
  BY <1>4, <1>6
<1>8. \A a, b \in D : p[a] = p[b] => a = b
  BY <1>3, <1>4, <1>6
<1>9. ASSUME NEW b \in D PROVE \E a \in D : p[a] = b
  <2>1. CASE b > d
    <3>1. PICK a \in U : q[a] = b
      BY <1>3, <1>4, <2>1
    <3> QED
      BY <1>5, <3>1
  <2>2. CASE ~ (b > d)
    BY <2>2
  <2> QED
    BY <2>1, <2>2
<1>10. p \in Bijection(D, D)
  <2> HIDE DEF p
  <2> QED
    BY <1>7, <1>8, <1>9, Zenon DEF Bijection, Injection, IsInjective, Surjection
<1>11. Snapshot' = r
  BY <1>1, <1>2
<1> HIDE DEF p
<1>12. \A i \in D : s[p[i]] \in Track
  <2>1. \A i \in D : s[i] \in Track
    BY <1>1, ElementOfSeq DEF D, n
  <2> QED
    BY <1>7, <2>1
<1>13. r \in Seq(Track) /\ Len(r) = Len(s)
  BY <1>1, <1>12 DEF D, n
<1>14. \A k \in 1 .. Len(s) : r[k] = s[p[k]]
  BY DEF D, n
<1> HIDE DEF r
<1>15. p \in Bijection(1 .. Len(s), 1 .. Len(s))
  BY <1>10 DEF D, n
<1>16. Entries(r) = Entries(s)
  BY <1>1, <1>13, <1>14, <1>15, PermutedEntries
<1> QED
  BY <1>11, <1>16, Zenon DEF s

(* No operation but those asked to, and `prev` and shuffle-off, changes which
   tracks are queued and how often, in any state any client can reach. *)
THEOREM OnlyAskedChangesEntries == Spec => EntriesConserved
<1> DEFINE Excepted == \/ \E t \in Track : Enqueue(t) \/ EnqueueNext(t)
                       \/ \E p \in Position : RemoveEntry(p)
                       \/ Clear
                       \/ PrevTrack
                       \/ SetShuffle(FALSE)
<1>1. TypeOK /\ [Next]_vars => [Entries(Snapshot') = Entries(Snapshot) \/ Excepted]_vars
  <2> SUFFICES ASSUME TypeOK, Next, ~Excepted PROVE Entries(Snapshot') = Entries(Snapshot)
    BY Zenon
  <2>1. ASSUME NEW from \in Position, NEW to \in Position, MoveItem(from, to)
        PROVE  Entries(Snapshot') = Entries(Snapshot)
    BY <2>1, MoveKeepsEntries
  <2>2. CASE NextTrack
    BY <2>2, NextKeepsSnapshotStep, Zenon
  <2>3. CASE SetShuffle(TRUE)
    <3>1. CASE UNCHANGED up_next
      <4>1. Snapshot' = Snapshot
        BY <2>3, <3>1, Zenon DEF SetShuffle, Snapshot, CurrentEntry
      <4> QED
        BY <4>1, Zenon
    <3>2. CASE up_next' \in Reorderings(up_next)
      <4>1. P!Permute
        BY <2>3, <3>2, ShuffleOnMaps DEF SetShuffle
      <4> QED
        BY <4>1, PermuteKeepsEntries
    <3> QED
      BY <2>3, <3>1, <3>2, Zenon DEF SetShuffle
  <2>4. ASSUME NEW m \in RepeatMode, SetRepeat(m)
        PROVE  Entries(Snapshot') = Entries(Snapshot)
    <3>1. Snapshot' = Snapshot
      BY <2>4, Zenon DEF SetRepeat, Snapshot, CurrentEntry
    <3> QED
      BY <3>1, Zenon
  <2> QED
    BY <2>1, <2>2, <2>3, <2>4, Zenon DEF Next
<1>2. Spec => []TypeOK
  BY TypeCorrect
<1> QED
  BY <1>1, <1>2, PTL DEF Spec, EntriesConserved

=============================================================================
