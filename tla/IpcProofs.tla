------------------------------ MODULE IpcProofs ------------------------------
(***************************************************************************)
(* What is proved of the request/response protocol, for any number of      *)
(* connections, calls and buffered items, whichever of the connections are *)
(* slow.                                                                   *)
(***************************************************************************)
EXTENDS IpcCalls, SequenceTheorems, TLAPS

-----------------------------------------------------------------------------
(* Streams *)

(* The requests or responses whose bodies are on a stream; they follow each
   other in the order of the calls; the calls any item of it belongs to. *)
Bodies(s) == {n \in Nat : \E i \in 1 .. Len(s) : s[i] = <<"body", n>>}
Ascending(s) ==
    \A i, j \in 1 .. Len(s) : \A m, n \in Nat :
        i < j /\ s[i] = <<"body", m>> /\ s[j] = <<"body", n>> => m < n
Numbers(s) == {s[i][2] : i \in 1 .. Len(s)}

LEMMA ItemParts ==
    ASSUME NEW x \in Item
    PROVE  /\ x[1] \in {"len", "body", "rest"} /\ x[2] \in Nat /\ x = <<x[1], x[2]>>
           /\ x[1] = "body" => x = <<"body", x[2]>>
BY DEF Item, CallNo

LEMMA EmptyStream == Bodies(<<>>) = {} /\ Ascending(<<>>) /\ Numbers(<<>>) = {}
<1>1. Len(<<>>) = 0
  OBVIOUS
<1> QED
  BY <1>1 DEF Bodies, Ascending, Numbers

(* An item that is taken from the front. *)
LEMMA TailOfStream ==
    ASSUME NEW s \in Seq(Item), s # <<>>
    PROVE  /\ Head(s) \in Item /\ Tail(s) \in Seq(Item)
           /\ Len(Tail(s)) = Len(s) - 1 /\ Len(s) \in Nat \ {0}
           /\ Bodies(Tail(s)) \subseteq Bodies(s)
           /\ Ascending(s) => Ascending(Tail(s))
           /\ Head(s)[1] = "body" =>
                 /\ Head(s)[2] \in Bodies(s)
                 /\ Ascending(s) => \A n \in Bodies(Tail(s)) : Head(s)[2] < n
           /\ Head(s)[2] \in Numbers(s) /\ Numbers(Tail(s)) \subseteq Numbers(s)
<1>1. /\ Head(s) \in Item /\ Tail(s) \in Seq(Item) /\ Len(Tail(s)) = Len(s) - 1
      /\ \A i \in 1 .. Len(Tail(s)) : Tail(s)[i] = s[i + 1]
  BY HeadTailProperties
<1>2. Len(s) \in Nat \ {0} /\ Head(s) = s[1]
  BY EmptySeq
<1>3. Bodies(Tail(s)) \subseteq Bodies(s)
  BY <1>1, <1>2 DEF Bodies
<1>4. ASSUME Ascending(s) PROVE Ascending(Tail(s))
  <2> SUFFICES ASSUME NEW i \in 1 .. Len(Tail(s)), NEW j \in 1 .. Len(Tail(s)), NEW m \in Nat, NEW n \in Nat,
                      i < j, Tail(s)[i] = <<"body", m>>, Tail(s)[j] = <<"body", n>>
               PROVE  m < n
    BY DEF Ascending
  <2>1. i + 1 \in 1 .. Len(s) /\ j + 1 \in 1 .. Len(s) /\ i + 1 < j + 1
    BY <1>1, <1>2
  <2>2. s[i + 1] = <<"body", m>> /\ s[j + 1] = <<"body", n>>
    BY <1>1
  <2> QED
    BY <1>4, <2>1, <2>2 DEF Ascending
<1>5. ASSUME Head(s)[1] = "body"
      PROVE  /\ Head(s)[2] \in Bodies(s)
             /\ Ascending(s) => \A n \in Bodies(Tail(s)) : Head(s)[2] < n
  <2>1. s[1] = <<"body", Head(s)[2]>> /\ Head(s)[2] \in Nat
    BY <1>1, <1>2, <1>5, ItemParts
  <2>2. Head(s)[2] \in Bodies(s)
    BY <1>2, <2>1 DEF Bodies
  <2>3. ASSUME Ascending(s), NEW n \in Bodies(Tail(s)) PROVE Head(s)[2] < n
    <3>1. PICK i \in 1 .. Len(Tail(s)) : Tail(s)[i] = <<"body", n>>
      BY DEF Bodies
    <3>2. s[i + 1] = <<"body", n>> /\ i + 1 \in 1 .. Len(s) /\ 1 < i + 1 /\ 1 \in 1 .. Len(s) /\ n \in Nat
      BY <1>1, <1>2, <3>1 DEF Bodies
    <3> QED
      BY <2>1, <2>3, <3>2 DEF Ascending
  <2> QED
    BY <2>2, <2>3
<1>6. Head(s)[2] \in Numbers(s) /\ Numbers(Tail(s)) \subseteq Numbers(s)
  BY <1>1, <1>2 DEF Numbers
<1> QED
  BY <1>1, <1>2, <1>3, <1>4, <1>5, <1>6

(* An item that is put at the end. *)
LEMMA AppendToStream ==
    ASSUME NEW s \in Seq(Item), NEW part \in {"len", "body"}, NEW n \in Nat
    PROVE  /\ Append(s, <<part, n>>) \in Seq(Item)
           /\ Len(Append(s, <<part, n>>)) = Len(s) + 1
           /\ Bodies(Append(s, <<part, n>>)) \subseteq Bodies(s) \cup (IF part = "body" THEN {n} ELSE {})
           /\ Ascending(s) /\ (part = "body" => \A m \in Bodies(s) : m < n)
                => Ascending(Append(s, <<part, n>>))
           /\ Numbers(Append(s, <<part, n>>)) \subseteq Numbers(s) \cup {n}
<1> DEFINE x == <<part, n>>
           t == Append(s, x)
<1>1. x \in Item /\ x[2] = n
  BY DEF Item, CallNo
<1>2. /\ t \in Seq(Item) /\ Len(t) = Len(s) + 1 /\ Len(s) \in Nat
      /\ \A i \in 1 .. Len(s) : t[i] = s[i]
      /\ t[Len(s) + 1] = x
  BY <1>1, AppendProperties, LenProperties
<1> HIDE DEF t
<1>3. \A i \in 1 .. Len(t) : i \in 1 .. Len(s) \/ i = Len(s) + 1
  BY <1>2
<1>4. Bodies(t) \subseteq Bodies(s) \cup (IF part = "body" THEN {n} ELSE {})
  <2> SUFFICES ASSUME NEW m \in Nat, NEW i \in 1 .. Len(t), t[i] = <<"body", m>>
               PROVE  m \in Bodies(s) \/ (part = "body" /\ m = n)
    BY DEF Bodies
  <2> QED
    BY <1>2, <1>3 DEF Bodies
<1>5. ASSUME Ascending(s), part = "body" => \A m \in Bodies(s) : m < n
      PROVE  Ascending(t)
  <2> SUFFICES ASSUME NEW i \in 1 .. Len(t), NEW j \in 1 .. Len(t), NEW m \in Nat, NEW o \in Nat,
                      i < j, t[i] = <<"body", m>>, t[j] = <<"body", o>>
               PROVE  m < o
    BY DEF Ascending
  <2>1. i \in 1 .. Len(s) /\ s[i] = <<"body", m>>
    BY <1>2
  <2>2. CASE j \in 1 .. Len(s)
    BY <1>2, <1>5, <2>1, <2>2 DEF Ascending
  <2>3. CASE j = Len(s) + 1
    <3>1. part = "body" /\ o = n
      BY <1>2, <2>3
    <3>2. m \in Bodies(s)
      BY <2>1 DEF Bodies
    <3> QED
      BY <1>5, <3>1, <3>2
  <2> QED
    BY <1>3, <2>2, <2>3
<1>6. Numbers(t) \subseteq Numbers(s) \cup {n}
  <2> SUFFICES ASSUME NEW i \in 1 .. Len(t) PROVE t[i][2] \in Numbers(s) \cup {n}
    BY DEF Numbers
  <2> QED
    BY <1>1, <1>2, <1>3 DEF Numbers
<1> QED
  BY <1>2, <1>4, <1>5, <1>6 DEF t

(* Any number of bytes that are taken from the front leave the end of the
   stream, perhaps with a part of an item before it. *)
LeftOf(s, t) ==
    /\ t \in Seq(Item) /\ Len(t) <= Len(s)
    /\ \A i \in 1 .. Len(t) :
          \/ t[i] = s[(Len(s) - Len(t)) + i]
          \/ i = 1 /\ t[i] = <<"rest", s[(Len(s) - Len(t)) + i][2]>>

LEMMA WhatIsLeft ==
    ASSUME NEW s \in Seq(Item), NEW t, LeftOf(s, t)
    PROVE  /\ Bodies(t) \subseteq Bodies(s)
           /\ Ascending(s) => Ascending(t)
           /\ Numbers(t) \subseteq Numbers(s)
<1> DEFINE k == Len(s) - Len(t)
<1>1. Len(s) \in Nat /\ Len(t) \in Nat /\ k \in Nat
  BY LenProperties DEF LeftOf
<1>2. \A i \in 1 .. Len(t) : k + i \in 1 .. Len(s) /\ (t[i] = s[k + i] \/ t[i] = <<"rest", s[k + i][2]>>)
  BY <1>1 DEF LeftOf
<1> HIDE DEF k
<1>3. \A i \in 1 .. Len(t) : \A n \in Nat : t[i] = <<"body", n>> => s[k + i] = <<"body", n>>
  <2> SUFFICES ASSUME NEW i \in 1 .. Len(t), NEW n \in Nat, t[i] = <<"body", n>> PROVE s[k + i] = <<"body", n>>
    OBVIOUS
  <2>1. t[i] # <<"rest", s[k + i][2]>>
    OBVIOUS
  <2> QED
    BY <1>2, <2>1
<1>4. Bodies(t) \subseteq Bodies(s)
  BY <1>2, <1>3 DEF Bodies
<1>5. ASSUME Ascending(s) PROVE Ascending(t)
  <2> SUFFICES ASSUME NEW i \in 1 .. Len(t), NEW j \in 1 .. Len(t), NEW m \in Nat, NEW n \in Nat,
                      i < j, t[i] = <<"body", m>>, t[j] = <<"body", n>>
               PROVE  m < n
    BY DEF Ascending
  <2>1. k + i \in 1 .. Len(s) /\ k + j \in 1 .. Len(s) /\ k + i < k + j
    BY <1>1, <1>2
  <2>2. s[k + i] = <<"body", m>> /\ s[k + j] = <<"body", n>>
    BY <1>3
  <2> QED
    BY <1>5, <2>1, <2>2 DEF Ascending
<1>6. \A i \in 1 .. Len(t) : t[i][2] = s[k + i][2]
  BY <1>2
<1>7. Numbers(t) \subseteq Numbers(s)
  BY <1>2, <1>6 DEF Numbers
<1> QED
  BY <1>4, <1>5, <1>7

LEMMA SuffixIsLeft ==
    ASSUME NEW s \in Seq(Item), NEW n \in 0 .. Len(s)
    PROVE  /\ SubSeq(s, n + 1, Len(s)) \in Seq(Item)
           /\ Len(SubSeq(s, n + 1, Len(s))) = Len(s) - n
           /\ \A i \in 1 .. Len(s) - n : SubSeq(s, n + 1, Len(s))[i] = s[n + i]
<1>1. Len(s) \in Nat /\ n + 1 \in Int /\ Len(s) \in Int
  BY LenProperties
<1>2. \A i \in n + 1 .. Len(s) : s[i] \in Item
  BY <1>1, ElementOfSeq
<1> DEFINE t == SubSeq(s, n + 1, Len(s))
<1>3. /\ t \in Seq(Item) /\ Len(t) = IF n + 1 <= Len(s) THEN Len(s) - (n + 1) + 1 ELSE 0
      /\ \A i \in 1 .. Len(s) - (n + 1) + 1 : t[i] = s[n + 1 + i - 1]
  BY <1>1, <1>2, SubSeqProperties
<1> HIDE DEF t
<1>4. Len(t) = Len(s) - n
  BY <1>1, <1>3
<1>5. \A i \in 1 .. Len(s) - n : t[i] = s[n + i]
  BY <1>1, <1>3, <1>4
<1> QED
  BY <1>3, <1>4, <1>5 DEF t

LEMMA NothingTaken ==
    ASSUME NEW s \in Seq(Item)
    PROVE  LeftOf(s, s) /\ LeftOf(s, <<>>) /\ (s # <<>> => LeftOf(s, Tail(s)))
<1>1. Len(s) \in Nat /\ Len(<<>>) = 0 /\ <<>> \in Seq(Item)
  BY LenProperties
<1>2. LeftOf(s, s)
  BY <1>1 DEF LeftOf
<1>3. LeftOf(s, <<>>)
  BY <1>1 DEF LeftOf
<1>4. ASSUME s # <<>> PROVE LeftOf(s, Tail(s))
  <2> DEFINE t == Tail(s)
  <2>1. /\ t \in Seq(Item) /\ Len(t) = Len(s) - 1
        /\ \A i \in 1 .. Len(t) : t[i] = s[i + 1]
    BY <1>4, HeadTailProperties
  <2> HIDE DEF t
  <2>2. \A i \in 1 .. Len(t) : i + 1 = (Len(s) - Len(t)) + i
    BY <1>1, <2>1
  <2>3. \A i \in 1 .. Len(t) : t[i] = s[(Len(s) - Len(t)) + i]
    BY <2>1, <2>2
  <2>4. LeftOf(s, t)
    BY <1>1, <2>1, <2>3 DEF LeftOf
  <2> QED
    BY <2>4 DEF t
<1> QED
  BY <1>2, <1>3, <1>4

LEMMA SwallowLeaves ==
    ASSUME NEW s \in Seq(Item), NEW t \in Swallow(s)
    PROVE  LeftOf(s, t)
<1>1. PICK n \in 1 .. Len(s) :
         \/ t = SubSeq(s, n + 1, Len(s))
         \/ t = << <<"rest", s[n][2]>> >> \o SubSeq(s, n + 1, Len(s))
  BY DEF Swallow
<1> DEFINE u == SubSeq(s, n + 1, Len(s))
           x == <<"rest", s[n][2]>>
<1>2. Len(s) \in Nat /\ n \in 0 .. Len(s) /\ s[n] \in Item
  BY LenProperties, ElementOfSeq
<1>3. u \in Seq(Item) /\ Len(u) = Len(s) - n /\ \A i \in 1 .. Len(s) - n : u[i] = s[n + i]
  BY <1>2, SuffixIsLeft
<1>4. x \in Item
  <2>1. s[n][2] \in Nat
    BY <1>2, ItemParts
  <2> QED
    BY <2>1 DEF Item, CallNo
<1> HIDE DEF u
<1>5. CASE t = u
  <2>1. Len(t) = Len(s) - n /\ Len(s) - Len(t) = n
    BY <1>2, <1>3, <1>5
  <2>2. \A i \in 1 .. Len(t) : t[i] = s[(Len(s) - Len(t)) + i]
    BY <1>3, <1>5, <2>1
  <2> QED
    BY <1>2, <1>3, <1>5, <2>1, <2>2 DEF LeftOf
<1>6. CASE t = <<x>> \o u
  <2>1. <<x>> \in Seq(Item) /\ Len(<<x>>) = 1 /\ <<x>>[1] = x
    BY <1>4
  <2> HIDE DEF x
  <2>2. /\ t \in Seq(Item) /\ Len(t) = Len(<<x>>) + Len(u)
        /\ \A i \in 1 .. Len(<<x>>) + Len(u) : t[i] = IF i <= Len(<<x>>) THEN <<x>>[i] ELSE u[i - Len(<<x>>)]
    BY <1>3, <1>6, <2>1, ConcatProperties
  <2>3. Len(t) = Len(s) - n + 1 /\ t[1] = x /\ \A i \in 2 .. Len(t) : t[i] = u[i - 1]
    BY <1>2, <1>3, <2>1, <2>2
  <2>4. (Len(s) - Len(t)) + 1 = n
    BY <1>2, <2>3
  <2>5. ASSUME NEW i \in 2 .. Len(t) PROVE t[i] = s[(Len(s) - Len(t)) + i]
    <3>1. i - 1 \in 1 .. Len(s) - n /\ n + (i - 1) = (Len(s) - Len(t)) + i
      BY <1>2, <2>3
    <3> QED
      BY <1>3, <2>3, <3>1
  <2>6. ASSUME NEW i \in 1 .. Len(t)
        PROVE  \/ t[i] = s[(Len(s) - Len(t)) + i]
               \/ i = 1 /\ t[i] = <<"rest", s[(Len(s) - Len(t)) + i][2]>>
    <3>1. CASE i = 1
      <4>1. t[i] = <<"rest", s[n][2]>>
        BY <2>3, <3>1 DEF x
      <4>2. (Len(s) - Len(t)) + i = n
        BY <2>4, <3>1
      <4> QED
        BY <3>1, <4>1, <4>2
    <3>2. CASE i # 1
      <4>1. i \in 2 .. Len(t)
        BY <3>2
      <4> QED
        BY <2>5, <4>1
    <3> QED
      BY <3>1, <3>2
  <2> QED
    BY <1>2, <2>2, <2>3, <2>6 DEF LeftOf
<1> QED
  BY <1>1, <1>5, <1>6 DEF u, x

(* A whole frame and its parts. *)
LEMMA Frame ==
    ASSUME NEW x, NEW y
    PROVE  /\ Append(<<>>, x) = <<x>> /\ Append(<<x>>, y) = <<x, y>>
           /\ Head(<<x>>) = x /\ Tail(<<x>>) = <<>>
           /\ Head(<<x, y>>) = x /\ Tail(<<x, y>>) = <<y>>
           /\ <<x>> # <<>> /\ <<x, y>> # <<>>
<1> DEFINE S == {x, y}
<1>1. <<>> \in Seq(S) /\ <<x>> \in Seq(S) /\ <<x, y>> \in Seq(S)
  OBVIOUS
<1>2. Len(<<>>) = 0 /\ Len(<<x>>) = 1 /\ Len(<<x, y>>) = 2
  OBVIOUS
<1>3. <<x>>[1] = x /\ <<x, y>>[1] = x /\ <<x, y>>[2] = y
  OBVIOUS
<1>4. x \in S /\ y \in S
  OBVIOUS
<1> HIDE DEF S
<1>5. <<x>> # <<>> /\ <<x, y>> # <<>>
  BY <1>2
<1>6. Append(<<>>, x) = <<x>>
  <2>1. /\ Append(<<>>, x) \in Seq(S) /\ Len(Append(<<>>, x)) = Len(<<>>) + 1
        /\ Append(<<>>, x)[Len(<<>>) + 1] = x
    BY <1>1, <1>4, AppendProperties
  <2>2. Len(Append(<<>>, x)) = 1 /\ Append(<<>>, x)[1] = x
    BY <1>2, <2>1
  <2>3. \A i \in 1 .. 1 : Append(<<>>, x)[i] = <<x>>[i]
    BY <1>3, <2>2
  <2> QED
    BY <1>1, <1>2, <2>1, <2>2, <2>3, SeqEqual
<1>7. Append(<<x>>, y) = <<x, y>>
  <2>1. /\ Append(<<x>>, y) \in Seq(S) /\ Len(Append(<<x>>, y)) = Len(<<x>>) + 1
        /\ Append(<<x>>, y)[Len(<<x>>) + 1] = y
        /\ \A i \in 1 .. Len(<<x>>) : Append(<<x>>, y)[i] = <<x>>[i]
    BY <1>1, <1>4, AppendProperties
  <2>2. Len(Append(<<x>>, y)) = 2 /\ Append(<<x>>, y)[1] = x /\ Append(<<x>>, y)[2] = y
    BY <1>2, <1>3, <2>1
  <2>3. \A i \in 1 .. 2 : Append(<<x>>, y)[i] = <<x, y>>[i]
    BY <1>3, <2>2
  <2> QED
    BY <1>1, <1>2, <2>1, <2>2, <2>3, SeqEqual
<1>8. Head(<<x>>) = x /\ Head(<<x, y>>) = x
  BY <1>1, <1>2, <1>3
<1>9. Tail(<<x>>) = <<>>
  <2>1. Tail(<<x>>) \in Seq(S) /\ Len(Tail(<<x>>)) = 0
    BY <1>1, <1>2, <1>5, HeadTailProperties
  <2> QED
    BY <2>1, EmptySeq
<1>10. Tail(<<x, y>>) = <<y>>
  <2>1. /\ Tail(<<x, y>>) \in Seq(S) /\ Len(Tail(<<x, y>>)) = 1
        /\ \A i \in 1 .. Len(Tail(<<x, y>>)) : Tail(<<x, y>>)[i] = <<x, y>>[i + 1]
    BY <1>1, <1>2, <1>5, HeadTailProperties
  <2>2. Tail(<<x, y>>)[1] = y
    BY <1>3, <2>1
  <2>3. /\ <<y>> \in Seq(S) /\ Len(<<y>>) = 1
        /\ \A i \in 1 .. 1 : Tail(<<x, y>>)[i] = <<y>>[i]
    BY <1>4, <2>2
  <2> QED
    BY <2>1, <2>3, SeqEqual
<1> QED
  BY <1>5, <1>6, <1>7, <1>8, <1>9, <1>10

(* The requests a connection has executed. *)
InOrder(h) ==
    \A i, j \in DOMAIN h : i < j /\ h[i] # Junk /\ h[j] # Junk => h[i] < h[j]

LEMMA OneMoreExecuted ==
    ASSUME NEW h \in Seq(Nat), NEW n \in Nat
    PROVE  /\ Append(h, n) \in Seq(Nat) /\ Range(Append(h, n)) = Range(h) \cup {n}
           /\ InOrder(h) /\ (n # Junk => \A m \in Range(h) : m < n) => InOrder(Append(h, n))
<1> DEFINE t == Append(h, n)
<1>1. /\ t \in Seq(Nat) /\ Len(t) = Len(h) + 1 /\ Len(h) \in Nat
      /\ \A i \in 1 .. Len(h) : t[i] = h[i]
      /\ t[Len(h) + 1] = n
  BY AppendProperties, LenProperties
<1>2. DOMAIN t = 1 .. Len(h) + 1 /\ DOMAIN h = 1 .. Len(h)
  BY <1>1, LenProperties
<1>3. \A i \in DOMAIN t : i \in 1 .. Len(h) \/ i = Len(h) + 1
  BY <1>1, <1>2
<1> HIDE DEF t
<1>4. Range(t) = Range(h) \cup {n}
  BY <1>1, <1>2, <1>3 DEF Range
<1>5. ASSUME InOrder(h), n # Junk => \A m \in Range(h) : m < n PROVE InOrder(t)
  <2> SUFFICES ASSUME NEW i \in DOMAIN t, NEW j \in DOMAIN t, i < j, t[i] # Junk, t[j] # Junk
               PROVE  t[i] < t[j]
    BY DEF InOrder
  <2>1. i \in 1 .. Len(h) /\ t[i] = h[i]
    BY <1>1, <1>2, <1>3
  <2>2. CASE j \in 1 .. Len(h)
    BY <1>1, <1>2, <1>5, <2>1, <2>2 DEF InOrder
  <2>3. CASE j = Len(h) + 1
    BY <1>1, <1>2, <1>5, <2>1, <2>3 DEF Range
  <2> QED
    BY <1>3, <2>2, <2>3
<1> QED
  BY <1>1, <1>4, <1>5 DEF t

-----------------------------------------------------------------------------
(* Types *)

StepOf(c) ==
    \/ Connect(c) \/ Disconnect(c) \/ StartCall(c)
    \/ ClientStep(c) \/ Timeout(c)
    \/ Accept(c) \/ ServerStep(c)
    \/ Handle(c) \/ HandlerPanics(c)

LEMMA TypeInit == Init => TypeOK
<1> SUFFICES ASSUME Init PROVE TypeOK
  OBVIOUS
<1>1. /\ \A S : <<>> \in Seq(S)
      /\ Len(<<>>) = 0
  BY EmptySeq
<1>2. \A c \in Client : call[c] = 0 /\ MaxCalls[c] \in Nat /\ up[c] = <<>> /\ down[c] = <<>>
  BY BoundAssumption DEF Init
<1>3. strayed \in [Client -> BOOLEAN]
  BY Zenon DEF Init
<1>4. /\ up \in [Client -> Seq(Item)] /\ down \in [Client -> Seq(Item)]
      /\ handled \in [Client -> Seq(CallNo)]
  BY <1>1, Zenon DEF Init
<1>5. /\ call \in [Client -> Nat] /\ job \in [Client -> CallNo]
      /\ answer \in [Client -> CallNo \cup {NoAnswer}]
  BY DEF Init, CallNo, Junk
<1>6. /\ end \in [Client -> {"none", "up", "gone"}]
      /\ phase \in [Client -> {"idle", "send_len", "send_body", "recv_len", "recv_body", "recv_junk"}]
      /\ task \in [Client -> {"none", "read_len", "read_body", "handle", "write_len",
                              "write_body", "read_junk", "ended"}]
      /\ \A c \in Client : phase[c] = "idle"
  BY DEF Init
<1>7. \A c \in Client : call[c] <= MaxCalls[c] /\ Len(up[c]) <= BufCap /\ Len(down[c]) <= BufCap
  BY <1>1, <1>2, BoundAssumption
<1> QED
  BY <1>3, <1>4, <1>5, <1>6, <1>7 DEF TypeOK

(* What goes through a stream. *)
LEMMA TypeOfSent ==
    ASSUME TypeOK, NEW c \in Client, NEW part \in {"len", "body"}, NEW n \in Nat
    PROVE  /\ Append(up[c], <<part, n>>) \in Seq(Item) /\ Len(Append(up[c], <<part, n>>)) = Len(up[c]) + 1
           /\ Append(down[c], <<part, n>>) \in Seq(Item) /\ Len(Append(down[c], <<part, n>>)) = Len(down[c]) + 1
           /\ Len(up[c]) \in Nat /\ Len(down[c]) \in Nat
<1>1. up[c] \in Seq(Item) /\ down[c] \in Seq(Item)
  BY DEF TypeOK
<1> QED
  BY <1>1, AppendToStream, LenProperties

LEMMA TypeOfReceived ==
    ASSUME TypeOK, NEW c \in Client
    PROVE  /\ Len(up[c]) \in Nat /\ Len(down[c]) \in Nat
           /\ up[c] # <<>> => Tail(up[c]) \in Seq(Item) /\ Len(Tail(up[c])) <= Len(up[c]) /\ Head(up[c])[2] \in Nat
           /\ down[c] # <<>> => Tail(down[c]) \in Seq(Item) /\ Len(Tail(down[c])) <= Len(down[c]) /\ Head(down[c])[2] \in Nat
<1>1. up[c] \in Seq(Item) /\ down[c] \in Seq(Item)
  BY DEF TypeOK
<1>2. Len(up[c]) \in Nat /\ Len(down[c]) \in Nat
  BY <1>1, LenProperties
<1>3. ASSUME up[c] # <<>>
      PROVE  Tail(up[c]) \in Seq(Item) /\ Len(Tail(up[c])) <= Len(up[c]) /\ Head(up[c])[2] \in Nat
  BY <1>1, <1>2, <1>3, TailOfStream, ItemParts
<1>4. ASSUME down[c] # <<>>
      PROVE  Tail(down[c]) \in Seq(Item) /\ Len(Tail(down[c])) <= Len(down[c]) /\ Head(down[c])[2] \in Nat
  BY <1>1, <1>2, <1>4, TailOfStream, ItemParts
<1> QED
  BY <1>2, <1>3, <1>4

(* Reads take something from a stream and leave the rest of it. *)
ReadsInto(c, s, t, j) ==
    /\ up' = [up EXCEPT ![c] = s] /\ LeftOf(up[c], s)
    /\ task' = [task EXCEPT ![c] = t] /\ t \in {"read_body", "read_junk", "handle", "ended"}
    /\ job' = [job EXCEPT ![c] = j]
    /\ UNCHANGED <<end, phase, call, answer, strayed, down, handled>>
    /\ \/ t # "handle" /\ j = job[c]
       \/ t = "handle" /\ j = Junk
       \/ /\ t = "handle" /\ task[c] = "read_body"
          /\ up[c] # <<>> /\ Head(up[c])[1] = "body" /\ s = Tail(up[c]) /\ j = Head(up[c])[2]

LEMMA ReadEffect ==
    ASSUME TypeOK, NEW c \in Client, ReadLen(c) \/ ReadBody(c) \/ ReadJunk(c)
    PROVE  \E s, t, j : ReadsInto(c, s, t, j)
<1>1. up[c] \in Seq(Item) /\ job = [job EXCEPT ![c] = job[c]]
  BY DEF TypeOK
<1>2. /\ LeftOf(up[c], <<>>) /\ (up[c] # <<>> => LeftOf(up[c], Tail(up[c])))
      /\ \A s \in Swallow(up[c]) : LeftOf(up[c], s)
  BY <1>1, NothingTaken, SwallowLeaves
<1>3. CASE ReadLen(c)
  <2>1. /\ job' = job /\ UNCHANGED <<end, phase, call, answer, strayed, down, handled>>
        /\ \E s : up' = [up EXCEPT ![c] = s] /\ LeftOf(up[c], s)
        /\ \E t \in {"read_body", "read_junk", "ended"} : task' = [task EXCEPT ![c] = t]
    BY <1>2, <1>3 DEF ReadLen, clientVars
  <2>2. PICK s : up' = [up EXCEPT ![c] = s] /\ LeftOf(up[c], s)
    BY <2>1
  <2>3. PICK t \in {"read_body", "read_junk", "ended"} : task' = [task EXCEPT ![c] = t]
    BY <2>1
  <2>4. ReadsInto(c, s, t, job[c])
    BY <1>1, <2>1, <2>2, <2>3 DEF ReadsInto
  <2> QED
    BY <2>4
<1>4. CASE ReadBody(c) /\ Head(up[c])[1] = "body"
  <2>1. ReadsInto(c, Tail(up[c]), "handle", Head(up[c])[2])
    BY <1>2, <1>4 DEF ReadBody, ReadAny, ReadsInto, clientVars
  <2> QED
    BY <2>1
<1>5. CASE ReadAny(c)
  <2>1. UNCHANGED <<end, phase, call, answer, strayed, down, handled>>
    BY <1>5 DEF ReadAny, clientVars
  <2>2. CASE up' = [up EXCEPT ![c] = <<>>] /\ task' = [task EXCEPT ![c] = "read_junk"] /\ job' = job
    <3>1. ReadsInto(c, <<>>, "read_junk", job[c])
      BY <1>1, <1>2, <2>1, <2>2 DEF ReadsInto
    <3> QED
      BY <3>1
  <2>3. ASSUME NEW s \in Swallow(up[c]), up' = [up EXCEPT ![c] = s],
               \/ task' = [task EXCEPT ![c] = "ended"] /\ job' = job
               \/ task' = [task EXCEPT ![c] = "handle"] /\ job' = [job EXCEPT ![c] = Junk]
        PROVE  \E t, j : ReadsInto(c, s, t, j)
    <3>1. ReadsInto(c, s, "ended", job[c]) \/ ReadsInto(c, s, "handle", Junk)
      BY <1>1, <1>2, <2>1, <2>3 DEF ReadsInto
    <3> QED
      BY <3>1
  <2> QED
    BY <1>5, <2>2, <2>3 DEF ReadAny
<1> QED
  BY <1>3, <1>4, <1>5 DEF ReadBody, ReadJunk

LEMMA RecvEffect ==
    ASSUME TypeOK, NEW c \in Client, RecvLen(c) \/ RecvBody(c) \/ RecvJunk(c)
    PROVE  \E s : down' = [down EXCEPT ![c] = s] /\ LeftOf(down[c], s)
<1>1. down[c] \in Seq(Item)
  BY DEF TypeOK
<1>2. /\ LeftOf(down[c], down[c]) /\ (down[c] # <<>> => LeftOf(down[c], Tail(down[c])))
      /\ \A s \in Swallow(down[c]) : LeftOf(down[c], s)
  BY <1>1, NothingTaken, SwallowLeaves
<1>3. CASE RecvLen(c)
  BY <1>2, <1>3 DEF RecvLen
<1>4. CASE RecvBody(c)
  BY <1>2, <1>4 DEF RecvBody
<1>5. CASE RecvJunk(c)
  BY <1>2, <1>5 DEF RecvJunk
<1> QED
  BY <1>3, <1>4, <1>5

LEMMA TypeOfLeft ==
    ASSUME TypeOK, NEW c \in Client, NEW s
    PROVE  LeftOf(up[c], s) \/ LeftOf(down[c], s) => s \in Seq(Item) /\ Len(s) <= BufCap
<1>1. Len(up[c]) <= BufCap /\ Len(down[c]) <= BufCap /\ Len(up[c]) \in Nat /\ Len(down[c]) \in Nat
  BY LenProperties DEF TypeOK
<1>2. s \in Seq(Item) => Len(s) \in Nat
  BY LenProperties
<1> QED
  BY <1>1, <1>2, BoundAssumption DEF LeftOf

LEMMA TypeClient ==
    ASSUME TypeOK, NEW c \in Client, Connect(c) \/ Disconnect(c) \/ StartCall(c) \/ ConnectionLost(c) \/ Timeout(c)
    PROVE  TypeOK'
<1> USE DEF TypeOK, serverVars
<1>1. CASE Connect(c)
  BY <1>1 DEF Connect
<1>2. CASE Disconnect(c)
  BY <1>2 DEF Disconnect
<1>3. CASE StartCall(c)
  <2>1. /\ end[c] = "up" /\ call[c] < MaxCalls[c]
        /\ call' = [call EXCEPT ![c] = call[c] + 1] /\ phase' = [phase EXCEPT ![c] = "send_len"]
        /\ answer' = [answer EXCEPT ![c] = NoAnswer]
        /\ UNCHANGED <<end, strayed, up, down, task, job, handled>>
    BY <1>3 DEF StartCall
  <2>2. call[c] + 1 <= MaxCalls[c] /\ call[c] + 1 \in Nat
    <3>1. call[c] \in Nat
      OBVIOUS
    <3>2. MaxCalls[c] \in Nat
      BY BoundAssumption
    <3>3. call[c] < MaxCalls[c]
      BY <2>1
    <3> HIDE DEF TypeOK
    <3> QED
      BY <3>1, <3>2, <3>3
  <2> QED
    BY <2>1, <2>2
<1>4. CASE ConnectionLost(c)
  BY <1>4 DEF ConnectionLost
<1>5. CASE Timeout(c)
  <2>1. strayed' \in [Client -> BOOLEAN]
    BY <1>5, Zenon DEF Timeout
  <2> QED
    BY <1>5, <2>1 DEF Timeout
<1> QED
  BY <1>1, <1>2, <1>3, <1>4, <1>5

LEMMA TypeStream ==
    ASSUME TypeOK, NEW c \in Client, SendLen(c) \/ SendBody(c) \/ RecvLen(c) \/ RecvBody(c) \/ RecvJunk(c)
    PROVE  TypeOK'
<1>0. /\ up[c] # <<>> => Tail(up[c]) \in Seq(Item) /\ Len(Tail(up[c])) <= BufCap /\ Head(up[c])[2] \in Nat
      /\ down[c] # <<>> => Tail(down[c]) \in Seq(Item) /\ Len(Tail(down[c])) <= BufCap /\ Head(down[c])[2] \in Nat
  <2>1. Len(up[c]) <= BufCap /\ Len(down[c]) <= BufCap
    BY DEF TypeOK
  <2>2. /\ up[c] # <<>> => Len(Tail(up[c])) \in Nat
        /\ down[c] # <<>> => Len(Tail(down[c])) \in Nat
    BY TypeOfReceived, LenProperties
  <2> QED
    BY <2>1, <2>2, TypeOfReceived, BoundAssumption
<1> USE DEF TypeOK, serverVars
<1>1. ASSUME NEW part \in {"len", "body"}, NEW from \in {"send_len", "send_body"}, NEW to \in {"send_body", "recv_len"},
             Send(c, part, from, to)
      PROVE  TypeOK'
  <2>1. up' = [up EXCEPT ![c] = Append(up[c], <<part, call[c]>>)] /\ Len(up[c]) < BufCap
    BY <1>1 DEF Send
  <2>2. Append(up[c], <<part, call[c]>>) \in Seq(Item) /\ Len(Append(up[c], <<part, call[c]>>)) <= BufCap
    BY <2>1, TypeOfSent, BoundAssumption
  <2> QED
    BY <1>1, <2>1, <2>2 DEF Send
<1>2. CASE RecvLen(c)
  <2>1. PICK s : down' = [down EXCEPT ![c] = s] /\ LeftOf(down[c], s)
    BY <1>2, RecvEffect
  <2>2. s \in Seq(Item) /\ Len(s) <= BufCap
    BY <2>1, TypeOfLeft
  <2>3. /\ UNCHANGED <<end, call, answer, strayed, up, task, job, handled>>
        /\ \E p \in {"recv_body", "recv_junk"} : phase' = [phase EXCEPT ![c] = p]
        /\ phase[c] = "recv_len"
    BY <1>2 DEF RecvLen
  <2> QED
    BY <2>1, <2>2, <2>3
<1>3. CASE RecvBody(c)
  <2>1. Tail(down[c]) \in Seq(Item) /\ Len(Tail(down[c])) <= BufCap /\ Head(down[c])[2] \in Nat
    BY <1>3, <1>0 DEF RecvBody
  <2> QED
    BY <1>3, <2>1 DEF RecvBody, CallNo
<1>4. CASE RecvJunk(c)
  <2>1. PICK s : down' = [down EXCEPT ![c] = s] /\ LeftOf(down[c], s)
    BY <1>4, RecvEffect
  <2>2. s \in Seq(Item) /\ Len(s) <= BufCap
    BY <2>1, TypeOfLeft
  <2>3. answer' \in [Client -> CallNo \cup {NoAnswer}]
    BY <1>4 DEF RecvJunk, CallNo, Junk
  <2> QED
    BY <1>4, <2>1, <2>2, <2>3 DEF RecvJunk
<1> QED
  BY <1>1, <1>2, <1>3, <1>4 DEF SendLen, SendBody

LEMMA TypeServer ==
    ASSUME TypeOK, NEW c \in Client, Accept(c) \/ ServerStep(c) \/ Handle(c) \/ HandlerPanics(c)
    PROVE  TypeOK'
<1> USE DEF TypeOK, clientVars
<1>1. CASE Accept(c)
  BY <1>1 DEF Accept
<1>2. CASE ReadLen(c) \/ ReadBody(c) \/ ReadJunk(c)
  <2>1. PICK s, t, j : ReadsInto(c, s, t, j)
    BY <1>2, ReadEffect
  <2>2. s \in Seq(Item) /\ Len(s) <= BufCap
    BY <2>1, TypeOfLeft DEF ReadsInto
  <2>3. j \in CallNo
    <3>1. Head(up[c])[1] = "body" /\ up[c] # <<>> => Head(up[c])[2] \in Nat
      BY TypeOfReceived
    <3>2. job[c] \in Nat
      BY DEF CallNo
    <3> HIDE DEF TypeOK
    <3> QED
      BY <2>1, <3>1, <3>2 DEF ReadsInto, CallNo, Junk
  <2> QED
    BY <2>1, <2>2, <2>3 DEF ReadsInto
<1>4. CASE ReadEof(c)
  BY <1>4 DEF ReadEof
<1>5. ASSUME NEW part \in {"len", "body"}, NEW from, NEW to \in {"write_body", "read_len"},
             Write(c, part, from, to)
      PROVE  TypeOK'
  <2>1. CASE end[c] = "up" /\ Len(down[c]) < BufCap /\ task' = [task EXCEPT ![c] = to]
             /\ down' = [down EXCEPT ![c] = Append(down[c], <<part, job[c]>>)]
    <3>1. Append(down[c], <<part, job[c]>>) \in Seq(Item) /\ Len(Append(down[c], <<part, job[c]>>)) <= BufCap
      BY <2>1, TypeOfSent, BoundAssumption DEF CallNo
    <3> QED
      BY <1>5, <2>1, <3>1 DEF Write
  <2>2. CASE task' = [task EXCEPT ![c] = "ended"] /\ down' = down
    BY <1>5, <2>2 DEF Write
  <2> QED
    BY <1>5, <2>1, <2>2 DEF Write
<1>6. CASE Handle(c)
  BY <1>6, OneMoreExecuted DEF Handle, CallNo
<1>7. CASE HandlerPanics(c)
  BY <1>7 DEF HandlerPanics
<1> QED
  BY <1>1, <1>2, <1>4, <1>5, <1>6, <1>7 DEF ServerStep, WriteLen, WriteBody

LEMMA TypeStep == ASSUME TypeOK, NEW c \in Client, StepOf(c) PROVE TypeOK'
BY TypeClient, TypeStream, TypeServer DEF StepOf, ClientStep

(* A step of one connection leaves the others as they are. *)
LEMMA Elsewhere ==
    ASSUME TypeOK, NEW c \in Client, NEW d \in Client, d # c, StepOf(c)
    PROVE  /\ end'[d] = end[d] /\ phase'[d] = phase[d] /\ call'[d] = call[d] /\ answer'[d] = answer[d]
           /\ strayed'[d] = strayed[d] /\ up'[d] = up[d] /\ down'[d] = down[d]
           /\ task'[d] = task[d] /\ job'[d] = job[d] /\ handled'[d] = handled[d]
<1> USE DEF TypeOK, clientVars, serverVars
<1>1. CASE Connect(c) \/ Disconnect(c) \/ StartCall(c) \/ Timeout(c) \/ ConnectionLost(c)
  BY <1>1 DEF Connect, Disconnect, StartCall, Timeout, ConnectionLost
<1>2. CASE SendLen(c) \/ SendBody(c) \/ RecvBody(c)
  BY <1>2 DEF SendLen, SendBody, Send, RecvBody
<1>3. CASE RecvLen(c) \/ RecvJunk(c)
  BY <1>3 DEF RecvLen, RecvJunk
<1>4. CASE Accept(c) \/ ReadEof(c) \/ Handle(c) \/ HandlerPanics(c)
  BY <1>4 DEF Accept, ReadEof, Handle, HandlerPanics
<1>5. CASE ReadLen(c) \/ ReadBody(c) \/ ReadJunk(c)
  BY <1>5, ReadEffect DEF ReadsInto
<1>6. CASE WriteLen(c) \/ WriteBody(c)
  BY <1>6 DEF WriteLen, WriteBody, Write
<1> QED
  BY <1>1, <1>2, <1>3, <1>4, <1>5, <1>6 DEF StepOf, ClientStep, ServerStep

-----------------------------------------------------------------------------
(* Order: the requests that were executed, the one in the task's hands and the
   ones on the stream follow each other as the calls did. *)

Executed(c) == Range(handled[c])
LastSent(c) == IF phase[c] \in {"send_len", "send_body"} THEN call[c] - 1 ELSE call[c]

OrderOf(c) ==
    /\ phase[c] # "idle" => call[c] >= 1
    /\ Ascending(up[c])
    /\ \A n \in Bodies(up[c]) :
          /\ n >= 1 /\ n <= LastSent(c)
          /\ \A h \in Executed(c) : h < n
          /\ task[c] = "handle" => job[c] < n
    /\ task[c] = "handle" =>
          /\ job[c] <= LastSent(c)
          /\ job[c] # Junk => \A h \in Executed(c) : h < job[c]
    /\ \A h \in Executed(c) : h <= LastSent(c)
    /\ InOrder(handled[c])

(* Whatever the server has written, or is about to, it has executed. *)
AnswerOf(c) ==
    /\ task[c] \in {"write_len", "write_body"} => job[c] \in Executed(c)
    /\ Numbers(down[c]) \subseteq Executed(c)
    /\ answer[c] \notin {NoAnswer, Junk} => answer[c] \in Executed(c)

LEMMA TypesAt ==
    ASSUME TypeOK, NEW c \in Client
    PROVE  /\ up[c] \in Seq(Item) /\ down[c] \in Seq(Item) /\ handled[c] \in Seq(Nat)
           /\ call[c] \in Nat /\ job[c] \in Nat /\ LastSent(c) \in Int
           /\ Executed(c) \subseteq Nat /\ Bodies(up[c]) \subseteq Nat
<1>1. up[c] \in Seq(Item) /\ down[c] \in Seq(Item) /\ handled[c] \in Seq(Nat) /\ call[c] \in Nat /\ job[c] \in Nat
  BY DEF TypeOK, CallNo
<1>2. Executed(c) \subseteq Nat
  BY <1>1, RangeOfSeq DEF Executed
<1> QED
  BY <1>1, <1>2 DEF Bodies, LastSent

(* The client's end: calls begin and end, and nothing moves. *)
LEMMA OrderClient ==
    ASSUME TypeOK, NEW c \in Client, OrderOf(c), AnswerOf(c),
           Connect(c) \/ Disconnect(c) \/ StartCall(c) \/ ConnectionLost(c) \/ Timeout(c)
    PROVE  OrderOf(c)' /\ AnswerOf(c)'
<1>1. /\ up' = up /\ down' = down /\ task' = task /\ job' = job /\ handled' = handled
      /\ answer'[c] \in {answer[c], NoAnswer}
      /\ \/ call'[c] = call[c] /\ phase'[c] \in {phase[c], "idle"}
         \/ call'[c] = call[c] + 1 /\ phase[c] = "idle" /\ phase'[c] = "send_len"
  BY DEF TypeOK, Connect, Disconnect, StartCall, ConnectionLost, Timeout, serverVars
<1>2. LastSent(c)' >= LastSent(c) /\ LastSent(c)' \in Int
  BY <1>1, TypesAt DEF LastSent
<1>3. Executed(c)' = Executed(c)
  BY <1>1 DEF Executed
<1>4. phase'[c] # "idle" => call'[c] >= 1
  BY <1>1, TypesAt DEF OrderOf
<1>5. AnswerOf(c)'
  BY <1>1, <1>3 DEF AnswerOf
<1>6. ASSUME NEW n \in Int, n <= LastSent(c) PROVE n <= LastSent(c)'
  BY <1>2, <1>6, TypesAt
<1>7. OrderOf(c)'
  <2>1. \A n \in Bodies(up[c]) : n <= LastSent(c)'
    <3> SUFFICES ASSUME NEW n \in Bodies(up[c]) PROVE n <= LastSent(c)'
      OBVIOUS
    <3>1. n \in Int /\ n <= LastSent(c)
      BY TypesAt DEF OrderOf
    <3> QED
      BY <1>6, <3>1
  <2>2. task[c] = "handle" => job[c] <= LastSent(c)'
    BY <1>6, TypesAt DEF OrderOf
  <2>3. \A h \in Executed(c) : h <= LastSent(c)'
    BY <1>6, TypesAt DEF OrderOf
  <2> QED
    BY <1>1, <1>3, <1>4, <2>1, <2>2, <2>3 DEF OrderOf
<1> QED
  BY <1>5, <1>7

LEMMA OrderSend ==
    ASSUME TypeOK, NEW c \in Client, OrderOf(c), AnswerOf(c), SendLen(c) \/ SendBody(c)
    PROVE  OrderOf(c)' /\ AnswerOf(c)'
<1>1. /\ down' = down /\ task' = task /\ job' = job /\ handled' = handled /\ answer' = answer /\ call' = call
      /\ \/ phase[c] = "send_len" /\ phase'[c] = "send_body" /\ up'[c] = Append(up[c], <<"len", call[c]>>)
         \/ phase[c] = "send_body" /\ phase'[c] = "recv_len" /\ up'[c] = Append(up[c], <<"body", call[c]>>)
  BY DEF TypeOK, SendLen, SendBody, Send, serverVars
<1>2. /\ Executed(c)' = Executed(c)
      /\ LastSent(c) = call[c] - 1
      /\ LastSent(c)' = IF phase[c] = "send_len" THEN call[c] - 1 ELSE call[c]
  BY <1>1 DEF Executed, LastSent
<1>3. AnswerOf(c)'
  BY <1>1, <1>2 DEF AnswerOf
<1>4. call[c] \in Nat /\ call[c] >= 1 /\ up[c] \in Seq(Item) /\ job[c] \in Nat
  BY <1>1, TypesAt DEF OrderOf
<1>5. \A n \in Bodies(up[c]) : n < call[c]
  <2> SUFFICES ASSUME NEW n \in Bodies(up[c]) PROVE n < call[c]
    OBVIOUS
  <2>1. n \in Nat /\ n <= LastSent(c)
    BY TypesAt DEF OrderOf
  <2>2. n <= call[c] - 1
    BY <1>2, <2>1
  <2> HIDE DEF TypeOK
  <2> QED
    BY <1>4, <2>1, <2>2
<1>6. /\ Ascending(up'[c])
      /\ \A n \in Bodies(up'[c]) : n \in Bodies(up[c]) \/ (phase[c] = "send_body" /\ n = call[c])
  <2>1. CASE phase[c] = "send_len"
    <3>1. up'[c] = Append(up[c], <<"len", call[c]>>) /\ Ascending(up[c])
      BY <1>1, <2>1 DEF OrderOf
    <3>2. /\ Bodies(Append(up[c], <<"len", call[c]>>)) \subseteq Bodies(up[c])
          /\ Ascending(Append(up[c], <<"len", call[c]>>))
      BY <1>4, <3>1, AppendToStream
    <3> QED
      BY <3>1, <3>2
  <2>2. CASE phase[c] = "send_body"
    <3>1. up'[c] = Append(up[c], <<"body", call[c]>>) /\ Ascending(up[c])
      BY <1>1, <2>2 DEF OrderOf
    <3>2. /\ Bodies(Append(up[c], <<"body", call[c]>>)) \subseteq Bodies(up[c]) \cup {call[c]}
          /\ Ascending(Append(up[c], <<"body", call[c]>>))
      BY <1>4, <1>5, <3>1, AppendToStream
    <3> QED
      BY <2>2, <3>1, <3>2
  <2> QED
    BY <1>1, <2>1, <2>2
<1>7. ASSUME NEW n \in Int, n <= LastSent(c) PROVE n <= LastSent(c)' /\ n < call[c]
  BY <1>2, <1>4, <1>7
<1>8. \A n \in Bodies(up'[c]) :
          /\ n >= 1 /\ n <= LastSent(c)'
          /\ \A h \in Executed(c) : h < n
          /\ task[c] = "handle" => job[c] < n
  <2> SUFFICES ASSUME NEW n \in Bodies(up'[c])
               PROVE  /\ n >= 1 /\ n <= LastSent(c)'
                      /\ \A h \in Executed(c) : h < n
                      /\ task[c] = "handle" => job[c] < n
    OBVIOUS
  <2>1. CASE n \in Bodies(up[c])
    <3>1. /\ n \in Int /\ n >= 1 /\ n <= LastSent(c)
          /\ \A h \in Executed(c) : h < n
          /\ task[c] = "handle" => job[c] < n
      BY <2>1, TypesAt DEF OrderOf
    <3> QED
      BY <1>7, <3>1
  <2>2. CASE phase[c] = "send_body" /\ n = call[c]
    <3>1. n >= 1 /\ n <= LastSent(c)'
      BY <1>2, <1>4, <2>2
    <3>2. \A h \in Executed(c) : h < n
      BY <1>7, <2>2, TypesAt DEF OrderOf
    <3>3. task[c] = "handle" => job[c] < n
      BY <1>7, <2>2, TypesAt DEF OrderOf
    <3> QED
      BY <3>1, <3>2, <3>3
  <2> QED
    BY <1>6, <2>1, <2>2
<1>9. OrderOf(c)'
  BY <1>1, <1>2, <1>4, <1>6, <1>7, <1>8, TypesAt DEF OrderOf
<1> QED
  BY <1>3, <1>9

LEMMA OrderRecv ==
    ASSUME TypeOK, NEW c \in Client, OrderOf(c), AnswerOf(c), RecvLen(c) \/ RecvBody(c) \/ RecvJunk(c)
    PROVE  OrderOf(c)' /\ AnswerOf(c)'
<1>1. /\ up' = up /\ task' = task /\ job' = job /\ handled' = handled /\ call' = call
      /\ phase[c] \notin {"send_len", "send_body", "idle"} /\ phase'[c] \notin {"send_len", "send_body"}
  BY DEF TypeOK, RecvLen, RecvBody, RecvJunk, serverVars
<1>2. Executed(c)' = Executed(c) /\ LastSent(c)' = LastSent(c)
  BY <1>1 DEF Executed, LastSent
<1>3. OrderOf(c)'
  BY <1>1, <1>2 DEF OrderOf
<1>4. Numbers(down'[c]) \subseteq Numbers(down[c]) /\ answer'[c] \in Numbers(down[c]) \cup {answer[c], NoAnswer, Junk}
  <2>1. PICK s : down' = [down EXCEPT ![c] = s] /\ LeftOf(down[c], s)
    BY RecvEffect
  <2>2. Numbers(down'[c]) \subseteq Numbers(down[c])
    BY <2>1, TypesAt, WhatIsLeft DEF TypeOK
  <2>3. CASE RecvLen(c) \/ RecvJunk(c)
    BY <2>2, <2>3 DEF RecvLen, RecvJunk, TypeOK
  <2>4. CASE RecvBody(c)
    <3>1. down[c] # <<>> /\ answer'[c] = Head(down[c])[2]
      BY <2>4 DEF RecvBody, TypeOK
    <3> QED
      BY <2>2, <3>1, TypesAt, TailOfStream
  <2> QED
    BY <2>3, <2>4
<1>5. AnswerOf(c)'
  BY <1>1, <1>2, <1>4 DEF AnswerOf
<1> QED
  BY <1>3, <1>5

LEMMA OrderServer ==
    ASSUME TypeOK, NEW c \in Client, OrderOf(c), AnswerOf(c), Accept(c) \/ ReadEof(c) \/ HandlerPanics(c)
    PROVE  OrderOf(c)' /\ AnswerOf(c)'
<1>1. /\ phase' = phase /\ call' = call /\ answer' = answer /\ down' = down /\ handled' = handled
      /\ up' = up /\ job' = job /\ task'[c] \notin {"handle", "write_len", "write_body"}
  BY DEF TypeOK, Accept, ReadEof, HandlerPanics, clientVars
<1>2. Executed(c)' = Executed(c) /\ LastSent(c)' = LastSent(c)
  BY <1>1 DEF Executed, LastSent
<1> QED
  BY <1>1, <1>2 DEF OrderOf, AnswerOf

LEMMA OrderRead ==
    ASSUME TypeOK, NEW c \in Client, OrderOf(c), AnswerOf(c), ReadLen(c) \/ ReadBody(c) \/ ReadJunk(c)
    PROVE  OrderOf(c)' /\ AnswerOf(c)'
<1>1. PICK s, t, j : ReadsInto(c, s, t, j)
  BY ReadEffect
<1>2. /\ phase' = phase /\ call' = call /\ answer' = answer /\ down' = down /\ handled' = handled
      /\ up'[c] = s /\ task'[c] = t /\ job'[c] = j /\ t \notin {"write_len", "write_body"}
  BY <1>1 DEF ReadsInto, TypeOK
<1>3. Executed(c)' = Executed(c) /\ LastSent(c)' = LastSent(c)
  BY <1>2 DEF Executed, LastSent
<1>4. AnswerOf(c)'
  BY <1>2, <1>3 DEF AnswerOf
<1>5. Bodies(s) \subseteq Bodies(up[c]) /\ Ascending(s)
  BY <1>1, TypesAt, WhatIsLeft DEF ReadsInto, OrderOf
<1>6. LastSent(c) >= 0
  BY TypesAt DEF LastSent, OrderOf
<1>7. t = "handle" =>
         /\ j <= LastSent(c)
         /\ j # Junk => \A h \in Executed(c) : h < j
         /\ \A n \in Bodies(s) : j < n
  <2>1. CASE t = "handle" /\ j = Junk
    <3>1. \A n \in Bodies(s) : n \in Nat /\ n >= 1
      BY <1>5, TypesAt DEF OrderOf
    <3> QED
      BY <1>6, <2>1, <3>1 DEF Junk
  <2>2. CASE up[c] # <<>> /\ Head(up[c])[1] = "body" /\ s = Tail(up[c]) /\ j = Head(up[c])[2]
    <3>1. j \in Bodies(up[c]) /\ \A n \in Bodies(s) : j < n
      BY <2>2, TypesAt, TailOfStream DEF OrderOf
    <3> QED
      BY <3>1 DEF OrderOf
  <2> QED
    BY <1>1, <2>1, <2>2 DEF ReadsInto
<1>8. OrderOf(c)'
  BY <1>2, <1>3, <1>5, <1>7 DEF OrderOf
<1> QED
  BY <1>4, <1>8

LEMMA OrderHandle ==
    ASSUME TypeOK, NEW c \in Client, OrderOf(c), AnswerOf(c), Handle(c)
    PROVE  OrderOf(c)' /\ AnswerOf(c)'
<1>1. /\ phase' = phase /\ call' = call /\ answer' = answer /\ down' = down /\ up' = up /\ job' = job
      /\ task[c] = "handle" /\ task'[c] = "write_len" /\ handled'[c] = Append(handled[c], job[c])
  BY DEF TypeOK, Handle, clientVars
<1>2. Executed(c)' = Executed(c) \cup {job[c]} /\ InOrder(handled'[c])
  BY <1>1, TypesAt, OneMoreExecuted DEF Executed, OrderOf
<1>3. LastSent(c)' = LastSent(c)
  BY <1>1 DEF LastSent
<1>4. AnswerOf(c)'
  BY <1>1, <1>2 DEF AnswerOf
<1>5. OrderOf(c)'
  BY <1>1, <1>2, <1>3 DEF OrderOf
<1> QED
  BY <1>4, <1>5

LEMMA OrderWrite ==
    ASSUME TypeOK, NEW c \in Client, OrderOf(c), AnswerOf(c), WriteLen(c) \/ WriteBody(c)
    PROVE  OrderOf(c)' /\ AnswerOf(c)'
<1>1. /\ phase' = phase /\ call' = call /\ answer' = answer /\ up' = up /\ job' = job /\ handled' = handled
      /\ task[c] \in {"write_len", "write_body"} /\ task'[c] # "handle"
      /\ \/ \E part \in {"len", "body"} : down'[c] = Append(down[c], <<part, job[c]>>)
         \/ down'[c] = down[c]
  BY DEF TypeOK, WriteLen, WriteBody, Write, clientVars
<1>2. Executed(c)' = Executed(c) /\ LastSent(c)' = LastSent(c)
  BY <1>1 DEF Executed, LastSent
<1>3. OrderOf(c)'
  BY <1>1, <1>2 DEF OrderOf
<1>4. Numbers(down'[c]) \subseteq Numbers(down[c]) \cup {job[c]}
  BY <1>1, TypesAt, AppendToStream
<1>5. AnswerOf(c)'
  BY <1>1, <1>2, <1>4 DEF AnswerOf
<1> QED
  BY <1>3, <1>5

LEMMA OrderStep ==
    ASSUME TypeOK, NEW c \in Client, OrderOf(c), AnswerOf(c), StepOf(c)
    PROVE  OrderOf(c)' /\ AnswerOf(c)'
BY OrderClient, OrderSend, OrderRecv, OrderServer, OrderRead, OrderHandle, OrderWrite DEF StepOf, ClientStep, ServerStep

-----------------------------------------------------------------------------
(* Alignment: as long as no call has timed out there is one frame on the
   connection at most, that of the call in progress. *)

LenItem(c) == <<"len", call[c]>>
BodyItem(c) == <<"body", call[c]>>

Quiet(c) ==
    /\ phase[c] \in {"idle", "send_len"} /\ task[c] \in {"none", "read_len", "ended"}
    /\ up[c] = <<>> /\ down[c] = <<>>

Asking(c) ==
    /\ down[c] = <<>>
    /\ \/ phase[c] = "send_body" /\ up[c] = <<LenItem(c)>> /\ task[c] \in {"none", "read_len"}
       \/ phase[c] = "send_body" /\ up[c] = <<>> /\ task[c] = "read_body"
       \/ phase[c] = "recv_len" /\ up[c] = <<LenItem(c), BodyItem(c)>> /\ task[c] \in {"none", "read_len"}
       \/ phase[c] = "recv_len" /\ up[c] = <<BodyItem(c)>> /\ task[c] = "read_body"

Answering(c) ==
    /\ up[c] = <<>> /\ job[c] = call[c]
    /\ \/ phase[c] = "recv_len" /\ down[c] = <<>> /\ task[c] \in {"handle", "write_len"}
       \/ phase[c] = "recv_len" /\ down[c] = <<LenItem(c)>> /\ task[c] = "write_body"
       \/ phase[c] = "recv_len" /\ down[c] = <<LenItem(c), BodyItem(c)>> /\ task[c] = "read_len"
       \/ phase[c] = "recv_body" /\ down[c] = <<>> /\ task[c] = "write_body"
       \/ phase[c] = "recv_body" /\ down[c] = <<BodyItem(c)>> /\ task[c] = "read_len"

Died(c) == phase[c] = "recv_len" /\ task[c] = "ended" /\ up[c] = <<>> /\ down[c] = <<>>

InStep(c) == Quiet(c) \/ Asking(c) \/ Answering(c) \/ Died(c)
AlignedOf(c) ==
    ~strayed[c] =>
        /\ answer[c] # NoAnswer => answer[c] = call[c]
        /\ end[c] = "gone" => answer[c] = NoAnswer
        /\ end[c] # "gone" => InStep(c)

LEMMA AlignedClient ==
    ASSUME TypeOK, NEW c \in Client, AlignedOf(c),
           Connect(c) \/ Disconnect(c) \/ StartCall(c) \/ ConnectionLost(c) \/ Timeout(c)
    PROVE  AlignedOf(c)'
<1> SUFFICES ASSUME ~strayed'[c]
             PROVE  /\ answer'[c] # NoAnswer => answer'[c] = call'[c]
                    /\ end'[c] = "gone" => answer'[c] = NoAnswer
                    /\ end'[c] # "gone" => InStep(c)'
  BY DEF AlignedOf
<1>1. ~Timeout(c) /\ ~strayed[c]
  BY Zenon DEF TypeOK, Connect, Disconnect, StartCall, ConnectionLost, Timeout
<1>2. /\ up' = up /\ down' = down /\ task' = task /\ job' = job
  BY <1>1 DEF Connect, Disconnect, StartCall, ConnectionLost, serverVars
<1> USE <1>1, <1>2 DEF InStep, Quiet, Asking, Answering, Died, LenItem, BodyItem
<1>3. CASE Connect(c)
  BY <1>3 DEF TypeOK, Connect, AlignedOf
<1>4. CASE Disconnect(c)
  BY <1>4 DEF TypeOK, Disconnect
<1>5. CASE StartCall(c)
  <2>1. Quiet(c) /\ end[c] = "up"
    BY <1>5 DEF StartCall, AlignedOf
  <2> QED
    BY <1>5, <2>1 DEF TypeOK, StartCall
<1>6. CASE ConnectionLost(c)
  <2>1. /\ phase[c] # "idle" /\ phase'[c] = "idle" /\ task[c] = "ended"
        /\ end' = end /\ answer' = answer /\ call' = call
    BY <1>6 DEF TypeOK, ConnectionLost
  <2>2. end[c] = "up"
    BY <2>1 DEF TypeOK
  <2>3. Quiet(c) \/ Died(c)
    BY <2>1, <2>2 DEF AlignedOf
  <2> QED
    BY <2>1, <2>2, <2>3 DEF AlignedOf
<1> QED
  BY <1>1, <1>3, <1>4, <1>5, <1>6

LEMMA AlignedStream ==
    ASSUME TypeOK, NEW c \in Client, AlignedOf(c), SendLen(c) \/ SendBody(c) \/ RecvLen(c) \/ RecvBody(c) \/ RecvJunk(c)
    PROVE  AlignedOf(c)'
<1> SUFFICES ASSUME ~strayed[c]
             PROVE  /\ answer'[c] # NoAnswer => answer'[c] = call'[c]
                    /\ InStep(c)'
                    /\ end'[c] # "gone"
  BY Zenon DEF AlignedOf, SendLen, SendBody, Send, RecvLen, RecvBody, RecvJunk
<1>1. /\ end' = end /\ call' = call /\ task' = task /\ job' = job
      /\ LenItem(c)' = LenItem(c) /\ BodyItem(c)' = BodyItem(c)
  BY DEF SendLen, SendBody, Send, RecvLen, RecvBody, RecvJunk, serverVars, LenItem, BodyItem
<1>2. end[c] = "up"
  BY DEF TypeOK, SendLen, SendBody, Send, RecvLen, RecvBody, RecvJunk
<1>3. InStep(c) /\ (answer[c] # NoAnswer => answer[c] = call[c])
  BY <1>2 DEF AlignedOf
<1>4. LenItem(c)[1] = "len" /\ BodyItem(c)[2] = call[c]
  BY DEF LenItem, BodyItem
<1> HIDE DEF LenItem, BodyItem
<1> USE <1>1, <1>2, <1>3, Frame
<1>5. CASE SendLen(c)
  <2>1. /\ phase[c] = "send_len" /\ phase'[c] = "send_body" /\ task[c] # "ended" /\ answer' = answer /\ down' = down
        /\ up'[c] = Append(up[c], LenItem(c))
    BY <1>5 DEF TypeOK, SendLen, Send, LenItem
  <2>2. Quiet(c)
    BY <2>1 DEF InStep, Asking, Answering, Died
  <2>3. Asking(c)'
    BY <2>1, <2>2 DEF Quiet, Asking
  <2> QED
    BY <2>1, <2>3 DEF InStep
<1>6. CASE SendBody(c)
  <2>1. /\ phase[c] = "send_body" /\ phase'[c] = "recv_len" /\ answer' = answer /\ down' = down
        /\ up'[c] = Append(up[c], BodyItem(c))
    BY <1>6 DEF TypeOK, SendBody, Send, BodyItem
  <2>2. Asking(c)
    BY <2>1 DEF InStep, Quiet, Answering, Died
  <2>3. Asking(c)'
    BY <2>1, <2>2 DEF Asking
  <2> QED
    BY <2>1, <2>3 DEF InStep
<1>7. CASE RecvLen(c)
  <2>1. /\ phase[c] = "recv_len" /\ down[c] # <<>> /\ answer' = answer /\ up' = up
        /\ Head(down[c])[1] = "len" => phase'[c] = "recv_body" /\ down'[c] = Tail(down[c])
    BY <1>7 DEF TypeOK, RecvLen
  <2>2. Answering(c)
    BY <2>1 DEF InStep, Quiet, Asking, Died
  <2>3. Head(down[c]) = LenItem(c)
    BY <2>1, <2>2 DEF Answering
  <2>4. phase'[c] = "recv_body" /\ down'[c] = Tail(down[c])
    BY <1>4, <2>1, <2>3
  <2>5. /\ up[c] = <<>> /\ job[c] = call[c]
        /\ \/ down[c] = <<LenItem(c)>> /\ task[c] = "write_body"
           \/ down[c] = <<LenItem(c), BodyItem(c)>> /\ task[c] = "read_len"
    BY <2>1, <2>2 DEF Answering
  <2>6. \/ down'[c] = <<>> /\ task[c] = "write_body"
        \/ down'[c] = <<BodyItem(c)>> /\ task[c] = "read_len"
    <3>1. Tail(<<LenItem(c)>>) = <<>> /\ Tail(<<LenItem(c), BodyItem(c)>>) = <<BodyItem(c)>>
      BY Frame, Zenon
    <3> QED
      BY <2>4, <2>5, <3>1, Zenon
  <2>7. up'[c] = <<>> /\ job'[c] = call'[c] /\ task'[c] = task[c]
    BY <2>1, <2>5
  <2>8. Answering(c)'
    BY <2>4, <2>6, <2>7, <1>1, Zenon DEF Answering
  <2> QED
    BY <2>1, <2>8 DEF InStep
<1>8. CASE RecvBody(c)
  <2>1. /\ phase[c] = "recv_body" /\ down[c] # <<>> /\ down'[c] = Tail(down[c]) /\ up' = up
        /\ phase'[c] = "idle" /\ answer'[c] = Head(down[c])[2]
    BY <1>8 DEF TypeOK, RecvBody
  <2>2. Answering(c)
    BY <2>1 DEF InStep, Quiet, Asking, Died
  <2>3. down[c] = <<BodyItem(c)>> /\ up[c] = <<>> /\ task[c] = "read_len"
    BY <2>1, <2>2 DEF Answering
  <2>4. answer'[c] = call[c] /\ Quiet(c)'
    BY <1>4, <2>1, <2>3 DEF Quiet
  <2> QED
    BY <2>4 DEF InStep
<1>9. CASE RecvJunk(c)
  BY <1>9 DEF RecvJunk, InStep, Quiet, Asking, Answering, Died
<1> QED
  BY <1>5, <1>6, <1>7, <1>8, <1>9

LEMMA AlignedServer ==
    ASSUME TypeOK, NEW c \in Client, AlignedOf(c), Accept(c) \/ ServerStep(c) \/ Handle(c) \/ HandlerPanics(c)
    PROVE  AlignedOf(c)'
<1> SUFFICES ASSUME ~strayed[c], end[c] # "gone" PROVE InStep(c)'
  BY Zenon DEF AlignedOf, Accept, ServerStep, ReadLen, ReadBody, ReadJunk, ReadAny, ReadEof, WriteLen, WriteBody, Write, Handle,
               HandlerPanics, clientVars
<1>1. /\ end' = end /\ call' = call /\ phase' = phase
      /\ LenItem(c)' = LenItem(c) /\ BodyItem(c)' = BodyItem(c)
  BY DEF Accept, ServerStep, ReadLen, ReadBody, ReadJunk, ReadAny, ReadEof, WriteLen, WriteBody, Write, Handle,
         HandlerPanics, clientVars, LenItem, BodyItem
<1>2. InStep(c)
  BY DEF AlignedOf
<1>3. LenItem(c)[1] = "len" /\ BodyItem(c)[1] = "body" /\ BodyItem(c)[2] = call[c]
  BY DEF LenItem, BodyItem
<1> HIDE DEF LenItem, BodyItem
<1> USE <1>1, <1>2, Frame
<1>4. CASE Accept(c)
  <2>1. task[c] = "none" /\ task'[c] = "read_len" /\ up' = up /\ down' = down /\ job' = job
    BY <1>4 DEF TypeOK, Accept
  <2> QED
    BY <2>1 DEF InStep, Quiet, Asking, Answering, Died
<1>5. CASE ReadLen(c)
  <2>1. /\ task[c] = "read_len" /\ up[c] # <<>> /\ down' = down /\ job' = job
        /\ Head(up[c])[1] = "len" => task'[c] = "read_body" /\ up'[c] = Tail(up[c])
    BY <1>5 DEF TypeOK, ReadLen
  <2>2. Asking(c)
    BY <2>1 DEF InStep, Quiet, Answering, Died
  <2>3. Head(up[c]) = LenItem(c)
    BY <2>1, <2>2 DEF Asking
  <2>4. task'[c] = "read_body" /\ up'[c] = Tail(up[c])
    BY <1>3, <2>1, <2>3
  <2>5. /\ down[c] = <<>>
        /\ \/ phase[c] = "send_body" /\ up[c] = <<LenItem(c)>>
           \/ phase[c] = "recv_len" /\ up[c] = <<LenItem(c), BodyItem(c)>>
    BY <2>1, <2>2 DEF Asking
  <2>6. \/ phase[c] = "send_body" /\ up'[c] = <<>>
        \/ phase[c] = "recv_len" /\ up'[c] = <<BodyItem(c)>>
    <3>1. Tail(<<LenItem(c)>>) = <<>> /\ Tail(<<LenItem(c), BodyItem(c)>>) = <<BodyItem(c)>>
      BY Frame, Zenon
    <3> QED
      BY <2>4, <2>5, <3>1, Zenon
  <2>7. down'[c] = <<>> /\ phase'[c] = phase[c]
    BY <2>1, <2>5
  <2>8. Asking(c)'
    BY <2>4, <2>6, <2>7, <1>1, Zenon DEF Asking
  <2> QED
    BY <2>8 DEF InStep
<1>6. CASE ReadBody(c)
  <2>1. task[c] = "read_body" /\ up[c] # <<>> /\ down' = down
    BY <1>6 DEF TypeOK, ReadBody, ReadAny
  <2>2. Asking(c)
    BY <2>1 DEF InStep, Quiet, Answering, Died
  <2>3. up[c] = <<BodyItem(c)>> /\ phase[c] = "recv_len" /\ down[c] = <<>>
    BY <2>1, <2>2 DEF Asking
  <2>4. Head(up[c])[1] = "body" /\ Head(up[c])[2] = call[c] /\ Tail(up[c]) = <<>>
    BY <1>3, <2>3
  <2>5. task'[c] = "handle" /\ job'[c] = call[c] /\ up'[c] = Tail(up[c])
    BY <1>6, <2>4 DEF TypeOK, ReadBody
  <2>6. Answering(c)'
    BY <2>1, <2>3, <2>4, <2>5 DEF Answering
  <2> QED
    BY <2>6 DEF InStep
<1>7. CASE ReadEof(c)
  BY <1>7 DEF ReadEof
<1>12. CASE ReadJunk(c)
  <2>1. task[c] = "read_junk"
    BY <1>12 DEF ReadJunk
  <2> QED
    BY <2>1 DEF InStep, Quiet, Asking, Answering, Died
<1>8. CASE Handle(c)
  <2>1. task[c] = "handle" /\ task'[c] = "write_len" /\ up' = up /\ down' = down /\ job' = job
    BY <1>8 DEF TypeOK, Handle
  <2> QED
    BY <2>1 DEF InStep, Quiet, Asking, Answering, Died
<1>9. CASE HandlerPanics(c)
  <2>1. task[c] = "handle" /\ task'[c] = "ended" /\ up' = up /\ down' = down /\ job' = job
    BY <1>9 DEF TypeOK, HandlerPanics
  <2> QED
    BY <2>1 DEF InStep, Quiet, Asking, Answering, Died
<1>10. CASE WriteLen(c)
  <2>1. task[c] = "write_len" /\ task'[c] = "write_body" /\ up' = up /\ job' = job
        /\ down'[c] = Append(down[c], <<"len", job[c]>>)
    BY <1>10 DEF TypeOK, WriteLen, Write
  <2>2. Answering(c) /\ phase[c] = "recv_len" /\ down[c] = <<>>
    BY <2>1 DEF InStep, Quiet, Asking, Answering, Died
  <2>3. down'[c] = <<LenItem(c)>>
    BY <2>1, <2>2 DEF Answering, LenItem
  <2>4. Answering(c)'
    BY <2>1, <2>2, <2>3 DEF Answering
  <2> QED
    BY <2>4 DEF InStep
<1>11. CASE WriteBody(c)
  <2>1. task[c] = "write_body" /\ task'[c] = "read_len" /\ up' = up /\ job' = job
        /\ down'[c] = Append(down[c], <<"body", job[c]>>)
    BY <1>11 DEF TypeOK, WriteBody, Write
  <2>2. Answering(c)
    BY <2>1 DEF InStep, Quiet, Asking, Died
  <2>3. down'[c] = Append(down[c], BodyItem(c))
    BY <2>1, <2>2 DEF Answering, BodyItem
  <2>4. Answering(c)'
    BY <2>1, <2>2, <2>3 DEF Answering
  <2> QED
    BY <2>4 DEF InStep
<1> QED
  BY <1>4, <1>5, <1>6, <1>7, <1>8, <1>9, <1>10, <1>11, <1>12 DEF ServerStep

LEMMA AlignedStep == ASSUME TypeOK, NEW c \in Client, AlignedOf(c), StepOf(c) PROVE AlignedOf(c)'
BY AlignedClient, AlignedStream, AlignedServer DEF StepOf, ClientStep

-----------------------------------------------------------------------------
(* The whole *)

IInv ==
    /\ TypeOK
    /\ \A c \in Client : OrderOf(c) /\ AnswerOf(c) /\ AlignedOf(c)

LEMMA InitHolds == Init => IInv
<1> SUFFICES ASSUME Init, NEW c \in Client PROVE OrderOf(c) /\ AnswerOf(c) /\ AlignedOf(c)
  BY TypeInit DEF IInv
<1>1. /\ end[c] = "none" /\ phase[c] = "idle" /\ call[c] = 0 /\ answer[c] = NoAnswer /\ up[c] = <<>> /\ down[c] = <<>>
      /\ task[c] = "none" /\ job[c] = Junk /\ handled[c] = <<>>
  BY DEF Init
<1>2. Executed(c) = {} /\ InOrder(handled[c])
  <2>1. DOMAIN <<>> = {}
    OBVIOUS
  <2> QED
    BY <1>1, <2>1 DEF Executed, Range, InOrder
<1>3. OrderOf(c)
  BY <1>1, <1>2, EmptyStream DEF OrderOf
<1>4. AnswerOf(c)
  BY <1>1, <1>2, EmptyStream DEF AnswerOf
<1>5. AlignedOf(c)
  BY <1>1 DEF AlignedOf, InStep, Quiet
<1> QED
  BY <1>3, <1>4, <1>5

LEMMA StepKeeps == IInv /\ [Next]_vars => IInv'
<1> SUFFICES ASSUME IInv, [Next]_vars PROVE IInv'
  OBVIOUS
<1>1. CASE UNCHANGED vars
  <2>1. TypeOK'
    BY <1>1 DEF vars, IInv, TypeOK
  <2> SUFFICES ASSUME NEW d \in Client PROVE OrderOf(d)' /\ AnswerOf(d)' /\ AlignedOf(d)'
    BY <2>1 DEF IInv
  <2>2. OrderOf(d) /\ AnswerOf(d) /\ AlignedOf(d)
    BY DEF IInv
  <2> QED
    BY <1>1, <2>2 DEF vars, OrderOf, AnswerOf, AlignedOf, InStep, Quiet, Asking, Answering, Died, LenItem, BodyItem,
           Executed, LastSent
<1>2. CASE Next
  <2>1. PICK c \in Client : StepOf(c)
    BY <1>2 DEF Next, StepOf
  <2>2. TypeOK'
    BY <2>1, TypeStep DEF IInv
  <2> SUFFICES ASSUME NEW d \in Client PROVE OrderOf(d)' /\ AnswerOf(d)' /\ AlignedOf(d)'
    BY <2>2 DEF IInv
  <2>3. TypeOK /\ OrderOf(d) /\ AnswerOf(d) /\ AlignedOf(d)
    BY DEF IInv
  <2>4. CASE d = c
    BY <2>1, <2>3, <2>4, OrderStep, AlignedStep
  <2>5. CASE d # c
    BY <2>1, <2>3, <2>5, Elsewhere DEF OrderOf, AnswerOf, AlignedOf, InStep, Quiet, Asking, Answering, Died, LenItem, BodyItem,
           Executed, LastSent
  <2> QED
    BY <2>4, <2>5
<1> QED
  BY <1>1, <1>2

LEMMA Invariant == Spec => []IInv
BY InitHolds, StepKeeps, PTL DEF Spec

(* The streams never hold more than a socket buffer and what both ends have in
   hand is of its type, whatever was left behind by calls that gave up. *)
THEOREM TypeCorrect == Spec => []TypeOK
BY Invariant, PTL DEF IInv

(* IpcClient::call: a response is the one to the call that returns it, on a
   connection where no call has timed out. *)
THEOREM CallsGetTheirAnswers == Spec => []AnswersOwnCall
<1>1. IInv => AnswersOwnCall
  BY DEF IInv, AlignedOf, AnswersOwnCall
<1> QED
  BY <1>1, Invariant, PTL

(* handle_connection: one connection's requests are executed at most once each,
   in the order of its calls. *)
THEOREM RequestsAreHandledInOrder == Spec => []HandledInOrder
<1>1. IInv => HandledInOrder
  BY DEF IInv, OrderOf, InOrder, HandledInOrder
<1> QED
  BY <1>1, Invariant, PTL

(* handle_connection: a response that a call returns was given by the handler,
   unless it was made up from misaligned bytes. *)
THEOREM AnswersWereHandled == Spec => []AnsweredWasHandled
<1>1. IInv => AnsweredWasHandled
  BY DEF IInv, AnswerOf, Executed, AnsweredWasHandled
<1> QED
  BY <1>1, Invariant, PTL

-----------------------------------------------------------------------------
(* The implementation of Calls.  A stream is a row of frames, perhaps without
   the length of the first or the body of the last, or with a part of an item
   before them; the responses on it that
   were not made up come in their order. *)

Paired(s) == \A i \in 1 .. Len(s) - 1 : s[i][1] = "len" => s[i + 1][1] = "body"
Open(s) == s # <<>> /\ s[Len(s)][1] = "len"
StartsWithBody(s) == s # <<>> /\ s[1][1] = "body"
StartsWithLen(s) == s # <<>> /\ s[1][1] = "len"
InTurn(s) == \A i \in 1 .. Len(s) - 1 : s[i + 1][1] = IF s[i][1] = "len" THEN "body" ELSE "len"
AnswersAscend(s) ==
    \A i, j \in 1 .. Len(s) : \A m, n \in Nat \ {Junk} :
        i < j /\ s[i] = <<"body", m>> /\ s[j] = <<"body", n>> => m < n

LEMMA FramesLeft ==
    ASSUME NEW s \in Seq(Item), NEW t, LeftOf(s, t)
    PROVE  /\ Paired(s) => Paired(t)
           /\ Open(t) => Open(s)
           /\ AnswersAscend(s) => AnswersAscend(t)
           /\ Bodies(t) \subseteq Bodies(s)
<1> DEFINE k == Len(s) - Len(t)
<1>1. Len(s) \in Nat /\ Len(t) \in Nat /\ k \in Nat /\ k + Len(t) = Len(s) /\ t \in Seq(Item)
  BY LenProperties DEF LeftOf
<1>2. \A i \in 1 .. Len(t) : k + i \in 1 .. Len(s) /\ (t[i] = s[k + i] \/ (i = 1 /\ t[i] = <<"rest", s[k + i][2]>>))
  BY <1>1 DEF LeftOf
<1> HIDE DEF k
<1>3. ASSUME Paired(s) PROVE Paired(t)
  <2> SUFFICES ASSUME NEW i \in 1 .. Len(t) - 1, t[i][1] = "len" PROVE t[i + 1][1] = "body"
    BY DEF Paired
  <2>1. i \in 1 .. Len(t) /\ i + 1 \in 1 .. Len(t) /\ i + 1 # 1 /\ k + i \in 1 .. Len(s) - 1 /\ k + (i + 1) = (k + i) + 1
    BY <1>1
  <2>2. t[i] # <<"rest", s[k + i][2]>>
    OBVIOUS
  <2>3. t[i] = s[k + i]
    BY <1>2, <2>1, <2>2
  <2>4. t[i + 1] = s[(k + i) + 1]
    BY <1>2, <2>1
  <2> QED
    BY <1>3, <2>1, <2>3, <2>4 DEF Paired
<1>4. ASSUME Open(t) PROVE Open(s)
  <2>1. Len(t) # 0
    BY <1>1, <1>4, EmptySeq DEF Open
  <2>2. Len(t) \in 1 .. Len(t) /\ k + Len(t) = Len(s)
    BY <1>1, <2>1
  <2>3. t[Len(t)] # <<"rest", s[k + Len(t)][2]>>
    BY <1>4 DEF Open
  <2>4. t[Len(t)] = s[Len(s)]
    BY <1>2, <2>2, <2>3
  <2>5. s # <<>>
    BY <1>1, <2>1, <2>2, EmptySeq
  <2> QED
    BY <1>4, <2>4, <2>5 DEF Open
<1>5. \A i \in 1 .. Len(t) : \A n \in Nat : t[i] = <<"body", n>> => s[k + i] = <<"body", n>>
  <2> SUFFICES ASSUME NEW i \in 1 .. Len(t), NEW n \in Nat, t[i] = <<"body", n>> PROVE s[k + i] = <<"body", n>>
    OBVIOUS
  <2>1. t[i] # <<"rest", s[k + i][2]>>
    OBVIOUS
  <2> QED
    BY <1>2, <2>1
<1>6. ASSUME AnswersAscend(s) PROVE AnswersAscend(t)
  <2> SUFFICES ASSUME NEW i \in 1 .. Len(t), NEW j \in 1 .. Len(t), NEW m \in Nat \ {Junk}, NEW n \in Nat \ {Junk},
                      i < j, t[i] = <<"body", m>>, t[j] = <<"body", n>>
               PROVE  m < n
    BY DEF AnswersAscend
  <2>1. k + i \in 1 .. Len(s) /\ k + j \in 1 .. Len(s) /\ k + i < k + j
    BY <1>1, <1>2
  <2>2. s[k + i] = <<"body", m>> /\ s[k + j] = <<"body", n>>
    BY <1>5
  <2> QED
    BY <1>6, <2>1, <2>2 DEF AnswersAscend
<1> QED
  BY <1>3, <1>4, <1>6, WhatIsLeft

(* The first item is taken. *)
LEMMA FramesTail ==
    ASSUME NEW s \in Seq(Item), s # <<>>
    PROVE  /\ Paired(s) => Paired(Tail(s))
           /\ Open(Tail(s)) => Open(s)
           /\ AnswersAscend(s) => AnswersAscend(Tail(s))
           /\ Bodies(Tail(s)) \subseteq Bodies(s)
           /\ Head(s) = s[1]
           /\ Paired(s) /\ Head(s)[1] = "len" /\ Tail(s) # <<>> => StartsWithBody(Tail(s))
           /\ Head(s)[1] = "len" /\ Tail(s) = <<>> => Open(s)
           /\ Head(s)[1] = "body" =>
                 /\ Head(s)[2] \in Bodies(s)
                 /\ AnswersAscend(s) /\ Head(s)[2] # Junk =>
                       \A n \in Bodies(Tail(s)) \ {Junk} : Head(s)[2] < n
<1>1. /\ Head(s) \in Item /\ Tail(s) \in Seq(Item) /\ Len(Tail(s)) = Len(s) - 1
      /\ \A i \in 1 .. Len(Tail(s)) : Tail(s)[i] = s[i + 1]
  BY HeadTailProperties
<1>2. Len(s) \in Nat \ {0} /\ Head(s) = s[1] /\ 1 \in 0 .. Len(s)
  BY EmptySeq
<1>3. \A i \in 1 .. Len(Tail(s)) : Tail(s)[i] = s[1 + i]
  BY <1>1, <1>2
<1>4. /\ Paired(s) => Paired(Tail(s))
      /\ Open(Tail(s)) => Open(s)
      /\ AnswersAscend(s) => AnswersAscend(Tail(s))
      /\ Bodies(Tail(s)) \subseteq Bodies(s)
  BY NothingTaken, FramesLeft
<1>5. ASSUME Paired(s), Head(s)[1] = "len", Tail(s) # <<>> PROVE StartsWithBody(Tail(s))
  <2>1. Len(Tail(s)) \in Nat /\ Len(Tail(s)) # 0
    BY <1>1, <1>5, EmptySeq, LenProperties
  <2>2. 1 \in 1 .. Len(s) - 1 /\ 1 \in 1 .. Len(Tail(s))
    BY <1>1, <1>2, <2>1
  <2>3. s[1][1] = "len" /\ Tail(s)[1] = s[1 + 1]
    BY <1>2, <1>3, <1>5, <2>2
  <2> QED
    BY <1>5, <2>2, <2>3 DEF Paired, StartsWithBody
<1>6. ASSUME Head(s)[1] = "len", Tail(s) = <<>> PROVE Open(s)
  <2>1. Len(<<>>) = 0
    OBVIOUS
  <2>2. Len(Tail(s)) = 0
    BY <1>6, <2>1, Zenon
  <2>3. Len(s) = 1
    <3>1. Len(s) \in Nat /\ Len(Tail(s)) = Len(s) - 1
      BY <1>1, <1>2, Zenon
    <3>2. \A m, n \in Int : m = 0 /\ m = n - 1 => n = 1
      OBVIOUS
    <3> QED
      BY <2>2, <3>1, <3>2
  <2>4. s[Len(s)][1] = "len"
    BY <1>2, <1>6, <2>3
  <2> QED
    BY <2>4 DEF Open
<1>7. ASSUME Head(s)[1] = "body"
      PROVE  /\ Head(s)[2] \in Bodies(s)
             /\ AnswersAscend(s) /\ Head(s)[2] # Junk => \A n \in Bodies(Tail(s)) \ {Junk} : Head(s)[2] < n
  <2>1. s[1] = <<"body", Head(s)[2]>> /\ Head(s)[2] \in Nat
    BY <1>1, <1>2, <1>7, ItemParts
  <2>2. Head(s)[2] \in Bodies(s)
    BY <1>2, <2>1 DEF Bodies
  <2>3. ASSUME AnswersAscend(s), Head(s)[2] # Junk, NEW n \in Bodies(Tail(s)) \ {Junk} PROVE Head(s)[2] < n
    <3>1. PICK i \in 1 .. Len(Tail(s)) : Tail(s)[i] = <<"body", n>>
      BY DEF Bodies
    <3>2. s[i + 1] = <<"body", n>> /\ i + 1 \in 1 .. Len(s) /\ 1 < i + 1 /\ 1 \in 1 .. Len(s) /\ n \in Nat
      BY <1>1, <1>2, <3>1 DEF Bodies
    <3> QED
      BY <2>1, <2>3, <3>2 DEF AnswersAscend
  <2> QED
    BY <2>2, <2>3
<1> QED
  BY <1>2, <1>4, <1>5, <1>6, <1>7

(* A stream of whole frames, perhaps without the length of the first or the
   body of the last, as it is on the way up until a call times out. *)
LEMMA InTurnTail ==
    ASSUME NEW s \in Seq(Item), s # <<>>, InTurn(s)
    PROVE  /\ Paired(s) /\ InTurn(Tail(s))
           /\ Head(s)[1] = "body" /\ Tail(s) # <<>> => StartsWithLen(Tail(s))
           /\ Open(s) /\ Tail(s) # <<>> => Open(Tail(s))
           /\ Open(s) /\ Tail(s) = <<>> => Head(s)[1] = "len"
<1>1. /\ Head(s) = s[1] /\ Tail(s) \in Seq(Item) /\ Len(Tail(s)) = Len(s) - 1
      /\ \A i \in 1 .. Len(Tail(s)) : Tail(s)[i] = s[i + 1]
      /\ Len(s) \in Nat \ {0}
  BY HeadTailProperties, EmptySeq
<1>2. Tail(s) # <<>> => Len(Tail(s)) \in Nat \ {0}
  BY <1>1, EmptySeq
<1>3. Tail(s) = <<>> => Len(s) = 1
  <2>1. Len(<<>>) = 0
    OBVIOUS
  <2>2. Tail(s) = <<>> => Len(Tail(s)) = 0
    BY <2>1, Zenon
  <2>3. \A m, n \in Int : m = 0 /\ m = n - 1 => n = 1
    OBVIOUS
  <2> QED
    BY <1>1, <2>2, <2>3
<1>4. Paired(s)
  BY DEF InTurn, Paired
<1> DEFINE t == Tail(s)
<1> HIDE DEF t
<1>5. /\ t = Tail(s) /\ Len(t) = Len(s) - 1 /\ \A i \in 1 .. Len(t) : t[i] = s[i + 1]
  BY <1>1 DEF t
<1>6. InTurn(t)
  <2> SUFFICES ASSUME NEW i \in 1 .. Len(t) - 1 PROVE t[i + 1][1] = IF t[i][1] = "len" THEN "body" ELSE "len"
    BY DEF InTurn
  <2>1. i \in 1 .. Len(t) /\ i + 1 \in 1 .. Len(t) /\ i + 1 \in 1 .. Len(s) - 1
    BY <1>1, <1>5
  <2>2. t[i] = s[i + 1] /\ t[i + 1] = s[(i + 1) + 1]
    BY <1>5, <2>1
  <2> QED
    BY <2>1, <2>2 DEF InTurn
<1>7. ASSUME Head(s)[1] = "body", t # <<>> PROVE StartsWithLen(t)
  <2>1. 1 \in 1 .. Len(s) - 1 /\ 1 \in 1 .. Len(t)
    BY <1>1, <1>2, <1>5, <1>7
  <2>2. t[1] = s[1 + 1] /\ s[1][1] = "body"
    BY <1>1, <1>5, <1>7, <2>1
  <2> QED
    BY <1>7, <2>1, <2>2 DEF InTurn, StartsWithLen
<1>8. ASSUME Open(s), t # <<>> PROVE Open(t)
  <2>1. Len(t) \in 1 .. Len(t) /\ Len(t) + 1 = Len(s)
    BY <1>1, <1>2, <1>5, <1>8
  <2>2. t[Len(t)] = s[Len(s)]
    BY <1>5, <2>1
  <2> QED
    BY <1>8, <2>2 DEF Open
<1>9. Open(s) /\ t = <<>> => Head(s)[1] = "len"
  BY <1>1, <1>3, <1>5 DEF Open
<1> QED
  BY <1>4, <1>5, <1>6, <1>7, <1>8, <1>9

LEMMA InTurnAppend ==
    ASSUME NEW s \in Seq(Item), NEW part \in {"len", "body"}, NEW n \in Nat, InTurn(s),
           s # <<>> => (Open(s) <=> part = "body")
    PROVE  /\ InTurn(Append(s, <<part, n>>))
           /\ Open(Append(s, <<part, n>>)) <=> part = "len"
           /\ StartsWithBody(s) => StartsWithBody(Append(s, <<part, n>>))
           /\ s = <<>> /\ part = "body" => StartsWithBody(Append(s, <<part, n>>))
           /\ StartsWithLen(s) \/ (s = <<>> /\ part = "len") => StartsWithLen(Append(s, <<part, n>>))
<1> DEFINE x == <<part, n>>
           t == Append(s, x)
<1>1. x \in Item /\ x[1] = part
  BY DEF Item, CallNo
<1>2. /\ t \in Seq(Item) /\ Len(t) = Len(s) + 1 /\ Len(s) \in Nat
      /\ \A i \in 1 .. Len(s) : t[i] = s[i]
      /\ t[Len(s) + 1] = x
  BY <1>1, AppendProperties, LenProperties
<1> HIDE DEF t
<1>3. t # <<>> /\ (s # <<>> => Len(s) # 0)
  BY <1>2, EmptySeq
<1>4. InTurn(t)
  <2> SUFFICES ASSUME NEW i \in 1 .. Len(t) - 1 PROVE t[i + 1][1] = IF t[i][1] = "len" THEN "body" ELSE "len"
    BY DEF InTurn
  <2>1. i \in 1 .. Len(s) /\ t[i] = s[i]
    BY <1>2
  <2>2. CASE i \in 1 .. Len(s) - 1
    <3>1. i + 1 \in 1 .. Len(s)
      BY <1>2, <2>2
    <3>2. t[i + 1] = s[i + 1]
      BY <1>2, <3>1
    <3> QED
      BY <2>1, <2>2, <3>2 DEF InTurn
  <2>3. CASE i = Len(s)
    <3>1. s # <<>>
      BY <2>1, <2>3
    <3>2. s[Len(s)][1] = "len" <=> part = "body"
      BY <3>1 DEF Open
    <3>3. t[i + 1][1] = part /\ t[i] = s[Len(s)]
      BY <1>1, <1>2, <2>1, <2>3
    <3> QED
      BY <3>2, <3>3
  <2> QED
    BY <1>2, <2>1, <2>2, <2>3
<1>5. Open(t) <=> part = "len"
  BY <1>1, <1>2, <1>3 DEF Open
<1>6. s # <<>> => t[1] = s[1]
  BY <1>2, <1>3
<1>7. s = <<>> => t[1] = x
  <2>1. s = <<>> => Len(s) = 0
    OBVIOUS
  <2> QED
    BY <1>2, <2>1
<1> QED
  BY <1>1, <1>3, <1>4, <1>5, <1>6, <1>7 DEF t, StartsWithBody, StartsWithLen

LEMMA FramesAppend ==
    ASSUME NEW s \in Seq(Item), NEW part \in {"len", "body"}, NEW n \in Nat
    PROVE  /\ Paired(s) /\ (part = "len" => ~Open(s)) => Paired(Append(s, <<part, n>>))
           /\ Open(Append(s, <<part, n>>)) => part = "len"
           /\ AnswersAscend(s) /\ (part = "body" /\ n # Junk => \A m \in Bodies(s) : m < n)
                => AnswersAscend(Append(s, <<part, n>>))
           /\ StartsWithBody(s) => StartsWithBody(Append(s, <<part, n>>))
           /\ s = <<>> /\ part = "body" => StartsWithBody(Append(s, <<part, n>>))
           /\ Append(s, <<part, n>>) # <<>>
<1> DEFINE x == <<part, n>>
           t == Append(s, x)
<1>1. x \in Item /\ x[1] = part
  BY DEF Item, CallNo
<1>2. /\ t \in Seq(Item) /\ Len(t) = Len(s) + 1 /\ Len(s) \in Nat
      /\ \A i \in 1 .. Len(s) : t[i] = s[i]
      /\ t[Len(s) + 1] = x
  BY <1>1, AppendProperties, LenProperties
<1> HIDE DEF t
<1>3. t # <<>>
  BY <1>2, EmptySeq
<1>4. ASSUME Paired(s), part = "len" => ~Open(s) PROVE Paired(t)
  <2> SUFFICES ASSUME NEW i \in 1 .. Len(t) - 1, t[i][1] = "len" PROVE t[i + 1][1] = "body"
    BY DEF Paired
  <2>1. i \in 1 .. Len(s) /\ t[i] = s[i]
    BY <1>2
  <2>2. CASE i \in 1 .. Len(s) - 1
    <3>1. i + 1 \in 1 .. Len(s)
      BY <1>2, <2>2
    <3> QED
      BY <1>2, <1>4, <2>1, <2>2, <3>1 DEF Paired
  <2>3. CASE i = Len(s)
    <3>1. s # <<>>
      BY <2>1, <2>3
    <3>2. Open(s)
      BY <2>1, <2>3, <3>1 DEF Open
    <3> QED
      BY <1>1, <1>2, <1>4, <2>3, <3>2
  <2> QED
    BY <1>2, <2>1, <2>2, <2>3
<1>5. ASSUME Open(t) PROVE part = "len"
  BY <1>1, <1>2, <1>5 DEF Open
<1>6. ASSUME AnswersAscend(s), part = "body" /\ n # Junk => \A m \in Bodies(s) : m < n PROVE AnswersAscend(t)
  <2> SUFFICES ASSUME NEW i \in 1 .. Len(t), NEW j \in 1 .. Len(t), NEW m \in Nat \ {Junk}, NEW o \in Nat \ {Junk},
                      i < j, t[i] = <<"body", m>>, t[j] = <<"body", o>>
               PROVE  m < o
    BY DEF AnswersAscend
  <2>1. i \in 1 .. Len(s) /\ s[i] = <<"body", m>>
    BY <1>2
  <2>2. CASE j \in 1 .. Len(s)
    BY <1>2, <1>6, <2>1, <2>2 DEF AnswersAscend
  <2>3. CASE j = Len(s) + 1
    <3>1. part = "body" /\ o = n
      BY <1>2, <2>3
    <3>2. m \in Bodies(s)
      BY <2>1 DEF Bodies
    <3> QED
      BY <1>6, <3>1, <3>2
  <2> QED
    BY <1>2, <2>2, <2>3
<1>7. ASSUME StartsWithBody(s) PROVE StartsWithBody(t)
  <2>1. Len(s) # 0
    BY <1>7, EmptySeq DEF StartsWithBody
  <2>2. t[1] = s[1]
    BY <1>2, <2>1
  <2> QED
    BY <1>3, <1>7, <2>2 DEF StartsWithBody
<1>8. ASSUME s = <<>>, part = "body" PROVE StartsWithBody(t)
  <2>1. Len(s) = 0
    BY <1>8
  <2> QED
    BY <1>1, <1>2, <1>3, <1>8, <2>1 DEF StartsWithBody
<1> QED
  BY <1>3, <1>4, <1>5, <1>6, <1>7, <1>8 DEF t

-----------------------------------------------------------------------------
(* Frames: both sides are at the same place of a frame, or the task has ended.
   On the way up that holds until a call times out. *)

DownOf(c) ==
    /\ Paired(down[c])
    /\ Open(down[c]) => task[c] \in {"write_body", "ended"}
    /\ phase[c] = "recv_body" =>
          StartsWithBody(down[c]) \/ (down[c] = <<>> /\ task[c] \in {"write_body", "ended"})

UpOf(c) ==
    ~strayed[c] =>
        /\ task[c] # "read_junk"
        /\ InTurn(up[c])
        /\ Open(up[c]) => phase[c] = "send_body" \/ end[c] = "gone" \/ task[c] = "ended"
        /\ phase[c] = "send_body" => Open(up[c]) \/ (up[c] = <<>> /\ task[c] = "read_body") \/ task[c] = "ended"
        /\ task[c] = "read_body" =>
              StartsWithBody(up[c]) \/ (up[c] = <<>> /\ (phase[c] = "send_body" \/ end[c] = "gone"))
        /\ task[c] \notin {"read_body", "ended"} => StartsWithLen(up[c]) \/ up[c] = <<>>

LEMMA DownStep ==
    ASSUME TypeOK, NEW c \in Client, DownOf(c), StepOf(c)
    PROVE  DownOf(c)'
<1> USE DEF TypeOK, clientVars, serverVars
<1>1. CASE Connect(c) \/ Disconnect(c) \/ StartCall(c) \/ Timeout(c) \/ ConnectionLost(c) \/ SendLen(c) \/ SendBody(c)
  <2>1. down' = down /\ task' = task
    BY <1>1 DEF Connect, Disconnect, StartCall, Timeout, ConnectionLost, SendLen, SendBody, Send
  <2>2. phase'[c] # "recv_body" \/ phase' = phase
    BY <1>1 DEF Connect, Disconnect, StartCall, Timeout, ConnectionLost, SendLen, SendBody, Send
  <2> QED
    BY <2>1, <2>2 DEF DownOf
<1>2. CASE RecvLen(c) /\ Head(down[c])[1] = "len"
  <2>1. task' = task /\ down[c] # <<>> /\ down'[c] = Tail(down[c])
    BY <1>2 DEF RecvLen
  <2>2. down[c] \in Seq(Item) /\ Paired(down[c]) /\ (Open(down[c]) => task[c] \in {"write_body", "ended"})
    BY DEF DownOf
  <2> HIDE DEF TypeOK
  <2>3. /\ Paired(Tail(down[c])) /\ (Open(Tail(down[c])) => Open(down[c]))
        /\ StartsWithBody(Tail(down[c])) \/ (Tail(down[c]) = <<>> /\ Open(down[c]))
    BY <1>2, <2>1, <2>2, FramesTail
  <2> QED
    BY <2>1, <2>2, <2>3 DEF DownOf
<1>3. CASE RecvBody(c)
  <2>1. task' = task /\ down[c] # <<>> /\ down'[c] = Tail(down[c]) /\ phase'[c] = "idle"
    BY <1>3 DEF RecvBody
  <2>2. down[c] \in Seq(Item) /\ Paired(down[c]) /\ (Open(down[c]) => task[c] \in {"write_body", "ended"})
    BY DEF DownOf
  <2> HIDE DEF TypeOK
  <2>3. Paired(Tail(down[c])) /\ (Open(Tail(down[c])) => Open(down[c]))
    BY <2>1, <2>2, FramesTail
  <2> QED
    BY <2>1, <2>2, <2>3 DEF DownOf
<1>4. CASE RecvJunk(c) \/ (RecvLen(c) /\ Head(down[c])[1] # "len")
  <2>1. task' = task /\ phase'[c] # "recv_body"
    BY <1>4 DEF RecvJunk, RecvLen
  <2>2. down[c] \in Seq(Item) /\ Paired(down[c]) /\ (Open(down[c]) => task[c] \in {"write_body", "ended"})
    BY DEF DownOf
  <2>3. PICK s : down'[c] = s /\ LeftOf(down[c], s)
    BY <1>4, RecvEffect
  <2> HIDE DEF TypeOK
  <2>4. Paired(s) /\ (Open(s) => Open(down[c]))
    BY <2>2, <2>3, FramesLeft
  <2> QED
    BY <2>1, <2>2, <2>3, <2>4 DEF DownOf
<1>5. CASE Accept(c) \/ ReadLen(c) \/ ReadBody(c) \/ ReadJunk(c) \/ ReadEof(c) \/ Handle(c) \/ HandlerPanics(c)
  <2>1. down' = down /\ phase' = phase /\ task[c] \notin {"write_body", "ended"}
    BY <1>5 DEF Accept, ReadLen, ReadBody, ReadJunk, ReadAny, ReadEof, Handle, HandlerPanics
  <2> QED
    BY <2>1 DEF DownOf
<1>6. CASE WriteLen(c)
  <2>1. /\ phase' = phase /\ task[c] = "write_len" /\ job[c] \in Nat /\ down[c] \in Seq(Item)
        /\ \/ task'[c] = "write_body" /\ down'[c] = Append(down[c], <<"len", job[c]>>)
           \/ task'[c] = "ended" /\ down'[c] = down[c]
    BY <1>6 DEF WriteLen, Write, CallNo
  <2>2. /\ Paired(down[c]) /\ ~Open(down[c])
        /\ phase[c] = "recv_body" => StartsWithBody(down[c])
    BY <2>1 DEF DownOf
  <2> HIDE DEF TypeOK
  <2>3. /\ Paired(Append(down[c], <<"len", job[c]>>))
        /\ StartsWithBody(down[c]) => StartsWithBody(Append(down[c], <<"len", job[c]>>))
    BY <2>1, <2>2, FramesAppend
  <2> QED
    BY <2>1, <2>2, <2>3 DEF DownOf
<1>7. CASE WriteBody(c)
  <2>1. /\ phase' = phase /\ task[c] = "write_body" /\ job[c] \in Nat /\ down[c] \in Seq(Item)
        /\ \/ task'[c] = "read_len" /\ down'[c] = Append(down[c], <<"body", job[c]>>)
           \/ task'[c] = "ended" /\ down'[c] = down[c]
    BY <1>7 DEF WriteBody, Write, CallNo
  <2>2. /\ Paired(down[c])
        /\ phase[c] = "recv_body" => StartsWithBody(down[c]) \/ down[c] = <<>>
    BY <2>1 DEF DownOf
  <2> HIDE DEF TypeOK
  <2>3. /\ Paired(Append(down[c], <<"body", job[c]>>)) /\ ~Open(Append(down[c], <<"body", job[c]>>))
        /\ StartsWithBody(down[c]) \/ down[c] = <<>> => StartsWithBody(Append(down[c], <<"body", job[c]>>))
    BY <2>1, <2>2, FramesAppend
  <2> QED
    BY <2>1, <2>2, <2>3 DEF DownOf
<1> QED
  BY <1>1, <1>2, <1>3, <1>4, <1>5, <1>6, <1>7 DEF StepOf, ClientStep, ServerStep

LEMMA UpStep ==
    ASSUME TypeOK, NEW c \in Client, UpOf(c), StepOf(c)
    PROVE  UpOf(c)'
<1> USE DEF TypeOK, clientVars, serverVars
<1>1. CASE Timeout(c)
  <2>1. strayed'[c]
    BY <1>1, Zenon DEF Timeout
  <2> QED
    BY <2>1 DEF UpOf
<1>2. CASE strayed[c] /\ ~Timeout(c)
  <2>1. strayed' = strayed
    BY <1>2 DEF StepOf, ClientStep, ServerStep, Connect, Disconnect, StartCall, ConnectionLost, SendLen, SendBody, Send,
       RecvLen, RecvBody, RecvJunk, Accept, ReadLen, ReadBody, ReadJunk, ReadAny, ReadEof, WriteLen, WriteBody, Write,
       Handle, HandlerPanics
  <2> QED
    BY <1>2, <2>1 DEF UpOf
<1> SUFFICES ASSUME ~strayed[c], ~Timeout(c) PROVE UpOf(c)'
  BY <1>1, <1>2
<1>3. /\ task[c] # "read_junk"
      /\ InTurn(up[c])
      /\ Open(up[c]) => phase[c] = "send_body" \/ end[c] = "gone" \/ task[c] = "ended"
      /\ phase[c] = "send_body" => Open(up[c]) \/ (up[c] = <<>> /\ task[c] = "read_body") \/ task[c] = "ended"
      /\ task[c] = "read_body" =>
            \/ StartsWithBody(up[c])
            \/ up[c] = <<>> /\ (phase[c] = "send_body" \/ end[c] = "gone")
      /\ task[c] \notin {"read_body", "ended"} => StartsWithLen(up[c]) \/ up[c] = <<>>
      /\ up[c] \in Seq(Item) /\ call[c] \in Nat
  BY DEF UpOf
<1>4. CASE Connect(c) \/ StartCall(c) \/ RecvLen(c) \/ RecvBody(c) \/ RecvJunk(c)
  <2>1. /\ up' = up /\ task' = task /\ phase[c] # "send_body" /\ phase'[c] # "send_body"
        /\ end[c] = "gone" => end'[c] = "gone"
    BY <1>4 DEF Connect, StartCall, RecvLen, RecvBody, RecvJunk
  <2> QED
    BY <1>3, <2>1 DEF UpOf
<1>5. CASE Disconnect(c) \/ ConnectionLost(c)
  <2>1. /\ up' = up /\ task' = task /\ phase'[c] # "send_body"
        /\ end'[c] = "gone" \/ (task[c] = "ended" /\ end' = end)
    BY <1>5 DEF Disconnect, ConnectionLost
  <2> QED
    BY <1>3, <2>1 DEF UpOf
<1>6. CASE SendLen(c)
  <2>1. /\ task' = task /\ phase[c] = "send_len" /\ phase'[c] = "send_body" /\ up'[c] = Append(up[c], <<"len", call[c]>>)
        /\ task[c] # "ended" /\ end[c] = "up"
    BY <1>6 DEF SendLen, Send
  <2>2. ~Open(up[c]) /\ (task[c] = "read_body" => StartsWithBody(up[c]))
    BY <1>3, <2>1
  <2> HIDE DEF TypeOK
  <2>3. /\ InTurn(up'[c]) /\ Open(up'[c])
        /\ StartsWithBody(up[c]) => StartsWithBody(up'[c])
        /\ StartsWithLen(up[c]) \/ up[c] = <<>> => StartsWithLen(up'[c])
    BY <1>3, <2>1, <2>2, InTurnAppend
  <2> QED
    BY <1>3, <2>1, <2>2, <2>3 DEF UpOf
<1>7. CASE SendBody(c)
  <2>1. /\ task' = task /\ phase[c] = "send_body" /\ phase'[c] = "recv_len" /\ up'[c] = Append(up[c], <<"body", call[c]>>)
        /\ task[c] # "ended" /\ end[c] = "up"
    BY <1>7 DEF SendBody, Send
  <2>2. Open(up[c]) \/ (up[c] = <<>> /\ task[c] = "read_body")
    BY <1>3, <2>1
  <2> HIDE DEF TypeOK
  <2>3. /\ InTurn(up'[c]) /\ ~Open(up'[c])
        /\ StartsWithBody(up[c]) \/ up[c] = <<>> => StartsWithBody(up'[c])
        /\ StartsWithLen(up[c]) => StartsWithLen(up'[c])
    BY <1>3, <2>1, <2>2, InTurnAppend
  <2>4. Open(up[c]) => up[c] # <<>>
    BY DEF Open
  <2> QED
    BY <1>3, <2>1, <2>2, <2>3, <2>4 DEF UpOf
<1>8. CASE Accept(c) \/ ReadEof(c) \/ Handle(c) \/ HandlerPanics(c) \/ WriteLen(c) \/ WriteBody(c)
  <2>1. /\ up' = up /\ phase' = phase /\ end' = end /\ task[c] # "ended"
        /\ task'[c] \notin {"read_body", "read_junk"} /\ (task[c] = "read_body" => task'[c] = "ended")
    BY <1>8 DEF Accept, ReadEof, Handle, HandlerPanics, WriteLen, WriteBody, Write
  <2> QED
    BY <1>3, <2>1 DEF UpOf
<1>9. CASE ReadLen(c)
  <2>1. up[c] # <<>> /\ phase' = phase /\ end' = end /\ task[c] = "read_len"
    BY <1>9 DEF ReadLen
  <2>2. Head(up[c])[1] = "len"
    <3>1. Head(up[c]) = up[c][1]
      BY <1>3, <2>1, FramesTail
    <3> QED
      BY <1>3, <2>1, <3>1 DEF StartsWithLen
  <2>3. up'[c] = Tail(up[c]) /\ task'[c] = "read_body"
    BY <1>9, <2>2 DEF ReadLen
  <2> HIDE DEF TypeOK
  <2>4. /\ Paired(up[c]) /\ InTurn(Tail(up[c]))
        /\ Open(up[c]) /\ Tail(up[c]) # <<>> => Open(Tail(up[c]))
    BY <1>3, <2>1, InTurnTail
  <2>5. /\ Open(Tail(up[c])) => Open(up[c])
        /\ StartsWithBody(Tail(up[c])) \/ (Tail(up[c]) = <<>> /\ Open(up[c]))
    BY <1>3, <2>1, <2>2, <2>4, FramesTail
  <2> QED
    BY <1>3, <2>1, <2>3, <2>4, <2>5 DEF UpOf
<1>10. CASE ReadBody(c)
  <2>1. up[c] # <<>> /\ phase' = phase /\ end' = end /\ task[c] = "read_body"
    BY <1>10 DEF ReadBody, ReadAny
  <2>2. Head(up[c])[1] = "body"
    <3>1. Head(up[c]) = up[c][1]
      BY <1>3, <2>1, FramesTail
    <3> QED
      BY <1>3, <2>1, <3>1 DEF StartsWithBody
  <2>3. up'[c] = Tail(up[c]) /\ task'[c] = "handle"
    BY <1>10, <2>2 DEF ReadBody
  <2> HIDE DEF TypeOK
  <2>4. /\ InTurn(Tail(up[c]))
        /\ StartsWithLen(Tail(up[c])) \/ Tail(up[c]) = <<>>
        /\ Open(up[c]) => Open(Tail(up[c]))
    BY <1>3, <2>1, <2>2, InTurnTail
  <2>5. Open(Tail(up[c])) => Open(up[c])
    BY <1>3, <2>1, FramesTail
  <2> QED
    BY <1>3, <2>1, <2>3, <2>4, <2>5 DEF UpOf
<1>11. CASE ReadJunk(c)
  BY <1>3, <1>11 DEF ReadJunk
<1> QED
  BY <1>4, <1>5, <1>6, <1>7, <1>8, <1>9, <1>10, <1>11 DEF StepOf, ClientStep, ServerStep

-----------------------------------------------------------------------------
(* Responses are returned in their order, none twice: what is on its way is
   later than what was returned, and what the task is about to write is later
   still. *)

OnceOf(c) ==
    /\ last[c] \in Executed(c) \cup {0}
    /\ answer[c] \notin {NoAnswer, Junk} => answer[c] = last[c]
    /\ phase[c] # "idle" => answer[c] = NoAnswer
    /\ AnswersAscend(down[c])
    /\ \A n \in Bodies(down[c]) \ {Junk} : last[c] < n
    /\ task[c] \in {"write_len", "write_body"} /\ job[c] # Junk =>
          last[c] < job[c] /\ \A n \in Bodies(down[c]) : n < job[c]
    /\ Junk \in Bodies(down[c]) => strayed[c]
    /\ task[c] \in {"handle", "write_len", "write_body"} /\ job[c] = Junk => strayed[c]

Noted(c) == last'[c] = IF answer'[c] \in {NoAnswer, Junk} THEN last[c] ELSE answer'[c]

(* Nothing is returned. *)
LEMMA LastStays ==
    ASSUME NEW c \in Client, OnceOf(c), Noted(c), answer'[c] \in {answer[c], NoAnswer, Junk}
    PROVE  /\ last'[c] = last[c]
           /\ answer'[c] \notin {NoAnswer, Junk} => answer'[c] = last'[c]
BY DEF OnceOf, Noted

LEMMA OnceClient ==
    ASSUME TypeOK, NEW c \in Client, OnceOf(c), Noted(c),
           \/ Connect(c) \/ Disconnect(c) \/ StartCall(c) \/ ConnectionLost(c) \/ Timeout(c)
           \/ SendLen(c) \/ SendBody(c)
    PROVE  OnceOf(c)'
<1>1. /\ down' = down /\ task' = task /\ job' = job /\ handled' = handled
      /\ answer'[c] \in {answer[c], NoAnswer}
      /\ phase'[c] # "idle" => (phase[c] # "idle" /\ answer'[c] = answer[c]) \/ answer'[c] = NoAnswer
  BY DEF TypeOK, Connect, Disconnect, StartCall, ConnectionLost, Timeout, SendLen, SendBody, Send, serverVars
<1>2. strayed[c] => strayed'[c]
  <2>1. CASE Timeout(c)
    BY <2>1 DEF TypeOK, Timeout
  <2>2. CASE ~Timeout(c)
    BY <2>2 DEF Connect, Disconnect, StartCall, ConnectionLost, SendLen, SendBody, Send
  <2> QED
    BY <2>1, <2>2
<1>3. last'[c] = last[c] /\ (answer'[c] \notin {NoAnswer, Junk} => answer'[c] = last'[c])
  BY <1>1, LastStays
<1>4. Executed(c)' = Executed(c)
  BY <1>1 DEF Executed
<1> QED
  BY <1>1, <1>2, <1>3, <1>4 DEF OnceOf

LEMMA OnceRecv ==
    ASSUME TypeOK, NEW c \in Client, AnswerOf(c), DownOf(c), OnceOf(c), Noted(c),
           RecvLen(c) \/ RecvBody(c) \/ RecvJunk(c)
    PROVE  OnceOf(c)'
<1>1. task' = task /\ job' = job /\ handled' = handled /\ strayed' = strayed /\ down[c] \in Seq(Item)
  BY DEF TypeOK, RecvLen, RecvBody, RecvJunk, serverVars
<1>2. Executed(c)' = Executed(c)
  BY <1>1 DEF Executed
<1>3. CASE RecvLen(c) \/ RecvJunk(c)
  <2>1. PICK s : down'[c] = s /\ LeftOf(down[c], s)
    BY <1>3, RecvEffect DEF TypeOK
  <2>2. /\ answer'[c] \in {answer[c], NoAnswer, Junk}
        /\ phase'[c] # "idle" => phase[c] # "idle" /\ answer'[c] = answer[c]
    BY <1>3 DEF TypeOK, RecvLen, RecvJunk
  <2>3. last'[c] = last[c] /\ (answer'[c] \notin {NoAnswer, Junk} => answer'[c] = last'[c])
    BY <2>2, LastStays
  <2>4. AnswersAscend(down'[c]) /\ Bodies(down'[c]) \subseteq Bodies(down[c])
    BY <1>1, <2>1, FramesLeft DEF OnceOf
  <2> QED
    BY <1>1, <1>2, <2>2, <2>3, <2>4 DEF OnceOf
<1>5. CASE RecvBody(c)
  <2>1. /\ down[c] # <<>> /\ down'[c] = Tail(down[c]) /\ answer'[c] = Head(down[c])[2]
        /\ phase[c] = "recv_body" /\ phase'[c] = "idle"
    BY <1>5 DEF TypeOK, RecvBody
  <2>2. Head(down[c])[1] = "body"
    <3>1. Head(down[c]) = down[c][1]
      BY <1>1, <2>1, FramesTail
    <3> QED
      BY <2>1, <3>1 DEF DownOf, StartsWithBody
  <2> DEFINE n == Head(down[c])[2]
  <2>3. /\ AnswersAscend(down'[c]) /\ Bodies(down'[c]) \subseteq Bodies(down[c]) /\ n \in Bodies(down[c])
        /\ n # Junk => \A m \in Bodies(down'[c]) \ {Junk} : n < m
    BY <1>1, <2>1, <2>2, FramesTail DEF OnceOf
  <2>4. n \in Executed(c) /\ n \in Nat /\ n # NoAnswer
    <3>1. n \in Numbers(down[c]) /\ Head(down[c]) \in Item
      BY <1>1, <2>1, TailOfStream
    <3> QED
      BY <3>1, ItemParts DEF AnswerOf, NoAnswer
  <2> HIDE DEF n
  <2>5. CASE n = Junk
    <3>1. last'[c] = last[c]
      BY <2>1, <2>5, LastStays DEF n
    <3> QED
      BY <1>1, <1>2, <2>1, <2>3, <2>5, <3>1 DEF OnceOf, n
  <2>6. CASE n # Junk
    <3>1. last'[c] = n
      BY <2>1, <2>4, <2>6 DEF Noted, n
    <3>2. task[c] \in {"write_len", "write_body"} /\ job[c] # Junk => n < job[c]
      BY <2>3 DEF OnceOf
    <3> QED
      BY <1>1, <1>2, <2>1, <2>3, <2>4, <2>6, <3>1, <3>2 DEF OnceOf, n
  <2> QED
    BY <2>5, <2>6
<1> QED
  BY <1>3, <1>5

LEMMA OnceServer ==
    ASSUME TypeOK, NEW c \in Client, OrderOf(c), UpOf(c), OnceOf(c), Noted(c),
           Accept(c) \/ ReadLen(c) \/ ReadBody(c) \/ ReadJunk(c) \/ ReadEof(c) \/ HandlerPanics(c)
    PROVE  OnceOf(c)'
<1>1. /\ phase' = phase /\ answer' = answer /\ strayed' = strayed /\ down' = down /\ handled' = handled
      /\ task'[c] \notin {"write_len", "write_body"}
  BY DEF TypeOK, Accept, ReadLen, ReadBody, ReadJunk, ReadAny, ReadEof, HandlerPanics, clientVars
<1>2. last'[c] = last[c] /\ (answer'[c] \notin {NoAnswer, Junk} => answer'[c] = last'[c])
  BY <1>1, LastStays
<1>3. Executed(c)' = Executed(c)
  BY <1>1 DEF Executed
<1>4. task'[c] = "handle" /\ job'[c] = Junk => strayed[c]
  <2> SUFFICES ASSUME ~strayed[c], task'[c] = "handle" PROVE job'[c] # Junk
    OBVIOUS
  <2>0. ~ReadJunk(c)
    BY DEF UpOf, ReadJunk
  <2>1. ReadBody(c)
    BY <2>0 DEF TypeOK, Accept, ReadLen, ReadEof, HandlerPanics
  <2>2. up[c] \in Seq(Item) /\ up[c] # <<>> /\ task[c] = "read_body"
    BY <2>1 DEF TypeOK, ReadBody, ReadAny
  <2>3. Head(up[c]) = up[c][1]
    BY <2>2, FramesTail
  <2>4. Head(up[c])[1] = "body"
    BY <2>2, <2>3 DEF UpOf, StartsWithBody
  <2>5. job'[c] = Head(up[c])[2]
    BY <2>1, <2>4 DEF TypeOK, ReadBody
  <2>6. Head(up[c])[2] \in Bodies(up[c])
    BY <2>2, <2>4, FramesTail
  <2> QED
    BY <2>5, <2>6 DEF OrderOf, Junk
<1> QED
  BY <1>1, <1>2, <1>3, <1>4 DEF OnceOf

LEMMA OnceHandle ==
    ASSUME TypeOK, NEW c \in Client, OrderOf(c), AnswerOf(c), OnceOf(c), Noted(c), Handle(c)
    PROVE  OnceOf(c)'
<1>1. /\ phase' = phase /\ answer' = answer /\ strayed' = strayed /\ down' = down /\ job' = job
      /\ task[c] = "handle" /\ task'[c] = "write_len" /\ handled'[c] = Append(handled[c], job[c])
  BY DEF TypeOK, Handle, clientVars
<1>2. last'[c] = last[c] /\ (answer'[c] \notin {NoAnswer, Junk} => answer'[c] = last'[c])
  BY <1>1, LastStays
<1>3. Executed(c)' = Executed(c) \cup {job[c]}
  BY <1>1, TypesAt, OneMoreExecuted DEF Executed
<1>4. Bodies(down[c]) \subseteq Numbers(down[c])
  <2> SUFFICES ASSUME NEW n \in Nat, NEW i \in 1 .. Len(down[c]), down[c][i] = <<"body", n>>
               PROVE  n \in Numbers(down[c])
    BY DEF Bodies
  <2>1. down[c][i][2] = n
    OBVIOUS
  <2> QED
    BY <2>1 DEF Numbers
<1>5. job[c] # Junk => last[c] < job[c] /\ \A n \in Bodies(down[c]) : n < job[c]
  <2> SUFFICES ASSUME job[c] # Junk PROVE last[c] < job[c] /\ \A n \in Bodies(down[c]) : n < job[c]
    OBVIOUS
  <2>1. \A h \in Executed(c) : h < job[c]
    BY <1>1 DEF OrderOf
  <2>2. job[c] \in Nat /\ 0 < job[c]
    BY TypesAt DEF Junk
  <2> QED
    BY <1>4, <2>1, <2>2 DEF OnceOf, AnswerOf
<1> QED
  BY <1>1, <1>2, <1>3, <1>5 DEF OnceOf

LEMMA OnceWrite ==
    ASSUME TypeOK, NEW c \in Client, OnceOf(c), Noted(c), WriteLen(c) \/ WriteBody(c)
    PROVE  OnceOf(c)'
<1>1. /\ phase' = phase /\ answer' = answer /\ strayed' = strayed /\ job' = job /\ handled' = handled
      /\ down[c] \in Seq(Item) /\ job[c] \in Nat /\ task[c] \in {"write_len", "write_body"}
  BY DEF TypeOK, WriteLen, WriteBody, Write, clientVars, CallNo
<1>2. last'[c] = last[c] /\ (answer'[c] \notin {NoAnswer, Junk} => answer'[c] = last'[c])
  BY <1>1, LastStays
<1>3. Executed(c)' = Executed(c)
  BY <1>1 DEF Executed
<1>4. CASE task'[c] = "ended" /\ down'[c] = down[c]
  BY <1>1, <1>2, <1>3, <1>4 DEF OnceOf
<1>5. CASE task'[c] = "write_body" /\ down'[c] = Append(down[c], <<"len", job[c]>>)
  <2>1. Bodies(down'[c]) \subseteq Bodies(down[c]) /\ AnswersAscend(down'[c])
    BY <1>1, <1>5, AppendToStream, FramesAppend DEF OnceOf
  <2> QED
    BY <1>1, <1>2, <1>3, <1>5, <2>1 DEF OnceOf
<1>6. CASE task'[c] = "read_len" /\ down'[c] = Append(down[c], <<"body", job[c]>>)
  <2>1. Bodies(down'[c]) \subseteq Bodies(down[c]) \cup {job[c]}
    BY <1>1, <1>6, AppendToStream
  <2>2. job[c] # Junk => \A m \in Bodies(down[c]) : m < job[c]
    BY <1>1 DEF OnceOf
  <2>3. AnswersAscend(down'[c])
    BY <1>1, <1>6, <2>2, FramesAppend DEF OnceOf
  <2> QED
    BY <1>1, <1>2, <1>3, <1>6, <2>1, <2>3 DEF OnceOf
<1> QED
  BY <1>4, <1>5, <1>6 DEF TypeOK, WriteLen, WriteBody, Write

-----------------------------------------------------------------------------
(* The invariant of the implementation. *)

HInv ==
    /\ IInv
    /\ last \in [Client -> Nat]
    /\ \A c \in Client : DownOf(c) /\ UpOf(c) /\ OnceOf(c)

LEMMA HInitHolds == HInit => HInv
<1> SUFFICES ASSUME HInit PROVE HInv
  OBVIOUS
<1>1. IInv
  BY InitHolds DEF HInit
<1>2. last \in [Client -> Nat]
  BY DEF HInit
<1> SUFFICES ASSUME NEW c \in Client PROVE DownOf(c) /\ UpOf(c) /\ OnceOf(c)
  BY <1>1, <1>2 DEF HInv
<1>3. /\ phase[c] = "idle" /\ task[c] = "none" /\ up[c] = <<>> /\ down[c] = <<>>
      /\ answer[c] = NoAnswer /\ last[c] = 0
  BY DEF HInit, Init
<1>4. Len(<<>>) = 0
  OBVIOUS
<1>5. Paired(<<>>) /\ InTurn(<<>>) /\ ~Open(<<>>) /\ AnswersAscend(<<>>) /\ Bodies(<<>>) = {}
  BY <1>4, EmptyStream DEF Paired, InTurn, Open, AnswersAscend
<1>6. DownOf(c) /\ UpOf(c)
  BY <1>3, <1>5 DEF DownOf, UpOf
<1>7. OnceOf(c)
  BY <1>3, <1>5 DEF OnceOf
<1> QED
  BY <1>6, <1>7

(* Only the connection that makes the step may return a response. *)
LEMMA LastStep ==
    ASSUME HInv, NEW c \in Client, StepOf(c), HNext
    PROVE  /\ last' \in [Client -> Nat]
           /\ \A d \in Client : Noted(d)
           /\ \A d \in Client : d # c => last'[d] = last[d]
           /\ answer'[c] \in {answer[c], NoAnswer, Junk} => last' = last
<1>1. TypeOK /\ last \in [Client -> Nat] /\ \A d \in Client : OnceOf(d)
  BY DEF HInv, IInv
<1>2. TypeOK'
  BY <1>1, TypeStep
<1>3. last' = [d \in Client |-> IF answer'[d] \in {NoAnswer, Junk} THEN last[d] ELSE answer'[d]]
  BY DEF HNext
<1>4. \A d \in Client : Noted(d)
  BY <1>3 DEF Noted
<1>5. last' \in [Client -> Nat]
  BY <1>1, <1>2, <1>3 DEF TypeOK, CallNo
<1>6. ASSUME NEW d \in Client, d # c PROVE last'[d] = last[d]
  <2>1. answer'[d] = answer[d]
    BY <1>1, <1>6, Elsewhere
  <2> QED
    BY <1>1, <1>4, <2>1, LastStays
<1>7. ASSUME answer'[c] \in {answer[c], NoAnswer, Junk} PROVE last' = last
  <2>1. last'[c] = last[c]
    BY <1>1, <1>4, <1>7, LastStays
  <2> QED
    BY <1>1, <1>5, <1>6, <2>1
<1> QED
  BY <1>4, <1>5, <1>6, <1>7

LEMMA HStepKeeps == HInv /\ [HNext]_allVars => HInv'
<1> SUFFICES ASSUME HInv, [HNext]_allVars PROVE HInv'
  OBVIOUS
<1>1. CASE UNCHANGED allVars
  <2>1. UNCHANGED vars /\ last' = last
    BY <1>1 DEF allVars
  <2>2. IInv'
    BY <2>1, StepKeeps DEF HInv
  <2>3. \A c \in Client : DownOf(c)' /\ UpOf(c)' /\ OnceOf(c)'
    BY <2>1 DEF HInv, vars, DownOf, UpOf, OnceOf, Executed
  <2> QED
    BY <2>1, <2>2, <2>3 DEF HInv
<1>2. CASE HNext
  <2>1. Next
    BY <1>2 DEF HNext
  <2>2. PICK c \in Client : StepOf(c)
    BY <2>1 DEF Next, StepOf
  <2>3. IInv'
    BY <2>1, StepKeeps DEF HInv
  <2>4. /\ last' \in [Client -> Nat] /\ Noted(c)
        /\ \A d \in Client : d # c => last'[d] = last[d]
    BY <1>2, <2>2, LastStep
  <2> SUFFICES ASSUME NEW d \in Client PROVE DownOf(d)' /\ UpOf(d)' /\ OnceOf(d)'
    BY <2>3, <2>4 DEF HInv
  <2>5. TypeOK /\ OrderOf(d) /\ AnswerOf(d) /\ DownOf(d) /\ UpOf(d) /\ OnceOf(d)
    BY DEF HInv, IInv
  <2>6. CASE d = c
    <3>1. DownOf(d)' /\ UpOf(d)'
      BY <2>2, <2>5, <2>6, DownStep, UpStep
    <3>2. OnceOf(d)'
      BY <2>2, <2>4, <2>5, <2>6, OnceClient, OnceRecv, OnceServer, OnceHandle, OnceWrite DEF StepOf, ClientStep, ServerStep
    <3> QED
      BY <3>1, <3>2
  <2>7. CASE d # c
    <3>1. /\ end'[d] = end[d] /\ phase'[d] = phase[d] /\ answer'[d] = answer[d] /\ strayed'[d] = strayed[d]
          /\ up'[d] = up[d] /\ down'[d] = down[d] /\ task'[d] = task[d] /\ job'[d] = job[d]
          /\ handled'[d] = handled[d] /\ last'[d] = last[d]
      BY <2>2, <2>4, <2>5, <2>7, Elsewhere
    <3> QED
      BY <2>5, <3>1 DEF DownOf, UpOf, OnceOf, Executed
  <2> QED
    BY <2>6, <2>7
<1> QED
  BY <1>1, <1>2

-----------------------------------------------------------------------------
(* The mapping. *)

LEMMA CallingStep ==
    ASSUME TypeOK, NEW c \in Client, StepOf(c), NEW b \in BOOLEAN, b <=> phase'[c] # "idle"
    PROVE  [d \in Client |-> phase'[d] # "idle"] = [[d \in Client |-> phase[d] # "idle"] EXCEPT ![c] = b]
<1>1. \A d \in Client : d # c => phase'[d] = phase[d]
  BY Elsewhere
<1> QED
  BY <1>1, Zenon

LEMMA InitMaps == HInit => C!Init
<1> SUFFICES ASSUME HInit PROVE C!Init
  OBVIOUS
<1>1. phase = [c \in Client |-> "idle"]
  BY DEF HInit, Init
<1>2. \A c \in Client : (phase[c] # "idle") = FALSE
  BY <1>1
<1>3. [c \in Client |-> phase[c] # "idle"] = [c \in Client |-> FALSE]
  BY <1>2, Zenon
<1> QED
  BY <1>3, Zenon DEF HInit, Init, C!Init

(* What the callers cannot see. *)
LEMMA HiddenStep ==
    ASSUME HInv, NEW c \in Client, StepOf(c), HNext, ~Handle(c),
           ~(Disconnect(c) \/ StartCall(c) \/ ConnectionLost(c) \/ Timeout(c) \/ RecvBody(c) \/ RecvJunk(c))
    PROVE  UNCHANGED C!vars
<1> DEFINE b == phase[c] # "idle"
<1>1. TypeOK
  BY DEF HInv, IInv
<1>2. \/ Connect(c) \/ SendLen(c) \/ SendBody(c) \/ RecvLen(c)
      \/ Accept(c) \/ ReadLen(c) \/ ReadBody(c) \/ ReadJunk(c) \/ ReadEof(c) \/ WriteLen(c) \/ WriteBody(c) \/ HandlerPanics(c)
  BY DEF StepOf, ClientStep, ServerStep
<1>3. call' = call /\ answer' = answer /\ strayed' = strayed /\ handled' = handled
  BY <1>2 DEF Connect, SendLen, SendBody, Send, RecvLen, Accept, ReadLen, ReadBody, ReadJunk, ReadAny, ReadEof, WriteLen, WriteBody, Write,
     HandlerPanics, clientVars, serverVars
<1>4. last' = last
  BY <1>3, LastStep
<1>5. phase'[c] # "idle" <=> phase[c] # "idle"
  BY <1>1, <1>2 DEF TypeOK, Connect, SendLen, SendBody, Send, RecvLen, Accept, ReadLen, ReadBody, ReadJunk, ReadAny, ReadEof, WriteLen, WriteBody,
     Write, HandlerPanics, clientVars
<1>6. \A d \in Client : (phase'[d] # "idle") = (phase[d] # "idle")
  <2> SUFFICES ASSUME NEW d \in Client PROVE phase'[d] # "idle" <=> phase[d] # "idle"
    BY Zenon
  <2>1. CASE d = c
    BY <1>5, <2>1
  <2>2. CASE d # c
    BY <1>1, <2>2, Elsewhere
  <2> QED
    BY <2>1, <2>2
<1>7. [d \in Client |-> phase'[d] # "idle"] = [d \in Client |-> phase[d] # "idle"]
  BY <1>6, Zenon
<1> QED
  BY <1>3, <1>4, <1>7, Zenon DEF C!vars

LEMMA AskStep ==
    ASSUME HInv, NEW c \in Client, HNext, StartCall(c)
    PROVE  C!Ask(c)
<1>1. TypeOK /\ StepOf(c)
  BY DEF HInv, IInv, StepOf
<1>2. /\ phase[c] = "idle" /\ phase'[c] # "idle"
      /\ call' = [call EXCEPT ![c] = @ + 1] /\ answer' = [answer EXCEPT ![c] = NoAnswer]
      /\ answer'[c] = NoAnswer
  BY <1>1 DEF StartCall, TypeOK
<1>3. strayed' = strayed /\ handled' = handled
  BY DEF StartCall, serverVars
<1>4. last' = last
  BY <1>1, <1>2, LastStep
<1>5. [d \in Client |-> phase'[d] # "idle"] = [[d \in Client |-> phase[d] # "idle"] EXCEPT ![c] = TRUE]
  BY <1>1, <1>2, CallingStep
<1>6. ~[d \in Client |-> phase[d] # "idle"][c]
  BY <1>2, Zenon
<1> QED
  BY <1>2, <1>3, <1>4, <1>5, <1>6, Zenon DEF C!Ask

LEMMA ExecuteStep ==
    ASSUME HInv, NEW c \in Client, HNext, Handle(c)
    PROVE  C!Execute(c)
<1>1. TypeOK /\ StepOf(c) /\ OrderOf(c) /\ OnceOf(c)
  BY DEF HInv, IInv, StepOf
<1>2. /\ phase' = phase /\ call' = call /\ answer' = answer /\ task[c] = "handle"
      /\ handled' = [handled EXCEPT ![c] = Append(@, job[c])]
  BY DEF Handle, clientVars
<1>3. strayed' = strayed
  BY DEF Handle, clientVars
<1>4. last' = last
  BY <1>1, <1>2, LastStep
<1>5. CASE job[c] # Junk
  <2>1. \A h \in Range(handled[c]) : h < job[c]
    BY <1>1, <1>2, <1>5 DEF OrderOf, Executed
  <2>2. job[c] \in 1 .. call[c]
    <3>1. job[c] \in Nat /\ job[c] # 0 /\ job[c] <= LastSent(c) /\ call[c] \in Nat
      BY <1>1, <1>2, <1>5, TypesAt DEF OrderOf, Junk
    <3> QED
      BY <3>1 DEF LastSent
  <2> QED
    BY <1>2, <1>3, <1>4, <2>1, <2>2, Zenon DEF C!Execute, C!Range, Range
<1>6. CASE job[c] = Junk
  <2>1. strayed[c]
    BY <1>1, <1>2, <1>6 DEF OnceOf
  <2> QED
    BY <1>2, <1>3, <1>4, <1>6, <2>1, Zenon DEF C!Execute
<1> QED
  BY <1>5, <1>6

LEMMA ReturnStep ==
    ASSUME HInv, HInv', NEW c \in Client, HNext, RecvBody(c)
    PROVE  C!Return(c)
<1>1. /\ TypeOK /\ StepOf(c) /\ AnswerOf(c) /\ DownOf(c) /\ OnceOf(c) /\ AlignedOf(c)'
      /\ last \in [Client -> Nat] /\ last' \in [Client -> Nat] /\ down[c] \in Seq(Item)
  BY DEF HInv, IInv, StepOf, ClientStep, TypeOK
<1> DEFINE n == Head(down[c])[2]
<1>2. /\ phase[c] = "recv_body" /\ phase'[c] = "idle" /\ down[c] # <<>> /\ call' = call
      /\ answer' = [answer EXCEPT ![c] = n] /\ answer'[c] = n
  BY <1>1 DEF RecvBody, TypeOK
<1>3. strayed' = strayed /\ handled' = handled
  BY DEF RecvBody, serverVars
<1>4. Head(down[c])[1] = "body"
  <2>1. Head(down[c]) = down[c][1]
    BY <1>1, <1>2, FramesTail
  <2> QED
    BY <1>2, <2>1, <1>1 DEF DownOf, StartsWithBody
<1>5. n \in Executed(c) /\ n \in Nat /\ n # NoAnswer /\ n \in Bodies(down[c])
  <2>1. n \in Numbers(down[c]) /\ Head(down[c]) \in Item /\ n \in Bodies(down[c])
    BY <1>1, <1>2, <1>4, TailOfStream
  <2> QED
    BY <1>1, <2>1, ItemParts DEF AnswerOf, NoAnswer
<1>6. [d \in Client |-> phase'[d] # "idle"] = [[d \in Client |-> phase[d] # "idle"] EXCEPT ![c] = FALSE]
  BY <1>1, <1>2, CallingStep
<1>7. [d \in Client |-> phase[d] # "idle"][c]
  BY <1>2, Zenon
<1> HIDE DEF n
<1>8. CASE n # Junk
  <2>1. last[c] < n
    BY <1>1, <1>5, <1>8 DEF OnceOf
  <2>2. ~strayed[c] => n = call[c]
    BY <1>1, <1>2, <1>3, <1>5 DEF AlignedOf
  <2>3. last' = [last EXCEPT ![c] = n]
    <3>1. last'[c] = n
      BY <1>1, <1>2, <1>5, <1>8, LastStep DEF Noted
    <3>2. \A d \in Client : d # c => last'[d] = last[d]
      BY <1>1, LastStep
    <3> QED
      BY <1>1, <3>1, <3>2
  <2>4. n \in Range(handled[c]) \ {Junk} /\ n > last[c]
    BY <1>1, <1>5, <1>8, <2>1 DEF Executed
  <2> QED
    BY <1>2, <1>3, <1>6, <1>7, <2>2, <2>3, <2>4, Zenon DEF C!Return, C!Range, Range
<1>9. CASE n = Junk
  <2>1. strayed[c]
    BY <1>1, <1>5, <1>9 DEF OnceOf
  <2>2. last' = last
    BY <1>1, <1>2, <1>9, LastStep
  <2> QED
    BY <1>2, <1>3, <1>6, <1>7, <1>9, <2>1, <2>2, Zenon DEF C!Return
<1> QED
  BY <1>8, <1>9

LEMMA GiveUpStep ==
    ASSUME HInv, NEW c \in Client, HNext, RecvJunk(c) \/ ConnectionLost(c) \/ Timeout(c)
    PROVE  C!GiveUp(c) \/ C!Return(c)
<1>1. TypeOK /\ StepOf(c) /\ AlignedOf(c) /\ OnceOf(c)
  BY DEF HInv, IInv, StepOf, ClientStep
<1>2. phase[c] # "idle" /\ phase'[c] = "idle" /\ answer'[c] \in {answer[c], NoAnswer, Junk} /\ call' = call /\ handled' = handled
  BY <1>1 DEF TypeOK, RecvJunk, ConnectionLost, Timeout, serverVars
<1>3. last' = last
  BY <1>1, <1>2, LastStep
<1>4. [d \in Client |-> phase'[d] # "idle"] = [[d \in Client |-> phase[d] # "idle"] EXCEPT ![c] = FALSE]
  BY <1>1, <1>2, CallingStep
<1>5. [d \in Client |-> phase[d] # "idle"][c]
  BY <1>2, Zenon
<1>6. CASE ConnectionLost(c)
  <2>1. answer' = answer /\ strayed' = strayed
    BY <1>6 DEF ConnectionLost
  <2> QED
    BY <1>2, <1>3, <1>4, <1>5, <2>1, Zenon DEF C!GiveUp
<1>7. CASE Timeout(c)
  <2>1. answer' = answer /\ strayed' = [strayed EXCEPT ![c] = TRUE]
    BY <1>7 DEF Timeout
  <2> QED
    BY <1>2, <1>3, <1>4, <1>5, <2>1, Zenon DEF C!GiveUp
<1>8. CASE RecvJunk(c)
  <2>1. phase[c] = "recv_junk" /\ strayed' = strayed /\ end[c] = "up"
    BY <1>1, <1>8 DEF RecvJunk, TypeOK
  <2>2. strayed[c]
    BY <1>1, <2>1 DEF AlignedOf, InStep, Quiet, Asking, Answering, Died
  <2>3. CASE answer' = [answer EXCEPT ![c] = NoAnswer]
    <3>1. answer' = answer
      BY <1>1, <1>2, <2>3 DEF OnceOf, TypeOK
    <3> QED
      BY <1>2, <1>3, <1>4, <1>5, <2>1, <3>1, Zenon DEF C!GiveUp
  <2>4. CASE answer' = [answer EXCEPT ![c] = Junk]
    BY <1>2, <1>3, <1>4, <1>5, <2>1, <2>2, <2>4, Zenon DEF C!Return
  <2> QED
    BY <1>8, <2>3, <2>4 DEF RecvJunk
<1> QED
  BY <1>6, <1>7, <1>8

LEMMA LeaveStep ==
    ASSUME HInv, NEW c \in Client, HNext, Disconnect(c)
    PROVE  C!Leave(c)
<1>1. TypeOK /\ StepOf(c)
  BY DEF HInv, IInv, StepOf
<1>2. phase'[c] = "idle" /\ answer' = [answer EXCEPT ![c] = NoAnswer] /\ answer'[c] = NoAnswer /\ call' = call /\ handled' = handled
  BY <1>1 DEF TypeOK, Disconnect, serverVars
<1>3. strayed' = strayed
  BY DEF Disconnect
<1>4. last' = last
  BY <1>1, <1>2, LastStep
<1>5. [d \in Client |-> phase'[d] # "idle"] = [[d \in Client |-> phase[d] # "idle"] EXCEPT ![c] = FALSE]
  BY <1>1, <1>2, CallingStep
<1> QED
  BY <1>2, <1>3, <1>4, <1>5, Zenon DEF C!Leave

LEMMA StepMaps == HInv /\ HInv' /\ [HNext]_allVars => [C!Next]_(C!vars)
<1> SUFFICES ASSUME HInv, HInv', [HNext]_allVars PROVE C!Next \/ UNCHANGED C!vars
  BY Zenon
<1>1. CASE UNCHANGED allVars
  <2>1. /\ phase' = phase /\ call' = call /\ answer' = answer /\ handled' = handled /\ last' = last
    BY <1>1 DEF allVars, vars
  <2>2. strayed' = strayed
    BY <1>1 DEF allVars, vars
  <2> QED
    BY <2>1, <2>2, Zenon DEF C!vars
<1>2. CASE HNext
  <2>1. PICK c \in Client : StepOf(c)
    BY <1>2 DEF HNext, Next, StepOf
  <2>2. CASE StartCall(c)
    BY <1>2, <2>2, AskStep, Zenon DEF C!Next
  <2>3. CASE Handle(c)
    BY <1>2, <2>3, ExecuteStep, Zenon DEF C!Next
  <2>4. CASE RecvBody(c)
    BY <1>2, <2>4, ReturnStep, Zenon DEF C!Next
  <2>5. CASE RecvJunk(c) \/ ConnectionLost(c) \/ Timeout(c)
    BY <1>2, <2>5, GiveUpStep, Zenon DEF C!Next
  <2>6. CASE Disconnect(c)
    BY <1>2, <2>6, LeaveStep, Zenon DEF C!Next
  <2>7. CASE ~(StartCall(c) \/ Handle(c) \/ RecvBody(c) \/ RecvJunk(c) \/ ConnectionLost(c) \/ Timeout(c) \/ Disconnect(c))
    BY <1>2, <2>1, <2>7, HiddenStep, Zenon
  <2> QED
    BY <2>2, <2>3, <2>4, <2>5, <2>6, <2>7, Zenon
<1> QED
  BY <1>1, <1>2

(* IpcClient::call and handle_connection: whatever times out, breaks or is read
   out of step, requests are executed at most once and responses returned at
   most once, both in the order of the calls, and the response to a call on a
   connection where none has timed out is its own. *)
THEOREM CallsAreImplemented == HSpec => IpcIsCalls
BY HInitHolds, HStepKeeps, InitMaps, StepMaps, PTL DEF HSpec, IpcIsCalls, C!Spec
=============================================================================
