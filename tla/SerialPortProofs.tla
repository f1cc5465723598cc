-------------------------- MODULE SerialPortProofs --------------------------
(***************************************************************************)
(* Proofs about SerialPort: nothing is lost, repeated or reordered between *)
(* the calls and the line, for every text, every depth of the transmitter  *)
(* and whether or not the chip is faulty.                                  *)
(***************************************************************************)
EXTENDS SerialPort, TLAPS, FiniteSetTheorems, SequenceTheorems

\* The characters that are printed and the '\r' the driver adds.
Char == STRING \cup {"\r"}

(***************************************************************************)
(* Where a character of a text goes.                                       *)
(***************************************************************************)

\* The line ends up to a character are finitely many, and the character comes no
\* earlier on the line than in the text.
LEMMA PlaceType ==
    ASSUME NEW t, NEW i \in Nat
    PROVE  /\ IsFiniteSet(LineEnds(t, i))
           /\ Cardinality(LineEnds(t, i)) \in Nat
           /\ PlaceOf(t, i) \in Nat
           /\ PlaceOf(t, i) >= i
<1>1. IsFiniteSet(1 .. i)
  BY FS_Interval
<1>2. LineEnds(t, i) \in SUBSET (1 .. i)
  BY DEF LineEnds
<1>3. IsFiniteSet(LineEnds(t, i))
  BY <1>1, <1>2, FS_Subset
<1>4. Cardinality(LineEnds(t, i)) \in Nat
  BY <1>3, FS_CardinalityType
<1> QED
  BY <1>3, <1>4 DEF PlaceOf

\* Later characters come later on the line.
LEMMA PlaceGrows ==
    ASSUME NEW t, NEW i \in Nat, NEW j \in Nat, i < j
    PROVE  PlaceOf(t, i) < PlaceOf(t, j)
<1>1. LineEnds(t, i) \in SUBSET LineEnds(t, j)
  BY DEF LineEnds
<1>2. IsFiniteSet(LineEnds(t, j)) /\ Cardinality(LineEnds(t, i)) \in Nat
      /\ Cardinality(LineEnds(t, j)) \in Nat
  BY PlaceType
<1>3. Cardinality(LineEnds(t, i)) <= Cardinality(LineEnds(t, j))
  BY <1>1, <1>2, FS_Subset
<1> QED
  BY <1>2, <1>3 DEF PlaceOf

\* Before the first character there is nothing.
LEMMA PlaceOfNone ==
    ASSUME NEW t
    PROVE  PlaceOf(t, 0) = 0
<1>1. LineEnds(t, 0) = {}
  BY DEF LineEnds
<1> QED
  BY <1>1, FS_EmptySet DEF PlaceOf

\* The first character comes first, or second when it is a line end.
LEMMA PlaceOfFirst ==
    ASSUME NEW t
    PROVE  PlaceOf(t, 1) = IF t[1] = "\n" THEN 2 ELSE 1
<1>1. CASE t[1] = "\n"
  <2>1. LineEnds(t, 1) = {1}
    BY <1>1 DEF LineEnds
  <2>2. Cardinality(LineEnds(t, 1)) = 1
    BY <2>1, FS_Singleton, Zenon
  <2> QED
    BY <1>1, <2>2 DEF PlaceOf
<1>2. CASE t[1] # "\n"
  <2>1. LineEnds(t, 1) = {}
    BY <1>2 DEF LineEnds
  <2> QED
    BY <1>2, <2>1, FS_EmptySet DEF PlaceOf
<1> QED
  BY <1>1, <1>2

\* The line ends after the first character are those of the rest, one place on.
LEMMA LineEndsOfTail ==
    ASSUME NEW t \in Seq(Char), t # <<>>, NEW i \in Nat, i < Len(t)
    PROVE  Cardinality(LineEnds(t, i + 1) \ {1}) = Cardinality(LineEnds(Tail(t), i))
<1> DEFINE S == LineEnds(Tail(t), i)
           T == LineEnds(t, i + 1) \ {1}
           f == [j \in S |-> j + 1]
<1>1. Len(t) \in Nat /\ Len(Tail(t)) = Len(t) - 1
      /\ \A j \in 1 .. Len(Tail(t)) : Tail(t)[j] = t[j + 1]
  BY LenProperties, HeadTailProperties
<1>2. S = {j \in 1 .. i : t[j + 1] = "\n"}
  BY <1>1 DEF LineEnds
<1>3. T = {j \in 2 .. i + 1 : t[j] = "\n"}
  BY DEF LineEnds
<1>4. f \in [S -> T]
  BY <1>2, <1>3
<1>5. \A a, b \in S : f[a] = f[b] => a = b
  BY <1>2
<1>6. \A b \in T : \E a \in S : f[a] = b
  <2> TAKE b \in T
  <2>1. b - 1 \in S /\ b \in Int
    BY <1>2, <1>3
  <2>2. f[b - 1] = b
    BY <2>1
  <2> QED
    BY <2>1, <2>2, Zenon
<1>7. ExistsBijection(S, T)
  BY <1>4, <1>5, <1>6, Zenon DEF ExistsBijection, Bijection, Injection, Surjection, IsInjective
<1>8. IsFiniteSet(S)
  BY PlaceType
<1> QED
  BY <1>7, <1>8, FS_Bijection

\* The rest of a text goes behind its first character.
LEMMA PlaceOfTail ==
    ASSUME NEW t \in Seq(Char), t # <<>>, NEW i \in Nat, i < Len(t)
    PROVE  PlaceOf(t, i + 1) = PlaceOf(t, 1) + PlaceOf(Tail(t), i)
<1>1. IsFiniteSet(LineEnds(t, i + 1)) /\ Cardinality(LineEnds(t, i + 1)) \in Nat
      /\ Cardinality(LineEnds(Tail(t), i)) \in Nat
  BY PlaceType
<1>2. 1 \in LineEnds(t, i + 1) <=> t[1] = "\n"
  BY DEF LineEnds
<1>3. Cardinality(LineEnds(t, i + 1) \ {1})
        = IF t[1] = "\n" THEN Cardinality(LineEnds(t, i + 1)) - 1
                         ELSE Cardinality(LineEnds(t, i + 1))
  BY <1>1, <1>2, FS_RemoveElement
<1>4. Cardinality(LineEnds(t, i + 1) \ {1}) = Cardinality(LineEnds(Tail(t), i))
  BY LineEndsOfTail
<1> QED
  BY <1>1, <1>3, <1>4, PlaceOfFirst DEF PlaceOf

(***************************************************************************)
(* What a text is on the line.                                             *)
(***************************************************************************)

\* Each character stands at its place, and every other place holds a '\r'.
LEMMA ExpandAt ==
    ASSUME NEW t \in Seq(Char)
    PROVE  /\ DOMAIN Expand(t) = 1 .. PlaceOf(t, Len(t))
           /\ \A i \in 1 .. Len(t) : PlaceOf(t, i) \in 1 .. PlaceOf(t, Len(t))
                                     /\ Expand(t)[PlaceOf(t, i)] = t[i]
           /\ \A k \in 1 .. PlaceOf(t, Len(t)) :
                (\A i \in 1 .. Len(t) : PlaceOf(t, i) # k) => Expand(t)[k] = "\r"
<1>0. Len(t) \in Nat
  BY LenProperties
<1>1. \A i \in 1 .. Len(t) : PlaceOf(t, i) \in 1 .. PlaceOf(t, Len(t))
  <2> TAKE i \in 1 .. Len(t)
  <2>1. i \in Nat /\ 1 <= i /\ (i = Len(t) \/ i < Len(t))
    BY <1>0
  <2>2. PlaceOf(t, i) \in Nat /\ PlaceOf(t, Len(t)) \in Nat /\ PlaceOf(t, i) >= i
    BY <1>0, <2>1, PlaceType
  <2>3. PlaceOf(t, i) <= PlaceOf(t, Len(t))
    BY <1>0, <2>1, <2>2, PlaceGrows
  <2> QED
    BY <2>1, <2>2, <2>3
<1>2. \A i, j \in 1 .. Len(t) : PlaceOf(t, i) = PlaceOf(t, j) => i = j
  <2> SUFFICES ASSUME NEW i \in 1 .. Len(t), NEW j \in 1 .. Len(t), i # j
               PROVE  PlaceOf(t, i) # PlaceOf(t, j)
    OBVIOUS
  <2>1. i \in Nat /\ j \in Nat /\ (i < j \/ j < i)
    BY <1>0
  <2>2. PlaceOf(t, i) \in Nat /\ PlaceOf(t, j) \in Nat
    BY <2>1, PlaceType
  <2> QED
    BY <2>1, <2>2, PlaceGrows
<1>3. \A i \in 1 .. Len(t) : Expand(t)[PlaceOf(t, i)] = t[i]
  <2> TAKE i \in 1 .. Len(t)
  <2>1. (CHOOSE j \in 1 .. Len(t) : PlaceOf(t, j) = PlaceOf(t, i)) = i
    BY <1>2
  <2> QED
    BY <1>1, <2>1, Zenon DEF Expand
<1> QED
  BY <1>1, <1>3, Zenon DEF Expand

\* The line form of a text is a sequence of characters.
LEMMA ExpandType ==
    ASSUME NEW t \in Seq(Char)
    PROVE  Expand(t) \in Seq(Char) /\ Len(Expand(t)) = PlaceOf(t, Len(t))
<1>0. Len(t) \in Nat
  BY LenProperties
<1>1. PlaceOf(t, Len(t)) \in Nat
  BY <1>0, PlaceType
<1>2. \A k \in 1 .. PlaceOf(t, Len(t)) : Expand(t)[k] \in Char
  <2> TAKE k \in 1 .. PlaceOf(t, Len(t))
  <2>1. CASE \E i \in 1 .. Len(t) : PlaceOf(t, i) = k
    <3>1. PICK i \in 1 .. Len(t) : PlaceOf(t, i) = k
      BY <2>1
    <3>2. Expand(t)[k] = t[i]
      BY <3>1, ExpandAt, Zenon
    <3> QED
      BY <3>2, ElementOfSeq
  <2>2. CASE \A i \in 1 .. Len(t) : PlaceOf(t, i) # k
    <3>1. Expand(t)[k] = "\r"
      BY <2>2, ExpandAt, Zenon
    <3> QED
      BY <3>1 DEF Char
  <2> QED
    BY <2>1, <2>2
<1>3. Expand(t) = [k \in 1 .. PlaceOf(t, Len(t)) |-> Expand(t)[k]]
  BY Zenon DEF Expand
<1>4. Expand(t) \in [1 .. PlaceOf(t, Len(t)) -> Char]
  BY <1>2, <1>3, Zenon
<1> HIDE DEF Expand
<1> QED
  BY <1>1, <1>4

\* Nothing is sent for no text.
LEMMA ExpandEmpty == Expand(<<>>) = <<>>
<1>1. <<>> \in Seq(Char) /\ Len(<<>>) = 0
  BY EmptySeq
<1>2. PlaceOf(<<>>, 0) = 0
  BY PlaceOfNone
<1>3. Expand(<<>>) \in Seq(Char) /\ Len(Expand(<<>>)) = 0
  BY <1>1, <1>2, ExpandType
<1> QED
  BY <1>3, EmptySeq

\* What one character becomes on the line.
Sent(c) == IF c = "\n" THEN <<"\r", "\n">> ELSE <<c>>

\* A text goes over the line one character at a time, a line end as '\r' and '\n':
\* the line form is what the loop of serial_write sends.
LEMMA ExpandHead ==
    ASSUME NEW t \in Seq(Char), t # <<>>
    PROVE  /\ Sent(Head(t)) \in Seq(Char)
           /\ Tail(t) \in Seq(Char)
           /\ Expand(t) = Sent(Head(t)) \o Expand(Tail(t))
<1> DEFINE u == Tail(t)
           h == PlaceOf(t, 1)
<1>0. /\ Len(t) \in Nat \ {0} /\ t[1] = Head(t) /\ Head(t) \in Char
      /\ u \in Seq(Char) /\ Len(u) = Len(t) - 1
      /\ \A i \in 1 .. Len(u) : u[i] = t[i + 1]
  BY EmptySeq, HeadTailProperties
<1>1. h = IF Head(t) = "\n" THEN 2 ELSE 1
  BY <1>0, PlaceOfFirst, Zenon
<1>2. /\ Sent(Head(t)) \in Seq(Char) /\ Len(Sent(Head(t))) = h
      /\ Sent(Head(t))[h] = Head(t) /\ (h = 2 => Sent(Head(t))[1] = "\r")
  <2>1. CASE Head(t) = "\n"
    BY <2>1, <1>0, <1>1 DEF Sent, Char
  <2>2. CASE Head(t) # "\n"
    BY <2>2, <1>0, <1>1 DEF Sent
  <2> QED
    BY <2>1, <2>2
<1>3. \A i \in 1 .. Len(t) :
        i - 1 \in Nat /\ PlaceOf(u, i - 1) \in Nat /\ PlaceOf(t, i) = h + PlaceOf(u, i - 1)
  <2> TAKE i \in 1 .. Len(t)
  <2>1. i - 1 \in Nat /\ i - 1 < Len(t) /\ (i - 1) + 1 = i
    BY <1>0
  <2>2. PlaceOf(t, (i - 1) + 1) = PlaceOf(t, 1) + PlaceOf(u, i - 1)
    BY <2>1, PlaceOfTail
  <2>3. PlaceOf(u, i - 1) \in Nat
    BY <2>1, PlaceType
  <2> QED
    BY <2>1, <2>2, <2>3
<1>4. PlaceOf(t, Len(t)) = h + PlaceOf(u, Len(u)) /\ PlaceOf(u, Len(u)) \in Nat
  BY <1>0, <1>3
<1>5. /\ Expand(t) \in Seq(Char) /\ Len(Expand(t)) = h + PlaceOf(u, Len(u))
      /\ Expand(u) \in Seq(Char) /\ Len(Expand(u)) = PlaceOf(u, Len(u))
  BY <1>0, <1>4, ExpandType
<1> DEFINE e == Sent(Head(t)) \o Expand(u)
<1>6. /\ e \in Seq(Char) /\ Len(e) = h + PlaceOf(u, Len(u))
      /\ \A k \in 1 .. h + PlaceOf(u, Len(u)) :
           e[k] = IF k <= h THEN Sent(Head(t))[k] ELSE Expand(u)[k - h]
  <2>1. /\ e \in Seq(Char) /\ Len(e) = Len(Sent(Head(t))) + Len(Expand(u))
        /\ \A k \in 1 .. Len(Sent(Head(t))) + Len(Expand(u)) :
             e[k] = IF k <= Len(Sent(Head(t))) THEN Sent(Head(t))[k]
                    ELSE Expand(u)[k - Len(Sent(Head(t)))]
    BY <1>2, <1>5, ConcatProperties, Zenon
  <2> QED
    BY <1>2, <1>5, <2>1, Zenon
<1> HIDE DEF e
<1>7. \A k \in 1 .. h + PlaceOf(u, Len(u)) : Expand(t)[k] = e[k]
  <2> TAKE k \in 1 .. h + PlaceOf(u, Len(u))
  <2>0. k \in Nat /\ 1 <= k /\ k <= PlaceOf(t, Len(t)) /\ h \in {1, 2}
        /\ k \in 1 .. PlaceOf(t, Len(t))
    BY <1>1, <1>4
  <2>1. CASE k = h
    <3>1. Expand(t)[h] = t[1] /\ 1 \in 1 .. Len(t)
      BY <1>0, ExpandAt
    <3>2. e[k] = Sent(Head(t))[h]
      BY <1>6, <2>1, <2>0
    <3> QED
      BY <3>1, <3>2, <2>1, <1>0, <1>2, Zenon
  <2>2. CASE k < h
    <3>1. k = 1 /\ h = 2
      BY <2>0, <2>2
    <3>2. \A i \in 1 .. Len(t) : PlaceOf(t, i) # k
      BY <3>1, <1>3
    <3>3. Expand(t)[k] = "\r"
      BY <3>2, <2>0, ExpandAt, Zenon
    <3>4. e[k] = Sent(Head(t))[1]
      BY <1>6, <3>1
    <3> QED
      BY <3>1, <3>3, <3>4, <1>2, Zenon
  <2>3. CASE k > h
    <3>1. k - h \in 1 .. PlaceOf(u, Len(u)) /\ ~(k <= h)
      BY <2>0, <2>3, <1>4
    <3>2. e[k] = Expand(u)[k - h]
      BY <1>6, <3>1, Zenon
    <3>3. CASE \E i \in 1 .. Len(u) : PlaceOf(u, i) = k - h
      <4>1. PICK i \in 1 .. Len(u) : PlaceOf(u, i) = k - h
        BY <3>3
      <4>2. i + 1 \in 1 .. Len(t) /\ (i + 1) - 1 = i
        BY <1>0
      <4>3. PlaceOf(t, i + 1) = h + PlaceOf(u, i)
        BY <4>2, <1>3
      <4>4. PlaceOf(t, i + 1) = k
        BY <4>1, <4>3, <2>0
      <4>5. Expand(t)[k] = t[i + 1]
        BY <4>2, <4>4, ExpandAt, Zenon
      <4>6. Expand(u)[k - h] = u[i]
        BY <4>1, <1>0, ExpandAt, Zenon
      <4> QED
        BY <3>2, <4>5, <4>6, <1>0, Zenon
    <3>4. CASE \A i \in 1 .. Len(u) : PlaceOf(u, i) # k - h
      <4>1. \A i \in 1 .. Len(t) : PlaceOf(t, i) # k
        <5> TAKE i \in 1 .. Len(t)
        <5>1. PlaceOf(t, i) = h + PlaceOf(u, i - 1) /\ PlaceOf(u, i - 1) \in Nat
          BY <1>3
        <5>2. CASE i = 1
          BY <2>0, <2>3, <5>2
        <5>3. CASE i # 1
          <6>1. i - 1 \in 1 .. Len(u)
            BY <5>3, <1>0
          <6>2. PlaceOf(u, i - 1) # k - h
            BY <6>1, <3>4
          <6> QED
            BY <5>1, <6>2, <2>0
        <5> QED
          BY <5>2, <5>3
      <4>2. Expand(t)[k] = "\r"
        BY <4>1, <2>0, ExpandAt, Zenon
      <4>3. Expand(u)[k - h] = "\r"
        BY <3>1, <3>4, <1>0, ExpandAt, Zenon
      <4> QED
        BY <3>2, <4>2, <4>3, Zenon
    <3> QED
      BY <3>3, <3>4
  <2>4. k = h \/ k < h \/ k > h
    BY <2>0
  <2> QED
    BY <2>1, <2>2, <2>3, <2>4, Zenon
<1>8. Expand(t) = e
  BY <1>5, <1>6, <1>7, SeqEqual
<1> QED
  BY <1>0, <1>2, <1>8 DEF e

\* A sequence that is not empty is its head and its tail.
LEMMA HeadThenTail ==
    ASSUME NEW s \in Seq(Char), s # <<>>
    PROVE  s = <<Head(s)>> \o Tail(s) /\ <<Head(s)>> \in Seq(Char) /\ Tail(s) \in Seq(Char)
<1>1. Head(s) \in Char /\ Tail(s) \in Seq(Char) /\ Len(Tail(s)) = Len(s) - 1
      /\ \A i \in 1 .. Len(Tail(s)) : Tail(s)[i] = s[i + 1]
  BY HeadTailProperties
<1>2. <<Head(s)>> \in Seq(Char) /\ Len(<<Head(s)>>) = 1 /\ <<Head(s)>>[1] = Head(s)
      /\ s[1] = Head(s) /\ Len(s) \in Nat \ {0}
  BY <1>1, EmptySeq
<1>a. PICK h \in Seq(Char) : h = <<Head(s)>>
  BY <1>2
<1>b. Len(h) = 1 /\ h[1] = Head(s)
  BY <1>2, <1>a, Zenon
<1> DEFINE e == h \o Tail(s)
<1>3. /\ e \in Seq(Char) /\ Len(e) = 1 + Len(Tail(s))
      /\ \A i \in 1 .. 1 + Len(Tail(s)) : e[i] = IF i <= 1 THEN h[i] ELSE Tail(s)[i - 1]
  <2>1. /\ e \in Seq(Char) /\ Len(e) = Len(h) + Len(Tail(s))
        /\ \A i \in 1 .. Len(h) + Len(Tail(s)) :
             e[i] = IF i <= Len(h) THEN h[i] ELSE Tail(s)[i - Len(h)]
    BY <1>1, ConcatProperties, Zenon
  <2> QED
    BY <1>b, <2>1, Zenon
<1> HIDE DEF e
<1>4. \A i \in 1 .. Len(s) : s[i] = e[i]
  <2> TAKE i \in 1 .. Len(s)
  <2>1. CASE i = 1
    <3>1. e[i] = h[i]
      BY <2>1, <1>1, <1>2, <1>3
    <3> QED
      BY <3>1, <2>1, <1>2, <1>b, Zenon
  <2>2. CASE i # 1
    <3>1. i - 1 \in 1 .. Len(Tail(s)) /\ (i - 1) + 1 = i /\ ~(i <= 1)
          /\ i \in 1 .. 1 + Len(Tail(s))
      BY <2>2, <1>1, <1>2
    <3>2. e[i] = Tail(s)[i - 1]
      BY <3>1, <1>3, Zenon
    <3>3. Tail(s)[i - 1] = s[(i - 1) + 1]
      BY <3>1, <1>1, Zenon
    <3> QED
      BY <3>1, <3>2, <3>3, Zenon
  <2> QED
    BY <2>1, <2>2
<1>5. Len(s) = Len(e)
  BY <1>1, <1>2, <1>3
<1>6. s = e
  BY <1>3, <1>4, <1>5, SeqEqual
<1> QED
  BY <1>1, <1>2, <1>6, <1>a, Zenon DEF e

(***************************************************************************)
(* The invariant.                                                          *)
(***************************************************************************)

\* Where in a call the driver is: a text is left only inside serial_write, the '\r'
\* is remembered only in front of a line end, and nothing is in the transmitter
\* before the port works.
Place ==
    /\ pc \in {"init", "test", "idle"} => text = <<>> /\ ~cr
    /\ cr => text # <<>> /\ Head(text) = "\n"
    /\ pc \in {"init", "test"} => ~serial_initialized /\ fifo = <<>>
    /\ pc = "write" => serial_initialized
    /\ received \in BOOLEAN

\* The texts are sequences of characters.
Sequenced == text \in Seq(Char) /\ fifo \in Seq(Char) /\ line \in Seq(Char) /\ asked \in Seq(Char)

IInv == TypeOK /\ Sequenced /\ Place /\ Lossless

\* What the call has still to send.
Pending == IF cr THEN Tail(Expand(text)) ELSE Expand(text)

\* What is still to send is a sequence; in front of a line end it starts with the
\* '\r' or, when that was sent, with the '\n', and otherwise with the character.
LEMMA PendingHead ==
    ASSUME Sequenced, Place
    PROVE  /\ Pending \in Seq(Char)
           /\ text = <<>> => Pending = <<>>
           /\ text # <<>> /\ Head(text) = "\n" /\ ~cr =>
                Pending = <<"\r">> \o Tail(Expand(text)) /\ Tail(Expand(text)) \in Seq(Char)
           /\ text # <<>> /\ (Head(text) = "\n" => cr) =>
                Pending = <<Head(text)>> \o Expand(Tail(text))
<1>1. CASE text = <<>>
  <2>1. ~cr
    BY <1>1 DEF Place
  <2> QED
    BY <1>1, <2>1, ExpandEmpty, EmptySeq DEF Pending
<1>2. CASE text # <<>>
  <2> DEFINE e == Expand(text)
             r == Expand(Tail(text))
             c == Head(text)
  <2>1. text \in Seq(Char)
    BY DEF Sequenced
  <2>2. e = Sent(c) \o r /\ Sent(c) \in Seq(Char) /\ Tail(text) \in Seq(Char)
    BY <1>2, <2>1, ExpandHead
  <2>3. e \in Seq(Char) /\ r \in Seq(Char)
    BY <2>1, <2>2, ExpandType
  <2>4. CASE c = "\n"
    <3>1. Sent(c) = <<"\r", "\n">> /\ Sent(c) \in Seq(Char)
      BY <2>4, <2>2 DEF Sent
    <3>2. Sent(c) = <<"\r">> \o <<"\n">>
      BY <3>1
    <3>3. <<"\r">> \in Seq(Char) /\ <<"\n">> \in Seq(Char)
      <4>1. "\n" \in Char
        BY <3>1
      <4> QED
        BY <4>1 DEF Char
    <3>4. e = <<"\r">> \o (<<"\n">> \o r)
      <4>1. (<<"\r">> \o <<"\n">>) \o r = <<"\r">> \o (<<"\n">> \o r)
        BY <2>3, <3>3, ConcatAssociative
      <4> HIDE DEF e, r
      <4> QED
        BY <2>2, <3>2, <4>1, Zenon
    <3>5. <<"\n">> \o r \in Seq(Char)
      BY <2>3, <3>3, ConcatProperties
    <3>6. Tail(e) = <<"\n">> \o r
      <4> HIDE DEF e, r
      <4> QED
        BY <3>3, <3>4, <3>5, <2>3
    <3>7. CASE cr
      BY <3>5, <3>6, <3>7, <2>4, <1>2 DEF Pending
    <3>8. CASE ~cr
      BY <3>4, <3>5, <3>6, <3>8, <2>3, <2>4, <1>2 DEF Pending
    <3> QED
      BY <3>7, <3>8
  <2>5. CASE c # "\n"
    <3>1. ~cr
      BY <2>5 DEF Place
    <3> QED
      BY <3>1, <2>2, <2>3, <2>5, <1>2 DEF Pending, Sent
  <2> QED
    BY <2>4, <2>5
<1> QED
  BY <1>1, <1>2

\* In the initial states nothing was asked for and nothing was sent.
LEMMA InitInv == Init => IInv
<1> SUFFICES ASSUME Init PROVE IInv
  OBVIOUS
<1>1. Faulty \in BOOLEAN /\ FifoDepth \in Nat
  BY SerialAssumption
<1>2. <<>> \in Seq(Char) /\ Len(<<>>) = 0
  BY EmptySeq
<1>3. Expand(text) = <<>>
  BY ExpandEmpty DEF Init
<1>4. Lossless
  BY <1>3 DEF Init, Lossless
<1>5. TypeOK
  <2>1. Len(fifo) <= FifoDepth
    BY <1>1, <1>2 DEF Init
  <2> QED
    BY <2>1, Zenon DEF Init, TypeOK
<1>6. Sequenced
  BY <1>2 DEF Init, Sequenced
<1>7. Place
  BY DEF Init, Place
<1> QED
  BY <1>4, <1>5, <1>6, <1>7 DEF IInv

\* A byte handed to a transmitter that is empty fits, and is all it then holds.
LEMMA ByteFits ==
    ASSUME IInv, NEW c \in Char, WriteChar(c)
    PROVE  /\ fifo = <<>> /\ fifo' = <<c>> /\ Len(fifo') <= FifoDepth
           /\ fifo' \in Seq(Char)
<1>1. FifoDepth \in Nat \ {0}
  BY SerialAssumption
<1>2. fifo = <<>> /\ Len(fifo) = 0
  BY EmptySeq DEF WriteChar, TransmitEmpty
<1>3. fifo' = Append(<<>>, c)
  BY <1>1, <1>2 DEF WriteChar, Out
<1>4. fifo' = <<c>>
  BY <1>3
<1> QED
  BY <1>1, <1>2, <1>4

\* Joining the line with what follows it, when its last byte comes from there.
LEMMA Regroup ==
    ASSUME NEW a \in Seq(Char), NEW b \in Seq(Char), NEW c \in Seq(Char)
    PROVE  /\ (a \o b) \o c = a \o (b \o c)
           /\ a \o b \in Seq(Char)
           /\ a \o <<>> = a /\ <<>> \o a = a
BY ConcatAssociative, ConcatProperties, ConcatEmptySeq

\* Every step keeps the invariant.
LEMMA StepInv == IInv /\ [Next]_vars => IInv'
<1> SUFFICES ASSUME IInv, [Next]_vars
             PROVE  IInv'
  OBVIOUS
<1> USE DEF IInv
<1>0. /\ text \in Seq(Char) /\ fifo \in Seq(Char) /\ line \in Seq(Char) /\ asked \in Seq(Char)
      /\ Pending \in Seq(Char) /\ line \o fifo \o Pending = asked
      /\ text = <<>> => Pending = <<>>
  BY PendingHead DEF Sequenced, Lossless, Pending
<1>1. CASE StartTest
  <2>1. text = <<>> /\ ~cr /\ fifo = <<>> /\ ~serial_initialized
    BY <1>1 DEF StartTest, Place
  <2>2. fifo' = fifo /\ UNCHANGED <<text, cr, line, asked>>
    BY <1>1, <2>1 DEF StartTest
  <2>3. Lossless'
    BY <2>2 DEF Lossless
  <2>4. TypeOK'
    BY <1>1, <2>1, <2>2 DEF StartTest, TypeOK
  <2>5. Sequenced' /\ Place'
    <3>1. Sequenced'
      BY <2>2 DEF Sequenced
    <3>2. pc' = "test" /\ received' = FALSE /\ ~serial_initialized'
      BY <1>1, <2>1 DEF StartTest
    <3>3. Place'
      BY <2>1, <2>2, <3>2 DEF Place
    <3> QED
      BY <3>1, <3>3
  <2> QED
    BY <2>3, <2>4, <2>5
<1>2. CASE ReadTestByte
  <2>1. text = <<>> /\ ~cr /\ UNCHANGED <<text, cr, fifo, line, asked>>
    BY <1>2 DEF ReadTestByte, Place
  <2>2. Lossless'
    BY <2>1 DEF Lossless
  <2>3. TypeOK'
    <3>1. serial_initialized' \in BOOLEAN /\ (serial_initialized' => ~looping') /\ pc' = "idle"
      BY <1>2, Zenon DEF ReadTestByte, Place
    <3> QED
      BY <2>1, <3>1 DEF TypeOK
  <2>4. Sequenced' /\ Place'
    BY <1>2, <2>1 DEF ReadTestByte, Sequenced, Place
  <2> QED
    BY <2>2, <2>3, <2>4
<1>3. CASE WriteReturn
  <2>1. "\r" \in Char /\ WriteChar("\r") /\ text # <<>> /\ Head(text) = "\n" /\ ~cr /\ pc = "write"
    BY <1>3 DEF WriteReturn, Char
  <2>2. fifo = <<>> /\ fifo' = <<"\r">> /\ Len(fifo') <= FifoDepth /\ fifo' \in Seq(Char)
    BY <2>1, ByteFits
  <2>3. cr' = TRUE /\ UNCHANGED <<pc, text, line, asked, serial_initialized, looping, received>>
    BY <1>3 DEF WriteReturn, WriteChar
  <2>4. Pending = <<"\r">> \o Tail(Expand(text)) /\ Expand(text) = Pending
    BY <2>1, PendingHead DEF Pending
  <2>5. Sequenced' /\ Place'
    BY <2>1, <2>2, <2>3 DEF Sequenced, Place
  <2>6. Pending' \in Seq(Char) /\ Pending' = Tail(Expand(text))
    <3>1. Tail(Expand(text)) \in Seq(Char)
      BY <2>1, PendingHead
    <3> QED
      BY <3>1, <2>3 DEF Pending
  <2>7. Lossless'
    <3>1. PICK q \in Seq(Char) : q = Pending'
      BY <2>6
    <3>2. PICK b \in Seq(Char) : b = <<"\r">>
      BY <2>2
    <3>3. line \o (b \o q) = asked
      BY <1>0, <2>2, <2>4, <2>6, <3>1, <3>2, Regroup, Zenon
    <3>4. (line \o b) \o q = asked
      <4>1. (line \o b) \o q = line \o (b \o q)
        BY <1>0, <3>1, <3>2, ConcatAssociative
      <4> QED
        BY <3>3, <4>1, Zenon
    <3>5. line' \o fifo' \o Pending' = asked'
      BY <3>4, <2>2, <2>3, <3>1, <3>2
    <3> QED
      BY <3>5, <2>3 DEF Lossless, Pending
  <2>8. TypeOK'
    BY <2>2, <2>3 DEF TypeOK
  <2> QED
    BY <2>5, <2>7, <2>8
<1>4. CASE WriteNext
  <2>1. text # <<>> /\ (Head(text) = "\n" => cr) /\ pc = "write"
    BY <1>4 DEF WriteNext
  <2>2. Head(text) \in Char /\ Tail(text) \in Seq(Char)
    BY <2>1, <1>0, HeadTailProperties
  <2>3. WriteChar(Head(text))
    BY <1>4 DEF WriteNext
  <2>4. fifo = <<>> /\ fifo' = <<Head(text)>> /\ Len(fifo') <= FifoDepth /\ fifo' \in Seq(Char)
    BY <2>2, <2>3, ByteFits
  <2>5. text' = Tail(text) /\ cr' = FALSE /\ UNCHANGED <<pc, line, asked, serial_initialized, looping, received>>
    BY <1>4 DEF WriteNext, WriteChar
  <2>6. Pending = <<Head(text)>> \o Expand(Tail(text)) /\ Expand(Tail(text)) \in Seq(Char)
    BY <2>1, <2>2, PendingHead, ExpandType
  <2>7. Pending' = Expand(Tail(text))
    BY <2>5 DEF Pending
  <2>8. Lossless'
    <3>1. PICK q \in Seq(Char) : q = Expand(Tail(text))
      BY <2>6
    <3>2. PICK b \in Seq(Char) : b = <<Head(text)>>
      BY <2>4
    <3>3. line \o (b \o q) = asked
      BY <1>0, <2>4, <2>6, <3>1, <3>2, Regroup, Zenon
    <3>4. (line \o b) \o q = asked
      <4>1. (line \o b) \o q = line \o (b \o q)
        BY <1>0, <3>1, <3>2, ConcatAssociative
      <4> QED
        BY <3>3, <4>1, Zenon
    <3>5. line' \o fifo' \o Pending' = asked'
      BY <3>4, <2>4, <2>5, <2>7, <3>1, <3>2, Zenon
    <3> QED
      BY <3>5, <2>5 DEF Lossless, Pending
  <2>9. TypeOK'
    BY <2>4, <2>5 DEF TypeOK
  <2>10. Sequenced' /\ Place'
    BY <2>1, <2>2, <2>4, <2>5, <1>0 DEF Sequenced, Place
  <2> QED
    BY <2>8, <2>9, <2>10
<1>5. CASE EndWrite
  <2>1. text = <<>> /\ ~cr /\ pc = "write" /\ pc' = "idle"
        /\ UNCHANGED <<serial_initialized, text, cr, asked, fifo, line, looping, received>>
    BY <1>5 DEF EndWrite, Place, chip
  <2>2. Lossless'
    BY <2>1 DEF Lossless
  <2>3. TypeOK' /\ Sequenced' /\ Place'
    BY <2>1 DEF TypeOK, Sequenced, Place
  <2> QED
    BY <2>2, <2>3
<1>6. CASE SkipWrite
  <2>1. UNCHANGED <<pc, serial_initialized, text, cr, asked, fifo, line, looping, received>>
    BY <1>6 DEF SkipWrite, vars, driver, chip
  <2> QED
    BY <2>1 DEF TypeOK, Sequenced, Place, Lossless
<1>7. CASE \E t \in Texts : serial_write(t)
  <2>1. PICK t \in Texts : serial_write(t)
    BY <1>7
  <2>2. t \in Seq(Char)
    <3>1. t \in Seq(STRING) /\ STRING \subseteq Char
      BY SerialAssumption DEF Char
    <3> QED
      BY <3>1, SeqMonotonic
  <2>3. Expand(t) \in Seq(Char)
    BY <2>2, ExpandType
  <2>4. /\ pc = "idle" /\ serial_initialized /\ pc' = "write" /\ text' = t
        /\ asked' = asked \o Expand(t)
        /\ UNCHANGED <<serial_initialized, cr, fifo, line, looping, received>>
    BY <2>1 DEF serial_write, chip
  <2>5. text = <<>> /\ ~cr
    BY <2>4 DEF Place
  <2>6. Lossless'
    <3>1. line \o fifo \in Seq(Char)
      BY <1>0, Regroup
    <3>2. line \o fifo = asked
      BY <3>1, <2>5, <1>0, Regroup
    <3>3. line' \o fifo' \o Expand(t) = asked'
      BY <3>2, <2>4
    <3> QED
      BY <3>3, <2>4, <2>5 DEF Lossless
  <2>7. Sequenced'
    BY <2>2, <2>3, <2>4, <1>0, Regroup DEF Sequenced
  <2>8. TypeOK' /\ Place'
    BY <2>4, <2>5 DEF TypeOK, Place
  <2> QED
    BY <2>6, <2>7, <2>8
<1>8. CASE LoopBack
  <2>1. UNCHANGED <<pc, serial_initialized, text, cr, asked, fifo, line, looping>>
        /\ received' \in BOOLEAN
    BY <1>8 DEF LoopBack, driver
  <2> QED
    BY <2>1 DEF TypeOK, Sequenced, Place, Lossless
<1>9. CASE Send
  <2>1. /\ fifo # <<>> /\ line' = Append(line, Head(fifo)) /\ fifo' = Tail(fifo)
        /\ UNCHANGED <<pc, serial_initialized, text, cr, asked, looping, received>>
    BY <1>9 DEF Send, driver
  <2>2. Head(fifo) \in Char /\ Tail(fifo) \in Seq(Char) /\ Len(Tail(fifo)) = Len(fifo) - 1
        /\ Len(fifo) \in Nat
    BY <2>1, <1>0, HeadTailProperties, LenProperties
  <2>3. fifo = <<Head(fifo)>> \o Tail(fifo) /\ <<Head(fifo)>> \in Seq(Char)
    BY <2>1, <1>0, HeadThenTail
  <2>4. line' = line \o <<Head(fifo)>> /\ line' \in Seq(Char)
    BY <2>1, <2>2, <1>0, AppendIsConcat, AppendProperties
  <2>5. Lossless'
    <3>1. line' \o fifo' = line \o fifo
      <4>1. PICK h \in Seq(Char) : h = <<Head(fifo)>>
        BY <2>3
      <4>2. (line \o h) \o Tail(fifo) = line \o (h \o Tail(fifo))
        <5>1. PICK q \in Seq(Char) : q = Tail(fifo)
          BY <2>2
        <5>2. (line \o h) \o q = line \o (h \o q)
          <6>1. line \in Seq(Char) /\ h \in Seq(Char) /\ q \in Seq(Char)
            BY <1>0
          <6> QED
            BY <6>1, ConcatAssociative
        <5> QED
          BY <5>1, <5>2, Zenon
      <4> QED
        BY <4>1, <4>2, <2>1, <2>3, <2>4, Zenon
    <3>2. line' \o fifo' \o Pending = asked'
      BY <3>1, <2>1, <1>0
    <3> QED
      BY <3>2, <2>1 DEF Lossless, Pending
  <2>6. TypeOK'
    <3>1. Len(fifo') <= FifoDepth
      BY <2>1, <2>2, SerialAssumption DEF TypeOK
    <3> QED
      BY <3>1, <2>1 DEF TypeOK
  <2>7. Sequenced'
    BY <2>1, <2>2, <2>4 DEF Sequenced
  <2>8. Place'
    BY <2>1 DEF Place
  <2> QED
    BY <2>5, <2>6, <2>7, <2>8
<1>10. CASE UNCHANGED vars
  <2>1. UNCHANGED <<pc, serial_initialized, text, cr, asked, fifo, line, looping, received>>
    BY <1>10 DEF vars, driver, chip
  <2> QED
    BY <2>1 DEF TypeOK, Sequenced, Place, Lossless
<1> QED
  BY <1>1, <1>2, <1>3, <1>4, <1>5, <1>6, <1>7, <1>8, <1>9, <1>10 DEF Next, Driver, Chip

(***************************************************************************)
(* The theorems.                                                           *)
(***************************************************************************)

\* The invariant holds in every reachable state.
LEMMA Invariant == Spec => []IInv
<1>1. Init => IInv
  BY InitInv
<1>2. IInv /\ [Next]_vars => IInv'
  BY StepInv
<1> QED
  BY <1>1, <1>2, PTL DEF Spec

\* A port that counts as initialized is out of loopback mode, and the transmitter
\* is never handed more than it holds (init_serial, serial_writechar).
THEOREM SerialTypes == Spec => []TypeOK
<1>1. IInv => TypeOK
  BY DEF IInv
<1> QED
  BY <1>1, Invariant, PTL

\* What was sent, what the chip holds and what the call has still to send are
\* together what was asked for, a '\r' before every '\n': the driver of serial.c
\* loses, repeats and reorders nothing, however slow the chip is.
THEOREM LineIsLossless == Spec => []Lossless
<1>1. IInv => Lossless
  BY DEF IInv
<1> QED
  BY <1>1, Invariant, PTL
=============================================================================
