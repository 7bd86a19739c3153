------------------------ MODULE FencedDetector_proofs ------------------------
(***************************************************************************)
(* FencedDetector, for every set of bytes, openers, chunks and block bound *)
(* that its assumptions allow: the blocks released are those of the text.  *)
(*                                                                         *)
(* The detector meets the text from its beginning and the reference reads  *)
(* it whole, so the invariant is about every text that the bytes fed so    *)
(* far may yet become (Future). From each of them the reading finds the    *)
(* blocks released, and then what it finds from the place where the held   *)
(* bytes begin (Settled); what is held says where reading stands: at the   *)
(* start of a line, on a line that opens nothing, or in an open block none *)
(* of whose lines is its fence (Says). A chunk is a run of single bytes,   *)
(* and each byte keeps Says, one lemma per state of the detector.          *)
(***************************************************************************)
EXTENDS FencedDetector, SequenceTheorems, WellFoundedInduction, TLAPS

\* A set that has 0 and the successors of its numbers has them all.
LEMMA SetInduction ==
  ASSUME NEW S, 0 \in S, \A n \in Nat : n \in S => n + 1 \in S
  PROVE  Nat \subseteq S
<1> DEFINE T == Nat \ S
           R == {ss \in Nat \X Nat : ss[1] < ss[2]}
<1> SUFFICES ASSUME T # {} PROVE FALSE
  OBVIOUS
<1>1. IsWellFoundedOn(R, Nat)
  BY NatLessThanWellFounded DEF OpToRel
<1>2. PICK m \in T : \A k \in T : ~ (<<k, m>> \in R)
  <2>1. T \subseteq Nat
    OBVIOUS
  <2> HIDE DEF T, R
  <2> QED BY <1>1, <2>1, WFMin
<1>3. m \in Nat /\ m # 0
  OBVIOUS
<1>4. m - 1 \in Nat /\ m - 1 + 1 = m
  BY <1>3
<1>5. m - 1 \in T
  BY <1>4
<1>6. <<m - 1, m>> \in R
  BY <1>3, <1>4
<1> QED BY <1>2, <1>5, <1>6

\* Pieces whose bytes are text.
HasText(S) == \A x \in S : x.bytes \in Seq(Byte)

\* The run of TextOf.
IsText(ps, g) ==
  g = [i \in 0..Len(ps) |-> IF i = 0 THEN <<>> ELSE g[i - 1] \o ps[i].bytes]

\* It is chosen as TextOf does.
TextRun(ps) == CHOOSE g : IsText(ps, g)

\* There is one over all pieces, and TextOf is its end.
LEMMA TextExists ==
  ASSUME NEW ps, Len(ps) \in Nat
  PROVE  IsText(ps, TextRun(ps)) /\ TextOf(ps) = TextRun(ps)[Len(ps)]
<1> DEFINE Good(k) ==
      \E g : g = [i \in 0..k |-> IF i = 0 THEN <<>> ELSE g[i - 1] \o ps[i].bytes]
<1>1. Good(0)
  <2> DEFINE g == [i \in 0..0 |-> <<>>]
  <2>1. g = [i \in 0..0 |-> IF i = 0 THEN <<>> ELSE g[i - 1] \o ps[i].bytes]
    OBVIOUS
  <2> HIDE DEF g
  <2> QED BY <2>1
<1>2. ASSUME NEW k \in Nat, Good(k) PROVE Good(k + 1)
  <2>1. PICK g : g = [i \in 0..k |-> IF i = 0 THEN <<>> ELSE g[i - 1] \o ps[i].bytes]
    BY <1>2
  <2>2. PICK last : last = g[k] \o ps[k + 1].bytes
    OBVIOUS
  <2> DEFINE h == [i \in 0..(k + 1) |-> IF i <= k THEN g[i] ELSE last]
  <2>3. h = [i \in 0..(k + 1) |-> IF i = 0 THEN <<>> ELSE h[i - 1] \o ps[i].bytes]
    <3>1. ASSUME NEW i \in 0..(k + 1)
          PROVE  h[i] = IF i = 0 THEN <<>> ELSE h[i - 1] \o ps[i].bytes
      <4>1. CASE i <= k
        <5>1. i \in 0..k /\ h[i] = g[i] /\ (i # 0 => i - 1 \in 0..(k + 1) /\ h[i - 1] = g[i - 1])
          BY <4>1
        <5>2. g[i] = IF i = 0 THEN <<>> ELSE g[i - 1] \o ps[i].bytes
          BY <2>1, <5>1
        <5> QED BY <5>1, <5>2
      <4>2. CASE i = k + 1
        <5>1. i # 0 /\ h[i] = last /\ i - 1 = k /\ h[k] = g[k]
          BY <4>2
        <5> QED BY <2>2, <4>2, <5>1
      <4> QED BY <4>1, <4>2
    <3> HIDE DEF h
    <3>2. h = [i \in 0..(k + 1) |-> h[i]]
      BY DEF h
    <3> QED BY <3>1, <3>2
  <2> HIDE DEF h
  <2> QED BY <2>3
<1> DEFINE T == {k \in Nat : Good(k)}
<1> HIDE DEF Good
<1>3. 0 \in T /\ \A k \in Nat : k \in T => k + 1 \in T
  BY <1>1, <1>2
<1>4. Nat \subseteq T
  <2> HIDE DEF T
  <2> QED BY <1>3, SetInduction
<1>5. Good(Len(ps))
  BY <1>4
<1>6. \E g : IsText(ps, g)
  BY <1>5 DEF Good, IsText
<1>7. TextOf(ps) = TextRun(ps)[Len(ps)]
  BY DEF TextOf, TextRun, IsText
<1> QED BY <1>6, <1>7 DEF TextRun

\* The text of the first n pieces.
TextTo(ps, n) == TextRun(ps)[n]

\* It grows by the bytes of each piece.
LEMMA TextToIs ==
  ASSUME NEW S, HasText(S), NEW ps \in Seq(S)
  PROVE  /\ TextTo(ps, 0) = <<>>
         /\ \A n \in 1..Len(ps) : TextTo(ps, n) = TextTo(ps, n - 1) \o ps[n].bytes
         /\ \A n \in 0..Len(ps) : TextTo(ps, n) \in Seq(Byte)
         /\ TextOf(ps) = TextTo(ps, Len(ps))
<1>1. Len(ps) \in Nat /\ \A n \in 1..Len(ps) : ps[n].bytes \in Seq(Byte)
  BY LenProperties, ElementOfSeq DEF HasText
<1>2. PICK g : g = TextRun(ps) /\ IsText(ps, g) /\ TextOf(ps) = g[Len(ps)]
  BY <1>1, TextExists
<1>3. g[0] = <<>> /\ \A n \in 1..Len(ps) : g[n] = g[n - 1] \o ps[n].bytes
  <2>1. PICK m : m = Len(ps)
    OBVIOUS
  <2>2. m \in Nat /\ g = [i \in 0..m |-> IF i = 0 THEN <<>> ELSE g[i - 1] \o ps[i].bytes]
    BY <1>1, <1>2, <2>1 DEF IsText
  <2>3. g[0] = <<>>
    BY <2>2
  <2>4. \A n \in 1..m : g[n] = g[n - 1] \o ps[n].bytes
    BY <2>2
  <2> QED BY <2>1, <2>3, <2>4
<1> DEFINE T == {n \in Nat : n <= Len(ps) => g[n] \in Seq(Byte)}
<1>4. 0 \in T
  <2>1. <<>> \in Seq(Byte)
    OBVIOUS
  <2> QED BY <1>3, <2>1
<1>5. \A n \in Nat : n \in T => n + 1 \in T
  <2> TAKE n \in Nat
  <2> SUFFICES ASSUME n + 1 <= Len(ps), g[n] \in Seq(Byte) PROVE g[n + 1] \in Seq(Byte)
    BY <1>1
  <2>1. n + 1 \in 1..Len(ps) /\ n + 1 - 1 = n
    BY <1>1
  <2>2. PICK a, b : a = g[n] /\ b = ps[n + 1].bytes
    OBVIOUS
  <2>3. a \o b \in Seq(Byte)
    BY <1>1, <2>1, <2>2, ConcatProperties
  <2>4. g[n + 1] = a \o b
    <3>1. PICK k : k = n + 1
      OBVIOUS
    <3>2. k \in 1..Len(ps) /\ k - 1 = n
      BY <2>1, <3>1
    <3>3. g[k] = g[k - 1] \o ps[k].bytes
      BY <1>3, <3>2
    <3> QED BY <2>2, <3>1, <3>2, <3>3
  <2> QED BY <2>3, <2>4
<1>6. Nat \subseteq T
  <2> HIDE DEF T
  <2> QED BY <1>4, <1>5, SetInduction
<1>7. \A n \in 0..Len(ps) : g[n] \in Seq(Byte)
  BY <1>1, <1>6
<1>8. g = TextRun(ps) /\ TextOf(ps) = g[Len(ps)]
  BY <1>2
<1> HIDE DEF T
<1> QED BY <1>3, <1>7, <1>8 DEF TextTo

\* The same, one step on.
LEMMA TextNext ==
  ASSUME NEW S, HasText(S), NEW ps \in Seq(S), NEW n \in Nat, n < Len(ps)
  PROVE  TextTo(ps, n + 1) = TextTo(ps, n) \o ps[n + 1].bytes
<1>1. PICK k : k = n + 1
  OBVIOUS
<1>2. k \in 1..Len(ps) /\ k - 1 = n
  BY <1>1, LenProperties
<1>3. TextTo(ps, k) = TextTo(ps, k - 1) \o ps[k].bytes
  BY <1>2, TextToIs
<1> QED BY <1>1, <1>2, <1>3

\* The text of pieces of text is text.
LEMMA TextIsText ==
  ASSUME NEW S, HasText(S), NEW ps \in Seq(S)
  PROVE  TextOf(ps) \in Seq(Byte)
<1>1. Len(ps) \in 0..Len(ps)
  BY LenProperties
<1> QED BY <1>1, TextToIs

\* The same pieces at the front have the same text.
LEMMA SameText ==
  ASSUME NEW S, HasText(S), NEW ps \in Seq(S), NEW qs \in Seq(S), NEW m \in Nat,
         m <= Len(ps), m <= Len(qs), \A n \in 1..m : qs[n].bytes = ps[n].bytes
  PROVE  \A n \in 0..m : TextTo(qs, n) = TextTo(ps, n)
<1> DEFINE T == {n \in Nat : n <= m => TextTo(qs, n) = TextTo(ps, n)}
<1>1. Len(ps) \in Nat /\ Len(qs) \in Nat
  BY LenProperties
<1>2. 0 \in T
  BY TextToIs
<1>3. \A n \in Nat : n \in T => n + 1 \in T
  <2> TAKE n \in Nat
  <2> SUFFICES ASSUME n + 1 <= m, TextTo(qs, n) = TextTo(ps, n)
               PROVE  TextTo(qs, n + 1) = TextTo(ps, n + 1)
    OBVIOUS
  <2>1. n + 1 \in 1..Len(ps) /\ n + 1 \in 1..Len(qs) /\ n + 1 \in 1..m /\ n + 1 - 1 = n
    BY <1>1
  <2>2. TextTo(ps, n + 1) = TextTo(ps, n) \o ps[n + 1].bytes
    BY <1>1, TextNext
  <2>3. TextTo(qs, n + 1) = TextTo(qs, n) \o qs[n + 1].bytes
    <3>1. n < Len(qs)
      BY <1>1
    <3> QED BY <3>1, TextNext
  <2> QED BY <2>1, <2>2, <2>3
<1>4. Nat \subseteq T
  <2> HIDE DEF T
  <2> QED BY <1>2, <1>3, SetInduction
<1> QED BY <1>4

\* No pieces, no text.
LEMMA NoText == TextOf(<<>>) = <<>>
<1>1. <<>> \in Seq({}) /\ HasText({}) /\ Len(<<>>) = 0
  BY DEF HasText
<1>2. TextOf(<<>>) = TextTo(<<>>, Len(<<>>)) /\ TextTo(<<>>, 0) = <<>>
  BY <1>1, TextToIs
<1> QED BY <1>1, <1>2

\* One piece more.
LEMMA AppendedText ==
  ASSUME NEW S, HasText(S), NEW ps \in Seq(S), NEW x \in S
  PROVE  /\ TextOf(Append(ps, x)) = TextOf(ps) \o x.bytes
         /\ \A n \in 0..Len(ps) : TextTo(Append(ps, x), n) = TextTo(ps, n)
<1>1. PICK qs, m : qs = Append(ps, x) /\ m = Len(ps)
  OBVIOUS
<1>2. /\ m \in Nat /\ qs \in Seq(S) /\ Len(qs) = m + 1 /\ qs[m + 1] = x
      /\ \A n \in 1..m : qs[n] = ps[n]
  <2>1. m \in Nat
    BY <1>1, LenProperties
  <2>2. qs \in Seq(S) /\ Len(qs) = m + 1
    BY <1>1, AppendProperties
  <2>3. qs[m + 1] = x
    BY <1>1, AppendProperties
  <2>4. \A n \in 1..m : qs[n] = ps[n]
    BY <1>1, AppendProperties
  <2> QED BY <2>1, <2>2, <2>3, <2>4
<1>3. \A n \in 0..m : TextTo(qs, n) = TextTo(ps, n)
  <2>1. m <= Len(ps) /\ m <= Len(qs)
    BY <1>1, <1>2
  <2>2. \A n \in 1..m : qs[n].bytes = ps[n].bytes
    BY <1>2
  <2> QED BY <1>2, <2>1, <2>2, SameText
<1>4. m + 1 \in 1..Len(qs) /\ m + 1 - 1 = m /\ m \in 0..m
  BY <1>2
<1>5. TextTo(qs, m + 1) = TextTo(qs, m) \o qs[m + 1].bytes
  <2>1. m < Len(qs)
    BY <1>2
  <2> QED BY <1>2, <2>1, TextNext
<1>6. TextOf(ps) = TextTo(ps, m) /\ TextOf(qs) = TextTo(qs, m + 1)
  BY <1>1, <1>2, TextToIs
<1> QED BY <1>1, <1>2, <1>3, <1>4, <1>5, <1>6

\* Concatenations may be grouped as one likes.
LEMMA Associates ==
  \A a, b, c \in Seq(Byte) : (a \o b) \o c = a \o (b \o c)
<1>1. ASSUME NEW a \in Seq(Byte), NEW b \in Seq(Byte), NEW c \in Seq(Byte)
      PROVE  (a \o b) \o c = a \o (b \o c)
  BY ConcatAssociative
<1> QED BY <1>1

\* The last piece made longer.
LEMMA LengthenedText ==
  ASSUME NEW S, HasText(S), NEW ps \in Seq(S), NEW qs \in Seq(S), NEW t \in Seq(Byte),
         Len(ps) # 0, Len(qs) = Len(ps),
         \A n \in 1..Len(ps) : n # Len(ps) => qs[n].bytes = ps[n].bytes,
         qs[Len(ps)].bytes = ps[Len(ps)].bytes \o t
  PROVE  TextOf(qs) = TextOf(ps) \o t
<1>1. PICK m, k : m = Len(ps) /\ k = m - 1
  OBVIOUS
<1>2. m \in Nat /\ k \in Nat /\ m = k + 1 /\ m \in 1..Len(ps) /\ m \in 1..Len(qs) /\ k \in 0..m
  BY <1>1, LenProperties
<1>3. TextTo(qs, k) = TextTo(ps, k)
  <2>1. k <= Len(ps) /\ k <= Len(qs)
    BY <1>1, <1>2
  <2>2. \A n \in 1..k : n \in 1..Len(ps) /\ n # Len(ps)
    BY <1>1, <1>2
  <2>3. \A n \in 1..k : qs[n].bytes = ps[n].bytes
    BY <2>2
  <2>4. \A n \in 0..k : TextTo(qs, n) = TextTo(ps, n)
    BY <1>2, <2>1, <2>3, SameText
  <2> QED BY <1>2, <2>4
<1>4. PICK a, b, c : a = TextTo(ps, k) /\ b = ps[m].bytes /\ c = qs[m].bytes
  OBVIOUS
<1>5. a \in Seq(Byte) /\ b \in Seq(Byte) /\ c = b \o t
  <2>1. k \in 0..Len(ps)
    BY <1>1, <1>2
  <2>2. a \in Seq(Byte)
    BY <1>4, <2>1, TextToIs
  <2>3. ps[m] \in S
    BY <1>2, ElementOfSeq
  <2> QED BY <1>1, <1>4, <2>2, <2>3 DEF HasText
<1>6. TextOf(ps) = a \o b
  <2>1. TextTo(ps, m) = TextTo(ps, m - 1) \o ps[m].bytes /\ TextOf(ps) = TextTo(ps, m)
    BY <1>1, <1>2, TextToIs
  <2> QED BY <1>1, <1>4, <2>1
<1>7. TextOf(qs) = a \o c
  <2>1. TextTo(qs, m) = TextTo(qs, m - 1) \o qs[m].bytes /\ TextOf(qs) = TextTo(qs, m)
    BY <1>1, <1>2, TextToIs
  <2> QED BY <1>1, <1>3, <1>4, <2>1
<1>8. (a \o b) \o t = a \o (b \o t)
  BY <1>5, Associates
<1> QED BY <1>5, <1>6, <1>7, <1>8

\* The front of a sequence of pieces, and what its text lacks.
LEMMA FrontText ==
  ASSUME NEW S, HasText(S), NEW ps \in Seq(S), NEW n \in 0..Len(ps)
  PROVE  TextOf(SubSeq(ps, 1, n)) = TextTo(ps, n)
<1>1. PICK qs : qs = SubSeq(ps, 1, n)
  OBVIOUS
<1>2. Len(ps) \in Nat /\ n \in Nat /\ n <= Len(ps) /\ \A i \in 1..Len(ps) : ps[i] \in S
  BY LenProperties, ElementOfSeq
<1>3. qs \in Seq(S) /\ Len(qs) = n /\ \A i \in 1..n : qs[i] = ps[i]
  <2>1. \A i \in 1..n : ps[i] \in S
    BY <1>2
  <2>2. /\ qs \in Seq(S) /\ Len(qs) = IF 1 <= n THEN n - 1 + 1 ELSE 0
        /\ \A i \in 1..(n - 1 + 1) : qs[i] = ps[1 + i - 1]
    BY <1>1, <1>2, <2>1, SubSeqProperties
  <2> QED BY <1>2, <2>2
<1>4. \A i \in 0..n : TextTo(qs, i) = TextTo(ps, i)
  <2>1. n <= Len(ps) /\ n <= Len(qs) /\ \A i \in 1..n : qs[i].bytes = ps[i].bytes
    BY <1>2, <1>3
  <2> QED BY <1>2, <1>3, <2>1, SameText
<1>5. TextOf(qs) = TextTo(qs, Len(qs))
  BY <1>3, TextToIs
<1> QED BY <1>1, <1>2, <1>3, <1>4, <1>5

\* Two sequences joined.
LEMMA JoinIs ==
  ASSUME NEW S, NEW a \in Seq(S), NEW b \in Seq(S)
  PROVE  /\ a \o b \in Seq(S)
         /\ Len(a \o b) = Len(a) + Len(b)
         /\ \A i \in 1..Len(a) : (a \o b)[i] = a[i]
         /\ \A j \in 1..Len(b) : (a \o b)[Len(a) + j] = b[j]
<1>1. PICK c, m, n : c = a \o b /\ m = Len(a) /\ n = Len(b)
  OBVIOUS
<1>2. m \in Nat /\ n \in Nat
  BY <1>1, LenProperties
<1>3. c \in Seq(S) /\ Len(c) = m + n
  BY <1>1, ConcatProperties
<1>4. \A i \in 1..(m + n) : c[i] = IF i <= m THEN a[i] ELSE b[i - m]
  BY <1>1, ConcatProperties
<1>5. \A i \in 1..m : c[i] = a[i]
  BY <1>2, <1>4
<1>6. \A j \in 1..n : c[m + j] = b[j]
  <2> TAKE j \in 1..n
  <2>1. PICK i : i = m + j
    OBVIOUS
  <2>2. i \in 1..(m + n) /\ ~(i <= m) /\ i - m = j
    BY <1>2, <2>1
  <2> QED BY <1>4, <2>1, <2>2
<1> QED BY <1>1, <1>3, <1>5, <1>6

\* Sequences of no and of one element.
LEMMA SmallSeqs ==
  /\ \A S : <<>> \in Seq(S) /\ Len(<<>>) = 0
  /\ \A S : \A x \in S : <<x>> \in Seq(S) /\ Len(<<x>>) = 1 /\ <<x>>[1] = x
OBVIOUS

\* The empty text joined.
LEMMA EmptyJoins == \A t \in Seq(Byte) : <<>> \o t = t /\ t \o <<>> = t
<1>1. ASSUME NEW t \in Seq(Byte) PROVE <<>> \o t = t /\ t \o <<>> = t
  BY ConcatEmptySeq
<1> QED BY <1>1

\* Two elements joined.
LEMMA PairIs ==
  ASSUME NEW S, NEW x \in S, NEW y \in S
  PROVE  <<x>> \o <<y>> = <<x, y>>
<1>1. PICK a, b, c : a = <<x>> /\ b = <<y>> /\ c = <<x, y>>
  OBVIOUS
<1>2. a \in Seq(S) /\ Len(a) = 1 /\ a[1] = x
  BY <1>1
<1>3. b \in Seq(S) /\ Len(b) = 1 /\ b[1] = y
  BY <1>1
<1>4. c \in Seq(S) /\ Len(c) = 2 /\ c[1] = x /\ c[2] = y
  BY <1>1
<1>5. /\ a \o b \in Seq(S) /\ Len(a \o b) = Len(a) + Len(b)
      /\ \A i \in 1..Len(a) : (a \o b)[i] = a[i]
      /\ \A j \in 1..Len(b) : (a \o b)[Len(a) + j] = b[j]
  <2>1. a \in Seq(S)
    BY <1>2
  <2>2. b \in Seq(S)
    BY <1>3
  <2> QED BY <2>1, <2>2, JoinIs
<1>6. Len(a \o b) = 2 /\ (a \o b)[1] = x /\ (a \o b)[2] = y
  <2>1. (a \o b)[1] = x
    BY <1>2, <1>5
  <2>2. (a \o b)[1 + 1] = y
    BY <1>2, <1>3, <1>5
  <2> QED BY <1>2, <1>3, <1>5, <2>1, <2>2
<1>7. \A i \in 1..2 : (a \o b)[i] = c[i]
  BY <1>4, <1>6
<1>8. a \o b = c
  BY <1>4, <1>5, <1>6, <1>7, SeqEqual
<1> QED BY <1>1, <1>8

\* The first bytes of a text.
Front(t, k) == SubSeq(t, 1, k)

\* They grow from none to all.
LEMMA FrontIs ==
  ASSUME NEW t \in Seq(Byte)
  PROVE  /\ Front(t, 0) = <<>>
         /\ Front(t, Len(t)) = t
         /\ \A k \in Nat : k < Len(t) => /\ Front(t, k + 1) = Front(t, k) \o <<t[k + 1]>>
                                         /\ Front(t, k) \in Seq(Byte)
                                         /\ t[k + 1] \in Byte
<1>1. Len(t) \in Nat
  BY LenProperties
<1>2. Front(t, 0) = <<>>
  BY SubSeqEmpty DEF Front
<1>3. Front(t, Len(t)) = t
  BY SubSeqFull DEF Front
<1>4. ASSUME NEW k \in Nat, k < Len(t)
      PROVE  /\ Front(t, k + 1) = Front(t, k) \o <<t[k + 1]>>
             /\ Front(t, k) \in Seq(Byte)
             /\ t[k + 1] \in Byte
  <2>1. PICK m, n : m = 1 /\ n = k + 1
    OBVIOUS
  <2>2. m \in 1..Len(t) /\ n \in m..Len(t) /\ n \in 1..Len(t) /\ n - 1 = k
    BY <1>1, <1>4, <2>1
  <2>3. SubSeq(t, m, n) = SubSeq(t, m, n - 1) \o <<t[n]>>
    BY <2>2, SubSeqRecursiveSecond
  <2>4. t[n] \in Byte
    BY <2>2, ElementOfSeq
  <2>5. \A i \in 1..k : t[i] \in Byte
    <3> TAKE i \in 1..k
    <3>1. i \in 1..Len(t)
      BY <1>1, <1>4
    <3> QED BY <3>1, ElementOfSeq
  <2>6. SubSeq(t, 1, k) \in Seq(Byte)
    BY <2>5, SubSeqProperties
  <2> QED BY <2>1, <2>2, <2>3, <2>4, <2>6 DEF Front
<1> QED BY <1>2, <1>3, <1>4

\* The two bytes of line endings.
LEMMA LineEndBytes == "cr" \in Byte /\ "lf" \in Byte
BY TextAssumption

\* The last byte of a text.
LastOf(t) == t[Len(t)]

\* A text with one byte more ends in that byte.
LEMMA LastJoined ==
  ASSUME NEW t \in Seq(Byte), NEW b \in Byte
  PROVE  /\ t \o <<b>> \in Seq(Byte) \ {<<>>}
         /\ LastOf(t \o <<b>>) = b
         /\ Append(t, b) = t \o <<b>>
<1>1. PICK s : s = Append(t, b)
  OBVIOUS
<1>2. s \in Seq(Byte) /\ s # <<>> /\ Len(s) = Len(t) + 1 /\ s[Len(t) + 1] = b
  BY <1>1, AppendProperties
<1>3. s = t \o <<b>>
  BY <1>1, AppendIsConcat
<1> QED BY <1>1, <1>2, <1>3 DEF LastOf

\* Two equal texts end in the same byte.
LEMMA LastCancels ==
  ASSUME NEW s \in Seq(Byte), NEW t \in Seq(Byte), NEW b \in Byte, NEW c \in Byte, s \o <<b>> = t \o <<c>>
  PROVE  s = t /\ b = c
<1>1. s \o <<b>> = Append(s, b) /\ t \o <<c>> = Append(t, c)
  BY LastJoined
<1>2. Append(s, b) = Append(t, c)
  BY <1>1
<1> QED BY <1>2, AppendInjective

\* What StripSuffix takes off.
LEMMA StripIs ==
  ASSUME NEW t \in Seq(Byte), NEW b \in Byte
  PROVE  /\ StripSuffix(t \o <<b>>, b) = t
         /\ (Len(t) = 0 \/ LastOf(t) # b) => StripSuffix(t, b) = t
<1>1. PICK s, n : s = t \o <<b>> /\ n = Len(t)
  OBVIOUS
<1>2. n \in Nat
  BY <1>1, LenProperties
<1>3. s = Append(t, b) /\ s # <<>> /\ s \in Seq(Byte)
  BY <1>1, LastJoined
<1>4. Len(s) = n + 1 /\ s[n + 1] = b /\ \A i \in 1..n : s[i] = t[i]
  BY <1>1, <1>3, AppendProperties
<1>5. StripSuffix(s, b) = SubSeq(s, 1, n)
  BY <1>2, <1>3, <1>4 DEF StripSuffix
<1>6. SubSeq(s, 1, n) = t
  <2>1. PICK f : f = SubSeq(s, 1, n)
    OBVIOUS
  <2>2. \A i \in 1..n : s[i] \in Byte
    <3> TAKE i \in 1..n
    <3>1. i \in 1..Len(t)
      BY <1>1
    <3> QED BY <1>4, <3>1, ElementOfSeq
  <2>3. f \in Seq(Byte) /\ Len(f) = (IF 1 <= n THEN n - 1 + 1 ELSE 0)
        /\ \A i \in 1..(n - 1 + 1) : f[i] = s[1 + i - 1]
    BY <1>2, <2>1, <2>2, SubSeqProperties
  <2>4. Len(f) = n /\ \A i \in 1..n : f[i] = t[i]
    BY <1>2, <1>4, <2>3
  <2> QED BY <1>1, <2>1, <2>3, <2>4, SeqEqual
<1>7. (Len(t) = 0 \/ LastOf(t) # b) => StripSuffix(t, b) = t
  <2>1. Len(t) = 0 => t = <<>>
    BY EmptySeq
  <2> QED BY <2>1 DEF StripSuffix, LastOf
<1> QED BY <1>1, <1>5, <1>6, <1>7

\* The run of DetectorFeed, and that there is one.
DetectorStep(before, b) == DetectorFeedByte(before.detector, before.items, b)

\* A run of DetectorFeed.
IsDetectorRun(detector_, input, run) ==
  run = [i \in 0..Len(input) |->
           IF i = 0 THEN Detected(detector_, <<>>) ELSE DetectorStep(run[i - 1], input[i])]

\* It is chosen as DetectorFeed does.
DetectorRun(detector_, input) == CHOOSE run : IsDetectorRun(detector_, input, run)

\* There is one, and it ends in what DetectorFeed returns.
LEMMA DetectorRunIs ==
  ASSUME NEW detector_, NEW input, Len(input) \in Nat
  PROVE  /\ DetectorFeed(detector_, input) = DetectorRun(detector_, input)[Len(input)]
         /\ DetectorRun(detector_, input)[0] = Detected(detector_, <<>>)
         /\ \A k \in Nat : k < Len(input) =>
              DetectorRun(detector_, input)[k + 1] = DetectorStep(DetectorRun(detector_, input)[k], input[k + 1])
<1>1. PICK n : n = Len(input)
  OBVIOUS
<1>2. n \in Nat
  BY <1>1
<1> DEFINE Upto(k, r) == r = [i \in 0..k |-> IF i = 0 THEN Detected(detector_, <<>>) ELSE DetectorStep(r[i - 1], input[i])]
           Good(k) == \E r : Upto(k, r)
<1>3. Good(0)
  <2> DEFINE r == [i \in 0..0 |-> Detected(detector_, <<>>)]
  <2>1. Upto(0, r)
    OBVIOUS
  <2> HIDE DEF r
  <2> QED BY <2>1
<1>4. ASSUME NEW k \in Nat, Good(k) PROVE Good(k + 1)
  <2>1. PICK r : Upto(k, r)
    BY <1>4
  <2>2. PICK last : last = DetectorStep(r[k], input[k + 1])
    OBVIOUS
  <2> DEFINE h == [i \in 0..(k + 1) |-> IF i <= k THEN r[i] ELSE last]
  <2>3. Upto(k + 1, h)
    <3>1. ASSUME NEW i \in 0..(k + 1)
          PROVE  h[i] = IF i = 0 THEN Detected(detector_, <<>>) ELSE DetectorStep(h[i - 1], input[i])
      <4>1. CASE i <= k
        <5>1. i \in 0..k /\ h[i] = r[i] /\ (i # 0 => i - 1 \in 0..(k + 1) /\ h[i - 1] = r[i - 1])
          BY <4>1
        <5>2. r[i] = IF i = 0 THEN Detected(detector_, <<>>) ELSE DetectorStep(r[i - 1], input[i])
          BY <2>1, <5>1
        <5> QED BY <5>1, <5>2
      <4>2. CASE i = k + 1
        <5>1. i # 0 /\ h[i] = last /\ i - 1 = k /\ h[k] = r[k]
          BY <4>2
        <5> QED BY <2>2, <4>2, <5>1
      <4> QED BY <4>1, <4>2
    <3> HIDE DEF h
    <3>2. h = [i \in 0..(k + 1) |-> h[i]]
      BY DEF h
    <3> QED BY <3>1, <3>2
  <2> HIDE DEF h
  <2> QED BY <2>3
<1> DEFINE T == {k \in Nat : Good(k)}
<1> HIDE DEF Good
<1>5. 0 \in T /\ \A k \in Nat : k \in T => k + 1 \in T
  BY <1>3, <1>4
<1>6. Nat \subseteq T
  <2> HIDE DEF T
  <2> QED BY <1>5, SetInduction
<1>7. \E r : IsDetectorRun(detector_, input, r)
  <2>1. Good(n)
    BY <1>2, <1>6
  <2> QED BY <1>1, <2>1, Zenon DEF Good, IsDetectorRun
<1>8. PICK r : r = DetectorRun(detector_, input)
  OBVIOUS
<1>9. IsDetectorRun(detector_, input, r)
  BY <1>7, <1>8 DEF DetectorRun
<1>10. r = [i \in 0..n |-> IF i = 0 THEN Detected(detector_, <<>>) ELSE DetectorStep(r[i - 1], input[i])]
  BY <1>1, <1>9, Zenon DEF IsDetectorRun
<1>11. r[0] = Detected(detector_, <<>>)
  BY <1>2, <1>10
<1>12. \A k \in Nat : k < n => r[k + 1] = DetectorStep(r[k], input[k + 1])
  <2> SUFFICES ASSUME NEW k \in Nat, k < n PROVE r[k + 1] = DetectorStep(r[k], input[k + 1])
    OBVIOUS
  <2>1. PICK i : i = k + 1
    OBVIOUS
  <2>2. i \in 0..n /\ i # 0 /\ i - 1 = k
    BY <1>2, <2>1
  <2>3. r[i] = DetectorStep(r[i - 1], input[i])
    BY <1>10, <2>2
  <2> QED BY <2>1, <2>2, <2>3
<1>13. DetectorFeed(detector_, input) = r[n]
  <2>1. DetectorFeed(detector_, input) = DetectorRun(detector_, input)[Len(input)]
    BY Zenon DEF DetectorFeed, DetectorStep, DetectorRun, IsDetectorRun
  <2> QED BY <1>1, <1>8, <2>1
<1> QED BY <1>1, <1>8, <1>11, <1>12, <1>13

\* A set of naturals has a least.
LEMMA LeastOf ==
  ASSUME NEW T, T \subseteq Nat, T # {}
  PROVE  \E i \in T : \A j \in T : i <= j
<1> DEFINE R == {ss \in Nat \X Nat : ss[1] < ss[2]}
<1>1. IsWellFoundedOn(R, Nat)
  BY NatLessThanWellFounded DEF OpToRel
<1>2. PICK m \in T : \A k \in T : ~ (<<k, m>> \in R)
  <2> HIDE DEF R
  <2> QED BY <1>1, WFMin
<1>3. \A k \in T : ~(k < m)
  BY <1>2
<1>4. \A k \in T : k \in Nat /\ m \in Nat
  OBVIOUS
<1> QED BY <1>3, <1>4

-----------------------------------------------------------------------------
\* The reference: what it finds from each place of a text on.

\* The least and the greatest of a set of numbers.
LEMMA MinIs ==
  ASSUME NEW S, S \subseteq Nat, NEW m \in S, \A j \in S : m <= j
  PROVE  Min(S) = m
<1>1. PICK i : i = Min(S)
  OBVIOUS
<1>2. \E x \in S : \A y \in S : x <= y
  OBVIOUS
<1>3. i \in S /\ \A y \in S : i <= y
  BY <1>1, <1>2 DEF Min
<1>4. i <= m /\ m <= i /\ i \in Nat /\ m \in Nat
  BY <1>3
<1> QED BY <1>1, <1>4

\* Every set of numbers with a member has a least one.
LEMMA MinExists ==
  ASSUME NEW S, S \subseteq Nat, S # {}
  PROVE  Min(S) \in S /\ \A j \in S : Min(S) <= j
<1>1. \E x \in S : \A y \in S : x <= y
  BY LeastOf
<1> QED BY <1>1 DEF Min

\* The member that no other exceeds is the greatest.
LEMMA MaxIs ==
  ASSUME NEW S, S \subseteq Nat, NEW m \in S, \A j \in S : j <= m
  PROVE  Max(S) = m
<1>1. PICK i : i = Max(S)
  OBVIOUS
<1>2. \E x \in S : \A y \in S : x >= y
  <2>1. \A y \in S : m \in Nat /\ y \in Nat
    OBVIOUS
  <2>2. \A y \in S : m >= y
    BY <2>1
  <2> QED BY <2>2
<1>3. i \in S /\ \A y \in S : i >= y
  BY <1>1, <1>2 DEF Max
<1>4. i \in Nat /\ m \in Nat /\ i >= m /\ i <= m
  BY <1>3
<1> QED BY <1>1, <1>4

\* The rule the reference opens a block by, at line start p, with its body at from.
Opens(text, p, rule, from) ==
  /\ OpenersAt(text, p) # {}
  /\ rule = CHOOSE r \in OpenersAt(text, p) : TRUE
  /\ from = p + Len(rule.pattern)

\* How far a block may reach, and where it may end.
Limit(p, from) == Max({p + MaxBlock - 1, from - 1})
Endings(text, p, rule, from) ==
  {k \in from..Len(text) : k <= Limit(p, from) /\ ClosesAt(text, rule, from, k)}

\* One line of the reading, with g for what is found further on.
Reading(text, g, p) ==
  IF p > Len(text) THEN {}
  ELSE IF OpenersAt(text, p) = {} THEN g[NextLine(text, p)]
  ELSE LET rule    == CHOOSE r \in OpenersAt(text, p) : TRUE
           from    == p + Len(rule.pattern)
           limit   == Max({p + MaxBlock - 1, from - 1})
           endings == {k \in from..Len(text) : k <= limit /\ ClosesAt(text, rule, from, k)}
       IN IF endings # {} THEN {BlockAt(text, p, from, Min(endings))} \cup g[Min(endings) + 1]
          ELSE IF limit >= Len(text) THEN {}
          ELSE g[NextLine(text, limit + 1)]

\* The run of the reading.
IsReadingRun(text, g) == g = [p \in 1..(Len(text) + 1) |-> Reading(text, g, p)]

\* It is chosen as BlocksOf does.
ReadingRun(text) == CHOOSE g : IsReadingRun(text, g)

\* The next line begins further on.
LEMMA NextLineIs ==
  ASSUME NEW text \in Seq(Byte), NEW k \in 1..(Len(text) + 1)
  PROVE  /\ NextLine(text, k) \in k..(Len(text) + 1)
         /\ k <= Len(text) => NextLine(text, k) \in (k + 1)..(Len(text) + 1)
         /\ \A j \in k..Len(text) :
              text[j] = "lf" /\ (\A i \in k..(j - 1) : text[i] # "lf") => NextLine(text, k) = j + 1
         /\ (\A i \in k..Len(text) : text[i] # "lf") => NextLine(text, k) = Len(text) + 1
<1>1. PICK n, E, q : n = Len(text) /\ E = LineEnds(text, k) /\ q = NextLine(text, k)
  OBVIOUS
<1>2. n \in Nat
  BY <1>1, LenProperties
<1>3. E = {j \in k..n : text[j] = "lf"} /\ E \subseteq Nat
  <2>1. E = {j \in k..n : text[j] = "lf"}
    BY <1>1 DEF LineEnds
  <2> QED BY <1>1, <1>2, <2>1
<1>4. q = IF E = {} THEN n + 1 ELSE Min(E) + 1
  BY <1>1 DEF NextLine
<1>5. q \in k..(n + 1) /\ (k <= n => q \in (k + 1)..(n + 1))
  <2>1. CASE E = {}
    BY <1>1, <1>2, <1>4, <2>1
  <2>2. CASE E # {}
    <3>1. Min(E) \in E
      BY <1>3, <2>2, MinExists
    <3>2. PICK m : m = Min(E)
      OBVIOUS
    <3>3. m \in k..n /\ q = m + 1
      BY <1>3, <1>4, <2>2, <3>1, <3>2
    <3> QED BY <1>1, <1>2, <3>3
  <2> QED BY <2>1, <2>2
<1>6. ASSUME NEW j \in k..n, text[j] = "lf", \A i \in k..(j - 1) : text[i] # "lf"
      PROVE  q = j + 1
  <2>1. j \in E
    BY <1>3, <1>6
  <2>2. \A i \in E : j <= i
    <3> SUFFICES ASSUME NEW i \in E, i < j PROVE FALSE
      BY <1>1, <1>2, <1>3
    <3>1. i \in k..(j - 1)
      BY <1>1, <1>2, <1>3
    <3> QED BY <1>3, <1>6, <3>1
  <2>3. Min(E) = j
    BY <1>3, <2>1, <2>2, MinIs
  <2> QED BY <1>4, <2>1, <2>3
<1>7. (\A i \in k..n : text[i] # "lf") => q = n + 1
  BY <1>3, <1>4
<1> QED BY <1>1, <1>5, <1>6, <1>7

\* The greater of two bounds.
LEMMA LimitIs ==
  ASSUME NEW p \in Nat, p # 0, NEW from \in Nat, p < from
  PROVE  /\ Limit(p, from) \in Nat
         /\ Limit(p, from) = p + MaxBlock - 1 \/ Limit(p, from) = from - 1
         /\ p + MaxBlock - 1 <= Limit(p, from) /\ from - 1 <= Limit(p, from)
<1>1. PICK a, b : a = p + MaxBlock - 1 /\ b = from - 1
  OBVIOUS
<1>2. a \in Nat /\ b \in Nat
  BY <1>1, MaxBlockAssumption
<1>3. Limit(p, from) = Max({a, b})
  BY <1>1 DEF Limit
<1>4. {a, b} \subseteq Nat
  BY <1>2
<1>5. CASE a <= b
  <2>1. b \in {a, b} /\ \A j \in {a, b} : j <= b
    BY <1>2, <1>5
  <2>2. Max({a, b}) = b
    BY <1>4, <2>1, MaxIs
  <2> QED BY <1>1, <1>2, <1>3, <1>5, <2>2
<1>6. CASE b <= a
  <2>1. a \in {a, b} /\ \A j \in {a, b} : j <= a
    BY <1>2, <1>6
  <2>2. Max({a, b}) = a
    BY <1>4, <2>1, MaxIs
  <2> QED BY <1>1, <1>2, <1>3, <1>6, <2>2
<1> QED BY <1>2, <1>5, <1>6

\* The opener fits the text.
LEMMA OpensWithin ==
  ASSUME NEW text \in Seq(Byte), NEW p \in 1..Len(text), NEW rule, NEW from, Opens(text, p, rule, from)
  PROVE  /\ rule \in Openers
         /\ from \in (p + 1)..(Len(text) + 1)
         /\ SubSeq(text, p, from - 1) = rule.pattern
<1>1. rule \in OpenersAt(text, p) /\ from = p + Len(rule.pattern)
  BY DEF Opens
<1>2. /\ rule \in Openers /\ p + Len(rule.pattern) - 1 <= Len(text)
      /\ SubSeq(text, p, p + Len(rule.pattern) - 1) = rule.pattern
  BY <1>1 DEF OpenersAt
<1>3. rule.pattern \in Seq(Byte) /\ rule.pattern # <<>>
  BY <1>2, OpenersAssumption
<1>4. Len(rule.pattern) \in Nat /\ Len(rule.pattern) # 0
  BY <1>3, LenProperties, EmptySeq
<1>5. Len(text) \in Nat
  BY LenProperties
<1> QED BY <1>1, <1>2, <1>4, <1>5

\* A line is read by looking at one place further on, if any.
LEMMA ReadingIs ==
  ASSUME NEW text \in Seq(Byte), NEW p \in 1..Len(text)
  PROVE  \/ \A g : Reading(text, g, p) = {}
         \/ \E q \in (p + 1)..(Len(text) + 1) : \A g : Reading(text, g, p) = g[q]
         \/ \E q \in (p + 1)..(Len(text) + 1) : \E x : \A g : Reading(text, g, p) = {x} \cup g[q]
<1>1. PICK n : n = Len(text)
  OBVIOUS
<1>2. n \in Nat /\ p \in Nat /\ p # 0 /\ p <= n /\ ~(p > n)
  BY <1>1, LenProperties
<1>3. CASE OpenersAt(text, p) = {}
  <2>1. p \in 1..(Len(text) + 1)
    BY <1>1, <1>2
  <2>2. NextLine(text, p) \in (p + 1)..(Len(text) + 1)
    BY <1>1, <1>2, <2>1, NextLineIs
  <2>3. \A g : Reading(text, g, p) = g[NextLine(text, p)]
    BY <1>1, <1>2, <1>3 DEF Reading
  <2> QED BY <2>2, <2>3
<1>4. CASE OpenersAt(text, p) # {}
  <2>1. PICK rule, from : Opens(text, p, rule, from)
    BY <1>4 DEF Opens
  <2>2. from \in (p + 1)..(n + 1)
    BY <1>1, <2>1, OpensWithin
  <2>3. PICK limit, E : limit = Limit(p, from) /\ E = Endings(text, p, rule, from)
    OBVIOUS
  <2>4. limit \in Nat /\ p <= limit
    <3>1. from \in Nat /\ p < from
      BY <1>2, <2>2
    <3> QED BY <1>2, <2>2, <2>3, <3>1, LimitIs
  <2>5. \A g : Reading(text, g, p) =
          IF E # {} THEN {BlockAt(text, p, from, Min(E))} \cup g[Min(E) + 1]
          ELSE IF limit >= n THEN {} ELSE g[NextLine(text, limit + 1)]
    BY <1>1, <1>2, <1>4, <2>1, <2>3 DEF Reading, Opens, Limit, Endings
  <2>6. CASE E # {}
    <3>1. E \subseteq from..n
      BY <1>1, <2>3 DEF Endings
    <3>2. E \subseteq Nat
      BY <1>2, <2>2, <3>1
    <3>3. PICK m : m = Min(E)
      OBVIOUS
    <3>4. m \in E
      BY <2>6, <3>2, <3>3, MinExists
    <3>5. m + 1 \in (p + 1)..(n + 1)
      BY <1>2, <2>2, <3>1, <3>4
    <3> QED BY <1>1, <2>5, <2>6, <3>3, <3>5
  <2>7. CASE E = {} /\ limit >= n
    BY <2>5, <2>7
  <2>8. CASE E = {} /\ ~(limit >= n)
    <3>1. limit + 1 \in 1..(Len(text) + 1)
      BY <1>1, <1>2, <2>4, <2>8
    <3>2. NextLine(text, limit + 1) \in (limit + 1)..(Len(text) + 1)
      BY <3>1, NextLineIs
    <3>3. NextLine(text, limit + 1) \in (p + 1)..(Len(text) + 1)
      BY <1>1, <1>2, <2>4, <3>2
    <3> QED BY <2>5, <2>8, <3>3
  <2> QED BY <2>6, <2>7, <2>8
<1> QED BY <1>3, <1>4

\* There is a run, and BlocksOf is its beginning.
LEMMA ReadingExists ==
  ASSUME NEW text \in Seq(Byte)
  PROVE  IsReadingRun(text, ReadingRun(text)) /\ BlocksOf(text) = ReadingRun(text)[1]
<1>1. PICK n : n = Len(text)
  OBVIOUS
<1>2. n \in Nat
  BY <1>1, LenProperties
<1> DEFINE Back(k, g) == g = [p \in (n + 1 - k)..(n + 1) |-> Reading(text, g, p)]
           Good(k) == k <= n => \E g : Back(k, g)
<1>3. Good(0)
  <2> DEFINE g == [p \in (n + 1)..(n + 1) |-> {}]
  <2>1. \A p \in (n + 1)..(n + 1) : Reading(text, g, p) = {}
    <3> HIDE DEF g
    <3>1. \A p \in (n + 1)..(n + 1) : p > Len(text)
      BY <1>1, <1>2
    <3> QED BY <3>1, Zenon DEF Reading
  <2>2. n + 1 - 0 = n + 1
    BY <1>2
  <2>3. Back(0, g)
    <3>1. g = [p \in (n + 1)..(n + 1) |-> Reading(text, g, p)]
      BY <2>1
    <3> HIDE DEF g
    <3> QED BY <2>2, <3>1
  <2> HIDE DEF g
  <2> QED BY <2>3
<1>4. ASSUME NEW k \in Nat, Good(k) PROVE Good(k + 1)
  <2> SUFFICES ASSUME k + 1 <= n PROVE \E g : Back(k + 1, g)
    OBVIOUS
  <2>1. PICK g : Back(k, g)
    BY <1>2, <1>4
  <2>2. PICK q : q = n - k
    OBVIOUS
  <2>3. q \in 1..n /\ n + 1 - k = q + 1 /\ n + 1 - (k + 1) = q
    BY <1>2, <2>2
  <2>4. PICK first : first = Reading(text, g, q)
    OBVIOUS
  <2> DEFINE h == [p \in q..(n + 1) |-> IF p = q THEN first ELSE g[p]]
  <2>5. \A p \in (q + 1)..(n + 1) : h[p] = g[p]
    BY <2>3, <1>2
  <2>6. ASSUME NEW p \in q..(n + 1) PROVE Reading(text, g, p) = Reading(text, h, p)
    <3> HIDE DEF h
    <3>1. CASE p > n
      BY <1>1, <3>1, Zenon DEF Reading
    <3>2. CASE ~(p > n)
      <4>1. p \in 1..Len(text)
        BY <1>1, <1>2, <2>3, <3>2
      <4>2. \A r \in (p + 1)..(Len(text) + 1) : g[r] = h[r]
        <5> TAKE r \in (p + 1)..(Len(text) + 1)
        <5>1. r \in (q + 1)..(n + 1)
          BY <1>1, <1>2, <2>3
        <5> QED BY <2>5, <5>1
      <4>3. \/ \A f : Reading(text, f, p) = {}
            \/ \E r \in (p + 1)..(Len(text) + 1) : \A f : Reading(text, f, p) = f[r]
            \/ \E r \in (p + 1)..(Len(text) + 1) : \E x : \A f : Reading(text, f, p) = {x} \cup f[r]
        BY <4>1, ReadingIs
      <4> QED BY <4>2, <4>3, Zenon
    <3> QED BY <3>1, <3>2
  <2>7. ASSUME NEW p \in q..(n + 1) PROVE h[p] = Reading(text, h, p)
    <3>1. CASE p = q
      <4>1. h[p] = first
        BY <3>1
      <4> HIDE DEF h
      <4> QED BY <2>4, <2>6, <3>1, <4>1
    <3>2. CASE p # q
      <4>1. p \in (q + 1)..(n + 1) /\ h[p] = g[p]
        BY <1>2, <2>3, <3>2
      <4>2. g[p] = Reading(text, g, p)
        BY <2>1, <2>3, <4>1
      <4> HIDE DEF h
      <4> QED BY <2>6, <4>1, <4>2
    <3> QED BY <3>1, <3>2
  <2>8. h = [p \in q..(n + 1) |-> h[p]]
    OBVIOUS
  <2>9. h = [p \in q..(n + 1) |-> Reading(text, h, p)]
    <3> HIDE DEF h
    <3> QED BY <2>7, <2>8
  <2>10. Back(k + 1, h)
    <3> HIDE DEF h
    <3> QED BY <2>3, <2>9
  <2> HIDE DEF h
  <2> QED BY <2>10
<1> DEFINE T == {k \in Nat : Good(k)}
<1> HIDE DEF Good
<1>5. 0 \in T /\ \A k \in Nat : k \in T => k + 1 \in T
  BY <1>3, <1>4
<1>6. Nat \subseteq T
  <2> HIDE DEF T
  <2> QED BY <1>5, SetInduction
<1>7. \E g : Back(n, g)
  <2>1. Good(n) /\ n <= n
    BY <1>2, <1>6
  <2> QED BY <2>1 DEF Good
<1>8. \E g : IsReadingRun(text, g)
  <2>1. PICK g : Back(n, g)
    BY <1>7
  <2>2. n + 1 - n = 1
    BY <1>2
  <2>3. g = [p \in 1..(Len(text) + 1) |-> Reading(text, g, p)]
    BY <1>1, <2>1, <2>2
  <2> QED BY <2>3 DEF IsReadingRun
<1>9. BlocksOf(text) = ReadingRun(text)[1]
  BY Zenon DEF BlocksOf, ReadingRun, IsReadingRun, Reading
<1> QED BY <1>8, <1>9, Zenon DEF ReadingRun

\* What the reference finds from a line start on.
From(text, p) == ReadingRun(text)[p]

\* Nothing at the end of the text, and elsewhere what one line's reading says.
LEMMA FromIs ==
  ASSUME NEW text \in Seq(Byte), NEW p \in 1..(Len(text) + 1)
  PROVE  From(text, p) = Reading(text, ReadingRun(text), p)
<1>1. PICK g : g = ReadingRun(text)
  OBVIOUS
<1>2. IsReadingRun(text, g)
  BY <1>1, ReadingExists
<1>3. g[p] = Reading(text, g, p)
  BY <1>2 DEF IsReadingRun
<1> QED BY <1>1, <1>3 DEF From

\* Nothing is found past the end of the text.
LEMMA FromEnd ==
  ASSUME NEW text \in Seq(Byte)
  PROVE  From(text, Len(text) + 1) = {}
<1>1. Len(text) + 1 \in 1..(Len(text) + 1) /\ Len(text) + 1 > Len(text)
  BY LenProperties
<1>2. From(text, Len(text) + 1) = Reading(text, ReadingRun(text), Len(text) + 1)
  BY <1>1, FromIs
<1> QED BY <1>1, <1>2, Zenon DEF Reading

\* A line that opens nothing is passed over.
LEMMA FromPlain ==
  ASSUME NEW text \in Seq(Byte), NEW p \in 1..Len(text), OpenersAt(text, p) = {}
  PROVE  From(text, p) = From(text, NextLine(text, p))
<1>1. p \in 1..(Len(text) + 1) /\ ~(p > Len(text))
  BY LenProperties
<1>2. From(text, p) = Reading(text, ReadingRun(text), p)
  BY <1>1, FromIs
<1> QED BY <1>1, <1>2, Zenon DEF Reading, From

\* What is read where a block opens.
LEMMA FromOpener ==
  ASSUME NEW text \in Seq(Byte), NEW p \in 1..Len(text), NEW rule, NEW from, Opens(text, p, rule, from)
  PROVE  From(text, p) =
           IF Endings(text, p, rule, from) # {}
           THEN {BlockAt(text, p, from, Min(Endings(text, p, rule, from)))}
                  \cup From(text, Min(Endings(text, p, rule, from)) + 1)
           ELSE IF Limit(p, from) >= Len(text) THEN {}
           ELSE From(text, NextLine(text, Limit(p, from) + 1))
<1>1. p \in 1..(Len(text) + 1) /\ ~(p > Len(text))
  BY LenProperties
<1>2. From(text, p) = Reading(text, ReadingRun(text), p)
  BY <1>1, FromIs
<1> QED BY <1>1, <1>2 DEF Reading, From, Opens, Endings, Limit

\* The block that ends with its first fence,
LEMMA FromClosed ==
  ASSUME NEW text \in Seq(Byte), NEW p \in 1..Len(text), NEW rule, NEW from, Opens(text, p, rule, from),
         NEW k \in from..Len(text), k <= Limit(p, from), ClosesAt(text, rule, from, k),
         \A j \in from..(k - 1) : ~ClosesAt(text, rule, from, j)
  PROVE  From(text, p) = {BlockAt(text, p, from, k)} \cup From(text, k + 1)
<1>1. PICK E : E = Endings(text, p, rule, from)
  OBVIOUS
<1>2. Len(text) \in Nat /\ from \in (p + 1)..(Len(text) + 1)
  BY LenProperties, OpensWithin
<1>3. E \subseteq from..Len(text) /\ \A j \in E : ClosesAt(text, rule, from, j)
  BY <1>1 DEF Endings
<1>4. k \in E
  BY <1>1 DEF Endings
<1>5. E \subseteq Nat
  BY <1>2, <1>3
<1>6. \A j \in E : k <= j
  <2> SUFFICES ASSUME NEW j \in E, j < k PROVE FALSE
    BY <1>2, <1>5
  <2>1. j \in from..(k - 1)
    BY <1>2, <1>3
  <2> QED BY <1>3, <2>1
<1>7. Min(E) = k
  BY <1>4, <1>5, <1>6, MinIs
<1> QED BY <1>1, <1>4, <1>7, FromOpener

\* the one that is given up, and the one the text ends in.
LEMMA FromUnclosed ==
  ASSUME NEW text \in Seq(Byte), NEW p \in 1..Len(text), NEW rule, NEW from, Opens(text, p, rule, from),
         \A j \in from..Len(text) : j <= Limit(p, from) => ~ClosesAt(text, rule, from, j)
  PROVE  /\ Limit(p, from) >= Len(text) => From(text, p) = {}
         /\ ~(Limit(p, from) >= Len(text)) => From(text, p) = From(text, NextLine(text, Limit(p, from) + 1))
<1>1. Endings(text, p, rule, from) = {}
  BY DEF Endings
<1> QED BY <1>1, FromOpener

-----------------------------------------------------------------------------
\* The items the detector releases, and the place of the blocks among them.

Items ==
  [type : {"passthrough"}, bytes : Seq(Byte)] \cup
  [type : {"semantic"}, bytes : Seq(Byte), body : Seq(Byte)]

\* They have text.
LEMMA ItemsHaveText == HasText(Items)
BY DEF HasText, Items

\* The place and body of the i-th item.
PlaceOf(items, i) ==
  [first |-> Offset(items, i) + 1, last |-> Offset(items, i) + Len(items[i].bytes),
   body |-> items[i].body]

\* The blocks found so far, and the bytes released so far, with the items of the run.
FoundWith(items) == blocks \cup Located(items)
ReleasedWith(items) == released + Len(TextOf(items))

\* A block among the items.
LEMMA LocatedIs ==
  ASSUME NEW items \in Seq(Items), NEW x
  PROVE  x \in Located(items) <=>
           \E i \in 1..Len(items) : items[i].type = "semantic" /\ x = PlaceOf(items, i)
<1>1. DOMAIN items = 1..Len(items)
  BY LenProperties
<1> QED BY <1>1 DEF Located, PlaceOf

\* It stands where the same items come before it.
LEMMA SamePlace ==
  ASSUME NEW items \in Seq(Items), NEW qs \in Seq(Items), NEW i \in 1..Len(items),
         i <= Len(qs), \A j \in 1..i : qs[j] = items[j]
  PROVE  PlaceOf(qs, i) = PlaceOf(items, i)
<1>1. PICK k : k = i - 1
  OBVIOUS
<1>2. k \in Nat /\ k \in 0..Len(items) /\ k \in 0..Len(qs) /\ k <= Len(items) /\ k <= Len(qs) /\ k \in 0..k
  BY <1>1, LenProperties
<1>3. \A j \in 1..k : qs[j].bytes = items[j].bytes
  BY <1>1
<1>4. TextTo(qs, k) = TextTo(items, k)
  <2>1. \A n \in 0..k : TextTo(qs, n) = TextTo(items, n)
    BY <1>2, <1>3, ItemsHaveText, SameText
  <2> QED BY <1>2, <2>1
<1>5. TextOf(SubSeq(qs, 1, k)) = TextTo(qs, k) /\ TextOf(SubSeq(items, 1, k)) = TextTo(items, k)
  BY <1>2, ItemsHaveText, FrontText
<1>6. Offset(qs, i) = Offset(items, i)
  BY <1>1, <1>4, <1>5 DEF Offset
<1>7. qs[i] = items[i]
  OBVIOUS
<1> QED BY <1>6, <1>7 DEF PlaceOf

\* Items that differ in passthrough only have the same blocks.
LEMMA SameLocated ==
  ASSUME NEW items \in Seq(Items), NEW qs \in Seq(Items), NEW m \in Nat,
         m <= Len(items), m <= Len(qs), \A j \in 1..m : qs[j] = items[j],
         \A i \in 1..Len(items) : items[i].type = "semantic" => i <= m,
         \A i \in 1..Len(qs) : qs[i].type = "semantic" => i <= m
  PROVE  Located(qs) = Located(items)
<1>0. Len(items) \in Nat /\ Len(qs) \in Nat
  BY LenProperties
<1>1. ASSUME NEW i \in 1..m PROVE PlaceOf(qs, i) = PlaceOf(items, i) /\ qs[i] = items[i]
  <2>1. i \in 1..Len(items) /\ i <= Len(qs) /\ \A j \in 1..i : qs[j] = items[j]
    BY <1>0
  <2> QED BY <2>1, SamePlace
<1>2. ASSUME NEW x, x \in Located(qs) PROVE x \in Located(items)
  <2>1. PICK i \in 1..Len(qs) : qs[i].type = "semantic" /\ x = PlaceOf(qs, i)
    BY <1>2, LocatedIs
  <2>2. i \in 1..m /\ i \in 1..Len(items)
    BY <1>0, <2>1
  <2> QED BY <1>1, <2>1, <2>2, LocatedIs
<1>3. ASSUME NEW x, x \in Located(items) PROVE x \in Located(qs)
  <2>1. PICK i \in 1..Len(items) : items[i].type = "semantic" /\ x = PlaceOf(items, i)
    BY <1>3, LocatedIs
  <2>2. i \in 1..m /\ i \in 1..Len(qs)
    BY <1>0, <2>1
  <2> QED BY <1>1, <2>1, <2>2, LocatedIs
<1> QED BY <1>2, <1>3

\* Bytes given back are released, and no block is found in them.
LEMMA PushSays ==
  ASSUME NEW items \in Seq(Items), NEW bytes \in Seq(Byte), released \in Nat
  PROVE  /\ PushPassthrough(items, bytes) \in Seq(Items)
         /\ ReleasedWith(PushPassthrough(items, bytes)) = ReleasedWith(items) + Len(bytes)
         /\ FoundWith(PushPassthrough(items, bytes)) = FoundWith(items)
<1>1. PICK l, qs : l = Len(items) /\ qs = PushPassthrough(items, bytes)
  OBVIOUS
<1>2. l \in Nat
  BY <1>1, LenProperties
<1>4. \A i \in 1..l : items[i] \in Items
  BY <1>1, ElementOfSeq
<1>5. l = 0 <=> items = <<>>
  BY <1>1, EmptySeq
<1>6. qs \in Seq(Items) /\ TextOf(qs) = TextOf(items) \o bytes /\ Located(qs) = Located(items)
  <2>1. CASE l # 0 /\ items[l].type = "passthrough"
    <3>1. l \in 1..l
      BY <1>2, <2>1
    <3>2. PICK t, u : t = items[l].bytes /\ u = t \o bytes
      OBVIOUS
    <3>3. items[l] = [type |-> "passthrough", bytes |-> t] /\ t \in Seq(Byte)
      <4>1. items[l] \in Items
        BY <1>4, <3>1
      <4> QED BY <2>1, <3>2, <4>1 DEF Items
    <3>4. u \in Seq(Byte)
      BY <3>2, <3>3, ConcatProperties
    <3>5. PICK y : y = [type |-> "passthrough", bytes |-> u]
      OBVIOUS
    <3>6. y \in Items /\ y.type = "passthrough" /\ y.bytes = u
      BY <3>4, <3>5 DEF Items
    <3>7. qs = [items EXCEPT ![l] = y]
      <4>1. qs = [items EXCEPT ![l].bytes = @ \o bytes]
        BY <1>1, <1>5, <2>1 DEF PushPassthrough
      <4>2. qs = [items EXCEPT ![l] = [items[l] EXCEPT !.bytes = items[l].bytes \o bytes]]
        BY <4>1
      <4>3. [items[l] EXCEPT !.bytes = items[l].bytes \o bytes] = y
        <5>1. PICK z : z = items[l]
          OBVIOUS
        <5>2. z = [type |-> "passthrough", bytes |-> t] /\ z.bytes = t
          BY <3>2, <3>3, <5>1
        <5>3. [z EXCEPT !.bytes = u] = y
          BY <3>5, <5>2
        <5> QED BY <3>2, <5>1, <5>3
      <4> QED BY <4>2, <4>3
    <3>8. qs \in Seq(Items) /\ Len(qs) = l /\ qs[l] = y /\ \A i \in 1..l : i # l => qs[i] = items[i]
      BY <1>1, <3>1, <3>6, <3>7, ExceptSeq
    <3>9. qs \in Seq(Items)
      BY <3>8
    <3>10. TextOf(qs) = TextOf(items) \o bytes
      <4>1. Len(items) # 0 /\ Len(qs) = Len(items)
        BY <1>1, <2>1, <3>8
      <4>2. \A i \in 1..Len(items) : i # Len(items) => qs[i].bytes = items[i].bytes
        BY <1>1, <3>8
      <4>3. qs[Len(items)].bytes = items[Len(items)].bytes \o bytes
        BY <1>1, <3>2, <3>6, <3>8
      <4> QED BY <3>9, <4>1, <4>2, <4>3, ItemsHaveText, LengthenedText
    <3>11. Located(qs) = Located(items)
      <4>1. PICK m : m = l - 1
        OBVIOUS
      <4>2. m \in Nat /\ m <= Len(items) /\ m <= Len(qs) /\ \A i \in 1..m : i \in 1..l /\ i # l
        BY <1>1, <1>2, <2>1, <3>8, <4>1
      <4>3. \A i \in 1..m : qs[i] = items[i]
        BY <3>8, <4>2
      <4>4. ASSUME NEW i \in 1..l, i # l PROVE i <= m
        BY <1>2, <4>1, <4>4
      <4>5. \A i \in 1..Len(items) : items[i].type = "semantic" => i <= m
        BY <1>1, <2>1, <4>4
      <4>6. \A i \in 1..Len(qs) : qs[i].type = "semantic" => i <= m
        BY <3>6, <3>8, <4>4
      <4> QED BY <3>9, <4>2, <4>3, <4>5, <4>6, SameLocated
    <3> QED BY <3>9, <3>10, <3>11
  <2>2. CASE ~(l # 0 /\ items[l].type = "passthrough")
    <3>1. PICK y : y = [type |-> "passthrough", bytes |-> bytes]
      OBVIOUS
    <3>2. y \in Items /\ y.type = "passthrough" /\ y.bytes = bytes
      BY <3>1 DEF Items
    <3>3. qs = Append(items, y)
      BY <1>1, <1>5, <2>2, <3>1 DEF PushPassthrough, Passthrough
    <3>4. qs \in Seq(Items) /\ Len(qs) = l + 1 /\ qs[l + 1] = y /\ \A i \in 1..l : qs[i] = items[i]
      BY <1>1, <3>2, <3>3, AppendProperties
    <3>5. TextOf(qs) = TextOf(items) \o bytes
      <4>1. TextOf(Append(items, y)) = TextOf(items) \o y.bytes
        BY <3>2, ItemsHaveText, AppendedText
      <4> QED BY <3>2, <3>3, <4>1
    <3>6. qs \in Seq(Items)
      BY <3>4
    <3>7. Located(qs) = Located(items)
      <4>1. l <= Len(items) /\ l <= Len(qs)
        BY <1>1, <1>2, <3>4
      <4>2. \A i \in 1..Len(items) : items[i].type = "semantic" => i <= l
        BY <1>1, <1>2
      <4>3. \A i \in 1..Len(qs) : qs[i].type = "semantic" => i <= l
        <5> SUFFICES ASSUME NEW i \in 1..(l + 1), qs[i].type = "semantic" PROVE i <= l
          BY <3>4
        <5>1. i # l + 1
          BY <3>2, <3>4
        <5> QED BY <1>2, <5>1
      <4> QED BY <1>2, <3>4, <3>6, <4>1, <4>2, <4>3, SameLocated
    <3> QED BY <3>5, <3>6, <3>7
  <2> QED BY <2>1, <2>2
<1>7. TextOf(items) \in Seq(Byte)
  BY ItemsHaveText, TextIsText
<1>8. Len(TextOf(items) \o bytes) = Len(TextOf(items)) + Len(bytes)
      /\ Len(TextOf(items)) \in Nat /\ Len(bytes) \in Nat
  <2>1. Len(TextOf(items)) \in Nat /\ Len(bytes) \in Nat
    BY <1>7, LenProperties
  <2> QED BY <1>7, <2>1, JoinIs
<1>9. ReleasedWith(qs) = ReleasedWith(items) + Len(bytes)
  <2>1. ReleasedWith(qs) = released + (Len(TextOf(items)) + Len(bytes))
    BY <1>6, <1>8 DEF ReleasedWith
  <2>2. ReleasedWith(items) = released + Len(TextOf(items))
    BY DEF ReleasedWith
  <2> QED BY <1>8, <2>1, <2>2
<1> QED BY <1>1, <1>6, <1>9 DEF FoundWith

\* A block released is found where the release has come to.
LEMMA BlockReleased ==
  ASSUME NEW items \in Seq(Items), NEW source \in Seq(Byte), NEW body \in Seq(Byte), released \in Nat
  PROVE  LET qs == Append(items, Semantic(source, body))
         IN /\ qs \in Seq(Items)
            /\ ReleasedWith(qs) = ReleasedWith(items) + Len(source)
            /\ FoundWith(qs) = FoundWith(items) \cup
                 {[first |-> ReleasedWith(items) + 1, last |-> ReleasedWith(items) + Len(source), body |-> body]}
<1>1. PICK l, y, qs : l = Len(items) /\ y = Semantic(source, body) /\ qs = Append(items, y)
  OBVIOUS
<1>2. l \in Nat
  BY <1>1, LenProperties
<1>3. y \in Items /\ y.type = "semantic" /\ y.bytes = source /\ y.body = body
  BY <1>1 DEF Items, Semantic
<1>4. qs \in Seq(Items) /\ Len(qs) = l + 1 /\ qs[l + 1] = y /\ \A i \in 1..l : qs[i] = items[i]
  BY <1>1, <1>3, AppendProperties
<1>5. qs \in Seq(Items)
  BY <1>4
<1>6. TextOf(qs) = TextOf(items) \o source
      /\ \A n \in 0..Len(items) : TextTo(qs, n) = TextTo(items, n)
  <2>1. TextOf(Append(items, y)) = TextOf(items) \o y.bytes
        /\ \A n \in 0..Len(items) : TextTo(Append(items, y), n) = TextTo(items, n)
    BY <1>3, ItemsHaveText, AppendedText
  <2> QED BY <1>1, <1>3, <2>1
<1>7. TextOf(items) \in Seq(Byte)
  BY ItemsHaveText, TextIsText
<1>8. Len(TextOf(items) \o source) = Len(TextOf(items)) + Len(source)
      /\ Len(TextOf(items)) \in Nat /\ Len(source) \in Nat
  <2>1. Len(TextOf(items)) \in Nat /\ Len(source) \in Nat
    BY <1>7, LenProperties
  <2> QED BY <1>7, <2>1, JoinIs
<1>9. ReleasedWith(items) = released + Len(TextOf(items))
  BY DEF ReleasedWith
<1>10. ReleasedWith(qs) = ReleasedWith(items) + Len(source)
  <2>1. ReleasedWith(qs) = released + (Len(TextOf(items)) + Len(source))
    BY <1>6, <1>8 DEF ReleasedWith
  <2> QED BY <1>8, <1>9, <2>1
<1>11. Offset(qs, l + 1) = ReleasedWith(items)
  <2>0. PICK i : i = l + 1
    OBVIOUS
  <2>1. PICK k : k = i - 1
    OBVIOUS
  <2>2. k = l /\ k \in 0..Len(qs) /\ k \in 0..Len(items)
    BY <1>1, <1>2, <1>4, <2>0, <2>1
  <2>3. TextOf(SubSeq(qs, 1, k)) = TextTo(qs, k)
    BY <1>5, <2>2, ItemsHaveText, FrontText
  <2>4. TextTo(qs, k) = TextTo(items, k)
    BY <1>6, <2>2
  <2>5. TextOf(items) = TextTo(items, k)
    BY <1>1, <2>2, ItemsHaveText, TextToIs
  <2>6. Offset(qs, i) = released + Len(TextOf(SubSeq(qs, 1, k)))
    BY <2>1 DEF Offset
  <2> QED BY <1>9, <2>0, <2>3, <2>4, <2>5, <2>6
<1>12. PICK b : b = PlaceOf(qs, l + 1)
  OBVIOUS
<1>13. b = [first |-> ReleasedWith(items) + 1, last |-> ReleasedWith(items) + Len(source), body |-> body]
  BY <1>3, <1>4, <1>11, <1>12 DEF PlaceOf
<1>14. ASSUME NEW i \in 1..l PROVE PlaceOf(qs, i) = PlaceOf(items, i) /\ qs[i] = items[i]
  <2>1. i \in 1..Len(items) /\ i <= Len(qs) /\ \A j \in 1..i : j \in 1..l
    BY <1>1, <1>2, <1>4
  <2>2. \A j \in 1..i : qs[j] = items[j]
    BY <1>4, <2>1
  <2> QED BY <1>4, <1>5, <2>1, <2>2, SamePlace
<1>15. ASSUME NEW x PROVE x \in Located(qs) <=> x \in Located(items) \/ x = b
  <2>1. ASSUME x \in Located(qs) PROVE x \in Located(items) \/ x = b
    <3>1. PICK i \in 1..(l + 1) : qs[i].type = "semantic" /\ x = PlaceOf(qs, i)
      BY <1>4, <1>5, <2>1, LocatedIs
    <3>2. CASE i = l + 1
      BY <1>12, <3>1, <3>2
    <3>3. CASE i # l + 1
      <4>1. i \in 1..l
        BY <1>2, <3>3
      <4>2. items[i].type = "semantic" /\ x = PlaceOf(items, i)
        BY <1>14, <3>1, <4>1
      <4> QED BY <1>1, <4>1, <4>2, LocatedIs
    <3> QED BY <3>2, <3>3
  <2>2. ASSUME x \in Located(items) PROVE x \in Located(qs)
    <3>1. PICK i \in 1..l : items[i].type = "semantic" /\ x = PlaceOf(items, i)
      BY <1>1, <2>2, LocatedIs
    <3>2. i \in 1..Len(qs) /\ qs[i].type = "semantic" /\ x = PlaceOf(qs, i)
      BY <1>2, <1>4, <1>14, <3>1
    <3> QED BY <1>5, <3>2, LocatedIs
  <2>3. b \in Located(qs)
    <3>1. l + 1 \in 1..Len(qs) /\ qs[l + 1].type = "semantic"
      BY <1>2, <1>3, <1>4
    <3> QED BY <1>5, <1>12, <3>1, LocatedIs
  <2> QED BY <2>1, <2>2, <2>3
<1>16. Located(qs) = Located(items) \cup {b}
  BY <1>15
<1>17. FoundWith(qs) = FoundWith(items) \cup {b}
  BY <1>16 DEF FoundWith
<1> QED BY <1>1, <1>5, <1>10, <1>13, <1>17

-----------------------------------------------------------------------------
\* Lines, openers and fences in a text, and in all that it may become.

\* A line, with its ending, that is the fence.
IsFenceLine(line, fence) == line \in {fence \o <<"lf">>, fence \o <<"cr", "lf">>}

\* A line is stripped to the fence exactly when it is a fence line.
LEMMA FenceLineIs ==
  ASSUME NEW fence \in Seq(Byte), Len(fence) # 0, LastOf(fence) # "cr",
         NEW line \in Seq(Byte), NEW whole, whole = line \o <<"lf">>
  PROVE  StripEol(whole) = fence <=> IsFenceLine(whole, fence)
<1>1. StripSuffix(whole, "lf") = line
  BY LineEndBytes, StripIs
<1>2. StripEol(whole) = StripSuffix(line, "cr")
  BY <1>1 DEF StripEol
<1>3. <<"cr">> \in Seq(Byte) /\ <<"lf">> \in Seq(Byte)
  BY LineEndBytes
<1>4. fence \o <<"cr", "lf">> = (fence \o <<"cr">>) \o <<"lf">>
  <2>1. <<"cr">> \o <<"lf">> = <<"cr", "lf">>
    BY LineEndBytes, PairIs
  <2>2. <<"cr">> \in Seq(Byte)
    BY <1>3
  <2>3. <<"lf">> \in Seq(Byte)
    BY <1>3
  <2>4. (fence \o <<"cr">>) \o <<"lf">> = fence \o (<<"cr">> \o <<"lf">>)
    BY <2>2, <2>3, Associates
  <2> QED BY <2>1, <2>4
<1>5. fence \o <<"cr">> \in Seq(Byte)
  BY LineEndBytes, LastJoined
<1>6. IsFenceLine(whole, fence) <=> (line = fence \/ line = fence \o <<"cr">>)
  <2>1. whole = fence \o <<"lf">> <=> line = fence
    BY LineEndBytes, LastCancels
  <2>2. whole = (fence \o <<"cr">>) \o <<"lf">> <=> line = fence \o <<"cr">>
    BY <1>5, LineEndBytes, LastCancels
  <2> QED BY <1>4, <2>1, <2>2 DEF IsFenceLine
<1>7. CASE Len(line) # 0 /\ LastOf(line) = "cr"
  <2>1. line # <<>>
    BY <1>7
  <2>2. PICK s \in Seq(Byte), c \in Byte : line = Append(s, c)
    BY <2>1, SequenceEmptyOrAppend
  <2>3. line = s \o <<c>> /\ LastOf(line) = c
    <3>1. Append(s, c) = s \o <<c>> /\ LastOf(s \o <<c>>) = c
      BY LastJoined
    <3> QED BY <2>2, <3>1
  <2>4. line = s \o <<"cr">>
    BY <1>7, <2>3
  <2>5. StripSuffix(line, "cr") = s
    BY <2>4, LineEndBytes, StripIs
  <2>6. line # fence
    BY <1>7
  <2>7. line = fence \o <<"cr">> <=> s = fence
    BY <2>4, LineEndBytes, LastCancels
  <2> QED BY <1>2, <1>6, <2>5, <2>6, <2>7
<1>8. CASE ~(Len(line) # 0 /\ LastOf(line) = "cr")
  <2>1. StripSuffix(line, "cr") = line
    BY <1>8, LineEndBytes, StripIs
  <2>2. line # fence \o <<"cr">>
    <3>1. fence \o <<"cr">> # <<>> /\ LastOf(fence \o <<"cr">>) = "cr"
      BY LineEndBytes, LastJoined
    <3>2. Len(fence \o <<"cr">>) # 0
      BY <1>5, <3>1, EmptySeq
    <3> QED BY <1>8, <3>1, <3>2
  <2> QED BY <1>2, <1>6, <2>1, <2>2
<1> QED BY <1>7, <1>8

\* A part of a text.
LEMMA PartIs ==
  ASSUME NEW text \in Seq(Byte), NEW a \in Nat, NEW b \in Nat, 1 <= a, a <= b + 1, b <= Len(text)
  PROVE  /\ SubSeq(text, a, b) \in Seq(Byte)
         /\ Len(SubSeq(text, a, b)) = b + 1 - a
         /\ \A i \in 1..(b + 1 - a) : SubSeq(text, a, b)[i] = text[a + i - 1]
<1>1. Len(text) \in Nat
  BY LenProperties
<1>2. \A i \in a..b : text[i] \in Byte
  <2> TAKE i \in a..b
  <2>1. i \in 1..Len(text)
    BY <1>1
  <2> QED BY <2>1, ElementOfSeq
<1>3. PICK c, m : c = SubSeq(text, a, b) /\ m = b - a + 1
  OBVIOUS
<1>4. /\ c \in Seq(Byte) /\ Len(c) = (IF a <= b THEN b - a + 1 ELSE 0)
      /\ \A i \in 1..(b - a + 1) : c[i] = text[a + i - 1]
  BY <1>2, <1>3, SubSeqProperties
<1>5. m = b + 1 - a /\ Len(c) = m
  BY <1>3, <1>4
<1> QED BY <1>3, <1>4, <1>5

\* Parts that agree place by place are equal.
LEMMA SamePart ==
  ASSUME NEW text \in Seq(Byte), NEW a \in Nat, NEW b \in Nat, 1 <= a, a <= b + 1, b <= Len(text),
         NEW c \in Seq(Byte), Len(c) = b + 1 - a, \A i \in a..b : text[i] = c[i + 1 - a]
  PROVE  SubSeq(text, a, b) = c
<1>1. PICK d : d = SubSeq(text, a, b)
  OBVIOUS
<1>2. d \in Seq(Byte) /\ Len(d) = b + 1 - a /\ \A i \in 1..(b + 1 - a) : d[i] = text[a + i - 1]
  BY <1>1, PartIs
<1>3. ASSUME NEW i \in 1..Len(d) PROVE d[i] = c[i]
  <2>1. PICK j : j = a + i - 1
    OBVIOUS
  <2>2. j \in a..b /\ j + 1 - a = i
    BY <1>2, <2>1
  <2>3. text[j] = c[j + 1 - a]
    BY <2>2
  <2> QED BY <1>2, <2>1, <2>2, <2>3
<1> QED BY <1>1, <1>2, <1>3, SeqEqual

\* One byte more.
LEMMA OneMore ==
  ASSUME NEW t \in Seq(Byte), NEW b \in Byte
  PROVE  /\ t \o <<b>> \in Seq(Byte) /\ t \o <<b>> = Append(t, b)
         /\ Len(t \o <<b>>) = Len(t) + 1
         /\ (t \o <<b>>)[Len(t) + 1] = b
         /\ \A i \in 1..Len(t) : (t \o <<b>>)[i] = t[i]
<1>1. PICK u : u = t \o <<b>>
  OBVIOUS
<1>2. u = Append(t, b)
  BY <1>1, LastJoined
<1>3. u \in Seq(Byte) /\ Len(u) = Len(t) + 1 /\ u[Len(t) + 1] = b /\ \A i \in 1..Len(t) : u[i] = t[i]
  BY <1>2, AppendProperties
<1> QED BY <1>1, <1>2, <1>3

\* The part that ends in it.
LEMMA LongerPart ==
  ASSUME NEW t \in Seq(Byte), NEW b \in Byte, NEW a \in Nat, 1 <= a, a <= Len(t) + 1
  PROVE  SubSeq(t \o <<b>>, a, Len(t) + 1) = Append(SubSeq(t, a, Len(t)), b)
<1>1. PICK u, n, c : u = t \o <<b>> /\ n = Len(t) /\ c = SubSeq(t, a, Len(t))
  OBVIOUS
<1>2. n \in Nat /\ u \in Seq(Byte) /\ Len(u) = n + 1 /\ u[n + 1] = b /\ \A i \in 1..n : u[i] = t[i]
  BY <1>1, LenProperties, OneMore
<1>3. c \in Seq(Byte) /\ Len(c) = n + 1 - a /\ \A i \in 1..(n + 1 - a) : c[i] = t[a + i - 1]
  <2>1. n \in Nat /\ a <= n + 1 /\ n <= Len(t)
    BY <1>1, <1>2
  <2> QED BY <1>1, <2>1, PartIs
<1>4. PICK d, m : d = Append(c, b) /\ m = n + 1
  OBVIOUS
<1>5. d \in Seq(Byte) /\ Len(d) = Len(c) + 1 /\ d[Len(c) + 1] = b /\ \A i \in 1..Len(c) : d[i] = c[i]
  BY <1>3, <1>4, AppendProperties
<1>6. ASSUME NEW i \in a..m PROVE u[i] = d[i + 1 - a]
  <2>1. PICK j : j = i + 1 - a
    OBVIOUS
  <2>2. CASE i = m
    <3>1. j = Len(c) + 1
      BY <1>1, <1>2, <1>3, <1>4, <2>1, <2>2
    <3> QED BY <1>2, <1>4, <1>5, <2>1, <2>2, <3>1
  <2>3. CASE i # m
    <3>1. j \in 1..Len(c) /\ i \in 1..n /\ j \in 1..(n + 1 - a) /\ a + j - 1 = i
      BY <1>1, <1>2, <1>3, <1>4, <2>1, <2>3
    <3>2. d[j] = t[a + j - 1]
      BY <1>3, <1>5, <3>1
    <3> QED BY <1>2, <2>1, <3>1, <3>2
  <2> QED BY <2>2, <2>3
<1>7. m \in Nat /\ a <= m + 1 /\ m <= Len(u) /\ Len(d) = m + 1 - a
  BY <1>1, <1>2, <1>3, <1>4, <1>5
<1>8. SubSeq(u, a, m) = d
  BY <1>2, <1>5, <1>6, <1>7, SamePart
<1> QED BY <1>1, <1>4, <1>8

\* All that a text may become.
Future(t) == {T \in Seq(Byte) : Len(t) <= Len(T) /\ \A i \in 1..Len(t) : T[i] = t[i]}

\* It is one of them,
LEMMA FutureSelf == ASSUME NEW t \in Seq(Byte) PROVE t \in Future(t)
<1>1. Len(t) \in Nat
  BY LenProperties
<1> QED BY <1>1 DEF Future

\* and with a byte more there are fewer left.
LEMMA FutureNarrows ==
  ASSUME NEW t \in Seq(Byte), NEW b \in Byte, NEW T \in Future(t \o <<b>>)
  PROVE  T \in Future(t) /\ T \in Seq(Byte) /\ Len(t) + 1 <= Len(T) /\ T[Len(t) + 1] = b
<1>1. PICK u, n : u = t \o <<b>> /\ n = Len(t)
  OBVIOUS
<1>2. n \in Nat /\ u \in Seq(Byte) /\ Len(u) = n + 1 /\ u[n + 1] = b /\ \A i \in 1..n : u[i] = t[i]
  BY <1>1, LenProperties, OneMore
<1>3. T \in Seq(Byte) /\ Len(u) <= Len(T) /\ \A i \in 1..Len(u) : T[i] = u[i]
  BY <1>1 DEF Future
<1>4. Len(T) \in Nat
  BY <1>3, LenProperties
<1>5. \A i \in 1..n : T[i] = t[i]
  <2> TAKE i \in 1..n
  <2>1. i \in 1..Len(u)
    BY <1>2
  <2> QED BY <1>2, <1>3, <2>1
<1>6. n + 1 \in 1..Len(u) /\ n <= Len(T)
  BY <1>2, <1>3, <1>4
<1> QED BY <1>1, <1>2, <1>3, <1>5, <1>6 DEF Future

\* A part of the text read is the same part of what it becomes.
LEMMA FuturePart ==
  ASSUME NEW t \in Seq(Byte), NEW T \in Future(t), NEW a \in Nat, NEW b \in Nat,
         1 <= a, a <= b + 1, b <= Len(t)
  PROVE  SubSeq(T, a, b) = SubSeq(t, a, b)
<1>1. T \in Seq(Byte) /\ Len(t) <= Len(T) /\ \A i \in 1..Len(t) : T[i] = t[i]
  BY DEF Future
<1>2. Len(t) \in Nat /\ Len(T) \in Nat
  BY <1>1, LenProperties
<1>3. PICK c : c = SubSeq(t, a, b)
  OBVIOUS
<1>4. c \in Seq(Byte) /\ Len(c) = b + 1 - a /\ \A i \in 1..(b + 1 - a) : c[i] = t[a + i - 1]
  BY <1>3, PartIs
<1>5. ASSUME NEW i \in a..b PROVE T[i] = c[i + 1 - a]
  <2>1. PICK j : j = i + 1 - a
    OBVIOUS
  <2>2. j \in 1..(b + 1 - a) /\ a + j - 1 = i /\ i \in 1..Len(t)
    BY <1>2, <2>1
  <2>3. c[j] = t[a + j - 1]
    BY <1>4, <2>2
  <2> QED BY <1>1, <2>1, <2>2, <2>3
<1>6. b <= Len(T)
  BY <1>1, <1>2
<1> QED BY <1>1, <1>3, <1>4, <1>5, <1>6, SamePart

\* Where a line begins.
LEMMA LineFromIs ==
  ASSUME NEW T \in Seq(Byte), NEW from \in Nat, 1 <= from, NEW k \in from..Len(T), NEW ls \in from..k,
         ls = from \/ T[ls - 1] = "lf", \A i \in ls..(k - 1) : T[i] # "lf"
  PROVE  LineFrom(T, from, k) = ls
<1>1. PICK S : S = {from} \cup {j + 1 : j \in {i \in LineEnds(T, from) : i < k}}
  OBVIOUS
<1>2. PICK n : n = Len(T)
  OBVIOUS
<1>3. n \in Nat /\ k \in Nat /\ ls \in Nat
  BY <1>2, LenProperties
<1>4. \A x : x \in S <=> x = from \/ \E j \in from..n : T[j] = "lf" /\ j < k /\ x = j + 1
  BY <1>1, <1>2 DEF LineEnds
<1>5. ls \in S
  <2>1. CASE ls = from
    BY <1>4, <2>1
  <2>2. CASE ls # from
    <3>1. ls - 1 \in from..n /\ ls - 1 < k /\ ls = (ls - 1) + 1
      BY <1>2, <1>3, <2>2
    <3> QED BY <1>4, <2>2, <3>1
  <2> QED BY <2>1, <2>2
<1>6. S \subseteq Nat
  BY <1>3, <1>4
<1>7. ASSUME NEW x \in S PROVE x <= ls
  <2>1. CASE x = from
    BY <1>3, <2>1
  <2>2. CASE x # from
    <3>1. PICK j \in from..n : T[j] = "lf" /\ j < k /\ x = j + 1
      BY <1>4, <2>2
    <3>2. ~(j \in ls..(k - 1))
      BY <3>1
    <3> QED BY <1>3, <3>1, <3>2
  <2> QED BY <2>1, <2>2
<1>8. Max(S) = ls
  BY <1>5, <1>6, <1>7, MaxIs
<1> QED BY <1>1, <1>8 DEF LineFrom

\* The line read so far, with one byte more: it is the fence only if the byte ends it.
LEMMA ClosesIs ==
  ASSUME NEW T \in Seq(Byte), NEW from \in Nat, 1 <= from, NEW k \in from..Len(T), NEW ls \in from..k,
         ls = from \/ T[ls - 1] = "lf", \A i \in ls..(k - 1) : T[i] # "lf",
         NEW rule \in Openers
  PROVE  /\ T[k] = "lf" => (ClosesAt(T, rule, from, k) <=> StripEol(SubSeq(T, ls, k)) = rule.closing)
         /\ T[k] # "lf" => ~ClosesAt(T, rule, from, k)
<1>1. PICK n, line, fence : n = Len(T) /\ line = SubSeq(T, ls, k) /\ fence = rule.closing
  OBVIOUS
<1>2. n \in Nat /\ k \in Nat /\ ls \in Nat /\ 1 <= ls /\ ls <= k + 1 /\ k <= n
  BY <1>1, LenProperties
<1>3. /\ line \in Seq(Byte) /\ Len(line) = k + 1 - ls
      /\ \A i \in 1..(k + 1 - ls) : line[i] = T[ls + i - 1]
  BY <1>1, <1>2, PartIs
<1>4. line # <<>> /\ LastOf(line) = T[k]
  <2>1. PICK j : j = k + 1 - ls
    OBVIOUS
  <2>2. j \in 1..(k + 1 - ls) /\ ls + j - 1 = k
    BY <1>2, <2>1
  <2>3. line[j] = T[ls + j - 1]
    BY <1>3, <2>2
  <2>4. Len(line) # 0
    BY <1>2, <1>3
  <2> QED BY <1>3, <2>1, <2>2, <2>3, <2>4, EmptySeq DEF LastOf
<1>5. ClosesAt(T, rule, from, k) <=> IsFenceLine(line, fence)
  <2>1. LineFrom(T, from, k) = ls
    BY LineFromIs
  <2> QED BY <1>1, <2>1 DEF ClosesAt, IsFenceLine
<1>6. /\ fence \in Seq(Byte) /\ Len(fence) # 0 /\ LastOf(fence) # "cr"
  <2>1. fence \in Seq(Byte) /\ fence # <<>> /\ LastOf(fence) # "cr"
    BY <1>1, OpenersAssumption DEF LastOf
  <2> QED BY <2>1, EmptySeq
<1>7. PICK s \in Seq(Byte), c \in Byte : line = Append(s, c)
  BY <1>3, <1>4, SequenceEmptyOrAppend
<1>8. line = s \o <<c>> /\ LastOf(line) = c
  <2>1. Append(s, c) = s \o <<c>> /\ LastOf(s \o <<c>>) = c
    BY LastJoined
  <2> QED BY <1>7, <2>1
<1>9. c = T[k]
  BY <1>4, <1>8
<1>10. CASE c = "lf"
  <2>1. line = s \o <<"lf">>
    BY <1>8, <1>10
  <2>2. StripEol(line) = fence <=> IsFenceLine(line, fence)
    BY <1>6, <2>1, FenceLineIs
  <2> QED BY <1>1, <1>5, <1>9, <1>10, <2>2
<1>11. CASE c # "lf"
  <2>1. <<"cr">> \in Seq(Byte) /\ <<"lf">> \in Seq(Byte)
    BY LineEndBytes
  <2>2. fence \o <<"lf">> # line
    <3>1. LastOf(fence \o <<"lf">>) = "lf"
      BY <1>6, LineEndBytes, LastJoined
    <3> QED BY <1>8, <1>11, <3>1
  <2>3. fence \o <<"cr", "lf">> # line
    <3>1. <<"cr">> \o <<"lf">> = <<"cr", "lf">>
      BY LineEndBytes, PairIs
    <3>2. <<"cr">> \in Seq(Byte)
      BY <2>1
    <3>3. <<"lf">> \in Seq(Byte)
      BY <2>1
    <3>4. (fence \o <<"cr">>) \o <<"lf">> = fence \o (<<"cr">> \o <<"lf">>)
      BY <1>6, <3>2, <3>3, Associates
    <3>5. fence \o <<"cr">> \in Seq(Byte)
      BY <1>6, LineEndBytes, LastJoined
    <3>6. LastOf((fence \o <<"cr">>) \o <<"lf">>) = "lf"
      BY <3>5, LineEndBytes, LastJoined
    <3> QED BY <1>8, <1>11, <3>1, <3>4, <3>6
  <2> QED BY <1>5, <1>9, <1>11, <2>2, <2>3 DEF IsFenceLine
<1> QED BY <1>10, <1>11

\* The openers that are found at a place are those that are there to their line end.
LEMMA OpenersAtIs ==
  ASSUME NEW T \in Seq(Byte), NEW p \in Nat, 1 <= p, NEW c \in Seq(Byte), ExactOpeners(c) # {},
         p + Len(c) - 1 <= Len(T), SubSeq(T, p, p + Len(c) - 1) = c
  PROVE  OpenersAt(T, p) = ExactOpeners(c)
<1>1. PICK n, l : n = Len(T) /\ l = Len(c)
  OBVIOUS
<1>2. PICK own \in Openers : own.pattern = c
  BY DEF ExactOpeners
<1>3. /\ c # <<>> /\ DOMAIN c = 1..l /\ l \in Nat /\ l # 0 /\ n \in Nat
      /\ \A i \in 1..l : c[i] = "lf" <=> i = l
  <2>1. c # <<>> /\ \A i \in DOMAIN c : c[i] = "lf" <=> i = Len(c)
    BY <1>2, OpenersAssumption
  <2>2. DOMAIN c = 1..l /\ l \in Nat /\ n \in Nat
    BY <1>1, LenProperties
  <2> QED BY <1>1, <2>1, <2>2, EmptySeq
<1>0. l \in Nat /\ l # 0 /\ n \in Nat
  BY <1>3
<1>4. \A i \in 1..l : c[i] = T[p + i - 1]
  <2>1. PICK e : e = p + Len(c) - 1
    OBVIOUS
  <2>2. e \in Nat /\ p <= e + 1 /\ e <= Len(T) /\ e + 1 - p = l /\ SubSeq(T, p, e) = c
    <3>1. SubSeq(T, p, e) = c
      BY <2>1
    <3>2. e <= Len(T)
      BY <2>1
    <3>3. e = p + l - 1
      BY <1>1, <2>1
    <3> QED BY <1>0, <3>1, <3>2, <3>3
  <2>3. \A i \in 1..(e + 1 - p) : SubSeq(T, p, e)[i] = T[p + i - 1]
    BY <2>2, PartIs
  <2> QED BY <2>2, <2>3
<1>5. ASSUME NEW rule \in Openers, p + Len(rule.pattern) - 1 <= n,
             SubSeq(T, p, p + Len(rule.pattern) - 1) = rule.pattern
      PROVE  rule.pattern = c
  <2>1. PICK d, m : d = rule.pattern /\ m = Len(rule.pattern)
    OBVIOUS
  <2>2. d \in Seq(Byte) /\ d # <<>> /\ \A i \in DOMAIN d : d[i] = "lf" <=> i = Len(d)
    BY <2>1, OpenersAssumption
  <2>3. DOMAIN d = 1..m /\ m \in Nat /\ m # 0 /\ m = Len(d)
    BY <2>1, <2>2, LenProperties, EmptySeq
  <2>0. m \in Nat /\ m # 0
    BY <2>3
  <2>4. \A i \in 1..m : d[i] = T[p + i - 1]
    <3>1. PICK e : e = p + m - 1
      OBVIOUS
    <3>2. e \in Nat /\ p <= e + 1 /\ e <= Len(T) /\ e + 1 - p = m /\ SubSeq(T, p, e) = d
      BY <1>1, <1>5, <2>1, <2>3, <3>1
    <3>3. \A i \in 1..(e + 1 - p) : SubSeq(T, p, e)[i] = T[p + i - 1]
      BY <3>2, PartIs
    <3> QED BY <3>2, <3>3
  <2>5. m = l
    <3>1. CASE m < l
      <4>1. m \in 1..l /\ m \in 1..m
        BY <1>0, <2>0, <3>1
      <4>2. d[m] = c[m] /\ d[m] = "lf"
        BY <1>4, <2>2, <2>3, <2>4, <4>1
      <4> QED BY <1>3, <4>1, <4>2
    <3>2. CASE l < m
      <4>1. l \in 1..l /\ l \in 1..m /\ l # m
        BY <1>0, <2>0, <3>2
      <4>2. d[l] = c[l] /\ c[l] = "lf"
        BY <1>3, <1>4, <2>4, <4>1
      <4> QED BY <2>2, <2>3, <4>1, <4>2
    <3> QED BY <1>0, <2>0, <3>1, <3>2
  <2> QED BY <1>1, <1>5, <2>1, <2>5
<1>6. \A rule \in Openers : rule.pattern = c <=>
        /\ p + Len(rule.pattern) - 1 <= Len(T)
        /\ SubSeq(T, p, p + Len(rule.pattern) - 1) = rule.pattern
  BY <1>1, <1>5
<1> QED BY <1>6 DEF OpenersAt, ExactOpeners

-----------------------------------------------------------------------------
\* What a detector has made of the text fed to it: of the text t it holds the
\* detector state d, R bytes are released and B are the blocks found. The reading
\* of whatever t becomes is B and what it finds from some place of t on.

Settled(t, p, B) == \A T \in Future(t) : From(T, 1) = B \cup From(T, p)

\* From place a on there is one line, without its end.
WithinLine(t, a) == \A i \in a..Len(t) : t[i] # "lf"

\* It holds the beginning of a line, which may be that of an opener.
AtLine(t, d, R, B) ==
  \E p \in 1..(Len(t) + 1) :
    /\ d = LineStart(SubSeq(t, p, Len(t)))
    /\ R = p - 1
    /\ Settled(t, p, B)
    /\ WithinLine(t, p)
    /\ p = Len(t) + 1 \/ \E rule \in Openers : Len(t) + 1 - p <= Len(rule.pattern)

\* It is on a line that opens nothing.
OnPassedLine(t, d, R, B) ==
  /\ d = PassthroughLine
  /\ R = Len(t)
  /\ \A T \in Future(t) : From(T, 1) = B \cup From(T, NextLine(T, Len(t) + 1))

\* The rule has opened a block at p, its body begins at from and the line at l.
OpenBlock(t, p, from, l, rule) ==
  /\ p \in 1..Len(t) /\ from \in (p + 1)..(Len(t) + 1) /\ l \in from..(Len(t) + 1)
  /\ rule \in Openers /\ from = p + Len(rule.pattern)
  /\ l = from \/ t[l - 1] = "lf"
  /\ WithinLine(t, l)
  /\ Len(t) + 1 - p <= MaxBlock \/ Len(t) + 1 = from
  /\ \A T \in Future(t) : Opens(T, p, rule, from) /\ \A k \in from..Len(t) : ~ClosesAt(T, rule, from, k)

\* What it holds of that block.
BlockOf(t, p, from, l, rule) ==
  Block(rule.closing, SubSeq(t, p, Len(t)), SubSeq(t, from, l - 1), SubSeq(t, l, Len(t)))

\* It is in a block that is not closed.
InBlock(t, d, R, B) ==
  \E p, from, l, rule :
    /\ OpenBlock(t, p, from, l, rule)
    /\ d = BlockOf(t, p, from, l, rule)
    /\ R = p - 1
    /\ Settled(t, p, B)

Says(t, d, R, B) == AtLine(t, d, R, B) \/ OnPassedLine(t, d, R, B) \/ InBlock(t, d, R, B)

\* The same after one byte more, with the items of the run.
StepSays(t, b, r) ==
  /\ r.items \in Seq(Items)
  /\ Says(t \o <<b>>, r.detector, ReleasedWith(r.items), FoundWith(r.items))

\* The next line is the same from anywhere in a line.
LEMMA NextLineSkips ==
  ASSUME NEW T \in Seq(Byte), NEW a \in Nat, NEW k \in Nat, a <= k, k <= Len(T) + 1,
         \A i \in a..(k - 1) : T[i] # "lf"
  PROVE  NextLine(T, a) = NextLine(T, k)
<1>1. PICK n : n = Len(T)
  OBVIOUS
<1>2. n \in Nat
  BY <1>1, LenProperties
<1>3. ASSUME NEW i PROVE i \in a..n /\ T[i] = "lf" <=> i \in k..n /\ T[i] = "lf"
  <2>1. i \in a..n /\ ~(i \in k..n) => i \in a..(k - 1)
    BY <1>1, <1>2
  <2>2. i \in k..n => i \in a..n
    BY <1>1, <1>2
  <2> QED BY <2>1, <2>2
<1>4. LineEnds(T, a) = LineEnds(T, k)
  BY <1>1, <1>3 DEF LineEnds
<1> QED BY <1>4 DEF NextLine

\* Nothing is held at the end of the text.
LEMMA NothingAfter ==
  ASSUME NEW t \in Seq(Byte)
  PROVE  SubSeq(t, Len(t) + 1, Len(t)) = <<>>
<1>1. PICK n, a : n = Len(t) /\ a = n + 1
  OBVIOUS
<1>2. n \in Int /\ a \in Int /\ n < a
  BY <1>1, LenProperties
<1>3. SubSeq(t, a, n) = <<>>
  BY <1>2, SubSeqEmpty
<1> QED BY <1>1, <1>3

\* What is settled stays so.
LEMMA SettledOn ==
  ASSUME NEW t \in Seq(Byte), NEW b \in Byte, NEW p, NEW B, Settled(t, p, B)
  PROVE  Settled(t \o <<b>>, p, B)
BY FutureNarrows DEF Settled

\* A line passed over: it goes on, or a new line starts.
LEMMA LineOver ==
  ASSUME NEW t \in Seq(Byte), NEW b \in Byte, NEW B,
         \A T \in Future(t \o <<b>>) : From(T, 1) = B \cup From(T, NextLine(T, Len(t) + 1))
  PROVE  Says(t \o <<b>>, IF b = "lf" THEN LineStart(<<>>) ELSE PassthroughLine, Len(t) + 1, B)
<1>1. PICK u, n, m : u = t \o <<b>> /\ n = Len(t) /\ m = n + 1
  OBVIOUS
<1>2. n \in Nat /\ m \in Nat /\ u \in Seq(Byte) /\ Len(u) = m /\ u[m] = b
  BY <1>1, LenProperties, OneMore
<1>3. ASSUME NEW T \in Future(u)
      PROVE  /\ b = "lf" => NextLine(T, m) = m + 1
             /\ b # "lf" => NextLine(T, m) = NextLine(T, m + 1)
  <2>1. T \in Seq(Byte) /\ m <= Len(T) /\ T[m] = b
    BY <1>1, FutureNarrows
  <2>2. Len(T) \in Nat
    BY <2>1, LenProperties
  <2>3. CASE b = "lf"
    <3>1. m \in 1..(Len(T) + 1) /\ m \in m..Len(T) /\ \A i \in m..(m - 1) : T[i] # "lf"
      BY <1>1, <1>2, <2>1, <2>2
    <3> QED BY <2>1, <2>3, <3>1, NextLineIs
  <2>4. CASE b # "lf"
    <3>1. m <= m + 1 /\ m + 1 <= Len(T) + 1 /\ m + 1 \in Nat /\ \A i \in m..(m + 1 - 1) : i = m
      BY <1>2, <2>1, <2>2
    <3> QED BY <1>2, <2>1, <2>4, <3>1, NextLineSkips
  <2> QED BY <2>3, <2>4
<1>4. \A T \in Future(u) : From(T, 1) = B \cup From(T, NextLine(T, m))
  BY <1>1
<1>5. CASE b = "lf"
  <2>1. Settled(u, m + 1, B)
    BY <1>3, <1>4, <1>5 DEF Settled
  <2>2. PICK p : p = m + 1
    OBVIOUS
  <2>3. p \in 1..(Len(u) + 1) /\ p = Len(u) + 1 /\ WithinLine(u, p) /\ m = p - 1
    BY <1>2, <2>2 DEF WithinLine
  <2>4. SubSeq(u, p, Len(u)) = <<>>
    BY <1>2, <2>3, NothingAfter
  <2>5. AtLine(u, LineStart(<<>>), m, B)
    BY <2>1, <2>2, <2>3, <2>4 DEF AtLine
  <2> QED BY <1>1, <1>5, <2>5 DEF Says
<1>6. CASE b # "lf"
  <2>1. \A T \in Future(u) : From(T, 1) = B \cup From(T, NextLine(T, m + 1))
    BY <1>3, <1>4, <1>6
  <2>2. OnPassedLine(u, PassthroughLine, m, B)
    BY <1>2, <2>1 DEF OnPassedLine
  <2> QED BY <1>1, <1>6, <2>2 DEF Says
<1> QED BY <1>5, <1>6

\* What is given back reaches the end of the text, on a line passed over.
LEMMA AbandonSays ==
  ASSUME NEW t \in Seq(Byte), NEW b \in Byte, NEW items \in Seq(Items), released \in Nat,
         NEW bytes \in Seq(Byte), bytes[Len(bytes)] = b,
         ReleasedWith(items) + Len(bytes) = Len(t) + 1,
         \A T \in Future(t \o <<b>>) : From(T, 1) = FoundWith(items) \cup From(T, NextLine(T, Len(t) + 1))
  PROVE  StepSays(t, b, Abandon(items, bytes))
<1>1. PICK r, qs : r = Abandon(items, bytes) /\ qs = PushPassthrough(items, bytes)
  OBVIOUS
<1>2. r.items = qs /\ r.detector = IF b = "lf" THEN LineStart(<<>>) ELSE PassthroughLine
  BY <1>1 DEF Abandon, Detected
<1>3. qs \in Seq(Items) /\ ReleasedWith(qs) = Len(t) + 1 /\ FoundWith(qs) = FoundWith(items)
  BY <1>1, PushSays
<1>4. Says(t \o <<b>>, IF b = "lf" THEN LineStart(<<>>) ELSE PassthroughLine, Len(t) + 1, FoundWith(items))
  BY LineOver
<1> QED BY <1>1, <1>2, <1>3, <1>4 DEF StepSays

\* A byte of a line that opens nothing.
LEMMA PassedLineSays ==
  ASSUME NEW t \in Seq(Byte), NEW b \in Byte, NEW items \in Seq(Items), released \in Nat, NEW d,
         OnPassedLine(t, d, ReleasedWith(items), FoundWith(items))
  PROVE  StepSays(t, b, Abandon(items, <<b>>))
<1>1. <<b>> \in Seq(Byte) /\ Len(<<b>>) = 1 /\ <<b>>[1] = b
  OBVIOUS
<1>2. <<b>> \in Seq(Byte)
  BY <1>1
<1>3. ReleasedWith(items) + Len(<<b>>) = Len(t) + 1 /\ <<b>>[Len(<<b>>)] = b
  BY <1>1 DEF OnPassedLine
<1>4. \A T \in Future(t \o <<b>>) : From(T, 1) = FoundWith(items) \cup From(T, NextLine(T, Len(t) + 1))
  BY FutureNarrows DEF OnPassedLine
<1> QED BY <1>2, <1>3, <1>4, AbandonSays

\* Where the line cannot become an opener there is none.
LEMMA NoOpener ==
  ASSUME NEW t \in Seq(Byte), NEW b \in Byte, NEW p \in 1..(Len(t) + 1), WithinLine(t, p),
         NEW T \in Future(t \o <<b>>), NEW c, c = SubSeq(t \o <<b>>, p, Len(t) + 1),
         ExactOpeners(c) = {}, ~OpenerPrefix(c)
  PROVE  OpenersAt(T, p) = {}
<1>1. PICK u, n, m : u = t \o <<b>> /\ n = Len(t) /\ m = n + 1
  OBVIOUS
<1>2. n \in Nat /\ m \in Nat /\ u \in Seq(Byte) /\ Len(u) = m /\ \A i \in 1..n : u[i] = t[i]
  BY <1>1, LenProperties, OneMore
<1>3. T \in Seq(Byte) /\ m <= Len(T) /\ \A i \in 1..m : T[i] = u[i]
  BY <1>1, <1>2 DEF Future
<1>4. Len(T) \in Nat /\ p \in Nat /\ 1 <= p /\ p <= m
  BY <1>1, <1>2, <1>3, LenProperties
<1>5. c = SubSeq(T, p, m)
  <2>1. SubSeq(T, p, m) = SubSeq(u, p, m)
    <3>1. T \in Future(u) /\ p <= m + 1 /\ m <= Len(u)
      BY <1>1, <1>2, <1>4
    <3>2. u \in Seq(Byte) /\ p \in Nat /\ m \in Nat /\ 1 <= p
      BY <1>2, <1>4
    <3> QED BY <3>1, <3>2, FuturePart
  <2>2. c = SubSeq(u, p, m)
    BY <1>1
  <2> QED BY <2>1, <2>2
<1>6. Len(c) = m + 1 - p /\ c \in Seq(Byte) /\ \A i \in 1..(m + 1 - p) : c[i] = T[p + i - 1]
  <2>1. p <= m + 1 /\ m <= Len(T)
    BY <1>2, <1>3, <1>4
  <2>2. /\ SubSeq(T, p, m) \in Seq(Byte) /\ Len(SubSeq(T, p, m)) = m + 1 - p
        /\ \A i \in 1..(m + 1 - p) : SubSeq(T, p, m)[i] = T[p + i - 1]
    <3>1. T \in Seq(Byte) /\ m \in Nat /\ p \in Nat /\ 1 <= p
      BY <1>2, <1>3, <1>4
    <3> QED BY <2>1, <3>1, PartIs
  <2> QED BY <1>5, <2>2
<1> SUFFICES ASSUME NEW rule \in Openers, p + Len(rule.pattern) - 1 <= Len(T),
                    SubSeq(T, p, p + Len(rule.pattern) - 1) = rule.pattern
             PROVE  FALSE
  BY DEF OpenersAt
<1>7. PICK d, k : d = rule.pattern /\ k = Len(rule.pattern)
  OBVIOUS
<1>8. d \in Seq(Byte) /\ d # <<>> /\ \A i \in DOMAIN d : d[i] = "lf" <=> i = Len(d)
  BY <1>7, OpenersAssumption
<1>9. DOMAIN d = 1..k /\ k = Len(d)
  BY <1>7, <1>8, LenProperties
<1>10. k \in Nat /\ k # 0
  BY <1>8, <1>9, LenProperties, EmptySeq
<1>11. \A i \in 1..k : d[i] = T[p + i - 1]
  <2>1. PICK e : e = p + Len(rule.pattern) - 1
    OBVIOUS
  <2>2. SubSeq(T, p, e) = d /\ e <= Len(T) /\ e = p + k - 1
    BY <1>7, <2>1
  <2>3. e \in Nat /\ p <= e + 1 /\ e + 1 - p = k
    BY <1>4, <1>10, <2>2
  <2>4. \A i \in 1..(e + 1 - p) : SubSeq(T, p, e)[i] = T[p + i - 1]
    BY <1>3, <1>4, <2>2, <2>3, PartIs
  <2> QED BY <2>2, <2>3, <2>4
<1>12. d[k] = "lf"
  <2>1. k \in 1..k
    BY <1>10
  <2> QED BY <1>8, <1>9, <2>1
<1>13. PICK l : l = Len(c)
  OBVIOUS
<1>14. l \in Nat /\ l = m + 1 - p /\ l # 0
  BY <1>2, <1>4, <1>6, <1>13
<1>15. CASE k < l
  <2>1. PICK j : j = p + k - 1
    OBVIOUS
  <2>2. j \in p..n /\ j \in 1..n /\ j \in 1..m /\ k \in 1..k
    BY <1>1, <1>2, <1>4, <1>10, <1>14, <1>15, <2>1
  <2>3. T[j] = d[k] /\ T[j] = t[j]
    BY <1>2, <1>3, <1>11, <2>1, <2>2
  <2>4. t[j] # "lf"
    BY <1>1, <2>2 DEF WithinLine
  <2> QED BY <1>12, <2>3, <2>4
<1>16. CASE k = l
  <2>1. \A i \in 1..k : d[i] = c[i]
    BY <1>6, <1>11, <1>14, <1>16
  <2>2. d = c
    BY <1>6, <1>8, <1>9, <1>13, <1>16, <2>1, SeqEqual
  <2> QED BY <1>7, <2>2 DEF ExactOpeners
<1>17. CASE l < k
  <2>0. PICK a : a = 1
    OBVIOUS
  <2>1. l \in Nat /\ a \in Nat /\ 1 <= a /\ a <= l + 1 /\ l <= Len(d) /\ Len(c) = l + 1 - a
    BY <1>9, <1>10, <1>13, <1>14, <1>17, <2>0
  <2>2. \A i \in a..l : d[i] = c[i + 1 - a]
    <3> TAKE i \in a..l
    <3>1. i \in 1..k /\ i \in 1..(m + 1 - p) /\ i + 1 - a = i
      BY <1>10, <1>14, <1>17, <2>0
    <3> QED BY <1>6, <1>11, <3>1
  <2>3. c \in Seq(Byte) /\ d \in Seq(Byte)
    BY <1>6, <1>8
  <2>4. SubSeq(d, a, l) = c
    BY <2>1, <2>2, <2>3, SamePart
  <2>5. Len(c) <= Len(rule.pattern) /\ SubSeq(rule.pattern, 1, Len(c)) = c
    BY <1>7, <1>9, <1>13, <2>0, <2>1, <2>4
  <2> QED BY <2>5 DEF OpenerPrefix
<1> QED BY <1>10, <1>14, <1>15, <1>16, <1>17

\* A byte at the start of a line: it opens a block, may yet do so, or cannot.
LEMMA LineStartSays ==
  ASSUME NEW t \in Seq(Byte), NEW b \in Byte, NEW items \in Seq(Items), released \in Nat, NEW d,
         AtLine(t, d, ReleasedWith(items), FoundWith(items))
  PROVE  StepSays(t, b, FeedLineStart(d, items, b))
<1>1. PICK u, n, m, B : u = t \o <<b>> /\ n = Len(t) /\ m = n + 1 /\ B = FoundWith(items)
  OBVIOUS
<1>2. n \in Nat /\ m \in Nat /\ u \in Seq(Byte) /\ Len(u) = m /\ u[m] = b /\ \A i \in 1..n : u[i] = t[i]
  BY <1>1, LenProperties, OneMore
<1>3. PICK p \in 1..m :
        /\ d = LineStart(SubSeq(t, p, n))
        /\ ReleasedWith(items) = p - 1
        /\ Settled(t, p, B)
        /\ WithinLine(t, p)
  BY <1>1 DEF AtLine
<1>4. p \in Nat /\ 1 <= p /\ p <= m /\ p <= m + 1
  BY <1>2
<1>5. PICK c, l : c = SubSeq(u, p, m) /\ l = m + 1 - p
  OBVIOUS
<1>6. c \in Seq(Byte) /\ Len(c) = l /\ \A i \in 1..l : c[i] = u[p + i - 1]
  <2>1. m <= Len(u)
    BY <1>2
  <2>2. SubSeq(u, p, m) \in Seq(Byte) /\ Len(SubSeq(u, p, m)) = m + 1 - p
        /\ \A i \in 1..(m + 1 - p) : SubSeq(u, p, m)[i] = u[p + i - 1]
    BY <1>2, <1>4, <2>1, PartIs
  <2> QED BY <1>5, <2>2
<1>7. l \in Nat /\ l # 0 /\ p + l - 1 = m
  BY <1>2, <1>4, <1>5
<1>8. c[l] = b
  <2>1. l \in 1..l
    BY <1>7
  <2>2. c[l] = u[p + l - 1]
    BY <1>6, <2>1
  <2> QED BY <1>2, <1>7, <2>2
<1>9. Append(d.source, b) = c
  <2>1. SubSeq(t \o <<b>>, p, Len(t) + 1) = Append(SubSeq(t, p, Len(t)), b)
    BY <1>1, <1>4, LongerPart
  <2>2. d.source = SubSeq(t, p, n)
    BY <1>3 DEF LineStart
  <2> QED BY <1>1, <1>5, <2>1, <2>2
<1>10. Settled(u, p, B)
  BY <1>1, <1>3, SettledOn
<1>11. ASSUME NEW T \in Future(u)
       PROVE  T \in Future(t) /\ T \in Seq(Byte) /\ m <= Len(T) /\ Len(T) \in Nat /\ SubSeq(T, p, m) = c
  <2>1. T \in Future(t) /\ T \in Seq(Byte) /\ m <= Len(T)
    BY <1>1, FutureNarrows
  <2>2. m <= Len(u)
    BY <1>2
  <2>3. SubSeq(T, p, m) = SubSeq(u, p, m)
    BY <1>2, <1>4, <2>2, FuturePart
  <2> QED BY <1>5, <2>1, <2>3, LenProperties
<1>12. CASE ExactOpeners(c) # {}
  <2>1. PICK rule : rule = CHOOSE r \in ExactOpeners(c) : TRUE
    OBVIOUS
  <2>2. rule \in ExactOpeners(c)
    BY <1>12, <2>1
  <2>3. rule \in Openers /\ rule.pattern = c
    BY <2>2 DEF ExactOpeners
  <2>4. PICK from : from = m + 1
    OBVIOUS
  <2>5. /\ p \in 1..Len(u) /\ from \in (p + 1)..(Len(u) + 1) /\ from \in from..(Len(u) + 1)
        /\ from = p + Len(rule.pattern) /\ Len(u) + 1 = from
    BY <1>2, <1>4, <1>5, <1>6, <2>3, <2>4
  <2>6. WithinLine(u, from)
    BY <1>2, <2>4 DEF WithinLine
  <2>7. ASSUME NEW T \in Future(u)
        PROVE  Opens(T, p, rule, from) /\ \A k \in from..Len(u) : ~ClosesAt(T, rule, from, k)
    <3>1. p + Len(c) - 1 <= Len(T) /\ T \in Seq(Byte)
      BY <1>6, <1>7, <1>11
    <3>2. SubSeq(T, p, p + Len(c) - 1) = c
      <4>1. PICK e : e = p + Len(c) - 1
        OBVIOUS
      <4>2. e = m
        BY <1>6, <1>7, <4>1
      <4> QED BY <1>11, <4>1, <4>2
    <3>3. OpenersAt(T, p) = ExactOpeners(c)
      BY <1>4, <1>6, <1>12, <3>1, <3>2, OpenersAtIs
    <3>4. \A k \in from..Len(u) : FALSE
      BY <1>2, <2>4
    <3> QED BY <1>12, <2>1, <2>5, <3>3, <3>4 DEF Opens
  <2>8. OpenBlock(u, p, from, from, rule)
    BY <2>3, <2>5, <2>6, <2>7 DEF OpenBlock
  <2>9. BlockOf(u, p, from, from, rule) = Block(rule.closing, c, <<>>, <<>>)
    <3>1. SubSeq(u, from, Len(u)) = <<>>
      BY <1>2, <2>4, NothingAfter
    <3>2. from - 1 = Len(u)
      BY <1>2, <2>4
    <3>3. SubSeq(u, p, Len(u)) = c
      BY <1>2, <1>5
    <3> QED BY <3>1, <3>2, <3>3 DEF BlockOf
  <2>10. InBlock(u, Block(rule.closing, c, <<>>, <<>>), ReleasedWith(items), B)
    BY <1>3, <1>10, <2>8, <2>9 DEF InBlock
  <2>11. PICK r : r = FeedLineStart(d, items, b)
    OBVIOUS
  <2>12. r.items = items /\ r.detector = Block(rule.closing, c, <<>>, <<>>)
    BY <1>9, <1>12, <2>1, <2>11 DEF FeedLineStart, Detected
  <2> QED BY <1>1, <2>10, <2>11, <2>12 DEF StepSays, Says
<1>13. CASE ExactOpeners(c) = {} /\ OpenerPrefix(c)
  <2>1. PICK rule \in Openers : Len(c) <= Len(rule.pattern) /\ SubSeq(rule.pattern, 1, Len(c)) = c
    BY <1>13 DEF OpenerPrefix
  <2>2. PICK q, k : q = rule.pattern /\ k = Len(rule.pattern)
    OBVIOUS
  <2>3. q \in Seq(Byte) /\ q # <<>> /\ \A i \in DOMAIN q : q[i] = "lf" <=> i = Len(q)
    BY <2>2, OpenersAssumption
  <2>4. DOMAIN q = 1..k /\ k = Len(q)
    BY <2>2, <2>3, LenProperties
  <2>5. k \in Nat /\ l <= k
    BY <1>6, <2>1, <2>2, <2>3, <2>4, LenProperties
  <2>6. l # k
    <3> SUFFICES ASSUME l = k PROVE FALSE
      OBVIOUS
    <3>1. SubSeq(q, 1, Len(q)) = q
      BY <2>3, SubSeqFull
    <3>2. SubSeq(q, 1, Len(q)) = c
      BY <1>6, <2>1, <2>2, <2>4
    <3> QED BY <1>13, <2>2, <3>1, <3>2 DEF ExactOpeners
  <2>7. b # "lf"
    <3>1. PICK a : a = 1
      OBVIOUS
    <3>2. a \in Nat /\ 1 <= a /\ a <= l + 1 /\ l <= Len(q) /\ SubSeq(q, a, l) = c
      BY <1>6, <1>7, <2>1, <2>2, <2>4, <2>5, <3>1
    <3>3. \A i \in 1..(l + 1 - a) : SubSeq(q, a, l)[i] = q[a + i - 1]
      <4>1. q \in Seq(Byte)
        BY <2>3
      <4> QED BY <1>7, <3>2, <4>1, PartIs
    <3>4. l \in 1..(l + 1 - a) /\ a + l - 1 = l
      BY <1>7, <3>1
    <3>5. c[l] = q[l]
      BY <3>2, <3>3, <3>4
    <3>6. l \in DOMAIN q /\ l # Len(q)
      <4>1. l \in 1..k
        BY <1>7, <2>5
      <4> QED BY <2>4, <2>6, <4>1
    <3> QED BY <1>8, <2>3, <3>5, <3>6
  <2>8. WithinLine(u, p)
    <3> SUFFICES ASSUME NEW i \in p..m PROVE u[i] # "lf"
      BY <1>2 DEF WithinLine
    <3>1. CASE i = m
      BY <1>2, <2>7, <3>1
    <3>2. CASE i # m
      <4>1. i \in 1..n /\ i \in p..n
        BY <1>1, <1>2, <1>4, <3>2
      <4> QED BY <1>1, <1>2, <1>3, <4>1 DEF WithinLine
    <3> QED BY <3>1, <3>2
  <2>9. p \in 1..(Len(u) + 1) /\ Len(u) + 1 - p <= Len(rule.pattern)
    BY <1>2, <1>4, <1>5, <2>2, <2>5
  <2>10. AtLine(u, LineStart(SubSeq(u, p, Len(u))), ReleasedWith(items), B)
    BY <1>3, <1>10, <2>1, <2>8, <2>9 DEF AtLine
  <2>11. AtLine(u, LineStart(c), ReleasedWith(items), B)
    BY <1>2, <1>5, <2>10
  <2>12. PICK r : r = FeedLineStart(d, items, b)
    OBVIOUS
  <2>13. r.items = items /\ r.detector = LineStart(c)
    BY <1>9, <1>13, <2>12 DEF FeedLineStart, Detected
  <2> QED BY <1>1, <2>11, <2>12, <2>13 DEF StepSays, Says
<1>14. CASE ExactOpeners(c) = {} /\ ~OpenerPrefix(c)
  <2>1. FeedLineStart(d, items, b) = Abandon(items, c)
    BY <1>9, <1>14 DEF FeedLineStart
  <2>2. ASSUME NEW T \in Future(u) PROVE From(T, 1) = B \cup From(T, NextLine(T, m))
    <3>1. OpenersAt(T, p) = {}
      <4>1. c = SubSeq(t \o <<b>>, p, Len(t) + 1)
        BY <1>1, <1>5
      <4>2. p \in 1..(Len(t) + 1) /\ WithinLine(t, p) /\ T \in Future(t \o <<b>>)
        BY <1>1, <1>3
      <4> QED BY <1>14, <4>1, <4>2, NoOpener
    <3>2. p \in 1..Len(T)
      BY <1>2, <1>4, <1>11
    <3>3. From(T, p) = From(T, NextLine(T, p))
      BY <1>11, <3>1, <3>2, FromPlain
    <3>4. \A i \in p..(m - 1) : T[i] # "lf"
      <4> TAKE i \in p..(m - 1)
      <4>1. i \in 1..Len(t) /\ i \in p..Len(t)
        BY <1>1, <1>2, <1>4
      <4>2. T[i] = t[i]
        BY <1>11, <4>1 DEF Future
      <4> QED BY <1>3, <4>1, <4>2 DEF WithinLine
    <3>5. NextLine(T, p) = NextLine(T, m)
      <4>1. m <= Len(T) + 1
        BY <1>2, <1>11
      <4> QED BY <1>2, <1>4, <1>11, <3>4, <4>1, NextLineSkips
    <3>6. From(T, 1) = B \cup From(T, p)
      BY <1>10 DEF Settled
    <3> QED BY <3>3, <3>5, <3>6
  <2>3. c[Len(c)] = b /\ ReleasedWith(items) + Len(c) = Len(t) + 1
    BY <1>1, <1>2, <1>3, <1>4, <1>5, <1>6, <1>8
  <2>4. \A T \in Future(t \o <<b>>) : From(T, 1) = FoundWith(items) \cup From(T, NextLine(T, Len(t) + 1))
    BY <1>1, <2>2
  <2>5. StepSays(t, b, Abandon(items, c))
    BY <1>6, <2>3, <2>4, AbandonSays
  <2> QED BY <2>1, <2>5
<1> QED BY <1>12, <1>13, <1>14

\* A byte in a block: the block outgrows its bound, is closed, or goes on.
LEMMA BlockSays ==
  ASSUME NEW t \in Seq(Byte), NEW b \in Byte, NEW items \in Seq(Items), released \in Nat, NEW d,
         InBlock(t, d, ReleasedWith(items), FoundWith(items))
  PROVE  StepSays(t, b, FeedBlock(d, items, b))
<1>1. PICK u, n, m, B : u = t \o <<b>> /\ n = Len(t) /\ m = n + 1 /\ B = FoundWith(items)
  OBVIOUS
<1>2. n \in Nat /\ m \in Nat /\ u \in Seq(Byte) /\ Len(u) = m /\ u[m] = b /\ \A i \in 1..n : u[i] = t[i]
  BY <1>1, LenProperties, OneMore
<1>3. PICK p, from, ls, rule :
        /\ OpenBlock(t, p, from, ls, rule)
        /\ d = BlockOf(t, p, from, ls, rule)
        /\ ReleasedWith(items) = p - 1
        /\ Settled(t, p, B)
  BY <1>1 DEF InBlock
<1>4. /\ p \in 1..n /\ from \in (p + 1)..m /\ ls \in from..m
      /\ rule \in Openers /\ from = p + Len(rule.pattern)
      /\ ls = from \/ t[ls - 1] = "lf"
      /\ WithinLine(t, ls)
      /\ m - p <= MaxBlock \/ m = from
      /\ \A T \in Future(t) : Opens(T, p, rule, from) /\ \A k \in from..n : ~ClosesAt(T, rule, from, k)
  BY <1>1, <1>3 DEF OpenBlock
<1>5. /\ p \in Nat /\ 1 <= p /\ p <= n /\ from \in Nat /\ p < from /\ from <= m
      /\ ls \in Nat /\ from <= ls /\ ls <= m
  BY <1>2, <1>4
<1>6. PICK whole, line, body : /\ whole = SubSeq(u, p, m) /\ line = SubSeq(u, ls, m)
                               /\ body = SubSeq(t, from, ls - 1)
  OBVIOUS
<1>7. whole \in Seq(Byte) /\ Len(whole) = m + 1 - p /\ whole[Len(whole)] = b
  <2>1. m <= Len(u) /\ p <= m + 1
    BY <1>1, <1>2, <1>5
  <2>2. /\ SubSeq(u, p, m) \in Seq(Byte) /\ Len(SubSeq(u, p, m)) = m + 1 - p
        /\ \A i \in 1..(m + 1 - p) : SubSeq(u, p, m)[i] = u[p + i - 1]
    BY <1>2, <1>5, <2>1, PartIs
  <2>3. PICK k : k = m + 1 - p
    OBVIOUS
  <2>4. k \in 1..(m + 1 - p) /\ p + k - 1 = m
    BY <1>1, <1>2, <1>5, <2>3
  <2>5. SubSeq(u, p, m)[k] = u[p + k - 1]
    BY <2>2, <2>4
  <2>6. whole[k] = b
    BY <1>2, <1>6, <2>4, <2>5
  <2> QED BY <1>6, <2>2, <2>3, <2>6
<1>8. /\ Append(d.source, b) = whole /\ Append(d.line, b) = line
      /\ d.body = body /\ d.closing = rule.closing
  <2>1. d = Block(rule.closing, SubSeq(t, p, n), SubSeq(t, from, ls - 1), SubSeq(t, ls, n))
    BY <1>1, <1>3 DEF BlockOf
  <2>2. /\ d.source = SubSeq(t, p, n) /\ d.line = SubSeq(t, ls, n)
        /\ d.body = SubSeq(t, from, ls - 1) /\ d.closing = rule.closing
    BY <2>1 DEF Block
  <2>3. p <= Len(t) + 1 /\ ls <= Len(t) + 1 /\ 1 <= ls
    BY <1>1, <1>2, <1>5
  <2>4. SubSeq(t \o <<b>>, p, Len(t) + 1) = Append(SubSeq(t, p, Len(t)), b)
    BY <1>5, <2>3, LongerPart
  <2>5. SubSeq(t \o <<b>>, ls, Len(t) + 1) = Append(SubSeq(t, ls, Len(t)), b)
    BY <1>5, <2>3, LongerPart
  <2>6. SubSeq(u, p, m) = Append(SubSeq(t, p, n), b)
    BY <1>1, <2>4
  <2>7. SubSeq(u, ls, m) = Append(SubSeq(t, ls, n), b)
    BY <1>1, <2>5
  <2> QED BY <1>6, <2>2, <2>6, <2>7
<1>9. Settled(u, p, B)
  BY <1>1, <1>3, SettledOn
<1>10. ASSUME NEW T \in Future(u)
       PROVE  /\ T \in Future(t) /\ T \in Seq(Byte) /\ m <= Len(T) /\ Len(T) \in Nat /\ T[m] = b
              /\ \A i \in 1..n : T[i] = t[i]
              /\ Opens(T, p, rule, from) /\ \A k \in from..n : ~ClosesAt(T, rule, from, k)
  <2>1. T \in Future(t) /\ T \in Seq(Byte) /\ m <= Len(T) /\ T[m] = b
    BY <1>1, FutureNarrows
  <2>2. Opens(T, p, rule, from) /\ \A k \in from..n : ~ClosesAt(T, rule, from, k)
    BY <1>4, <2>1
  <2>3. \A i \in 1..n : T[i] = t[i]
    BY <1>1, <2>1 DEF Future
  <2> QED BY <2>1, <2>2, <2>3, LenProperties
<1>11. Oversize(whole) <=> m + 1 - p > MaxBlock
  BY <1>7 DEF Oversize
<1>12. PICK lim : lim = Limit(p, from)
  OBVIOUS
<1>13. /\ lim = p + MaxBlock - 1 \/ lim = from - 1
       /\ p + MaxBlock - 1 <= lim /\ from - 1 <= lim
  BY <1>5, <1>12, LimitIs
<1>14. lim \in Nat /\ MaxBlock \in Nat
  <2>1. p # 0
    BY <1>5
  <2>2. Limit(p, from) \in Nat
    BY <1>5, <2>1, LimitIs
  <2> QED BY <1>12, <2>2, MaxBlockAssumption
<1>15. CASE Oversize(whole)
  <2>1. lim = n
    BY <1>1, <1>2, <1>4, <1>5, <1>11, <1>13, <1>14, <1>15
  <2>2. ASSUME NEW T \in Future(u) PROVE From(T, 1) = B \cup From(T, NextLine(T, m))
    <3>1. p \in 1..Len(T) /\ T \in Seq(Byte) /\ Opens(T, p, rule, from)
      <4>1. T \in Seq(Byte) /\ Opens(T, p, rule, from) /\ m <= Len(T) /\ Len(T) \in Nat
        BY <1>10
      <4>2. p \in 1..Len(T)
        BY <1>1, <1>2, <1>5, <4>1
      <4> QED BY <4>1, <4>2
    <3>2. \A j \in from..Len(T) : j <= Limit(p, from) => ~ClosesAt(T, rule, from, j)
      <4> SUFFICES ASSUME NEW j \in from..Len(T), j <= n PROVE ~ClosesAt(T, rule, from, j)
        BY <1>12, <2>1
      <4>1. j \in from..n
        BY <1>2, <1>5
      <4> QED BY <1>10, <4>1
    <3>3. ~(Limit(p, from) >= Len(T)) => From(T, p) = From(T, NextLine(T, Limit(p, from) + 1))
      BY <3>1, <3>2, FromUnclosed
    <3>4. ~(Limit(p, from) >= Len(T)) /\ Limit(p, from) + 1 = m
      BY <1>1, <1>2, <1>10, <1>12, <2>1
    <3>5. From(T, p) = From(T, NextLine(T, m))
      BY <3>3, <3>4
    <3>6. From(T, 1) = B \cup From(T, p)
      BY <1>9 DEF Settled
    <3> QED BY <3>5, <3>6
  <2>3. ReleasedWith(items) + Len(whole) = Len(t) + 1
    BY <1>1, <1>2, <1>3, <1>5, <1>7
  <2>4. \A T \in Future(t \o <<b>>) : From(T, 1) = FoundWith(items) \cup From(T, NextLine(T, Len(t) + 1))
    BY <1>1, <2>2
  <2>5. StepSays(t, b, Abandon(items, whole))
    BY <1>7, <2>3, <2>4, AbandonSays
  <2>6. FeedBlock(d, items, b) = Abandon(items, whole)
    BY <1>8, <1>15 DEF FeedBlock
  <2> QED BY <2>5, <2>6
<1>16. CASE ~Oversize(whole)
  <2>1. m + 1 - p <= MaxBlock /\ m <= lim
    BY <1>2, <1>5, <1>11, <1>13, <1>14, <1>16
  <2>2. ASSUME NEW T \in Future(u)
        PROVE  /\ b = "lf" => (ClosesAt(T, rule, from, m) <=> StripEol(line) = rule.closing)
               /\ b # "lf" => ~ClosesAt(T, rule, from, m)
               /\ LineFrom(T, from, m) = ls
    <3>1. T \in Seq(Byte) /\ 1 <= from /\ m \in from..Len(T) /\ ls \in from..m
      BY <1>2, <1>5, <1>10
    <3>2. ls = from \/ T[ls - 1] = "lf"
      <4>1. CASE ls # from
        <5>1. ls - 1 \in 1..n
          BY <1>1, <1>2, <1>5, <4>1
        <5> QED BY <1>4, <1>10, <4>1, <5>1
      <4> QED BY <4>1
    <3>3. \A i \in ls..(m - 1) : T[i] # "lf"
      <4> TAKE i \in ls..(m - 1)
      <4>1. i \in 1..n /\ i \in ls..Len(t)
        BY <1>1, <1>2, <1>5
      <4> QED BY <1>4, <1>10, <4>1 DEF WithinLine
    <3>4. /\ T[m] = "lf" => (ClosesAt(T, rule, from, m) <=> StripEol(SubSeq(T, ls, m)) = rule.closing)
          /\ T[m] # "lf" => ~ClosesAt(T, rule, from, m)
      <4>1. from \in Nat /\ rule \in Openers
        BY <1>4, <1>5
      <4> QED BY <3>1, <3>2, <3>3, <4>1, ClosesIs
    <3>5. SubSeq(T, ls, m) = line
      <4>1. m <= Len(u) /\ ls <= m + 1 /\ 1 <= ls
        BY <1>2, <1>5
      <4>2. u \in Seq(Byte) /\ m \in Nat /\ ls \in Nat
        BY <1>2, <1>5
      <4>3. SubSeq(T, ls, m) = SubSeq(u, ls, m)
        BY <4>1, <4>2, FuturePart
      <4> QED BY <1>6, <4>3
    <3>6. LineFrom(T, from, m) = ls
      BY <1>5, <3>1, <3>2, <3>3, LineFromIs
    <3> QED BY <1>10, <3>4, <3>5, <3>6
  <2>3. CASE b = "lf" /\ StripEol(line) = rule.closing
    <3>1. PICK q, next, block : q = Append(items, Semantic(whole, body)) /\ next = m + 1
                           /\ block = [first |-> p, last |-> m, body |-> body]
      OBVIOUS
    <3>2. body \in Seq(Byte)
      <4>1. PICK e : e = ls - 1
        OBVIOUS
      <4>2. e \in Nat /\ from <= e + 1 /\ e <= Len(t) /\ 1 <= from
        BY <1>1, <1>2, <1>5, <4>1
      <4>3. SubSeq(t, from, e) \in Seq(Byte)
        BY <1>5, <4>2, PartIs
      <4> QED BY <1>6, <4>1, <4>3
    <3>3. q \in Seq(Items) /\ ReleasedWith(q) = m /\ FoundWith(q) = B \cup {block}
      <4>1. /\ q \in Seq(Items)
            /\ ReleasedWith(q) = ReleasedWith(items) + Len(whole)
            /\ FoundWith(q) = FoundWith(items) \cup
                 {[first |-> ReleasedWith(items) + 1, last |-> ReleasedWith(items) + Len(whole), body |-> body]}
        BY <1>7, <3>1, <3>2, BlockReleased
      <4>2. ReleasedWith(items) + Len(whole) = m /\ ReleasedWith(items) + 1 = p
        BY <1>2, <1>3, <1>5, <1>7
      <4> QED BY <1>1, <3>1, <4>1, <4>2
    <3>4. ASSUME NEW T \in Future(u) PROVE From(T, 1) = (B \cup {block}) \cup From(T, next)
      <4>1. p \in 1..Len(T) /\ T \in Seq(Byte) /\ Opens(T, p, rule, from) /\ m \in from..Len(T)
        BY <1>1, <1>2, <1>5, <1>10
      <4>2. m <= Limit(p, from) /\ ClosesAt(T, rule, from, m)
        BY <1>12, <2>1, <2>2, <2>3
      <4>3. \A j \in from..(m - 1) : ~ClosesAt(T, rule, from, j)
        <5>1. m - 1 = n
          BY <1>1, <1>2
        <5> QED BY <1>10, <5>1
      <4>4. From(T, p) = {BlockAt(T, p, from, m)} \cup From(T, m + 1)
        BY <4>1, <4>2, <4>3, FromClosed
      <4>5. BlockAt(T, p, from, m) = block
        <5>1. PICK e : e = ls - 1
          OBVIOUS
        <5>2. e \in Nat /\ from <= e + 1 /\ e <= Len(t) /\ 1 <= from
          BY <1>1, <1>2, <1>5, <5>1
        <5>3. T \in Future(t)
          BY <1>10
        <5>4. SubSeq(T, from, e) = SubSeq(t, from, e)
          BY <1>5, <5>2, <5>3, FuturePart
        <5>5. SubSeq(T, from, ls - 1) = body
          BY <1>6, <5>1, <5>4
        <5>6. LineFrom(T, from, m) = ls
          BY <2>2
        <5> QED BY <3>1, <5>5, <5>6 DEF BlockAt
      <4>6. From(T, 1) = B \cup From(T, p)
        BY <1>9 DEF Settled
      <4> QED BY <3>1, <4>4, <4>5, <4>6
    <3>5. Settled(u, next, B \cup {block})
      BY <3>4 DEF Settled
    <3>6. /\ next \in 1..(Len(u) + 1) /\ next = Len(u) + 1 /\ WithinLine(u, next) /\ m = next - 1
      BY <1>2, <3>1 DEF WithinLine
    <3>7. SubSeq(u, next, Len(u)) = <<>>
      BY <1>2, <3>6, NothingAfter
    <3>8. AtLine(u, LineStart(<<>>), m, B \cup {block})
      BY <3>5, <3>6, <3>7 DEF AtLine
    <3>9. PICK r : r = FeedBlock(d, items, b)
      OBVIOUS
    <3>10. r.items = q /\ r.detector = LineStart(<<>>)
      BY <1>8, <1>16, <2>3, <3>1, <3>9 DEF FeedBlock, Detected
    <3> QED BY <1>1, <3>3, <3>8, <3>9, <3>10 DEF StepSays, Says
  <2>4. CASE ~(b = "lf" /\ StripEol(line) = rule.closing)
    <3>1. ASSUME NEW T \in Future(u)
          PROVE  Opens(T, p, rule, from) /\ \A k \in from..m : ~ClosesAt(T, rule, from, k)
      <4>1. ~ClosesAt(T, rule, from, m)
        BY <2>2, <2>4
      <4>2. ASSUME NEW k \in from..m PROVE ~ClosesAt(T, rule, from, k)
        <5>1. k = m \/ k \in from..n
          BY <1>1, <1>2, <1>5
        <5> QED BY <1>10, <4>1, <5>1
      <4> QED BY <1>10, <4>2
    <3>2. /\ p \in 1..Len(u) /\ from \in (p + 1)..(Len(u) + 1)
          /\ rule \in Openers /\ from = p + Len(rule.pattern)
          /\ Len(u) + 1 - p <= MaxBlock
          /\ \A T \in Future(u) : Opens(T, p, rule, from) /\ \A k \in from..Len(u) : ~ClosesAt(T, rule, from, k)
      <4>1. m = n + 1 /\ n \in Nat /\ Len(u) = m
        BY <1>1, <1>2
      <4>2. p \in 1..Len(u) /\ from \in (p + 1)..(Len(u) + 1)
        BY <1>5, <4>1
      <4>3. Len(u) + 1 - p <= MaxBlock
        BY <2>1, <4>1
      <4>4. \A T \in Future(u) : Opens(T, p, rule, from) /\ \A k \in from..Len(u) : ~ClosesAt(T, rule, from, k)
        BY <3>1, <4>1
      <4> QED BY <1>4, <4>2, <4>3, <4>4
    <3>3. PICK r : r = FeedBlock(d, items, b)
      OBVIOUS
    <3>4. whole = SubSeq(u, p, Len(u)) /\ line = SubSeq(u, ls, Len(u))
      BY <1>2, <1>6
    <3>5. CASE b = "lf"
      <4>1. PICK next : next = m + 1
        OBVIOUS
      <4>2. next \in from..(Len(u) + 1) /\ u[next - 1] = "lf" /\ WithinLine(u, next) /\ next - 1 = m
        BY <1>2, <1>5, <3>5, <4>1 DEF WithinLine
      <4>3. OpenBlock(u, p, from, next, rule)
        BY <3>2, <4>2 DEF OpenBlock
      <4>4. SubSeq(u, next, Len(u)) = <<>>
        BY <1>2, <4>1, NothingAfter
      <4>5. body \o line = SubSeq(u, from, m)
        <5>1. PICK e : e = ls - 1
          OBVIOUS
        <5>2. e \in Nat /\ from <= e + 1 /\ e <= Len(t) /\ 1 <= from /\ e <= m /\ e + 1 = ls
          BY <1>1, <1>2, <1>5, <5>1
        <5>3. u \in Future(t)
          BY <1>1, <1>2, FutureSelf, FutureNarrows
        <5>4. SubSeq(u, from, e) = SubSeq(t, from, e)
          BY <1>5, <5>2, <5>3, FuturePart
        <5>5. SubSeq(u, from, e) \o SubSeq(u, e + 1, m) = SubSeq(u, from, m)
          BY <1>2, <1>5, <5>2, ConcatAdjacentSubSeq
        <5> QED BY <1>6, <5>1, <5>2, <5>4, <5>5
      <4>6. BlockOf(u, p, from, next, rule) = Block(rule.closing, whole, body \o line, <<>>)
        BY <3>4, <4>2, <4>4, <4>5 DEF BlockOf
      <4>7. InBlock(u, Block(rule.closing, whole, body \o line, <<>>), ReleasedWith(items), B)
        BY <1>3, <1>9, <4>3, <4>6 DEF InBlock
      <4>8. r.items = items /\ r.detector = Block(rule.closing, whole, body \o line, <<>>)
        BY <1>8, <1>16, <2>4, <3>3, <3>5 DEF FeedBlock, Detected
      <4> QED BY <1>1, <3>3, <4>7, <4>8 DEF StepSays, Says
    <3>6. CASE b # "lf"
      <4>1. ls \in from..(Len(u) + 1)
        BY <1>2, <1>5
      <4>2. ls = from \/ u[ls - 1] = "lf"
        <5>1. CASE ls # from
          <6>1. ls - 1 \in 1..n
            BY <1>1, <1>2, <1>5, <5>1
          <6> QED BY <1>2, <1>4, <5>1, <6>1
        <5> QED BY <5>1
      <4>3. WithinLine(u, ls)
        <5> SUFFICES ASSUME NEW i \in ls..m PROVE u[i] # "lf"
          BY <1>2 DEF WithinLine
        <5>1. CASE i = m
          BY <1>2, <3>6, <5>1
        <5>2. CASE i # m
          <6>1. i \in 1..n /\ i \in ls..Len(t)
            BY <1>1, <1>2, <1>5, <5>2
          <6> QED BY <1>2, <1>4, <6>1 DEF WithinLine
        <5> QED BY <5>1, <5>2
      <4>4. OpenBlock(u, p, from, ls, rule)
        BY <3>2, <4>1, <4>2, <4>3 DEF OpenBlock
      <4>5. SubSeq(u, from, ls - 1) = body
        <5>1. PICK e : e = ls - 1
          OBVIOUS
        <5>2. e \in Nat /\ from <= e + 1 /\ e <= Len(t) /\ 1 <= from
          BY <1>1, <1>2, <1>5, <5>1
        <5>3. u \in Future(t)
          BY <1>1, <1>2, FutureSelf, FutureNarrows
        <5>4. SubSeq(u, from, e) = SubSeq(t, from, e)
          BY <1>5, <5>2, <5>3, FuturePart
        <5> QED BY <1>6, <5>1, <5>4
      <4>6. BlockOf(u, p, from, ls, rule) = Block(rule.closing, whole, body, line)
        BY <3>4, <4>5 DEF BlockOf
      <4>7. InBlock(u, Block(rule.closing, whole, body, line), ReleasedWith(items), B)
        BY <1>3, <1>9, <4>4, <4>6 DEF InBlock
      <4>8. r.items = items /\ r.detector = Block(rule.closing, whole, body, line)
        BY <1>8, <1>16, <3>3, <3>6 DEF FeedBlock, Detected
      <4> QED BY <1>1, <3>3, <4>7, <4>8 DEF StepSays, Says
    <3> QED BY <3>5, <3>6
  <2> QED BY <2>3, <2>4
<1> QED BY <1>15, <1>16

\* One byte, whatever the detector is in.
LEMMA ByteSays ==
  ASSUME NEW t \in Seq(Byte), NEW b \in Byte, NEW items \in Seq(Items), released \in Nat, NEW d,
         Says(t, d, ReleasedWith(items), FoundWith(items))
  PROVE  StepSays(t, b, DetectorFeedByte(d, items, b))
<1>1. CASE AtLine(t, d, ReleasedWith(items), FoundWith(items))
  <2>1. d.st = "line_start"
    BY <1>1 DEF AtLine, LineStart
  <2>2. DetectorFeedByte(d, items, b) = FeedLineStart(d, items, b)
    BY <2>1 DEF DetectorFeedByte
  <2> QED BY <1>1, <2>2, LineStartSays
<1>2. CASE OnPassedLine(t, d, ReleasedWith(items), FoundWith(items))
  <2>1. d.st = "passthrough_line"
    BY <1>2 DEF OnPassedLine, PassthroughLine
  <2>2. DetectorFeedByte(d, items, b) = Abandon(items, <<b>>)
    BY <2>1 DEF DetectorFeedByte
  <2> QED BY <1>2, <2>2, PassedLineSays
<1>3. CASE InBlock(t, d, ReleasedWith(items), FoundWith(items))
  <2>1. d.st = "block"
    BY <1>3 DEF InBlock, BlockOf, Block
  <2>2. DetectorFeedByte(d, items, b) = FeedBlock(d, items, b)
    BY <2>1 DEF DetectorFeedByte
  <2> QED BY <1>3, <2>2, BlockSays
<1> QED BY <1>1, <1>2, <1>3 DEF Says

\* No items, no release and no blocks.
LEMMA NoItems ==
  ASSUME released \in Nat
  PROVE  <<>> \in Seq(Items) /\ ReleasedWith(<<>>) = released /\ FoundWith(<<>>) = blocks
<1>1. <<>> \in Seq(Items) /\ Len(<<>>) = 0
  OBVIOUS
<1>2. <<>> \in Seq(Items)
  BY <1>1
<1>3. ReleasedWith(<<>>) = released
  BY <1>1, NoText DEF ReleasedWith
<1>4. Located(<<>>) = {}
  <2>1. \A i \in 1..Len(<<>>) : FALSE
    BY <1>1
  <2>2. \A x : x \notin Located(<<>>)
    BY <1>2, <2>1, LocatedIs
  <2> QED BY <2>2
<1>5. FoundWith(<<>>) = blocks
  BY <1>4 DEF FoundWith
<1> QED BY <1>2, <1>3, <1>5

\* A chunk fed is read byte by byte.
LEMMA FeedSays ==
  ASSUME NEW input \in Seq(Byte), fed \in Seq(Byte), released \in Nat,
         Says(fed, detector, released, blocks)
  PROVE  LET result == DetectorFeed(detector, input)
         IN /\ result.items \in Seq(Items)
            /\ Says(fed \o input, result.detector, ReleasedWith(result.items), FoundWith(result.items))
<1>1. PICK n, r, t : n = Len(input) /\ r = DetectorRun(detector, input) /\ t = fed
  OBVIOUS
<1>2. n \in Nat /\ t \in Seq(Byte)
  BY <1>1, LenProperties
<1>3. /\ DetectorFeed(detector, input) = r[n] /\ r[0] = Detected(detector, <<>>)
      /\ \A k \in Nat : k < n => r[k + 1] = DetectorStep(r[k], input[k + 1])
  BY <1>1, <1>2, DetectorRunIs
<1>4. /\ Front(input, 0) = <<>> /\ Front(input, n) = input
      /\ \A k \in Nat : k < n => /\ Front(input, k + 1) = Front(input, k) \o <<input[k + 1]>>
                                  /\ Front(input, k) \in Seq(Byte)
                                  /\ input[k + 1] \in Byte
  BY <1>1, FrontIs
<1> DEFINE Good(f, s) == /\ s.items \in Seq(Items)
                         /\ Says(t \o f, s.detector, ReleasedWith(s.items), FoundWith(s.items))
           S == {k \in Nat : k <= n => Good(Front(input, k), r[k])}
<1>5. 0 \in S
  <2>1. t \o <<>> = t
    BY <1>2, EmptyJoins
  <2>2. r[0].items = <<>> /\ r[0].detector = detector
    BY <1>3 DEF Detected
  <2>3. <<>> \in Seq(Items) /\ ReleasedWith(<<>>) = released /\ FoundWith(<<>>) = blocks
    BY NoItems
  <2>4. Says(t \o <<>>, detector, ReleasedWith(<<>>), FoundWith(<<>>))
    BY <1>1, <2>1, <2>3
  <2>5. Good(<<>>, r[0])
    BY <2>2, <2>3, <2>4
  <2> HIDE DEF Good
  <2> QED BY <1>4, <2>5
<1>6. \A k \in Nat : k \in S => k + 1 \in S
  <2> TAKE k \in Nat
  <2> SUFFICES ASSUME k + 1 <= n, Good(Front(input, k), r[k])
               PROVE  Good(Front(input, k + 1), r[k + 1])
    BY <1>2
  <2>1. k < n
    BY <1>2
  <2>2. PICK f, b, s : f = Front(input, k) /\ b = input[k + 1] /\ s = r[k]
    OBVIOUS
  <2>3. f \in Seq(Byte) /\ b \in Byte /\ Front(input, k + 1) = f \o <<b>>
    BY <1>4, <2>1, <2>2
  <2>4. r[k + 1] = DetectorFeedByte(s.detector, s.items, b)
    BY <1>3, <2>1, <2>2 DEF DetectorStep
  <2>5. s.items \in Seq(Items) /\ Says(t \o f, s.detector, ReleasedWith(s.items), FoundWith(s.items))
    BY <2>2
  <2>6. t \o f \in Seq(Byte)
    BY <1>2, <2>3, ConcatProperties
  <2>7. StepSays(t \o f, b, DetectorFeedByte(s.detector, s.items, b))
    BY <2>3, <2>5, <2>6, ByteSays
  <2>8. (t \o f) \o <<b>> = t \o (f \o <<b>>)
    <3>1. <<b>> \in Seq(Byte)
      BY <2>3
    <3> QED BY <1>2, <2>3, <3>1, Associates
  <2>9. Good(f \o <<b>>, DetectorFeedByte(s.detector, s.items, b))
    BY <2>7, <2>8 DEF StepSays
  <2> HIDE DEF Good
  <2> QED BY <2>3, <2>4, <2>9
<1>7. Nat \subseteq S
  <2> HIDE DEF S
  <2> QED BY <1>5, <1>6, SetInduction
<1>8. Good(Front(input, n), r[n])
  <2> HIDE DEF Good
  <2> QED BY <1>2, <1>7
<1> QED BY <1>1, <1>3, <1>4, <1>8

\* What is said of a text is all that is to be found in it,
LEMMA SaysAll ==
  ASSUME NEW t \in Seq(Byte), NEW d, NEW R, NEW B, Says(t, d, R, B)
  PROVE  B = BlocksOf(t)
<1>1. PICK n : n = Len(t)
  OBVIOUS
<1>2. n \in Nat /\ t \in Future(t)
  BY <1>1, LenProperties, FutureSelf
<1>3. BlocksOf(t) = From(t, 1)
  BY ReadingExists DEF From
<1>4. From(t, n + 1) = {}
  BY <1>1, FromEnd
<1>5. CASE AtLine(t, d, R, B)
  <2>1. PICK p \in 1..(n + 1) : Settled(t, p, B) /\ WithinLine(t, p)
    BY <1>1, <1>5 DEF AtLine
  <2>2. From(t, 1) = B \cup From(t, p)
    BY <1>2, <2>1 DEF Settled
  <2>3. CASE p = n + 1
    BY <1>3, <1>4, <2>2, <2>3
  <2>4. CASE p # n + 1
    <3>1. p \in 1..Len(t) /\ p \in Nat /\ p \in 1..(Len(t) + 1)
      BY <1>1, <1>2, <2>4
    <3>2. OpenersAt(t, p) = {}
      <4> SUFFICES ASSUME NEW rule \in OpenersAt(t, p) PROVE FALSE
        OBVIOUS
      <4>1. PICK q, e : q = rule.pattern /\ e = p + Len(rule.pattern) - 1
        OBVIOUS
      <4>2. rule \in Openers /\ e <= Len(t) /\ SubSeq(t, p, e) = q
        BY <4>1 DEF OpenersAt
      <4>3. q \in Seq(Byte) /\ q # <<>> /\ \A i \in DOMAIN q : q[i] = "lf" <=> i = Len(q)
        BY <4>1, <4>2, OpenersAssumption
      <4>4. PICK k : k = Len(q)
        OBVIOUS
      <4>5. k \in Nat /\ k # 0 /\ DOMAIN q = 1..k
        BY <4>3, <4>4, LenProperties, EmptySeq
      <4>6. e = p + k - 1
        BY <4>1, <4>4
      <4>7. e \in Nat /\ p <= e + 1 /\ 1 <= p /\ e + 1 - p = k
        BY <3>1, <4>5, <4>6
      <4>8. \A i \in 1..(e + 1 - p) : SubSeq(t, p, e)[i] = t[p + i - 1]
        BY <3>1, <4>2, <4>7, PartIs
      <4>9. k \in 1..k
        BY <4>5
      <4>10. q[k] = t[e] /\ q[k] = "lf"
        BY <4>2, <4>3, <4>4, <4>5, <4>6, <4>7, <4>8, <4>9
      <4>11. e \in p..Len(t)
        BY <3>1, <4>2, <4>5, <4>6
      <4> QED BY <2>1, <4>10, <4>11 DEF WithinLine
    <3>3. From(t, p) = From(t, NextLine(t, p))
      BY <3>1, <3>2, FromPlain
    <3>4. \A i \in p..Len(t) : t[i] # "lf"
      BY <2>1 DEF WithinLine
    <3>5. NextLine(t, p) = Len(t) + 1
      BY <3>1, <3>4, NextLineIs
    <3> QED BY <1>1, <1>3, <1>4, <2>2, <3>3, <3>5
  <2> QED BY <2>3, <2>4
<1>6. CASE OnPassedLine(t, d, R, B)
  <2>1. From(t, 1) = B \cup From(t, NextLine(t, n + 1))
    BY <1>1, <1>2, <1>6 DEF OnPassedLine
  <2>2. NextLine(t, n + 1) = n + 1
    <3>1. n + 1 \in 1..(Len(t) + 1) /\ \A i \in (n + 1)..Len(t) : FALSE
      BY <1>1, <1>2
    <3>2. PICK k : k = n + 1
      OBVIOUS
    <3>3. k \in 1..(Len(t) + 1) /\ (\A i \in k..Len(t) : t[i] # "lf") /\ k = Len(t) + 1
      BY <1>1, <3>1, <3>2
    <3>4. NextLine(t, k) = Len(t) + 1
      BY <3>3, NextLineIs
    <3> QED BY <3>2, <3>3, <3>4
  <2> QED BY <1>3, <1>4, <2>1, <2>2
<1>7. CASE InBlock(t, d, R, B)
  <2>1. PICK p, from, l, rule : OpenBlock(t, p, from, l, rule) /\ Settled(t, p, B)
    BY <1>7 DEF InBlock
  <2>2. /\ p \in 1..n /\ from \in (p + 1)..(n + 1)
        /\ n + 1 - p <= MaxBlock \/ n + 1 = from
        /\ Opens(t, p, rule, from) /\ \A k \in from..n : ~ClosesAt(t, rule, from, k)
    BY <1>1, <1>2, <2>1 DEF OpenBlock
  <2>3. PICK lim : lim = Limit(p, from)
    OBVIOUS
  <2>4. lim \in Nat /\ p + MaxBlock - 1 <= lim /\ from - 1 <= lim
    <3>1. p \in Nat /\ p # 0 /\ from \in Nat /\ p < from
      BY <1>2, <2>2
    <3> QED BY <2>3, <3>1, LimitIs
  <2>5. lim >= n
    BY <1>2, <2>2, <2>4, MaxBlockAssumption
  <2>6. From(t, p) = {}
    <3>1. p \in 1..Len(t) /\ \A j \in from..Len(t) : j <= Limit(p, from) => ~ClosesAt(t, rule, from, j)
      BY <1>1, <2>2
    <3>2. Limit(p, from) >= Len(t)
      BY <1>1, <2>3, <2>5
    <3> QED BY <2>2, <3>1, <3>2, FromUnclosed
  <2>7. From(t, 1) = B \cup From(t, p)
    BY <1>2, <2>1 DEF Settled
  <2> QED BY <1>3, <2>6, <2>7
<1> QED BY <1>5, <1>6, <1>7 DEF Says

\* and bounds what the detector holds.
LEMMA SaysBounded ==
  ASSUME NEW t \in Seq(Byte), NEW d, NEW R, NEW B, Says(t, d, R, B)
  PROVE  Len(d.source) <= MaxBlock \/ \E rule \in Openers : Len(d.source) <= Len(rule.pattern)
<1>1. PICK n : n = Len(t)
  OBVIOUS
<1>2. n \in Nat /\ MaxBlock \in Nat
  BY <1>1, LenProperties, MaxBlockAssumption
<1>3. ASSUME NEW p \in 1..(n + 1) PROVE Len(SubSeq(t, p, n)) = n + 1 - p
  <2>1. p \in Nat /\ 1 <= p /\ p <= n + 1 /\ n <= Len(t)
    BY <1>1, <1>2
  <2> QED BY <1>2, <2>1, PartIs
<1>4. CASE AtLine(t, d, R, B)
  <2>1. PICK p \in 1..(n + 1) :
          /\ d = LineStart(SubSeq(t, p, n))
          /\ p = n + 1 \/ \E rule \in Openers : n + 1 - p <= Len(rule.pattern)
    BY <1>1, <1>4 DEF AtLine
  <2>2. d.source = SubSeq(t, p, n)
    BY <2>1 DEF LineStart
  <2>3. Len(d.source) = n + 1 - p
    BY <1>3, <2>2
  <2> QED BY <1>2, <2>1, <2>3
<1>5. CASE OnPassedLine(t, d, R, B)
  <2>1. d.source = <<>> /\ Len(<<>>) = 0
    BY <1>5 DEF OnPassedLine, PassthroughLine
  <2> QED BY <1>2, <2>1
<1>6. CASE InBlock(t, d, R, B)
  <2>1. PICK p, from, l, rule : OpenBlock(t, p, from, l, rule) /\ d = BlockOf(t, p, from, l, rule)
    BY <1>6 DEF InBlock
  <2>2. /\ p \in 1..n /\ rule \in Openers /\ from = p + Len(rule.pattern)
        /\ n + 1 - p <= MaxBlock \/ n + 1 = from
    BY <1>1, <2>1 DEF OpenBlock
  <2>3. d.source = SubSeq(t, p, n)
    BY <1>1, <2>1 DEF BlockOf, Block
  <2>4. Len(d.source) = n + 1 - p
    BY <1>2, <1>3, <2>2, <2>3
  <2>5. CASE n + 1 = from
    <3>1. Len(rule.pattern) \in Nat
      BY <2>2, OpenersAssumption, LenProperties
    <3>2. Len(d.source) = Len(rule.pattern)
      BY <1>2, <2>2, <2>4, <2>5, <3>1
    <3> QED BY <2>2, <3>1, <3>2
  <2> QED BY <2>2, <2>4, <2>5
<1> QED BY <1>4, <1>5, <1>6 DEF Says

-----------------------------------------------------------------------------
\* The invariant.

DetectorInv ==
  /\ fed \in Seq(Byte) /\ finished \in BOOLEAN
  /\ ~finished => released \in Nat /\ Says(fed, detector, released, blocks)
  /\ finished => detector = LineStart(<<>>) /\ BlocksMatchReference

\* It holds before anything is fed.
LEMMA InitInv == Init => DetectorInv
<1> SUFFICES ASSUME Init PROVE DetectorInv
  OBVIOUS
<1>1. /\ detector = LineStart(<<>>) /\ fed = <<>> /\ released = 0 /\ blocks = {} /\ finished = FALSE
  BY DEF Init, DetectorInit
<1>2. <<>> \in Seq(Byte) /\ Len(<<>>) = 0
  OBVIOUS
<1>3. <<>> \in Seq(Byte)
  BY <1>2
<1>4. Settled(<<>>, 1, {})
  BY DEF Settled
<1>5. PICK p : p = 1
  OBVIOUS
<1>6. p \in 1..(Len(<<>>) + 1) /\ p = Len(<<>>) + 1 /\ WithinLine(<<>>, p) /\ 0 = p - 1
  BY <1>2, <1>5 DEF WithinLine
<1>7. SubSeq(<<>>, p, Len(<<>>)) = <<>>
  BY <1>3, <1>6, NothingAfter
<1>8. AtLine(<<>>, LineStart(<<>>), 0, {})
  BY <1>4, <1>5, <1>6, <1>7 DEF AtLine
<1> QED BY <1>1, <1>3, <1>8 DEF DetectorInv, Says

\* A chunk fed keeps it.
LEMMA FeedStep ==
  ASSUME DetectorInv, NEW input \in Chunks, Feed(input)
  PROVE  DetectorInv'
<1>1. input \in Seq(Byte)
  BY TextAssumption
<1>2. /\ ~finished /\ finished' = finished /\ fed' = fed \o input
  BY DEF Feed
<1>3. fed \in Seq(Byte) /\ released \in Nat /\ Says(fed, detector, released, blocks) /\ finished \in BOOLEAN
  BY <1>2 DEF DetectorInv
<1>4. PICK result : result = DetectorFeed(detector, input)
  OBVIOUS
<1>5. Says(fed \o input, result.detector, ReleasedWith(result.items), FoundWith(result.items))
      /\ result.items \in Seq(Items)
  BY <1>1, <1>3, <1>4, FeedSays
<1>6. /\ detector' = result.detector
      /\ released' = released + Len(TextOf(result.items))
      /\ blocks' = blocks \cup Located(result.items)
  BY <1>4 DEF Feed, Release
<1>7. released' = ReleasedWith(result.items) /\ blocks' = FoundWith(result.items)
  BY <1>6 DEF ReleasedWith, FoundWith
<1>8. released' \in Nat
  <2>1. TextOf(result.items) \in Seq(Byte)
    BY <1>5, ItemsHaveText, TextIsText
  <2>2. Len(TextOf(result.items)) \in Nat
    BY <2>1, LenProperties
  <2> QED BY <1>3, <1>6, <2>2
<1>9. fed \o input \in Seq(Byte)
  BY <1>1, <1>3, ConcatProperties
<1>10. Says(fed', detector', released', blocks')
  BY <1>2, <1>5, <1>6, <1>7
<1> QED BY <1>2, <1>3, <1>8, <1>9, <1>10 DEF DetectorInv

\* So does the end: what is given back then contains no block.
LEMMA FinishStep ==
  ASSUME DetectorInv, Finish
  PROVE  DetectorInv'
<1>1. ~finished /\ finished' = TRUE /\ fed' = fed
  BY DEF Finish
<1>2. fed \in Seq(Byte) /\ Says(fed, detector, released, blocks)
  BY <1>1 DEF DetectorInv
<1>3. PICK result : result = DetectorFinish(detector)
  OBVIOUS
<1>4. detector' = result.detector /\ blocks' = blocks \cup Located(result.items)
  BY <1>3 DEF Finish, Release
<1>5. /\ result.detector = LineStart(<<>>)
      /\ result.items = IF detector.source = <<>> THEN <<>> ELSE <<Passthrough(detector.source)>>
  BY <1>3 DEF DetectorFinish, Detected
<1>6. \A j \in DOMAIN result.items : result.items[j].type # "semantic"
  <2>1. CASE detector.source = <<>>
    BY <1>5, <2>1
  <2>2. CASE detector.source # <<>>
    <3>1. PICK x : x = Passthrough(detector.source)
      OBVIOUS
    <3>2. x.type = "passthrough"
      BY <3>1 DEF Passthrough
    <3>3. result.items = <<x>>
      BY <1>5, <2>2, <3>1
    <3> QED BY <3>2, <3>3
  <2> QED BY <2>1, <2>2
<1>7. Located(result.items) = {}
  BY <1>6 DEF Located
<1>8. blocks = BlocksOf(fed)
  BY <1>2, SaysAll
<1> QED BY <1>1, <1>2, <1>4, <1>5, <1>7, <1>8 DEF DetectorInv, BlocksMatchReference

\* Every step keeps it.
LEMMA NextInv == DetectorInv /\ [Next]_vars => DetectorInv'
<1> SUFFICES ASSUME DetectorInv, [Next]_vars PROVE DetectorInv'
  OBVIOUS
<1>1. CASE \E input \in Chunks : Feed(input)
  BY <1>1, FeedStep
<1>2. CASE Finish
  BY <1>2, FinishStep
<1>3. CASE UNCHANGED vars
  BY <1>3 DEF vars, DetectorInv, BlocksMatchReference
<1> QED BY <1>1, <1>2, <1>3 DEF Next

\* The invariant holds throughout.
LEMMA DetectorInvariant == Spec => []DetectorInv
<1> QED BY InitInv, NextInv, PTL DEF Spec

(* However the text is cut into chunks, and whatever the openers and the   *)
(* block bound are, the blocks the detector has released after every feed  *)
(* are those that reading the whole of the text line by line finds: none   *)
(* is missed, found twice, found elsewhere or with another body (feed,     *)
(* finish).                                                                *)
THEOREM BlocksAreThoseOfTheText == Spec => []BlocksMatchReference
<1>1. DetectorInv => BlocksMatchReference
  <2> SUFFICES ASSUME DetectorInv PROVE BlocksMatchReference
    OBVIOUS
  <2>1. CASE finished
    BY <2>1 DEF DetectorInv
  <2>2. CASE ~finished
    <3>1. fed \in Seq(Byte) /\ Says(fed, detector, released, blocks)
      BY <2>2 DEF DetectorInv
    <3> QED BY <3>1, SaysAll DEF BlocksMatchReference
  <2> QED BY <2>1, <2>2
<1> QED BY <1>1, DetectorInvariant, PTL

(* However the text is cut, what the detector holds back is within the     *)
(* block bound or no longer than some opener (max_block_bytes).            *)
THEOREM HoldsNoMoreThanABlock == Spec => []RetentionBounded
<1>1. DetectorInv => RetentionBounded
  <2> SUFFICES ASSUME DetectorInv PROVE RetentionBounded
    OBVIOUS
  <2>1. CASE finished
    <3>1. detector.source = <<>> /\ Len(<<>>) = 0
      BY <2>1 DEF DetectorInv, LineStart
    <3> QED BY <3>1, MaxBlockAssumption DEF RetentionBounded, DetectorHeld
  <2>2. CASE ~finished
    <3>1. fed \in Seq(Byte) /\ Says(fed, detector, released, blocks)
      BY <2>2 DEF DetectorInv
    <3> QED BY <3>1, SaysBounded DEF RetentionBounded, DetectorHeld
  <2> QED BY <2>1, <2>2
<1> QED BY <1>1, DetectorInvariant, PTL
==============================================================================
