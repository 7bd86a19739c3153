------------------------ MODULE DisplayPipeline_proofs ------------------------
(***************************************************************************)
(* That the display path is an exact account of the child's output, and    *)
(* what may be rendered on the way: for every set of openers, every way    *)
(* the output is cut into reads, every outcome of the renders, every       *)
(* toggle and cancellation between two reads and every I/O error, and for  *)
(* every bound on blocks, control sequences and withheld output.           *)
(*                                                                         *)
(* The parts of a call are folds over texts (GateFeed, Runs, DetectorFeed, *)
(* Emit, EmitSegments). Each gets the run of its fold, what one step adds, *)
(* and what then holds of all of it, as one predicate: Gating says what a  *)
(* gate makes of its input, RunsOf how the segments are gathered, DetSays  *)
(* what a detector makes of text, Works what a call has shown of the text  *)
(* it was given and what its detector still holds. The two things that     *)
(* only the parts together show are in Works and OnLine: a detector that   *)
(* may open a block stands at the start of a line of the display, and what *)
(* it holds contains no control. A whole call (Called, Finished) starts    *)
(* from the invariant between two calls (Between) and gives it back, and   *)
(* the text it was given is what was owed and the read.                    *)
(***************************************************************************)
EXTENDS DisplayPipeline, SequenceTheorems, WellFoundedInduction, TLAPS

-----------------------------------------------------------------------------
\* Texts of pieces.

\* A set that has 0 and the successors of its numbers has them all.
LEMMA SetInduction ==
  ASSUME NEW S, 0 \in S, \A n \in Nat : n \in S => n + 1 \in S
  PROVE  Nat \subseteq S
<1> DEFINE T == Nat \ S
           R == {ss \in Nat \X Nat : ss[1] < ss[2]}
<1> SUFFICES ASSUME T # {} PROVE FALSE
  OBVIOUS
<1>1. IsWellFoundedOn(R, Nat)
  BY NatLessThanWellFounded DEF OpToRel
<1>2. PICK m \in T : \A k \in T : ~ (<<k, m>> \in R)
  <2>1. T \subseteq Nat
    OBVIOUS
  <2> HIDE DEF T, R
  <2> QED BY <1>1, <2>1, WFMin
<1>3. m \in Nat /\ m # 0
  OBVIOUS
<1>4. m - 1 \in Nat /\ m - 1 + 1 = m
  BY <1>3
<1>5. m - 1 \in T
  BY <1>4
<1>6. <<m - 1, m>> \in R
  BY <1>3, <1>4
<1> QED BY <1>2, <1>5, <1>6

\* Pieces whose bytes are text.
HasText(S) == \A x \in S : x.bytes \in Seq(Byte)

\* The run of TextOf.
IsText(ps, g) ==
  g = [i \in 0..Len(ps) |-> IF i = 0 THEN <<>> ELSE g[i - 1] \o ps[i].bytes]

\* It is chosen as TextOf does.
TextRun(ps) == CHOOSE g : IsText(ps, g)

\* There is one over all pieces, and TextOf is its end.
LEMMA TextExists ==
  ASSUME NEW ps, Len(ps) \in Nat
  PROVE  IsText(ps, TextRun(ps)) /\ TextOf(ps) = TextRun(ps)[Len(ps)]
<1> DEFINE Good(k) ==
      \E g : g = [i \in 0..k |-> IF i = 0 THEN <<>> ELSE g[i - 1] \o ps[i].bytes]
<1>1. Good(0)
  <2> DEFINE g == [i \in 0..0 |-> <<>>]
  <2>1. g = [i \in 0..0 |-> IF i = 0 THEN <<>> ELSE g[i - 1] \o ps[i].bytes]
    OBVIOUS
  <2> HIDE DEF g
  <2> QED BY <2>1
<1>2. ASSUME NEW k \in Nat, Good(k) PROVE Good(k + 1)
  <2>1. PICK g : g = [i \in 0..k |-> IF i = 0 THEN <<>> ELSE g[i - 1] \o ps[i].bytes]
    BY <1>2
  <2>2. PICK last : last = g[k] \o ps[k + 1].bytes
    OBVIOUS
  <2> DEFINE h == [i \in 0..(k + 1) |-> IF i <= k THEN g[i] ELSE last]
  <2>3. h = [i \in 0..(k + 1) |-> IF i = 0 THEN <<>> ELSE h[i - 1] \o ps[i].bytes]
    <3>1. ASSUME NEW i \in 0..(k + 1)
          PROVE  h[i] = IF i = 0 THEN <<>> ELSE h[i - 1] \o ps[i].bytes
      <4>1. CASE i <= k
        <5>1. i \in 0..k /\ h[i] = g[i] /\ (i # 0 => i - 1 \in 0..(k + 1) /\ h[i - 1] = g[i - 1])
          BY <4>1
        <5>2. g[i] = IF i = 0 THEN <<>> ELSE g[i - 1] \o ps[i].bytes
          BY <2>1, <5>1
        <5> QED BY <5>1, <5>2
      <4>2. CASE i = k + 1
        <5>1. i # 0 /\ h[i] = last /\ i - 1 = k /\ h[k] = g[k]
          BY <4>2
        <5> QED BY <2>2, <4>2, <5>1
      <4> QED BY <4>1, <4>2
    <3> HIDE DEF h
    <3>2. h = [i \in 0..(k + 1) |-> h[i]]
      BY DEF h
    <3> QED BY <3>1, <3>2
  <2> HIDE DEF h
  <2> QED BY <2>3
<1> DEFINE T == {k \in Nat : Good(k)}
<1> HIDE DEF Good
<1>3. 0 \in T /\ \A k \in Nat : k \in T => k + 1 \in T
  BY <1>1, <1>2
<1>4. Nat \subseteq T
  <2> HIDE DEF T
  <2> QED BY <1>3, SetInduction
<1>5. Good(Len(ps))
  BY <1>4
<1>6. \E g : IsText(ps, g)
  BY <1>5 DEF Good, IsText
<1>7. TextOf(ps) = TextRun(ps)[Len(ps)]
  BY DEF TextOf, TextRun, IsText
<1> QED BY <1>6, <1>7 DEF TextRun

\* The text of the first n pieces.
TextTo(ps, n) == TextRun(ps)[n]

\* It grows by the bytes of each piece.
LEMMA TextToIs ==
  ASSUME NEW S, HasText(S), NEW ps \in Seq(S)
  PROVE  /\ TextTo(ps, 0) = <<>>
         /\ \A n \in 1..Len(ps) : TextTo(ps, n) = TextTo(ps, n - 1) \o ps[n].bytes
         /\ \A n \in 0..Len(ps) : TextTo(ps, n) \in Seq(Byte)
         /\ TextOf(ps) = TextTo(ps, Len(ps))
<1>1. Len(ps) \in Nat /\ \A n \in 1..Len(ps) : ps[n].bytes \in Seq(Byte)
  BY LenProperties, ElementOfSeq DEF HasText
<1>2. PICK g : g = TextRun(ps) /\ IsText(ps, g) /\ TextOf(ps) = g[Len(ps)]
  BY <1>1, TextExists
<1>3. g[0] = <<>> /\ \A n \in 1..Len(ps) : g[n] = g[n - 1] \o ps[n].bytes
  <2>1. PICK m : m = Len(ps)
    OBVIOUS
  <2>2. m \in Nat /\ g = [i \in 0..m |-> IF i = 0 THEN <<>> ELSE g[i - 1] \o ps[i].bytes]
    BY <1>1, <1>2, <2>1 DEF IsText
  <2>3. g[0] = <<>>
    BY <2>2
  <2>4. \A n \in 1..m : g[n] = g[n - 1] \o ps[n].bytes
    BY <2>2
  <2> QED BY <2>1, <2>3, <2>4
<1> DEFINE T == {n \in Nat : n <= Len(ps) => g[n] \in Seq(Byte)}
<1>4. 0 \in T
  <2>1. <<>> \in Seq(Byte)
    OBVIOUS
  <2> QED BY <1>3, <2>1
<1>5. \A n \in Nat : n \in T => n + 1 \in T
  <2> TAKE n \in Nat
  <2> SUFFICES ASSUME n + 1 <= Len(ps), g[n] \in Seq(Byte) PROVE g[n + 1] \in Seq(Byte)
    BY <1>1
  <2>1. n + 1 \in 1..Len(ps) /\ n + 1 - 1 = n
    BY <1>1
  <2>2. PICK a, b : a = g[n] /\ b = ps[n + 1].bytes
    OBVIOUS
  <2>3. a \o b \in Seq(Byte)
    BY <1>1, <2>1, <2>2, ConcatProperties
  <2>4. g[n + 1] = a \o b
    <3>1. PICK k : k = n + 1
      OBVIOUS
    <3>2. k \in 1..Len(ps) /\ k - 1 = n
      BY <2>1, <3>1
    <3>3. g[k] = g[k - 1] \o ps[k].bytes
      BY <1>3, <3>2
    <3> QED BY <2>2, <3>1, <3>2, <3>3
  <2> QED BY <2>3, <2>4
<1>6. Nat \subseteq T
  <2> HIDE DEF T
  <2> QED BY <1>4, <1>5, SetInduction
<1>7. \A n \in 0..Len(ps) : g[n] \in Seq(Byte)
  BY <1>1, <1>6
<1>8. g = TextRun(ps) /\ TextOf(ps) = g[Len(ps)]
  BY <1>2
<1> HIDE DEF T
<1> QED BY <1>3, <1>7, <1>8 DEF TextTo

\* The same, one step on.
LEMMA TextNext ==
  ASSUME NEW S, HasText(S), NEW ps \in Seq(S), NEW n \in Nat, n < Len(ps)
  PROVE  TextTo(ps, n + 1) = TextTo(ps, n) \o ps[n + 1].bytes
<1>1. PICK k : k = n + 1
  OBVIOUS
<1>2. k \in 1..Len(ps) /\ k - 1 = n
  BY <1>1, LenProperties
<1>3. TextTo(ps, k) = TextTo(ps, k - 1) \o ps[k].bytes
  BY <1>2, TextToIs
<1> QED BY <1>1, <1>2, <1>3

\* The text of pieces of text is text.
LEMMA TextIsText ==
  ASSUME NEW S, HasText(S), NEW ps \in Seq(S)
  PROVE  TextOf(ps) \in Seq(Byte)
<1>1. Len(ps) \in 0..Len(ps)
  BY LenProperties
<1> QED BY <1>1, TextToIs

\* The same pieces at the front have the same text.
LEMMA SameText ==
  ASSUME NEW S, HasText(S), NEW ps \in Seq(S), NEW qs \in Seq(S), NEW m \in Nat,
         m <= Len(ps), m <= Len(qs), \A n \in 1..m : qs[n].bytes = ps[n].bytes
  PROVE  \A n \in 0..m : TextTo(qs, n) = TextTo(ps, n)
<1> DEFINE T == {n \in Nat : n <= m => TextTo(qs, n) = TextTo(ps, n)}
<1>1. Len(ps) \in Nat /\ Len(qs) \in Nat
  BY LenProperties
<1>2. 0 \in T
  BY TextToIs
<1>3. \A n \in Nat : n \in T => n + 1 \in T
  <2> TAKE n \in Nat
  <2> SUFFICES ASSUME n + 1 <= m, TextTo(qs, n) = TextTo(ps, n)
               PROVE  TextTo(qs, n + 1) = TextTo(ps, n + 1)
    OBVIOUS
  <2>1. n + 1 \in 1..Len(ps) /\ n + 1 \in 1..Len(qs) /\ n + 1 \in 1..m /\ n + 1 - 1 = n
    BY <1>1
  <2>2. TextTo(ps, n + 1) = TextTo(ps, n) \o ps[n + 1].bytes
    BY <1>1, TextNext
  <2>3. TextTo(qs, n + 1) = TextTo(qs, n) \o qs[n + 1].bytes
    <3>1. n < Len(qs)
      BY <1>1
    <3> QED BY <3>1, TextNext
  <2> QED BY <2>1, <2>2, <2>3
<1>4. Nat \subseteq T
  <2> HIDE DEF T
  <2> QED BY <1>2, <1>3, SetInduction
<1> QED BY <1>4

\* No pieces, no text.
LEMMA NoText == TextOf(<<>>) = <<>>
<1>1. <<>> \in Seq({}) /\ HasText({}) /\ Len(<<>>) = 0
  BY DEF HasText
<1>2. TextOf(<<>>) = TextTo(<<>>, Len(<<>>)) /\ TextTo(<<>>, 0) = <<>>
  BY <1>1, TextToIs
<1> QED BY <1>1, <1>2

\* One piece more.
LEMMA AppendedText ==
  ASSUME NEW S, HasText(S), NEW ps \in Seq(S), NEW x \in S
  PROVE  /\ TextOf(Append(ps, x)) = TextOf(ps) \o x.bytes
         /\ \A n \in 0..Len(ps) : TextTo(Append(ps, x), n) = TextTo(ps, n)
<1>1. PICK qs, m : qs = Append(ps, x) /\ m = Len(ps)
  OBVIOUS
<1>2. /\ m \in Nat /\ qs \in Seq(S) /\ Len(qs) = m + 1 /\ qs[m + 1] = x
      /\ \A n \in 1..m : qs[n] = ps[n]
  <2>1. m \in Nat
    BY <1>1, LenProperties
  <2>2. qs \in Seq(S) /\ Len(qs) = m + 1
    BY <1>1, AppendProperties
  <2>3. qs[m + 1] = x
    BY <1>1, AppendProperties
  <2>4. \A n \in 1..m : qs[n] = ps[n]
    BY <1>1, AppendProperties
  <2> QED BY <2>1, <2>2, <2>3, <2>4
<1>3. \A n \in 0..m : TextTo(qs, n) = TextTo(ps, n)
  <2>1. m <= Len(ps) /\ m <= Len(qs)
    BY <1>1, <1>2
  <2>2. \A n \in 1..m : qs[n].bytes = ps[n].bytes
    BY <1>2
  <2> QED BY <1>2, <2>1, <2>2, SameText
<1>4. m + 1 \in 1..Len(qs) /\ m + 1 - 1 = m /\ m \in 0..m
  BY <1>2
<1>5. TextTo(qs, m + 1) = TextTo(qs, m) \o qs[m + 1].bytes
  <2>1. m < Len(qs)
    BY <1>2
  <2> QED BY <1>2, <2>1, TextNext
<1>6. TextOf(ps) = TextTo(ps, m) /\ TextOf(qs) = TextTo(qs, m + 1)
  BY <1>1, <1>2, TextToIs
<1> QED BY <1>1, <1>2, <1>3, <1>4, <1>5, <1>6

\* Concatenations may be grouped as one likes.
LEMMA Associates ==
  \A a, b, c \in Seq(Byte) : (a \o b) \o c = a \o (b \o c)
<1>1. ASSUME NEW a \in Seq(Byte), NEW b \in Seq(Byte), NEW c \in Seq(Byte)
      PROVE  (a \o b) \o c = a \o (b \o c)
  BY ConcatAssociative
<1> QED BY <1>1

\* The last piece made longer.
LEMMA LengthenedText ==
  ASSUME NEW S, HasText(S), NEW ps \in Seq(S), NEW qs \in Seq(S), NEW t \in Seq(Byte),
         Len(ps) # 0, Len(qs) = Len(ps),
         \A n \in 1..Len(ps) : n # Len(ps) => qs[n].bytes = ps[n].bytes,
         qs[Len(ps)].bytes = ps[Len(ps)].bytes \o t
  PROVE  TextOf(qs) = TextOf(ps) \o t
<1>1. PICK m, k : m = Len(ps) /\ k = m - 1
  OBVIOUS
<1>2. m \in Nat /\ k \in Nat /\ m = k + 1 /\ m \in 1..Len(ps) /\ m \in 1..Len(qs) /\ k \in 0..m
  BY <1>1, LenProperties
<1>3. TextTo(qs, k) = TextTo(ps, k)
  <2>1. k <= Len(ps) /\ k <= Len(qs)
    BY <1>1, <1>2
  <2>2. \A n \in 1..k : n \in 1..Len(ps) /\ n # Len(ps)
    BY <1>1, <1>2
  <2>3. \A n \in 1..k : qs[n].bytes = ps[n].bytes
    BY <2>2
  <2>4. \A n \in 0..k : TextTo(qs, n) = TextTo(ps, n)
    BY <1>2, <2>1, <2>3, SameText
  <2> QED BY <1>2, <2>4
<1>4. PICK a, b, c : a = TextTo(ps, k) /\ b = ps[m].bytes /\ c = qs[m].bytes
  OBVIOUS
<1>5. a \in Seq(Byte) /\ b \in Seq(Byte) /\ c = b \o t
  <2>1. k \in 0..Len(ps)
    BY <1>1, <1>2
  <2>2. a \in Seq(Byte)
    BY <1>4, <2>1, TextToIs
  <2>3. ps[m] \in S
    BY <1>2, ElementOfSeq
  <2> QED BY <1>1, <1>4, <2>2, <2>3 DEF HasText
<1>6. TextOf(ps) = a \o b
  <2>1. TextTo(ps, m) = TextTo(ps, m - 1) \o ps[m].bytes /\ TextOf(ps) = TextTo(ps, m)
    BY <1>1, <1>2, TextToIs
  <2> QED BY <1>1, <1>4, <2>1
<1>7. TextOf(qs) = a \o c
  <2>1. TextTo(qs, m) = TextTo(qs, m - 1) \o qs[m].bytes /\ TextOf(qs) = TextTo(qs, m)
    BY <1>1, <1>2, TextToIs
  <2> QED BY <1>1, <1>3, <1>4, <2>1
<1>8. (a \o b) \o t = a \o (b \o t)
  BY <1>5, Associates
<1> QED BY <1>5, <1>6, <1>7, <1>8

\* The front of a sequence of pieces, and what its text lacks.
LEMMA FrontText ==
  ASSUME NEW S, HasText(S), NEW ps \in Seq(S), NEW n \in 0..Len(ps)
  PROVE  TextOf(SubSeq(ps, 1, n)) = TextTo(ps, n)
<1>1. PICK qs : qs = SubSeq(ps, 1, n)
  OBVIOUS
<1>2. Len(ps) \in Nat /\ n \in Nat /\ n <= Len(ps) /\ \A i \in 1..Len(ps) : ps[i] \in S
  BY LenProperties, ElementOfSeq
<1>3. qs \in Seq(S) /\ Len(qs) = n /\ \A i \in 1..n : qs[i] = ps[i]
  <2>1. \A i \in 1..n : ps[i] \in S
    BY <1>2
  <2>2. /\ qs \in Seq(S) /\ Len(qs) = IF 1 <= n THEN n - 1 + 1 ELSE 0
        /\ \A i \in 1..(n - 1 + 1) : qs[i] = ps[1 + i - 1]
    BY <1>1, <1>2, <2>1, SubSeqProperties
  <2> QED BY <1>2, <2>2
<1>4. \A i \in 0..n : TextTo(qs, i) = TextTo(ps, i)
  <2>1. n <= Len(ps) /\ n <= Len(qs) /\ \A i \in 1..n : qs[i].bytes = ps[i].bytes
    BY <1>2, <1>3
  <2> QED BY <1>2, <1>3, <2>1, SameText
<1>5. TextOf(qs) = TextTo(qs, Len(qs))
  BY <1>3, TextToIs
<1> QED BY <1>1, <1>2, <1>3, <1>4, <1>5

\* A text that begins with another.
StartsWith(text, front) == \E rest \in Seq(Byte) : text = front \o rest

\* It begins with the beginning of that, too.
LEMMA StartsOn ==
  ASSUME NEW a \in Seq(Byte), NEW b \in Seq(Byte), NEW t, StartsWith(t, a \o b)
  PROVE  StartsWith(t, a)
<1>1. PICK rest \in Seq(Byte) : t = (a \o b) \o rest
  BY DEF StartsWith
<1>2. b \o rest \in Seq(Byte)
  BY ConcatProperties
<1>3. t = a \o (b \o rest)
  BY <1>1, Associates
<1> QED BY <1>2, <1>3 DEF StartsWith

\* The text of pieces begins with that of the first of them.
LEMMA TextStarts ==
  ASSUME NEW S, HasText(S), NEW ps \in Seq(S), NEW n \in 0..Len(ps)
  PROVE  StartsWith(TextOf(ps), TextTo(ps, n))
<1>1. PICK m : m = Len(ps)
  OBVIOUS
<1>2. m \in Nat
  BY <1>1, LenProperties
<1> DEFINE T == {k \in Nat : k <= m => StartsWith(TextOf(ps), TextTo(ps, m - k))}
<1>3. 0 \in T
  <2>0. m - 0 = m
    BY <1>2
  <2>1. TextOf(ps) = TextTo(ps, m) /\ TextOf(ps) \in Seq(Byte)
    <3>1. TextOf(ps) = TextTo(ps, m)
      BY <1>1, TextToIs
    <3> QED BY <3>1, TextIsText
  <2>2. TextOf(ps) = TextOf(ps) \o <<>> /\ <<>> \in Seq(Byte)
    BY <2>1, ConcatEmptySeq
  <2>3. StartsWith(TextOf(ps), TextTo(ps, m))
    BY <2>1, <2>2 DEF StartsWith
  <2> QED BY <2>0, <2>3
<1>4. \A k \in Nat : k \in T => k + 1 \in T
  <2> TAKE k \in Nat
  <2> SUFFICES ASSUME k + 1 <= m, StartsWith(TextOf(ps), TextTo(ps, m - k))
               PROVE  StartsWith(TextOf(ps), TextTo(ps, m - (k + 1)))
    BY <1>2
  <2>1. PICK j, l : j = m - k /\ l = m - (k + 1)
    OBVIOUS
  <2>2. j \in 1..Len(ps) /\ l \in 0..Len(ps) /\ j - 1 = l
    BY <1>1, <1>2, <2>1
  <2>3. PICK a, b : a = TextTo(ps, l) /\ b = ps[j].bytes
    OBVIOUS
  <2>4. a \in Seq(Byte) /\ b \in Seq(Byte)
    <3>1. ps[j] \in S
      BY <2>2, ElementOfSeq
    <3> QED BY <2>2, <2>3, <3>1, TextToIs DEF HasText
  <2>5. TextTo(ps, j) = a \o b
    BY <2>2, <2>3, TextToIs
  <2> QED BY <2>1, <2>3, <2>4, <2>5, StartsOn
<1>5. Nat \subseteq T
  <2> HIDE DEF T
  <2> QED BY <1>3, <1>4, SetInduction
<1>6. m - n \in Nat /\ m - n <= m /\ m - (m - n) = n
  BY <1>1, <1>2
<1> QED BY <1>5, <1>6

-----------------------------------------------------------------------------
\* What the gate makes of its input.

\* The fields of a gate, and how its flags hang together: a line it is not on
\* is raw to its end, and a carriage return is held on a plain line only.
GateShape(g) ==
  \E parser : \E raw, alt, pending, failed \in BOOLEAN :
    g = [raw_until_newline |-> raw, alternate_screen |-> alt,
         pending_carriage_return |-> pending, parser_fail_closed |-> failed,
         parser |-> parser]

\* It holds back a carriage return on a plain line only.
GateOK(g) ==
  /\ GateShape(g)
  /\ g.raw_until_newline \/ OnPlainLine(g)
  /\ g.pending_carriage_return => OnPlainLine(g)

\* The segments of a gate, and the bytes they carry.
Segs == [raw : BOOLEAN, byte : Byte]

\* The bytes that segments carry.
BytesOf(segs) == [i \in 1..Len(segs) |-> segs[i].byte]

\* What a gate says of a text: each byte once and in order, no unsafe control
\* as text but in a line ending, and after a raw byte text only on a new line.
CleanSegs(segs) ==
  \A i \in 1..Len(segs) : ~segs[i].raw /\ IsUnsafeControl(segs[i].byte) =>
    segs[i].byte = "cr" /\ i < Len(segs) /\ ~segs[i + 1].raw /\ segs[i + 1].byte = "lf"

\* After a raw byte, text only on a new line.
LineSegs(segs) ==
  \A i \in 1..Len(segs) : i < Len(segs) /\ segs[i].raw /\ ~segs[i + 1].raw => segs[i].byte = "lf"

\* Text at once only on a plain line.
FirstSeg(g, segs) == Len(segs) > 0 /\ ~segs[1].raw => OnPlainLine(g)

\* A line that is raw so far is not a plain line.
LastSeg(segs, h) ==
  Len(segs) > 0 /\ segs[Len(segs)].raw /\ segs[Len(segs)].byte # "lf" => ~OnPlainLine(h)

\* Nothing said leaves the line what it was.
NoSeg(g, segs, h) == Len(segs) = 0 => (OnPlainLine(h) <=> OnPlainLine(g))

\* All of it.
Gating(g, text, segs, h) ==
  /\ GateOK(h)
  /\ segs \in Seq(Segs)
  /\ GateHeld(g) \o text = BytesOf(segs) \o GateHeld(h)
  /\ CleanSegs(segs)
  /\ LineSegs(segs)
  /\ FirstSeg(g, segs)
  /\ LastSeg(segs, h)
  /\ NoSeg(g, segs, h)

\* Two sequences joined.
LEMMA JoinIs ==
  ASSUME NEW S, NEW a \in Seq(S), NEW b \in Seq(S)
  PROVE  /\ a \o b \in Seq(S)
         /\ Len(a \o b) = Len(a) + Len(b)
         /\ \A i \in 1..Len(a) : (a \o b)[i] = a[i]
         /\ \A j \in 1..Len(b) : (a \o b)[Len(a) + j] = b[j]
<1>1. PICK c, m, n : c = a \o b /\ m = Len(a) /\ n = Len(b)
  OBVIOUS
<1>2. m \in Nat /\ n \in Nat
  BY <1>1, LenProperties
<1>3. c \in Seq(S) /\ Len(c) = m + n
  BY <1>1, ConcatProperties
<1>4. \A i \in 1..(m + n) : c[i] = IF i <= m THEN a[i] ELSE b[i - m]
  BY <1>1, ConcatProperties
<1>5. \A i \in 1..m : c[i] = a[i]
  BY <1>2, <1>4
<1>6. \A j \in 1..n : c[m + j] = b[j]
  <2> TAKE j \in 1..n
  <2>1. PICK i : i = m + j
    OBVIOUS
  <2>2. i \in 1..(m + n) /\ ~(i <= m) /\ i - m = j
    BY <1>2, <2>1
  <2> QED BY <1>4, <2>1, <2>2
<1> QED BY <1>1, <1>3, <1>5, <1>6

\* What a gate holds is text.
LEMMA HeldIsText == \A g : GateHeld(g) \in Seq(Byte)
<1>1. <<>> \in Seq(Byte) /\ <<"cr">> \in Seq(Byte)
  BY DEF Byte
<1> QED BY <1>1 DEF GateHeld

\* So are the bytes of segments.
LEMMA BytesAreText ==
  ASSUME NEW segs \in Seq(Segs)
  PROVE  BytesOf(segs) \in Seq(Byte) /\ Len(BytesOf(segs)) = Len(segs)
<1>1. PICK n : n = Len(segs)
  OBVIOUS
<1>2. n \in Nat
  BY <1>1, LenProperties
<1>3. \A i \in 1..n : segs[i].byte \in Byte
  <2> TAKE i \in 1..n
  <2>1. segs[i] \in Segs
    BY <1>1, ElementOfSeq
  <2> QED BY <2>1 DEF Segs
<1>4. PICK f : f = [i \in 1..n |-> segs[i].byte]
  OBVIOUS
<1>5. f \in [1..n -> Byte]
  BY <1>3, <1>4
<1>6. f \in Seq(Byte) /\ Len(f) = n
  BY <1>2, <1>5, SeqDef, LenProperties
<1> QED BY <1>1, <1>4, <1>6 DEF BytesOf

\* They join as the segments do.
LEMMA BytesJoin ==
  ASSUME NEW a \in Seq(Segs), NEW b \in Seq(Segs)
  PROVE  BytesOf(a \o b) = BytesOf(a) \o BytesOf(b)
<1>1. PICK c : c = a \o b
  OBVIOUS
<1>2. PICK m, n : m = Len(a) /\ n = Len(b)
  OBVIOUS
<1>3. m \in Nat /\ n \in Nat
  BY <1>2, LenProperties
<1>4. /\ c \in Seq(Segs) /\ Len(c) = m + n
      /\ \A i \in 1..m : c[i] = a[i]
      /\ \A j \in 1..n : c[m + j] = b[j]
  BY <1>1, <1>2, JoinIs
<1>5. PICK x, y, z : x = BytesOf(a) /\ y = BytesOf(b) /\ z = BytesOf(c)
  OBVIOUS
<1>6. x \in Seq(Byte) /\ y \in Seq(Byte) /\ z \in Seq(Byte) /\ Len(x) = m /\ Len(y) = n /\ Len(z) = m + n
  BY <1>2, <1>4, <1>5, BytesAreText
<1>7. /\ x \o y \in Seq(Byte) /\ Len(x \o y) = m + n
      /\ \A i \in 1..m : (x \o y)[i] = x[i]
      /\ \A j \in 1..n : (x \o y)[m + j] = y[j]
  <2>1. /\ x \o y \in Seq(Byte) /\ Len(x \o y) = Len(x) + Len(y)
        /\ \A i \in 1..Len(x) : (x \o y)[i] = x[i]
        /\ \A j \in 1..Len(y) : (x \o y)[Len(x) + j] = y[j]
    <3>1. x \in Seq(Byte)
      BY <1>6
    <3>2. y \in Seq(Byte)
      BY <1>6
    <3> QED BY <3>1, <3>2, JoinIs
  <2> QED BY <1>6, <2>1
<1>8. /\ \A i \in 1..m : x[i] = a[i].byte
      /\ \A i \in 1..n : y[i] = b[i].byte
      /\ \A i \in 1..(m + n) : z[i] = c[i].byte
  BY <1>2, <1>4, <1>5 DEF BytesOf
<1>9. \A i \in 1..(m + n) : z[i] = (x \o y)[i]
  <2> TAKE i \in 1..(m + n)
  <2>1. CASE i <= m
    <3>1. i \in 1..m
      BY <1>3, <2>1
    <3> QED BY <1>4, <1>7, <1>8, <3>1
  <2>2. CASE ~(i <= m)
    <3>1. PICK j : j = i - m
      OBVIOUS
    <3>2. j \in 1..n /\ i = m + j
      BY <1>3, <2>2, <3>1
    <3> QED BY <1>4, <1>7, <1>8, <3>2
  <2> QED BY <2>1, <2>2
<1>10. z = x \o y
  BY <1>6, <1>7, <1>9, SeqEqual
<1> QED BY <1>1, <1>5, <1>10

\* What holds of two inputs in turn holds of both.
LEMMA GatingJoins ==
  ASSUME NEW g, NEW h, NEW k, NEW s \in Seq(Byte), NEW t \in Seq(Byte), NEW a, NEW b,
         Gating(g, s, a, h), Gating(h, t, b, k)
  PROVE  Gating(g, s \o t, a \o b, k)
<1>1. a \in Seq(Segs) /\ b \in Seq(Segs)
  BY DEF Gating
<1>2. PICK c, m, n : c = a \o b /\ m = Len(a) /\ n = Len(b)
  OBVIOUS
<1>3. m \in Nat /\ n \in Nat
  BY <1>1, <1>2, LenProperties
<1>4. /\ c \in Seq(Segs) /\ Len(c) = m + n
      /\ \A i \in 1..m : c[i] = a[i]
      /\ \A j \in 1..n : c[m + j] = b[j]
  BY <1>1, <1>2, JoinIs
<1>5. GateHeld(g) \o (s \o t) = BytesOf(c) \o GateHeld(k)
  <2>1. PICK x, y, z, u, v : /\ x = GateHeld(g) /\ y = GateHeld(h) /\ z = GateHeld(k)
                             /\ u = BytesOf(a) /\ v = BytesOf(b)
    OBVIOUS
  <2>2. x \in Seq(Byte) /\ y \in Seq(Byte) /\ z \in Seq(Byte)
    BY <2>1, HeldIsText
  <2>3. u \in Seq(Byte) /\ v \in Seq(Byte)
    BY <1>1, <2>1, BytesAreText
  <2>4. x \o s = u \o y /\ y \o t = v \o z
    BY <2>1 DEF Gating
  <2>5. x \o (s \o t) = (x \o s) \o t
    BY <2>2, Associates
  <2>6. (u \o y) \o t = u \o (y \o t)
    <3>1. u \in Seq(Byte)
      BY <2>3
    <3>2. y \in Seq(Byte)
      BY <2>2
    <3>3. t \in Seq(Byte)
      OBVIOUS
    <3> QED BY <3>1, <3>2, <3>3, Associates
  <2>7. u \o (v \o z) = (u \o v) \o z
    <3>1. u \in Seq(Byte)
      BY <2>3
    <3>2. v \in Seq(Byte)
      BY <2>3
    <3>3. z \in Seq(Byte)
      BY <2>2
    <3> QED BY <3>1, <3>2, <3>3, Associates
  <2>8. BytesOf(c) = u \o v
    BY <1>1, <1>2, <2>1, BytesJoin
  <2>9. x \o (s \o t) = (u \o v) \o z
    BY <2>4, <2>5, <2>6, <2>7
  <2> QED BY <2>1, <2>8, <2>9
<1>6. CleanSegs(c)
  <2> SUFFICES ASSUME NEW i \in 1..(m + n), ~c[i].raw, IsUnsafeControl(c[i].byte)
               PROVE  c[i].byte = "cr" /\ i < m + n /\ ~c[i + 1].raw /\ c[i + 1].byte = "lf"
    BY <1>4 DEF CleanSegs
  <2>1. CASE i <= m
    <3>0. i \in 1..m
      BY <1>3, <2>1
    <3>1. i \in 1..m /\ c[i] = a[i]
      BY <1>4, <3>0
    <3>2. a[i].byte = "cr" /\ i < m /\ ~a[i + 1].raw /\ a[i + 1].byte = "lf"
      BY <1>2, <3>1 DEF Gating, CleanSegs
    <3>3. i + 1 \in 1..m
      BY <1>3, <3>1, <3>2
    <3> QED BY <1>3, <1>4, <3>1, <3>2, <3>3
  <2>2. CASE ~(i <= m)
    <3>1. PICK j : j = i - m
      OBVIOUS
    <3>0. j \in 1..n /\ i = m + j
      BY <1>3, <2>2, <3>1
    <3>2. j \in 1..n /\ c[i] = b[j] /\ i = m + j
      BY <1>4, <3>0
    <3>3. b[j].byte = "cr" /\ j < n /\ ~b[j + 1].raw /\ b[j + 1].byte = "lf"
      BY <1>2, <3>2 DEF Gating, CleanSegs
    <3>4. j + 1 \in 1..n /\ i + 1 = m + (j + 1)
      <4>1. j < n
        BY <3>3
      <4> QED BY <1>3, <3>0, <4>1
    <3>5. c[i + 1] = b[j + 1]
      BY <1>4, <3>4
    <3> QED BY <1>3, <3>2, <3>3, <3>5
  <2> QED BY <2>1, <2>2
<1>7. LineSegs(c)
  <2> SUFFICES ASSUME NEW i \in 1..(m + n), i < m + n, c[i].raw, ~c[i + 1].raw
               PROVE  c[i].byte = "lf"
    BY <1>4 DEF LineSegs
  <2>1. CASE i < m
    <3>1. i \in 1..m /\ i + 1 \in 1..m
      BY <1>3, <2>1
    <3>2. c[i] = a[i] /\ c[i + 1] = a[i + 1]
      BY <1>4, <3>1
    <3> QED BY <1>2, <2>1, <3>1, <3>2 DEF Gating, LineSegs
  <2>2. CASE i = m
    <3>1. m \in 1..m /\ m > 0 /\ n > 0 /\ c[m] = a[m]
      BY <1>3, <1>4, <2>2
    <3>2. 1 \in 1..n
      BY <1>3, <3>1
    <3>3. c[m + 1] = b[1]
      BY <1>4, <3>2
    <3>4. OnPlainLine(h)
      BY <1>2, <2>2, <3>1, <3>3 DEF Gating, FirstSeg
    <3> QED BY <1>2, <2>2, <3>1, <3>4 DEF Gating, LastSeg
  <2>3. CASE i > m
    <3>1. PICK j : j = i - m
      OBVIOUS
    <3>2. j \in 1..n /\ j + 1 \in 1..n /\ j < n /\ i = m + j /\ i + 1 = m + (j + 1)
      BY <1>3, <2>3, <3>1
    <3>4. c[i] = b[j] /\ c[i + 1] = b[j + 1]
      BY <1>4, <3>2
    <3> QED BY <1>2, <3>2, <3>4 DEF Gating, LineSegs
  <2> QED BY <1>3, <2>1, <2>2, <2>3
<1>8. m > 0 => c[1] = a[1]
  <2>1. m > 0 => 1 \in 1..m
    BY <1>3
  <2> QED BY <1>4, <2>1
<1>9. n > 0 => c[m + n] = b[n]
  <2>1. n > 0 => n \in 1..n
    BY <1>3
  <2> QED BY <1>4, <2>1
<1>10. n = 0 /\ m > 0 => m + n = m /\ c[m] = a[m]
  <2>1. m > 0 => m \in 1..m
    BY <1>3
  <2> QED BY <1>3, <1>4, <2>1
<1>11. m = 0 /\ n > 0 => c[1] = b[1]
  <2>1. n > 0 => 1 \in 1..n
    BY <1>3
  <2>2. m = 0 => m + 1 = 1
    BY <1>3
  <2> QED BY <1>4, <2>1, <2>2
<1>12. FirstSeg(g, c)
  BY <1>2, <1>3, <1>4, <1>8, <1>11 DEF Gating, FirstSeg, NoSeg
<1>13. LastSeg(c, k)
  <2>1. CASE n > 0
    BY <1>2, <1>3, <1>4, <1>9, <2>1 DEF Gating, LastSeg
  <2>2. CASE n = 0
    BY <1>2, <1>3, <1>4, <1>10, <2>2 DEF Gating, LastSeg, NoSeg
  <2> QED BY <1>3, <2>1, <2>2
<1>14. NoSeg(g, c, k)
  BY <1>2, <1>3, <1>4 DEF Gating, NoSeg
<1> QED BY <1>2, <1>4, <1>5, <1>6, <1>7, <1>12, <1>13, <1>14 DEF Gating

\* Sequences of no and of one element.
LEMMA SmallSeqs ==
  /\ \A S : <<>> \in Seq(S) /\ Len(<<>>) = 0
  /\ \A S : \A x \in S : <<x>> \in Seq(S) /\ Len(<<x>>) = 1 /\ <<x>>[1] = x
OBVIOUS

\* The empty text joined.
LEMMA EmptyJoins == \A t \in Seq(Byte) : <<>> \o t = t /\ t \o <<>> = t
<1>1. ASSUME NEW t \in Seq(Byte) PROVE <<>> \o t = t /\ t \o <<>> = t
  BY ConcatEmptySeq
<1> QED BY <1>1

\* No segments carry no bytes,
LEMMA NoBytes == BytesOf(<<>>) = <<>>
<1>1. <<>> \in Seq(Segs) /\ Len(<<>>) = 0
  OBVIOUS
<1>2. BytesOf(<<>>) \in Seq(Byte) /\ Len(BytesOf(<<>>)) = 0
  BY <1>1, BytesAreText
<1> QED BY <1>2, EmptySeq

\* and one carries one.
LEMMA OneByte ==
  ASSUME NEW x \in Segs
  PROVE  BytesOf(<<x>>) = <<x.byte>>
<1>1. <<x>> \in Seq(Segs) /\ Len(<<x>>) = 1 /\ <<x>>[1] = x
  OBVIOUS
<1>2. PICK s : s = BytesOf(<<x>>)
  OBVIOUS
<1>3. s \in Seq(Byte) /\ Len(s) = 1
  BY <1>1, <1>2, BytesAreText
<1>4. s[1] = x.byte
  <2>1. 1 \in 1..Len(<<x>>)
    BY <1>1
  <2> QED BY <1>1, <1>2, <2>1 DEF BytesOf
<1>5. x.byte \in Byte
  BY DEF Segs
<1>6. <<x.byte>> \in Seq(Byte) /\ Len(<<x.byte>>) = 1 /\ <<x.byte>>[1] = x.byte
  BY <1>5
<1>7. \A i \in 1..1 : s[i] = <<x.byte>>[i]
  BY <1>4
<1> QED BY <1>2, <1>3, <1>6, <1>7, SeqEqual

\* What ProcessByte makes of the gate.
LEMMA ProcessedIs ==
  ASSUME NEW g, GateShape(g), NEW b \in Byte
  PROVE  \E h, event, parser :
           /\ ProcessByte(g, b) = Gated(h, <<Segment(~OnPlainLine(g) \/ IsUnsafeControl(b), b)>>)
           /\ GateShape(h)
           /\ h.pending_carriage_return = g.pending_carriage_return
           /\ h.parser = parser
           /\ h.parser_fail_closed <=> (g.parser_fail_closed \/ event = "overflow")
           /\ h.alternate_screen <=>
                (IF event \in {"enter", "leave"} THEN event = "enter" ELSE g.alternate_screen)
           /\ h.raw_until_newline <=>
                /\ g.raw_until_newline \/ IsUnsafeControl(b) \/ event # "none"
                /\ ~(b = "lf" /\ ~h.parser_fail_closed /\ ~h.alternate_screen /\ IsGround(parser))
           /\ IsGround(g.parser) => event = "none" /\ (b # "esc" => IsGround(parser))
<1>1. PICK f : f = ControlParserFeed(g.parser, b)
  OBVIOUS
<1>2. PICK parser, event : parser = f.parser /\ event = f.event
  OBVIOUS
<1>3. PICK parser0 : \E raw0, alt0, pending, failed0 \in BOOLEAN :
        g = [raw_until_newline |-> raw0, alternate_screen |-> alt0,
             pending_carriage_return |-> pending, parser_fail_closed |-> failed0,
             parser |-> parser0]
  BY DEF GateShape
<1>4. PICK raw0, alt0, pending, failed0 \in BOOLEAN :
        g = [raw_until_newline |-> raw0, alternate_screen |-> alt0,
             pending_carriage_return |-> pending, parser_fail_closed |-> failed0,
             parser |-> parser0]
  BY <1>3
<1>5. PICK failed \in BOOLEAN : failed = (g.parser_fail_closed \/ event = "overflow")
  OBVIOUS
<1>6. PICK alt \in BOOLEAN : alt = (IF event \in {"enter", "leave"} THEN event = "enter"
                                    ELSE g.alternate_screen)
  <2>1. (IF event \in {"enter", "leave"} THEN event = "enter" ELSE g.alternate_screen)
          \in BOOLEAN
    BY <1>4
  <2> QED BY <2>1
<1>7. PICK raw \in BOOLEAN :
        raw = (Tainted(g, b, event)
               /\ ~(b = "lf" /\ ~failed /\ ~alt /\ IsGround(parser)))
  OBVIOUS
<1>8. PICK h : h = [g EXCEPT !.parser = parser, !.parser_fail_closed = failed,
                             !.alternate_screen = alt, !.raw_until_newline = raw]
  OBVIOUS
<1>9. ProcessByte(g, b) =
        Gated(h, <<Segment(~OnPlainLine(g) \/ IsUnsafeControl(b), b)>>)
  <2>1. /\ failed = (g.parser_fail_closed \/ f.event = "overflow")
        /\ alt = (IF f.event \in {"enter", "leave"} THEN f.event = "enter"
                                    ELSE g.alternate_screen)
        /\ raw = (Tainted(g, b, f.event)
               /\ ~(b = "lf" /\ ~failed /\ ~alt /\ IsGround(f.parser)))
        /\ h = [g EXCEPT !.parser = f.parser, !.parser_fail_closed = failed,
                             !.alternate_screen = alt, !.raw_until_newline = raw]
    BY <1>2, <1>5, <1>6, <1>7, <1>8
  <2> QED BY <1>1, <2>1, Zenon DEF ProcessByte
<1>10. h = [raw_until_newline |-> raw, alternate_screen |-> alt,
            pending_carriage_return |-> pending,
            parser_fail_closed |-> failed, parser |-> parser]
  BY <1>4, <1>8
<1>11. GateShape(h)
  BY <1>10 DEF GateShape
<1>12. /\ h.parser = parser /\ h.parser_fail_closed = failed /\ h.alternate_screen = alt
       /\ h.pending_carriage_return = pending /\ h.raw_until_newline = raw
       /\ g.pending_carriage_return = pending
  BY <1>4, <1>10
<1>13. IsGround(g.parser) => event = "none" /\ (b # "esc" => IsGround(parser))
  <2> SUFFICES ASSUME g.parser.st = "ground" PROVE event = "none" /\ (b # "esc" => parser.st = "ground")
    BY DEF IsGround
  <2>1. f = Parsed(IF b = "esc" THEN Escape ELSE g.parser, "none")
    BY <1>1 DEF ControlParserFeed
  <2> QED BY <1>2, <2>1 DEF Parsed
<1>14. h.raw_until_newline <=>
        /\ g.raw_until_newline \/ IsUnsafeControl(b) \/ event # "none"
        /\ ~(b = "lf" /\ ~h.parser_fail_closed /\ ~h.alternate_screen /\ IsGround(parser))
  BY <1>7, <1>12 DEF Tainted
<1> QED BY <1>5, <1>6, <1>9, <1>11, <1>12, <1>13, <1>14

\* A byte processed is gated right.
LEMMA ProcessGates ==
  ASSUME NEW g, GateOK(g), ~g.pending_carriage_return, NEW b \in Byte
  PROVE  /\ Gating(g, <<b>>, ProcessByte(g, b).segments, ProcessByte(g, b).gate)
         /\ ~ProcessByte(g, b).gate.pending_carriage_return
<1>1. GateShape(g) /\ (g.raw_until_newline \/ OnPlainLine(g))
  BY DEF GateOK
<1>2. PICK h, event, parser :
           /\ ProcessByte(g, b) = Gated(h, <<Segment(~OnPlainLine(g) \/ IsUnsafeControl(b), b)>>)
           /\ GateShape(h)
           /\ h.pending_carriage_return = g.pending_carriage_return
           /\ h.parser = parser
           /\ h.parser_fail_closed <=> (g.parser_fail_closed \/ event = "overflow")
           /\ h.alternate_screen <=>
                (IF event \in {"enter", "leave"} THEN event = "enter" ELSE g.alternate_screen)
           /\ h.raw_until_newline <=>
                /\ g.raw_until_newline \/ IsUnsafeControl(b) \/ event # "none"
                /\ ~(b = "lf" /\ ~h.parser_fail_closed /\ ~h.alternate_screen /\ IsGround(parser))
           /\ IsGround(g.parser) => event = "none" /\ (b # "esc" => IsGround(parser))
  BY <1>1, ProcessedIs
<1>3. PICK raw \in BOOLEAN : raw = (~OnPlainLine(g) \/ IsUnsafeControl(b))
  OBVIOUS
<1>4. PICK x, segs : x = Segment(raw, b) /\ segs = <<x>>
  OBVIOUS
<1>5. ProcessByte(g, b).gate = h /\ ProcessByte(g, b).segments = segs
  BY <1>2, <1>3, <1>4 DEF Gated
<1>6. x \in Segs /\ x.raw = raw /\ x.byte = b
  BY <1>4 DEF Segment, Segs
<1>7. segs \in Seq(Segs) /\ Len(segs) = 1 /\ segs[1] = x
  BY <1>4, <1>6
<1>8. BytesOf(segs) = <<b>>
  BY <1>4, <1>6, OneByte
<1>9. GateHeld(g) = <<>> /\ GateHeld(h) = <<>>
  BY <1>2 DEF GateHeld
<1>10. GateHeld(g) \o <<b>> = BytesOf(segs) \o GateHeld(h)
  <2>1. <<b>> \in Seq(Byte)
    OBVIOUS
  <2>2. <<>> \o <<b>> = <<b>> /\ <<b>> \o <<>> = <<b>>
    BY <2>1, EmptyJoins
  <2> QED BY <1>8, <1>9, <2>2
<1>11. OnPlainLine(g) /\ ~IsUnsafeControl(b) => OnPlainLine(h)
  BY <1>2 DEF OnPlainLine, IsUnsafeControl
<1>12. h.raw_until_newline \/ OnPlainLine(h)
  BY <1>1, <1>2, <1>11 DEF OnPlainLine
<1>13. GateOK(h)
  BY <1>2, <1>12 DEF GateOK
<1>14. raw /\ b # "lf" => ~OnPlainLine(h)
  BY <1>1, <1>2, <1>3 DEF OnPlainLine
<1>15. CleanSegs(segs) /\ LineSegs(segs)
  <2>1. \A i \in 1..Len(segs) : i = 1 /\ ~(i < Len(segs)) /\ segs[i] = x
    BY <1>7
  <2>2. ~raw => ~IsUnsafeControl(b)
    BY <1>3
  <2>3. CleanSegs(segs)
    BY <1>6, <2>1, <2>2 DEF CleanSegs
  <2> QED BY <2>1, <2>3 DEF LineSegs
<1>16. FirstSeg(g, segs)
  BY <1>3, <1>6, <1>7 DEF FirstSeg
<1>17. LastSeg(segs, h)
  BY <1>6, <1>7, <1>14 DEF LastSeg
<1>18. NoSeg(g, segs, h)
  BY <1>7 DEF NoSeg
<1>19. Gating(g, <<b>>, segs, h)
  BY <1>7, <1>10, <1>13, <1>15, <1>16, <1>17, <1>18 DEF Gating
<1> QED BY <1>2, <1>5, <1>19

\* A gate that holds back a carriage return, or no more.
LEMMA PendingSet ==
  ASSUME NEW g, GateShape(g), NEW pending \in BOOLEAN
  PROVE  LET h == [g EXCEPT !.pending_carriage_return = pending]
         IN /\ GateShape(h)
            /\ h.pending_carriage_return = pending
            /\ OnPlainLine(h) <=> OnPlainLine(g)
            /\ h.raw_until_newline <=> g.raw_until_newline
<1>1. PICK parser0 : \E raw0, alt0, p0, failed0 \in BOOLEAN :
        g = [raw_until_newline |-> raw0, alternate_screen |-> alt0,
             pending_carriage_return |-> p0, parser_fail_closed |-> failed0,
             parser |-> parser0]
  BY DEF GateShape
<1>2. PICK raw0, alt0, p0, failed0 \in BOOLEAN :
        g = [raw_until_newline |-> raw0, alternate_screen |-> alt0,
             pending_carriage_return |-> p0, parser_fail_closed |-> failed0,
             parser |-> parser0]
  BY <1>1
<1>3. PICK h : h = [g EXCEPT !.pending_carriage_return = pending]
  OBVIOUS
<1>4. h = [raw_until_newline |-> raw0, alternate_screen |-> alt0,
             pending_carriage_return |-> pending, parser_fail_closed |-> failed0,
             parser |-> parser0]
  BY <1>2, <1>3
<1>5. GateShape(h)
  BY <1>4 DEF GateShape
<1>6. /\ h.pending_carriage_return = pending
      /\ OnPlainLine(h) <=> OnPlainLine(g)
      /\ h.raw_until_newline <=> g.raw_until_newline
  BY <1>2, <1>4 DEF OnPlainLine
<1> QED BY <1>3, <1>5, <1>6

\* So is no byte.
LEMMA NothingGates == ASSUME NEW g, GateOK(g) PROVE Gating(g, <<>>, <<>>, g)
<1>1. <<>> \in Seq(Segs) /\ Len(<<>>) = 0
  OBVIOUS
<1>2. GateHeld(g) \o <<>> = GateHeld(g) /\ <<>> \o GateHeld(g) = GateHeld(g)
  BY HeldIsText, EmptyJoins
<1>3. GateHeld(g) \o <<>> = BytesOf(<<>>) \o GateHeld(g)
  BY <1>2, NoBytes
<1>4. CleanSegs(<<>>) /\ LineSegs(<<>>)
  BY <1>1 DEF CleanSegs, LineSegs
<1>5. FirstSeg(g, <<>>) /\ LastSeg(<<>>, g) /\ NoSeg(g, <<>>, g)
  BY <1>1 DEF FirstSeg, LastSeg, NoSeg
<1> QED BY <1>1, <1>3, <1>4, <1>5 DEF Gating

\* A held carriage return was a control; the line is raw from there.
LEMMA FlushGates ==
  ASSUME NEW g, GateOK(g)
  PROVE  /\ Gating(g, <<>>, FlushCarriageReturn(g).segments, FlushCarriageReturn(g).gate)
         /\ ~FlushCarriageReturn(g).gate.pending_carriage_return
<1>1. CASE ~g.pending_carriage_return
  <2>1. FlushCarriageReturn(g).segments = <<>> /\ FlushCarriageReturn(g).gate = g
    BY <1>1 DEF FlushCarriageReturn, Gated
  <2> QED BY <1>1, <2>1, NothingGates
<1>2. CASE g.pending_carriage_return
  <2>1. PICK h : h = [g EXCEPT !.pending_carriage_return = FALSE]
    OBVIOUS
  <2>2. GateShape(h) /\ ~h.pending_carriage_return /\ (OnPlainLine(h) <=> OnPlainLine(g))
        /\ (h.raw_until_newline <=> g.raw_until_newline)
    <3>1. GateShape(g)
      BY DEF GateOK
    <3> QED BY <2>1, <3>1, PendingSet
  <2>3. GateOK(h)
    BY <2>2 DEF GateOK
  <2>4. "cr" \in Byte
    BY DEF Byte
  <2>5. PICK r : r = ProcessByte(h, "cr")
    OBVIOUS
  <2>6. Gating(h, <<"cr">>, r.segments, r.gate) /\ ~r.gate.pending_carriage_return
    BY <2>2, <2>3, <2>4, <2>5, ProcessGates
  <2>7. GateHeld(g) = <<"cr">> /\ GateHeld(h) = <<>>
    BY <1>2, <2>2 DEF GateHeld
  <2>8. GateHeld(h) \o <<"cr">> = GateHeld(g) \o <<>>
    <3>1. <<"cr">> \in Seq(Byte)
      BY <2>4
    <3>2. <<>> \o <<"cr">> = <<"cr">> /\ <<"cr">> \o <<>> = <<"cr">>
      BY <3>1, EmptyJoins
    <3> QED BY <2>7, <3>2
  <2>9. Gating(g, <<>>, r.segments, r.gate)
    BY <2>2, <2>6, <2>8 DEF Gating, FirstSeg, NoSeg
  <2>10. FlushCarriageReturn(g) = r
    BY <1>2, <2>1, <2>5 DEF FlushCarriageReturn
  <2> QED BY <2>6, <2>9, <2>10
<1>3. g.pending_carriage_return \in BOOLEAN
  BY DEF GateOK, GateShape
<1> QED BY <1>1, <1>2, <1>3

\* Two elements joined.
LEMMA PairIs ==
  ASSUME NEW S, NEW x \in S, NEW y \in S
  PROVE  <<x>> \o <<y>> = <<x, y>>
<1>1. PICK a, b, c : a = <<x>> /\ b = <<y>> /\ c = <<x, y>>
  OBVIOUS
<1>2. a \in Seq(S) /\ Len(a) = 1 /\ a[1] = x
  BY <1>1
<1>3. b \in Seq(S) /\ Len(b) = 1 /\ b[1] = y
  BY <1>1
<1>4. c \in Seq(S) /\ Len(c) = 2 /\ c[1] = x /\ c[2] = y
  BY <1>1
<1>5. /\ a \o b \in Seq(S) /\ Len(a \o b) = Len(a) + Len(b)
      /\ \A i \in 1..Len(a) : (a \o b)[i] = a[i]
      /\ \A j \in 1..Len(b) : (a \o b)[Len(a) + j] = b[j]
  <2>1. a \in Seq(S)
    BY <1>2
  <2>2. b \in Seq(S)
    BY <1>3
  <2> QED BY <2>1, <2>2, JoinIs
<1>6. Len(a \o b) = 2 /\ (a \o b)[1] = x /\ (a \o b)[2] = y
  <2>1. (a \o b)[1] = x
    BY <1>2, <1>5
  <2>2. (a \o b)[1 + 1] = y
    BY <1>2, <1>3, <1>5
  <2> QED BY <1>2, <1>3, <1>5, <2>1, <2>2
<1>7. \A i \in 1..2 : (a \o b)[i] = c[i]
  BY <1>4, <1>6
<1>8. a \o b = c
  BY <1>4, <1>5, <1>6, <1>7, SeqEqual
<1> QED BY <1>1, <1>8

\* One iteration of the loop of feed.
LEMMA FeedByteGates ==
  ASSUME NEW g, GateOK(g), NEW b \in Byte
  PROVE  Gating(g, <<b>>, GateFeedByte(g, b).segments, GateFeedByte(g, b).gate)
<1>1. PICK r : r = GateFeedByte(g, b)
  OBVIOUS
<1>2. <<b>> \in Seq(Byte)
  OBVIOUS
<1>3. CASE g.pending_carriage_return /\ b = "lf" /\ OnPlainLine(g)
  <2>1. PICK h : h = [g EXCEPT !.pending_carriage_return = FALSE]
    OBVIOUS
  <2>2. GateShape(h) /\ ~h.pending_carriage_return /\ (OnPlainLine(h) <=> OnPlainLine(g))
        /\ (h.raw_until_newline <=> g.raw_until_newline)
    <3>1. GateShape(g)
      BY DEF GateOK
    <3> QED BY <2>1, <3>1, PendingSet
  <2>3. PICK x, y : x = Segment(FALSE, "cr") /\ y = Segment(FALSE, "lf")
    OBVIOUS
  <2>4. x \in Segs /\ y \in Segs /\ ~x.raw /\ ~y.raw /\ x.byte = "cr" /\ y.byte = "lf"
    BY <2>3 DEF Segment, Segs, Byte
  <2>5. PICK segs : segs = <<x, y>>
    OBVIOUS
  <2>6. segs \in Seq(Segs) /\ Len(segs) = 2 /\ segs[1] = x /\ segs[2] = y
    BY <2>4, <2>5
  <2>7. r.gate = h /\ r.segments = segs
    BY <1>1, <1>3, <2>1, <2>3, <2>5 DEF GateFeedByte, Gated
  <2>8. BytesOf(segs) = <<"cr", "lf">>
    <3>1. <<x>> \in Seq(Segs) /\ <<y>> \in Seq(Segs)
      BY <2>4
    <3>2. segs = <<x>> \o <<y>>
      BY <2>4, <2>5, PairIs
    <3>3. BytesOf(<<x>>) = <<"cr">> /\ BytesOf(<<y>>) = <<"lf">>
      BY <2>4, OneByte
    <3>4. BytesOf(<<x>> \o <<y>>) = BytesOf(<<x>>) \o BytesOf(<<y>>)
      BY <3>1, BytesJoin
    <3>5. "cr" \in Byte /\ "lf" \in Byte
      BY DEF Byte
    <3>6. <<"cr">> \o <<"lf">> = <<"cr", "lf">>
      BY <3>5, PairIs
    <3> QED BY <3>2, <3>3, <3>4, <3>6
  <2>9. GateHeld(g) = <<"cr">> /\ GateHeld(h) = <<>>
    BY <1>3, <2>2 DEF GateHeld
  <2>10. GateHeld(g) \o <<b>> = BytesOf(segs) \o GateHeld(h)
    <3>1. "cr" \in Byte /\ "lf" \in Byte
      BY DEF Byte
    <3>2. <<"cr">> \o <<"lf">> = <<"cr", "lf">>
      BY <3>1, PairIs
    <3>3. <<"cr", "lf">> \in Seq(Byte)
      BY <3>1
    <3>4. <<"cr", "lf">> \o <<>> = <<"cr", "lf">>
      BY <3>3, EmptyJoins
    <3> QED BY <1>3, <2>8, <2>9, <3>2, <3>4
  <2>11. GateOK(h)
    BY <1>3, <2>2 DEF GateOK
  <2>12. \A i \in 1..Len(segs) : i = 1 \/ i = 2
    BY <2>6
  <2>13. CleanSegs(segs)
    <3>1. ~IsUnsafeControl("lf")
      BY DEF IsUnsafeControl
    <3> QED BY <2>4, <2>6, <2>12, <3>1 DEF CleanSegs
  <2>14. LineSegs(segs)
    BY <2>4, <2>6, <2>12 DEF LineSegs
  <2>15. FirstSeg(g, segs) /\ LastSeg(segs, h) /\ NoSeg(g, segs, h)
    BY <1>3, <2>4, <2>6 DEF FirstSeg, LastSeg, NoSeg
  <2>16. Gating(g, <<b>>, segs, h)
    BY <2>6, <2>10, <2>11, <2>13, <2>14, <2>15 DEF Gating
  <2> QED BY <1>1, <2>7, <2>16
<1>4. CASE ~(g.pending_carriage_return /\ b = "lf" /\ OnPlainLine(g))
  <2>1. PICK f : f = FlushCarriageReturn(g)
    OBVIOUS
  <2>2. Gating(g, <<>>, f.segments, f.gate) /\ ~f.gate.pending_carriage_return
    BY <2>1, FlushGates
  <2>3. PICK q : q = (IF b = "cr" /\ OnPlainLine(f.gate)
                      THEN Gated([f.gate EXCEPT !.pending_carriage_return = TRUE], <<>>)
                      ELSE ProcessByte(f.gate, b))
    OBVIOUS
  <2>4. r.gate = q.gate /\ r.segments = f.segments \o q.segments
    BY <1>1, <1>4, <2>1, <2>3, Zenon DEF GateFeedByte, Gated
  <2>5. GateOK(f.gate)
    BY <2>2 DEF Gating
  <2>6. Gating(f.gate, <<b>>, q.segments, q.gate)
    <3>1. CASE b = "cr" /\ OnPlainLine(f.gate)
      <4>1. PICK k : k = f.gate
        OBVIOUS
      <4>2. PICK h : h = [k EXCEPT !.pending_carriage_return = TRUE]
        OBVIOUS
      <4>3. GateShape(h) /\ h.pending_carriage_return /\ (OnPlainLine(h) <=> OnPlainLine(k))
            /\ (h.raw_until_newline <=> k.raw_until_newline)
        <5>1. GateShape(k)
          BY <2>5, <4>1 DEF GateOK
        <5> QED BY <4>2, <5>1, PendingSet
      <4>4. q.gate = h /\ q.segments = <<>>
        BY <2>3, <3>1, <4>1, <4>2 DEF Gated
      <4>5. GateOK(h)
        BY <3>1, <4>1, <4>3 DEF GateOK
      <4>6. GateHeld(k) = <<>> /\ GateHeld(h) = <<"cr">>
        BY <2>2, <4>1, <4>3 DEF GateHeld
      <4>7. GateHeld(k) \o <<b>> = BytesOf(<<>>) \o GateHeld(h)
        BY <3>1, <4>6, NoBytes
      <4>8. Gating(h, <<>>, <<>>, h)
        BY <4>5, NothingGates
      <4>9. Gating(k, <<b>>, <<>>, h)
        BY <4>3, <4>7, <4>8 DEF Gating, FirstSeg, NoSeg
      <4> QED BY <4>1, <4>4, <4>9
    <3>2. CASE ~(b = "cr" /\ OnPlainLine(f.gate))
      <4>1. q = ProcessByte(f.gate, b)
        BY <2>3, <3>2
      <4> QED BY <2>2, <2>5, <4>1, ProcessGates
    <3> QED BY <3>1, <3>2
  <2>7. <<>> \in Seq(Byte) /\ <<>> \o <<b>> = <<b>>
    <3>1. <<>> \in Seq(Byte)
      OBVIOUS
    <3> QED BY <1>2, <3>1, EmptyJoins
  <2>8. Gating(g, <<>> \o <<b>>, f.segments \o q.segments, q.gate)
    <3>1. <<>> \in Seq(Byte)
      BY <2>7
    <3>2. PICK e, w, fs, fg, qs, qg : /\ e = <<>> /\ w = <<b>> /\ fs = f.segments /\ fg = f.gate
                                      /\ qs = q.segments /\ qg = q.gate
      OBVIOUS
    <3>3. e \in Seq(Byte)
      BY <3>1, <3>2
    <3>4. w \in Seq(Byte)
      BY <1>2, <3>2
    <3>5. Gating(g, e, fs, fg) /\ Gating(fg, w, qs, qg)
      BY <2>2, <2>6, <3>2
    <3>6. Gating(g, e \o w, fs \o qs, qg)
      BY <3>3, <3>4, <3>5, GatingJoins
    <3> QED BY <3>2, <3>6
  <2> QED BY <1>1, <2>4, <2>7, <2>8
<1> QED BY <1>3, <1>4

\* The run of GateFeed, and that there is one.
IsGateRun(g, chunk, run) ==
  run = [i \in 0..Len(chunk) |->
           IF i = 0 THEN Gated(g, <<>>)
           ELSE LET step == GateFeedByte(run[i - 1].gate, chunk[i])
                IN Gated(step.gate, run[i - 1].segments \o step.segments)]

\* It is chosen as GateFeed does.
GateRun(g, chunk) == CHOOSE run : IsGateRun(g, chunk, run)

\* One byte fed.
GateStep(before, b) ==
  LET step == GateFeedByte(before.gate, b)
  IN Gated(step.gate, before.segments \o step.segments)

\* There is one over every chunk, and it ends in what GateFeed returns.
LEMMA GateRunIs ==
  ASSUME NEW g, NEW chunk \in Seq(Byte)
  PROVE  /\ GateFeed(g, chunk) = GateRun(g, chunk)[Len(chunk)]
         /\ GateRun(g, chunk)[0] = Gated(g, <<>>)
         /\ \A k \in Nat : k < Len(chunk) =>
              GateRun(g, chunk)[k + 1] = GateStep(GateRun(g, chunk)[k], chunk[k + 1])
<1>1. PICK n : n = Len(chunk)
  OBVIOUS
<1>2. n \in Nat
  BY <1>1, LenProperties
<1> DEFINE Runs_(k, r) == r = [i \in 0..k |-> IF i = 0 THEN Gated(g, <<>>) ELSE GateStep(r[i - 1], chunk[i])]
           Good(k) == \E r : Runs_(k, r)
<1>3. Good(0)
  <2> DEFINE r == [i \in 0..0 |-> Gated(g, <<>>)]
  <2>1. Runs_(0, r)
    OBVIOUS
  <2> HIDE DEF r
  <2> QED BY <2>1
<1>4. ASSUME NEW k \in Nat, Good(k) PROVE Good(k + 1)
  <2>1. PICK r : Runs_(k, r)
    BY <1>4
  <2>2. PICK last : last = GateStep(r[k], chunk[k + 1])
    OBVIOUS
  <2> DEFINE h == [i \in 0..(k + 1) |-> IF i <= k THEN r[i] ELSE last]
  <2>3. Runs_(k + 1, h)
    <3>1. ASSUME NEW i \in 0..(k + 1)
          PROVE  h[i] = IF i = 0 THEN Gated(g, <<>>) ELSE GateStep(h[i - 1], chunk[i])
      <4>1. CASE i <= k
        <5>1. i \in 0..k /\ h[i] = r[i] /\ (i # 0 => i - 1 \in 0..(k + 1) /\ h[i - 1] = r[i - 1])
          BY <4>1
        <5>2. r[i] = IF i = 0 THEN Gated(g, <<>>) ELSE GateStep(r[i - 1], chunk[i])
          BY <2>1, <5>1
        <5> QED BY <5>1, <5>2
      <4>2. CASE i = k + 1
        <5>1. i # 0 /\ h[i] = last /\ i - 1 = k /\ h[k] = r[k]
          BY <4>2
        <5> QED BY <2>2, <4>2, <5>1
      <4> QED BY <4>1, <4>2
    <3> HIDE DEF h
    <3>2. h = [i \in 0..(k + 1) |-> h[i]]
      BY DEF h
    <3> QED BY <3>1, <3>2
  <2> HIDE DEF h
  <2> QED BY <2>3
<1> DEFINE T == {k \in Nat : Good(k)}
<1> HIDE DEF Good
<1>5. 0 \in T /\ \A k \in Nat : k \in T => k + 1 \in T
  BY <1>3, <1>4
<1>6. Nat \subseteq T
  <2> HIDE DEF T
  <2> QED BY <1>5, SetInduction
<1>7. \E r : IsGateRun(g, chunk, r)
  <2>1. Good(n)
    BY <1>2, <1>6
  <2> QED BY <1>1, <2>1, Zenon DEF Good, IsGateRun, GateStep
<1>8. PICK r : r = GateRun(g, chunk)
  OBVIOUS
<1>9. IsGateRun(g, chunk, r)
  BY <1>7, <1>8 DEF GateRun
<1>10. r = [i \in 0..n |-> IF i = 0 THEN Gated(g, <<>>) ELSE GateStep(r[i - 1], chunk[i])]
  BY <1>1, <1>9, Zenon DEF IsGateRun, GateStep
<1>11. r[0] = Gated(g, <<>>)
  BY <1>2, <1>10
<1>12. \A k \in Nat : k < n => r[k + 1] = GateStep(r[k], chunk[k + 1])
  <2> SUFFICES ASSUME NEW k \in Nat, k < n PROVE r[k + 1] = GateStep(r[k], chunk[k + 1])
    OBVIOUS
  <2>1. PICK i : i = k + 1
    OBVIOUS
  <2>2. i \in 0..n /\ i # 0 /\ i - 1 = k
    BY <1>2, <2>1
  <2>3. r[i] = GateStep(r[i - 1], chunk[i])
    BY <1>10, <2>2
  <2> QED BY <2>1, <2>2, <2>3
<1>13. GateFeed(g, chunk) = r[n]
  <2>1. GateFeed(g, chunk) = GateRun(g, chunk)[Len(chunk)]
    BY Zenon DEF GateFeed, GateRun, IsGateRun
  <2> QED BY <1>1, <1>8, <2>1
<1> QED BY <1>1, <1>8, <1>11, <1>12, <1>13

\* The first bytes of a text.
Front(t, k) == SubSeq(t, 1, k)

\* They grow from none to all.
LEMMA FrontIs ==
  ASSUME NEW t \in Seq(Byte)
  PROVE  /\ Front(t, 0) = <<>>
         /\ Front(t, Len(t)) = t
         /\ \A k \in Nat : k < Len(t) => /\ Front(t, k + 1) = Front(t, k) \o <<t[k + 1]>>
                                         /\ Front(t, k) \in Seq(Byte)
                                         /\ t[k + 1] \in Byte
<1>1. Len(t) \in Nat
  BY LenProperties
<1>2. Front(t, 0) = <<>>
  BY SubSeqEmpty DEF Front
<1>3. Front(t, Len(t)) = t
  BY SubSeqFull DEF Front
<1>4. ASSUME NEW k \in Nat, k < Len(t)
      PROVE  /\ Front(t, k + 1) = Front(t, k) \o <<t[k + 1]>>
             /\ Front(t, k) \in Seq(Byte)
             /\ t[k + 1] \in Byte
  <2>1. PICK m, n : m = 1 /\ n = k + 1
    OBVIOUS
  <2>2. m \in 1..Len(t) /\ n \in m..Len(t) /\ n \in 1..Len(t) /\ n - 1 = k
    BY <1>1, <1>4, <2>1
  <2>3. SubSeq(t, m, n) = SubSeq(t, m, n - 1) \o <<t[n]>>
    BY <2>2, SubSeqRecursiveSecond
  <2>4. t[n] \in Byte
    BY <2>2, ElementOfSeq
  <2>5. \A i \in 1..k : t[i] \in Byte
    <3> TAKE i \in 1..k
    <3>1. i \in 1..Len(t)
      BY <1>1, <1>4
    <3> QED BY <3>1, ElementOfSeq
  <2>6. SubSeq(t, 1, k) \in Seq(Byte)
    BY <2>5, SubSeqProperties
  <2> QED BY <2>1, <2>2, <2>3, <2>4, <2>6 DEF Front
<1> QED BY <1>2, <1>3, <1>4

\* The gate over a whole read: what holds of a byte holds of all of them.
LEMMA FeedGates ==
  ASSUME NEW g, GateOK(g), NEW chunk \in Seq(Byte)
  PROVE  Gating(g, chunk, GateFeed(g, chunk).segments, GateFeed(g, chunk).gate)
<1>1. PICK r, n : r = GateRun(g, chunk) /\ n = Len(chunk)
  OBVIOUS
<1>2. n \in Nat
  BY <1>1, LenProperties
<1>3. /\ GateFeed(g, chunk) = r[n] /\ r[0] = Gated(g, <<>>)
      /\ \A k \in Nat : k < n => r[k + 1] = GateStep(r[k], chunk[k + 1])
  BY <1>1, GateRunIs
<1> DEFINE T == {k \in Nat : k <= n => Gating(g, Front(chunk, k), r[k].segments, r[k].gate)}
<1>4. 0 \in T
  <2>1. r[0].segments = <<>> /\ r[0].gate = g
    BY <1>3 DEF Gated
  <2>2. Gating(g, Front(chunk, 0), r[0].segments, r[0].gate)
    BY <2>1, FrontIs, NothingGates
  <2> QED BY <2>2
<1>5. \A k \in Nat : k \in T => k + 1 \in T
  <2> TAKE k \in Nat
  <2> SUFFICES ASSUME k + 1 <= n, Gating(g, Front(chunk, k), r[k].segments, r[k].gate)
               PROVE  Gating(g, Front(chunk, k + 1), r[k + 1].segments, r[k + 1].gate)
    BY <1>2
  <2>1. k < Len(chunk)
    BY <1>1, <1>2
  <2>2. PICK b, s, t, h, a : b = chunk[k + 1] /\ s = Front(chunk, k) /\ t = <<b>>
                          /\ h = r[k].gate /\ a = r[k].segments
    OBVIOUS
  <2>3. b \in Byte
    BY <2>1, <2>2, FrontIs
  <2>4. t \in Seq(Byte)
    BY <2>2, <2>3
  <2>5. s \in Seq(Byte)
    BY <2>1, <2>2, FrontIs
  <2>6. Gating(g, s, a, h)
    BY <2>2
  <2>7. PICK q : q = GateFeedByte(h, b)
    OBVIOUS
  <2>8. Gating(h, t, q.segments, q.gate)
    <3>1. GateOK(h)
      BY <2>6 DEF Gating
    <3> QED BY <2>2, <2>3, <2>7, <3>1, FeedByteGates
  <2>9. Gating(g, s \o t, a \o q.segments, q.gate)
    BY <2>4, <2>5, <2>6, <2>8, GatingJoins
  <2>10. r[k + 1] = GateStep(r[k], b)
    BY <1>1, <1>3, <2>1, <2>2
  <2>11. r[k + 1].segments = a \o q.segments /\ r[k + 1].gate = q.gate
    <3>1. PICK d : d = r[k]
      OBVIOUS
    <3>2. h = d.gate /\ a = d.segments /\ r[k + 1] = GateStep(d, b)
      BY <2>2, <2>10, <3>1
    <3>3. GateStep(d, b) = Gated(q.gate, a \o q.segments)
      BY <2>7, <3>2 DEF GateStep
    <3>4. PICK e, qs, qg : e = r[k + 1] /\ qs = a \o q.segments /\ qg = q.gate
      OBVIOUS
    <3>5. e = Gated(qg, qs)
      BY <3>2, <3>3, <3>4
    <3>6. e.segments = qs /\ e.gate = qg
      BY <3>5 DEF Gated
    <3> QED BY <3>4, <3>6
  <2>12. Front(chunk, k + 1) = s \o t
    BY <2>1, <2>2, FrontIs
  <2> QED BY <2>9, <2>11, <2>12
<1>6. Nat \subseteq T
  <2> HIDE DEF T
  <2> QED BY <1>4, <1>5, SetInduction
<1>7. Gating(g, Front(chunk, n), r[n].segments, r[n].gate)
  BY <1>2, <1>6
<1> QED BY <1>1, <1>3, <1>7, FrontIs

\* And so is the end of the stream, after which the gate holds nothing.
LEMMA FinishGates ==
  ASSUME NEW g, GateOK(g)
  PROVE  /\ Gating(g, <<>>, GateFinish(g).segments, GateFinish(g).gate)
         /\ GateHeld(GateFinish(g).gate) = <<>>
BY FlushGates DEF GateFinish, GateHeld

-----------------------------------------------------------------------------
\* The runs of the other folds, and that there are such runs.

\* The run of Runs, and that there is one.
PushSegment(segment, runs) ==
  IF runs # <<>> /\ runs[Len(runs)].raw = segment.raw
  THEN [runs EXCEPT ![Len(runs)].bytes = Append(@, segment.byte)]
  ELSE Append(runs, [raw |-> segment.raw, bytes |-> <<segment.byte>>])

\* A run of Runs.
IsRunsRun(segments, run) ==
  run = [i \in 0..Len(segments) |->
           IF i = 0 THEN <<>> ELSE PushSegment(segments[i], run[i - 1])]

\* It is chosen as Runs does.
RunsRun(segments) == CHOOSE run : IsRunsRun(segments, run)

\* There is one, and it ends in what Runs returns.
LEMMA RunsRunIs ==
  ASSUME NEW segments, Len(segments) \in Nat
  PROVE  /\ Runs(segments) = RunsRun(segments)[Len(segments)]
         /\ RunsRun(segments)[0] = <<>>
         /\ \A k \in Nat : k < Len(segments) =>
              RunsRun(segments)[k + 1] = PushSegment(segments[k + 1], RunsRun(segments)[k])
<1>1. PICK n : n = Len(segments)
  OBVIOUS
<1>2. n \in Nat
  BY <1>1
<1> DEFINE Upto(k, r) == r = [i \in 0..k |-> IF i = 0 THEN <<>> ELSE PushSegment(segments[i], r[i - 1])]
           Good(k) == \E r : Upto(k, r)
<1>3. Good(0)
  <2> DEFINE r == [i \in 0..0 |-> <<>>]
  <2>1. Upto(0, r)
    OBVIOUS
  <2> HIDE DEF r
  <2> QED BY <2>1
<1>4. ASSUME NEW k \in Nat, Good(k) PROVE Good(k + 1)
  <2>1. PICK r : Upto(k, r)
    BY <1>4
  <2>2. PICK last : last = PushSegment(segments[k + 1], r[k])
    OBVIOUS
  <2> DEFINE h == [i \in 0..(k + 1) |-> IF i <= k THEN r[i] ELSE last]
  <2>3. Upto(k + 1, h)
    <3>1. ASSUME NEW i \in 0..(k + 1)
          PROVE  h[i] = IF i = 0 THEN <<>> ELSE PushSegment(segments[i], h[i - 1])
      <4>1. CASE i <= k
        <5>1. i \in 0..k /\ h[i] = r[i] /\ (i # 0 => i - 1 \in 0..(k + 1) /\ h[i - 1] = r[i - 1])
          BY <4>1
        <5>2. r[i] = IF i = 0 THEN <<>> ELSE PushSegment(segments[i], r[i - 1])
          BY <2>1, <5>1
        <5> QED BY <5>1, <5>2
      <4>2. CASE i = k + 1
        <5>1. i # 0 /\ h[i] = last /\ i - 1 = k /\ h[k] = r[k]
          BY <4>2
        <5> QED BY <2>2, <4>2, <5>1
      <4> QED BY <4>1, <4>2
    <3> HIDE DEF h
    <3>2. h = [i \in 0..(k + 1) |-> h[i]]
      BY DEF h
    <3> QED BY <3>1, <3>2
  <2> HIDE DEF h
  <2> QED BY <2>3
<1> DEFINE T == {k \in Nat : Good(k)}
<1> HIDE DEF Good
<1>5. 0 \in T /\ \A k \in Nat : k \in T => k + 1 \in T
  BY <1>3, <1>4
<1>6. Nat \subseteq T
  <2> HIDE DEF T
  <2> QED BY <1>5, SetInduction
<1>7. \E r : IsRunsRun(segments, r)
  <2>1. Good(n)
    BY <1>2, <1>6
  <2> QED BY <1>1, <2>1, Zenon DEF Good, IsRunsRun
<1>8. PICK r : r = RunsRun(segments)
  OBVIOUS
<1>9. IsRunsRun(segments, r)
  BY <1>7, <1>8 DEF RunsRun
<1>10. r = [i \in 0..n |-> IF i = 0 THEN <<>> ELSE PushSegment(segments[i], r[i - 1])]
  BY <1>1, <1>9, Zenon DEF IsRunsRun
<1>11. r[0] = <<>>
  BY <1>2, <1>10
<1>12. \A k \in Nat : k < n => r[k + 1] = PushSegment(segments[k + 1], r[k])
  <2> SUFFICES ASSUME NEW k \in Nat, k < n PROVE r[k + 1] = PushSegment(segments[k + 1], r[k])
    OBVIOUS
  <2>1. PICK i : i = k + 1
    OBVIOUS
  <2>2. i \in 0..n /\ i # 0 /\ i - 1 = k
    BY <1>2, <2>1
  <2>3. r[i] = PushSegment(segments[i], r[i - 1])
    BY <1>10, <2>2
  <2> QED BY <2>1, <2>2, <2>3
<1>13. Runs(segments) = r[n]
  <2>1. Runs(segments) = RunsRun(segments)[Len(segments)]
    BY Zenon DEF Runs, PushSegment, RunsRun, IsRunsRun
  <2> QED BY <1>1, <1>8, <2>1
<1> QED BY <1>1, <1>8, <1>11, <1>12, <1>13

\* The run of DetectorFeed, and that there is one.
DetectorStep(before, b) == DetectorFeedByte(before.detector, before.items, b)

\* A run of DetectorFeed.
IsDetectorRun(detector_, input, run) ==
  run = [i \in 0..Len(input) |->
           IF i = 0 THEN Detected(detector_, <<>>) ELSE DetectorStep(run[i - 1], input[i])]

\* It is chosen as DetectorFeed does.
DetectorRun(detector_, input) == CHOOSE run : IsDetectorRun(detector_, input, run)

\* There is one, and it ends in what DetectorFeed returns.
LEMMA DetectorRunIs ==
  ASSUME NEW detector_, NEW input, Len(input) \in Nat
  PROVE  /\ DetectorFeed(detector_, input) = DetectorRun(detector_, input)[Len(input)]
         /\ DetectorRun(detector_, input)[0] = Detected(detector_, <<>>)
         /\ \A k \in Nat : k < Len(input) =>
              DetectorRun(detector_, input)[k + 1] = DetectorStep(DetectorRun(detector_, input)[k], input[k + 1])
<1>1. PICK n : n = Len(input)
  OBVIOUS
<1>2. n \in Nat
  BY <1>1
<1> DEFINE Upto(k, r) == r = [i \in 0..k |-> IF i = 0 THEN Detected(detector_, <<>>) ELSE DetectorStep(r[i - 1], input[i])]
           Good(k) == \E r : Upto(k, r)
<1>3. Good(0)
  <2> DEFINE r == [i \in 0..0 |-> Detected(detector_, <<>>)]
  <2>1. Upto(0, r)
    OBVIOUS
  <2> HIDE DEF r
  <2> QED BY <2>1
<1>4. ASSUME NEW k \in Nat, Good(k) PROVE Good(k + 1)
  <2>1. PICK r : Upto(k, r)
    BY <1>4
  <2>2. PICK last : last = DetectorStep(r[k], input[k + 1])
    OBVIOUS
  <2> DEFINE h == [i \in 0..(k + 1) |-> IF i <= k THEN r[i] ELSE last]
  <2>3. Upto(k + 1, h)
    <3>1. ASSUME NEW i \in 0..(k + 1)
          PROVE  h[i] = IF i = 0 THEN Detected(detector_, <<>>) ELSE DetectorStep(h[i - 1], input[i])
      <4>1. CASE i <= k
        <5>1. i \in 0..k /\ h[i] = r[i] /\ (i # 0 => i - 1 \in 0..(k + 1) /\ h[i - 1] = r[i - 1])
          BY <4>1
        <5>2. r[i] = IF i = 0 THEN Detected(detector_, <<>>) ELSE DetectorStep(r[i - 1], input[i])
          BY <2>1, <5>1
        <5> QED BY <5>1, <5>2
      <4>2. CASE i = k + 1
        <5>1. i # 0 /\ h[i] = last /\ i - 1 = k /\ h[k] = r[k]
          BY <4>2
        <5> QED BY <2>2, <4>2, <5>1
      <4> QED BY <4>1, <4>2
    <3> HIDE DEF h
    <3>2. h = [i \in 0..(k + 1) |-> h[i]]
      BY DEF h
    <3> QED BY <3>1, <3>2
  <2> HIDE DEF h
  <2> QED BY <2>3
<1> DEFINE T == {k \in Nat : Good(k)}
<1> HIDE DEF Good
<1>5. 0 \in T /\ \A k \in Nat : k \in T => k + 1 \in T
  BY <1>3, <1>4
<1>6. Nat \subseteq T
  <2> HIDE DEF T
  <2> QED BY <1>5, SetInduction
<1>7. \E r : IsDetectorRun(detector_, input, r)
  <2>1. Good(n)
    BY <1>2, <1>6
  <2> QED BY <1>1, <2>1, Zenon DEF Good, IsDetectorRun
<1>8. PICK r : r = DetectorRun(detector_, input)
  OBVIOUS
<1>9. IsDetectorRun(detector_, input, r)
  BY <1>7, <1>8 DEF DetectorRun
<1>10. r = [i \in 0..n |-> IF i = 0 THEN Detected(detector_, <<>>) ELSE DetectorStep(r[i - 1], input[i])]
  BY <1>1, <1>9, Zenon DEF IsDetectorRun
<1>11. r[0] = Detected(detector_, <<>>)
  BY <1>2, <1>10
<1>12. \A k \in Nat : k < n => r[k + 1] = DetectorStep(r[k], input[k + 1])
  <2> SUFFICES ASSUME NEW k \in Nat, k < n PROVE r[k + 1] = DetectorStep(r[k], input[k + 1])
    OBVIOUS
  <2>1. PICK i : i = k + 1
    OBVIOUS
  <2>2. i \in 0..n /\ i # 0 /\ i - 1 = k
    BY <1>2, <2>1
  <2>3. r[i] = DetectorStep(r[i - 1], input[i])
    BY <1>10, <2>2
  <2> QED BY <2>1, <2>2, <2>3
<1>13. DetectorFeed(detector_, input) = r[n]
  <2>1. DetectorFeed(detector_, input) = DetectorRun(detector_, input)[Len(input)]
    BY Zenon DEF DetectorFeed, DetectorStep, DetectorRun, IsDetectorRun
  <2> QED BY <1>1, <1>8, <2>1
<1> QED BY <1>1, <1>8, <1>11, <1>12, <1>13

\* The run of Emit, and that there is one.
EmitStep(items, renders, before, i) ==
  IF before.failed THEN before
  ELSE IF items[i].type = "semantic"
  THEN EmitBlock(before, items[i], PendingAfter(items, i), renders)
  ELSE Write(before, "verbatim", items[i].bytes)

\* A run of Emit.
IsEmitRun(p, items, renders, run) ==
  run = [i \in 0..Len(items) |->
           IF i = 0 THEN p ELSE EmitStep(items, renders, run[i - 1], i)]

\* It is chosen as Emit does.
EmitRun(p, items, renders) == CHOOSE run : IsEmitRun(p, items, renders, run)

\* There is one, and it ends in what Emit returns.
LEMMA EmitRunIs ==
  ASSUME NEW p, NEW items, NEW renders, Len(items) \in Nat
  PROVE  /\ Emit(p, items, renders) = EmitRun(p, items, renders)[Len(items)]
         /\ EmitRun(p, items, renders)[0] = p
         /\ \A k \in Nat : k < Len(items) =>
              EmitRun(p, items, renders)[k + 1] = EmitStep(items, renders, EmitRun(p, items, renders)[k], k + 1)
<1>1. PICK n : n = Len(items)
  OBVIOUS
<1>2. n \in Nat
  BY <1>1
<1> DEFINE Upto(k, r) == r = [i \in 0..k |-> IF i = 0 THEN p ELSE EmitStep(items, renders, r[i - 1], i)]
           Good(k) == \E r : Upto(k, r)
<1>3. Good(0)
  <2> DEFINE r == [i \in 0..0 |-> p]
  <2>1. Upto(0, r)
    OBVIOUS
  <2> HIDE DEF r
  <2> QED BY <2>1
<1>4. ASSUME NEW k \in Nat, Good(k) PROVE Good(k + 1)
  <2>1. PICK r : Upto(k, r)
    BY <1>4
  <2>2. PICK last : last = EmitStep(items, renders, r[k], k + 1)
    OBVIOUS
  <2> DEFINE h == [i \in 0..(k + 1) |-> IF i <= k THEN r[i] ELSE last]
  <2>3. Upto(k + 1, h)
    <3>1. ASSUME NEW i \in 0..(k + 1)
          PROVE  h[i] = IF i = 0 THEN p ELSE EmitStep(items, renders, h[i - 1], i)
      <4>1. CASE i <= k
        <5>1. i \in 0..k /\ h[i] = r[i] /\ (i # 0 => i - 1 \in 0..(k + 1) /\ h[i - 1] = r[i - 1])
          BY <4>1
        <5>2. r[i] = IF i = 0 THEN p ELSE EmitStep(items, renders, r[i - 1], i)
          BY <2>1, <5>1
        <5> QED BY <5>1, <5>2
      <4>2. CASE i = k + 1
        <5>1. i # 0 /\ h[i] = last /\ i - 1 = k /\ h[k] = r[k]
          BY <4>2
        <5> QED BY <2>2, <4>2, <5>1
      <4> QED BY <4>1, <4>2
    <3> HIDE DEF h
    <3>2. h = [i \in 0..(k + 1) |-> h[i]]
      BY DEF h
    <3> QED BY <3>1, <3>2
  <2> HIDE DEF h
  <2> QED BY <2>3
<1> DEFINE T == {k \in Nat : Good(k)}
<1> HIDE DEF Good
<1>5. 0 \in T /\ \A k \in Nat : k \in T => k + 1 \in T
  BY <1>3, <1>4
<1>6. Nat \subseteq T
  <2> HIDE DEF T
  <2> QED BY <1>5, SetInduction
<1>7. \E r : IsEmitRun(p, items, renders, r)
  <2>1. Good(n)
    BY <1>2, <1>6
  <2> QED BY <1>1, <2>1, Zenon DEF Good, IsEmitRun
<1>8. PICK r : r = EmitRun(p, items, renders)
  OBVIOUS
<1>9. IsEmitRun(p, items, renders, r)
  BY <1>7, <1>8 DEF EmitRun
<1>10. r = [i \in 0..n |-> IF i = 0 THEN p ELSE EmitStep(items, renders, r[i - 1], i)]
  BY <1>1, <1>9, Zenon DEF IsEmitRun
<1>11. r[0] = p
  BY <1>2, <1>10
<1>12. \A k \in Nat : k < n => r[k + 1] = EmitStep(items, renders, r[k], k + 1)
  <2> SUFFICES ASSUME NEW k \in Nat, k < n PROVE r[k + 1] = EmitStep(items, renders, r[k], k + 1)
    OBVIOUS
  <2>1. PICK i : i = k + 1
    OBVIOUS
  <2>2. i \in 0..n /\ i # 0 /\ i - 1 = k
    BY <1>2, <2>1
  <2>3. r[i] = EmitStep(items, renders, r[i - 1], i)
    BY <1>10, <2>2
  <2> QED BY <2>1, <2>2, <2>3
<1>13. Emit(p, items, renders) = r[n]
  <2>1. Emit(p, items, renders) = EmitRun(p, items, renders)[Len(items)]
    BY Zenon DEF Emit, EmitStep, EmitRun, IsEmitRun
  <2> QED BY <1>1, <1>8, <2>1
<1> QED BY <1>1, <1>8, <1>11, <1>12, <1>13

\* The run of EmitExactSource, and that there is one.
IsExactRun(p, items, run) ==
  run = [i \in 0..Len(items) |->
           IF i = 0 THEN p ELSE Write(run[i - 1], "verbatim", items[i].bytes)]

\* It is chosen as EmitExactSource does.
ExactRun(p, items) == CHOOSE run : IsExactRun(p, items, run)

\* There is one, and it ends in what EmitExactSource returns.
LEMMA ExactRunIs ==
  ASSUME NEW p, NEW items, Len(items) \in Nat
  PROVE  /\ EmitExactSource(p, items) = ExactRun(p, items)[Len(items)]
         /\ ExactRun(p, items)[0] = p
         /\ \A k \in Nat : k < Len(items) =>
              ExactRun(p, items)[k + 1] = Write(ExactRun(p, items)[k], "verbatim", items[k + 1].bytes)
<1>1. PICK n : n = Len(items)
  OBVIOUS
<1>2. n \in Nat
  BY <1>1
<1> DEFINE Upto(k, r) == r = [i \in 0..k |-> IF i = 0 THEN p ELSE Write(r[i - 1], "verbatim", items[i].bytes)]
           Good(k) == \E r : Upto(k, r)
<1>3. Good(0)
  <2> DEFINE r == [i \in 0..0 |-> p]
  <2>1. Upto(0, r)
    OBVIOUS
  <2> HIDE DEF r
  <2> QED BY <2>1
<1>4. ASSUME NEW k \in Nat, Good(k) PROVE Good(k + 1)
  <2>1. PICK r : Upto(k, r)
    BY <1>4
  <2>2. PICK last : last = Write(r[k], "verbatim", items[k + 1].bytes)
    OBVIOUS
  <2> DEFINE h == [i \in 0..(k + 1) |-> IF i <= k THEN r[i] ELSE last]
  <2>3. Upto(k + 1, h)
    <3>1. ASSUME NEW i \in 0..(k + 1)
          PROVE  h[i] = IF i = 0 THEN p ELSE Write(h[i - 1], "verbatim", items[i].bytes)
      <4>1. CASE i <= k
        <5>1. i \in 0..k /\ h[i] = r[i] /\ (i # 0 => i - 1 \in 0..(k + 1) /\ h[i - 1] = r[i - 1])
          BY <4>1
        <5>2. r[i] = IF i = 0 THEN p ELSE Write(r[i - 1], "verbatim", items[i].bytes)
          BY <2>1, <5>1
        <5> QED BY <5>1, <5>2
      <4>2. CASE i = k + 1
        <5>1. i # 0 /\ h[i] = last /\ i - 1 = k /\ h[k] = r[k]
          BY <4>2
        <5> QED BY <2>2, <4>2, <5>1
      <4> QED BY <4>1, <4>2
    <3> HIDE DEF h
    <3>2. h = [i \in 0..(k + 1) |-> h[i]]
      BY DEF h
    <3> QED BY <3>1, <3>2
  <2> HIDE DEF h
  <2> QED BY <2>3
<1> DEFINE T == {k \in Nat : Good(k)}
<1> HIDE DEF Good
<1>5. 0 \in T /\ \A k \in Nat : k \in T => k + 1 \in T
  BY <1>3, <1>4
<1>6. Nat \subseteq T
  <2> HIDE DEF T
  <2> QED BY <1>5, SetInduction
<1>7. \E r : IsExactRun(p, items, r)
  <2>1. Good(n)
    BY <1>2, <1>6
  <2> QED BY <1>1, <2>1, Zenon DEF Good, IsExactRun
<1>8. PICK r : r = ExactRun(p, items)
  OBVIOUS
<1>9. IsExactRun(p, items, r)
  BY <1>7, <1>8 DEF ExactRun
<1>10. r = [i \in 0..n |-> IF i = 0 THEN p ELSE Write(r[i - 1], "verbatim", items[i].bytes)]
  BY <1>1, <1>9, Zenon DEF IsExactRun
<1>11. r[0] = p
  BY <1>2, <1>10
<1>12. \A k \in Nat : k < n => r[k + 1] = Write(r[k], "verbatim", items[k + 1].bytes)
  <2> SUFFICES ASSUME NEW k \in Nat, k < n PROVE r[k + 1] = Write(r[k], "verbatim", items[k + 1].bytes)
    OBVIOUS
  <2>1. PICK i : i = k + 1
    OBVIOUS
  <2>2. i \in 0..n /\ i # 0 /\ i - 1 = k
    BY <1>2, <2>1
  <2>3. r[i] = Write(r[i - 1], "verbatim", items[i].bytes)
    BY <1>10, <2>2
  <2> QED BY <2>1, <2>2, <2>3
<1>13. EmitExactSource(p, items) = r[n]
  <2>1. EmitExactSource(p, items) = ExactRun(p, items)[Len(items)]
    BY Zenon DEF EmitExactSource, ExactRun, IsExactRun
  <2> QED BY <1>1, <1>8, <2>1
<1> QED BY <1>1, <1>8, <1>11, <1>12, <1>13

\* The run of EmitSegments, and that there is one.
SegmentStep(runs, renders, before, i) ==
  IF before.failed THEN before ELSE EmitSegment(before, runs[i], renders)

\* A run of EmitSegments.
IsSegmentRun(p, runs, renders, run) ==
  run = [i \in 0..Len(runs) |->
           IF i = 0 THEN p ELSE SegmentStep(runs, renders, run[i - 1], i)]

\* It is chosen as EmitSegments does,
SegmentRun(p, runs, renders) == CHOOSE run : IsSegmentRun(p, runs, renders, run)

\* and this is its end.
EmitRuns(p, runs, renders) == SegmentRun(p, runs, renders)[Len(runs)]

\* There is one.
LEMMA SegmentRunIs ==
  ASSUME NEW p, NEW runs, NEW renders, Len(runs) \in Nat
  PROVE  /\ EmitRuns(p, runs, renders) = SegmentRun(p, runs, renders)[Len(runs)]
         /\ SegmentRun(p, runs, renders)[0] = p
         /\ \A k \in Nat : k < Len(runs) =>
              SegmentRun(p, runs, renders)[k + 1] = SegmentStep(runs, renders, SegmentRun(p, runs, renders)[k], k + 1)
<1>1. PICK n : n = Len(runs)
  OBVIOUS
<1>2. n \in Nat
  BY <1>1
<1> DEFINE Upto(k, r) == r = [i \in 0..k |-> IF i = 0 THEN p ELSE SegmentStep(runs, renders, r[i - 1], i)]
           Good(k) == \E r : Upto(k, r)
<1>3. Good(0)
  <2> DEFINE r == [i \in 0..0 |-> p]
  <2>1. Upto(0, r)
    OBVIOUS
  <2> HIDE DEF r
  <2> QED BY <2>1
<1>4. ASSUME NEW k \in Nat, Good(k) PROVE Good(k + 1)
  <2>1. PICK r : Upto(k, r)
    BY <1>4
  <2>2. PICK last : last = SegmentStep(runs, renders, r[k], k + 1)
    OBVIOUS
  <2> DEFINE h == [i \in 0..(k + 1) |-> IF i <= k THEN r[i] ELSE last]
  <2>3. Upto(k + 1, h)
    <3>1. ASSUME NEW i \in 0..(k + 1)
          PROVE  h[i] = IF i = 0 THEN p ELSE SegmentStep(runs, renders, h[i - 1], i)
      <4>1. CASE i <= k
        <5>1. i \in 0..k /\ h[i] = r[i] /\ (i # 0 => i - 1 \in 0..(k + 1) /\ h[i - 1] = r[i - 1])
          BY <4>1
        <5>2. r[i] = IF i = 0 THEN p ELSE SegmentStep(runs, renders, r[i - 1], i)
          BY <2>1, <5>1
        <5> QED BY <5>1, <5>2
      <4>2. CASE i = k + 1
        <5>1. i # 0 /\ h[i] = last /\ i - 1 = k /\ h[k] = r[k]
          BY <4>2
        <5> QED BY <2>2, <4>2, <5>1
      <4> QED BY <4>1, <4>2
    <3> HIDE DEF h
    <3>2. h = [i \in 0..(k + 1) |-> h[i]]
      BY DEF h
    <3> QED BY <3>1, <3>2
  <2> HIDE DEF h
  <2> QED BY <2>3
<1> DEFINE T == {k \in Nat : Good(k)}
<1> HIDE DEF Good
<1>5. 0 \in T /\ \A k \in Nat : k \in T => k + 1 \in T
  BY <1>3, <1>4
<1>6. Nat \subseteq T
  <2> HIDE DEF T
  <2> QED BY <1>5, SetInduction
<1>7. \E r : IsSegmentRun(p, runs, renders, r)
  <2>1. Good(n)
    BY <1>2, <1>6
  <2> QED BY <1>1, <2>1, Zenon DEF Good, IsSegmentRun
<1>8. PICK r : r = SegmentRun(p, runs, renders)
  OBVIOUS
<1>9. IsSegmentRun(p, runs, renders, r)
  BY <1>7, <1>8 DEF SegmentRun
<1>10. r = [i \in 0..n |-> IF i = 0 THEN p ELSE SegmentStep(runs, renders, r[i - 1], i)]
  BY <1>1, <1>9, Zenon DEF IsSegmentRun
<1>11. r[0] = p
  BY <1>2, <1>10
<1>12. \A k \in Nat : k < n => r[k + 1] = SegmentStep(runs, renders, r[k], k + 1)
  <2> SUFFICES ASSUME NEW k \in Nat, k < n PROVE r[k + 1] = SegmentStep(runs, renders, r[k], k + 1)
    OBVIOUS
  <2>1. PICK i : i = k + 1
    OBVIOUS
  <2>2. i \in 0..n /\ i # 0 /\ i - 1 = k
    BY <1>2, <2>1
  <2>3. r[i] = SegmentStep(runs, renders, r[i - 1], i)
    BY <1>10, <2>2
  <2> QED BY <2>1, <2>2, <2>3
<1>13. EmitRuns(p, runs, renders) = r[n]
  <2>1. EmitRuns(p, runs, renders) = SegmentRun(p, runs, renders)[Len(runs)]
    BY Zenon DEF EmitRuns, SegmentRun, IsSegmentRun
  <2> QED BY <1>1, <1>8, <2>1
<1> QED BY <1>1, <1>8, <1>11, <1>12, <1>13

\* It ends in what EmitSegments returns.
LEMMA EmitSegmentsIs ==
  ASSUME NEW p, NEW gated, NEW renders
  PROVE  EmitSegments(p, gated, renders) =
           EmitRuns([p EXCEPT !.gate = gated.gate], Runs(gated.segments), renders)
BY Zenon DEF EmitSegments, EmitRuns, SegmentRun, IsSegmentRun, SegmentStep

-----------------------------------------------------------------------------
\* Segments gathered into runs.

\* The last byte of a text.
LastOf(t) == t[Len(t)]

\* No unsafe control but a carriage return before a line feed, which for the
\* last byte may be still to come.
BytesClean(t, more) ==
  \A k \in 1..Len(t) : IsUnsafeControl(t[k]) =>
    t[k] = "cr" /\ IF k < Len(t) THEN t[k + 1] = "lf" ELSE more

\* Clean by itself, whatever follows.
Clean(t) == BytesClean(t, FALSE)

\* A clean text with one byte more.
LEMMA CleanGrows ==
  ASSUME NEW t \in Seq(Byte), NEW b \in Byte, NEW m \in BOOLEAN, NEW n \in BOOLEAN,
         BytesClean(t, m), m => b = "lf", IsUnsafeControl(b) => b = "cr" /\ n
  PROVE  BytesClean(t \o <<b>>, n)
<1>1. PICK s, l : s = t \o <<b>> /\ l = Len(t)
  OBVIOUS
<1>2. l \in Nat
  BY <1>1, LenProperties
<1>3. <<b>> \in Seq(Byte) /\ Len(<<b>>) = 1 /\ <<b>>[1] = b
  OBVIOUS
<1>4. /\ s \in Seq(Byte) /\ Len(s) = l + Len(<<b>>)
      /\ \A i \in 1..l : s[i] = t[i]
      /\ \A j \in 1..Len(<<b>>) : s[l + j] = <<b>>[j]
  <2>1. <<b>> \in Seq(Byte)
    BY <1>3
  <2> QED BY <1>1, <2>1, JoinIs
<1>5. Len(s) = l + 1 /\ s[l + 1] = b
  BY <1>3, <1>4
<1>6. ASSUME NEW k \in 1..(l + 1), IsUnsafeControl(s[k])
      PROVE  s[k] = "cr" /\ IF k < l + 1 THEN s[k + 1] = "lf" ELSE n
  <2>1. CASE k = l + 1
    BY <1>2, <1>5, <1>6, <2>1
  <2>2. CASE k < l
    <3>1. k \in 1..l /\ k + 1 \in 1..l
      BY <1>2, <2>2
    <3>2. s[k] = t[k] /\ s[k + 1] = t[k + 1]
      BY <1>4, <3>1
    <3>3. t[k] = "cr" /\ t[k + 1] = "lf"
      BY <1>1, <1>6, <2>2, <3>1, <3>2 DEF BytesClean
    <3> QED BY <1>2, <2>2, <3>2, <3>3
  <2>3. CASE k = l
    <3>1. k \in 1..l /\ ~(k < l)
      BY <1>2, <2>3
    <3>2. s[k] = t[k]
      BY <1>4, <3>1
    <3>3. t[k] = "cr" /\ m
      BY <1>1, <1>6, <3>1, <3>2 DEF BytesClean
    <3> QED BY <1>2, <1>5, <2>3, <3>2, <3>3
  <2> QED BY <1>2, <2>1, <2>2, <2>3
<1>7. BytesClean(s, n)
  BY <1>5, <1>6 DEF BytesClean
<1> QED BY <1>1, <1>7

\* The end of a clean text is clean.
LEMMA CleanEnds ==
  ASSUME NEW s \in Seq(Byte), NEW t \in Seq(Byte), NEW m \in BOOLEAN, BytesClean(s \o t, m)
  PROVE  BytesClean(t, m)
<1>1. PICK r, l, n : r = s \o t /\ l = Len(s) /\ n = Len(t)
  OBVIOUS
<1>2. l \in Nat /\ n \in Nat
  BY <1>1, LenProperties
<1>3. Len(r) = l + n /\ (\A j \in 1..n : r[l + j] = t[j])
  BY <1>1, JoinIs
<1>4. ASSUME NEW j \in 1..n, IsUnsafeControl(t[j])
      PROVE  t[j] = "cr" /\ IF j < n THEN t[j + 1] = "lf" ELSE m
  <2>1. PICK k : k = l + j
    OBVIOUS
  <2>2. k \in 1..(l + n) /\ r[k] = t[j]
    BY <1>2, <1>3, <2>1
  <2>3. r[k] = "cr" /\ IF k < l + n THEN r[k + 1] = "lf" ELSE m
    BY <1>1, <1>3, <1>4, <2>2 DEF BytesClean
  <2>4. CASE j < n
    <3>1. j + 1 \in 1..n /\ k + 1 = l + (j + 1) /\ k < l + n
      BY <1>2, <2>1, <2>4
    <3>2. r[k + 1] = t[j + 1]
      BY <1>3, <3>1
    <3> QED BY <2>2, <2>3, <2>4, <3>1, <3>2
  <2>5. CASE ~(j < n)
    BY <1>2, <2>1, <2>2, <2>3, <2>5
  <2> QED BY <2>4, <2>5
<1> QED BY <1>1, <1>4 DEF BytesClean

\* The runs of segments of one kind.
RunPieces == [raw : BOOLEAN, bytes : Seq(Byte) \ {<<>>}]

\* The segment after the first n is the line feed of a line ending.
LfNext(segs, n) == n < Len(segs) /\ ~segs[n + 1].raw /\ segs[n + 1].byte = "lf"

\* What the runs of the first n segments say.
RunsSay(segs, n, rs) ==
  /\ rs \in Seq(RunPieces)
  /\ TextOf(rs) = Front(BytesOf(segs), n)
  /\ Len(rs) = 0 <=> n = 0
  /\ n > 0 => /\ rs[1].raw = segs[1].raw
              /\ rs[Len(rs)].raw = segs[n].raw
              /\ LastOf(rs[Len(rs)].bytes) = segs[n].byte

\* The text among them is clean.
RunsClean(segs, n, rs) ==
  \A i \in 1..Len(rs) : ~rs[i].raw => BytesClean(rs[i].bytes, i = Len(rs) /\ LfNext(segs, n))

\* After raw bytes, text only on a new line.
RunsLine(rs) ==
  \A i \in 1..Len(rs) : i < Len(rs) /\ rs[i].raw /\ ~rs[i + 1].raw => LastOf(rs[i].bytes) = "lf"

\* Runs have text.
LEMMA PiecesHaveText == HasText(RunPieces)
BY DEF HasText, RunPieces

\* A text with one byte more ends in that byte.
LEMMA LastJoined ==
  ASSUME NEW t \in Seq(Byte), NEW b \in Byte
  PROVE  /\ t \o <<b>> \in Seq(Byte) \ {<<>>}
         /\ LastOf(t \o <<b>>) = b
         /\ Append(t, b) = t \o <<b>>
<1>1. PICK s : s = Append(t, b)
  OBVIOUS
<1>2. s \in Seq(Byte) /\ s # <<>> /\ Len(s) = Len(t) + 1 /\ s[Len(t) + 1] = b
  BY <1>1, AppendProperties
<1>3. s = t \o <<b>>
  BY <1>1, AppendIsConcat
<1> QED BY <1>1, <1>2, <1>3 DEF LastOf

\* One segment more.
LEMMA RunsStep ==
  ASSUME NEW segs \in Seq(Segs), CleanSegs(segs), LineSegs(segs),
         NEW n \in Nat, n < Len(segs),
         NEW rs, RunsSay(segs, n, rs), RunsClean(segs, n, rs), RunsLine(rs)
  PROVE  LET qs == PushSegment(segs[n + 1], rs)
         IN RunsSay(segs, n + 1, qs) /\ RunsClean(segs, n + 1, qs) /\ RunsLine(qs)
<1>1. PICK x, b, l, qs : /\ x = segs[n + 1] /\ b = x.byte /\ l = Len(rs)
                         /\ qs = PushSegment(x, rs)
  OBVIOUS
<1>2. rs \in Seq(RunPieces)
  BY DEF RunsSay
<1>3. l \in Nat /\ Len(segs) \in Nat
  BY <1>1, <1>2, LenProperties
<1>4. n + 1 \in 1..Len(segs)
  BY <1>3
<1>5. x \in Segs
  BY <1>1, <1>4, ElementOfSeq
<1>6. b \in Byte /\ x.raw \in BOOLEAN
  BY <1>1, <1>5 DEF Segs
<1>7. \A i \in 1..l : rs[i] \in RunPieces
  BY <1>1, <1>2, ElementOfSeq
<1>8. PICK w, v : w = Front(BytesOf(segs), n) /\ v = Front(BytesOf(segs), n + 1)
  OBVIOUS
<1>9. w \in Seq(Byte) /\ v = w \o <<b>>
  <2>1. BytesOf(segs) \in Seq(Byte) /\ Len(BytesOf(segs)) = Len(segs)
    BY BytesAreText
  <2>2. /\ Front(BytesOf(segs), n + 1) = Front(BytesOf(segs), n) \o <<BytesOf(segs)[n + 1]>>
        /\ Front(BytesOf(segs), n) \in Seq(Byte)
    BY <2>1, FrontIs
  <2>3. BytesOf(segs)[n + 1] = b
    BY <1>1, <1>4 DEF BytesOf
  <2> QED BY <1>8, <2>2, <2>3
<1>10. <<b>> \in Seq(Byte) /\ <<b>> # <<>> /\ LastOf(<<b>>) = b
  BY <1>6 DEF LastOf
<1>11. ~x.raw /\ IsUnsafeControl(b) => b = "cr" /\ LfNext(segs, n + 1)
  BY <1>1, <1>4 DEF CleanSegs, LfNext
<1>12. CASE l # 0 /\ rs[l].raw = x.raw
  <2>1. PICK t, u, raw : t = rs[l].bytes /\ u = Append(t, b) /\ raw = rs[l].raw
    OBVIOUS
  <2>2. l \in 1..l /\ l \in 1..Len(rs)
    BY <1>1, <1>3, <1>12
  <2>3. t \in Seq(Byte) /\ rs[l] = [raw |-> raw, bytes |-> t] /\ raw \in BOOLEAN
    BY <1>7, <2>1, <2>2 DEF RunPieces
  <2>4. u = t \o <<b>> /\ u \in Seq(Byte) \ {<<>>} /\ LastOf(u) = b
    BY <1>6, <2>1, <2>3, LastJoined
  <2>5. PICK y : y = [raw |-> raw, bytes |-> u]
    OBVIOUS
  <2>6. y \in RunPieces /\ y.raw = raw /\ y.bytes = u
    BY <2>3, <2>4, <2>5 DEF RunPieces
  <2>7. qs = [rs EXCEPT ![l] = y]
    <3>1. rs # <<>>
      BY <1>1, <1>12
    <3>2. qs = [rs EXCEPT ![l].bytes = Append(@, b)]
      BY <1>1, <1>12, <3>1 DEF PushSegment
    <3>3. qs = [rs EXCEPT ![l] = [rs[l] EXCEPT !.bytes = Append(rs[l].bytes, b)]]
      BY <3>2
    <3>4. [rs[l] EXCEPT !.bytes = Append(rs[l].bytes, b)] = y
      <4>1. PICK z : z = rs[l]
        OBVIOUS
      <4>2. z = [raw |-> raw, bytes |-> t] /\ z.bytes = t
        BY <2>1, <2>3, <4>1
      <4>3. [z EXCEPT !.bytes = u] = y
        BY <2>5, <4>2
      <4> QED BY <2>1, <4>1, <4>3
    <3> QED BY <3>3, <3>4
  <2>8. qs \in Seq(RunPieces) /\ Len(qs) = l /\ qs[l] = y /\ \A i \in 1..l : i # l => qs[i] = rs[i]
    BY <1>1, <1>2, <2>2, <2>6, <2>7, ExceptSeq
  <2>9. TextOf(qs) = TextOf(rs) \o <<b>>
    <3>1. Len(rs) # 0 /\ Len(qs) = Len(rs)
      BY <1>1, <1>12, <2>8
    <3>2. \A i \in 1..Len(rs) : i # Len(rs) => qs[i].bytes = rs[i].bytes
      BY <1>1, <2>8
    <3>3. qs[Len(rs)].bytes = rs[Len(rs)].bytes \o <<b>>
      BY <1>1, <2>1, <2>4, <2>6, <2>8
    <3>4. <<b>> \in Seq(Byte)
      BY <1>10
    <3>5. qs \in Seq(RunPieces)
      BY <2>8
    <3> QED BY <1>2, <3>1, <3>2, <3>3, <3>4, <3>5, PiecesHaveText, LengthenedText
  <2>10. qs[1].raw = rs[1].raw
    <3>1. 1 \in 1..l
      BY <1>3, <1>12
    <3> QED BY <2>1, <2>6, <2>8, <3>1
  <2>11. n # 0
    BY <1>1, <1>12 DEF RunsSay
  <2>12. RunsSay(segs, n + 1, qs)
    <3>1. TextOf(rs) = w
      BY <1>8 DEF RunsSay
    <3>2. TextOf(qs) = Front(BytesOf(segs), n + 1)
      BY <1>8, <1>9, <2>9, <3>1
    <3>3. rs[1].raw = segs[1].raw
      BY <2>11 DEF RunsSay
    <3>4. qs[Len(qs)].raw = segs[n + 1].raw /\ LastOf(qs[Len(qs)].bytes) = segs[n + 1].byte
      BY <1>1, <1>12, <2>1, <2>4, <2>6, <2>8
    <3>5. Len(qs) # 0
      BY <1>12, <2>8
    <3> QED BY <2>8, <2>10, <3>2, <3>3, <3>4, <3>5 DEF RunsSay
  <2>13. RunsClean(segs, n + 1, qs)
    <3> SUFFICES ASSUME NEW i \in 1..l, ~qs[i].raw
                 PROVE  BytesClean(qs[i].bytes, i = l /\ LfNext(segs, n + 1))
      BY <2>8 DEF RunsClean
    <3>1. CASE i # l
      <4>1. qs[i] = rs[i] /\ BytesClean(rs[i].bytes, i = l /\ LfNext(segs, n))
        BY <1>1, <2>8, <3>1 DEF RunsClean
      <4> QED BY <3>1, <4>1 DEF BytesClean
    <3>2. CASE i = l
      <4>1. PICK m, k \in BOOLEAN : m = LfNext(segs, n) /\ k = LfNext(segs, n + 1)
        BY DEF LfNext
      <4>2. BytesClean(t, m)
        <5>1. BytesClean(t, l = l /\ LfNext(segs, n))
          BY <1>1, <2>1, <2>2, <2>6, <2>8, <3>2 DEF RunsClean
        <5> QED BY <4>1, <5>1 DEF BytesClean
      <4>3. m => b = "lf"
        BY <1>1, <4>1 DEF LfNext
      <4>4. IsUnsafeControl(b) => b = "cr" /\ k
        BY <1>11, <1>12, <2>1, <2>6, <2>8, <3>2, <4>1
      <4>5. BytesClean(t \o <<b>>, k)
        BY <1>6, <2>3, <4>2, <4>3, <4>4, CleanGrows
      <4>6. qs[i].bytes = t \o <<b>>
        BY <2>4, <2>6, <2>8, <3>2
      <4> QED BY <3>2, <4>1, <4>5, <4>6 DEF BytesClean
    <3> QED BY <3>1, <3>2
  <2>14. RunsLine(qs)
    <3> SUFFICES ASSUME NEW i \in 1..l, i < l, qs[i].raw, ~qs[i + 1].raw
                 PROVE  LastOf(qs[i].bytes) = "lf"
      BY <2>8 DEF RunsLine
    <3>1. i # l /\ i + 1 \in 1..l
      BY <1>3
    <3>2. qs[i] = rs[i] /\ qs[i + 1].raw = rs[i + 1].raw
      BY <2>1, <2>6, <2>8, <3>1
    <3> QED BY <1>1, <3>2 DEF RunsLine
  <2> QED BY <1>1, <2>12, <2>13, <2>14
<1>13. CASE ~(l # 0 /\ rs[l].raw = x.raw)
  <2>1. PICK y : y = [raw |-> x.raw, bytes |-> <<b>>]
    OBVIOUS
  <2>2. y \in RunPieces /\ y.raw = x.raw /\ y.bytes = <<b>>
    BY <1>6, <1>10, <2>1 DEF RunPieces
  <2>3. qs = Append(rs, y)
    <3>1. l = 0 => rs = <<>>
      BY <1>1, <1>2, EmptySeq
    <3> QED BY <1>1, <1>13, <2>1, <3>1 DEF PushSegment
  <2>4. qs \in Seq(RunPieces) /\ Len(qs) = l + 1 /\ qs[l + 1] = y /\ \A i \in 1..l : qs[i] = rs[i]
    BY <1>1, <1>2, <2>2, <2>3, AppendProperties
  <2>5. TextOf(qs) = TextOf(rs) \o <<b>>
    BY <1>2, <2>2, <2>3, PiecesHaveText, AppendedText
  <2>6. RunsSay(segs, n + 1, qs)
    <3>1. TextOf(rs) = w
      BY <1>8 DEF RunsSay
    <3>2. TextOf(qs) = Front(BytesOf(segs), n + 1)
      BY <1>8, <1>9, <2>5, <3>1
    <3>3. qs[1].raw = segs[1].raw
      <4>1. CASE l = 0
        <5>1. n = 0 /\ qs[1] = y
          BY <1>1, <2>4, <4>1 DEF RunsSay
        <5> QED BY <1>1, <2>2, <5>1
      <4>2. CASE l # 0
        <5>1. n # 0 /\ 1 \in 1..l
          BY <1>1, <1>3, <4>2 DEF RunsSay
        <5> QED BY <2>4, <5>1 DEF RunsSay
      <4> QED BY <4>1, <4>2
    <3>4. qs[Len(qs)].raw = segs[n + 1].raw /\ LastOf(qs[Len(qs)].bytes) = segs[n + 1].byte
      BY <1>1, <1>10, <2>2, <2>4
    <3>5. Len(qs) # 0
      BY <1>3, <2>4
    <3> QED BY <2>4, <3>2, <3>3, <3>4, <3>5 DEF RunsSay
  <2>7. RunsClean(segs, n + 1, qs)
    <3> SUFFICES ASSUME NEW i \in 1..(l + 1), ~qs[i].raw
                 PROVE  BytesClean(qs[i].bytes, i = l + 1 /\ LfNext(segs, n + 1))
      BY <2>4 DEF RunsClean
    <3>1. CASE i # l + 1
      <4>1. i \in 1..l
        BY <1>3, <3>1
      <4>2. qs[i] = rs[i] /\ BytesClean(rs[i].bytes, i = l /\ LfNext(segs, n))
        BY <1>1, <2>4, <4>1 DEF RunsClean
      <4>3. ~(i = l /\ LfNext(segs, n))
        <5> SUFFICES ASSUME i = l, LfNext(segs, n) PROVE FALSE
          OBVIOUS
        <5>1. ~x.raw /\ ~rs[l].raw
          BY <1>1, <4>2 DEF LfNext
        <5>2. rs[l].raw \in BOOLEAN /\ l # 0
          BY <1>7, <4>1 DEF RunPieces
        <5> QED BY <1>6, <1>13, <5>1, <5>2
      <4> QED BY <3>1, <4>2, <4>3 DEF BytesClean
    <3>2. CASE i = l + 1
      <4>1. qs[i].bytes = <<b>> /\ ~x.raw
        BY <2>2, <2>4, <3>2
      <4>2. Len(<<b>>) = 1 /\ <<b>>[1] = b
        OBVIOUS
      <4> QED BY <1>11, <3>2, <4>1, <4>2 DEF BytesClean
    <3> QED BY <3>1, <3>2
  <2>8. RunsLine(qs)
    <3> SUFFICES ASSUME NEW i \in 1..(l + 1), i < l + 1, qs[i].raw, ~qs[i + 1].raw
                 PROVE  LastOf(qs[i].bytes) = "lf"
      BY <2>4 DEF RunsLine
    <3>1. i \in 1..l /\ qs[i] = rs[i]
      BY <1>3, <2>4
    <3>2. CASE i < l
      <4>1. i + 1 \in 1..l
        BY <1>3, <3>1, <3>2
      <4>2. qs[i + 1] = rs[i + 1]
        BY <2>4, <4>1
      <4> QED BY <1>1, <3>1, <3>2, <4>2 DEF RunsLine
    <3>3. CASE i = l
      <4>1. n > 0 /\ l # 0
        BY <1>1, <3>1, <3>3 DEF RunsSay
      <4>2. segs[n].raw /\ LastOf(rs[l].bytes) = segs[n].byte
        BY <1>1, <3>1, <3>3, <4>1 DEF RunsSay
      <4>3. ~x.raw
        BY <2>2, <2>4, <3>3
      <4>4. n \in 1..Len(segs)
        BY <1>3, <4>1
      <4>5. segs[n].byte = "lf"
        BY <1>1, <4>2, <4>3, <4>4 DEF LineSegs
      <4> QED BY <3>1, <3>3, <4>2, <4>5
    <3> QED BY <1>3, <3>1, <3>2, <3>3
  <2> QED BY <1>1, <2>6, <2>7, <2>8
<1> QED BY <1>12, <1>13

\* The runs of segments that passed a gate.
RunsOf(segs, rs) ==
  /\ rs \in Seq(RunPieces)
  /\ TextOf(rs) = BytesOf(segs)
  /\ Len(rs) = 0 <=> Len(segs) = 0
  /\ Len(segs) > 0 => /\ rs[1].raw = segs[1].raw
                      /\ rs[Len(rs)].raw = segs[Len(segs)].raw
                      /\ LastOf(rs[Len(rs)].bytes) = segs[Len(segs)].byte
  /\ \A i \in 1..Len(rs) : ~rs[i].raw => Clean(rs[i].bytes)
  /\ RunsLine(rs)

\* The runs of segments are as they should be.
LEMMA RunsAre ==
  ASSUME NEW segs \in Seq(Segs), CleanSegs(segs), LineSegs(segs)
  PROVE  RunsOf(segs, Runs(segs))
<1>1. PICK r, m : r = RunsRun(segs) /\ m = Len(segs)
  OBVIOUS
<1>2. m \in Nat /\ Len(segs) \in Nat
  BY <1>1, LenProperties
<1>3. /\ Runs(segs) = r[m] /\ r[0] = <<>>
      /\ \A k \in Nat : k < m => r[k + 1] = PushSegment(segs[k + 1], r[k])
  BY <1>1, <1>2, RunsRunIs
<1> DEFINE T == {k \in Nat : k <= m => RunsSay(segs, k, r[k]) /\ RunsClean(segs, k, r[k]) /\ RunsLine(r[k])}
<1>4. 0 \in T
  <2>1. <<>> \in Seq(RunPieces) /\ Len(<<>>) = 0
    OBVIOUS
  <2>2. BytesOf(segs) \in Seq(Byte)
    BY BytesAreText
  <2>3. TextOf(<<>>) = Front(BytesOf(segs), 0)
    BY <2>2, NoText, FrontIs
  <2>4. RunsSay(segs, 0, <<>>)
    BY <2>1, <2>3 DEF RunsSay
  <2>5. RunsClean(segs, 0, <<>>) /\ RunsLine(<<>>)
    BY <2>1 DEF RunsClean, RunsLine
  <2> QED BY <1>3, <2>4, <2>5
<1>5. \A k \in Nat : k \in T => k + 1 \in T
  <2> TAKE k \in Nat
  <2> SUFFICES ASSUME k + 1 <= m, RunsSay(segs, k, r[k]), RunsClean(segs, k, r[k]), RunsLine(r[k])
               PROVE  RunsSay(segs, k + 1, r[k + 1]) /\ RunsClean(segs, k + 1, r[k + 1]) /\ RunsLine(r[k + 1])
    BY <1>2
  <2>1. k < m /\ k < Len(segs)
    BY <1>1, <1>2
  <2>2. PICK rs, qs : rs = r[k] /\ qs = PushSegment(segs[k + 1], rs)
    OBVIOUS
  <2>3. RunsSay(segs, k, rs) /\ RunsClean(segs, k, rs) /\ RunsLine(rs)
    BY <2>2
  <2>4. RunsSay(segs, k + 1, qs) /\ RunsClean(segs, k + 1, qs) /\ RunsLine(qs)
    BY <2>1, <2>2, <2>3, RunsStep
  <2>5. r[k + 1] = qs
    BY <1>3, <2>1, <2>2
  <2> QED BY <2>4, <2>5
<1>6. Nat \subseteq T
  <2> HIDE DEF T
  <2> QED BY <1>4, <1>5, SetInduction
<1>7. PICK rs : rs = r[m]
  OBVIOUS
<1>8. RunsSay(segs, m, rs) /\ RunsClean(segs, m, rs) /\ RunsLine(rs)
  BY <1>2, <1>6, <1>7
<1>9. \A i \in 1..Len(rs) : ~rs[i].raw => Clean(rs[i].bytes)
  <2>1. ~LfNext(segs, m)
    BY <1>1, <1>2 DEF LfNext
  <2> QED BY <1>8, <2>1 DEF RunsClean, Clean, BytesClean
<1>10. Front(BytesOf(segs), m) = BytesOf(segs)
  <2>1. BytesOf(segs) \in Seq(Byte) /\ Len(BytesOf(segs)) = m
    BY <1>1, BytesAreText
  <2> QED BY <2>1, FrontIs
<1>11. RunsOf(segs, rs)
  BY <1>1, <1>8, <1>9, <1>10 DEF RunsSay, RunsOf
<1> QED BY <1>3, <1>7, <1>11

-----------------------------------------------------------------------------
\* Lines and fences.

\* A line that is the fence.
IsFenceLine(line, fence) == line \in {fence \o <<"lf">>, fence \o <<"cr", "lf">>}

\* A text within a line.
NoLf(t) == \A k \in 1..Len(t) : t[k] # "lf"

\* A text of whole lines.
WholeLines(t) == Len(t) # 0 => LastOf(t) = "lf"

\* A byte that ends no line leaves the text within it.
LEMMA NoLfGrows ==
  ASSUME NEW t \in Seq(Byte), NoLf(t), NEW b \in Byte, b # "lf"
  PROVE  NoLf(Append(t, b))
<1>1. PICK s : s = Append(t, b)
  OBVIOUS
<1>2. Len(t) \in Nat
  BY LenProperties
<1>3. Len(s) = Len(t) + 1 /\ s[Len(t) + 1] = b /\ \A i \in 1..Len(t) : s[i] = t[i]
  BY <1>1, AppendProperties
<1>4. \A k \in 1..(Len(t) + 1) : k = Len(t) + 1 \/ k \in 1..Len(t)
  BY <1>2
<1>5. \A k \in 1..(Len(t) + 1) : s[k] # "lf"
  BY <1>3, <1>4 DEF NoLf
<1> QED BY <1>1, <1>3, <1>5 DEF NoLf

\* The two bytes of line endings.
LEMMA LineEndBytes == "cr" \in Byte /\ "lf" \in Byte
BY DEF Byte

\* Two equal texts end in the same byte.
LEMMA LastCancels ==
  ASSUME NEW s \in Seq(Byte), NEW t \in Seq(Byte), NEW b \in Byte, NEW c \in Byte, s \o <<b>> = t \o <<c>>
  PROVE  s = t /\ b = c
<1>1. s \o <<b>> = Append(s, b) /\ t \o <<c>> = Append(t, c)
  BY LastJoined
<1>2. Append(s, b) = Append(t, c)
  BY <1>1
<1> QED BY <1>2, AppendInjective

\* What StripSuffix takes off.
LEMMA StripIs ==
  ASSUME NEW t \in Seq(Byte), NEW b \in Byte
  PROVE  /\ StripSuffix(t \o <<b>>, b) = t
         /\ (Len(t) = 0 \/ LastOf(t) # b) => StripSuffix(t, b) = t
<1>1. PICK s, n : s = t \o <<b>> /\ n = Len(t)
  OBVIOUS
<1>2. n \in Nat
  BY <1>1, LenProperties
<1>3. s = Append(t, b) /\ s # <<>> /\ s \in Seq(Byte)
  BY <1>1, LastJoined
<1>4. Len(s) = n + 1 /\ s[n + 1] = b /\ \A i \in 1..n : s[i] = t[i]
  BY <1>1, <1>3, AppendProperties
<1>5. StripSuffix(s, b) = SubSeq(s, 1, n)
  BY <1>2, <1>3, <1>4 DEF StripSuffix
<1>6. SubSeq(s, 1, n) = t
  <2>1. PICK f : f = SubSeq(s, 1, n)
    OBVIOUS
  <2>2. \A i \in 1..n : s[i] \in Byte
    <3> TAKE i \in 1..n
    <3>1. i \in 1..Len(t)
      BY <1>1
    <3> QED BY <1>4, <3>1, ElementOfSeq
  <2>3. f \in Seq(Byte) /\ Len(f) = (IF 1 <= n THEN n - 1 + 1 ELSE 0)
        /\ \A i \in 1..(n - 1 + 1) : f[i] = s[1 + i - 1]
    BY <1>2, <2>1, <2>2, SubSeqProperties
  <2>4. Len(f) = n /\ \A i \in 1..n : f[i] = t[i]
    BY <1>2, <1>4, <2>3
  <2> QED BY <1>1, <2>1, <2>3, <2>4, SeqEqual
<1>7. (Len(t) = 0 \/ LastOf(t) # b) => StripSuffix(t, b) = t
  <2>1. Len(t) = 0 => t = <<>>
    BY EmptySeq
  <2> QED BY <2>1 DEF StripSuffix, LastOf
<1> QED BY <1>1, <1>5, <1>6, <1>7

\* A line is stripped to the fence exactly when it is a fence line.
LEMMA FenceLineIs ==
  ASSUME NEW fence \in Seq(Byte), Len(fence) # 0, LastOf(fence) # "cr",
         NEW line \in Seq(Byte), NEW whole, whole = line \o <<"lf">>
  PROVE  StripEol(whole) = fence <=> IsFenceLine(whole, fence)
<1>1. StripSuffix(whole, "lf") = line
  BY LineEndBytes, StripIs
<1>2. StripEol(whole) = StripSuffix(line, "cr")
  BY <1>1 DEF StripEol
<1>3. <<"cr">> \in Seq(Byte) /\ <<"lf">> \in Seq(Byte)
  BY LineEndBytes
<1>4. fence \o <<"cr", "lf">> = (fence \o <<"cr">>) \o <<"lf">>
  <2>1. <<"cr">> \o <<"lf">> = <<"cr", "lf">>
    BY LineEndBytes, PairIs
  <2>2. <<"cr">> \in Seq(Byte)
    BY <1>3
  <2>3. <<"lf">> \in Seq(Byte)
    BY <1>3
  <2>4. (fence \o <<"cr">>) \o <<"lf">> = fence \o (<<"cr">> \o <<"lf">>)
    BY <2>2, <2>3, Associates
  <2> QED BY <2>1, <2>4
<1>5. fence \o <<"cr">> \in Seq(Byte)
  BY LineEndBytes, LastJoined
<1>6. IsFenceLine(whole, fence) <=> (line = fence \/ line = fence \o <<"cr">>)
  <2>1. whole = fence \o <<"lf">> <=> line = fence
    BY LineEndBytes, LastCancels
  <2>2. whole = (fence \o <<"cr">>) \o <<"lf">> <=> line = fence \o <<"cr">>
    BY <1>5, LineEndBytes, LastCancels
  <2> QED BY <1>4, <2>1, <2>2 DEF IsFenceLine
<1>7. CASE Len(line) # 0 /\ LastOf(line) = "cr"
  <2>1. line # <<>>
    BY <1>7
  <2>2. PICK s \in Seq(Byte), c \in Byte : line = Append(s, c)
    BY <2>1, SequenceEmptyOrAppend
  <2>3. line = s \o <<c>> /\ LastOf(line) = c
    <3>1. Append(s, c) = s \o <<c>> /\ LastOf(s \o <<c>>) = c
      BY LastJoined
    <3> QED BY <2>2, <3>1
  <2>4. line = s \o <<"cr">>
    BY <1>7, <2>3
  <2>5. StripSuffix(line, "cr") = s
    BY <2>4, LineEndBytes, StripIs
  <2>6. line # fence
    BY <1>7
  <2>7. line = fence \o <<"cr">> <=> s = fence
    BY <2>4, LineEndBytes, LastCancels
  <2> QED BY <1>2, <1>6, <2>5, <2>6, <2>7
<1>8. CASE ~(Len(line) # 0 /\ LastOf(line) = "cr")
  <2>1. StripSuffix(line, "cr") = line
    BY <1>8, LineEndBytes, StripIs
  <2>2. line # fence \o <<"cr">>
    <3>1. fence \o <<"cr">> # <<>> /\ LastOf(fence \o <<"cr">>) = "cr"
      BY LineEndBytes, LastJoined
    <3>2. Len(fence \o <<"cr">>) # 0
      BY <1>5, <3>1, EmptySeq
    <3> QED BY <1>8, <3>1, <3>2
  <2> QED BY <1>2, <1>6, <2>1, <2>2
<1> QED BY <1>7, <1>8

\* A line with its ending.
Ended(line, whole) == whole = line \o <<"lf">>

\* A text of whole lines with one more: the fence ends there are those there
\* were, and its own if it is one.
LEMMA LineAdded ==
  ASSUME NEW body \in Seq(Byte), WholeLines(body), NEW line \in Seq(Byte), NoLf(line),
         NEW whole, Ended(line, whole), NEW fence
  PROVE  /\ IsFenceLine(whole, fence) =>
              FenceEnds(body \o whole, fence) = FenceEnds(body, fence) \cup {Len(body) + Len(whole)}
         /\ ~IsFenceLine(whole, fence) => FenceEnds(body \o whole, fence) = FenceEnds(body, fence)
<1>1. PICK t, l, w, n : /\ t = body \o whole /\ l = Len(body) /\ w = Len(whole) /\ n = l + w
  OBVIOUS
<1>2. /\ whole \in Seq(Byte) /\ w = Len(line) + 1 /\ whole[w] = "lf"
      /\ \A i \in 1..w : i # w => whole[i] # "lf"
  <2>1. whole = Append(line, "lf")
    BY LineEndBytes, LastJoined DEF Ended
  <2>2. /\ whole \in Seq(Byte) /\ Len(whole) = Len(line) + 1 /\ whole[Len(line) + 1] = "lf"
        /\ \A i \in 1..Len(line) : whole[i] = line[i]
    BY <2>1, LineEndBytes, AppendProperties
  <2>3. Len(line) \in Nat
    BY LenProperties
  <2>4. \A i \in 1..w : i # w => i \in 1..Len(line)
    BY <1>1, <2>2, <2>3
  <2> QED BY <1>1, <2>2, <2>4 DEF NoLf
<1>3. l \in Nat /\ w \in Nat /\ w > 0 /\ n \in Nat /\ n > l
  <2>1. Len(line) \in Nat /\ l \in Nat
    BY <1>1, LenProperties
  <2> QED BY <1>1, <1>2, <2>1
<1>4. /\ t \in Seq(Byte) /\ Len(t) = n
      /\ \A i \in 1..l : t[i] = body[i]
      /\ \A j \in 1..w : t[l + j] = whole[j]
  <2>1. whole \in Seq(Byte)
    BY <1>2
  <2>2. /\ body \o whole \in Seq(Byte) /\ Len(body \o whole) = Len(body) + Len(whole)
        /\ \A i \in 1..Len(body) : (body \o whole)[i] = body[i]
        /\ \A j \in 1..Len(whole) : (body \o whole)[Len(body) + j] = whole[j]
    BY <2>1, JoinIs
  <2> QED BY <1>1, <2>2
<1>5. DOMAIN t = 1..n /\ DOMAIN body = 1..l
  BY <1>1, <1>4, LenProperties
<1>6. PICK E, B : E = {k \in 1..n : t[k] = "lf"} /\ B = {k \in 1..l : body[k] = "lf"}
  OBVIOUS
<1>7. E = B \cup {n}
  <2>1. ASSUME NEW k \in 1..n PROVE t[k] = "lf" <=> k \in B \/ k = n
    <3>1. CASE k <= l
      <4>1. k \in 1..l
        BY <1>3, <3>1
      <4> QED BY <1>3, <1>4, <1>6, <4>1
    <3>2. CASE k > l
      <4>1. PICK j : j = k - l
        OBVIOUS
      <4>2. j \in 1..w /\ k = l + j /\ (k = n <=> j = w)
        BY <1>1, <1>3, <3>2, <4>1
      <4>3. t[k] = whole[j]
        BY <1>4, <4>2
      <4>4. k \notin B
        BY <1>3, <1>6, <3>2
      <4> QED BY <1>2, <4>2, <4>3, <4>4
    <3> QED BY <1>3, <3>1, <3>2
  <2>2. n \in 1..n /\ B \subseteq 1..n
    BY <1>3, <1>6
  <2> QED BY <1>6, <2>1, <2>2
<1>8. l # 0 => l \in B
  BY <1>1, <1>3, <1>6 DEF WholeLines, LastOf
<1> DEFINE Line(text, ends, j, k) ==
      /\ j < k
      /\ ~\E i \in ends : j < i /\ i < k
      /\ SubSeq(text, j + 1, k) \in {fence \o <<"lf">>, fence \o <<"cr", "lf">>}
<1>9. FenceEnds(t, fence) = {k \in E : \E j \in E \cup {0} : Line(t, E, j, k)}
  BY <1>5, <1>6 DEF FenceEnds
<1>10. FenceEnds(body, fence) = {k \in B : \E j \in B \cup {0} : Line(body, B, j, k)}
  BY <1>5, <1>6 DEF FenceEnds
<1>11. B \subseteq 1..l
  BY <1>6
<1>12. ASSUME NEW k \in B, NEW j \in B \cup {0} PROVE Line(t, E, j, k) <=> Line(body, B, j, k)
  <2>1. k \in 1..l /\ j \in 0..l
    BY <1>3, <1>11
  <2>2. (\E i \in E : j < i /\ i < k) <=> (\E i \in B : j < i /\ i < k)
    BY <1>3, <1>7, <2>1
  <2>3. j < k => SubSeq(t, j + 1, k) = SubSeq(body, j + 1, k)
    <3> SUFFICES ASSUME j < k PROVE SubSeq(t, j + 1, k) = SubSeq(body, j + 1, k)
      OBVIOUS
    <3>1. PICK m : m = j + 1
      OBVIOUS
    <3>2. m \in 1..Len(body) /\ k \in 1..Len(body)
      BY <1>1, <1>3, <2>1, <3>1
    <3>3. SubSeq(body \o whole, m, k) = SubSeq(body, m, k)
      BY <1>2, <3>2, SubSeqOfConcat1
    <3> QED BY <1>1, <3>1, <3>3
  <2> QED BY <2>2, <2>3
<1>13. ASSUME NEW k \in B PROVE ~Line(t, E, n, k)
  BY <1>3, <1>11
<1>14. \A k \in B : k \in FenceEnds(t, fence) <=> k \in FenceEnds(body, fence)
  <2> TAKE k \in B
  <2>1. k \in E
    BY <1>7
  <2>2. (\E j \in E \cup {0} : Line(t, E, j, k)) <=> (\E j \in B \cup {0} : Line(body, B, j, k))
    <3> HIDE DEF Line
    <3> QED BY <1>7, <1>12, <1>13
  <2> HIDE DEF Line
  <2> QED BY <1>9, <1>10, <2>1, <2>2
<1>15. SubSeq(t, l + 1, n) = whole
  <2>1. PICK m : m = l + 1
    OBVIOUS
  <2>2. m \in (Len(body) + 1)..(Len(body) + Len(whole)) /\ n \in (Len(body) + 1)..(Len(body) + Len(whole))
        /\ m - Len(body) = 1 /\ n - Len(body) = Len(whole)
    BY <1>1, <1>3, <2>1
  <2>3. SubSeq(body \o whole, m, n) = SubSeq(whole, m - Len(body), n - Len(body))
    BY <1>2, <2>2, SubSeqOfConcat2
  <2>4. SubSeq(whole, 1, Len(whole)) = whole
    BY <1>2, SubSeqFull
  <2> QED BY <1>1, <2>1, <2>2, <2>3, <2>4
<1>16. n \in FenceEnds(t, fence) <=> IsFenceLine(whole, fence)
  <2>1. ASSUME NEW j \in E \cup {0}, Line(t, E, j, n) PROVE j = l
    <3>1. j \in 0..n /\ j < n
      BY <1>3, <1>7, <1>11, <2>1
    <3>2. j \in B \cup {0}
      BY <1>3, <1>7, <3>1
    <3>3. j \in 0..l
      BY <1>3, <1>11, <3>2
    <3>4. j # l => l # 0 /\ l \in E /\ j < l /\ l < n
      BY <1>3, <1>7, <1>8, <3>3
    <3> QED BY <2>1, <3>4
  <2>2. l \in E \cup {0} /\ n \in E
    BY <1>3, <1>7, <1>8
  <2>3. Line(t, E, l, n) <=> IsFenceLine(whole, fence)
    <3>1. l < n /\ ~\E i \in E : l < i /\ i < n
      BY <1>3, <1>7, <1>11
    <3> QED BY <1>15, <3>1 DEF IsFenceLine
  <2> HIDE DEF Line
  <2> QED BY <1>9, <2>1, <2>2, <2>3
<1>17. n \notin FenceEnds(body, fence) /\ FenceEnds(body, fence) \subseteq B
       /\ FenceEnds(t, fence) \subseteq E
  <2> HIDE DEF Line
  <2> QED BY <1>3, <1>9, <1>10, <1>11
<1>18. CASE IsFenceLine(whole, fence)
  <2> HIDE DEF Line
  <2>1. FenceEnds(t, fence) = FenceEnds(body, fence) \cup {n}
    BY <1>7, <1>14, <1>16, <1>17, <1>18
  <2> QED BY <1>1, <1>18, <2>1
<1>19. CASE ~IsFenceLine(whole, fence)
  <2> HIDE DEF Line
  <2>1. FenceEnds(t, fence) = FenceEnds(body, fence)
    BY <1>7, <1>14, <1>16, <1>17, <1>19
  <2> QED BY <1>1, <1>19, <2>1
<1> QED BY <1>18, <1>19

-----------------------------------------------------------------------------
\* What the detector makes of text.

\* The last byte of two texts joined.
LEMMA LastOfJoin ==
  ASSUME NEW s \in Seq(Byte), NEW t \in Seq(Byte), t # <<>>
  PROVE  LastOf(s \o t) = LastOf(t) /\ s \o t \in Seq(Byte) \ {<<>>}
<1>1. PICK r, l, n : r = s \o t /\ l = Len(s) /\ n = Len(t)
  OBVIOUS
<1>2. l \in Nat /\ n \in Nat /\ n # 0
  BY <1>1, LenProperties, EmptySeq
<1>3. r \in Seq(Byte) /\ Len(r) = l + n /\ (\A j \in 1..n : r[l + j] = t[j])
  BY <1>1, JoinIs
<1>4. n \in 1..n
  BY <1>2
<1>5. r[l + n] = t[n]
  BY <1>3, <1>4
<1>6. r # <<>>
  <2>1. Len(r) # 0
    BY <1>2, <1>3
  <2> QED BY <2>1
<1> QED BY <1>1, <1>3, <1>5, <1>6 DEF LastOf

\* What RenderedIsGenuineBlock says of a text.
Genuine(text) ==
  /\ Len(text) <= MaxBlock
  /\ \A k \in DOMAIN text : IsUnsafeControl(text[k]) => text[k] = "cr" /\ text[k + 1] = "lf"
  /\ \E rule \in Openers :
       /\ SubSeq(text, 1, Len(rule.pattern)) = rule.pattern
       /\ LET body == SubSeq(text, Len(rule.pattern) + 1, Len(text))
          IN body # <<>> /\ FenceEnds(body, rule.closing) = {Len(body)}

\* The texts of genuine blocks.
BlockBytes == {text \in Seq(Byte) \ {<<>>} : Genuine(text)}

\* The items a detector releases: plain text, and genuine blocks.
Items ==
  [type : {"passthrough"}, bytes : Seq(Byte) \ {<<>>}] \cup
  [type : {"semantic"}, bytes : BlockBytes, body : Seq(Byte)]

\* They have text.
LEMMA ItemsHaveText == HasText(Items)
BY DEF HasText, Items, BlockBytes

\* A detector within a block: an opener, whole lines none of which is the
\* fence, and the line so far.
InBlock(d) ==
  \E rule \in Openers : \E body, line \in Seq(Byte) :
    /\ WholeLines(body) /\ NoLf(line) /\ FenceEnds(body, rule.closing) = {}
    /\ d = Block(rule.closing, rule.pattern \o (body \o line), body, line)

\* The three kinds of state of a detector.
DetShape(d) ==
  \/ d.source \in Seq(Byte) /\ d = LineStart(d.source)
  \/ d = PassthroughLine
  \/ InBlock(d)

\* Every block among the items starts a line, counting the text c before them.
ItemsAligned(c, items) ==
  \A i \in 1..Len(items) : items[i].type = "semantic" =>
    LastOf(c \o TextTo(items, i - 1)) = "lf"

\* What a detector says of a text: all of it, in order, cut into items and what
\* it holds back.
DetSays(c, text, more, items, d) ==
  /\ items \in Seq(Items)
  /\ DetShape(d)
  /\ BytesClean(d.source, more)
  /\ TextOf(items) \o d.source = text
  /\ ItemsAligned(c, items)
  /\ d.st # "passthrough_line" => LastOf(c \o TextOf(items)) = "lf"

\* What the openers are assumed to be.
LEMMA RulesAre ==
  ASSUME NEW rule \in Openers
  PROVE  /\ rule.pattern \in Seq(Byte) /\ rule.pattern # <<>> /\ rule.pattern[1] # "cr"
         /\ rule.closing \in Seq(Byte) /\ Len(rule.closing) # 0 /\ LastOf(rule.closing) # "cr"
<1>1. /\ rule.pattern \in Seq(Byte) /\ rule.pattern # <<>> /\ rule.pattern[1] # "cr"
      /\ rule.closing \in Seq(Byte) /\ rule.closing # <<>> /\ LastOf(rule.closing) # "cr"
  BY TextAssumption DEF LastOf
<1>2. Len(rule.closing) # 0
  BY <1>1, EmptySeq
<1> QED BY <1>1, <1>2

\* What a detector holds is text.
LEMMA ShapeHasText == ASSUME NEW d, DetShape(d) PROVE d.source \in Seq(Byte)
<1>1. CASE d = PassthroughLine
  <2>1. <<>> \in Seq(Byte)
    OBVIOUS
  <2> QED BY <1>1, <2>1 DEF PassthroughLine
<1>2. CASE InBlock(d)
  <2>1. PICK rule \in Openers : \E body, line \in Seq(Byte) :
          d = Block(rule.closing, rule.pattern \o (body \o line), body, line)
    BY <1>2 DEF InBlock
  <2>2. PICK body, line \in Seq(Byte) :
          d = Block(rule.closing, rule.pattern \o (body \o line), body, line)
    BY <2>1
  <2>3. rule.pattern \in Seq(Byte)
    BY RulesAre
  <2>4. body \o line \in Seq(Byte)
    BY ConcatProperties
  <2>5. rule.pattern \o (body \o line) \in Seq(Byte)
    BY <2>3, <2>4, ConcatProperties
  <2> QED BY <2>2, <2>5 DEF Block
<1> QED BY <1>1, <1>2 DEF DetShape

\* Giving bytes back.
LEMMA AbandonIs ==
  ASSUME NEW items \in Seq(Items), NEW c, ItemsAligned(c, items),
         NEW bytes \in Seq(Byte), bytes # <<>>
  PROVE  LET r == Abandon(items, bytes)
         IN /\ r.items \in Seq(Items)
            /\ TextOf(r.items) = TextOf(items) \o bytes
            /\ ItemsAligned(c, r.items)
            /\ r.detector = PassthroughLine \/ (r.detector = LineStart(<<>>) /\ LastOf(bytes) = "lf")
<1>1. PICK r, l, qs : r = Abandon(items, bytes) /\ l = Len(items) /\ qs = PushPassthrough(items, bytes)
  OBVIOUS
<1>2. l \in Nat
  BY <1>1, LenProperties
<1>3. r.items = qs
      /\ (r.detector = PassthroughLine \/ (r.detector = LineStart(<<>>) /\ LastOf(bytes) = "lf"))
  BY <1>1 DEF Abandon, Detected, LastOf
<1>4. \A i \in 1..l : items[i] \in Items
  BY <1>1, ElementOfSeq
<1>5. l = 0 <=> items = <<>>
  BY <1>1, EmptySeq
<1>6. CASE l # 0 /\ items[l].type = "passthrough"
  <2>1. l \in 1..l
    BY <1>2, <1>6
  <2>2. PICK t, u : t = items[l].bytes /\ u = t \o bytes
    OBVIOUS
  <2>3. items[l] = [type |-> "passthrough", bytes |-> t] /\ t \in Seq(Byte)
    <3>1. items[l] \in Items
      BY <1>4, <2>1
    <3> QED BY <1>6, <2>2, <3>1 DEF Items
  <2>4. u \in Seq(Byte) \ {<<>>}
    BY <2>2, <2>3, LastOfJoin
  <2>5. PICK y : y = [type |-> "passthrough", bytes |-> u]
    OBVIOUS
  <2>6. y \in Items /\ y.type = "passthrough" /\ y.bytes = u
    BY <2>4, <2>5 DEF Items
  <2>7. qs = [items EXCEPT ![l] = y]
    <3>1. qs = [items EXCEPT ![l].bytes = @ \o bytes]
      BY <1>1, <1>5, <1>6 DEF PushPassthrough
    <3>2. qs = [items EXCEPT ![l] = [items[l] EXCEPT !.bytes = items[l].bytes \o bytes]]
      BY <3>1
    <3>3. [items[l] EXCEPT !.bytes = items[l].bytes \o bytes] = y
      <4>1. PICK z : z = items[l]
        OBVIOUS
      <4>2. z = [type |-> "passthrough", bytes |-> t] /\ z.bytes = t
        BY <2>2, <2>3, <4>1
      <4>3. [z EXCEPT !.bytes = u] = y
        BY <2>5, <4>2
      <4> QED BY <2>2, <4>1, <4>3
    <3> QED BY <3>2, <3>3
  <2>8. qs \in Seq(Items) /\ Len(qs) = l /\ qs[l] = y /\ \A i \in 1..l : i # l => qs[i] = items[i]
    BY <1>1, <2>1, <2>6, <2>7, ExceptSeq
  <2>9. qs \in Seq(Items)
    BY <2>8
  <2>10. TextOf(qs) = TextOf(items) \o bytes
    <3>1. Len(items) # 0 /\ Len(qs) = Len(items)
      BY <1>1, <1>6, <2>8
    <3>2. \A i \in 1..Len(items) : i # Len(items) => qs[i].bytes = items[i].bytes
      BY <1>1, <2>8
    <3>3. qs[Len(items)].bytes = items[Len(items)].bytes \o bytes
      BY <1>1, <2>2, <2>6, <2>8
    <3> QED BY <2>9, <3>1, <3>2, <3>3, ItemsHaveText, LengthenedText
  <2>11. ItemsAligned(c, qs)
    <3> SUFFICES ASSUME NEW i \in 1..l, qs[i].type = "semantic"
                 PROVE  LastOf(c \o TextTo(qs, i - 1)) = "lf"
      BY <2>8 DEF ItemsAligned
    <3>1. i # l /\ qs[i] = items[i]
      BY <2>6, <2>8
    <3>2. PICK k : k = i - 1
      OBVIOUS
    <3>3. k \in Nat /\ k <= Len(items) /\ k <= Len(qs) /\ \A j \in 1..k : j \in 1..l /\ j # l
      BY <1>1, <1>2, <2>8, <3>1, <3>2
    <3>4. \A j \in 1..k : qs[j].bytes = items[j].bytes
      BY <2>8, <3>3
    <3>5. \A j \in 0..k : TextTo(qs, j) = TextTo(items, j)
      BY <2>9, <3>3, <3>4, ItemsHaveText, SameText
    <3>6. TextTo(qs, k) = TextTo(items, k)
      BY <3>3, <3>5
    <3>7. LastOf(c \o TextTo(items, i - 1)) = "lf"
      BY <1>1, <3>1 DEF ItemsAligned
    <3> QED BY <3>2, <3>6, <3>7
  <2> QED BY <1>1, <1>3, <2>9, <2>10, <2>11
<1>7. CASE ~(l # 0 /\ items[l].type = "passthrough")
  <2>1. PICK y : y = [type |-> "passthrough", bytes |-> bytes]
    OBVIOUS
  <2>2. y \in Items /\ y.type = "passthrough" /\ y.bytes = bytes
    BY <2>1 DEF Items
  <2>3. qs = Append(items, y)
    BY <1>1, <1>5, <1>7, <2>1 DEF PushPassthrough, Passthrough
  <2>4. qs \in Seq(Items) /\ Len(qs) = l + 1 /\ qs[l + 1] = y /\ \A i \in 1..l : qs[i] = items[i]
    BY <1>1, <2>2, <2>3, AppendProperties
  <2>5. TextOf(qs) = TextOf(items) \o bytes /\ \A n \in 0..l : TextTo(qs, n) = TextTo(items, n)
    <3>1. /\ TextOf(Append(items, y)) = TextOf(items) \o y.bytes
          /\ \A n \in 0..Len(items) : TextTo(Append(items, y), n) = TextTo(items, n)
      BY <2>2, ItemsHaveText, AppendedText
    <3> QED BY <1>1, <2>2, <2>3, <3>1
  <2>6. ItemsAligned(c, qs)
    <3> SUFFICES ASSUME NEW i \in 1..(l + 1), qs[i].type = "semantic"
                 PROVE  LastOf(c \o TextTo(qs, i - 1)) = "lf"
      BY <2>4 DEF ItemsAligned
    <3>1. i # l + 1
      BY <2>2, <2>4
    <3>2. i \in 1..l
      BY <1>2, <3>1
    <3>3. i - 1 \in 0..l
      BY <1>2, <3>2
    <3>4. LastOf(c \o TextTo(items, i - 1)) = "lf"
      BY <1>1, <2>4, <3>2 DEF ItemsAligned
    <3> QED BY <2>5, <3>3, <3>4
  <2> QED BY <1>1, <1>3, <2>4, <2>5, <2>6
<1> QED BY <1>6, <1>7

\* Bytes given back after the items.
LEMMA AbandonSays ==
  ASSUME NEW items \in Seq(Items), NEW c \in Seq(Byte), ItemsAligned(c, items),
         NEW bytes \in Seq(Byte), bytes # <<>>, NEW more \in BOOLEAN
  PROVE  DetSays(c, TextOf(items) \o bytes, more, Abandon(items, bytes).items,
                 Abandon(items, bytes).detector)
<1>1. PICK r, e, qs : r = Abandon(items, bytes) /\ e = r.detector /\ qs = r.items
  OBVIOUS
<1>2. /\ qs \in Seq(Items)
      /\ TextOf(qs) = TextOf(items) \o bytes
      /\ ItemsAligned(c, qs)
      /\ e = PassthroughLine \/ (e = LineStart(<<>>) /\ LastOf(bytes) = "lf")
  BY <1>1, AbandonIs
<1>3. TextOf(items) \in Seq(Byte) /\ TextOf(qs) \in Seq(Byte)
  BY <1>2, ItemsHaveText, TextIsText
<1>4. e.source = <<>>
  BY <1>2 DEF PassthroughLine, LineStart
<1>5. <<>> \in Seq(Byte) /\ Len(<<>>) = 0
  OBVIOUS
<1>6. DetShape(e)
  <2>1. CASE e = PassthroughLine
    BY <2>1 DEF DetShape
  <2>2. CASE e = LineStart(<<>>)
    BY <1>4, <1>5, <2>2 DEF DetShape
  <2> QED BY <1>2, <2>1, <2>2
<1>7. BytesClean(e.source, more)
  BY <1>4, <1>5 DEF BytesClean
<1>8. TextOf(qs) \o e.source = TextOf(items) \o bytes
  BY <1>2, <1>3, <1>4, EmptyJoins
<1>9. e.st # "passthrough_line" => LastOf(c \o TextOf(qs)) = "lf"
  <2> SUFFICES ASSUME e.st # "passthrough_line" PROVE LastOf(c \o TextOf(qs)) = "lf"
    OBVIOUS
  <2>1. LastOf(bytes) = "lf"
    BY <1>2 DEF PassthroughLine
  <2>2. LastOf(TextOf(qs)) = "lf" /\ TextOf(qs) # <<>>
    <3>1. TextOf(items) \in Seq(Byte)
      BY <1>3
    <3> QED BY <1>2, <2>1, <3>1, LastOfJoin
  <2>3. TextOf(qs) \in Seq(Byte)
    BY <1>3
  <2> QED BY <2>2, <2>3, LastOfJoin
<1> QED BY <1>1, <1>2, <1>6, <1>7, <1>8, <1>9 DEF DetSays

\* The detector holds one byte more.
HoldsMore(items, d, b, more, text) ==
  /\ d.source \in Seq(Byte)
  /\ Append(d.source, b) = d.source \o <<b>>
  /\ Append(d.source, b) \in Seq(Byte) \ {<<>>}
  /\ BytesClean(Append(d.source, b), more)
  /\ TextOf(items) \o Append(d.source, b) = text \o <<b>>
  /\ TextOf(items) \in Seq(Byte)

\* A byte held back says nothing new.
LEMMA HoldSays ==
  ASSUME NEW c \in Seq(Byte), NEW text, NEW m \in BOOLEAN, NEW n \in BOOLEAN, NEW items, NEW d,
         DetSays(c, text, m, items, d), NEW b \in Byte, m => b = "lf",
         IsUnsafeControl(b) => b = "cr" /\ n
  PROVE  HoldsMore(items, d, b, n, text)
<1>1. PICK s : s = d.source
  OBVIOUS
<1>2. s \in Seq(Byte)
  BY <1>1, ShapeHasText DEF DetSays
<1>3. Append(s, b) = s \o <<b>> /\ s \o <<b>> \in Seq(Byte) \ {<<>>}
  BY <1>2, LastJoined
<1>4. BytesClean(s, m)
  BY <1>1 DEF DetSays
<1>5. BytesClean(s \o <<b>>, n)
  BY <1>2, <1>4, CleanGrows
<1>6. TextOf(items) \in Seq(Byte)
  BY ItemsHaveText, TextIsText DEF DetSays
<1>7. <<b>> \in Seq(Byte)
  OBVIOUS
<1>8. (TextOf(items) \o s) \o <<b>> = TextOf(items) \o (s \o <<b>>)
  BY <1>2, <1>6, <1>7, Associates
<1>9. TextOf(items) \o s = text
  BY <1>1 DEF DetSays
<1> QED BY <1>1, <1>2, <1>3, <1>5, <1>6, <1>8, <1>9 DEF HoldsMore

\* Nothing is closed by nothing.
LEMMA NoFence == \A fence : FenceEnds(<<>>, fence) = {}
<1>1. DOMAIN <<>> = {}
  OBVIOUS
<1> QED BY <1>1 DEF FenceEnds

\* A byte at the start of a line.
LEMMA LineStartSays ==
  ASSUME NEW c \in Seq(Byte), NEW text, NEW m \in BOOLEAN, NEW n \in BOOLEAN, NEW items, NEW d,
         DetSays(c, text, m, items, d), NEW b \in Byte, m => b = "lf",
         IsUnsafeControl(b) => b = "cr" /\ n, d = LineStart(d.source)
  PROVE  LET r == FeedLineStart(d, items, b)
         IN DetSays(c, text \o <<b>>, n, r.items, r.detector)
<1>1. PICK cand, r : cand = Append(d.source, b) /\ r = FeedLineStart(d, items, b)
  OBVIOUS
<1>2. /\ cand \in Seq(Byte) \ {<<>>} /\ BytesClean(cand, n)
      /\ TextOf(items) \o cand = text \o <<b>>
  <2>1. HoldsMore(items, d, b, n, text)
    BY HoldSays
  <2> QED BY <1>1, <2>1 DEF HoldsMore
<1>3. items \in Seq(Items) /\ ItemsAligned(c, items) /\ LastOf(c \o TextOf(items)) = "lf"
  BY DEF DetSays, LineStart
<1>4. ASSUME NEW e, DetShape(e), e.source = cand PROVE DetSays(c, text \o <<b>>, n, items, e)
  BY <1>2, <1>3, <1>4 DEF DetSays
<1>5. CASE ExactOpeners(cand) # {}
  <2>1. PICK rule : rule = CHOOSE x \in ExactOpeners(cand) : TRUE
    OBVIOUS
  <2>2. rule \in Openers /\ rule.pattern = cand
    BY <1>5, <2>1 DEF ExactOpeners
  <2>3. PICK e : e = Block(rule.closing, cand, <<>>, <<>>)
    OBVIOUS
  <2>4. r.items = items /\ r.detector = e
    BY <1>1, <1>5, <2>1, <2>3 DEF FeedLineStart, Detected
  <2>5. <<>> \in Seq(Byte) /\ Len(<<>>) = 0
    OBVIOUS
  <2>6. WholeLines(<<>>) /\ NoLf(<<>>) /\ FenceEnds(<<>>, rule.closing) = {}
    BY <2>5, NoFence DEF WholeLines, NoLf
  <2>7. rule.pattern \o (<<>> \o <<>>) = cand
    <3>1. <<>> \o <<>> = <<>>
      BY <2>5, EmptyJoins
    <3>2. cand \in Seq(Byte)
      BY <1>2
    <3> QED BY <2>2, <3>1, <3>2, EmptyJoins
  <2>8. e = Block(rule.closing, rule.pattern \o (<<>> \o <<>>), <<>>, <<>>)
    BY <2>3, <2>7
  <2>9. InBlock(e)
    BY <2>2, <2>5, <2>6, <2>8 DEF InBlock
  <2>10. DetShape(e) /\ e.source = cand
    BY <2>3, <2>9 DEF DetShape, Block
  <2> QED BY <1>1, <1>4, <2>4, <2>10
<1>6. CASE ExactOpeners(cand) = {} /\ OpenerPrefix(cand)
  <2>1. r.items = items /\ r.detector = LineStart(cand)
    BY <1>1, <1>6 DEF FeedLineStart, Detected
  <2>2. LineStart(cand).source = cand
    BY DEF LineStart
  <2>3. DetShape(LineStart(cand))
    BY <1>2, <2>2 DEF DetShape
  <2> QED BY <1>1, <1>4, <2>1, <2>2, <2>3
<1>7. CASE ExactOpeners(cand) = {} /\ ~OpenerPrefix(cand)
  <2>1. r = Abandon(items, cand)
    BY <1>1, <1>7 DEF FeedLineStart
  <2>2. cand \in Seq(Byte) /\ cand # <<>>
    BY <1>2
  <2>3. DetSays(c, TextOf(items) \o cand, n, Abandon(items, cand).items, Abandon(items, cand).detector)
    BY <1>3, <2>2, AbandonSays
  <2> QED BY <1>1, <1>2, <2>1, <2>3
<1> QED BY <1>5, <1>6, <1>7

\* The text of a block that its fence has just closed.
LEMMA ClosedIsGenuine ==
  ASSUME NEW rule \in Openers, NEW body \in Seq(Byte), NEW text, text = rule.pattern \o body,
         body # <<>>, FenceEnds(body, rule.closing) = {Len(body)},
         Len(text) <= MaxBlock, Clean(text)
  PROVE  text \in BlockBytes
<1>1. PICK p, l, n : p = rule.pattern /\ l = Len(p) /\ n = Len(body)
  OBVIOUS
<1>2. p \in Seq(Byte) /\ p # <<>>
  BY <1>1, RulesAre
<1>3. l \in Nat /\ n \in Nat /\ l # 0 /\ n # 0
  BY <1>1, <1>2, LenProperties, EmptySeq
<1>4. text \in Seq(Byte) /\ Len(text) = l + n /\ text # <<>>
  <2>1. text \in Seq(Byte) /\ Len(text) = l + n
    BY <1>1, <1>2, JoinIs
  <2> QED BY <1>3, <2>1
<1>5. SubSeq(text, 1, l) = p
  <2>1. 1 \in 1..Len(p) /\ l \in 1..Len(p)
    BY <1>1, <1>3
  <2>2. SubSeq(p \o body, 1, l) = SubSeq(p, 1, l)
    BY <1>2, <2>1, SubSeqOfConcat1
  <2>3. SubSeq(p, 1, Len(p)) = p
    BY <1>2, SubSeqFull
  <2> QED BY <1>1, <2>2, <2>3
<1>6. SubSeq(text, l + 1, Len(text)) = body
  <2>1. PICK m, k : m = l + 1 /\ k = l + n
    OBVIOUS
  <2>2. m \in (Len(p) + 1)..(Len(p) + Len(body)) /\ k \in (Len(p) + 1)..(Len(p) + Len(body))
        /\ m - Len(p) = 1 /\ k - Len(p) = Len(body)
    BY <1>1, <1>3, <2>1
  <2>3. SubSeq(p \o body, m, k) = SubSeq(body, m - Len(p), k - Len(p))
    BY <1>2, <2>2, SubSeqOfConcat2
  <2>4. SubSeq(body, 1, Len(body)) = body
    BY SubSeqFull
  <2> QED BY <1>1, <1>4, <2>1, <2>2, <2>3, <2>4
<1>7. \A k \in DOMAIN text : IsUnsafeControl(text[k]) => text[k] = "cr" /\ text[k + 1] = "lf"
  <2>1. DOMAIN text = 1..Len(text)
    BY <1>4, LenProperties
  <2> QED BY <2>1 DEF Clean, BytesClean
<1>8. Genuine(text)
  BY <1>1, <1>5, <1>6, <1>7 DEF Genuine
<1> QED BY <1>4, <1>8 DEF BlockBytes

\* A byte in a block.
LEMMA BlockSays ==
  ASSUME NEW c \in Seq(Byte), NEW text, NEW m \in BOOLEAN, NEW n \in BOOLEAN, NEW items, NEW d,
         DetSays(c, text, m, items, d), NEW b \in Byte, m => b = "lf",
         IsUnsafeControl(b) => b = "cr" /\ n, InBlock(d)
  PROVE  LET r == FeedBlock(d, items, b)
         IN DetSays(c, text \o <<b>>, n, r.items, r.detector)
<1>1. PICK source, r : source = Append(d.source, b) /\ r = FeedBlock(d, items, b)
  OBVIOUS
<1>2. /\ source \in Seq(Byte) \ {<<>>} /\ BytesClean(source, n) /\ source = d.source \o <<b>>
      /\ TextOf(items) \o source = text \o <<b>> /\ TextOf(items) \in Seq(Byte)
  <2>1. HoldsMore(items, d, b, n, text)
    BY HoldSays
  <2> QED BY <1>1, <2>1 DEF HoldsMore
<1>3. PICK rule \in Openers : \E body, line \in Seq(Byte) :
        /\ WholeLines(body) /\ NoLf(line) /\ FenceEnds(body, rule.closing) = {}
        /\ d = Block(rule.closing, rule.pattern \o (body \o line), body, line)
  BY DEF InBlock
<1>4. PICK body, line \in Seq(Byte) :
        /\ WholeLines(body) /\ NoLf(line) /\ FenceEnds(body, rule.closing) = {}
        /\ d = Block(rule.closing, rule.pattern \o (body \o line), body, line)
  BY <1>3
<1>5. /\ d.closing = rule.closing /\ d.body = body /\ d.line = line /\ d.st = "block"
      /\ d.source = rule.pattern \o (body \o line)
  BY <1>4 DEF Block
<1>6. PICK whole, p, fence : whole = Append(line, b) /\ p = rule.pattern /\ fence = rule.closing
  OBVIOUS
<1>7. whole = line \o <<b>> /\ whole \in Seq(Byte) \ {<<>>}
  <2>1. Append(line, b) = line \o <<b>> /\ line \o <<b>> \in Seq(Byte) \ {<<>>}
    BY LastJoined
  <2> QED BY <1>6, <2>1
<1>8. p \in Seq(Byte) /\ fence \in Seq(Byte) /\ Len(fence) # 0 /\ LastOf(fence) # "cr"
  BY <1>6, RulesAre
<1>9. source = p \o (body \o whole)
  <2>1. <<b>> \in Seq(Byte)
    OBVIOUS
  <2>2. (body \o line) \in Seq(Byte)
    BY ConcatProperties
  <2>3. p \in Seq(Byte)
    BY <1>8
  <2>4. (p \o (body \o line)) \o <<b>> = p \o ((body \o line) \o <<b>>)
    BY <2>1, <2>2, <2>3, Associates
  <2>5. (body \o line) \o <<b>> = body \o (line \o <<b>>)
    BY <2>1, Associates
  <2> QED BY <1>2, <1>5, <1>6, <1>7, <2>4, <2>5
<1>10. items \in Seq(Items) /\ ItemsAligned(c, items) /\ LastOf(c \o TextOf(items)) = "lf"
  BY <1>5 DEF DetSays
<1>11. whole \in Seq(Byte) /\ body \o whole \in Seq(Byte) /\ body \o whole # <<>>
       /\ LastOf(body \o whole) = b
  <2>1. whole \in Seq(Byte) /\ whole # <<>> /\ LastOf(whole) = b
    BY <1>7, LastJoined
  <2> QED BY <2>1, LastOfJoin
<1>12. ASSUME NEW e, InBlock(e), e.source = source PROVE DetSays(c, text \o <<b>>, n, items, e)
  BY <1>2, <1>10, <1>12 DEF DetSays, DetShape
<1>13. CASE Oversize(source)
  <2>1. r = Abandon(items, source)
    BY <1>1, <1>13 DEF FeedBlock
  <2>2. source \in Seq(Byte) /\ source # <<>>
    BY <1>2
  <2>3. DetSays(c, TextOf(items) \o source, n, Abandon(items, source).items, Abandon(items, source).detector)
    BY <1>10, <2>2, AbandonSays
  <2> QED BY <1>1, <1>2, <2>1, <2>3
<1>14. CASE ~Oversize(source) /\ b = "lf" /\ StripEol(whole) = fence
  <2>1. PICK y, e, qs : y = Semantic(source, body) /\ e = LineStart(<<>>) /\ qs = Append(items, y)
    OBVIOUS
  <2>2. r.items = qs /\ r.detector = e
    BY <1>1, <1>5, <1>6, <1>14, <2>1 DEF FeedBlock, Detected
  <2>3. IsFenceLine(whole, fence)
    BY <1>7, <1>8, <1>14, FenceLineIs
  <2>4. FenceEnds(body \o whole, fence) = {Len(body) + Len(whole)}
    <3>1. Ended(line, whole)
      BY <1>7, <1>14 DEF Ended
    <3>2. FenceEnds(body \o whole, fence) = FenceEnds(body, fence) \cup {Len(body) + Len(whole)}
      BY <1>4, <2>3, <3>1, LineAdded
    <3>3. FenceEnds(body, fence) = {}
      BY <1>4, <1>6
    <3> QED BY <3>2, <3>3
  <2>5. Len(body \o whole) = Len(body) + Len(whole)
    BY <1>11, JoinIs
  <2>6. Len(source) <= MaxBlock
    <3>1. Len(source) \in Nat
      BY <1>2, LenProperties
    <3> QED BY <1>14, <3>1, MaxBlockAssumption DEF Oversize
  <2>7. Clean(source)
    <3>1. ~IsUnsafeControl(LastOf(source))
      <4>1. LastOf(source) = b
        BY <1>8, <1>9, <1>11, LastOfJoin
      <4> QED BY <1>14, <4>1 DEF IsUnsafeControl
    <3>2. Len(source) \in Nat
      BY <1>2, LenProperties
    <3>3. \A k \in 1..Len(source) : k < Len(source) \/ source[k] = LastOf(source)
      BY <3>2 DEF LastOf
    <3> QED BY <1>2, <3>1, <3>3 DEF Clean, BytesClean
  <2>8. source \in BlockBytes
    <3>1. source = rule.pattern \o (body \o whole) /\ (body \o whole) \in Seq(Byte) /\ (body \o whole) # <<>>
      BY <1>6, <1>9, <1>11
    <3>2. PICK t : t = body \o whole
      OBVIOUS
    <3>3. FenceEnds(t, rule.closing) = {Len(t)}
      BY <1>6, <2>4, <2>5, <3>2
    <3> QED BY <2>6, <2>7, <3>1, <3>2, <3>3, ClosedIsGenuine
  <2>9. y \in Items /\ y.bytes = source
    BY <1>4, <2>1, <2>8 DEF Items, Semantic
  <2>10. qs \in Seq(Items) /\ Len(qs) = Len(items) + 1 /\ \A i \in 1..Len(items) : qs[i] = items[i]
    BY <1>10, <2>1, <2>9, AppendProperties
  <2>11. TextOf(qs) = TextOf(items) \o source /\ \A i \in 0..Len(items) : TextTo(qs, i) = TextTo(items, i)
    <3>1. /\ TextOf(Append(items, y)) = TextOf(items) \o y.bytes
          /\ \A i \in 0..Len(items) : TextTo(Append(items, y), i) = TextTo(items, i)
      BY <1>10, <2>9, ItemsHaveText, AppendedText
    <3> QED BY <2>1, <2>9, <3>1
  <2>12. ItemsAligned(c, qs)
    <3> SUFFICES ASSUME NEW i \in 1..(Len(items) + 1), qs[i].type = "semantic"
                 PROVE  LastOf(c \o TextTo(qs, i - 1)) = "lf"
      BY <2>10 DEF ItemsAligned
    <3>1. Len(items) \in Nat
      BY <1>10, LenProperties
    <3>2. i - 1 \in 0..Len(items)
      BY <3>1
    <3>3. TextTo(qs, i - 1) = TextTo(items, i - 1)
      BY <2>11, <3>2
    <3>4. CASE i \in 1..Len(items)
      <4>1. LastOf(c \o TextTo(items, i - 1)) = "lf"
        BY <1>10, <2>10, <3>4 DEF ItemsAligned
      <4> QED BY <3>3, <4>1
    <3>5. CASE i = Len(items) + 1
      <4>1. i - 1 = Len(items) /\ TextTo(items, Len(items)) = TextOf(items)
        <5>1. TextOf(items) = TextTo(items, Len(items))
          BY <1>10, ItemsHaveText, TextToIs
        <5> QED BY <3>1, <3>5, <5>1
      <4> QED BY <1>10, <3>3, <4>1
    <3> QED BY <3>1, <3>4, <3>5
  <2>13. <<>> \in Seq(Byte) /\ Len(<<>>) = 0 /\ e.source = <<>>
    BY <2>1 DEF LineStart
  <2>14. DetShape(e) /\ BytesClean(e.source, n)
    <3>1. DetShape(e)
      BY <2>1, <2>13 DEF DetShape
    <3> QED BY <2>13, <3>1 DEF BytesClean
  <2>15. TextOf(qs) \in Seq(Byte)
    BY <2>10, ItemsHaveText, TextIsText
  <2>16. TextOf(qs) \o e.source = text \o <<b>>
    BY <1>2, <2>11, <2>13, <2>15, EmptyJoins
  <2>17. LastOf(c \o TextOf(qs)) = "lf"
    <3>1. LastOf(source) = "lf" /\ source \in Seq(Byte) /\ source # <<>>
      <4>1. p \in Seq(Byte)
        BY <1>8
      <4>2. (body \o whole) \in Seq(Byte) /\ (body \o whole) # <<>>
        BY <1>11
      <4>3. LastOf(p \o (body \o whole)) = LastOf(body \o whole)
        BY <4>1, <4>2, LastOfJoin
      <4> QED BY <1>2, <1>9, <1>11, <1>14, <4>3
    <3>2. LastOf(TextOf(qs)) = "lf" /\ TextOf(qs) # <<>>
      <4>1. TextOf(items) \in Seq(Byte)
        BY <1>2
      <4>2. source \in Seq(Byte)
        BY <3>1
      <4>3. LastOf(TextOf(items) \o source) = LastOf(source) /\ TextOf(items) \o source # <<>>
        BY <3>1, <4>1, <4>2, LastOfJoin
      <4> QED BY <2>11, <3>1, <4>3
    <3> QED BY <2>15, <3>2, LastOfJoin
  <2>18. DetSays(c, text \o <<b>>, n, qs, e)
    BY <2>10, <2>12, <2>14, <2>16, <2>17 DEF DetSays
  <2> QED BY <1>1, <2>2, <2>18
<1>15. CASE ~Oversize(source) /\ b = "lf" /\ StripEol(whole) # fence
  <2>1. PICK e, t : t = body \o whole /\ e = Block(fence, source, t, <<>>)
    OBVIOUS
  <2>2. r.items = items /\ r.detector = e
    BY <1>1, <1>5, <1>6, <1>15, <2>1 DEF FeedBlock, Detected
  <2>3. ~IsFenceLine(whole, fence)
    BY <1>7, <1>8, <1>15, FenceLineIs
  <2>4. FenceEnds(t, fence) = {}
    <3>1. Ended(line, whole)
      BY <1>7, <1>15 DEF Ended
    <3>2. FenceEnds(body, fence) = {}
      BY <1>4, <1>6
    <3>3. FenceEnds(body \o whole, fence) = {}
      BY <1>4, <2>3, <3>1, <3>2, LineAdded
    <3> QED BY <2>1, <3>3
  <2>5. <<>> \in Seq(Byte) /\ Len(<<>>) = 0
    OBVIOUS
  <2>6. t \in Seq(Byte) /\ t \o <<>> = t
    <3>1. t \in Seq(Byte)
      BY <1>11, <2>1
    <3> QED BY <3>1, EmptyJoins
  <2>7. WholeLines(t) /\ NoLf(<<>>)
    BY <1>11, <1>15, <2>1, <2>5 DEF WholeLines, NoLf
  <2>8. e = Block(rule.closing, rule.pattern \o (t \o <<>>), t, <<>>)
    BY <1>6, <1>9, <2>1, <2>6
  <2>9. InBlock(e)
    BY <1>6, <2>4, <2>5, <2>6, <2>7, <2>8 DEF InBlock
  <2>10. e.source = source
    BY <2>1 DEF Block
  <2> QED BY <1>1, <1>12, <2>2, <2>9, <2>10
<1>16. CASE ~Oversize(source) /\ b # "lf"
  <2>1. PICK e : e = Block(fence, source, body, whole)
    OBVIOUS
  <2>2. r.items = items /\ r.detector = e
    BY <1>1, <1>5, <1>6, <1>16, <2>1 DEF FeedBlock, Detected
  <2>3. NoLf(whole)
    BY <1>4, <1>6, <1>16, NoLfGrows
  <2>4. e = Block(rule.closing, rule.pattern \o (body \o whole), body, whole)
    BY <1>6, <1>9, <2>1
  <2>5. InBlock(e)
    BY <1>4, <1>11, <2>3, <2>4 DEF InBlock
  <2>6. e.source = source
    BY <2>1 DEF Block
  <2> QED BY <1>1, <1>12, <2>2, <2>5, <2>6
<1> QED BY <1>13, <1>14, <1>15, <1>16

\* A byte on a line that opened no block.
LEMMA PassthroughLineSays ==
  ASSUME NEW c \in Seq(Byte), NEW text, NEW m \in BOOLEAN, NEW n \in BOOLEAN, NEW items, NEW d,
         DetSays(c, text, m, items, d), NEW b \in Byte, m => b = "lf",
         IsUnsafeControl(b) => b = "cr" /\ n, d = PassthroughLine
  PROVE  LET r == Abandon(items, <<b>>)
         IN DetSays(c, text \o <<b>>, n, r.items, r.detector)
<1>1. items \in Seq(Items) /\ ItemsAligned(c, items)
  BY DEF DetSays
<1>2. Append(<<>>, b) = <<b>>
  OBVIOUS
<1>3. TextOf(items) \o <<b>> = text \o <<b>>
  <2>1. d.source = <<>>
    BY DEF PassthroughLine
  <2>2. TextOf(items) \o Append(d.source, b) = text \o <<b>>
    <3>1. HoldsMore(items, d, b, n, text)
      BY HoldSays
    <3> QED BY <3>1 DEF HoldsMore
  <2> QED BY <1>2, <2>1, <2>2
<1>4. <<b>> \in Seq(Byte) /\ <<b>> # <<>>
  OBVIOUS
<1>5. DetSays(c, TextOf(items) \o <<b>>, n, Abandon(items, <<b>>).items, Abandon(items, <<b>>).detector)
  BY <1>1, <1>4, AbandonSays
<1> QED BY <1>3, <1>5

\* A byte, wherever.
LEMMA FeedByteSays ==
  ASSUME NEW c \in Seq(Byte), NEW text, NEW m \in BOOLEAN, NEW n \in BOOLEAN, NEW items, NEW d,
         DetSays(c, text, m, items, d), NEW b \in Byte, m => b = "lf",
         IsUnsafeControl(b) => b = "cr" /\ n
  PROVE  LET r == DetectorFeedByte(d, items, b)
         IN DetSays(c, text \o <<b>>, n, r.items, r.detector)
<1>1. DetShape(d)
  BY DEF DetSays
<1>2. CASE d = LineStart(d.source)
  <2>1. d.st = "line_start"
    BY <1>2 DEF LineStart
  <2>2. DetectorFeedByte(d, items, b) = FeedLineStart(d, items, b)
    BY <2>1 DEF DetectorFeedByte
  <2> QED BY <1>2, <2>2, LineStartSays
<1>3. CASE d = PassthroughLine
  <2>1. d.st = "passthrough_line"
    BY <1>3 DEF PassthroughLine
  <2>2. DetectorFeedByte(d, items, b) = Abandon(items, <<b>>)
    BY <2>1 DEF DetectorFeedByte
  <2> QED BY <1>3, <2>2, PassthroughLineSays
<1>4. CASE InBlock(d)
  <2>1. d.st = "block"
    BY <1>4 DEF InBlock, Block
  <2>2. DetectorFeedByte(d, items, b) = FeedBlock(d, items, b)
    BY <2>1 DEF DetectorFeedByte
  <2> QED BY <1>4, <2>2, BlockSays
<1> QED BY <1>1, <1>2, <1>3, <1>4 DEF DetShape

\* Of clean text, the part fed so far is clean if its successor is counted in.
LfFollows(t, k) == k < Len(t) /\ t[k + 1] = "lf"

\* The detector over a whole input.
LEMMA DetectorFeedSays ==
  ASSUME NEW c \in Seq(Byte), NEW d, DetShape(d), Clean(d.source),
         d.st # "passthrough_line" => LastOf(c) = "lf",
         NEW input \in Seq(Byte), Clean(input)
  PROVE  LET r == DetectorFeed(d, input)
         IN DetSays(c, d.source \o input, FALSE, r.items, r.detector)
<1>1. PICK r, n : r = DetectorRun(d, input) /\ n = Len(input)
  OBVIOUS
<1>2. n \in Nat /\ Len(input) \in Nat
  BY <1>1, LenProperties
<1>3. /\ DetectorFeed(d, input) = r[n] /\ r[0] = Detected(d, <<>>)
      /\ \A k \in Nat : k < n => r[k + 1] = DetectorStep(r[k], input[k + 1])
  BY <1>1, <1>2, DetectorRunIs
<1>4. d.source \in Seq(Byte)
  BY ShapeHasText
<1> DEFINE T == {k \in Nat : k <= n =>
                   DetSays(c, d.source \o Front(input, k), LfFollows(input, k), r[k].items, r[k].detector)}
<1>5. 0 \in T
  <2>1. PICK e, ps : e = r[0].detector /\ ps = r[0].items
    OBVIOUS
  <2>2. e = d /\ ps = <<>>
    BY <1>3, <2>1 DEF Detected
  <2>3. ps \in Seq(Items) /\ Len(ps) = 0
    BY <2>2
  <2>4. BytesClean(d.source, LfFollows(input, 0))
    BY DEF Clean, BytesClean
  <2>5. TextOf(ps) = <<>>
    BY <2>2, NoText
  <2>6. <<>> \o d.source = d.source /\ d.source \o <<>> = d.source /\ c \o <<>> = c
    BY <1>4, EmptyJoins
  <2>7. ItemsAligned(c, ps)
    BY <2>3 DEF ItemsAligned
  <2>8. Front(input, 0) = <<>>
    BY FrontIs
  <2>9. DetSays(c, d.source \o Front(input, 0), LfFollows(input, 0), ps, e)
    BY <2>2, <2>3, <2>4, <2>5, <2>6, <2>7, <2>8 DEF DetSays
  <2> QED BY <2>1, <2>9
<1>6. \A k \in Nat : k \in T => k + 1 \in T
  <2> TAKE k \in Nat
  <2> SUFFICES ASSUME k + 1 <= n,
                      DetSays(c, d.source \o Front(input, k), LfFollows(input, k), r[k].items, r[k].detector)
               PROVE  DetSays(c, d.source \o Front(input, k + 1), LfFollows(input, k + 1),
                              r[k + 1].items, r[k + 1].detector)
    BY <1>2
  <2>1. k < Len(input) /\ k < n /\ k + 1 \in 1..Len(input)
    BY <1>1, <1>2
  <2>2. PICK b, s, text, e, ps : b = input[k + 1] /\ s = Front(input, k) /\ text = d.source \o s
                                 /\ e = r[k].detector /\ ps = r[k].items
    OBVIOUS
  <2>3. PICK x, y \in BOOLEAN : x = LfFollows(input, k) /\ y = LfFollows(input, k + 1)
    BY DEF LfFollows
  <2>4. b \in Byte /\ s \in Seq(Byte) /\ Front(input, k + 1) = s \o <<b>>
    BY <2>1, <2>2, FrontIs
  <2>5. DetSays(c, text, x, ps, e)
    BY <2>2, <2>3
  <2>6. x => b = "lf"
    BY <2>2, <2>3 DEF LfFollows
  <2>7. IsUnsafeControl(b) => b = "cr" /\ y
    BY <2>1, <2>2, <2>3 DEF Clean, BytesClean, LfFollows
  <2>8. PICK q : q = DetectorFeedByte(e, ps, b)
    OBVIOUS
  <2>9. DetSays(c, text \o <<b>>, y, q.items, q.detector)
    BY <2>4, <2>5, <2>6, <2>7, <2>8, FeedByteSays
  <2>10. r[k + 1] = q
    <3>1. r[k + 1] = DetectorStep(r[k], b)
      BY <1>3, <2>1, <2>2
    <3> QED BY <2>2, <2>8, <3>1 DEF DetectorStep
  <2>11. text \o <<b>> = d.source \o Front(input, k + 1)
    <3>1. s \in Seq(Byte)
      BY <2>4
    <3>2. <<b>> \in Seq(Byte)
      BY <2>4
    <3>3. (d.source \o s) \o <<b>> = d.source \o (s \o <<b>>)
      BY <1>4, <3>1, <3>2, Associates
    <3> QED BY <2>2, <2>4, <3>3
  <2> QED BY <2>3, <2>9, <2>10, <2>11
<1>7. Nat \subseteq T
  <2> HIDE DEF T
  <2> QED BY <1>5, <1>6, SetInduction
<1>8. DetSays(c, d.source \o Front(input, n), LfFollows(input, n), r[n].items, r[n].detector)
  BY <1>2, <1>7
<1>9. Front(input, n) = input
  BY <1>1, FrontIs
<1>10. LfFollows(input, n) = FALSE
  BY <1>1, <1>2 DEF LfFollows
<1> QED BY <1>3, <1>8, <1>9, <1>10

\* Nothing fed, nothing done.
LEMMA NothingFed == \A d : DetectorFeed(d, <<>>) = Detected(d, <<>>)
<1> TAKE d
<1>1. PICK t : t = <<>>
  OBVIOUS
<1>2. Len(t) = 0
  BY <1>1
<1>3. DetectorFeed(d, t) = DetectorRun(d, t)[Len(t)] /\ DetectorRun(d, t)[0] = Detected(d, <<>>)
  BY <1>2, DetectorRunIs
<1> QED BY <1>1, <1>2, <1>3

-----------------------------------------------------------------------------
\* The fields of the state of a call.

\* The fields of the working state of a call.
Fields(p) ==
  \E g, d, w, n : \E e, s, t, c, f \in BOOLEAN :
    p = [gate |-> g, detector |-> d, enabled |-> e, line_start |-> s, passthrough |-> t,
         cancelled |-> c, writes |-> w, resolved |-> n, failed |-> f]

\* Two working states that differ in nothing but the writes and what became of blocks.
Same(p, q) ==
  /\ q.gate = p.gate /\ q.detector = p.detector /\ q.enabled = p.enabled
  /\ q.line_start = p.line_start /\ q.passthrough = p.passthrough

\* Two working states that agree on the writes and what became of blocks.
SameWrites(p, q) ==
  q.writes = p.writes /\ q.cancelled = p.cancelled /\ q.failed = p.failed

\* What has these fields is such a state.
LEMMA FieldsMade ==
  ASSUME NEW g, NEW d, NEW w, NEW n, NEW e \in BOOLEAN, NEW s \in BOOLEAN, NEW t \in BOOLEAN,
         NEW c \in BOOLEAN, NEW f \in BOOLEAN, NEW p,
         p = [gate |-> g, detector |-> d, enabled |-> e, line_start |-> s, passthrough |-> t,
              cancelled |-> c, writes |-> w, resolved |-> n, failed |-> f]
  PROVE  Fields(p)
<1>1. \E x, y, z, r : \E e1, s1, t1, c1, f1 \in BOOLEAN :
        p = [gate |-> x, detector |-> y, enabled |-> e1, line_start |-> s1, passthrough |-> t1,
             cancelled |-> c1, writes |-> z, resolved |-> r, failed |-> f1]
  <2> WITNESS g, d, w, n
  <2> WITNESS e \in BOOLEAN, s \in BOOLEAN, t \in BOOLEAN, c \in BOOLEAN, f \in BOOLEAN
  <2> QED OBVIOUS
<1> QED BY <1>1 DEF Fields

\* Its flags are flags.
LEMMA FieldsAre ==
  ASSUME NEW p, Fields(p)
  PROVE  /\ p.enabled \in BOOLEAN /\ p.line_start \in BOOLEAN /\ p.passthrough \in BOOLEAN
         /\ p.cancelled \in BOOLEAN /\ p.failed \in BOOLEAN
<1>1. PICK g, d, w, n : \E e, s, t, c, f \in BOOLEAN :
        p = [gate |-> g, detector |-> d, enabled |-> e, line_start |-> s, passthrough |-> t,
             cancelled |-> c, writes |-> w, resolved |-> n, failed |-> f]
  BY DEF Fields
<1>2. PICK e, s, t, c, f \in BOOLEAN :
        p = [gate |-> g, detector |-> d, enabled |-> e, line_start |-> s, passthrough |-> t,
             cancelled |-> c, writes |-> w, resolved |-> n, failed |-> f]
  BY <1>1
<1> QED BY <1>2

\* Setting fields of a working state leaves the others as they were.
LEMMA WritesSet ==
  ASSUME NEW p, Fields(p), NEW x
  PROVE  LET q == [p EXCEPT !.writes = x]
         IN /\ Fields(q)
            /\ Same(p, q) /\ q.writes = x /\ q.cancelled = p.cancelled /\ q.failed = p.failed
<1>1. PICK g, d, w, n : \E e, s, t, c, f \in BOOLEAN :
        p = [gate |-> g, detector |-> d, enabled |-> e, line_start |-> s, passthrough |-> t,
             cancelled |-> c, writes |-> w, resolved |-> n, failed |-> f]
  BY DEF Fields
<1>2. PICK e, s, t, c, f \in BOOLEAN :
        p = [gate |-> g, detector |-> d, enabled |-> e, line_start |-> s, passthrough |-> t,
             cancelled |-> c, writes |-> w, resolved |-> n, failed |-> f]
  BY <1>1
<1>3. PICK q : q = [p EXCEPT !.writes = x]
  OBVIOUS
<1>5. q = [gate |-> g, detector |-> d, enabled |-> e, line_start |-> s, passthrough |-> t,
             cancelled |-> c, writes |-> x, resolved |-> n, failed |-> f]
  BY <1>2, <1>3
<1>6. Fields(q)
  BY <1>5, FieldsMade
<1>7. Same(p, q) /\ q.writes = x /\ q.cancelled = p.cancelled /\ q.failed = p.failed
  BY <1>2, <1>5 DEF Same
<1> QED BY <1>3, <1>6, <1>7

\* A block resolved.
LEMMA BlockResolved ==
  ASSUME NEW p, Fields(p), NEW x
  PROVE  LET q == [p EXCEPT !.cancelled = FALSE, !.resolved = x]
         IN /\ Fields(q)
            /\ Same(p, q) /\ q.writes = p.writes /\ q.cancelled = FALSE /\ q.failed = p.failed /\ q.resolved = x
<1>1. PICK g, d, w, n : \E e, s, t, c, f \in BOOLEAN :
        p = [gate |-> g, detector |-> d, enabled |-> e, line_start |-> s, passthrough |-> t,
             cancelled |-> c, writes |-> w, resolved |-> n, failed |-> f]
  BY DEF Fields
<1>2. PICK e, s, t, c, f \in BOOLEAN :
        p = [gate |-> g, detector |-> d, enabled |-> e, line_start |-> s, passthrough |-> t,
             cancelled |-> c, writes |-> w, resolved |-> n, failed |-> f]
  BY <1>1
<1>3. PICK q : q = [p EXCEPT !.cancelled = FALSE, !.resolved = x]
  OBVIOUS
<1>4. PICK z \in BOOLEAN : z = FALSE
  OBVIOUS
<1>5. q = [gate |-> g, detector |-> d, enabled |-> e, line_start |-> s, passthrough |-> t,
             cancelled |-> z, writes |-> w, resolved |-> x, failed |-> f]
  BY <1>2, <1>3, <1>4
<1>6. Fields(q)
  BY <1>5, FieldsMade
<1>7. Same(p, q) /\ q.writes = p.writes /\ q.cancelled = FALSE /\ q.failed = p.failed /\ q.resolved = x
  BY <1>2, <1>4, <1>5 DEF Same
<1> QED BY <1>3, <1>6, <1>7

\* A failure.
LEMMA FailedSet ==
  ASSUME NEW p, Fields(p)
  PROVE  LET q == [p EXCEPT !.failed = TRUE]
         IN /\ Fields(q)
            /\ Same(p, q) /\ q.writes = p.writes /\ q.cancelled = p.cancelled /\ q.failed = TRUE
<1>1. PICK g, d, w, n : \E e, s, t, c, f \in BOOLEAN :
        p = [gate |-> g, detector |-> d, enabled |-> e, line_start |-> s, passthrough |-> t,
             cancelled |-> c, writes |-> w, resolved |-> n, failed |-> f]
  BY DEF Fields
<1>2. PICK e, s, t, c, f \in BOOLEAN :
        p = [gate |-> g, detector |-> d, enabled |-> e, line_start |-> s, passthrough |-> t,
             cancelled |-> c, writes |-> w, resolved |-> n, failed |-> f]
  BY <1>1
<1>3. PICK q : q = [p EXCEPT !.failed = TRUE]
  OBVIOUS
<1>4. PICK z \in BOOLEAN : z = TRUE
  OBVIOUS
<1>5. q = [gate |-> g, detector |-> d, enabled |-> e, line_start |-> s, passthrough |-> t,
             cancelled |-> c, writes |-> w, resolved |-> n, failed |-> z]
  BY <1>2, <1>3, <1>4
<1>6. Fields(q)
  BY <1>5, FieldsMade
<1>7. Same(p, q) /\ q.writes = p.writes /\ q.cancelled = p.cancelled /\ q.failed = TRUE
  BY <1>2, <1>4, <1>5 DEF Same
<1> QED BY <1>3, <1>6, <1>7

\* The detector set.
LEMMA DetectorSet ==
  ASSUME NEW p, Fields(p), NEW x
  PROVE  LET q == [p EXCEPT !.detector = x]
         IN /\ Fields(q)
            /\ SameWrites(p, q) /\ q.detector = x /\ q.gate = p.gate
                /\ q.enabled = p.enabled /\ q.passthrough = p.passthrough /\ q.line_start = p.line_start
<1>1. PICK g, d, w, n : \E e, s, t, c, f \in BOOLEAN :
        p = [gate |-> g, detector |-> d, enabled |-> e, line_start |-> s, passthrough |-> t,
             cancelled |-> c, writes |-> w, resolved |-> n, failed |-> f]
  BY DEF Fields
<1>2. PICK e, s, t, c, f \in BOOLEAN :
        p = [gate |-> g, detector |-> d, enabled |-> e, line_start |-> s, passthrough |-> t,
             cancelled |-> c, writes |-> w, resolved |-> n, failed |-> f]
  BY <1>1
<1>3. PICK q : q = [p EXCEPT !.detector = x]
  OBVIOUS
<1>5. q = [gate |-> g, detector |-> x, enabled |-> e, line_start |-> s, passthrough |-> t,
             cancelled |-> c, writes |-> w, resolved |-> n, failed |-> f]
  BY <1>2, <1>3
<1>6. Fields(q)
  BY <1>5, FieldsMade
<1>7. SameWrites(p, q) /\ q.detector = x /\ q.gate = p.gate
                /\ q.enabled = p.enabled /\ q.passthrough = p.passthrough /\ q.line_start = p.line_start
  BY <1>2, <1>5 DEF SameWrites
<1> QED BY <1>3, <1>6, <1>7

\* The gate set.
LEMMA GateSet ==
  ASSUME NEW p, Fields(p), NEW x
  PROVE  LET q == [p EXCEPT !.gate = x]
         IN /\ Fields(q)
            /\ SameWrites(p, q) /\ q.detector = p.detector /\ q.gate = x
                /\ q.enabled = p.enabled /\ q.passthrough = p.passthrough /\ q.line_start = p.line_start
<1>1. PICK g, d, w, n : \E e, s, t, c, f \in BOOLEAN :
        p = [gate |-> g, detector |-> d, enabled |-> e, line_start |-> s, passthrough |-> t,
             cancelled |-> c, writes |-> w, resolved |-> n, failed |-> f]
  BY DEF Fields
<1>2. PICK e, s, t, c, f \in BOOLEAN :
        p = [gate |-> g, detector |-> d, enabled |-> e, line_start |-> s, passthrough |-> t,
             cancelled |-> c, writes |-> w, resolved |-> n, failed |-> f]
  BY <1>1
<1>3. PICK q : q = [p EXCEPT !.gate = x]
  OBVIOUS
<1>5. q = [gate |-> x, detector |-> d, enabled |-> e, line_start |-> s, passthrough |-> t,
             cancelled |-> c, writes |-> w, resolved |-> n, failed |-> f]
  BY <1>2, <1>3
<1>6. Fields(q)
  BY <1>5, FieldsMade
<1>7. SameWrites(p, q) /\ q.detector = p.detector /\ q.gate = x
                /\ q.enabled = p.enabled /\ q.passthrough = p.passthrough /\ q.line_start = p.line_start
  BY <1>2, <1>5 DEF SameWrites
<1> QED BY <1>3, <1>6, <1>7

\* The rest of the line passed through or no more.
LEMMA PassthroughSet ==
  ASSUME NEW p, Fields(p), NEW x \in BOOLEAN
  PROVE  LET q == [p EXCEPT !.passthrough = x]
         IN /\ Fields(q)
            /\ SameWrites(p, q) /\ q.detector = p.detector /\ q.gate = p.gate
                /\ q.enabled = p.enabled /\ q.passthrough = x /\ q.line_start = p.line_start
<1>1. PICK g, d, w, n : \E e, s, t, c, f \in BOOLEAN :
        p = [gate |-> g, detector |-> d, enabled |-> e, line_start |-> s, passthrough |-> t,
             cancelled |-> c, writes |-> w, resolved |-> n, failed |-> f]
  BY DEF Fields
<1>2. PICK e, s, t, c, f \in BOOLEAN :
        p = [gate |-> g, detector |-> d, enabled |-> e, line_start |-> s, passthrough |-> t,
             cancelled |-> c, writes |-> w, resolved |-> n, failed |-> f]
  BY <1>1
<1>3. PICK q : q = [p EXCEPT !.passthrough = x]
  OBVIOUS
<1>5. q = [gate |-> g, detector |-> d, enabled |-> e, line_start |-> s, passthrough |-> x,
             cancelled |-> c, writes |-> w, resolved |-> n, failed |-> f]
  BY <1>2, <1>3
<1>6. Fields(q)
  BY <1>5, FieldsMade
<1>7. SameWrites(p, q) /\ q.detector = p.detector /\ q.gate = p.gate
                /\ q.enabled = p.enabled /\ q.passthrough = x /\ q.line_start = p.line_start
  BY <1>2, <1>5 DEF SameWrites
<1> QED BY <1>3, <1>6, <1>7

\* Rendering paused,
LEMMA Paused ==
  ASSUME NEW p, Fields(p)
  PROVE  LET q == [p EXCEPT !.enabled = FALSE]
         IN /\ Fields(q)
            /\ SameWrites(p, q) /\ q.detector = p.detector /\ q.gate = p.gate
                /\ q.enabled = FALSE /\ q.passthrough = p.passthrough /\ q.line_start = p.line_start
<1>1. PICK g, d, w, n : \E e, s, t, c, f \in BOOLEAN :
        p = [gate |-> g, detector |-> d, enabled |-> e, line_start |-> s, passthrough |-> t,
             cancelled |-> c, writes |-> w, resolved |-> n, failed |-> f]
  BY DEF Fields
<1>2. PICK e, s, t, c, f \in BOOLEAN :
        p = [gate |-> g, detector |-> d, enabled |-> e, line_start |-> s, passthrough |-> t,
             cancelled |-> c, writes |-> w, resolved |-> n, failed |-> f]
  BY <1>1
<1>3. PICK q : q = [p EXCEPT !.enabled = FALSE]
  OBVIOUS
<1>4. PICK z \in BOOLEAN : z = FALSE
  OBVIOUS
<1>5. q = [gate |-> g, detector |-> d, enabled |-> z, line_start |-> s, passthrough |-> t,
             cancelled |-> c, writes |-> w, resolved |-> n, failed |-> f]
  BY <1>2, <1>3, <1>4
<1>6. Fields(q)
  BY <1>5, FieldsMade
<1>7. SameWrites(p, q) /\ q.detector = p.detector /\ q.gate = p.gate
                /\ q.enabled = FALSE /\ q.passthrough = p.passthrough /\ q.line_start = p.line_start
  BY <1>2, <1>4, <1>5 DEF SameWrites
<1> QED BY <1>3, <1>6, <1>7

\* and resumed.
LEMMA Resumed ==
  ASSUME NEW p, Fields(p), NEW x \in BOOLEAN
  PROVE  LET q == [p EXCEPT !.passthrough = x, !.enabled = TRUE]
         IN /\ Fields(q)
            /\ SameWrites(p, q) /\ q.detector = p.detector /\ q.gate = p.gate
                /\ q.enabled = TRUE /\ q.passthrough = x /\ q.line_start = p.line_start
<1>1. PICK g, d, w, n : \E e, s, t, c, f \in BOOLEAN :
        p = [gate |-> g, detector |-> d, enabled |-> e, line_start |-> s, passthrough |-> t,
             cancelled |-> c, writes |-> w, resolved |-> n, failed |-> f]
  BY DEF Fields
<1>2. PICK e, s, t, c, f \in BOOLEAN :
        p = [gate |-> g, detector |-> d, enabled |-> e, line_start |-> s, passthrough |-> t,
             cancelled |-> c, writes |-> w, resolved |-> n, failed |-> f]
  BY <1>1
<1>3. PICK q : q = [p EXCEPT !.passthrough = x, !.enabled = TRUE]
  OBVIOUS
<1>4. PICK z \in BOOLEAN : z = TRUE
  OBVIOUS
<1>5. q = [gate |-> g, detector |-> d, enabled |-> z, line_start |-> s, passthrough |-> x,
             cancelled |-> c, writes |-> w, resolved |-> n, failed |-> f]
  BY <1>2, <1>3, <1>4
<1>6. Fields(q)
  BY <1>5, FieldsMade
<1>7. SameWrites(p, q) /\ q.detector = p.detector /\ q.gate = p.gate
                /\ q.enabled = TRUE /\ q.passthrough = x /\ q.line_start = p.line_start
  BY <1>2, <1>4, <1>5 DEF SameWrites
<1> QED BY <1>3, <1>6, <1>7

-----------------------------------------------------------------------------
\* What a call has written.

\* What a write shows, and how.
Hows == {"raw", "verbatim", "rendered", "fallback"}

\* The writes of a call.
WritePieces == [how : Hows, bytes : Seq(Byte)]

\* A rendered write shows a genuine block at the start of a line, l being the
\* byte displayed before the writes, and only while rendering is enabled (e).
Given(ws, l, e) ==
  /\ ws \in Seq(WritePieces)
  /\ \A i \in 1..Len(ws) : ws[i].how = "rendered" =>
       e /\ ws[i].bytes \in BlockBytes /\ LastOf(<<l>> \o TextTo(ws, i - 1)) = "lf"

\* A cancellation from before the call is there until the first block, which it costs.
Spent(p, was) ==
  was =>
    /\ \A i \in 1..Len(p.writes) : p.writes[i].how = "rendered" =>
         \E j \in 1..(i - 1) : p.writes[j].how = "fallback"
    /\ p.cancelled => \A i \in 1..Len(p.writes) : p.writes[i].how \notin {"rendered", "fallback"}
    /\ p.cancelled \/ p.failed \/ \E i \in 1..Len(p.writes) : p.writes[i].how = "fallback"

\* They have text.
LEMMA WritesHaveText == HasText(WritePieces)
BY DEF HasText, WritePieces

\* One write more.
Written(p, q, l, how, bytes) ==
  /\ Fields(q) /\ Same(p, q) /\ ~q.failed /\ q.cancelled = p.cancelled
  /\ Given(q.writes, l, q.enabled)
  /\ TextOf(q.writes) = TextOf(p.writes) \o bytes
  /\ Len(p.writes) \in Nat /\ Len(q.writes) = Len(p.writes) + 1
  /\ q.writes[Len(p.writes) + 1].how = how
  /\ \A i \in 1..Len(p.writes) : q.writes[i].how = p.writes[i].how

\* A write that is given right is.
LEMMA WriteSays ==
  ASSUME NEW l \in Byte, NEW p, Fields(p), ~p.failed, Given(p.writes, l, p.enabled),
         NEW how \in Hows, NEW bytes \in Seq(Byte),
         how = "rendered" => /\ p.enabled /\ bytes \in BlockBytes
                             /\ LastOf(<<l>> \o TextOf(p.writes)) = "lf"
  PROVE  Written(p, Write(p, how, bytes), l, how, bytes)
<1>1. PICK ws, x, vs, n, q : /\ ws = p.writes /\ x = [how |-> how, bytes |-> bytes]
                             /\ vs = Append(ws, x) /\ n = Len(ws) /\ q = Write(p, how, bytes)
  OBVIOUS
<1>2. ws \in Seq(WritePieces) /\ x \in WritePieces /\ x.how = how /\ x.bytes = bytes
  BY <1>1 DEF Given, WritePieces
<1>3. n \in Nat
  BY <1>1, <1>2, LenProperties
<1>4. vs \in Seq(WritePieces) /\ Len(vs) = n + 1 /\ vs[n + 1] = x /\ \A i \in 1..n : vs[i] = ws[i]
  BY <1>1, <1>2, AppendProperties
<1>5. TextOf(vs) = TextOf(ws) \o bytes /\ \A i \in 0..n : TextTo(vs, i) = TextTo(ws, i)
  <2>1. /\ TextOf(Append(ws, x)) = TextOf(ws) \o x.bytes
        /\ \A i \in 0..Len(ws) : TextTo(Append(ws, x), i) = TextTo(ws, i)
    BY <1>2, WritesHaveText, AppendedText
  <2> QED BY <1>1, <1>2, <2>1
<1>6. q = [p EXCEPT !.writes = vs]
  BY <1>1 DEF Write
<1>7. Fields(q) /\ Same(p, q) /\ q.writes = vs /\ q.cancelled = p.cancelled /\ q.failed = p.failed
  BY <1>6, WritesSet
<1>8. ASSUME NEW i \in 1..(n + 1), vs[i].how = "rendered"
      PROVE  p.enabled /\ vs[i].bytes \in BlockBytes /\ LastOf(<<l>> \o TextTo(vs, i - 1)) = "lf"
  <2>1. CASE i = n + 1
    <3>1. i - 1 = n /\ n \in 0..n /\ vs[i] = x
      BY <1>3, <1>4, <2>1
    <3>2. TextTo(vs, i - 1) = TextOf(ws)
      <4>1. TextTo(ws, Len(ws)) = TextOf(ws)
        BY <1>2, WritesHaveText, TextToIs
      <4> QED BY <1>1, <1>5, <3>1, <4>1
    <3> QED BY <1>1, <1>2, <1>8, <3>1, <3>2
  <2>2. CASE i # n + 1
    <3>1. i \in 1..n /\ i - 1 \in 0..n
      BY <1>3, <2>2
    <3>2. vs[i] = ws[i] /\ TextTo(vs, i - 1) = TextTo(ws, i - 1)
      BY <1>4, <1>5, <3>1
    <3>3. p.enabled /\ ws[i].bytes \in BlockBytes /\ LastOf(<<l>> \o TextTo(ws, i - 1)) = "lf"
      BY <1>1, <1>8, <3>1, <3>2 DEF Given
    <3> QED BY <3>2, <3>3
  <2> QED BY <2>1, <2>2
<1>9. Given(vs, l, p.enabled)
  BY <1>4, <1>8 DEF Given
<1>10. q.enabled = p.enabled
  BY <1>7 DEF Same
<1>11. Given(q.writes, l, q.enabled)
  BY <1>7, <1>9, <1>10
<1>12. \A i \in 1..n : q.writes[i].how = p.writes[i].how
  BY <1>1, <1>4, <1>7
<1> QED BY <1>1, <1>2, <1>3, <1>4, <1>5, <1>7, <1>11, <1>12 DEF Written

\* Plain text spends no cancellation.
LEMMA PlainSpent ==
  ASSUME NEW l, NEW p, NEW q, NEW how \in {"raw", "verbatim"}, NEW bytes, NEW was,
         Written(p, q, l, how, bytes), Spent(p, was), ~p.failed
  PROVE  Spent(q, was)
<1> SUFFICES ASSUME was PROVE Spent(q, was)
  BY DEF Spent
<1>1. PICK n, ws, vs : n = Len(p.writes) /\ ws = p.writes /\ vs = q.writes
  OBVIOUS
<1>2. /\ n \in Nat /\ Len(vs) = n + 1 /\ vs[n + 1].how \in {"raw", "verbatim"}
      /\ \A i \in 1..n : vs[i].how = ws[i].how
      /\ q.cancelled = p.cancelled
  BY <1>1 DEF Written
<1>3. /\ \A i \in 1..n : ws[i].how = "rendered" => \E j \in 1..(i - 1) : ws[j].how = "fallback"
      /\ p.cancelled => \A i \in 1..n : ws[i].how \notin {"rendered", "fallback"}
      /\ p.cancelled \/ \E i \in 1..n : ws[i].how = "fallback"
  BY <1>1 DEF Spent
<1>4. \A i \in 1..(n + 1) : i = n + 1 \/ i \in 1..n
  BY <1>2
<1>5. \A i \in 1..n : i \in 1..(n + 1) /\ \A j \in 1..(i - 1) : j \in 1..n
  BY <1>2
<1>6. \A i \in 1..(n + 1) : vs[i].how = "rendered" => \E j \in 1..(i - 1) : vs[j].how = "fallback"
  BY <1>2, <1>3, <1>4, <1>5
<1>7. p.cancelled => \A i \in 1..(n + 1) : vs[i].how \notin {"rendered", "fallback"}
  BY <1>2, <1>3, <1>4
<1>8. p.cancelled \/ \E i \in 1..(n + 1) : vs[i].how = "fallback"
  BY <1>2, <1>3, <1>5
<1> QED BY <1>1, <1>2, <1>6, <1>7, <1>8 DEF Spent

\* What a call has done so far, and that it goes on after p.
Goes(p, r, l, was) == Fields(r) /\ Same(p, r) /\ Given(r.writes, l, r.enabled) /\ Spent(r, was)

\* A block resolved: it is shown, rendered or as it is, or the call fails.
LEMMA EmitBlockSays ==
  ASSUME NEW l \in Byte, NEW was \in BOOLEAN, NEW p, Fields(p), ~p.failed,
         Given(p.writes, l, p.enabled), Spent(p, was), p.enabled,
         NEW block, block.bytes \in BlockBytes, LastOf(<<l>> \o TextOf(p.writes)) = "lf",
         NEW pending, NEW renders
  PROVE  LET r == EmitBlock(p, block, pending, renders)
         IN /\ Goes(p, r, l, was)
            /\ \/ ~r.failed /\ TextOf(r.writes) = TextOf(p.writes) \o block.bytes
               \/ r.failed /\ r.writes = p.writes
<1>0. PICK m : m = p.resolved + 1
  OBVIOUS
<1>1. PICK q, r : /\ q = [p EXCEPT !.cancelled = FALSE, !.resolved = m]
                  /\ r = EmitBlock(p, block, pending, renders)
  OBVIOUS
<1>2. Fields(q) /\ Same(p, q) /\ q.writes = p.writes /\ q.cancelled = FALSE /\ q.failed = p.failed
  BY <1>1, BlockResolved
<1>3. q.enabled = p.enabled
  BY <1>2 DEF Same
<1>4. Given(q.writes, l, q.enabled)
  BY <1>2, <1>3
<1>5. PICK b, n, ws : b = block.bytes /\ n = Len(p.writes) /\ ws = p.writes
  OBVIOUS
<1>6. b \in Seq(Byte)
  BY <1>5 DEF BlockBytes
<1>7. was => /\ \A i \in 1..n : ws[i].how = "rendered" => \E j \in 1..(i - 1) : ws[j].how = "fallback"
             /\ p.cancelled => \A i \in 1..n : ws[i].how \notin {"rendered", "fallback"}
             /\ p.cancelled \/ \E i \in 1..n : ws[i].how = "fallback"
  BY <1>5 DEF Spent
<1>8. \/ r = Write(q, "rendered", b) /\ ~p.cancelled
      \/ r = [q EXCEPT !.failed = TRUE]
      \/ r = Write(q, "fallback", b)
  BY <1>0, <1>1, <1>5 DEF EmitBlock
<1>9. ASSUME NEW s, Same(q, s) PROVE Same(p, s)
  BY <1>2, <1>9 DEF Same
<1>10. CASE r = Write(q, "rendered", b) /\ ~p.cancelled
  <2>1. "rendered" \in Hows
    BY DEF Hows
  <2>2. Written(q, r, l, "rendered", b)
    BY <1>2, <1>3, <1>4, <1>5, <1>6, <1>10, <2>1, WriteSays
  <2>3. Spent(r, was)
    <3> SUFFICES ASSUME was PROVE Spent(r, was)
      BY DEF Spent
    <3>1. /\ n \in Nat /\ Len(r.writes) = n + 1 /\ r.cancelled = FALSE
          /\ \A i \in 1..n : r.writes[i].how = ws[i].how
      BY <1>2, <1>5, <2>2 DEF Written
    <3>2. PICK k \in 1..n : ws[k].how = "fallback"
      BY <1>7, <1>10
    <3>3. \A i \in 1..(n + 1) : i = n + 1 \/ i \in 1..n
      BY <3>1
    <3>4. k \in 1..(n + 1 - 1) /\ k \in 1..(n + 1)
      BY <3>1
    <3>5. \A i \in 1..n : \A j \in 1..(i - 1) : j \in 1..n
      BY <3>1
    <3>6. \A i \in 1..(n + 1) : r.writes[i].how = "rendered" =>
            \E j \in 1..(i - 1) : r.writes[j].how = "fallback"
      BY <1>7, <3>1, <3>2, <3>3, <3>4, <3>5
    <3> QED BY <3>1, <3>2, <3>4, <3>6 DEF Spent
  <2>4. Fields(r) /\ Same(q, r) /\ ~r.failed /\ Given(r.writes, l, r.enabled)
        /\ TextOf(r.writes) = TextOf(q.writes) \o b
    BY <2>2 DEF Written
  <2> QED BY <1>1, <1>2, <1>5, <1>9, <2>3, <2>4 DEF Goes
<1>11. CASE r = [q EXCEPT !.failed = TRUE]
  <2>1. Fields(r) /\ Same(q, r) /\ r.writes = q.writes /\ r.cancelled = q.cancelled /\ r.failed = TRUE
    BY <1>2, <1>11, FailedSet
  <2>2. r.enabled = q.enabled
    BY <2>1 DEF Same
  <2>3. Spent(r, was)
    BY <1>2, <1>5, <1>7, <2>1 DEF Spent
  <2> QED BY <1>1, <1>2, <1>4, <1>9, <2>1, <2>2, <2>3 DEF Goes
<1>12. CASE r = Write(q, "fallback", b)
  <2>1. "fallback" \in Hows
    BY DEF Hows
  <2>2. Written(q, r, l, "fallback", b)
    BY <1>2, <1>4, <1>6, <1>12, <2>1, WriteSays
  <2>3. Spent(r, was)
    <3> SUFFICES ASSUME was PROVE Spent(r, was)
      BY DEF Spent
    <3>1. /\ n \in Nat /\ Len(r.writes) = n + 1 /\ r.cancelled = FALSE
          /\ \A i \in 1..n : r.writes[i].how = ws[i].how
          /\ r.writes[n + 1].how = "fallback"
      BY <1>2, <1>5, <2>2 DEF Written
    <3>2. \A i \in 1..(n + 1) : i = n + 1 \/ i \in 1..n
      BY <3>1
    <3>3. n + 1 \in 1..(n + 1)
      BY <3>1
    <3>4. \A i \in 1..n : \A j \in 1..(i - 1) : j \in 1..n
      BY <3>1
    <3>5. \A i \in 1..(n + 1) : r.writes[i].how = "rendered" =>
            \E j \in 1..(i - 1) : r.writes[j].how = "fallback"
      BY <1>7, <3>1, <3>2, <3>4
    <3> QED BY <3>1, <3>3, <3>5 DEF Spent
  <2>4. Fields(r) /\ Same(q, r) /\ ~r.failed /\ Given(r.writes, l, r.enabled)
        /\ TextOf(r.writes) = TextOf(q.writes) \o b
    BY <2>2 DEF Written
  <2> QED BY <1>1, <1>2, <1>5, <1>9, <2>3, <2>4 DEF Goes
<1> QED BY <1>8, <1>10, <1>11, <1>12

\* Being the same but for the writes is transitive.
LEMMA SamePieces ==
  ASSUME NEW p, NEW q, NEW r, Same(p, q), Same(q, r) PROVE Same(p, r)
BY DEF Same

\* A byte is a text.
LEMMA LineByte == ASSUME NEW l \in Byte PROVE <<l>> \in Seq(Byte)
OBVIOUS

\* The items up to the k-th shown after the writes of p.
EmitTo(p, items, k, r, l, was) ==
  /\ Goes(p, r, l, was)
  /\ StartsWith(TextOf(p.writes) \o TextOf(items), TextOf(r.writes))
  /\ ~r.failed => TextOf(r.writes) = TextOf(p.writes) \o TextTo(items, k)

\* What begins alike begins alike after the same text.
LEMMA StartsShorter ==
  ASSUME NEW t \in Seq(Byte), NEW s \in Seq(Byte), NEW f \in Seq(Byte),
         StartsWith(s, f)
  PROVE  StartsWith(t \o s, t \o f)
<1>1. PICK rest \in Seq(Byte) : s = f \o rest
  BY DEF StartsWith
<1>2. t \o (f \o rest) = (t \o f) \o rest
  BY Associates
<1> QED BY <1>1, <1>2 DEF StartsWith

\* One item shown.
LEMMA EmitStepSays ==
  ASSUME NEW l \in Byte, NEW was \in BOOLEAN, NEW p, p.enabled, NEW items \in Seq(Items),
         TextOf(p.writes) \in Seq(Byte), ItemsAligned(<<l>> \o TextOf(p.writes), items),
         NEW k \in Nat, k < Len(items), NEW r, EmitTo(p, items, k, r, l, was), NEW renders
  PROVE  EmitTo(p, items, k + 1, EmitStep(items, renders, r, k + 1), l, was)
<1>1. CASE r.failed
  <2>1. EmitStep(items, renders, r, k + 1) = r
    BY <1>1 DEF EmitStep
  <2> QED BY <1>1, <2>1 DEF EmitTo
<1>2. CASE ~r.failed
  <2>1. PICK t, x, b, j, q, s : /\ t = TextOf(p.writes) /\ j = k + 1 /\ x = items[j] /\ b = x.bytes
                                /\ q = EmitStep(items, renders, r, j) /\ s = TextTo(items, k)
    OBVIOUS
  <2>2. j \in 1..Len(items) /\ k = j - 1 /\ k \in 0..Len(items) /\ j \in 0..Len(items)
    BY <2>1, LenProperties
  <2>3. x \in Items
    BY <2>1, <2>2, ElementOfSeq
  <2>4. b \in Seq(Byte) /\ (x.type = "semantic" => b \in BlockBytes)
    BY <2>1, <2>3 DEF Items, BlockBytes
  <2>5. t \in Seq(Byte) /\ s \in Seq(Byte) /\ TextTo(items, j) = s \o b
    <3>1. TextTo(items, k) \in Seq(Byte)
      BY <2>2, ItemsHaveText, TextToIs
    <3>2. TextTo(items, k + 1) = TextTo(items, k) \o items[k + 1].bytes
      BY ItemsHaveText, TextNext
    <3> QED BY <2>1, <3>1, <3>2
  <2>6. /\ Fields(r) /\ Same(p, r) /\ Given(r.writes, l, r.enabled) /\ Spent(r, was)
        /\ TextOf(r.writes) = t \o s /\ r.enabled
    BY <1>2, <2>1 DEF EmitTo, Goes, Same
  <2>7. \/ q.failed /\ q.writes = r.writes /\ Goes(r, q, l, was)
        \/ ~q.failed /\ TextOf(q.writes) = (t \o s) \o b /\ Goes(r, q, l, was)
    <3>1. CASE x.type = "semantic"
      <4>1. PICK pending : pending = PendingAfter(items, j)
        OBVIOUS
      <4>2. q = EmitBlock(r, x, pending, renders)
        BY <1>2, <2>1, <3>1, <4>1 DEF EmitStep
      <4>3. LastOf(<<l>> \o TextOf(r.writes)) = "lf"
        <5>1. LastOf((<<l>> \o t) \o TextTo(items, j - 1)) = "lf"
          BY <2>1, <2>2, <3>1 DEF ItemsAligned
        <5>2. <<l>> \in Seq(Byte)
          BY LineByte
        <5>3. s \in Seq(Byte) /\ t \in Seq(Byte)
          BY <2>5
        <5>4. (<<l>> \o t) \o s = <<l>> \o (t \o s)
          BY <5>2, <5>3, Associates
        <5>5. TextTo(items, j - 1) = s
          BY <2>1, <2>2
        <5> QED BY <2>6, <5>1, <5>4, <5>5
      <4>4. x.bytes \in BlockBytes
        BY <2>1, <2>4, <3>1
      <4>5. /\ Goes(r, q, l, was)
            /\ \/ ~q.failed /\ TextOf(q.writes) = TextOf(r.writes) \o x.bytes
               \/ q.failed /\ q.writes = r.writes
        BY <1>2, <2>6, <4>2, <4>3, <4>4, EmitBlockSays
      <4> QED BY <2>1, <2>6, <4>5
    <3>2. CASE x.type # "semantic"
      <4>1. q = Write(r, "verbatim", b)
        BY <1>2, <2>1, <3>2 DEF EmitStep
      <4>2. "verbatim" \in Hows /\ "verbatim" # "rendered" /\ "verbatim" \in {"raw", "verbatim"}
        BY DEF Hows
      <4>3. Written(r, q, l, "verbatim", b)
        BY <1>2, <2>4, <2>6, <4>1, <4>2, WriteSays
      <4>4. Spent(q, was)
        BY <1>2, <2>6, <4>2, <4>3, PlainSpent
      <4> QED BY <2>6, <4>3, <4>4 DEF Goes, Written
    <3> QED BY <3>1, <3>2
  <2>8. Goes(p, q, l, was)
    BY <2>6, <2>7, SamePieces DEF Goes
  <2>9. (t \o s) \o b = t \o TextTo(items, j)
    BY <2>4, <2>5, Associates
  <2>10. StartsWith(t \o TextOf(items), t \o TextTo(items, j))
    <3>1. StartsWith(TextOf(items), TextTo(items, j))
      BY <2>2, ItemsHaveText, TextStarts
    <3>2. TextTo(items, j) \in Seq(Byte) /\ TextOf(items) \in Seq(Byte)
      BY <2>2, ItemsHaveText, TextToIs, TextIsText
    <3>3. TextOf(items) \in Seq(Byte)
      BY <3>2
    <3> QED BY <2>5, <3>1, <3>2, <3>3, StartsShorter
  <2>11. StartsWith(t \o TextOf(items), TextOf(q.writes))
    BY <2>1, <2>7, <2>9, <2>10 DEF EmitTo
  <2> QED BY <2>1, <2>7, <2>8, <2>9, <2>11 DEF EmitTo
<1> QED BY <1>1, <1>2

\* All items shown.
LEMMA EmitSays ==
  ASSUME NEW l \in Byte, NEW was \in BOOLEAN, NEW p, Fields(p), ~p.failed, p.enabled,
         Given(p.writes, l, p.enabled), Spent(p, was), NEW items \in Seq(Items),
         ItemsAligned(<<l>> \o TextOf(p.writes), items), NEW renders
  PROVE  EmitTo(p, items, Len(items), Emit(p, items, renders), l, was)
<1>1. PICK r, n : r = EmitRun(p, items, renders) /\ n = Len(items)
  OBVIOUS
<1>2. n \in Nat /\ Len(items) \in Nat
  BY <1>1, LenProperties
<1>3. /\ Emit(p, items, renders) = r[n] /\ r[0] = p
      /\ \A k \in Nat : k < n => r[k + 1] = EmitStep(items, renders, r[k], k + 1)
  BY <1>1, <1>2, EmitRunIs
<1>4. TextOf(p.writes) \in Seq(Byte) /\ TextOf(items) \in Seq(Byte)
  BY WritesHaveText, ItemsHaveText, TextIsText DEF Given
<1> DEFINE T == {k \in Nat : k <= n => EmitTo(p, items, k, r[k], l, was)}
<1>5. 0 \in T
  <2>1. Goes(p, p, l, was)
    BY DEF Goes, Same
  <2>2. TextTo(items, 0) = <<>>
    BY ItemsHaveText, TextToIs
  <2>3. TextOf(p.writes) \o <<>> = TextOf(p.writes)
    BY <1>4, EmptyJoins
  <2>4. StartsWith(TextOf(p.writes) \o TextOf(items), TextOf(p.writes))
    BY <1>4 DEF StartsWith
  <2>5. EmitTo(p, items, 0, p, l, was)
    BY <2>1, <2>2, <2>3, <2>4 DEF EmitTo
  <2> QED BY <1>3, <2>5
<1>6. \A k \in Nat : k \in T => k + 1 \in T
  <2> TAKE k \in Nat
  <2> SUFFICES ASSUME k + 1 <= n, EmitTo(p, items, k, r[k], l, was)
               PROVE  EmitTo(p, items, k + 1, r[k + 1], l, was)
    BY <1>2
  <2>1. k < Len(items)
    BY <1>1, <1>2
  <2>2. TextOf(p.writes) \in Seq(Byte)
    BY <1>4
  <2>3. EmitTo(p, items, k + 1, EmitStep(items, renders, r[k], k + 1), l, was)
    BY <2>1, <2>2, EmitStepSays
  <2> QED BY <1>1, <1>3, <2>1, <2>3
<1>7. Nat \subseteq T
  <2> HIDE DEF T
  <2> QED BY <1>5, <1>6, SetInduction
<1>8. EmitTo(p, items, n, r[n], l, was)
  BY <1>2, <1>7
<1> QED BY <1>1, <1>3, <1>8

-----------------------------------------------------------------------------
\* The detector flushed.

\* The same writes say the same.
LEMMA SameSays ==
  ASSUME NEW p, NEW q, SameWrites(p, q), NEW was
  PROVE  Spent(p, was) => Spent(q, was)
BY DEF SameWrites, Spent

\* No item or one item of plain text shown.
LEMMA NothingShown ==
  ASSUME NEW p, NEW renders
  PROVE  EmitExactSource(p, <<>>) = p /\ Emit(p, <<>>, renders) = p
<1>1. PICK items : items = <<>>
  OBVIOUS
<1>2. Len(items) = 0 /\ Len(items) \in Nat
  BY <1>1
<1>3. EmitExactSource(p, items) = ExactRun(p, items)[Len(items)] /\ ExactRun(p, items)[0] = p
  BY <1>2, ExactRunIs
<1>4. Emit(p, items, renders) = EmitRun(p, items, renders)[Len(items)]
      /\ EmitRun(p, items, renders)[0] = p
  BY <1>2, EmitRunIs
<1> QED BY <1>1, <1>2, <1>3, <1>4

\* One item of text is one write.
LEMMA TextShown ==
  ASSUME NEW p, ~p.failed, NEW b, NEW renders
  PROVE  /\ EmitExactSource(p, <<Passthrough(b)>>) = Write(p, "verbatim", b)
         /\ Emit(p, <<Passthrough(b)>>, renders) = Write(p, "verbatim", b)
<1>1. PICK y : y = Passthrough(b)
  OBVIOUS
<1>2. PICK items : items = <<y>>
  OBVIOUS
<1>0. Len(items) \in Nat
  BY <1>2
<1>3. PICK n : n = Len(items)
  OBVIOUS
<1>4. n = 1 /\ items[1] = y
  BY <1>2, <1>3
<1>5. y.type = "passthrough" /\ y.bytes = b
  BY <1>1 DEF Passthrough
<1>6. EmitExactSource(p, items) = Write(p, "verbatim", b)
  <2>1. PICK r : r = ExactRun(p, items)
    OBVIOUS
  <2>2. /\ EmitExactSource(p, items) = r[n] /\ r[0] = p
        /\ \A k \in Nat : k < n => r[k + 1] = Write(r[k], "verbatim", items[k + 1].bytes)
    BY <1>0, <1>3, <2>1, ExactRunIs
  <2>3. r[0 + 1] = Write(r[0], "verbatim", items[0 + 1].bytes)
    BY <1>4, <2>2
  <2> QED BY <1>4, <1>5, <2>2, <2>3
<1>7. Emit(p, items, renders) = Write(p, "verbatim", b)
  <2>1. PICK r : r = EmitRun(p, items, renders)
    OBVIOUS
  <2>2. /\ Emit(p, items, renders) = r[n] /\ r[0] = p
        /\ \A k \in Nat : k < n => r[k + 1] = EmitStep(items, renders, r[k], k + 1)
    BY <1>0, <1>3, <2>1, EmitRunIs
  <2>3. r[0 + 1] = EmitStep(items, renders, r[0], 0 + 1)
    BY <1>4, <2>2
  <2>4. Emit(p, items, renders) = EmitStep(items, renders, p, 1)
    BY <1>4, <2>2, <2>3
  <2> QED BY <1>4, <1>5, <2>4 DEF EmitStep
<1> QED BY <1>1, <1>2, <1>6, <1>7

\* The detector flushed: what it held is shown as it came.
Flushed(p, r, l, was) ==
  /\ Fields(r) /\ ~r.failed /\ r.detector = LineStart(<<>>)
  /\ r.gate = p.gate /\ r.enabled = p.enabled
  /\ r.line_start = p.line_start /\ r.passthrough = p.passthrough
  /\ Given(r.writes, l, r.enabled) /\ Spent(r, was)
  /\ TextOf(r.writes) = TextOf(p.writes) \o p.detector.source

\* So it is.
LEMMA FlushSays ==
  ASSUME NEW l \in Byte, NEW was \in BOOLEAN, NEW p, Fields(p), ~p.failed,
         Given(p.writes, l, p.enabled), Spent(p, was), p.detector.source \in Seq(Byte),
         NEW exact \in BOOLEAN, NEW renders
  PROVE  Flushed(p, FlushDetector(p, exact, renders), l, was)
<1>1. PICK d, b, e, q, r : /\ d = p.detector /\ b = d.source /\ e = LineStart(<<>>)
                           /\ q = [p EXCEPT !.detector = e] /\ r = FlushDetector(p, exact, renders)
  OBVIOUS
<1>2. /\ Fields(q) /\ SameWrites(p, q) /\ q.detector = e /\ q.gate = p.gate
      /\ q.enabled = p.enabled /\ q.passthrough = p.passthrough /\ q.line_start = p.line_start
  BY <1>1, DetectorSet
<1>3. q.writes = p.writes /\ ~q.failed
  BY <1>2 DEF SameWrites
<1>4. Given(q.writes, l, q.enabled) /\ Spent(q, was)
  BY <1>2, <1>3, SameSays
<1>5. TextOf(p.writes) \in Seq(Byte)
  BY WritesHaveText, TextIsText DEF Given
<1>6. PICK its : its = DetectorFinish(d).items
  OBVIOUS
<1>7. r = IF exact THEN EmitExactSource(q, its) ELSE Emit(q, its, renders)
  BY <1>1, <1>6 DEF FlushDetector, DetectorFinish, Detected
<1>8. CASE b = <<>>
  <2>1. its = <<>>
    BY <1>1, <1>6, <1>8 DEF DetectorFinish, Detected
  <2>2. r = q
    BY <1>7, <2>1, NothingShown
  <2>3. TextOf(p.writes) \o b = TextOf(p.writes)
    BY <1>5, <1>8, EmptyJoins
  <2> QED BY <1>1, <1>2, <1>3, <1>4, <2>2, <2>3 DEF Flushed
<1>9. CASE b # <<>>
  <2>1. its = <<Passthrough(b)>>
    BY <1>1, <1>6, <1>9 DEF DetectorFinish, Detected
  <2>2. r = Write(q, "verbatim", b)
    BY <1>3, <1>7, <2>1, TextShown
  <2>3. "verbatim" \in Hows /\ "verbatim" # "rendered" /\ "verbatim" \in {"raw", "verbatim"}
    BY DEF Hows
  <2>4. b \in Seq(Byte)
    BY <1>1
  <2>5. Written(q, r, l, "verbatim", b)
    BY <1>2, <1>3, <1>4, <2>2, <2>3, <2>4, WriteSays
  <2>6. Spent(r, was)
    BY <1>3, <1>4, <2>3, <2>5, PlainSpent
  <2>7. /\ Fields(r) /\ ~r.failed /\ r.gate = q.gate /\ r.detector = q.detector /\ r.enabled = q.enabled
        /\ r.line_start = q.line_start /\ r.passthrough = q.passthrough
        /\ Given(r.writes, l, r.enabled) /\ TextOf(r.writes) = TextOf(q.writes) \o b
    BY <2>5 DEF Written, Same
  <2> QED BY <1>1, <1>2, <1>3, <2>6, <2>7 DEF Flushed
<1> QED BY <1>8, <1>9

-----------------------------------------------------------------------------
\* Text shown, held or fed to the detector.

\* A call at work on a text: what it has shown, and the rest in the detector.
Keeps(p, text) ==
  /\ DetShape(p.detector) /\ Clean(p.detector.source)
  /\ TextOf(p.writes) \o p.detector.source = text
  /\ ~p.enabled \/ p.passthrough => p.detector = LineStart(<<>>)

\* What the call was given is what it has shown and what it holds; after an
\* error, what it has shown is the beginning of it.
Works(p, l, was, text) ==
  /\ Fields(p) /\ Given(p.writes, l, p.enabled) /\ Spent(p, was)
  /\ StartsWith(text, TextOf(p.writes))
  /\ ~p.failed => Keeps(p, text)

\* A detector that may open a block is at the start of a line.
Aligned(p, l) ==
  p.enabled /\ ~p.passthrough /\ p.detector.st # "passthrough_line" =>
    LastOf(<<l>> \o TextOf(p.writes)) = "lf"

\* A text that begins with another does so with more after it.
LEMMA StartsMore ==
  ASSUME NEW t \in Seq(Byte), NEW f \in Seq(Byte), NEW more \in Seq(Byte), StartsWith(t, f)
  PROVE  StartsWith(t \o more, f)
<1>1. PICK rest \in Seq(Byte) : t = f \o rest
  BY DEF StartsWith
<1>2. (f \o rest) \o more = f \o (rest \o more) /\ rest \o more \in Seq(Byte)
  BY Associates, ConcatProperties
<1> QED BY <1>1, <1>2 DEF StartsWith

\* What was written is text.
LEMMA WritesText == ASSUME NEW ws, NEW l, NEW e, Given(ws, l, e) PROVE TextOf(ws) \in Seq(Byte)
BY WritesHaveText, TextIsText DEF Given

\* Nothing to hold: a text shown at once.
LEMMA PlainSays ==
  ASSUME NEW l \in Byte, NEW was \in BOOLEAN, NEW text \in Seq(Byte), NEW p,
         Works(p, l, was, text), ~p.failed, p.detector = LineStart(<<>>),
         NEW how \in {"raw", "verbatim"}, NEW bytes \in Seq(Byte)
  PROVE  LET q == Write(p, how, bytes)
         IN /\ Works(q, l, was, text \o bytes) /\ Same(p, q) /\ ~q.failed
            /\ TextOf(q.writes) = text \o bytes
<1>1. PICK q : q = Write(p, how, bytes)
  OBVIOUS
<1>2. how \in Hows /\ how # "rendered"
  BY DEF Hows
<1>3. Fields(p) /\ Given(p.writes, l, p.enabled) /\ Spent(p, was) /\ Keeps(p, text)
  BY DEF Works
<1>4. Written(p, q, l, how, bytes)
  BY <1>1, <1>2, <1>3, WriteSays
<1>5. Spent(q, was)
  BY <1>3, <1>4, PlainSpent
<1>6. TextOf(p.writes) \in Seq(Byte) /\ p.detector.source = <<>>
  BY <1>3, WritesText DEF LineStart
<1>7. TextOf(p.writes) = text
  <2>1. TextOf(p.writes) \o <<>> = TextOf(p.writes)
    BY <1>6, EmptyJoins
  <2> QED BY <1>3, <1>6, <2>1 DEF Keeps
<1>8. TextOf(q.writes) = text \o bytes
  BY <1>4, <1>7 DEF Written
<1>9. text \o bytes \in Seq(Byte)
  BY ConcatProperties
<1>10. (text \o bytes) \o <<>> = text \o bytes /\ <<>> \in Seq(Byte)
  BY <1>9, EmptyJoins
<1>11. StartsWith(text \o bytes, TextOf(q.writes))
  BY <1>8, <1>10 DEF StartsWith
<1>12. Same(p, q) /\ ~q.failed /\ Fields(q) /\ Given(q.writes, l, q.enabled)
  BY <1>4 DEF Written
<1>13. q.detector = p.detector
  BY <1>12 DEF Same
<1>14. Keeps(q, text \o bytes)
  <2>1. DetShape(q.detector) /\ Clean(q.detector.source)
    BY <1>3, <1>13 DEF Keeps
  <2>2. TextOf(q.writes) \o q.detector.source = text \o bytes
    BY <1>6, <1>8, <1>10, <1>13
  <2> QED BY <1>13, <2>1, <2>2 DEF Keeps
<1> QED BY <1>1, <1>5, <1>8, <1>11, <1>12, <1>14 DEF Works

\* Text that went to the detector, and the items it released to the display.
FedTo(p, r, l, was, text) ==
  /\ Works(r, l, was, text)
  /\ r.gate = p.gate /\ r.enabled = p.enabled /\ r.passthrough = p.passthrough
  /\ ~r.failed => Aligned(r, l)

\* The detector fed and its items shown.
FeedAndEmit(p, input, renders) ==
  LET fed == DetectorFeed(p.detector, input)
  IN Emit([p EXCEPT !.detector = fed.detector], fed.items, renders)

\* Clean text fed is at work.
LEMMA RenderedSays ==
  ASSUME NEW l \in Byte, NEW was \in BOOLEAN, NEW text \in Seq(Byte), NEW p,
         Works(p, l, was, text), ~p.failed, p.enabled, ~p.passthrough, Aligned(p, l),
         NEW input \in Seq(Byte), Clean(input), NEW renders
  PROVE  FedTo(p, FeedAndEmit(p, input, renders), l, was, text \o input)
<1>1. PICK fed, d, s, e, its, q, t, c, r :
        /\ fed = DetectorFeed(p.detector, input) /\ d = p.detector /\ s = d.source
        /\ e = fed.detector /\ its = fed.items
        /\ q = [p EXCEPT !.detector = e] /\ t = TextOf(p.writes) /\ c = <<l>> \o t
        /\ r = FeedAndEmit(p, input, renders)
  OBVIOUS
<1>0. r = Emit(q, its, renders)
  BY <1>1 DEF FeedAndEmit
<1>2. Fields(p) /\ Given(p.writes, l, p.enabled) /\ Spent(p, was) /\ Keeps(p, text)
  BY DEF Works
<1>3. DetShape(d) /\ Clean(s) /\ t \o s = text
  BY <1>1, <1>2 DEF Keeps
<1>4. s \in Seq(Byte)
  BY <1>1, <1>3, ShapeHasText
<1>5. t \in Seq(Byte)
  BY <1>1, <1>2, WritesText
<1>6. <<l>> \in Seq(Byte)
  BY LineByte
<1>7. c \in Seq(Byte)
  BY <1>1, <1>5, <1>6, ConcatProperties
<1>8. DetSays(c, s \o input, FALSE, its, e)
  <2>1. d.st # "passthrough_line" => LastOf(c) = "lf"
    BY <1>1 DEF Aligned
  <2>2. Clean(d.source) /\ DetShape(d)
    BY <1>1, <1>3
  <2> QED BY <1>1, <1>7, <2>1, <2>2, DetectorFeedSays
<1>9. /\ Fields(q) /\ SameWrites(p, q) /\ q.detector = e /\ q.gate = p.gate
      /\ q.enabled = p.enabled /\ q.passthrough = p.passthrough /\ q.line_start = p.line_start
  <2>1. Fields(p)
    BY <1>2
  <2>2. q = [p EXCEPT !.detector = e]
    BY <1>1
  <2> QED BY <2>1, <2>2, DetectorSet
<1>10. q.writes = p.writes /\ ~q.failed /\ q.enabled
  BY <1>9 DEF SameWrites
<1>11. Given(q.writes, l, q.enabled) /\ Spent(q, was)
  BY <1>2, <1>9, <1>10, SameSays
<1>12. its \in Seq(Items) /\ ItemsAligned(c, its) /\ DetShape(e) /\ TextOf(its) \o e.source = s \o input
       /\ (e.st # "passthrough_line" => LastOf(c \o TextOf(its)) = "lf") /\ BytesClean(e.source, FALSE)
  BY <1>8 DEF DetSays
<1>13. EmitTo(q, its, Len(its), r, l, was)
  <2>1. its \in Seq(Items)
    BY <1>12
  <2>2. ItemsAligned(<<l>> \o TextOf(q.writes), its)
    BY <1>1, <1>10, <1>12
  <2> QED BY <1>0, <1>9, <1>10, <1>11, <2>1, <2>2, EmitSays
<1>14. Fields(r) /\ Same(q, r) /\ Given(r.writes, l, r.enabled) /\ Spent(r, was)
  BY <1>13 DEF EmitTo, Goes
<1>15. r.gate = p.gate /\ r.enabled = p.enabled /\ r.passthrough = p.passthrough /\ r.detector = e
  BY <1>9, <1>14 DEF Same
<1>16. e.source \in Seq(Byte)
  BY <1>12, ShapeHasText
<1>17. TextOf(its) \in Seq(Byte) /\ TextTo(its, Len(its)) = TextOf(its)
  BY <1>12, ItemsHaveText, TextIsText, TextToIs
<1>18. PICK x, y : x = TextOf(its) /\ y = e.source
  OBVIOUS
<1>19. x \in Seq(Byte) /\ y \in Seq(Byte) /\ x \o y = s \o input
  BY <1>12, <1>16, <1>17, <1>18
<1>20. (t \o x) \o y = text \o input
  <2>1. x \in Seq(Byte)
    BY <1>19
  <2>2. y \in Seq(Byte)
    BY <1>19
  <2>3. (t \o x) \o y = t \o (x \o y)
    BY <1>5, <2>1, <2>2, Associates
  <2>4. (t \o s) \o input = t \o (s \o input)
    BY <1>4, <1>5, Associates
  <2> QED BY <1>3, <1>19, <2>3, <2>4
<1>21. StartsWith(t \o x, TextOf(r.writes)) /\ (~r.failed => TextOf(r.writes) = t \o x)
  BY <1>1, <1>10, <1>13, <1>17, <1>18 DEF EmitTo
<1>22. StartsWith(text \o input, TextOf(r.writes))
  <2>1. t \o x \in Seq(Byte)
    BY <1>5, <1>19, ConcatProperties
  <2>2. y \in Seq(Byte)
    BY <1>19
  <2>3. TextOf(r.writes) \in Seq(Byte)
    BY <1>14, WritesText
  <2>4. StartsWith((t \o x) \o y, TextOf(r.writes))
    BY <1>21, <2>1, <2>2, <2>3, StartsMore
  <2> QED BY <1>20, <2>4
<1>23. ASSUME ~r.failed PROVE Keeps(r, text \o input)
  <2>1. DetShape(r.detector) /\ Clean(r.detector.source)
    BY <1>12, <1>15 DEF Clean
  <2>2. TextOf(r.writes) \o r.detector.source = text \o input
    BY <1>15, <1>18, <1>20, <1>21, <1>23
  <2>3. r.enabled /\ ~r.passthrough
    BY <1>15
  <2> QED BY <2>1, <2>2, <2>3 DEF Keeps
<1>24. ASSUME ~r.failed PROVE Aligned(r, l)
  <2>1. c \o x = <<l>> \o TextOf(r.writes)
    <3>1. x \in Seq(Byte)
      BY <1>19
    <3>2. (<<l>> \o t) \o x = <<l>> \o (t \o x)
      BY <1>5, <1>6, <3>1, Associates
    <3> QED BY <1>1, <1>21, <1>24, <3>2
  <2> QED BY <1>12, <1>15, <1>18, <2>1 DEF Aligned
<1> QED BY <1>1, <1>14, <1>15, <1>22, <1>23, <1>24 DEF Works, FedTo

-----------------------------------------------------------------------------
\* The rest of a line after a resume.

\* A set of naturals has a least.
LEMMA LeastOf ==
  ASSUME NEW T, T \subseteq Nat, T # {}
  PROVE  \E i \in T : \A j \in T : i <= j
<1> DEFINE R == {ss \in Nat \X Nat : ss[1] < ss[2]}
<1>1. IsWellFoundedOn(R, Nat)
  BY NatLessThanWellFounded DEF OpToRel
<1>2. PICK m \in T : \A k \in T : ~ (<<k, m>> \in R)
  <2> HIDE DEF R
  <2> QED BY <1>1, WFMin
<1>3. \A k \in T : ~(k < m)
  BY <1>2
<1>4. \A k \in T : k \in Nat /\ m \in Nat
  OBVIOUS
<1> QED BY <1>3, <1>4

\* Where the passthrough part of a text ends.
LEMMA PrefixIs ==
  ASSUME NEW p, NEW bytes \in Seq(Byte), bytes # <<>>
  PROVE  LET split == PassthroughPrefix(p, bytes)
         IN /\ ~p.passthrough => split = 0
            /\ p.passthrough => /\ split \in 1..Len(bytes)
                                /\ split = Len(bytes) \/ bytes[split] = "lf"
<1> DEFINE lfs == {i \in DOMAIN bytes : bytes[i] = "lf"}
<1>1. PICK n, split : n = Len(bytes) /\ split = PassthroughPrefix(p, bytes)
  OBVIOUS
<1>2. n \in Nat /\ n # 0 /\ DOMAIN bytes = 1..n
  BY <1>1, LenProperties, EmptySeq
<1>3. lfs \subseteq Nat /\ lfs \subseteq 1..n /\ \A i \in lfs : bytes[i] = "lf"
  BY <1>1, <1>2
<1>4. split = IF ~p.passthrough THEN 0 ELSE IF lfs = {} THEN n
              ELSE CHOOSE i \in lfs : \A j \in lfs : i <= j
  BY <1>1 DEF PassthroughPrefix
<1> HIDE DEF lfs
<1>5. CASE p.passthrough /\ lfs # {}
  <2>1. \E i \in lfs : \A j \in lfs : i <= j
    BY <1>3, <1>5, LeastOf
  <2>2. split \in lfs
    BY <1>4, <1>5, <2>1
  <2> QED BY <1>1, <1>3, <1>5, <2>2
<1>6. CASE ~(p.passthrough /\ lfs # {})
  BY <1>1, <1>2, <1>4, <1>6
<1> QED BY <1>5, <1>6

\* A text cut in two.
Cut(t, i, a, b) ==
  /\ a \in Seq(Byte) /\ b \in Seq(Byte) /\ a \o b = t /\ LastOf(a) = t[i] /\ a # <<>>
  /\ Clean(b) /\ (i = Len(t) => a = t /\ b = <<>>)

\* A clean text cut anywhere behind a line feed is clean on both sides.
LEMMA CutIs ==
  ASSUME NEW t \in Seq(Byte), NEW i \in 1..Len(t), Clean(t)
  PROVE  Cut(t, i, SubSeq(t, 1, i), SubSeq(t, i + 1, Len(t)))
<1>1. PICK n, m : n = Len(t) /\ m = 1
  OBVIOUS
<1>2. PICK a, b : a = SubSeq(t, m, i) /\ b = SubSeq(t, i + 1, n)
  OBVIOUS
<1>3. n \in Nat /\ i \in Nat /\ i <= n /\ i # 0
  BY <1>1, LenProperties
<1>4. \A k \in 1..n : t[k] \in Byte
  BY <1>1, ElementOfSeq
<1>5. /\ a \in Seq(Byte) /\ Len(a) = (IF m <= i THEN i - m + 1 ELSE 0)
      /\ \A k \in 1..(i - m + 1) : a[k] = t[m + k - 1]
  <2>1. \A k \in m..i : t[k] \in Byte
    BY <1>1, <1>3, <1>4
  <2>2. m \in Int /\ i \in Int
    BY <1>1, <1>3
  <2> QED BY <1>2, <2>1, <2>2, SubSeqProperties
<1>6. Len(a) = i /\ a[i] = t[i]
  <2>1. i \in 1..(i - m + 1) /\ m + i - 1 = i
    BY <1>1, <1>3
  <2> QED BY <1>1, <1>3, <1>5, <2>1
<1>7. b \in Seq(Byte)
  <2>1. PICK j : j = i + 1
    OBVIOUS
  <2>2. j \in Int /\ n \in Int /\ \A k \in j..n : t[k] \in Byte
    BY <1>3, <1>4, <2>1
  <2>3. SubSeq(t, j, n) \in Seq(Byte)
    BY <2>2, SubSeqProperties
  <2> QED BY <1>2, <2>1, <2>3
<1>8. a \o b = t
  <2>1. m \in 1..(Len(t) + 1) /\ i \in (m - 1)..Len(t) /\ n \in i..Len(t)
    BY <1>1, <1>3
  <2>2. SubSeq(t, m, i) \o SubSeq(t, i + 1, n) = SubSeq(t, m, n)
    BY <2>1, ConcatAdjacentSubSeq
  <2>3. SubSeq(t, 1, Len(t)) = t
    BY SubSeqFull
  <2> QED BY <1>1, <1>2, <2>2, <2>3
<1>9. Clean(b)
  <2>1. a \in Seq(Byte)
    BY <1>5
  <2>2. BytesClean(a \o b, FALSE)
    BY <1>8 DEF Clean
  <2>3. FALSE \in BOOLEAN
    OBVIOUS
  <2> QED BY <1>7, <2>1, <2>2, <2>3, CleanEnds DEF Clean
<1>10. i = n => a = t /\ b = <<>>
  <2> SUFFICES ASSUME i = n PROVE a = t /\ b = <<>>
    OBVIOUS
  <2>1. SubSeq(t, 1, Len(t)) = t
    BY SubSeqFull
  <2>2. PICK j : j = i + 1
    OBVIOUS
  <2>3. j \in Int /\ n \in Int /\ n < j
    BY <1>3, <2>2
  <2>4. SubSeq(t, j, n) = <<>>
    BY <2>3, SubSeqEmpty
  <2> QED BY <1>1, <1>2, <2>1, <2>2, <2>4
<1>11. LastOf(a) = t[i] /\ a # <<>>
  <2>1. Len(a) # 0
    BY <1>3, <1>6
  <2> QED BY <1>6, <2>1 DEF LastOf
<1> QED BY <1>1, <1>2, <1>5, <1>7, <1>8, <1>9, <1>10, <1>11 DEF Cut

\* A call at work stays so if its flags change as they may.
LEMMA ModeSays ==
  ASSUME NEW p, NEW q, NEW l, NEW was, NEW text, Works(p, l, was, text), Fields(q), SameWrites(p, q),
         q.detector = p.detector, q.enabled = p.enabled,
         ~q.failed /\ q.passthrough => q.detector = LineStart(<<>>)
  PROVE  Works(q, l, was, text)
<1>1. q.writes = p.writes /\ q.failed = p.failed
  BY DEF SameWrites
<1>2. Given(q.writes, l, q.enabled) /\ StartsWith(text, TextOf(q.writes))
  BY <1>1 DEF Works
<1>3. Spent(q, was)
  BY SameSays DEF Works
<1>4. ~q.failed => Keeps(q, text)
  BY <1>1 DEF Works, Keeps
<1> QED BY <1>2, <1>3, <1>4 DEF Works

\* A text that went by the passthrough prefix and the detector.
RenderableTo(p, r, bytes, l, was, text) ==
  /\ Works(r, l, was, text) /\ r.gate = p.gate /\ r.enabled = p.enabled
  /\ ~r.failed => Aligned(r, l) /\ (r.passthrough => LastOf(bytes) # "lf")

\* Text in a call that renders.
LEMMA RenderableSays ==
  ASSUME NEW l \in Byte, NEW was \in BOOLEAN, NEW text \in Seq(Byte), NEW p,
         Works(p, l, was, text), ~p.failed, p.enabled, Aligned(p, l),
         NEW bytes \in Seq(Byte), bytes # <<>>, Clean(bytes), NEW renders
  PROVE  RenderableTo(p, EmitRenderableText(p, bytes, renders), bytes, l, was, text \o bytes)
<1>1. PICK n, i, a, b, r : /\ n = Len(bytes) /\ i = PassthroughPrefix(p, bytes)
                           /\ a = SubSeq(bytes, 1, i) /\ b = SubSeq(bytes, i + 1, n)
                           /\ r = EmitRenderableText(p, bytes, renders)
  OBVIOUS
<1>2. /\ ~p.passthrough => i = 0
      /\ p.passthrough => i \in 1..n /\ (i = n \/ bytes[i] = "lf")
  BY <1>1, PrefixIs
<1>3. PICK o : o = IF i = 0 THEN p ELSE [Write(p, "verbatim", a) EXCEPT !.passthrough = (bytes[i] # "lf")]
  OBVIOUS
<1>4. r = LET fed == DetectorFeed(p.detector, b)
          IN Emit([o EXCEPT !.detector = fed.detector], fed.items, renders)
  BY <1>1, <1>3 DEF EmitRenderableText
<1>5. CASE ~p.passthrough
  <2>1. i = 0 /\ o = p
    BY <1>2, <1>3, <1>5
  <2>2. b = bytes
    <3>1. SubSeq(bytes, 1, Len(bytes)) = bytes
      BY SubSeqFull
    <3> QED BY <1>1, <2>1, <3>1
  <2>3. r = FeedAndEmit(p, bytes, renders)
    BY <1>4, <2>1, <2>2 DEF FeedAndEmit
  <2>4. FedTo(p, r, l, was, text \o bytes)
    BY <1>5, <2>3, RenderedSays
  <2> QED BY <1>1, <1>5, <2>4 DEF FedTo, RenderableTo
<1>6. CASE p.passthrough
  <2>1. i \in 1..n /\ (i = n \/ bytes[i] = "lf")
    BY <1>2, <1>6
  <2>2. /\ a \in Seq(Byte) /\ b \in Seq(Byte) /\ a \o b = bytes /\ LastOf(a) = bytes[i] /\ a # <<>>
        /\ Clean(b) /\ (i = n => a = bytes /\ b = <<>>)
    <3>1. i \in 1..Len(bytes)
      BY <1>1, <2>1
    <3>2. Cut(bytes, i, SubSeq(bytes, 1, i), SubSeq(bytes, i + 1, Len(bytes)))
      BY <3>1, CutIs
    <3> QED BY <1>1, <3>2 DEF Cut
  <2>3. a \in Seq(Byte)
    BY <2>2
  <2>4. b \in Seq(Byte)
    BY <2>2
  <2>5. PICK w, z : w = Write(p, "verbatim", a) /\ z = (bytes[i] # "lf")
    OBVIOUS
  <2>6. p.detector = LineStart(<<>>)
    BY <1>6 DEF Works, Keeps
  <2>7. Works(w, l, was, text \o a) /\ Same(p, w) /\ ~w.failed /\ TextOf(w.writes) = text \o a
    BY <2>3, <2>5, <2>6, PlainSays
  <2>8. o = [w EXCEPT !.passthrough = z]
    <3>1. i # 0
      BY <2>1
    <3> QED BY <1>3, <2>5, <3>1
  <2>9. z \in BOOLEAN /\ Fields(w)
    BY <2>5, <2>7 DEF Works
  <2>10. /\ Fields(o) /\ SameWrites(w, o) /\ o.detector = w.detector /\ o.gate = w.gate
         /\ o.enabled = w.enabled /\ o.passthrough = z /\ o.line_start = w.line_start
    BY <2>8, <2>9, PassthroughSet
  <2>11. /\ o.detector = LineStart(<<>>) /\ o.gate = p.gate /\ o.enabled = p.enabled
         /\ o.writes = w.writes /\ ~o.failed
    BY <2>6, <2>7, <2>10 DEF Same, SameWrites
  <2>12. Works(o, l, was, text \o a)
    BY <2>7, <2>10, <2>11, ModeSays
  <2>13. text \o a \in Seq(Byte)
    BY <2>3, ConcatProperties
  <2>14. (text \o a) \o b = text \o bytes
    <3>1. (text \o a) \o b = text \o (a \o b)
      BY <2>3, <2>4, Associates
    <3> QED BY <2>2, <3>1
  <2>15. r = FeedAndEmit(o, b, renders)
    BY <1>4, <2>6, <2>11 DEF FeedAndEmit
  <2>16. CASE bytes[i] = "lf"
    <3>1. ~o.passthrough /\ o.enabled
      BY <2>5, <2>10, <2>11, <2>16
    <3>2. LastOf(<<l>> \o TextOf(o.writes)) = "lf"
      <4>1. <<l>> \in Seq(Byte)
        BY LineByte
      <4>2. LastOf(text \o a) = "lf" /\ text \o a # <<>>
        BY <2>2, <2>3, <2>16, LastOfJoin
      <4>3. LastOf(<<l>> \o (text \o a)) = "lf"
        BY <2>13, <4>1, <4>2, LastOfJoin
      <4> QED BY <2>7, <2>11, <4>3
    <3>3. Aligned(o, l)
      BY <3>2 DEF Aligned
    <3>4. Clean(b)
      BY <2>2
    <3>5. ~o.failed
      BY <2>11
    <3>6. FedTo(o, r, l, was, (text \o a) \o b)
      BY <2>4, <2>12, <2>13, <2>15, <3>1, <3>3, <3>4, <3>5, RenderedSays
    <3> QED BY <1>1, <2>11, <2>14, <3>1, <3>6 DEF FedTo, RenderableTo
  <2>17. CASE bytes[i] # "lf"
    <3>1. i = n /\ b = <<>> /\ a = bytes /\ LastOf(bytes) # "lf"
      BY <2>1, <2>2, <2>17
    <3>2. PICK d : d = o.detector
      OBVIOUS
    <3>3. PICK fed : fed = DetectorFeed(d, <<>>)
      OBVIOUS
    <3>4. fed.detector = d /\ fed.items = <<>>
      <4>1. fed = Detected(d, <<>>)
        BY <3>3, NothingFed
      <4> QED BY <4>1 DEF Detected
    <3>5. PICK q : q = [o EXCEPT !.detector = d]
      OBVIOUS
    <3>6. r = q
      <4>1. r = Emit(q, <<>>, renders)
        BY <2>15, <3>1, <3>2, <3>3, <3>4, <3>5 DEF FeedAndEmit
      <4> QED BY <4>1, NothingShown
    <3>7. /\ Fields(q) /\ SameWrites(o, q) /\ q.detector = d /\ q.gate = o.gate
          /\ q.enabled = o.enabled /\ q.passthrough = o.passthrough /\ q.line_start = o.line_start
      BY <2>10, <3>5, DetectorSet
    <3>8. Works(q, l, was, text \o a)
      BY <2>11, <2>12, <3>2, <3>7, ModeSays
    <3>9. Aligned(q, l)
      BY <2>5, <2>10, <2>17, <3>7 DEF Aligned
    <3> QED BY <1>1, <2>11, <3>1, <3>6, <3>7, <3>8, <3>9 DEF RenderableTo
  <2> QED BY <2>16, <2>17
<1>7. p.passthrough \in BOOLEAN
  BY FieldsAre DEF Works
<1> QED BY <1>5, <1>6, <1>7

-----------------------------------------------------------------------------
\* A segment, and all segments of a read.

\* At the start of a line, when the call says so.
OnLine(p, l, text) == p.line_start => LastOf(<<l>> \o text) = "lf"

\* What the end of a text says of the line.
LEMMA UpdateIs ==
  ASSUME NEW p, Fields(p), NEW bytes
  PROVE  LET u == UpdateSafeLineStart(p, bytes)
         IN /\ Fields(u) /\ SameWrites(p, u) /\ u.detector = p.detector /\ u.gate = p.gate
            /\ u.enabled = p.enabled
            /\ u.line_start <=> LastOf(bytes) = "lf"
            /\ u.passthrough <=> p.passthrough /\ LastOf(bytes) # "lf"
<1>1. PICK newline \in BOOLEAN : newline = (bytes[Len(bytes)] = "lf")
  OBVIOUS
<1>2. PICK t \in BOOLEAN : t = (p.passthrough /\ ~newline)
  OBVIOUS
<1>3. PICK u : u = UpdateSafeLineStart(p, bytes)
  OBVIOUS
<1>4. u = [p EXCEPT !.line_start = newline, !.passthrough = t]
  BY <1>1, <1>2, <1>3 DEF UpdateSafeLineStart
<1>5. PICK g, d, w, n : \E e, s, z, c, f \in BOOLEAN :
        p = [gate |-> g, detector |-> d, enabled |-> e, line_start |-> s, passthrough |-> z,
             cancelled |-> c, writes |-> w, resolved |-> n, failed |-> f]
  BY DEF Fields
<1>6. PICK e, s, z, c, f \in BOOLEAN :
        p = [gate |-> g, detector |-> d, enabled |-> e, line_start |-> s, passthrough |-> z,
             cancelled |-> c, writes |-> w, resolved |-> n, failed |-> f]
  BY <1>5
<1>7. u = [gate |-> g, detector |-> d, enabled |-> e, line_start |-> newline, passthrough |-> t,
           cancelled |-> c, writes |-> w, resolved |-> n, failed |-> f]
  BY <1>4, <1>6
<1>8. Fields(u)
  BY <1>7, FieldsMade
<1>9. SameWrites(p, u) /\ u.detector = p.detector /\ u.gate = p.gate
      /\ u.enabled = p.enabled /\ u.passthrough = t /\ u.line_start = newline
  BY <1>6, <1>7 DEF SameWrites
<1> QED BY <1>1, <1>2, <1>3, <1>8, <1>9 DEF LastOf

\* A detector that holds nothing.
LEMMA NothingHeld == DetShape(LineStart(<<>>)) /\ Clean(LineStart(<<>>).source)
<1>1. PICK d : d = LineStart(<<>>)
  OBVIOUS
<1>2. <<>> \in Seq(Byte) /\ Len(<<>>) = 0
  OBVIOUS
<1>3. d.source = <<>>
  BY <1>1 DEF LineStart
<1>4. DetShape(d)
  BY <1>1, <1>2, <1>3 DEF DetShape
<1>5. Clean(d.source)
  BY <1>2, <1>3 DEF Clean, BytesClean
<1> QED BY <1>1, <1>4, <1>5

\* A run that went through the call.
SegmentTo(p, r, run, l, was, text) ==
  /\ Works(r, l, was, text) /\ r.gate = p.gate /\ r.enabled = p.enabled
  /\ ~r.failed => /\ OnLine(r, l, text)
                  /\ Aligned(r, l) \/ (run.raw /\ LastOf(run.bytes) # "lf")

\* A text shown as it came, and where it leaves the line.
LEMMA PlainSegmentSays ==
  ASSUME NEW l \in Byte, NEW was \in BOOLEAN, NEW text \in Seq(Byte), NEW p,
         Works(p, l, was, text), ~p.failed, p.detector = LineStart(<<>>),
         NEW how \in {"raw", "verbatim"}, NEW bytes \in Seq(Byte), bytes # <<>>
  PROVE  LET w == Write(p, how, bytes)
             u == UpdateSafeLineStart(w, bytes)
         IN /\ ~w.failed /\ Works(u, l, was, text \o bytes) /\ u.gate = p.gate /\ u.enabled = p.enabled
            /\ ~u.failed /\ OnLine(u, l, text \o bytes)
            /\ LastOf(bytes) = "lf" => Aligned(u, l)
<1>1. PICK w, u : w = Write(p, how, bytes) /\ u = UpdateSafeLineStart(w, bytes)
  OBVIOUS
<1>2. Works(w, l, was, text \o bytes) /\ Same(p, w) /\ ~w.failed /\ TextOf(w.writes) = text \o bytes
  BY <1>1, PlainSays
<1>3. Fields(w)
  BY <1>2 DEF Works
<1>4. /\ Fields(u) /\ SameWrites(w, u) /\ u.detector = w.detector /\ u.gate = w.gate
      /\ u.enabled = w.enabled /\ (u.line_start <=> LastOf(bytes) = "lf")
  BY <1>1, <1>3, UpdateIs
<1>5. /\ u.gate = p.gate /\ u.enabled = p.enabled /\ u.detector = LineStart(<<>>)
      /\ ~u.failed /\ TextOf(u.writes) = text \o bytes
  BY <1>2, <1>4 DEF Same, SameWrites
<1>6. Works(u, l, was, text \o bytes)
  BY <1>2, <1>4, <1>5, ModeSays
<1>7. LastOf(bytes) = "lf" => LastOf(<<l>> \o (text \o bytes)) = "lf"
  <2>1. <<l>> \in Seq(Byte)
    BY LineByte
  <2>2. text \o bytes \in Seq(Byte) /\ text \o bytes # <<>> /\ LastOf(text \o bytes) = LastOf(bytes)
    BY LastOfJoin
  <2>3. text \o bytes \in Seq(Byte)
    BY <2>2
  <2>4. LastOf(<<l>> \o (text \o bytes)) = LastOf(text \o bytes)
    BY <2>1, <2>2, <2>3, LastOfJoin
  <2> QED BY <2>2, <2>4
<1> QED BY <1>1, <1>2, <1>4, <1>5, <1>6, <1>7 DEF OnLine, Aligned

\* A run gone through.
LEMMA SegmentSays ==
  ASSUME NEW l \in Byte, NEW was \in BOOLEAN, NEW text \in Seq(Byte), NEW p,
         Works(p, l, was, text), ~p.failed, NEW run \in RunPieces,
         ~run.raw => Clean(run.bytes) /\ Aligned(p, l), NEW renders
  PROVE  SegmentTo(p, EmitSegment(p, run, renders), run, l, was, text \o run.bytes)
<1>1. PICK b, r : b = run.bytes /\ r = EmitSegment(p, run, renders)
  OBVIOUS
<1>2. b \in Seq(Byte) /\ b # <<>> /\ run.raw \in BOOLEAN
  BY <1>1 DEF RunPieces
<1>3. Fields(p) /\ Given(p.writes, l, p.enabled) /\ Spent(p, was) /\ Keeps(p, text)
  BY DEF Works
<1>4. p.enabled \in BOOLEAN
  BY <1>3, FieldsAre
<1>5. b \in Seq(Byte)
  BY <1>2
<1>6. CASE run.raw
  <2>1. PICK f, w, e : e = ~p.enabled /\ f = FlushDetector(p, e, renders) /\ w = Write(f, "raw", b)
    OBVIOUS
  <2>2. e \in BOOLEAN /\ p.detector.source \in Seq(Byte)
    BY <1>3, <2>1, ShapeHasText DEF Keeps
  <2>3. Flushed(p, f, l, was)
    <3>1. p.detector.source \in Seq(Byte)
      BY <2>2
    <3>2. Fields(p)
      BY <1>3
    <3>3. Given(p.writes, l, p.enabled)
      BY <1>3
    <3> QED BY <1>3, <2>1, <2>2, <3>1, <3>2, <3>3, FlushSays
  <2>4. TextOf(f.writes) = text /\ f.detector = LineStart(<<>>) /\ ~f.failed
    BY <1>3, <2>3 DEF Flushed, Keeps
  <2>5. Works(f, l, was, text)
    <3>1. <<>> \in Seq(Byte) /\ text \o <<>> = text /\ Len(<<>>) = 0
      BY EmptyJoins
    <3>2. f.detector.source = <<>>
      BY <2>4 DEF LineStart
    <3>3. StartsWith(text, TextOf(f.writes))
      BY <2>4, <3>1 DEF StartsWith
    <3>4. DetShape(f.detector) /\ Clean(f.detector.source)
      BY <2>4, NothingHeld
    <3> QED BY <2>3, <2>4, <3>1, <3>2, <3>3, <3>4 DEF Works, Keeps, Flushed
  <2>6. PICK u : u = UpdateSafeLineStart(w, b)
    OBVIOUS
  <2>7. "raw" \in {"raw", "verbatim"}
    OBVIOUS
  <2>8. /\ ~w.failed /\ Works(u, l, was, text \o b) /\ u.gate = f.gate /\ u.enabled = f.enabled
        /\ ~u.failed /\ OnLine(u, l, text \o b)
        /\ LastOf(b) = "lf" => Aligned(u, l)
    BY <1>2, <1>5, <2>1, <2>4, <2>5, <2>6, <2>7, PlainSegmentSays
  <2>9. r = u
    BY <1>1, <1>6, <2>1, <2>6, <2>8 DEF EmitSegment
  <2>10. f.gate = p.gate /\ f.enabled = p.enabled
    BY <2>3 DEF Flushed
  <2> QED BY <1>1, <1>6, <2>8, <2>9, <2>10 DEF SegmentTo
<1>7. CASE ~run.raw /\ ~p.enabled
  <2>1. PICK w : w = Write(p, "verbatim", b)
    OBVIOUS
  <2>2. PICK u : u = UpdateSafeLineStart(w, b)
    OBVIOUS
  <2>3. "verbatim" \in {"raw", "verbatim"} /\ p.detector = LineStart(<<>>)
    BY <1>3, <1>7 DEF Keeps
  <2>4. /\ ~w.failed /\ Works(u, l, was, text \o b) /\ u.gate = p.gate /\ u.enabled = p.enabled
        /\ ~u.failed /\ OnLine(u, l, text \o b)
    BY <1>2, <1>5, <2>1, <2>2, <2>3, PlainSegmentSays
  <2>5. r = u
    BY <1>1, <1>7, <2>1, <2>2, <2>4 DEF EmitSegment
  <2>6. Aligned(u, l)
    BY <1>7, <2>4 DEF Aligned
  <2> QED BY <1>1, <2>4, <2>5, <2>6 DEF SegmentTo
<1>8. CASE ~run.raw /\ p.enabled
  <2>1. PICK q : q = EmitRenderableText(p, b, renders)
    OBVIOUS
  <2>2. /\ Works(q, l, was, text \o b) /\ q.gate = p.gate /\ q.enabled = p.enabled
        /\ ~q.failed => Aligned(q, l) /\ (q.passthrough => LastOf(b) # "lf")
    <3>1. Clean(b) /\ Aligned(p, l) /\ b # <<>>
      BY <1>1, <1>2, <1>8
    <3>2. RenderableTo(p, q, b, l, was, text \o b)
      BY <1>5, <1>8, <2>1, <3>1, RenderableSays
    <3> QED BY <3>2 DEF RenderableTo
  <2>3. CASE q.failed
    <3>1. r = q
      BY <1>1, <1>8, <2>1, <2>3 DEF EmitSegment
    <3> QED BY <1>1, <2>2, <2>3, <3>1 DEF SegmentTo
  <2>4. CASE ~q.failed
    <3>1. PICK u : u = UpdateSafeLineStart(q, b)
      OBVIOUS
    <3>2. r = u
      BY <1>1, <1>8, <2>1, <2>4, <3>1 DEF EmitSegment
    <3>3. Fields(q)
      BY <2>2 DEF Works
    <3>4. /\ Fields(u) /\ SameWrites(q, u) /\ u.detector = q.detector /\ u.gate = q.gate
          /\ u.enabled = q.enabled
          /\ u.line_start <=> LastOf(b) = "lf"
          /\ u.passthrough <=> q.passthrough /\ LastOf(b) # "lf"
      BY <3>1, <3>3, UpdateIs
    <3>5. ~u.failed /\ u.passthrough => u.detector = LineStart(<<>>)
      BY <2>2, <2>4, <3>4 DEF Works, Keeps
    <3>6. Works(u, l, was, text \o b)
      BY <2>2, <3>4, <3>5, ModeSays
    <3>7. Aligned(u, l)
      BY <2>2, <2>4, <3>4 DEF Aligned, SameWrites
    <3>8. LastOf(<<l>> \o (text \o b)) = LastOf(b)
      <4>1. <<l>> \in Seq(Byte)
        BY LineByte
      <4>2. text \o b \in Seq(Byte) /\ text \o b # <<>> /\ LastOf(text \o b) = LastOf(b)
        BY <1>2, <1>5, LastOfJoin
      <4>3. text \o b \in Seq(Byte)
        BY <4>2
      <4> QED BY <4>1, <4>2, <4>3, LastOfJoin
    <3>9. OnLine(u, l, text \o b)
      BY <3>4, <3>8 DEF OnLine
    <3> QED BY <1>1, <2>2, <3>2, <3>4, <3>6, <3>7, <3>9 DEF SegmentTo
  <2> QED BY <2>3, <2>4
<1> QED BY <1>2, <1>4, <1>6, <1>7, <1>8

\* The first k runs gone through the call that p began.
Ran(p, r, rs, k, l, was, text) ==
  /\ Works(r, l, was, text \o TextTo(rs, k)) /\ r.gate = p.gate /\ r.enabled = p.enabled
  /\ ~r.failed => /\ OnLine(r, l, text \o TextTo(rs, k))
                  /\ IF k = 0 THEN r = p
                     ELSE Aligned(r, l) \/ (rs[k].raw /\ LastOf(rs[k].bytes) # "lf")

\* Runs that a call can go on with: clean text, after raw bytes only on a new line.
Runnable(p, rs, l) ==
  /\ rs \in Seq(RunPieces)
  /\ \A i \in 1..Len(rs) : ~rs[i].raw => Clean(rs[i].bytes)
  /\ RunsLine(rs)
  /\ Len(rs) > 0 /\ ~rs[1].raw => Aligned(p, l)

\* More text changes nothing for a call that has failed.
LEMMA WorksOn ==
  ASSUME NEW l, NEW was, NEW text \in Seq(Byte), NEW p, Works(p, l, was, text), p.failed,
         NEW more \in Seq(Byte)
  PROVE  Works(p, l, was, text \o more)
<1>1. TextOf(p.writes) \in Seq(Byte)
  BY WritesText DEF Works
<1>2. StartsWith(text, TextOf(p.writes))
  BY DEF Works
<1>3. StartsWith(text \o more, TextOf(p.writes))
  BY <1>1, <1>2, StartsMore
<1> QED BY <1>3 DEF Works

\* One run more.
LEMMA RunStepSays ==
  ASSUME NEW l \in Byte, NEW was \in BOOLEAN, NEW text \in Seq(Byte), NEW p, NEW rs,
         Runnable(p, rs, l), NEW k \in Nat, k < Len(rs), NEW r,
         Ran(p, r, rs, k, l, was, text), NEW renders
  PROVE  Ran(p, SegmentStep(rs, renders, r, k + 1), rs, k + 1, l, was, text)
<1>1. PICK j, run, b, s, t, q : /\ j = k + 1 /\ run = rs[j] /\ b = run.bytes /\ s = TextTo(rs, k)
                                /\ t = text \o s /\ q = SegmentStep(rs, renders, r, j)
  OBVIOUS
<1>2. rs \in Seq(RunPieces) /\ HasText(RunPieces)
  BY PiecesHaveText DEF Runnable
<1>3. j \in 1..Len(rs) /\ k = j - 1 /\ k \in 0..Len(rs) /\ j # 0
  BY <1>1, <1>2, LenProperties
<1>4. run \in RunPieces
  BY <1>1, <1>2, <1>3, ElementOfSeq
<1>5. b \in Seq(Byte)
  BY <1>1, <1>4 DEF RunPieces
<1>6. s \in Seq(Byte)
  BY <1>1, <1>2, <1>3, TextToIs
<1>7. TextTo(rs, j) = s \o b
  <2>1. TextTo(rs, k + 1) = TextTo(rs, k) \o rs[k + 1].bytes
    BY <1>2, TextNext
  <2> QED BY <1>1, <2>1
<1>8. t \in Seq(Byte)
  BY <1>1, <1>6, ConcatProperties
<1>9. t \o b = text \o TextTo(rs, j)
  <2>1. (text \o s) \o b = text \o (s \o b)
    BY <1>5, <1>6, Associates
  <2> QED BY <1>1, <1>7, <2>1
<1>10. Works(r, l, was, t) /\ r.gate = p.gate /\ r.enabled = p.enabled
  BY <1>1 DEF Ran
<1>11. CASE r.failed
  <2>1. q = r
    BY <1>1, <1>11 DEF SegmentStep
  <2>2. Works(r, l, was, t \o b)
    BY <1>5, <1>8, <1>10, <1>11, WorksOn
  <2> QED BY <1>1, <1>9, <1>10, <1>11, <2>1, <2>2 DEF Ran
<1>12. CASE ~r.failed
  <2>1. q = EmitSegment(r, run, renders)
    BY <1>1, <1>12 DEF SegmentStep
  <2>2. ~run.raw => Clean(run.bytes) /\ Aligned(r, l)
    <3> SUFFICES ASSUME ~run.raw PROVE Clean(run.bytes) /\ Aligned(r, l)
      OBVIOUS
    <3>1. Clean(run.bytes)
      BY <1>1, <1>3 DEF Runnable
    <3>2. CASE k = 0
      <4>1. r = p
        BY <1>12, <3>2 DEF Ran
      <4>2. j = 1 /\ Len(rs) > 0
        BY <1>1, <1>3, <3>2
      <4> QED BY <1>1, <3>1, <4>1, <4>2 DEF Runnable
    <3>3. CASE k # 0
      <4>1. k \in 1..Len(rs)
        BY <1>3, <3>3
      <4>2. rs[k].raw => LastOf(rs[k].bytes) = "lf"
        BY <1>1, <4>1 DEF Runnable, RunsLine
      <4> QED BY <1>12, <3>1, <3>3, <4>2 DEF Ran
    <3> QED BY <3>2, <3>3
  <2>3. SegmentTo(r, q, run, l, was, t \o run.bytes)
    <3>1. Works(r, l, was, t)
      BY <1>10
    <3> QED BY <1>4, <1>8, <1>12, <2>1, <2>2, <3>1, SegmentSays
  <2> QED BY <1>1, <1>3, <1>9, <1>10, <2>3 DEF SegmentTo, Ran
<1> QED BY <1>11, <1>12

\* All runs.
LEMMA EmitRunsSays ==
  ASSUME NEW l \in Byte, NEW was \in BOOLEAN, NEW text \in Seq(Byte), NEW p,
         Works(p, l, was, text), ~p.failed, OnLine(p, l, text), NEW rs, Runnable(p, rs, l),
         NEW renders
  PROVE  Ran(p, EmitRuns(p, rs, renders), rs, Len(rs), l, was, text)
<1>1. PICK r, n : r = SegmentRun(p, rs, renders) /\ n = Len(rs)
  OBVIOUS
<1>2. rs \in Seq(RunPieces)
  BY DEF Runnable
<1>3. n \in Nat /\ Len(rs) \in Nat
  BY <1>1, <1>2, LenProperties
<1>4. /\ EmitRuns(p, rs, renders) = r[n] /\ r[0] = p
      /\ \A k \in Nat : k < n => r[k + 1] = SegmentStep(rs, renders, r[k], k + 1)
  BY <1>1, <1>3, SegmentRunIs
<1> DEFINE T == {k \in Nat : k <= n => Ran(p, r[k], rs, k, l, was, text)}
<1>5. 0 \in T
  <2>1. TextTo(rs, 0) = <<>>
    BY <1>2, PiecesHaveText, TextToIs
  <2>2. text \o <<>> = text
    BY EmptyJoins
  <2>3. Ran(p, p, rs, 0, l, was, text)
    BY <2>1, <2>2 DEF Ran
  <2> QED BY <1>4, <2>3
<1>6. \A k \in Nat : k \in T => k + 1 \in T
  <2> TAKE k \in Nat
  <2> SUFFICES ASSUME k + 1 <= n, Ran(p, r[k], rs, k, l, was, text)
               PROVE  Ran(p, r[k + 1], rs, k + 1, l, was, text)
    BY <1>3
  <2>1. k < Len(rs) /\ k < n
    BY <1>1, <1>3
  <2>2. Ran(p, SegmentStep(rs, renders, r[k], k + 1), rs, k + 1, l, was, text)
    BY <2>1, RunStepSays
  <2> QED BY <1>4, <2>1, <2>2
<1>7. Nat \subseteq T
  <2> HIDE DEF T
  <2> QED BY <1>5, <1>6, SetInduction
<1>8. Ran(p, r[n], rs, n, l, was, text)
  BY <1>3, <1>7
<1> QED BY <1>1, <1>4, <1>8

\* The segments of a gate gone through a call.
Segmented(p, r, h, l, was, text) ==
  /\ Works(r, l, was, text) /\ r.gate = h /\ r.enabled = p.enabled
  /\ ~r.failed => OnLine(r, l, text) /\ (OnPlainLine(h) => Aligned(r, l))

\* All segments that a gate made of its input.
LEMMA SegmentsSay ==
  ASSUME NEW l \in Byte, NEW was \in BOOLEAN, NEW text \in Seq(Byte), NEW p,
         Works(p, l, was, text), ~p.failed, OnLine(p, l, text),
         NEW g, OnPlainLine(g) => Aligned(p, l),
         NEW gated, NEW input, Gating(g, input, gated.segments, gated.gate), NEW renders
  PROVE  Segmented(p, EmitSegments(p, gated, renders), gated.gate, l, was, text \o BytesOf(gated.segments))
<1>1. PICK segs, h, rs, q, r : /\ segs = gated.segments /\ h = gated.gate /\ rs = Runs(segs)
                               /\ q = [p EXCEPT !.gate = h] /\ r = EmitRuns(q, rs, renders)
  OBVIOUS
<1>2. EmitSegments(p, gated, renders) = r
  BY <1>1, EmitSegmentsIs
<1>3. /\ segs \in Seq(Segs) /\ CleanSegs(segs) /\ LineSegs(segs) /\ FirstSeg(g, segs) /\ LastSeg(segs, h)
      /\ NoSeg(g, segs, h)
  BY <1>1 DEF Gating
<1>4. RunsOf(segs, rs)
  BY <1>1, <1>3, RunsAre
<1>5. Fields(p)
  BY DEF Works
<1>6. /\ Fields(q) /\ SameWrites(p, q) /\ q.detector = p.detector /\ q.gate = h
      /\ q.enabled = p.enabled /\ q.passthrough = p.passthrough /\ q.line_start = p.line_start
  <2>1. q = [p EXCEPT !.gate = h]
    BY <1>1
  <2> QED BY <1>5, <2>1, GateSet
<1>7. q.writes = p.writes /\ ~q.failed
  BY <1>6 DEF SameWrites
<1>8. q.passthrough => q.detector = LineStart(<<>>)
  BY <1>6 DEF Works, Keeps
<1>9. Works(q, l, was, text)
  BY <1>6, <1>8, ModeSays
<1>10. OnLine(q, l, text) /\ (Aligned(p, l) <=> Aligned(q, l))
  BY <1>6, <1>7 DEF OnLine, Aligned
<1>11. Len(segs) \in Nat /\ Len(rs) \in Nat
  BY <1>3, <1>4, LenProperties DEF RunsOf
<1>12. Runnable(q, rs, l)
  <2>1. Len(rs) > 0 /\ ~rs[1].raw => Aligned(q, l)
    <3> SUFFICES ASSUME Len(rs) > 0, ~rs[1].raw PROVE Aligned(q, l)
      OBVIOUS
    <3>1. Len(segs) > 0
      BY <1>4, <1>11 DEF RunsOf
    <3>2. ~segs[1].raw
      BY <1>4, <3>1 DEF RunsOf
    <3> QED BY <1>3, <1>10, <3>1, <3>2 DEF FirstSeg
  <2> QED BY <1>4, <2>1 DEF Runnable, RunsOf
<1>13. Ran(q, r, rs, Len(rs), l, was, text)
  BY <1>1, <1>7, <1>9, <1>10, <1>12, EmitRunsSays
<1>14. TextTo(rs, Len(rs)) = BytesOf(segs)
  <2>1. rs \in Seq(RunPieces) /\ TextOf(rs) = BytesOf(segs)
    BY <1>4 DEF RunsOf
  <2> QED BY <2>1, PiecesHaveText, TextToIs
<1>15. ~r.failed /\ OnPlainLine(h) => Aligned(r, l)
  <2> SUFFICES ASSUME ~r.failed, OnPlainLine(h) PROVE Aligned(r, l)
    OBVIOUS
  <2>1. CASE Len(rs) = 0
    <3>1. r = q
      BY <1>13, <2>1 DEF Ran
    <3>2. Len(segs) = 0
      BY <1>4, <2>1 DEF RunsOf
    <3> QED BY <1>3, <1>10, <3>1, <3>2 DEF NoSeg
  <2>2. CASE Len(rs) # 0
    <3>1. Len(segs) > 0
      BY <1>4, <1>11, <2>2 DEF RunsOf
    <3>2. ~(rs[Len(rs)].raw /\ LastOf(rs[Len(rs)].bytes) # "lf")
      BY <1>3, <1>4, <3>1 DEF RunsOf, LastSeg
    <3> QED BY <1>13, <2>2, <3>2 DEF Ran
  <2> QED BY <2>1, <2>2
<1> QED BY <1>1, <1>2, <1>6, <1>13, <1>14, <1>15 DEF Ran, Segmented

-----------------------------------------------------------------------------
\* The toggle applied.

\* A call between two reads: where it is on the line, and whether its
\* detector is aligned when the gate g would let text through.
Ready(p, g, l, was, text) ==
  /\ Works(p, l, was, text) /\ ~p.failed /\ OnLine(p, l, text)
  /\ OnPlainLine(g) => Aligned(p, l)

\* The flush of a pause renders nothing.
RendersNothing(p) == \A i \in 1..Len(p.writes) : p.writes[i].how # "rendered"

\* So it is: the text is shown as it came.
LEMMA PauseRendersNothing ==
  ASSUME NEW p, Fields(p), ~p.failed, p.writes = <<>>,
         NEW renders
  PROVE  RendersNothing(FlushDetector(p, TRUE, renders))
<1>1. PICK b, e, q, its : /\ b = p.detector.source /\ e = LineStart(<<>>)
                          /\ q = [p EXCEPT !.detector = e] /\ its = DetectorFinish(p.detector).items
  OBVIOUS
<1>0. PICK f : f = FlushDetector(p, TRUE, renders)
  OBVIOUS
<1>2. Fields(q) /\ SameWrites(p, q)
  BY <1>1, DetectorSet
<1>3. q.writes = <<>> /\ ~q.failed
  BY <1>2 DEF SameWrites
<1>4. f = EmitExactSource(q, its)
  BY <1>0, <1>1 DEF FlushDetector, DetectorFinish, Detected
<1>5. CASE b = <<>>
  <2>1. its = <<>>
    BY <1>1, <1>5 DEF DetectorFinish, Detected
  <2>2. f = q
    BY <1>4, <2>1, NothingShown
  <2>3. Len(f.writes) = 0
    BY <1>3, <2>2
  <2>4. RendersNothing(f)
    BY <2>3 DEF RendersNothing
  <2> QED BY <1>0, <2>4
<1>6. CASE b # <<>>
  <2>1. its = <<Passthrough(b)>>
    BY <1>1, <1>6 DEF DetectorFinish, Detected
  <2>2. f = Write(q, "verbatim", b)
    BY <1>3, <1>4, <2>1, TextShown
  <2>3. PICK x : x = [how |-> "verbatim", bytes |-> b]
    OBVIOUS
  <2>4. PICK vs : vs = Append(q.writes, x)
    OBVIOUS
  <2>5. f = [q EXCEPT !.writes = vs]
    BY <1>3, <2>2, <2>3, <2>4 DEF Write
  <2>6. f.writes = vs
    BY <1>2, <2>5, WritesSet
  <2>7. vs = <<x>>
    BY <1>3, <2>4
  <2>8. Len(vs) = 1 /\ vs[1] = x /\ x.how = "verbatim"
    BY <2>3, <2>7
  <2>9. RendersNothing(f)
    BY <2>6, <2>8 DEF RendersNothing
  <2> QED BY <1>0, <2>9
<1> QED BY <1>5, <1>6

\* The state of the toggle applied to a call that has shown nothing yet.
Applied(p, a, g, l, was, text) ==
  /\ Ready(a, g, l, was, text) /\ a.gate = p.gate /\ a.enabled = requested_rendering_enabled
  /\ ~a.enabled => DetectorHeld(a.detector) = <<>>

\* So it is.
LEMMA ApplySays ==
  ASSUME NEW l \in Byte, NEW was \in BOOLEAN, NEW text \in Seq(Byte), NEW g, NEW p,
         Ready(p, g, l, was, text), p.writes = <<>>, requested_rendering_enabled \in BOOLEAN
  PROVE  Applied(p, ApplyRenderingState(p), g, l, was, text)
<1>1. PICK a : a = ApplyRenderingState(p)
  OBVIOUS
<1>2. /\ Works(p, l, was, text) /\ ~p.failed /\ OnLine(p, l, text) /\ (OnPlainLine(g) => Aligned(p, l))
      /\ Fields(p) /\ Given(p.writes, l, p.enabled) /\ Spent(p, was) /\ Keeps(p, text)
  BY DEF Ready, Works
<1>3. Fields(p)
  BY <1>2
<1>4. p.enabled \in BOOLEAN /\ p.line_start \in BOOLEAN
  BY <1>3, FieldsAre
<1>5. CASE p.enabled = requested_rendering_enabled
  <2>1. a = p
    BY <1>1, <1>5 DEF ApplyRenderingState
  <2>2. ~p.enabled => p.detector = LineStart(<<>>)
    BY <1>2 DEF Keeps
  <2> QED BY <1>1, <1>5, <2>1, <2>2 DEF Applied, DetectorHeld, LineStart
<1>6. CASE p.enabled /\ ~requested_rendering_enabled
  <2>1. PICK none : none = <<>>
    OBVIOUS
  <2>2. PICK f : f = FlushDetector(p, TRUE, none)
    OBVIOUS
  <2>3. a = [f EXCEPT !.enabled = FALSE]
    BY <1>1, <1>6, <2>1, <2>2 DEF ApplyRenderingState
  <2>4. p.detector.source \in Seq(Byte) /\ TRUE \in BOOLEAN
    BY <1>2, ShapeHasText DEF Keeps
  <2>5. Flushed(p, f, l, was)
    <3>1. p.detector.source \in Seq(Byte)
      BY <2>4
    <3>2. Given(p.writes, l, p.enabled)
      BY <1>2
    <3> QED BY <1>2, <1>3, <2>2, <2>4, <3>1, <3>2, FlushSays
  <2>6. Fields(f) /\ ~f.failed
    BY <2>5 DEF Flushed
  <2>7. /\ Fields(a) /\ SameWrites(f, a) /\ a.detector = f.detector /\ a.gate = f.gate
        /\ a.enabled = FALSE /\ a.passthrough = f.passthrough /\ a.line_start = f.line_start
    BY <2>3, <2>6, Paused
  <2>8. /\ a.writes = f.writes /\ ~a.failed /\ a.detector = LineStart(<<>>) /\ a.gate = p.gate
        /\ a.line_start = p.line_start
    BY <2>5, <2>7 DEF Flushed, SameWrites
  <2>9. TextOf(a.writes) = text
    BY <1>2, <2>5, <2>8 DEF Flushed, Keeps
  <2>10. RendersNothing(f)
    BY <1>2, <1>3, <2>2, PauseRendersNothing
  <2>11. Given(a.writes, l, a.enabled)
    BY <2>5, <2>8, <2>10 DEF Flushed, Given, RendersNothing
  <2>12. Spent(a, was)
    BY <2>5, <2>7, SameSays DEF Flushed
  <2>13. <<>> \in Seq(Byte) /\ text \o <<>> = text
    BY EmptyJoins
  <2>14. StartsWith(text, TextOf(a.writes))
    BY <2>9, <2>13 DEF StartsWith
  <2>15. a.detector.source = <<>>
    BY <2>8 DEF LineStart
  <2>16. Keeps(a, text)
    BY <2>8, <2>9, <2>13, <2>15, NothingHeld DEF Keeps
  <2>17. Works(a, l, was, text)
    BY <2>7, <2>11, <2>12, <2>14, <2>16 DEF Works
  <2>18. OnLine(a, l, text)
    BY <1>2, <2>8 DEF OnLine
  <2>19. Aligned(a, l)
    BY <2>7 DEF Aligned
  <2> QED BY <1>1, <1>6, <2>7, <2>8, <2>15, <2>17, <2>18, <2>19 DEF Applied, Ready, DetectorHeld
<1>7. CASE ~p.enabled /\ requested_rendering_enabled
  <2>1. PICK t \in BOOLEAN : t = ~p.line_start
    OBVIOUS
  <2>2. a = [p EXCEPT !.passthrough = t, !.enabled = TRUE]
    BY <1>1, <1>7, <2>1 DEF ApplyRenderingState
  <2>3. /\ Fields(a) /\ SameWrites(p, a) /\ a.detector = p.detector /\ a.gate = p.gate
        /\ a.enabled = TRUE /\ a.passthrough = t /\ a.line_start = p.line_start
    BY <1>3, <2>2, Resumed
  <2>4. a.writes = p.writes /\ ~a.failed /\ a.detector = LineStart(<<>>)
    BY <1>2, <1>7, <2>3 DEF SameWrites, Keeps
  <2>5. Given(a.writes, l, a.enabled)
    BY <1>2, <1>7, <2>4 DEF Given
  <2>6. Spent(a, was)
    BY <1>2, <2>3, SameSays
  <2>7. Keeps(a, text)
    BY <1>2, <2>3, <2>4 DEF Keeps
  <2>8. Works(a, l, was, text)
    BY <1>2, <2>3, <2>4, <2>5, <2>6, <2>7 DEF Works
  <2>9. TextOf(a.writes) = text
    <3>1. a.detector.source = <<>>
      BY <2>4 DEF LineStart
    <3>2. TextOf(a.writes) \in Seq(Byte)
      BY <2>5, WritesText
    <3>3. TextOf(a.writes) \o <<>> = TextOf(a.writes)
      BY <3>2, EmptyJoins
    <3> QED BY <2>7, <3>1, <3>3 DEF Keeps
  <2>10. OnLine(a, l, text)
    BY <1>2, <2>3 DEF OnLine
  <2>11. Aligned(a, l)
    BY <1>2, <1>4, <2>1, <2>3, <2>9 DEF Aligned, OnLine
  <2> QED BY <1>1, <1>7, <2>3, <2>4, <2>8, <2>10, <2>11 DEF Applied, Ready
<1> QED BY <1>4, <1>5, <1>6, <1>7

-----------------------------------------------------------------------------
\* A whole call.

\* The state of an open pipeline, between two calls.
Types ==
  /\ rendering_enabled \in BOOLEAN /\ requested_rendering_enabled \in BOOLEAN
  /\ safe_line_start \in BOOLEAN /\ passthrough_until_newline \in BOOLEAN
  /\ cancelled \in BOOLEAN /\ last_shown \in Byte

\* The parsers hold what is owed, and it is clean.
Parsers ==
  /\ GateOK(gate) /\ DetShape(detector) /\ Clean(DetectorHeld(detector))
  /\ owed = DetectorHeld(detector) \o GateHeld(gate)
  /\ ~rendering_enabled \/ passthrough_until_newline => detector = LineStart(<<>>)

\* The line the display is on.
Position ==
  /\ safe_line_start => LastOf(<<last_shown>> \o DetectorHeld(detector)) = "lf"
  /\ OnPlainLine(gate) /\ rendering_enabled /\ ~passthrough_until_newline
       /\ detector.st # "passthrough_line" => last_shown = "lf"

\* Of what was owed at a resume, a carriage return at most.
Staleness == stale \in {0, 1} /\ (stale = 1 => owed # <<>> /\ owed[1] = "cr")

\* All of it.
Between == Types /\ Parsers /\ Position /\ Staleness

\* A call begins ready, with nothing written.
LEMMA StartSays ==
  ASSUME Between
  PROVE  /\ Ready(Start, gate, last_shown, cancelled, DetectorHeld(detector))
         /\ Start.writes = <<>> /\ Start.gate = gate
         /\ DetectorHeld(detector) \in Seq(Byte)
<1>1. PICK s, b, l : s = Start /\ b = DetectorHeld(detector) /\ l = last_shown
  OBVIOUS
<1>2. s = [gate |-> gate, detector |-> detector, enabled |-> rendering_enabled,
           line_start |-> safe_line_start, passthrough |-> passthrough_until_newline,
           cancelled |-> cancelled, writes |-> <<>>, resolved |-> 0, failed |-> FALSE]
  BY <1>1 DEF Start
<1>3. /\ s.gate = gate /\ s.detector = detector /\ s.enabled = rendering_enabled
      /\ s.line_start = safe_line_start /\ s.passthrough = passthrough_until_newline
      /\ s.cancelled = cancelled /\ s.writes = <<>> /\ s.failed = FALSE
  BY <1>2
<1>4. Fields(s)
  <2>1. PICK w, n : w = <<>> /\ n = 0
    OBVIOUS
  <2>2. PICK f \in BOOLEAN : f = FALSE
    OBVIOUS
  <2>3. rendering_enabled \in BOOLEAN /\ safe_line_start \in BOOLEAN
        /\ passthrough_until_newline \in BOOLEAN /\ cancelled \in BOOLEAN
    BY DEF Between, Types
  <2>4. s = [gate |-> gate, detector |-> detector, enabled |-> rendering_enabled,
             line_start |-> safe_line_start, passthrough |-> passthrough_until_newline,
             cancelled |-> cancelled, writes |-> w, resolved |-> n, failed |-> f]
    BY <1>2, <2>1, <2>2
  <2> QED BY <2>3, <2>4, FieldsMade
<1>5. b \in Seq(Byte) /\ b = detector.source
  BY <1>1, ShapeHasText DEF Between, Parsers, DetectorHeld
<1>6. b \in Seq(Byte)
  BY <1>5
<1>7. Given(s.writes, l, s.enabled)
  <2>1. <<>> \in Seq(WritePieces) /\ Len(<<>>) = 0
    OBVIOUS
  <2> QED BY <1>3, <2>1 DEF Given
<1>8. Spent(s, cancelled)
  <2>1. Len(s.writes) = 0
    BY <1>3
  <2> QED BY <1>3, <2>1 DEF Spent
<1>9. TextOf(s.writes) = <<>>
  BY <1>3, NoText
<1>10. <<>> \o b = b
  BY <1>6, EmptyJoins
<1>11. StartsWith(b, TextOf(s.writes))
  BY <1>6, <1>9, <1>10 DEF StartsWith
<1>12. Keeps(s, b)
  BY <1>1, <1>3, <1>5, <1>9, <1>10 DEF Between, Parsers, Keeps
<1>13. Works(s, l, cancelled, b)
  BY <1>4, <1>7, <1>8, <1>11, <1>12 DEF Works
<1>14. OnLine(s, l, b)
  BY <1>1, <1>3 DEF Between, Position, OnLine
<1>15. OnPlainLine(gate) => Aligned(s, l)
  <2>1. <<l>> \in Seq(Byte)
    BY <1>1, LineByte DEF Between, Types
  <2>2. <<l>> \o TextOf(s.writes) = <<l>>
    BY <1>9, <2>1, EmptyJoins
  <2>3. LastOf(<<l>>) = l
    BY DEF LastOf
  <2> QED BY <1>1, <1>3, <2>2, <2>3 DEF Between, Position, Aligned
<1> QED BY <1>1, <1>3, <1>6, <1>13, <1>14, <1>15 DEF Ready

\* And is so after the toggle.
LEMMA StartApplied ==
  ASSUME Between
  PROVE  /\ Applied(Start, ApplyRenderingState(Start), gate, last_shown, cancelled, DetectorHeld(detector))
         /\ ApplyRenderingState(Start).gate = gate
<1>1. PICK a, l, b : a = ApplyRenderingState(Start) /\ l = last_shown /\ b = DetectorHeld(detector)
  OBVIOUS
<1>2. PICK was \in BOOLEAN : was = cancelled
  BY DEF Between, Types
<1>3. l \in Byte /\ requested_rendering_enabled \in BOOLEAN
  BY <1>1 DEF Between, Types
<1>4. b \in Seq(Byte) /\ Ready(Start, gate, l, was, b) /\ Start.writes = <<>> /\ Start.gate = gate
  BY <1>1, <1>2, StartSays
<1>5. b \in Seq(Byte)
  BY <1>4
<1>6. requested_rendering_enabled \in BOOLEAN
  BY <1>3
<1>7. Applied(Start, a, gate, l, was, b)
  BY <1>1, <1>3, <1>4, <1>5, <1>6, ApplySays
<1>8. a.gate = gate
  BY <1>4, <1>7 DEF Applied
<1> QED BY <1>1, <1>2, <1>7, <1>8

\* The call after its toggle, its gate and its detector: the text it received.
Called(p, h, l, was, text) ==
  /\ p.gate = h /\ GateOK(h) /\ p.enabled = requested_rendering_enabled
  /\ \E t \in Seq(Byte) :
       /\ text = t \o GateHeld(h) /\ Works(p, l, was, t)
       /\ ~p.failed => OnLine(p, l, t) /\ (OnPlainLine(h) => Aligned(p, l))

\* The segments of a gate that goes on from the one the pipeline kept.
LEMMA CallSays ==
  ASSUME Between, NEW input \in Seq(Byte), NEW gated,
         Gating(gate, input, gated.segments, gated.gate), NEW renders
  PROVE  Called(EmitSegments(ApplyRenderingState(Start), gated, renders), gated.gate,
                last_shown, cancelled, owed \o input)
<1>1. PICK a, r, l, b, segs, h, c :
        /\ a = ApplyRenderingState(Start) /\ r = EmitSegments(a, gated, renders)
        /\ l = last_shown /\ b = DetectorHeld(detector) /\ segs = gated.segments /\ h = gated.gate
        /\ c = BytesOf(segs)
  OBVIOUS
<1>2. PICK was \in BOOLEAN : was = cancelled
  BY DEF Between, Types
<1>3. b \in Seq(Byte) /\ l \in Byte /\ requested_rendering_enabled \in BOOLEAN
  BY <1>1, StartSays DEF Between, Types
<1>4. b \in Seq(Byte)
  BY <1>3
<1>5. Applied(Start, a, gate, l, was, b)
  BY <1>1, <1>2, StartApplied
<1>6. /\ Works(a, l, was, b) /\ ~a.failed /\ OnLine(a, l, b) /\ (OnPlainLine(gate) => Aligned(a, l))
      /\ a.enabled = requested_rendering_enabled
  BY <1>5 DEF Applied, Ready
<1>7. Segmented(a, r, h, l, was, b \o c)
  <2>1. Gating(gate, input, gated.segments, gated.gate)
    OBVIOUS
  <2> QED BY <1>1, <1>3, <1>4, <1>6, <2>1, SegmentsSay
<1>8. GateOK(h) /\ segs \in Seq(Segs) /\ GateHeld(gate) \o input = c \o GateHeld(h)
  BY <1>1 DEF Gating
<1>9. c \in Seq(Byte) /\ GateHeld(h) \in Seq(Byte) /\ GateHeld(gate) \in Seq(Byte)
  BY <1>1, <1>8, BytesAreText, HeldIsText
<1>10. owed \o input = (b \o c) \o GateHeld(h)
  <2>1. owed = b \o GateHeld(gate)
    BY <1>1 DEF Between, Parsers
  <2>2. (b \o GateHeld(gate)) \o input = b \o (GateHeld(gate) \o input)
    BY <1>4, <1>9, Associates
  <2>3. (b \o c) \o GateHeld(h) = b \o (c \o GateHeld(h))
    BY <1>4, <1>9, Associates
  <2> QED BY <1>8, <2>1, <2>2, <2>3
<1>11. b \o c \in Seq(Byte)
  BY <1>4, <1>9, ConcatProperties
<1>12. Called(r, h, l, was, owed \o input)
  BY <1>6, <1>7, <1>8, <1>10, <1>11 DEF Called, Segmented
<1> QED BY <1>1, <1>2, <1>12

\* A read is taken in.
LEMMA FeedSays ==
  ASSUME Between, NEW chunk \in Seq(Byte), NEW renders
  PROVE  Called(FeedResult(chunk, renders), GateFeed(gate, chunk).gate, last_shown, cancelled, owed \o chunk)
<1>1. PICK a, gated : a = ApplyRenderingState(Start) /\ gated = GateFeed(a.gate, chunk)
  OBVIOUS
<1>2. a.gate = gate
  BY <1>1, StartApplied
<1>3. FeedResult(chunk, renders) = EmitSegments(a, gated, renders)
  BY <1>1 DEF FeedResult
<1>4. Gating(gate, chunk, gated.segments, gated.gate)
  <2>1. GateOK(gate)
    BY DEF Between, Parsers
  <2> QED BY <1>1, <1>2, <2>1, FeedGates
<1>5. Called(EmitSegments(a, gated, renders), gated.gate, last_shown, cancelled, owed \o chunk)
  BY <1>1, <1>4, CallSays
<1> QED BY <1>1, <1>2, <1>3, <1>5

\* After finish nothing is withheld: all that was owed is shown, but after an error.
Finished(p, l, was, text) ==
  /\ Fields(p) /\ Given(p.writes, l, p.enabled) /\ Spent(p, was)
  /\ p.enabled = requested_rendering_enabled
  /\ StartsWith(text, TextOf(p.writes))
  /\ ~p.failed => TextOf(p.writes) = text

\* The end of the stream is.
LEMMA FinishSays ==
  ASSUME Between, NEW renders
  PROVE  Finished(FinishResult(renders), last_shown, cancelled, owed)
<1>1. PICK a, gated, d, e, r, l :
        /\ a = ApplyRenderingState(Start) /\ gated = GateFinish(a.gate)
        /\ d = EmitSegments(a, gated, renders) /\ e = ~d.enabled
        /\ r = FinishResult(renders) /\ l = last_shown
  OBVIOUS
<1>2. PICK was \in BOOLEAN : was = cancelled
  BY DEF Between, Types
<1>3. a.gate = gate
  BY <1>1, StartApplied
<1>4. Gating(gate, <<>>, gated.segments, gated.gate) /\ GateHeld(gated.gate) = <<>>
  <2>1. GateOK(gate)
    BY DEF Between, Parsers
  <2> QED BY <1>1, <1>3, <2>1, FinishGates
<1>5. <<>> \in Seq(Byte)
  OBVIOUS
<1>6. Called(d, gated.gate, l, was, owed \o <<>>)
  BY <1>1, <1>2, <1>4, <1>5, CallSays
<1>7. owed \in Seq(Byte) /\ owed \o <<>> = owed
  <2>1. DetectorHeld(detector) \in Seq(Byte) /\ GateHeld(gate) \in Seq(Byte)
    BY StartSays, HeldIsText
  <2>2. owed = DetectorHeld(detector) \o GateHeld(gate)
    BY DEF Between, Parsers
  <2>3. owed \in Seq(Byte)
    BY <2>1, <2>2, ConcatProperties
  <2> QED BY <2>3, EmptyJoins
<1>8. owed \in Seq(Byte) /\ l \in Byte
  BY <1>1, <1>7 DEF Between, Types
<1>9. Works(d, l, was, owed) /\ d.enabled = requested_rendering_enabled
  <2>2. PICK t \in Seq(Byte) : owed = t \o GateHeld(gated.gate) /\ Works(d, l, was, t)
    BY <1>6, <1>7 DEF Called
  <2>3. t \o <<>> = t
    BY EmptyJoins
  <2> QED BY <1>4, <1>6, <2>2, <2>3 DEF Called
<1>10. CASE d.failed
  <2>1. r = d
    BY <1>1, <1>10 DEF FinishResult
  <2> QED BY <1>1, <1>2, <1>9, <1>10, <2>1 DEF Works, Finished
<1>11. CASE ~d.failed
  <2>1. r = FlushDetector(d, e, renders)
    BY <1>1, <1>11 DEF FinishResult
  <2>2. Keeps(d, owed)
    BY <1>9, <1>11 DEF Works
  <2>3. d.detector.source \in Seq(Byte) /\ e \in BOOLEAN
    BY <1>1, <2>2, ShapeHasText DEF Keeps
  <2>4. Flushed(d, r, l, was)
    <3>1. d.detector.source \in Seq(Byte)
      BY <2>3
    <3>2. Fields(d)
      BY <1>9 DEF Works
    <3>3. Given(d.writes, l, d.enabled)
      BY <1>9 DEF Works
    <3> QED BY <1>8, <1>9, <1>11, <2>1, <2>3, <3>1, <3>2, <3>3, FlushSays DEF Works
  <2>5. TextOf(r.writes) = owed
    BY <2>2, <2>4 DEF Flushed, Keeps
  <2>6. StartsWith(owed, TextOf(r.writes))
    BY <1>5, <1>7, <2>5 DEF StartsWith
  <2>7. r.enabled = requested_rendering_enabled
    BY <1>9, <2>4 DEF Flushed
  <2> QED BY <1>1, <1>2, <2>4, <2>5, <2>6, <2>7 DEF Flushed, Finished
<1> QED BY <1>10, <1>11

-----------------------------------------------------------------------------
\* The history of a call.

\* Where a text goes on after its beginning.
LEMMA StartIs ==
  ASSUME NEW text \in Seq(Byte), NEW front \in Seq(Byte), StartsWith(text, front)
  PROVE  /\ Len(front) \in Nat /\ Len(text) \in Nat /\ Len(front) <= Len(text)
         /\ SubSeq(text, Len(front) + 1, Len(text)) \in Seq(Byte)
         /\ front \o SubSeq(text, Len(front) + 1, Len(text)) = text
         /\ \A i \in 1..Len(front) : text[i] = front[i]
<1>1. PICK rest \in Seq(Byte) : text = front \o rest
  BY DEF StartsWith
<1>2. PICK n, m : n = Len(front) /\ m = Len(rest)
  OBVIOUS
<1>3. n \in Nat /\ m \in Nat
  BY <1>2, LenProperties
<1>4. /\ Len(text) = n + m
      /\ \A i \in 1..n : text[i] = front[i]
      /\ \A j \in 1..m : text[n + j] = rest[j]
  BY <1>1, <1>2, JoinIs
<1>5. SubSeq(text, n + 1, n + m) = rest
  <2>1. PICK s : s = SubSeq(text, n + 1, n + m)
    OBVIOUS
  <2>2. PICK u, v : u = n + 1 /\ v = n + m
    OBVIOUS
  <2>3. u \in Int /\ v \in Int /\ v - u + 1 = m /\ (~(u <= v) => m = 0)
        /\ \A j \in 1..m : u + j - 1 = n + j
    BY <1>3, <2>2
  <2>6. \A i \in u..v : text[i] \in Byte
    <3> TAKE i \in u..v
    <3>1. i - n \in 1..m /\ n + (i - n) = i
      BY <1>3, <2>2
    <3>2. rest[i - n] \in Byte
      BY <1>2, <3>1, ElementOfSeq
    <3> QED BY <1>4, <3>1, <3>2
  <2>7. SubSeq(text, u, v) \in Seq(Byte) /\ Len(SubSeq(text, u, v)) = (IF u <= v THEN v - u + 1 ELSE 0)
        /\ \A i \in 1..(v - u + 1) : SubSeq(text, u, v)[i] = text[u + i - 1]
    BY <2>3, <2>6, SubSeqProperties
  <2>5. s \in Seq(Byte) /\ Len(s) = m /\ \A j \in 1..m : s[j] = text[n + j]
    BY <2>1, <2>2, <2>3, <2>7
  <2>4. s = rest
    BY <1>2, <1>4, <2>5, SeqEqual
  <2> QED BY <2>1, <2>4
<1>6. n <= n + m
  BY <1>3
<1> QED BY <1>1, <1>2, <1>3, <1>4, <1>5, <1>6

\* The byte before a place in a text that follows the byte l.
LEMMA BeforeIs ==
  ASSUME NEW l \in Byte, NEW text \in Seq(Byte), NEW front \in Seq(Byte), StartsWith(text, front)
  PROVE  /\ (IF Len(front) = 0 THEN l ELSE text[Len(front)]) = LastOf(<<l>> \o front)
         /\ LastOf(<<l>> \o front) \in Byte
<1>1. Len(front) \in Nat /\ \A i \in 1..Len(front) : text[i] = front[i]
  BY StartIs
<1>2. <<l>> \in Seq(Byte)
  BY LineByte
<1>3. CASE Len(front) = 0
  <2>1. front = <<>>
    BY <1>3, EmptySeq
  <2>2. <<l>> \o <<>> = <<l>> /\ LastOf(<<l>>) = l
    BY <1>2, EmptyJoins DEF LastOf
  <2> QED BY <1>3, <2>1, <2>2
<1>4. CASE Len(front) # 0
  <2>1. front # <<>>
    BY <1>4
  <2>2. LastOf(<<l>> \o front) = LastOf(front)
    BY <1>2, <2>1, LastOfJoin
  <2>3. Len(front) \in 1..Len(front) /\ front[Len(front)] \in Byte
    BY <1>1, <1>4, ElementOfSeq
  <2> QED BY <1>1, <1>4, <2>2, <2>3 DEF LastOf
<1> QED BY <1>3, <1>4

\* What the history notes of a write.
ShownPieces == [how : Hows, bytes : Seq(Byte), after : Byte, fresh : BOOLEAN]

\* It has the text of the write.
LEMMA AllHaveText == HasText(WritePieces \cup ShownPieces)
BY DEF HasText, WritePieces, ShownPieces

\* The front of the writes and of the text received.
LEMMA FrontSays ==
  ASSUME NEW l, NEW e, NEW ws, Given(ws, l, e), NEW text \in Seq(Byte), StartsWith(text, TextOf(ws)),
         NEW k \in 0..Len(ws)
  PROVE  /\ TextTo(ws, k) \in Seq(Byte) /\ StartsWith(text, TextTo(ws, k))
         /\ TextOf(SubSeq(ws, 1, k)) = TextTo(ws, k)
<1>1. ws \in Seq(WritePieces) /\ HasText(WritePieces)
  BY WritesHaveText DEF Given
<1>2. TextTo(ws, k) \in Seq(Byte)
  BY <1>1, TextToIs
<1>3. StartsWith(TextOf(ws), TextTo(ws, k))
  BY <1>1, TextStarts
<1>4. PICK rest \in Seq(Byte) : TextOf(ws) = TextTo(ws, k) \o rest
  BY <1>3 DEF StartsWith
<1>5. StartsWith(text, TextTo(ws, k))
  BY <1>2, <1>4, StartsOn
<1> QED BY <1>1, <1>2, <1>5, FrontText

\* The history of a call of which n writes reached the display.
Noted(p, text, n) ==
  /\ shown' \in Seq(ShownPieces) /\ Len(shown') = n
  /\ \A i \in 1..n : shown'[i].how = p.writes[i].how /\ shown'[i].bytes = p.writes[i].bytes
  /\ \A i \in 1..n : shown'[i].how = "rendered" =>
       shown'[i].after = "lf" /\ shown'[i].fresh /\ Genuine(shown'[i].bytes) /\ p.enabled
  /\ TextOf(shown') = TextTo(p.writes, n)
  /\ TextOf(shown') \o owed' = text /\ owed' \in Seq(Byte)
  /\ last_shown' = LastOf(<<last_shown>> \o TextTo(p.writes, n)) /\ last_shown' \in Byte
  /\ stale' \in {0, 1} /\ (stale' = 1 => owed' # <<>> /\ owed'[1] = "cr")

\* How many of the bytes owed predate the last resume: a carriage return at most.
OldBytes(p) == IF p.enabled /\ ~rendering_enabled THEN Len(owed) ELSE stale

\* No block begins with a carriage return.
LEMMA GenuineStarts ==
  ASSUME NEW b \in Seq(Byte), b # <<>>, Genuine(b)
  PROVE  b[1] # "cr"
<1>1. PICK rule \in Openers : SubSeq(b, 1, Len(rule.pattern)) = rule.pattern
  BY DEF Genuine
<1>2. rule.pattern \in Seq(Byte) /\ rule.pattern # <<>> /\ rule.pattern[1] # "cr"
  BY RulesAre
<1>3. PICK q, n : q = rule.pattern /\ n = Len(q)
  OBVIOUS
<1>4. q \in Seq(Byte) /\ q # <<>>
  BY <1>2, <1>3
<1>5. n \in Nat /\ n # 0
  BY <1>3, <1>4, LenProperties, EmptySeq
<1>6. PICK S : S = {b[i] : i \in 1..n}
  OBVIOUS
<1>7. 1 \in Int /\ n \in Int /\ 1 \in 1..(n - 1 + 1) /\ 1 + 1 - 1 = 1
  BY <1>5
<1>8. SubSeq(b, 1, n)[1] = b[1]
  <2>1. \A i \in 1..n : b[i] \in S
    BY <1>6
  <2>2. \A i \in 1..(n - 1 + 1) : SubSeq(b, 1, n)[i] = b[1 + i - 1]
    BY <1>7, <2>1, SubSeqProperties
  <2> QED BY <1>7, <2>2
<1> QED BY <1>1, <1>2, <1>3, <1>8

\* So it is.
LEMMA NoteSays ==
  ASSUME last_shown \in Byte, NEW p, NEW text \in Seq(Byte),
         Given(p.writes, last_shown, p.enabled), StartsWith(text, TextOf(p.writes)),
         OldBytes(p) \in {0, 1}, OldBytes(p) = 1 => text # <<>> /\ text[1] = "cr",
         NEW n \in 0..Len(p.writes), Note(p, text, n)
  PROVE  Noted(p, text, n)
<1>1. PICK ws, l, old, sh : ws = p.writes /\ l = last_shown /\ old = OldBytes(p) /\ sh = shown'
  OBVIOUS
<1>2. ws \in Seq(WritePieces) /\ Given(ws, l, p.enabled)
  BY <1>1 DEF Given
<1>3. Len(ws) \in Nat /\ n \in Nat /\ n <= Len(ws)
  BY <1>1, <1>2, LenProperties
<1>4. l \in Byte
  BY <1>1
<1>5. \A k \in 0..Len(ws) : /\ TextTo(ws, k) \in Seq(Byte) /\ StartsWith(text, TextTo(ws, k))
                            /\ TextOf(SubSeq(ws, 1, k)) = TextTo(ws, k)
  <2> TAKE k \in 0..Len(ws)
  <2>1. StartsWith(text, TextOf(ws))
    BY <1>1
  <2> QED BY <1>2, <2>1, FrontSays
<1> DEFINE At(i) == Len(TextOf(SubSeq(ws, 1, i - 1)))
           Before(m) == IF m = 0 THEN l ELSE text[m]
<1>6. /\ sh = [i \in 1..n |-> [how |-> ws[i].how, bytes |-> ws[i].bytes,
                               after |-> Before(At(i)), fresh |-> At(i) >= old]]
      /\ owed' = SubSeq(text, At(n + 1) + 1, Len(text))
      /\ stale' = IF old > At(n + 1) THEN old - At(n + 1) ELSE 0
      /\ last_shown' = Before(At(n + 1))
  BY <1>1, Zenon DEF Note, OldBytes
<1>7. \A i \in 1..(n + 1) : /\ i - 1 \in 0..Len(ws)
                            /\ At(i) = Len(TextTo(ws, i - 1))
                            /\ Before(At(i)) = LastOf(<<l>> \o TextTo(ws, i - 1))
                            /\ Before(At(i)) \in Byte
  <2> TAKE i \in 1..(n + 1)
  <2>1. i - 1 \in 0..Len(ws)
    BY <1>3
  <2>2. PICK f : f = TextTo(ws, i - 1)
    OBVIOUS
  <2>3. f \in Seq(Byte) /\ StartsWith(text, f) /\ At(i) = Len(f)
    BY <1>5, <2>1, <2>2
  <2>4. f \in Seq(Byte)
    BY <2>3
  <2>5. (IF Len(f) = 0 THEN l ELSE text[Len(f)]) = LastOf(<<l>> \o f) /\ LastOf(<<l>> \o f) \in Byte
    BY <1>4, <2>3, <2>4, BeforeIs
  <2> QED BY <2>1, <2>2, <2>3, <2>5
<1>8. n + 1 \in 1..(n + 1) /\ (n + 1) - 1 = n
  BY <1>3
<1>9. PICK m : m = At(n + 1)
  OBVIOUS
<1>10. m = Len(TextTo(ws, n)) /\ Before(m) = LastOf(<<l>> \o TextTo(ws, n)) /\ Before(m) \in Byte
  BY <1>7, <1>8, <1>9
<1>11. owed' = SubSeq(text, m + 1, Len(text)) /\ last_shown' = Before(m)
       /\ stale' = IF old > m THEN old - m ELSE 0
  BY <1>6, <1>9
<1> HIDE DEF Before, At
<1>12. \A i \in 1..n : sh[i] = [how |-> ws[i].how, bytes |-> ws[i].bytes,
                                after |-> Before(At(i)), fresh |-> At(i) >= old]
  BY <1>6
<1>13. \A i \in 1..n : ws[i] \in WritePieces
  BY <1>2, <1>3, ElementOfSeq
<1>14. \A i \in 1..n : sh[i] \in ShownPieces /\ sh[i].how = ws[i].how /\ sh[i].bytes = ws[i].bytes
                       /\ sh[i].after = Before(At(i)) /\ (sh[i].fresh <=> At(i) >= old)
  <2> TAKE i \in 1..n
  <2>1. i \in 1..(n + 1)
    BY <1>3
  <2>2. PICK h, b, a : h = ws[i].how /\ b = ws[i].bytes /\ a = Before(At(i))
    OBVIOUS
  <2>6. At(i) \in Nat /\ old \in Nat
    <3>1. i - 1 \in 0..Len(ws) /\ At(i) = Len(TextTo(ws, i - 1))
      BY <1>7, <2>1
    <3>2. TextTo(ws, i - 1) \in Seq(Byte)
      BY <1>5, <3>1
    <3> QED BY <1>1, <3>1, <3>2, LenProperties
  <2>9. PICK x, y : x = At(i) /\ y = old
    OBVIOUS
  <2>10. (x >= y) \in BOOLEAN
    BY <2>6, <2>9
  <2>3. PICK f \in BOOLEAN : f = (At(i) >= old)
    BY <2>9, <2>10
  <2>4. h \in Hows /\ b \in Seq(Byte) /\ a \in Byte
    BY <1>7, <1>13, <2>1, <2>2 DEF WritePieces
  <2>5. sh[i] = [how |-> h, bytes |-> b, after |-> a, fresh |-> f]
    BY <1>12, <2>2, <2>3
  <2>7. sh[i] \in ShownPieces
    BY <2>4, <2>5 DEF ShownPieces
  <2>8. sh[i].how = h /\ sh[i].bytes = b /\ sh[i].after = a /\ sh[i].fresh = f
    BY <2>5
  <2> QED BY <2>2, <2>3, <2>7, <2>8
<1>15. sh \in Seq(ShownPieces) /\ Len(sh) = n
  <2>1. sh = [i \in 1..n |-> sh[i]]
    BY <1>6
  <2>2. \A i \in 1..n : sh[i] \in ShownPieces
    BY <1>14
  <2> QED BY <1>3, <2>1, <2>2, IsASeq
<1>16. TextOf(sh) = TextTo(ws, n)
  <2>1. PICK S : S = WritePieces \cup ShownPieces
    OBVIOUS
  <2>2. HasText(S) /\ ws \in Seq(S) /\ sh \in Seq(S)
    BY <1>2, <1>15, <2>1, AllHaveText
  <2>3. \A k \in 1..n : sh[k].bytes = ws[k].bytes
    BY <1>14
  <2>4. \A k \in 0..n : TextTo(sh, k) = TextTo(ws, k)
    BY <1>3, <1>15, <2>2, <2>3, SameText
  <2>5. TextOf(sh) = TextTo(sh, Len(sh))
    BY <2>2, TextToIs
  <2> QED BY <1>3, <1>15, <2>4, <2>5
<1>17. TextTo(ws, n) \in Seq(Byte) /\ StartsWith(text, TextTo(ws, n))
  BY <1>3, <1>5
<1>18. TextTo(ws, n) \in Seq(Byte)
  BY <1>17
<1>19. TextTo(ws, n) \o SubSeq(text, Len(TextTo(ws, n)) + 1, Len(text)) = text
       /\ Len(TextTo(ws, n)) \in Nat /\ SubSeq(text, Len(TextTo(ws, n)) + 1, Len(text)) \in Seq(Byte)
  BY <1>17, <1>18, StartIs
<1>20. TextOf(sh) \o owed' = text /\ owed' \in Seq(Byte)
  BY <1>10, <1>11, <1>16, <1>19
<1>21. stale' \in {0, 1} /\ (stale' = 1 => owed' # <<>> /\ owed'[1] = "cr")
  <2>1. m \in Nat /\ old \in {0, 1}
    BY <1>1, <1>10, <1>19
  <2>2. CASE old > m
    <3>1. old = 1 /\ m = 0 /\ stale' = 1
      BY <1>11, <2>1, <2>2
    <3>2. TextTo(ws, n) = <<>>
      BY <1>10, <1>18, <3>1, EmptySeq
    <3>3. owed' = SubSeq(text, 1, Len(text))
      BY <1>11, <3>1
    <3>4. SubSeq(text, 1, Len(text)) = text
      BY FrontIs DEF Front
    <3> QED BY <1>1, <3>1, <3>3, <3>4
  <2>3. CASE ~(old > m)
    BY <1>11, <2>3
  <2> QED BY <2>2, <2>3
<1>22. ASSUME NEW i \in 1..n, sh[i].how = "rendered"
       PROVE  sh[i].after = "lf" /\ sh[i].fresh /\ Genuine(sh[i].bytes) /\ p.enabled
  <2>1. i \in 1..(n + 1) /\ i \in 1..Len(ws) /\ i \in 0..Len(ws) /\ i - 1 \in 0..Len(ws)
    BY <1>3
  <2>2. p.enabled /\ ws[i].bytes \in BlockBytes /\ LastOf(<<l>> \o TextTo(ws, i - 1)) = "lf"
    BY <1>2, <1>14, <1>22, <2>1 DEF Given
  <2>3. PICK b, f : b = ws[i].bytes /\ f = TextTo(ws, i - 1)
    OBVIOUS
  <2>4. b \in Seq(Byte) /\ b # <<>> /\ Genuine(b)
    BY <2>2, <2>3 DEF BlockBytes
  <2>5. b \in Seq(Byte) /\ f \in Seq(Byte)
    BY <1>5, <2>1, <2>3, <2>4
  <2>6. At(i) = Len(f) /\ Len(f) \in Nat
    BY <1>7, <2>1, <2>3, <2>5, LenProperties
  <2>7. At(i) >= old
    <3> SUFFICES ASSUME ~(At(i) >= old) PROVE FALSE
      OBVIOUS
    <3>1. old = 1 /\ Len(f) = 0
      BY <1>1, <2>6
    <3>2. f = <<>>
      BY <2>5, <3>1, EmptySeq
    <3>3. TextTo(ws, i) = f \o b
      BY <1>2, <2>1, <2>3, WritesHaveText, TextToIs
    <3>4. TextTo(ws, i) = b
      BY <2>5, <3>2, <3>3, EmptyJoins
    <3>5. StartsWith(text, b)
      BY <1>5, <2>1, <3>4
    <3>6. \A k \in 1..Len(b) : text[k] = b[k]
      BY <2>5, <3>5, StartIs
    <3>7. Len(b) \in Nat /\ Len(b) # 0
      BY <2>4, <2>5, LenProperties, EmptySeq
    <3>8. text[1] = b[1]
      BY <3>6, <3>7
    <3>9. b[1] # "cr"
      BY <2>4, <2>5, GenuineStarts
    <3> QED BY <1>1, <3>1, <3>8, <3>9
  <2>8. Before(At(i)) = "lf"
    BY <1>7, <2>1, <2>2
  <2> QED BY <1>14, <2>2, <2>3, <2>4, <2>7, <2>8
<1> QED BY <1>1, <1>10, <1>11, <1>14, <1>15, <1>16, <1>20, <1>21, <1>22 DEF Noted

-----------------------------------------------------------------------------
\* From one call to the next.

\* Equal texts that begin alike go on alike.
LEMMA FrontCancels ==
  ASSUME NEW f \in Seq(Byte), NEW a \in Seq(Byte), NEW b \in Seq(Byte), f \o a = f \o b
  PROVE  a = b
<1>1. PICK n, k, m : n = Len(f) /\ k = Len(a) /\ m = Len(b)
  OBVIOUS
<1>2. n \in Nat /\ k \in Nat /\ m \in Nat
  BY <1>1, LenProperties
<1>3. Len(f \o a) = n + k /\ \A j \in 1..k : (f \o a)[n + j] = a[j]
  BY <1>1, JoinIs
<1>4. Len(f \o b) = n + m /\ \A j \in 1..m : (f \o b)[n + j] = b[j]
  BY <1>1, JoinIs
<1>5. k = m
  BY <1>2, <1>3, <1>4
<1>6. \A j \in 1..k : a[j] = b[j]
  BY <1>3, <1>4, <1>5
<1> QED BY <1>1, <1>5, <1>6, SeqEqual

\* The last byte of what was shown and what is held.
LEMMA LastOfRest ==
  ASSUME NEW l \in Byte, NEW f \in Seq(Byte), NEW b \in Seq(Byte), NEW m \in Byte,
         m = LastOf(<<l>> \o f)
  PROVE  LastOf(<<m>> \o b) = LastOf(<<l>> \o (f \o b))
<1>1. <<l>> \in Seq(Byte) /\ <<m>> \in Seq(Byte)
  BY LineByte
<1>2. <<l>> \in Seq(Byte)
  BY <1>1
<1>3. <<m>> \in Seq(Byte)
  BY <1>1
<1>4. CASE b = <<>>
  <2>1. <<m>> \o <<>> = <<m>> /\ f \o <<>> = f
    BY <1>3, EmptyJoins
  <2>2. LastOf(<<m>>) = m
    BY DEF LastOf
  <2> QED BY <1>4, <2>1, <2>2
<1>5. CASE b # <<>>
  <2>1. LastOf(<<m>> \o b) = LastOf(b)
    BY <1>3, <1>5, LastOfJoin
  <2>2. f \o b \in Seq(Byte) /\ f \o b # <<>> /\ LastOf(f \o b) = LastOf(b)
    BY <1>5, LastOfJoin
  <2>3. f \o b \in Seq(Byte)
    BY <2>2
  <2>4. LastOf(<<l>> \o (f \o b)) = LastOf(f \o b)
    BY <1>2, <2>2, <2>3, LastOfJoin
  <2> QED BY <2>1, <2>2, <2>4
<1> QED BY <1>4, <1>5

\* What is owed is text.
LEMMA OwedText == ASSUME Between PROVE owed \in Seq(Byte)
<1>1. DetectorHeld(detector) \in Seq(Byte) /\ GateHeld(gate) \in Seq(Byte)
  BY StartSays, HeldIsText
<1> QED BY <1>1, ConcatProperties DEF Between, Parsers

\* What a resume counts as old is at most the carriage return that the gate holds.
LEMMA OldSays ==
  ASSUME Between, NEW p
  PROVE  OldBytes(p) \in {0, 1} /\ (OldBytes(p) = 1 => owed # <<>> /\ owed[1] = "cr")
<1>1. CASE p.enabled /\ ~rendering_enabled
  <2>1. DetectorHeld(detector) = <<>>
    BY <1>1 DEF Between, Parsers, DetectorHeld, LineStart
  <2>2. GateHeld(gate) \in Seq(Byte)
    BY HeldIsText
  <2>3. owed = GateHeld(gate)
    BY <2>1, <2>2, EmptyJoins DEF Between, Parsers
  <2>4. owed = <<>> \/ owed = <<"cr">>
    BY <2>3 DEF GateHeld
  <2>5. OldBytes(p) = Len(owed)
    BY <1>1 DEF OldBytes
  <2> QED BY <2>4, <2>5
<1>2. CASE ~(p.enabled /\ ~rendering_enabled)
  BY <1>2 DEF OldBytes, Between, Staleness
<1> QED BY <1>1, <1>2

\* It begins the text of the next call.
LEMMA OldBeginsText ==
  ASSUME Between, NEW p, NEW more \in Seq(Byte)
  PROVE  OldBytes(p) \in {0, 1} /\ (OldBytes(p) = 1 => owed \o more # <<>> /\ (owed \o more)[1] = "cr")
<1>1. owed \in Seq(Byte)
  BY OwedText
<1>2. SUFFICES ASSUME owed # <<>>, owed[1] = "cr"
               PROVE  owed \o more # <<>> /\ (owed \o more)[1] = "cr"
  BY OldSays
<1>3. Len(owed) \in Nat /\ Len(owed) # 0 /\ Len(more) \in Nat
  BY <1>1, <1>2, LenProperties, EmptySeq
<1>4. Len(owed \o more) = Len(owed) + Len(more) /\ \A i \in 1..Len(owed) : (owed \o more)[i] = owed[i]
  BY <1>1, JoinIs
<1>5. Len(owed \o more) # 0
  BY <1>3, <1>4
<1>6. owed \o more # <<>>
  BY <1>5
<1> QED BY <1>2, <1>3, <1>4, <1>6

\* What becomes of a call: how far the display got, and whether the pipeline goes on.
Committed(p, text, outcome, n) ==
  /\ n \in 0..Len(p.writes) /\ Noted(p, text, n)
  /\ status' = "failed" \/ (status' = outcome /\ ~p.failed /\ n = Len(p.writes))
  /\ rendering_enabled' = p.enabled

\* Something becomes of a call.
LEMMA CommitSays ==
  ASSUME last_shown \in Byte, NEW p, NEW text \in Seq(Byte), p.failed \in BOOLEAN,
         Given(p.writes, last_shown, p.enabled), StartsWith(text, TextOf(p.writes)),
         OldBytes(p) \in {0, 1}, OldBytes(p) = 1 => text # <<>> /\ text[1] = "cr",
         NEW outcome, Commit(p, text, outcome)
  PROVE  \E n \in 0..Len(p.writes) : Committed(p, text, outcome, n)
<1>1. Len(p.writes) \in Nat
  BY LenProperties DEF Given
<1>2. \A n \in 0..Len(p.writes) : Note(p, text, n) => Noted(p, text, n)
  <2> TAKE n \in 0..Len(p.writes)
  <2> HAVE Note(p, text, n)
  <2> QED BY NoteSays
<1>3. rendering_enabled' = p.enabled
  BY DEF Commit
<1>4. CASE status' = (IF p.failed THEN "failed" ELSE outcome) /\ Note(p, text, Len(p.writes))
  <2>1. Len(p.writes) \in 0..Len(p.writes)
    BY <1>1
  <2>2. Committed(p, text, outcome, Len(p.writes))
    BY <1>2, <1>3, <1>4, <2>1 DEF Committed
  <2> QED BY <2>1, <2>2
<1>5. CASE status' = "failed" /\ \E n \in 0..(Len(p.writes) - 1) : Note(p, text, n)
  <2>1. PICK n \in 0..(Len(p.writes) - 1) : Note(p, text, n)
    BY <1>5
  <2>2. n \in 0..Len(p.writes)
    BY <1>1
  <2>3. Committed(p, text, outcome, n)
    BY <1>2, <1>3, <1>5, <2>1, <2>2 DEF Committed
  <2> QED BY <2>2, <2>3
<1> QED BY <1>4, <1>5 DEF Commit

\* What is shown is right, however far the display got.
LEMMA ShownIsRight ==
  ASSUME NEW p, NEW text, NEW outcome, NEW n, Committed(p, text, outcome, n)
  PROVE  RenderedIsGenuineBlock' /\ NothingRenderedAcrossToggle'
<1>1. shown' \in Seq(ShownPieces) /\ Len(shown') = n
  BY DEF Committed, Noted
<1>2. DOMAIN shown' = 1..n
  BY <1>1, LenProperties
<1>3. \A i \in 1..n : shown'[i].how = "rendered" =>
        shown'[i].after = "lf" /\ shown'[i].fresh /\ Genuine(shown'[i].bytes) /\ p.enabled
  BY DEF Committed, Noted
<1>4. rendering_enabled' = p.enabled
  BY DEF Committed
<1>5. NothingRenderedAcrossToggle'
  BY <1>2, <1>3, <1>4 DEF NothingRenderedAcrossToggle
<1>6. RenderedIsGenuineBlock'
  BY <1>2, <1>3 DEF RenderedIsGenuineBlock, Genuine
<1> QED BY <1>5, <1>6

-----------------------------------------------------------------------------
\* The inductive invariant, and one step of each action.

\* A call that the display took whole and that goes on leaves a pipeline open.
LEMMA OpenAgain ==
  ASSUME Between, NEW p, NEW h, NEW text \in Seq(Byte), Called(p, h, last_shown, cancelled, text),
         ~p.failed, Noted(p, text, Len(p.writes)),
         gate' = p.gate, detector' = p.detector, rendering_enabled' = p.enabled,
         safe_line_start' = p.line_start, passthrough_until_newline' = p.passthrough,
         cancelled' = p.cancelled, requested_rendering_enabled' = requested_rendering_enabled
  PROVE  Between'
<1>1. PICK l : l = last_shown
  OBVIOUS
<1>2. p.gate = h /\ GateOK(h) /\ l \in Byte /\ requested_rendering_enabled \in BOOLEAN
  BY <1>1 DEF Called, Between, Types
<1>3. PICK t \in Seq(Byte) : /\ text = t \o GateHeld(h) /\ Works(p, l, cancelled, t)
                             /\ OnLine(p, l, t) /\ (OnPlainLine(h) => Aligned(p, l))
  BY <1>1 DEF Called
<1>4. Fields(p) /\ Keeps(p, t) /\ Given(p.writes, l, p.enabled)
  BY <1>3 DEF Works
<1>5. PICK f, b, o, m : f = TextOf(p.writes) /\ b = p.detector.source /\ o = owed' /\ m = last_shown'
  OBVIOUS
<1>6. f \in Seq(Byte) /\ b \in Seq(Byte) /\ GateHeld(h) \in Seq(Byte) /\ f \o b = t
  BY <1>4, <1>5, WritesText, ShapeHasText, HeldIsText DEF Keeps
<1>7. f \in Seq(Byte) /\ b \in Seq(Byte)
  BY <1>6
<1>8. TextTo(p.writes, Len(p.writes)) = f
  BY <1>4, <1>5, WritesHaveText, TextToIs DEF Given
<1>9. /\ f \o o = text /\ o \in Seq(Byte) /\ m = LastOf(<<l>> \o f) /\ m \in Byte
      /\ stale' \in {0, 1} /\ (stale' = 1 => o # <<>> /\ o[1] = "cr")
  BY <1>1, <1>5, <1>8 DEF Noted
<1>10. o = b \o GateHeld(h)
  <2>1. (f \o b) \o GateHeld(h) = f \o (b \o GateHeld(h))
    BY <1>6, <1>7, Associates
  <2>2. f \o o = f \o (b \o GateHeld(h))
    BY <1>3, <1>6, <1>9, <2>1
  <2>3. b \o GateHeld(h) \in Seq(Byte)
    BY <1>6, <1>7, ConcatProperties
  <2>4. o \in Seq(Byte)
    BY <1>9
  <2> QED BY <1>7, <2>2, <2>3, <2>4, FrontCancels
<1>11. LastOf(<<m>> \o b) = LastOf(<<l>> \o t)
  <2>1. m \in Byte /\ m = LastOf(<<l>> \o f)
    BY <1>9
  <2>2. LastOf(<<m>> \o b) = LastOf(<<l>> \o (f \o b))
    BY <1>2, <1>7, <2>1, LastOfRest
  <2> QED BY <1>6, <2>2
<1>12. DetectorHeld(p.detector) = b
  BY <1>5 DEF DetectorHeld
<1>13. Types'
  <2>1. /\ p.enabled \in BOOLEAN /\ p.line_start \in BOOLEAN /\ p.passthrough \in BOOLEAN
        /\ p.cancelled \in BOOLEAN
    BY <1>4, FieldsAre
  <2> QED BY <1>2, <1>5, <1>9, <2>1 DEF Types
<1>14. Parsers'
  <2>1. DetShape(p.detector) /\ Clean(b) /\ (~p.enabled \/ p.passthrough => p.detector = LineStart(<<>>))
    BY <1>4, <1>5 DEF Keeps
  <2>2. owed' = DetectorHeld(p.detector) \o GateHeld(p.gate)
    BY <1>2, <1>5, <1>10, <1>12
  <2> QED BY <1>2, <1>12, <2>1, <2>2 DEF Parsers
<1>15. Position'
  <2>1. p.line_start => LastOf(<<m>> \o b) = "lf"
    BY <1>3, <1>11 DEF OnLine
  <2>2. OnPlainLine(h) /\ p.enabled /\ ~p.passthrough /\ p.detector.st # "passthrough_line" => m = "lf"
    BY <1>3, <1>5, <1>9 DEF Aligned
  <2> QED BY <1>2, <1>5, <1>12, <2>1, <2>2 DEF Position
<1>16. Staleness'
  BY <1>5, <1>9 DEF Staleness
<1> QED BY <1>13, <1>14, <1>15, <1>16 DEF Between

(* The inductive invariant. *)
Inv ==
  /\ status \in {"open", "closed", "failed"}
  /\ RenderedIsGenuineBlock
  /\ NothingRenderedAcrossToggle
  /\ status = "open" => Between

\* Nothing shown is nothing wrong.
LEMMA NothingShownIsRight ==
  shown = <<>> => RenderedIsGenuineBlock /\ NothingRenderedAcrossToggle
BY DEF RenderedIsGenuineBlock, NothingRenderedAcrossToggle

\* At first the invariant holds.
LEMMA InitInv == Init => Inv
<1> SUFFICES ASSUME Init PROVE Inv
  OBVIOUS
<1>1. RenderedIsGenuineBlock /\ NothingRenderedAcrossToggle
  BY NothingShownIsRight DEF Init
<1>2. "lf" \in Byte
  BY LineEndBytes
<1>3. Types
  BY <1>2 DEF Init, Types
<1>4. detector = LineStart(<<>>) /\ detector.source = <<>>
  BY DEF Init, DetectorInit, LineStart
<1>5. GateOK(gate) /\ GateHeld(gate) = <<>>
  <2>1. PICK e, ps : e = FALSE /\ ps = Ground
    OBVIOUS
  <2>2. e \in BOOLEAN
    BY <2>1
  <2>3. gate = [raw_until_newline |-> e, alternate_screen |-> e, pending_carriage_return |-> e,
                parser_fail_closed |-> e, parser |-> ps]
    BY <2>1 DEF Init, GateInit
  <2>4. GateShape(gate)
    BY <2>2, <2>3 DEF GateShape
  <2>5. /\ gate.raw_until_newline = FALSE /\ gate.alternate_screen = FALSE
        /\ gate.pending_carriage_return = FALSE /\ gate.parser_fail_closed = FALSE
        /\ gate.parser = Ground
    BY DEF Init, GateInit
  <2>6. OnPlainLine(gate)
    BY <2>5 DEF OnPlainLine, IsGround, Ground
  <2> QED BY <2>4, <2>5, <2>6 DEF GateOK, GateHeld
<1>6. Parsers
  <2>1. <<>> \o <<>> = <<>>
    BY EmptyJoins, SmallSeqs
  <2>2. owed = <<>>
    BY DEF Init
  <2> QED BY <1>4, <1>5, <2>1, <2>2, NothingHeld DEF Parsers, DetectorHeld
<1>7. Position
  <2>1. <<last_shown>> \o <<>> = <<last_shown>>
    BY <1>3, LineByte, EmptyJoins DEF Types
  <2>2. LastOf(<<last_shown>>) = last_shown
    BY DEF LastOf
  <2>3. last_shown = "lf"
    BY DEF Init
  <2> QED BY <1>4, <2>1, <2>2, <2>3 DEF Position, DetectorHeld
<1>8. Staleness
  BY DEF Init, Staleness
<1>9. Between
  BY <1>3, <1>6, <1>7, <1>8 DEF Between
<1>10. status \in {"open", "closed", "failed"}
  BY DEF Init
<1> QED BY <1>1, <1>9, <1>10 DEF Inv

\* A step of the display that the abstract specification allows.
ExactStep == Exact!Close \/ Exact!Idle \/ \E chunk \in Chunks : Exact!Receive(chunk)

\* What a cancellation costs in a step.
Costs ==
  cancelled =>
    /\ \A i \in DOMAIN shown' : shown'[i].how = "rendered" =>
         \E j \in 1..(i - 1) : shown'[j].how = "fallback"
    /\ (\E i \in DOMAIN shown' : shown'[i].how \in {"rendered", "fallback"}) => ~cancelled'

\* A call that began cancelled pays for it with its first block.
LEMMA CallCosts ==
  ASSUME cancelled, NEW p, NEW text, NEW outcome, NEW n, Spent(p, cancelled),
         Len(p.writes) \in Nat,
         Committed(p, text, outcome, n), cancelled' = p.cancelled
  PROVE  Costs
<1>1. shown' \in Seq(ShownPieces) /\ Len(shown') = n /\ n \in 0..Len(p.writes)
      /\ \A i \in 1..n : shown'[i].how = p.writes[i].how
  BY DEF Committed, Noted
<1>2. DOMAIN shown' = 1..n /\ \A i \in 1..n : i \in 1..Len(p.writes)
  BY <1>1, LenProperties
<1>3. ASSUME NEW i \in 1..n, shown'[i].how = "rendered"
      PROVE  \E j \in 1..(i - 1) : shown'[j].how = "fallback"
  <2>1. PICK j \in 1..(i - 1) : p.writes[j].how = "fallback"
    BY <1>1, <1>2, <1>3 DEF Spent
  <2>2. j \in 1..n
    BY <1>1
  <2> QED BY <1>1, <2>1, <2>2
<1>4. ASSUME NEW i \in 1..n, shown'[i].how \in {"rendered", "fallback"}
      PROVE  ~cancelled'
  BY <1>1, <1>2, <1>4 DEF Spent
<1> QED BY <1>2, <1>3, <1>4 DEF Costs

\* The abstract specification reads texts as the pipeline does.
LEMMA SameTexts == \A pieces : Exact!TextOf(pieces) = TextOf(pieces)
BY DEF Exact!TextOf, TextOf

\* A read,
LEMMA FeedStep ==
  ASSUME Inv, NEW chunk \in Chunks, Feed(chunk)
  PROVE  Inv' /\ Exact!Receive(chunk) /\ Costs
<1>1. chunk \in Seq(Byte)
  BY TextAssumption
<1>2. Between /\ status = "open"
  BY DEF Feed, Inv
<1>3. PICK renders \in Renders : Commit(FeedResult(chunk, renders), owed \o chunk, "open")
  BY DEF Feed
<1>4. PICK p, h, text, l : /\ p = FeedResult(chunk, renders) /\ h = GateFeed(gate, chunk).gate
                           /\ text = owed \o chunk /\ l = last_shown
  OBVIOUS
<1>5. Called(p, h, l, cancelled, text)
  BY <1>1, <1>2, <1>4, FeedSays
<1>6. Commit(p, text, "open")
  BY <1>3, <1>4
<1>7. PICK t \in Seq(Byte) : text = t \o GateHeld(h) /\ Works(p, l, cancelled, t)
  BY <1>5 DEF Called
<1>8. Fields(p) /\ Given(p.writes, l, p.enabled) /\ StartsWith(t, TextOf(p.writes))
  BY <1>7 DEF Works
<1>9. text \in Seq(Byte)
  BY <1>1, <1>2, <1>4, OwedText, ConcatProperties
<1>10. StartsWith(text, TextOf(p.writes))
  BY <1>7, <1>8, WritesText, HeldIsText, StartsMore
<1>11. OldBytes(p) \in {0, 1} /\ (OldBytes(p) = 1 => text # <<>> /\ text[1] = "cr")
  BY <1>1, <1>2, <1>4, OldBeginsText
<1>12. last_shown \in Byte /\ p.failed \in BOOLEAN
  BY <1>2, <1>8, FieldsAre DEF Between, Types
<1>13. PICK n \in 0..Len(p.writes) : Committed(p, text, "open", n)
  <2>1. Given(p.writes, last_shown, p.enabled)
    BY <1>4, <1>8
  <2> QED BY <1>6, <1>9, <1>10, <1>11, <1>12, <2>1, CommitSays
<1>14. TextOf(shown') \o owed' = text
  BY <1>13 DEF Committed, Noted
<1>15. status' \in {"open", "failed"}
  BY <1>13 DEF Committed
<1>16. Exact!Receive(chunk)
  BY <1>2, <1>4, <1>14, <1>15, SameTexts DEF Exact!Receive, Exact!ShowFrom
<1>17. RenderedIsGenuineBlock' /\ NothingRenderedAcrossToggle'
  BY <1>13, ShownIsRight
<1>18. status' = "open" => Between'
  <2> SUFFICES ASSUME status' = "open" PROVE Between'
    OBVIOUS
  <2>1. ~p.failed /\ Noted(p, text, Len(p.writes))
    BY <1>13 DEF Committed
  <2>2. Called(p, h, last_shown, cancelled, text)
    BY <1>4, <1>5
  <2> QED BY <1>2, <1>6, <1>9, <2>1, <2>2, OpenAgain DEF Commit
<1>19. Costs
  <2> SUFFICES ASSUME cancelled PROVE Costs
    BY DEF Costs
  <2>1. Spent(p, cancelled) /\ cancelled' = p.cancelled
    BY <1>6, <1>7 DEF Works, Commit
  <2>2. Len(p.writes) \in Nat
    BY <1>8, LenProperties DEF Given
  <2> QED BY <1>13, <2>1, <2>2, CallCosts
<1> QED BY <1>15, <1>16, <1>17, <1>18, <1>19 DEF Inv

\* the end of the stream,
LEMMA FinishStep ==
  ASSUME Inv, Finish
  PROVE  Inv' /\ Exact!Close /\ Costs
<1>2. Between /\ status = "open"
  BY DEF Finish, Inv
<1>3. PICK renders \in Renders : Commit(FinishResult(renders), owed, "closed")
  BY DEF Finish
<1>4. PICK p, l : p = FinishResult(renders) /\ l = last_shown
  OBVIOUS
<1>5. Finished(p, l, cancelled, owed)
  BY <1>2, <1>4, FinishSays
<1>6. Commit(p, owed, "closed")
  BY <1>3, <1>4
<1>8. Fields(p) /\ Given(p.writes, last_shown, p.enabled) /\ StartsWith(owed, TextOf(p.writes))
  BY <1>4, <1>5 DEF Finished
<1>9. owed \in Seq(Byte)
  BY <1>2, OwedText
<1>11. OldBytes(p) \in {0, 1} /\ (OldBytes(p) = 1 => owed # <<>> /\ owed[1] = "cr")
  BY <1>2, OldSays
<1>12. last_shown \in Byte /\ p.failed \in BOOLEAN
  BY <1>2, <1>8, FieldsAre DEF Between, Types
<1>13. PICK n \in 0..Len(p.writes) : Committed(p, owed, "closed", n)
  BY <1>6, <1>8, <1>9, <1>11, <1>12, CommitSays
<1>14. TextOf(shown') \o owed' = owed
  BY <1>13 DEF Committed, Noted
<1>15. status' = "failed" \/ (status' = "closed" /\ owed' = <<>>)
  <2> SUFFICES ASSUME status' # "failed" PROVE status' = "closed" /\ owed' = <<>>
    OBVIOUS
  <2>1. status' = "closed" /\ ~p.failed /\ n = Len(p.writes)
    BY <1>13 DEF Committed
  <2>2. TextOf(shown') = TextOf(p.writes)
    BY <1>8, <1>13, <2>1, WritesHaveText, TextToIs DEF Committed, Noted, Given
  <2>3. TextOf(p.writes) = owed
    BY <1>5, <2>1 DEF Finished
  <2>4. owed \o owed' = owed \o <<>>
    BY <1>9, <1>14, <2>2, <2>3, EmptyJoins
  <2>5. owed' \in Seq(Byte) /\ <<>> \in Seq(Byte)
    BY <1>13 DEF Committed, Noted
  <2>6. owed' \in Seq(Byte)
    BY <2>5
  <2>7. <<>> \in Seq(Byte)
    OBVIOUS
  <2> QED BY <1>9, <2>1, <2>4, <2>6, <2>7, FrontCancels
<1>16. Exact!Close
  BY <1>2, <1>14, <1>15, SameTexts DEF Exact!Close, Exact!ShowFrom
<1>17. RenderedIsGenuineBlock' /\ NothingRenderedAcrossToggle'
  BY <1>13, ShownIsRight
<1>19. Costs
  <2> SUFFICES ASSUME cancelled PROVE Costs
    BY DEF Costs
  <2>1. Spent(p, cancelled) /\ cancelled' = p.cancelled
    BY <1>5, <1>6 DEF Finished, Commit
  <2>2. Len(p.writes) \in Nat
    BY <1>8, LenProperties DEF Given
  <2> QED BY <1>13, <2>1, <2>2, CallCosts
<1> QED BY <1>15, <1>16, <1>17, <1>19 DEF Inv

\* a toggle
LEMMA SetStep ==
  ASSUME Inv, NEW enabled \in BOOLEAN, SetRenderingEnabled(enabled)
  PROVE  Inv' /\ Exact!Idle /\ Costs
<1>1. shown' = <<>> /\ requested_rendering_enabled' \in BOOLEAN /\ status' = status
      /\ UNCHANGED <<gate, detector, rendering_enabled, safe_line_start,
                     passthrough_until_newline, cancelled, owed, stale, last_shown>>
  BY DEF SetRenderingEnabled
<1>2. RenderedIsGenuineBlock' /\ NothingRenderedAcrossToggle'
  BY <1>1 DEF RenderedIsGenuineBlock, NothingRenderedAcrossToggle
<1>3. Between => Between'
  BY <1>1 DEF Between, Types, Parsers, Position, Staleness
<1>4. Costs
  BY <1>1 DEF Costs
<1> QED BY <1>1, <1>2, <1>3, <1>4 DEF Inv, Exact!Idle

\* and a cancellation keep the invariant, and are steps of the abstract
\* specification.
LEMMA CancelStep ==
  ASSUME Inv, Cancel
  PROVE  Inv' /\ Exact!Idle /\ Costs
<1>1. shown' = <<>> /\ cancelled' \in BOOLEAN /\ status' = status
      /\ UNCHANGED <<gate, detector, rendering_enabled, requested_rendering_enabled, safe_line_start,
                     passthrough_until_newline, owed, stale, last_shown>>
  BY DEF Cancel
<1>2. RenderedIsGenuineBlock' /\ NothingRenderedAcrossToggle'
  BY <1>1 DEF RenderedIsGenuineBlock, NothingRenderedAcrossToggle
<1>3. Between => Between'
  BY <1>1 DEF Between, Types, Parsers, Position, Staleness
<1>4. Costs
  BY <1>1 DEF Costs
<1> QED BY <1>1, <1>2, <1>3, <1>4 DEF Inv, Exact!Idle

-----------------------------------------------------------------------------
\* The theorems.

\* So does every step.
LEMMA NextInv ==
  ASSUME Inv, Next
  PROVE  Inv' /\ ExactStep /\ Costs
<1>1. ASSUME NEW chunk \in Chunks, Feed(chunk) PROVE Inv' /\ ExactStep /\ Costs
  BY <1>1, FeedStep DEF ExactStep
<1>2. CASE Finish
  BY <1>2, FinishStep DEF ExactStep
<1>3. ASSUME NEW enabled \in BOOLEAN, SetRenderingEnabled(enabled) PROVE Inv' /\ ExactStep /\ Costs
  BY <1>3, SetStep DEF ExactStep
<1>4. CASE Cancel
  BY <1>4, CancelStep DEF ExactStep
<1> QED BY <1>1, <1>2, <1>3, <1>4 DEF Next

\* RenderedIsGenuineBlock of any pieces.
RightBlocks(pieces) ==
  \A i \in DOMAIN pieces : pieces[i].how = "rendered" =>
    pieces[i].after = "lf" /\ Genuine(pieces[i].bytes)

\* It is that of the pieces shown.
LEMMA RightIs == RenderedIsGenuineBlock <=> RightBlocks(shown)
BY DEF RenderedIsGenuineBlock, RightBlocks, Genuine

\* Nothing changed, nothing lost.
LEMMA StutterInv ==
  ASSUME Inv, UNCHANGED vars
  PROVE  Inv' /\ UNCHANGED <<owed, shown, status>>
<1>1. /\ status' = status /\ shown' = shown /\ rendering_enabled' = rendering_enabled
      /\ UNCHANGED <<gate, detector, requested_rendering_enabled, safe_line_start,
                     passthrough_until_newline, cancelled, owed, stale, last_shown>>
  BY DEF vars
<1>2. RenderedIsGenuineBlock => RenderedIsGenuineBlock'
  <2>1. RenderedIsGenuineBlock <=> RightBlocks(shown)
    BY RightIs
  <2>2. (RenderedIsGenuineBlock <=> RightBlocks(shown))'
    BY RightIs, PTL
  <2>3. RightBlocks(shown)' <=> RightBlocks(shown)
    BY <1>1
  <2> QED BY <2>1, <2>2, <2>3
<1>3. NothingRenderedAcrossToggle => NothingRenderedAcrossToggle'
  BY <1>1 DEF NothingRenderedAcrossToggle
<1>4. Between => Between'
  BY <1>1 DEF Between, Types, Parsers, Position, Staleness
<1> QED BY <1>1, <1>2, <1>3, <1>4 DEF Inv

(* In every state of every run the pieces shown are right, and a pipeline  *)
(* that is open holds its invariant between two calls: the parsers hold    *)
(* what is owed, without a control, and a detector that may open a block   *)
(* stands at the start of a line (feed, finish, set_rendering_enabled).    *)
THEOREM PipelineInvariant == Spec => []Inv
<1>1. Inv /\ [Next]_vars => Inv'
  BY NextInv, StutterInv
<1> QED BY InitInv, <1>1, PTL DEF Spec

(* The pipeline implements the exact account: every byte received is shown *)
(* once and in order, as itself or inside the source of the block rendered *)
(* in its place; the end of the stream leaves nothing withheld, and only   *)
(* an error may leave bytes undisplayed (feed, finish, emit,               *)
(* emit_exact_source).                                                     *)
THEOREM DisplayIsExact == Spec => ImplementsExactDisplay
<1>1. Init => Exact!Init
  BY DEF Init, Exact!Init
<1>2. Inv /\ [Next]_vars => [Exact!Next]_<<owed, shown, status>>
  <2>1. ASSUME Inv, Next PROVE Exact!Next
    BY <2>1, NextInv DEF ExactStep, Exact!Next
  <2> QED BY <2>1, StutterInv
<1> QED BY PipelineInvariant, <1>1, <1>2, PTL DEF Spec, ImplementsExactDisplay, Exact!Spec

(* Whatever is shown rendered is the source of one complete block: it      *)
(* starts a line of the display, is opened by an opener line, ends with    *)
(* the first line that is its fence, is within the size bound and holds no *)
(* control (FencedDetector behind TerminalOutputGate,                      *)
(* emit_renderable_text).                                                  *)
THEOREM OnlyGenuineBlocksRendered == Spec => []RenderedIsGenuineBlock
<1>1. Inv => RenderedIsGenuineBlock
  BY DEF Inv
<1> QED BY PipelineInvariant, <1>1, PTL

(* A block shown rendered was received whole since rendering was last      *)
(* enabled, and nothing is rendered while it is paused, whatever is        *)
(* toggled between which reads (apply_rendering_state, emit_segments).     *)
THEOREM NoBlockSpansToggle == Spec => []NothingRenderedAcrossToggle
<1>1. Inv => NothingRenderedAcrossToggle
  BY DEF Inv
<1> QED BY PipelineInvariant, <1>1, PTL

\* No control is withheld but a carriage return whose successor decides.
WithheldClean(w) ==
  \A k \in DOMAIN w : IsUnsafeControl(w[k]) => w[k] = "cr" /\ (k = Len(w) \/ w[k + 1] = "lf")

\* What a detector and a gate hold is such.
LEMMA WithheldIsClean ==
  ASSUME NEW b \in Seq(Byte), Clean(b), NEW g
  PROVE  WithheldClean(b \o GateHeld(g))
<1>0. PICK w : w = b \o GateHeld(g)
  OBVIOUS
<1>1. PICK n, h, m : n = Len(b) /\ h = GateHeld(g) /\ m = Len(h)
  OBVIOUS
<1>2. h \in Seq(Byte) /\ (h = <<>> \/ h = <<"cr">>)
  BY <1>1, HeldIsText DEF GateHeld
<1>3. h \in Seq(Byte)
  BY <1>2
<1>4. n \in Nat /\ m \in {0, 1} /\ (m = 1 => h[1] = "cr")
  BY <1>1, <1>2, LenProperties
<1>5. /\ w \in Seq(Byte) /\ Len(w) = n + m
      /\ \A i \in 1..n : w[i] = b[i]
      /\ \A j \in 1..m : w[n + j] = h[j]
  BY <1>0, <1>1, <1>3, JoinIs
<1>6. ASSUME NEW k \in 1..(n + m), IsUnsafeControl(w[k])
      PROVE  w[k] = "cr" /\ (k = n + m \/ w[k + 1] = "lf")
  <2>1. CASE k <= n
    <3>1. k \in 1..n /\ w[k] = b[k]
      BY <1>4, <1>5, <1>6, <2>1
    <3>2. b[k] = "cr" /\ k < n /\ b[k + 1] = "lf"
      BY <1>1, <1>6, <3>1 DEF Clean, BytesClean
    <3>3. k + 1 \in 1..n
      BY <1>4, <3>1, <3>2
    <3> QED BY <1>5, <3>1, <3>2, <3>3
  <2>2. CASE ~(k <= n)
    <3>1. k = n + 1 /\ m = 1
      BY <1>4, <2>2
    <3> QED BY <1>4, <1>5, <3>1
  <2> QED BY <2>1, <2>2
<1>7. DOMAIN w = 1..(n + m)
  BY <1>5, LenProperties
<1> QED BY <1>0, <1>5, <1>6, <1>7 DEF WithheldClean

(* What is withheld between two calls is what the detector and the gate    *)
(* retain, in that order; no control is withheld but a carriage return     *)
(* whose successor decides, and a paused pipeline withholds no more than   *)
(* that (apply_rendering_state, emit_segments).                            *)
THEOREM NothingElseWithheld == Spec => []OnlyParsersWithhold
<1>1. Inv => OnlyParsersWithhold
  <2> SUFFICES ASSUME Inv, status = "open"
               PROVE  /\ owed = DetectorHeld(detector) \o GateHeld(gate)
                      /\ rendering_enabled \/ DetectorHeld(detector) = <<>>
                      /\ WithheldClean(owed)
    BY DEF OnlyParsersWithhold, WithheldClean
  <2>1. Between
    BY DEF Inv
  <2>2. DetectorHeld(detector) \in Seq(Byte)
    BY <2>1, StartSays
  <2>3. Clean(DetectorHeld(detector)) /\ owed = DetectorHeld(detector) \o GateHeld(gate)
    BY <2>1 DEF Between, Parsers
  <2>4. rendering_enabled \/ DetectorHeld(detector) = <<>>
    BY <2>1 DEF Between, Parsers, DetectorHeld, LineStart
  <2>5. WithheldClean(DetectorHeld(detector) \o GateHeld(gate))
    BY <2>2, <2>3, WithheldIsClean
  <2> QED BY <2>3, <2>4, <2>5
<1> QED BY PipelineInvariant, <1>1, PTL

(* A cancellation from before a call costs the first block the call        *)
(* resolves, which is shown as its source, and no later one (emit).        *)
THEOREM CancellationCost == Spec => CancellationCostsOneBlock
<1>1. Inv /\ [Next]_vars => [Costs]_vars
  BY NextInv
<1> QED BY PipelineInvariant, <1>1, PTL DEF Spec, CancellationCostsOneBlock, Costs
================================================================================
