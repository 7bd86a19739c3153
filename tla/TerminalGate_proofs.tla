-------------------------- MODULE TerminalGate_proofs --------------------------
(***************************************************************************)
(* What the terminal gate says of every byte of any input, cut into chunks *)
(* anywhere, for every bound on the length of a control sequence.          *)
(*                                                                         *)
(* The reference (BelongsToPlainLine) looks at the whole input; the gate   *)
(* has four flags and a parser. The argument: what the flags must say      *)
(* after n bytes is stated of the input (Dead, Alt, Dirty, and At for the  *)
(* gate), one byte at a time (NextByte), and ProcessByte keeps it          *)
(* (ProcessedIsAt). A carriage return is the one byte that may be settled  *)
(* only by the next: the gate holds it exactly when the flags can not      *)
(* tell, so the invariant (Rest) has two shapes, with and without a held   *)
(* byte, and what was said before stays true whatever follows (AtStays,    *)
(* SafeStays). GateFeed is a recursive function: a run of it exists by     *)
(* induction (RunExists) and keeps Rest byte after byte (ChunkGoes). Last, *)
(* the reference says of each byte what the flags' meaning does            *)
(* (PlainLineIs).                                                          *)
(***************************************************************************)
EXTENDS TerminalGate, SequenceTheorems, WellFoundedInduction, TLAPS

-----------------------------------------------------------------------------
\* Recursion over the naturals.

\* A set that has 0 and the successors of its numbers has them all.
LEMMA SetInduction ==
  ASSUME NEW S, 0 \in S, \A n \in Nat : n \in S => n + 1 \in S
  PROVE  Nat \subseteq S
<1> DEFINE T == Nat \ S
           R == {ss \in Nat \X Nat : ss[1] < ss[2]}
<1> SUFFICES ASSUME T # {} PROVE FALSE
  OBVIOUS
<1>1. IsWellFoundedOn(R, Nat)
  BY NatLessThanWellFounded DEF OpToRel
<1>2. PICK m \in T : \A k \in T : ~ (<<k, m>> \in R)
  <2>1. T \subseteq Nat
    OBVIOUS
  <2> HIDE DEF T, R
  <2> QED BY <1>1, <2>1, WFMin
<1>3. m \in Nat /\ m # 0
  OBVIOUS
<1>4. m - 1 \in Nat /\ m - 1 + 1 = m
  BY <1>3
<1>5. m - 1 \in T
  BY <1>4
<1>6. <<m - 1, m>> \in R
  BY <1>3, <1>4
<1> QED BY <1>2, <1>5, <1>6

\* A run of n steps, of which step[i] is the i-th.
IsRun(S, base, n, step, g) ==
  g \in [0..n -> S] /\ g[0] = base /\ \A i \in 1..n : g[i] = step[i][g[i - 1]]

\* There is one for all of them.
LEMMA RunExists ==
  ASSUME NEW S, NEW base \in S, NEW n \in Nat, NEW step \in [1..n -> [S -> S]]
  PROVE  \E g : IsRun(S, base, n, step, g)
<1> DEFINE Good(k) == \E g \in [0..k -> S] :
                        g[0] = base /\ \A i \in 1..k : g[i] = step[i][g[i - 1]]
<1>1. Good(0)
  <2> DEFINE g == [i \in 0..0 |-> base]
  <2>1. g \in [0..0 -> S] /\ g[0] = base /\ \A i \in 1..0 : g[i] = step[i][g[i - 1]]
    OBVIOUS
  <2> HIDE DEF g
  <2> QED BY <2>1
<1>2. ASSUME NEW k \in Nat, k + 1 <= n, Good(k) PROVE Good(k + 1)
  <2>1. PICK g \in [0..k -> S] : g[0] = base /\ \A i \in 1..k : g[i] = step[i][g[i - 1]]
    BY <1>2
  <2> DEFINE h == [i \in 0..(k + 1) |-> IF i <= k THEN g[i] ELSE step[k + 1][g[k]]]
  <2>2. step[k + 1][g[k]] \in S
    <3>1. k + 1 \in 1..n /\ g[k] \in S
      BY <1>2, <2>1
    <3>2. step[k + 1] \in [S -> S]
      BY <3>1
    <3> QED BY <3>1, <3>2
  <2>3. h \in [0..(k + 1) -> S]
    BY <2>1, <2>2
  <2>4. h[0] = base
    BY <2>1
  <2>5. \A i \in 1..(k + 1) : h[i] = step[i][h[i - 1]]
    <3> TAKE i \in 1..(k + 1)
    <3>1. CASE i <= k
      BY <2>1, <3>1
    <3>2. CASE i = k + 1
      BY <3>2
    <3> QED BY <3>1, <3>2
  <2> QED BY <2>3, <2>4, <2>5
<1> DEFINE T == {k \in Nat : k <= n => Good(k)}
<1> HIDE DEF Good
<1>3. 0 \in T
  BY <1>1
<1>4. \A k \in Nat : k \in T => k + 1 \in T
  BY <1>2
<1>5. Nat \subseteq T
  <2> HIDE DEF T
  <2> QED BY <1>3, <1>4, SetInduction
<1>6. Good(n)
  BY <1>5
<1> QED BY <1>6 DEF Good, IsRun

-----------------------------------------------------------------------------
\* The control parser.

\* The states of the parser, the events, and both together.
Parsers ==
  ParserType \cup {Csi(c) : c \in {c \in Seq(Byte) : Len(c) \in 2..MaxControl}}
Events == {"none", "enter", "leave", "overflow"}
Steps == [parser : Parsers, event : Events]

\* A control sequence closes or overflows only if it was open, and opens only at ESC.
LEMMA FeedIs ==
  ASSUME NEW p \in Parsers, NEW b \in Byte
  PROVE  LET r == ControlParserFeed(p, b)
         IN /\ r \in Steps
            /\ IsGround(p) => r.event = "none"
            /\ IsGround(p) /\ b # "esc" => IsGround(r.parser)
<1>1. PICK r : r = ControlParserFeed(p, b)
  OBVIOUS
<1>2. CASE p = Ground
  <2>1. p.st = "ground"
    BY <1>2 DEF Ground
  <2>2. r = Parsed(IF b = "esc" THEN Escape ELSE p, "none")
    BY <1>1, <2>1 DEF ControlParserFeed
  <2> QED BY <1>1, <1>2, <2>1, <2>2 DEF Parsed, Steps, Events, Parsers, ParserType, IsGround
<1>3. CASE p = Escape
  <2>1. p.st = "escape"
    BY <1>3 DEF Escape
  <2>2. r = Parsed(CASE b = "lbr" -> Csi(<<"esc", "lbr">>)
                  [] b = "rbr" -> Osc(FALSE)
                  [] b = "dcs" -> StringControl(FALSE)
                  [] b = "esc" -> Escape
                  [] OTHER -> Ground, "none")
    BY <1>1, <2>1 DEF ControlParserFeed
  <2>3. <<"esc", "lbr">> \in Seq(Byte) /\ Len(<<"esc", "lbr">>) \in 2..MaxControl
    BY MaxControlAssumption DEF Byte, Final
  <2>4. Csi(<<"esc", "lbr">>) \in Parsers
    BY <2>3 DEF Parsers
  <2>5. Osc(FALSE) \in Parsers /\ StringControl(FALSE) \in Parsers
        /\ Escape \in Parsers /\ Ground \in Parsers
    BY DEF Parsers, ParserType
  <2>6. r.parser \in Parsers /\ r.event = "none" /\ r = [parser |-> r.parser, event |-> r.event]
    BY <2>2, <2>4, <2>5 DEF Parsed
  <2> QED BY <1>1, <2>1, <2>6 DEF Steps, Events, IsGround
<1>4. CASE \E c \in Seq(Byte) : Len(c) \in 2..MaxControl /\ p = Csi(c)
  <2>1. PICK c \in Seq(Byte) : Len(c) \in 2..MaxControl /\ p = Csi(c)
    BY <1>4
  <2>2. p.st = "csi" /\ p.bytes = c
    BY <2>1 DEF Csi
  <2>3. PICK d : d = Append(c, b)
    OBVIOUS
  <2>4. r = IF ControlFull(c) THEN Parsed(Ground, "overflow")
            ELSE IF b \in Final THEN Parsed(Ground, AlternateScreenEvent(d))
            ELSE Parsed(Csi(d), "none")
    BY <1>1, <2>2, <2>3 DEF ControlParserFeed
  <2>5. d \in Seq(Byte) /\ Len(d) = Len(c) + 1
    BY <2>3, AppendProperties
  <2>6. ~ControlFull(c) => Csi(d) \in Parsers
    BY <2>1, <2>5, MaxControlAssumption DEF Parsers, ControlFull
  <2>7. AlternateScreenEvent(d) \in Events
    BY DEF AlternateScreenEvent, Events
  <2>8. Ground \in Parsers
    BY DEF Parsers, ParserType
  <2>9. r \in Steps
    BY <2>4, <2>6, <2>7, <2>8 DEF Parsed, Steps, Events
  <2> QED BY <1>1, <2>2, <2>9 DEF IsGround
<1>5. ASSUME NEW e \in BOOLEAN, p \in {Osc(e), StringControl(e)}, p.st \in {"osc", "string"},
             NEW endings, r = InString(p, b, endings),
             \A f \in BOOLEAN : [p EXCEPT !.escaped = f] \in Parsers
      PROVE  r \in Steps
  <2>1. (b = "esc") \in BOOLEAN
    OBVIOUS
  <2>2. Ground \in Parsers
    BY DEF Parsers, ParserType
  <2> QED BY <1>5, <2>1, <2>2 DEF InString, Parsed, Steps, Events
<1>6. CASE \E e \in BOOLEAN : p = Osc(e)
  <2>1. PICK e \in BOOLEAN : p = Osc(e)
    BY <1>6
  <2>2. p.st = "osc" /\ \A f \in BOOLEAN : [p EXCEPT !.escaped = f] = Osc(f)
    BY <2>1 DEF Osc
  <2>3. r = InString(p, b, {"bel"})
    BY <1>1, <2>2 DEF ControlParserFeed
  <2>4. \A f \in BOOLEAN : Osc(f) \in Parsers
    BY DEF Parsers, ParserType
  <2>5. r \in Steps
    BY <1>5, <2>1, <2>2, <2>3, <2>4
  <2> QED BY <1>1, <2>2, <2>5 DEF IsGround
<1>7. CASE \E e \in BOOLEAN : p = StringControl(e)
  <2>1. PICK e \in BOOLEAN : p = StringControl(e)
    BY <1>7
  <2>2. p.st = "string" /\ \A f \in BOOLEAN : [p EXCEPT !.escaped = f] = StringControl(f)
    BY <2>1 DEF StringControl
  <2>3. r = InString(p, b, {})
    BY <1>1, <2>2 DEF ControlParserFeed
  <2>4. \A f \in BOOLEAN : StringControl(f) \in Parsers
    BY DEF Parsers, ParserType
  <2>5. r \in Steps
    BY <1>5, <2>1, <2>2, <2>3, <2>4
  <2> QED BY <1>1, <2>2, <2>5 DEF IsGround
<1> QED BY <1>2, <1>3, <1>4, <1>6, <1>7 DEF Parsers, ParserType

-----------------------------------------------------------------------------
\* ProcessByte, and what there is to say of the input.

\* The gates, and what one says of a byte.
Gates == [raw_until_newline : BOOLEAN, alternate_screen : BOOLEAN,
          pending_carriage_return : BOOLEAN, parser_fail_closed : BOOLEAN, parser : Parsers]
Segments == [raw : BOOLEAN, byte : Byte]

\* The fields of a gate.
LEMMA GateIs ==
  ASSUME NEW g \in Gates
  PROVE  /\ g.raw_until_newline \in BOOLEAN /\ g.alternate_screen \in BOOLEAN
         /\ g.pending_carriage_return \in BOOLEAN /\ g.parser_fail_closed \in BOOLEAN
         /\ g.parser \in Parsers
         /\ g = [raw_until_newline |-> g.raw_until_newline,
                 alternate_screen |-> g.alternate_screen,
                 pending_carriage_return |-> g.pending_carriage_return,
                 parser_fail_closed |-> g.parser_fail_closed, parser |-> g.parser]
  BY DEF Gates

\* What ProcessByte makes of the gate.
Processed(g, b, f, h) ==
  /\ h \in Gates
  /\ h.parser = f.parser
  /\ h.parser_fail_closed <=> (g.parser_fail_closed \/ f.event = "overflow")
  /\ h.alternate_screen <=>
       (IF f.event \in {"enter", "leave"} THEN f.event = "enter" ELSE g.alternate_screen)
  /\ h.pending_carriage_return = g.pending_carriage_return
  /\ h.raw_until_newline <=>
       /\ g.raw_until_newline \/ IsUnsafeControl(b) \/ f.event # "none"
       /\ ~(b = "lf" /\ ~h.parser_fail_closed /\ ~h.alternate_screen /\ IsGround(f.parser))

\* It is what ProcessByte returns, with one segment.
LEMMA ProcessIs ==
  ASSUME NEW g \in Gates, NEW b \in Byte
  PROVE  LET f == ControlParserFeed(g.parser, b)
             r == ProcessByte(g, b)
         IN /\ Processed(g, b, f, r.gate)
            /\ r.segments = <<Segment(~OnPlainLine(g) \/ IsUnsafeControl(b), b)>>
<1>1. PICK f : f = ControlParserFeed(g.parser, b)
  OBVIOUS
<1>2. f.parser \in Parsers
  BY <1>1, FeedIs, GateIs DEF Steps
<1>3. PICK failed \in BOOLEAN : failed = (g.parser_fail_closed \/ f.event = "overflow")
  OBVIOUS
<1>4. PICK alt \in BOOLEAN : alt = (IF f.event \in {"enter", "leave"} THEN f.event = "enter"
                                    ELSE g.alternate_screen)
  <2>1. (IF f.event \in {"enter", "leave"} THEN f.event = "enter" ELSE g.alternate_screen)
          \in BOOLEAN
    BY GateIs
  <2> QED BY <2>1
<1>5. PICK raw \in BOOLEAN :
        raw = (Tainted(g, b, f.event)
               /\ ~(b = "lf" /\ ~failed /\ ~alt /\ IsGround(f.parser)))
  OBVIOUS
<1>6. PICK h : h = [g EXCEPT !.parser = f.parser, !.parser_fail_closed = failed,
                             !.alternate_screen = alt, !.raw_until_newline = raw]
  OBVIOUS
<1>7. ProcessByte(g, b) =
        Gated(h, <<Segment(~OnPlainLine(g) \/ IsUnsafeControl(b), b)>>)
  BY <1>1, <1>3, <1>4, <1>5, <1>6, Zenon DEF ProcessByte
<1>8. h = [raw_until_newline |-> raw, alternate_screen |-> alt,
           pending_carriage_return |-> g.pending_carriage_return,
           parser_fail_closed |-> failed, parser |-> f.parser]
  <2>1. PICK parser, pending : parser = f.parser /\ pending = g.pending_carriage_return
    OBVIOUS
  <2>2. h = [g EXCEPT !.parser = parser, !.parser_fail_closed = failed,
                      !.alternate_screen = alt, !.raw_until_newline = raw]
    BY <1>6, <2>1
  <2>3. PICK raw0, alt0, failed0, parser0 :
          g = [raw_until_newline |-> raw0, alternate_screen |-> alt0,
               pending_carriage_return |-> pending, parser_fail_closed |-> failed0,
               parser |-> parser0]
    BY <2>1, GateIs
  <2>4. h = [raw_until_newline |-> raw, alternate_screen |-> alt,
             pending_carriage_return |-> pending,
             parser_fail_closed |-> failed, parser |-> parser]
    BY <2>2, <2>3
  <2> QED BY <2>1, <2>4
<1>9. h \in Gates
  BY <1>2, <1>8, GateIs DEF Gates
<1>10. /\ h.parser = f.parser /\ h.parser_fail_closed = failed /\ h.alternate_screen = alt
       /\ h.pending_carriage_return = g.pending_carriage_return /\ h.raw_until_newline = raw
  BY <1>8
<1>11. Processed(g, b, f, h)
  BY <1>3, <1>4, <1>5, <1>9, <1>10 DEF Processed, Tainted
<1> QED BY <1>1, <1>7, <1>11 DEF Gated

\* A byte string and its scan.
Scanned(bs, s) ==
  /\ s \in [0..Len(bs) -> Steps]
  /\ s[0] = Parsed(Ground, "none")
  /\ \A n \in 1..Len(bs) : s[n] = ControlParserFeed(s[n - 1].parser, bs[n])

\* What there is to say of the first n bytes: an overflow, the alternate
\* screen, a line with a control on it that no later byte can make half of a
\* line ending.
Dead(s, n) == \E k \in 1..n : s[k].event = "overflow"
Switch(s, n) == s[n].event \in {"enter", "leave"}
Alt(s, n) ==
  \E k \in 1..n : s[k].event = "enter" /\ \A j \in (k + 1)..n : ~Switch(s, j)
LineEnds(bs, s, n) == bs[n] = "lf" /\ IsGround(s[n].parser) /\ ~Alt(s, n)
Settled(bs, n) ==
  IsUnsafeControl(bs[n]) /\ (bs[n] = "cr" => n < Len(bs) /\ bs[n + 1] # "lf")
Dirty(bs, s, n) ==
  \E k \in 1..n : Settled(bs, k) /\ \A j \in k..n : ~LineEnds(bs, s, j)

\* Nothing was said of no bytes.
LEMMA NothingYet ==
  ASSUME NEW bs, NEW s
  PROVE  ~Dead(s, 0) /\ ~Alt(s, 0) /\ ~Dirty(bs, s, 0)
  BY DEF Dead, Alt, Dirty

\* What one byte adds.
LEMMA NextByte ==
  ASSUME NEW bs, NEW s, NEW n \in Nat
  PROVE  /\ Dead(s, n + 1) <=> (Dead(s, n) \/ s[n + 1].event = "overflow")
         /\ Alt(s, n + 1) <=>
              (IF Switch(s, n + 1) THEN s[n + 1].event = "enter" ELSE Alt(s, n))
         /\ Dirty(bs, s, n + 1) <=>
              (~LineEnds(bs, s, n + 1) /\ (Dirty(bs, s, n) \/ Settled(bs, n + 1)))
<1>1. \A k : k \in 1..(n + 1) <=> (k \in 1..n \/ k = n + 1)
  OBVIOUS
<1>2. \A k \in 1..n : \A j : j \in (k + 1)..(n + 1) <=> (j \in (k + 1)..n \/ j = n + 1)
  OBVIOUS
<1>3. \A k \in 1..n : \A j : j \in k..(n + 1) <=> (j \in k..n \/ j = n + 1)
  OBVIOUS
<1>4. /\ \A j : j \notin (n + 1 + 1)..(n + 1)
      /\ \A j : j \in (n + 1)..(n + 1) <=> j = n + 1
  OBVIOUS
<1>5. Dead(s, n + 1) <=> (Dead(s, n) \/ s[n + 1].event = "overflow")
  BY <1>1 DEF Dead
<1>6. Alt(s, n + 1) <=>
        (IF Switch(s, n + 1) THEN s[n + 1].event = "enter" ELSE Alt(s, n))
  <2>1. CASE Switch(s, n + 1)
    BY <1>1, <1>2, <1>4, <2>1 DEF Alt
  <2>2. CASE ~Switch(s, n + 1)
    <3>1. s[n + 1].event # "enter"
      BY <2>2 DEF Switch
    <3> QED BY <1>1, <1>2, <2>2, <3>1 DEF Alt
  <2> QED BY <2>1, <2>2
<1>7. Dirty(bs, s, n + 1) <=>
        (~LineEnds(bs, s, n + 1) /\ (Dirty(bs, s, n) \/ Settled(bs, n + 1)))
  <2>1. ASSUME Dirty(bs, s, n + 1)
        PROVE  ~LineEnds(bs, s, n + 1) /\ (Dirty(bs, s, n) \/ Settled(bs, n + 1))
    <3>1. PICK k \in 1..(n + 1) : Settled(bs, k) /\ \A j \in k..(n + 1) : ~LineEnds(bs, s, j)
      BY <2>1 DEF Dirty
    <3>2. CASE k \in 1..n
      BY <1>3, <3>1, <3>2 DEF Dirty
    <3>3. CASE k = n + 1
      BY <1>4, <3>1, <3>3
    <3> QED BY <1>1, <3>1, <3>2, <3>3
  <2>2. ASSUME ~LineEnds(bs, s, n + 1), Dirty(bs, s, n) PROVE Dirty(bs, s, n + 1)
    BY <1>1, <1>3, <2>2 DEF Dirty
  <2>3. ASSUME ~LineEnds(bs, s, n + 1), Settled(bs, n + 1) PROVE Dirty(bs, s, n + 1)
    <3>1. n + 1 \in 1..(n + 1)
      BY <1>1
    <3> QED BY <1>4, <2>3, <3>1 DEF Dirty
  <2> QED BY <2>1, <2>2, <2>3
<1> QED BY <1>5, <1>6, <1>7

-----------------------------------------------------------------------------
\* The scan of the input.

\* The scan starts in the ground state.
LEMMA GroundIsAStep == Parsed(Ground, "none") \in Steps
  BY DEF Parsed, Steps, Events, Parsers, ParserType

\* Every byte string has a scan.
LEMMA ScanExists ==
  ASSUME NEW bs \in Seq(Byte)
  PROVE  \E s : Scanned(bs, s)
<1> DEFINE n == Len(bs)
           step == [i \in 1..n |-> [x \in Steps |-> ControlParserFeed(x.parser, bs[i])]]
<1>1. n \in Nat /\ \A i \in 1..n : bs[i] \in Byte
  BY LenProperties, ElementOfSeq
<1>2. \A x \in Steps : x.parser \in Parsers
  BY DEF Steps
<1>3. \A p \in Parsers, b \in Byte : ControlParserFeed(p, b) \in Steps
  BY FeedIs
<1>4. step \in [1..n -> [Steps -> Steps]]
  BY <1>1, <1>2, <1>3
<1> PICK base : base = Parsed(Ground, "none")
  OBVIOUS
<1>5. PICK g : IsRun(Steps, base, n, step, g)
  <2> HIDE DEF n, step
  <2>1. base \in Steps
    BY GroundIsAStep
  <2> QED BY <1>1, <1>4, <2>1, RunExists
<1>6. ASSUME NEW i \in 1..n PROVE g[i] = ControlParserFeed(g[i - 1].parser, bs[i])
  <2>1. i - 1 \in 0..n /\ g[i - 1] \in Steps
    BY <1>1, <1>5 DEF IsRun
  <2>2. step[i] = [x \in Steps |-> ControlParserFeed(x.parser, bs[i])]
    OBVIOUS
  <2>3. g[i] = step[i][g[i - 1]]
    BY <1>5 DEF IsRun
  <2> QED BY <2>1, <2>2, <2>3
<1>7. g \in [0..n -> Steps] /\ g[0] = base
  BY <1>5 DEF IsRun
<1> QED BY <1>6, <1>7 DEF Scanned

\* The recursive function Scan is one of the bytes fed.
LEMMA ScanIs ==
  ASSUME fed \in Seq(Byte)
  PROVE  Scanned(fed, Scan)
<1> DEFINE n == Len(fed)
           scan[i \in 0..Len(fed)] ==
             IF i = 0 THEN Parsed(Ground, "none")
             ELSE ControlParserFeed(scan[i - 1].parser, fed[i])
<1> PICK base : base = Parsed(Ground, "none")
  OBVIOUS
<1>1. n \in Nat /\ \A i \in 1..n : fed[i] \in Byte
  BY LenProperties, ElementOfSeq
<1>2. PICK g : Scanned(fed, g)
  BY ScanExists
<1>3. g = [i \in 0..n |-> IF i = 0 THEN base ELSE ControlParserFeed(g[i - 1].parser, fed[i])]
  BY <1>1, <1>2 DEF Scanned
<1>4. scan = [i \in 0..n |->
                IF i = 0 THEN base ELSE ControlParserFeed(scan[i - 1].parser, fed[i])]
  BY <1>3
<1>5. Scan = scan
  BY DEF Scan
<1> HIDE DEF scan
<1>6. scan[0] = base /\ \A i \in 1..n : scan[i] = ControlParserFeed(scan[i - 1].parser, fed[i])
  <2>1. PICK r, m : r = scan /\ m = n
    OBVIOUS
  <2>2. /\ m \in Nat
        /\ r = [i \in 0..m |-> IF i = 0 THEN base ELSE ControlParserFeed(r[i - 1].parser, fed[i])]
    BY <1>1, <1>4, <2>1
  <2>3. r[0] = base
    BY <2>2
  <2>4. \A i \in 1..m : r[i] = ControlParserFeed(r[i - 1].parser, fed[i])
    BY <2>2
  <2> QED BY <2>1, <2>3, <2>4
<1> DEFINE Typed == {i \in Nat : i <= n => scan[i] \in Steps}
<1>7. 0 \in Typed
  BY <1>6, GroundIsAStep
<1>8. \A i \in Nat : i \in Typed => i + 1 \in Typed
  <2> TAKE i \in Nat
  <2> SUFFICES ASSUME i + 1 <= n, scan[i] \in Steps PROVE scan[i + 1] \in Steps
    BY <1>1
  <2>1. i + 1 \in 1..n /\ i + 1 - 1 = i
    BY <1>1
  <2>2. scan[i].parser \in Parsers /\ fed[i + 1] \in Byte
    BY <1>1, <2>1 DEF Steps
  <2>3. scan[i + 1] = ControlParserFeed(scan[i].parser, fed[i + 1])
    BY <1>6, <2>1
  <2> QED BY <2>2, <2>3, FeedIs
<1>9. Nat \subseteq Typed
  <2> HIDE DEF Typed
  <2> QED BY <1>7, <1>8, SetInduction
<1>10. scan \in [0..n -> Steps]
  <2>1. \A i \in 0..n : scan[i] \in Steps
    BY <1>1, <1>9
  <2>2. scan = [i \in 0..n |-> scan[i]]
    BY <1>4
  <2> HIDE DEF Typed
  <2> QED BY <2>1, <2>2
<1> QED BY <1>5, <1>6, <1>10 DEF Scanned

\* The first bytes of a byte string.
Begins(bs, cs) == Len(bs) <= Len(cs) /\ \A n \in 1..Len(bs) : cs[n] = bs[n]

\* Bytes that follow change no step of the scan.
LEMMA ScanGoesOn ==
  ASSUME NEW bs \in Seq(Byte), NEW cs \in Seq(Byte), Begins(bs, cs),
         NEW s, Scanned(bs, s), NEW t, Scanned(cs, t)
  PROVE  \A n \in 0..Len(bs) : t[n] = s[n]
<1> DEFINE Same == {n \in Nat : n <= Len(bs) => t[n] = s[n]}
<1>1. Len(bs) \in Nat /\ Len(cs) \in Nat /\ Len(bs) <= Len(cs)
  BY LenProperties DEF Begins
<1>2. 0 \in Same
  BY DEF Scanned
<1>3. \A n \in Nat : n \in Same => n + 1 \in Same
  <2> TAKE n \in Nat
  <2> SUFFICES ASSUME n + 1 <= Len(bs), t[n] = s[n] PROVE t[n + 1] = s[n + 1]
    BY <1>1
  <2>1. n + 1 \in 1..Len(bs) /\ n + 1 \in 1..Len(cs) /\ n + 1 - 1 = n
    BY <1>1
  <2>2. cs[n + 1] = bs[n + 1]
    BY <2>1 DEF Begins
  <2>3. s[n + 1] = ControlParserFeed(s[n].parser, bs[n + 1])
    BY <2>1 DEF Scanned
  <2>4. t[n + 1] = ControlParserFeed(t[n].parser, cs[n + 1])
    BY <2>1 DEF Scanned
  <2> QED BY <2>2, <2>3, <2>4
<1>4. Nat \subseteq Same
  <2> HIDE DEF Same
  <2> QED BY <1>2, <1>3, SetInduction
<1> QED BY <1>1, <1>4

-----------------------------------------------------------------------------
\* The gate after n bytes, and what later bytes leave of it.

\* A byte is safe on a plain line if it is no control that ends it.
Plain(bs, s, n) == ~Dead(s, n) /\ ~Alt(s, n) /\ ~Dirty(bs, s, n)
TaintAt(bs, n) ==
  IsUnsafeControl(bs[n]) /\ ~(bs[n] = "cr" /\ n < Len(bs) /\ bs[n + 1] = "lf")
SafeAt(bs, s, n) == Plain(bs, s, n - 1) /\ ~TaintAt(bs, n)

\* The gate after n bytes.
At(bs, s, g, n) ==
  /\ g \in Gates
  /\ g.parser = s[n].parser
  /\ g.parser_fail_closed <=> Dead(s, n)
  /\ g.alternate_screen <=> Alt(s, n)
  /\ ~Dead(s, n) => (g.raw_until_newline <=> Dirty(bs, s, n))
  /\ Alt(s, n) \/ ~IsGround(s[n].parser) => g.raw_until_newline

\* The test for a plain line is right.
LEMMA PlainIs ==
  ASSUME NEW bs, NEW s, NEW g, NEW n, At(bs, s, g, n)
  PROVE  OnPlainLine(g) <=> Plain(bs, s, n)
  BY DEF At, OnPlainLine, Plain

\* A step of the scan.
LEMMA StepIs ==
  ASSUME NEW bs \in Seq(Byte), NEW s, Scanned(bs, s), NEW n \in Nat, n + 1 <= Len(bs)
  PROVE  /\ s[n].parser \in Parsers /\ bs[n + 1] \in Byte
         /\ s[n + 1] = ControlParserFeed(s[n].parser, bs[n + 1])
<1>1. n + 1 \in 1..Len(bs) /\ n \in 0..Len(bs) /\ n + 1 - 1 = n
  BY LenProperties
<1>2. s[n] \in Steps
  BY <1>1 DEF Scanned
<1> QED BY <1>1, <1>2, ElementOfSeq DEF Scanned, Steps

\* ProcessByte keeps the flags right, if a carriage return that could be
\* held is known to be no half of a line ending.
LEMMA ProcessedIsAt ==
  ASSUME NEW bs \in Seq(Byte), NEW s, Scanned(bs, s), NEW n \in Nat, n + 1 <= Len(bs),
         NEW g, At(bs, s, g, n), NEW h, Processed(g, bs[n + 1], s[n + 1], h),
         bs[n + 1] = "cr" => Settled(bs, n + 1) \/ ~OnPlainLine(g)
  PROVE  At(bs, s, h, n + 1)
<1>1. PICK p, b, f, m : p = s[n].parser /\ b = bs[n + 1] /\ f = s[n + 1] /\ m = n + 1
  OBVIOUS
<1>2. /\ IsGround(p) => f.event = "none"
      /\ IsGround(p) /\ b # "esc" => IsGround(f.parser)
  BY <1>1, StepIs, FeedIs
<1>3. /\ Dead(s, m) <=> (Dead(s, n) \/ f.event = "overflow")
      /\ Alt(s, m) <=> (IF Switch(s, m) THEN f.event = "enter" ELSE Alt(s, n))
      /\ Dirty(bs, s, m) <=> (~LineEnds(bs, s, m) /\ (Dirty(bs, s, n) \/ Settled(bs, m)))
  BY <1>1, NextByte
<1>4. /\ Switch(s, m) <=> f.event \in {"enter", "leave"}
      /\ LineEnds(bs, s, m) <=> (b = "lf" /\ IsGround(f.parser) /\ ~Alt(s, m))
      /\ Settled(bs, m) => IsUnsafeControl(b)
      /\ IsUnsafeControl(b) /\ b # "cr" => Settled(bs, m)
      /\ b = "cr" => Settled(bs, m) \/ ~OnPlainLine(g)
  BY <1>1 DEF Switch, LineEnds, Settled
<1>5. /\ h \in Gates /\ h.parser = f.parser
      /\ h.parser_fail_closed <=> (g.parser_fail_closed \/ f.event = "overflow")
      /\ h.alternate_screen <=>
           (IF f.event \in {"enter", "leave"} THEN f.event = "enter" ELSE g.alternate_screen)
      /\ h.raw_until_newline <=>
           /\ g.raw_until_newline \/ IsUnsafeControl(b) \/ f.event # "none"
           /\ ~(b = "lf" /\ ~h.parser_fail_closed /\ ~h.alternate_screen /\ IsGround(f.parser))
  BY <1>1 DEF Processed
<1>6. /\ g.parser = p
      /\ g.parser_fail_closed <=> Dead(s, n)
      /\ g.alternate_screen <=> Alt(s, n)
      /\ ~Dead(s, n) => (g.raw_until_newline <=> Dirty(bs, s, n))
      /\ Alt(s, n) \/ ~IsGround(p) => g.raw_until_newline
  BY <1>1 DEF At
<1>7. h.parser_fail_closed <=> Dead(s, m)
  BY <1>3, <1>5, <1>6
<1>8. h.alternate_screen <=> Alt(s, m)
  BY <1>3, <1>4, <1>5, <1>6
<1>9. ASSUME ~Dead(s, m) PROVE h.raw_until_newline <=> Dirty(bs, s, m)
  <2>1. ~Dead(s, n) /\ (g.raw_until_newline <=> Dirty(bs, s, n))
    BY <1>3, <1>6, <1>9
  <2>2. h.raw_until_newline <=>
          /\ g.raw_until_newline \/ IsUnsafeControl(b) \/ f.event # "none"
          /\ ~LineEnds(bs, s, m)
    BY <1>4, <1>5, <1>7, <1>8, <1>9
  <2>3. f.event # "none" => g.raw_until_newline
    BY <1>2, <1>6
  <2>4. IsUnsafeControl(b) => Settled(bs, m) \/ g.raw_until_newline
    BY <1>4, <1>6, <2>1 DEF OnPlainLine
  <2> QED BY <1>3, <1>4, <2>1, <2>2, <2>3, <2>4
<1>10. ASSUME Alt(s, m) \/ ~IsGround(f.parser) PROVE h.raw_until_newline
  <2>1. ~(b = "lf" /\ ~h.parser_fail_closed /\ ~h.alternate_screen /\ IsGround(f.parser))
    BY <1>8, <1>10
  <2>2. Alt(s, m) => g.raw_until_newline \/ f.event # "none"
    BY <1>3, <1>4, <1>6
  <2>3. ~IsGround(f.parser) => g.raw_until_newline \/ IsUnsafeControl(b)
    BY <1>2, <1>6 DEF IsUnsafeControl
  <2> QED BY <1>5, <1>10, <2>1, <2>2, <2>3
<1> QED BY <1>1, <1>5, <1>7, <1>8, <1>9, <1>10 DEF At

\* And its segment is.
LEMMA SegmentIs ==
  ASSUME NEW bs, NEW s, NEW n \in Nat, NEW g, At(bs, s, g, n),
         bs[n + 1] = "cr" /\ OnPlainLine(g) => ~(n + 1 < Len(bs) /\ bs[n + 2] = "lf")
  PROVE  ~OnPlainLine(g) \/ IsUnsafeControl(bs[n + 1]) <=> ~SafeAt(bs, s, n + 1)
<1>1. n + 1 - 1 = n /\ n + 1 + 1 = n + 2
  OBVIOUS
<1> QED BY <1>1, PlainIs DEF SafeAt, TaintAt

\* Bytes that follow change nothing of this, save whether a carriage return
\* that was last is settled.
LEMMA SoFar ==
  ASSUME NEW bs \in Seq(Byte), NEW cs \in Seq(Byte), Begins(bs, cs),
         NEW s, Scanned(bs, s), NEW t, Scanned(cs, t), NEW n \in 0..Len(bs)
  PROVE  /\ t[n] = s[n]
         /\ Dead(t, n) <=> Dead(s, n)
         /\ Alt(t, n) <=> Alt(s, n)
         /\ Dirty(bs, s, n) => Dirty(cs, t, n)
         /\ n = 0 \/ n < Len(bs) \/ bs[n] # "cr" => (Dirty(cs, t, n) <=> Dirty(bs, s, n))
<1>1. Len(bs) \in Nat /\ Len(cs) \in Nat /\ Len(bs) <= Len(cs) /\ n \in Nat
  BY LenProperties DEF Begins
<1>2. \A k \in 0..Len(bs) : t[k] = s[k]
  BY ScanGoesOn
<1>3. \A k \in 1..n : k \in 0..Len(bs) /\ k \in 1..Len(bs) /\ t[k] = s[k] /\ cs[k] = bs[k]
  BY <1>1, <1>2 DEF Begins
<1>4. ASSUME NEW k \in 1..n PROVE Alt(t, k) <=> Alt(s, k)
  <2>1. ASSUME NEW i \in 1..k PROVE t[i] = s[i]
    BY <1>1, <1>3
  <2>2. \A i \in 1..k : \A j \in (i + 1)..k : t[j] = s[j]
    BY <1>1, <1>3
  <2> QED BY <2>1, <2>2 DEF Alt, Switch
<1>5. Alt(t, n) <=> Alt(s, n)
  <2>1. CASE n = 0
    BY <2>1, NothingYet
  <2>2. CASE n # 0
    BY <1>1, <1>4, <2>2
  <2> QED BY <2>1, <2>2
<1>6. Dead(t, n) <=> Dead(s, n)
  BY <1>3 DEF Dead
<1>7. \A k \in 1..n : LineEnds(cs, t, k) <=> LineEnds(bs, s, k)
  BY <1>3, <1>4 DEF LineEnds
<1>8. \A k \in 1..n : k < Len(bs) => cs[k + 1] = bs[k + 1] /\ k < Len(cs)
  <2> TAKE k \in 1..n
  <2> SUFFICES ASSUME k < Len(bs) PROVE cs[k + 1] = bs[k + 1] /\ k < Len(cs)
    OBVIOUS
  <2>1. k + 1 \in 1..Len(bs)
    BY <1>1
  <2> QED BY <1>1, <2>1 DEF Begins
<1>9. \A k \in 1..n : Settled(bs, k) => Settled(cs, k)
  BY <1>3, <1>8 DEF Settled
<1>10. \A k \in 1..n : k < Len(bs) \/ bs[k] # "cr" => (Settled(cs, k) <=> Settled(bs, k))
  BY <1>3, <1>8 DEF Settled
<1>11. \A k \in 1..n : \A j \in k..n : j \in 1..n
  BY <1>1
<1>12. Dirty(bs, s, n) => Dirty(cs, t, n)
  BY <1>7, <1>9, <1>11 DEF Dirty
<1>13. ASSUME n = 0 \/ n < Len(bs) \/ bs[n] # "cr", Dirty(cs, t, n) PROVE Dirty(bs, s, n)
  <2>1. \A k \in 1..n : k < Len(bs) \/ bs[k] # "cr"
    BY <1>1, <1>13
  <2> QED BY <1>7, <1>10, <1>11, <1>13, <2>1 DEF Dirty
<1> QED BY <1>2, <1>5, <1>6, <1>12, <1>13

\* So the gate stays right.
LEMMA AtStays ==
  ASSUME NEW bs \in Seq(Byte), NEW cs \in Seq(Byte), Begins(bs, cs),
         NEW s, Scanned(bs, s), NEW t, Scanned(cs, t), NEW n \in 0..Len(bs),
         NEW g, At(bs, s, g, n),
         n > 0 /\ n = Len(bs) /\ bs[n] = "cr" => g.raw_until_newline
  PROVE  At(cs, t, g, n)
<1>1. n < Len(bs) \/ n = Len(bs)
  BY LenProperties
<1>2. n = 0 \/ n > 0
  BY LenProperties
<1> QED BY <1>1, <1>2, SoFar DEF At

\* And so does what was said of the bytes.
LEMMA SafeStays ==
  ASSUME NEW bs \in Seq(Byte), NEW cs \in Seq(Byte), Begins(bs, cs),
         NEW s, Scanned(bs, s), NEW t, Scanned(cs, t), NEW n \in 1..Len(bs),
         n = Len(bs) /\ bs[n] = "cr" => ~Plain(bs, s, n - 1)
  PROVE  SafeAt(cs, t, n) <=> SafeAt(bs, s, n)
<1>1. n - 1 \in 0..Len(bs) /\ n - 1 < Len(bs) /\ (n < Len(bs) \/ n = Len(bs))
      /\ Len(bs) <= Len(cs) /\ Len(bs) \in Nat /\ Len(cs) \in Nat
  BY LenProperties DEF Begins
<1>2. Plain(cs, t, n - 1) <=> Plain(bs, s, n - 1)
  BY <1>1, SoFar DEF Plain
<1>3. cs[n] = bs[n]
  BY DEF Begins
<1>4. n < Len(bs) => cs[n + 1] = bs[n + 1] /\ n < Len(cs)
  <2> SUFFICES ASSUME n < Len(bs) PROVE cs[n + 1] = bs[n + 1] /\ n < Len(cs)
    OBVIOUS
  <2>1. n + 1 \in 1..Len(bs)
    BY <1>1
  <2> QED BY <1>1, <2>1 DEF Begins
<1>5. n < Len(bs) \/ bs[n] # "cr" => (TaintAt(cs, n) <=> TaintAt(bs, n))
  BY <1>3, <1>4 DEF TaintAt
<1> QED BY <1>1, <1>2, <1>5 DEF SafeAt

-----------------------------------------------------------------------------
\* The gate between two bytes.

\* All that was classified is right, and so is the gate.
Going(bs, s, g, segs) ==
  /\ segs \in Seq(Segments)
  /\ At(bs, s, g, Len(segs))
  /\ \A n \in 1..Len(segs) : ~segs[n].raw <=> SafeAt(bs, s, n)

\* The gate between two bytes: it may hold the last, a carriage return, but
\* only where the flags can not tell what it is.
Rest(bs, s, g, segs) ==
  /\ Going(bs, s, g, segs)
  /\ g.pending_carriage_return =>
       Len(bs) = Len(segs) + 1 /\ bs[Len(bs)] = "cr" /\ OnPlainLine(g)
  /\ ~g.pending_carriage_return =>
       /\ Len(bs) = Len(segs)
       /\ Len(bs) > 0 /\ bs[Len(bs)] = "cr" =>
            g.raw_until_newline /\ ~Plain(bs, s, Len(bs) - 1)

\* A carriage return is held or let go.
LEMMA HoldIs ==
  ASSUME NEW g \in Gates, NEW v \in BOOLEAN
  PROVE  LET h == [g EXCEPT !.pending_carriage_return = v]
         IN /\ h \in Gates /\ h.pending_carriage_return = v
            /\ h.raw_until_newline = g.raw_until_newline
            /\ h.alternate_screen = g.alternate_screen
            /\ h.parser_fail_closed = g.parser_fail_closed /\ h.parser = g.parser
<1>1. PICK h : h = [g EXCEPT !.pending_carriage_return = v]
  OBVIOUS
<1>2. PICK raw, alt, failed, parser, pending :
        /\ g = [raw_until_newline |-> raw, alternate_screen |-> alt,
                pending_carriage_return |-> pending, parser_fail_closed |-> failed,
                parser |-> parser]
        /\ raw = g.raw_until_newline /\ alt = g.alternate_screen
        /\ failed = g.parser_fail_closed /\ parser = g.parser
  BY GateIs
<1>3. h = [raw_until_newline |-> raw, alternate_screen |-> alt,
           pending_carriage_return |-> v, parser_fail_closed |-> failed, parser |-> parser]
  BY <1>1, <1>2
<1>4. /\ h.pending_carriage_return = v /\ h.raw_until_newline = raw
      /\ h.alternate_screen = alt /\ h.parser_fail_closed = failed /\ h.parser = parser
  BY <1>3
<1>5. h \in Gates
  BY <1>2, <1>3, GateIs DEF Gates
<1> QED BY <1>1, <1>2, <1>4, <1>5

\* Neither changes what was said.
LEMMA HeldGoes ==
  ASSUME NEW bs, NEW s, NEW g, NEW segs, Going(bs, s, g, segs), NEW v \in BOOLEAN
  PROVE  LET h == [g EXCEPT !.pending_carriage_return = v]
         IN /\ Going(bs, s, h, segs) /\ h.pending_carriage_return = v
            /\ OnPlainLine(h) <=> OnPlainLine(g)
            /\ h.raw_until_newline = g.raw_until_newline
<1>1. PICK h : h = [g EXCEPT !.pending_carriage_return = v]
  OBVIOUS
<1>2. g \in Gates
  BY DEF Going, At
<1>3. /\ h \in Gates /\ h.pending_carriage_return = v
      /\ h.raw_until_newline = g.raw_until_newline /\ h.alternate_screen = g.alternate_screen
      /\ h.parser_fail_closed = g.parser_fail_closed /\ h.parser = g.parser
  BY <1>1, <1>2, HoldIs
<1>4. Going(bs, s, h, segs)
  BY <1>3 DEF Going, At
<1>5. OnPlainLine(h) <=> OnPlainLine(g)
  BY <1>3 DEF OnPlainLine
<1> QED BY <1>1, <1>3, <1>4, <1>5

\* The next byte is classified: as a control, a carriage return only when it
\* can not be half of a line ending.
Classifies(bs, g, segs, b, r, more) ==
  /\ Len(segs) + 1 <= Len(bs) /\ b = bs[Len(segs) + 1]
  /\ b = "cr" => Settled(bs, Len(segs) + 1) \/ ~OnPlainLine(g)
  /\ r = ProcessByte(g, b)
  /\ more = segs \o r.segments

\* Then all stays right.
LEMMA ProcessGoes ==
  ASSUME NEW bs \in Seq(Byte), NEW s, Scanned(bs, s), NEW g, NEW segs,
         Going(bs, s, g, segs), NEW b, NEW r, NEW more, Classifies(bs, g, segs, b, r, more)
  PROVE  /\ Going(bs, s, r.gate, more) /\ Len(more) = Len(segs) + 1
         /\ r.segments \in Seq(Segments)
         /\ r.gate.pending_carriage_return = g.pending_carriage_return
         /\ b = "cr" => r.gate.raw_until_newline
<1> USE DEF Classifies
<1>1. PICK n : n = Len(segs)
  OBVIOUS
<1>2. n \in Nat /\ segs \in Seq(Segments) /\ g \in Gates /\ At(bs, s, g, n)
  BY <1>1, LenProperties DEF Going, At
<1>3. b \in Byte /\ g.parser \in Parsers /\ s[n + 1] = ControlParserFeed(g.parser, b)
  BY <1>1, <1>2, StepIs DEF At
<1>4. /\ Processed(g, b, s[n + 1], r.gate)
      /\ r.segments = <<Segment(~OnPlainLine(g) \/ IsUnsafeControl(b), b)>>
  BY <1>2, <1>3, ProcessIs
<1>5. PICK raw \in BOOLEAN : raw = (~OnPlainLine(g) \/ IsUnsafeControl(b))
  OBVIOUS
<1>6. PICK new : new = Segment(raw, b)
  OBVIOUS
<1>7. new \in Segments /\ new.raw = raw /\ r.segments = <<new>>
  BY <1>3, <1>4, <1>5, <1>6 DEF Segment, Segments
<1>8. /\ more \in Seq(Segments) /\ Len(more) = n + 1 /\ more[n + 1] = new
       /\ \A i \in 1..n : more[i] = segs[i]
  <2>1. <<new>> \in Seq(Segments) /\ Len(<<new>>) = 1 /\ <<new>>[1] = new
    BY <1>7
  <2> QED BY <1>1, <1>2, <1>7, <2>1, ConcatProperties
<1>9. At(bs, s, r.gate, n + 1)
  BY <1>1, <1>2, <1>3, <1>4, ProcessedIsAt
<1>10. raw <=> ~SafeAt(bs, s, n + 1)
  <2>1. b = "cr" /\ OnPlainLine(g) => ~(n + 1 < Len(bs) /\ bs[n + 2] = "lf")
    <3>1. n + 1 + 1 = n + 2
      BY <1>2
    <3> QED BY <1>1, <3>1 DEF Settled
  <2> QED BY <1>1, <1>2, <1>5, <2>1, SegmentIs
<1>11. ASSUME NEW i \in 1..(n + 1) PROVE ~more[i].raw <=> SafeAt(bs, s, i)
  <2>1. i \in 1..n \/ i = n + 1
    BY <1>2
  <2> QED BY <1>1, <1>7, <1>8, <1>10, <2>1 DEF Going
<1>12. Going(bs, s, r.gate, more)
  BY <1>8, <1>9, <1>11 DEF Going
<1>13. r.gate.pending_carriage_return = g.pending_carriage_return
  BY <1>4 DEF Processed
<1>14. b = "cr" => r.gate.raw_until_newline
  BY <1>4 DEF Processed, IsUnsafeControl
<1>15. r.segments \in Seq(Segments)
  BY <1>7
<1> QED BY <1>1, <1>15, <1>8, <1>12, <1>13, <1>14

\* A byte that follows changes nothing that was said.
LEMMA RestGoes ==
  ASSUME NEW bs \in Seq(Byte), NEW s, Scanned(bs, s), NEW g, NEW segs, Rest(bs, s, g, segs),
         NEW cs \in Seq(Byte), Begins(bs, cs), NEW t, Scanned(cs, t)
  PROVE  Going(cs, t, g, segs)
<1>1. PICK n : n = Len(segs)
  OBVIOUS
<1>2. /\ n \in Nat /\ segs \in Seq(Segments) /\ At(bs, s, g, n) /\ Len(bs) \in Nat
      /\ g \in Gates
  BY <1>1, LenProperties DEF Rest, Going, At
<1>3. n \in 0..Len(bs) /\ (n = Len(bs) \/ n + 1 = Len(bs))
  BY <1>1, <1>2, GateIs DEF Rest
<1>4. n = Len(bs) => ~g.pending_carriage_return
  BY <1>1, <1>2 DEF Rest
<1>5. n > 0 /\ n = Len(bs) /\ bs[n] = "cr" => g.raw_until_newline
  BY <1>2, <1>4 DEF Rest
<1>6. At(cs, t, g, n)
  BY <1>2, <1>3, <1>5, AtStays
<1>7. ASSUME NEW i \in 1..n PROVE SafeAt(cs, t, i) <=> SafeAt(bs, s, i)
  <2>1. i \in 1..Len(bs)
    BY <1>2, <1>3
  <2>2. i = Len(bs) /\ bs[i] = "cr" => ~Plain(bs, s, i - 1)
    BY <1>2, <1>3, <1>4 DEF Rest
  <2> QED BY <2>1, <2>2, SafeStays
<1> QED BY <1>1, <1>2, <1>6, <1>7 DEF Rest, Going

\* A line ending of two bytes on a plain line.
LEMMA LineEndingGoes ==
  ASSUME NEW bs \in Seq(Byte), NEW s, Scanned(bs, s), NEW g, NEW segs,
         Going(bs, s, g, segs), Len(bs) = Len(segs) + 2, OnPlainLine(g),
         bs[Len(segs) + 1] = "cr", bs[Len(segs) + 2] = "lf"
  PROVE  Going(bs, s, g, segs \o <<Segment(FALSE, "cr"), Segment(FALSE, "lf")>>)
<1>1. PICK n, m, l : n = Len(segs) /\ m = n + 1 /\ l = n + 2
  OBVIOUS
<1>2. n \in Nat /\ segs \in Seq(Segments) /\ g \in Gates /\ At(bs, s, g, n) /\ Len(bs) = l
      /\ m \in Nat /\ n + 1 <= l /\ m + 1 <= l /\ m + 1 = l /\ n < l /\ m < l /\ l \in Nat
  BY <1>1, LenProperties DEF Going, At
<1>3. bs[m] = "cr" /\ bs[m + 1] = "lf" /\ bs[l] = "lf"
  BY <1>1, <1>2
<1>4. Plain(bs, s, n) /\ IsGround(g.parser) /\ ~g.raw_until_newline /\ g.parser = s[n].parser
  BY <1>2, PlainIs DEF OnPlainLine, At
<1>5. IsGround(s[m].parser) /\ s[m].event = "none"
  <2>1. /\ g.parser \in Parsers /\ bs[m] \in Byte
        /\ s[m] = ControlParserFeed(g.parser, bs[m])
    BY <1>1, <1>2, <1>4, StepIs
  <2> QED BY <1>3, <1>4, <2>1, FeedIs
<1>6. IsGround(s[l].parser) /\ s[l].event = "none"
  <2>1. /\ s[m].parser \in Parsers /\ bs[l] \in Byte
        /\ s[l] = ControlParserFeed(s[m].parser, bs[l])
    BY <1>2, StepIs
  <2> QED BY <1>3, <1>5, <2>1, FeedIs
<1>7. ~Switch(s, m) /\ ~Switch(s, l)
  BY <1>5, <1>6 DEF Switch
<1>8. ~Settled(bs, m) /\ ~Settled(bs, l)
  BY <1>3 DEF Settled, IsUnsafeControl
<1>9. Plain(bs, s, m)
  BY <1>1, <1>2, <1>4, <1>5, <1>7, <1>8, NextByte DEF Plain
<1>10. Plain(bs, s, l)
  <2>1. /\ Dead(s, l) <=> (Dead(s, m) \/ s[l].event = "overflow")
        /\ Alt(s, l) <=> (IF Switch(s, l) THEN s[l].event = "enter" ELSE Alt(s, m))
        /\ Dirty(bs, s, l) <=>
             (~LineEnds(bs, s, l) /\ (Dirty(bs, s, m) \/ Settled(bs, l)))
    BY <1>2, NextByte
  <2> QED BY <1>6, <1>7, <1>8, <1>9, <2>1 DEF Plain
<1>11. At(bs, s, g, l)
  <2>1. g.parser = s[l].parser
    <3>1. g.parser = Ground /\ s[l].parser = Ground
      <4>1. g.parser \in Parsers /\ s[l].parser \in Parsers
        <5>1. l \in 0..Len(bs)
          BY <1>2
        <5>2. s[l] \in Steps
          BY <5>1 DEF Scanned
        <5> QED BY <1>2, <5>2, GateIs DEF Steps
      <4> QED BY <1>4, <1>6, <4>1
            DEF Parsers, ParserType, IsGround, Ground, Escape, Osc, StringControl, Csi
    <3> QED BY <3>1
  <2> QED BY <1>2, <1>4, <1>6, <1>10, <2>1 DEF At, Plain
<1>12. SafeAt(bs, s, m) /\ SafeAt(bs, s, l)
  <2>1. m - 1 = n /\ l - 1 = m
    BY <1>1, <1>2
  <2>2. ~TaintAt(bs, m) /\ ~TaintAt(bs, l)
    BY <1>2, <1>3 DEF TaintAt, IsUnsafeControl
  <2> QED BY <1>4, <1>9, <2>1, <2>2 DEF SafeAt
<1>13. PICK new : new = <<Segment(FALSE, "cr"), Segment(FALSE, "lf")>>
  OBVIOUS
<1>14. new \in Seq(Segments) /\ Len(new) = 2 /\ ~new[1].raw /\ ~new[2].raw
  BY <1>13 DEF Segment, Segments, Byte
<1>15. PICK more : more = segs \o new
  OBVIOUS
<1>16. /\ more \in Seq(Segments) /\ Len(more) = l
       /\ more[m] = new[1] /\ more[l] = new[2] /\ \A i \in 1..n : more[i] = segs[i]
  <2>1. /\ more \in Seq(Segments) /\ Len(more) = n + 2
        /\ \A i \in 1..(n + 2) : more[i] = IF i <= n THEN segs[i] ELSE new[i - n]
    <3>1. /\ more \in Seq(Segments) /\ Len(more) = Len(segs) + Len(new)
          /\ \A i \in 1..(Len(segs) + Len(new)) :
               more[i] = IF i <= Len(segs) THEN segs[i] ELSE new[i - Len(segs)]
      BY <1>2, <1>14, <1>15, ConcatProperties
    <3> QED BY <1>1, <1>14, <3>1
  <2>2. m \in 1..(n + 2) /\ ~(m <= n) /\ m - n = 1
    BY <1>1, <1>2
  <2>3. l \in 1..(n + 2) /\ ~(l <= n) /\ l - n = 2
    BY <1>1, <1>2
  <2>4. \A i \in 1..n : i \in 1..(n + 2) /\ i <= n
    BY <1>2
  <2> QED BY <1>1, <2>1, <2>2, <2>3, <2>4
<1>17. ASSUME NEW i \in 1..l PROVE ~more[i].raw <=> SafeAt(bs, s, i)
  <2>1. i \in 1..n \/ i = m \/ i = l
    BY <1>1, <1>2
  <2> QED BY <1>1, <1>12, <1>14, <1>16, <2>1 DEF Going
<1> QED BY <1>11, <1>13, <1>15, <1>16, <1>17 DEF Going

-----------------------------------------------------------------------------
\* One byte fed.

\* Where the last byte was classified as any other.
LEMMA LastGoes ==
  ASSUME NEW bs \in Seq(Byte), NEW s, Scanned(bs, s), NEW g, NEW segs,
         Going(bs, s, g, segs), ~g.pending_carriage_return, NEW b, NEW r, NEW more,
         Classifies(bs, g, segs, b, r, more), Len(segs) + 1 = Len(bs),
         b = "cr" => ~OnPlainLine(g)
  PROVE  r.segments \in Seq(Segments) /\ Rest(bs, s, r.gate, more)
<1>1. PICK n : n = Len(segs)
  OBVIOUS
<1>2. /\ n \in Nat /\ At(bs, s, g, n) /\ g \in Gates /\ n + 1 = Len(bs)
      /\ Len(bs) - 1 = n /\ b = bs[n + 1]
  BY <1>1, LenProperties DEF Going, At, Classifies
<1>3. /\ Going(bs, s, r.gate, more) /\ Len(more) = n + 1
      /\ r.segments \in Seq(Segments)
      /\ r.gate.pending_carriage_return = g.pending_carriage_return
      /\ b = "cr" => r.gate.raw_until_newline
  BY <1>1, ProcessGoes
<1>4. b = "cr" => ~Plain(bs, s, n)
  BY <1>2, PlainIs
<1> QED BY <1>1, <1>2, <1>3, <1>4 DEF Rest

\* Concatenations of bytes, or of segments, may be grouped as one likes.
LEMMA Associates ==
  /\ \A a, b, c \in Seq(Byte) : (a \o b) \o c = a \o (b \o c)
  /\ \A a, b, c \in Seq(Segments) : (a \o b) \o c = a \o (b \o c)
<1>1. ASSUME NEW a \in Seq(Byte), NEW b \in Seq(Byte), NEW c \in Seq(Byte)
      PROVE  (a \o b) \o c = a \o (b \o c)
  BY ConcatAssociative
<1>2. ASSUME NEW a \in Seq(Segments), NEW b \in Seq(Segments), NEW c \in Seq(Segments)
      PROVE  (a \o b) \o c = a \o (b \o c)
  BY ConcatAssociative
<1> QED BY <1>1, <1>2

\* One byte fed to a gate that may hold one.
LEMMA FedByte ==
  ASSUME NEW bs \in Seq(Byte), NEW s, Scanned(bs, s), NEW g, NEW segs, Rest(bs, s, g, segs),
         NEW b \in Byte, NEW cs, cs = Append(bs, b), NEW t, Scanned(cs, t)
  PROVE  LET r == GateFeedByte(g, b)
         IN r.segments \in Seq(Segments) /\ Rest(cs, t, r.gate, segs \o r.segments)
<1>1. PICK n : n = Len(segs)
  OBVIOUS
<1>2. /\ n \in Nat /\ segs \in Seq(Segments) /\ At(bs, s, g, n) /\ Len(bs) \in Nat
      /\ g \in Gates /\ g.pending_carriage_return \in BOOLEAN
  BY <1>1, LenProperties, GateIs DEF Rest, Going, At
<1>3. /\ cs \in Seq(Byte) /\ Len(cs) = Len(bs) + 1 /\ cs[Len(bs) + 1] = b
      /\ \A i \in 1..Len(bs) : cs[i] = bs[i]
  BY AppendProperties
<1>4. Begins(bs, cs)
  BY <1>2, <1>3 DEF Begins
<1>5. Going(cs, t, g, segs)
  BY <1>3, <1>4, RestGoes
<1>6. PICK r : r = GateFeedByte(g, b)
  OBVIOUS
<1>7. CASE ~g.pending_carriage_return
  <2>1. Len(bs) = n /\ b = cs[n + 1] /\ Len(cs) = n + 1
    BY <1>1, <1>2, <1>3, <1>7 DEF Rest
  <2>2. FlushCarriageReturn(g) = Gated(g, <<>>)
    BY <1>7 DEF FlushCarriageReturn
  <2>3. CASE b = "cr" /\ OnPlainLine(g)
    <3>1. PICK h : h = [g EXCEPT !.pending_carriage_return = TRUE]
      OBVIOUS
    <3>2. r = Gated(h, <<>> \o <<>>)
      BY <1>6, <1>7, <2>2, <2>3, <3>1 DEF GateFeedByte, Gated
    <3>3. r.gate = h /\ r.segments = <<>> /\ <<>> \in Seq(Segments) /\ segs \o <<>> = segs
      <4>1. <<>> \o <<>> = <<>>
        OBVIOUS
      <4> QED BY <1>2, <3>2, <4>1, ConcatEmptySeq DEF Gated
    <3>4. Going(cs, t, h, segs) /\ h.pending_carriage_return = TRUE /\ OnPlainLine(h)
      BY <1>5, <2>3, <3>1, HeldGoes
    <3>5. Rest(cs, t, h, segs)
      BY <1>1, <2>1, <2>3, <3>4 DEF Rest
    <3> QED BY <1>6, <3>3, <3>5
  <2>4. CASE ~(b = "cr" /\ OnPlainLine(g))
    <3>1. PICK p : p = ProcessByte(g, b)
      OBVIOUS
    <3>2. r = Gated(p.gate, <<>> \o p.segments)
      BY <1>6, <1>7, <2>2, <2>4, <3>1 DEF GateFeedByte, Gated
    <3>3. PICK more : more = segs \o p.segments
      OBVIOUS
    <3>4. p.segments \in Seq(Segments) /\ Rest(cs, t, p.gate, more)
      <4>1. Classifies(cs, g, segs, b, p, more) /\ Len(segs) + 1 = Len(cs)
        BY <1>1, <1>2, <2>1, <2>4, <3>1, <3>3 DEF Classifies
      <4> QED BY <1>3, <1>5, <1>7, <2>4, <4>1, LastGoes
    <3>5. r.gate = p.gate /\ r.segments = p.segments
      BY <3>2, <3>4, ConcatEmptySeq DEF Gated
    <3> QED BY <1>6, <3>3, <3>4, <3>5
  <2> QED BY <2>3, <2>4
<1>8. CASE g.pending_carriage_return
  <2>1. /\ Len(bs) = n + 1 /\ bs[n + 1] = "cr" /\ OnPlainLine(g)
        /\ n + 1 + 1 = n + 2 /\ n + 1 \in 1..Len(bs)
    BY <1>1, <1>2, <1>8 DEF Rest
  <2>2. cs[n + 1] = "cr" /\ cs[n + 2] = b /\ Len(cs) = n + 2
    BY <1>3, <2>1
  <2>3. PICK h : h = [g EXCEPT !.pending_carriage_return = FALSE]
    OBVIOUS
  <2>4. /\ Going(cs, t, h, segs) /\ ~h.pending_carriage_return /\ OnPlainLine(h)
    BY <1>5, <2>1, <2>3, HeldGoes
  <2>5. CASE b = "lf"
    <3>1. PICK new : new = <<Segment(FALSE, "cr"), Segment(FALSE, "lf")>>
      OBVIOUS
    <3>2. r = Gated(h, new)
      BY <1>6, <1>8, <2>1, <2>3, <2>5, <3>1 DEF GateFeedByte
    <3>3. Going(cs, t, h, segs \o new)
      BY <1>1, <1>3, <2>2, <2>4, <2>5, <3>1, LineEndingGoes
    <3>4. new \in Seq(Segments) /\ Len(new) = 2
      BY <3>1 DEF Segment, Segments, Byte
    <3>5. Len(segs \o new) = n + 2
      <4>1. Len(segs \o new) = Len(segs) + Len(new)
        BY <1>2, <3>4, ConcatProperties
      <4> QED BY <1>1, <3>4, <4>1
    <3>6. Rest(cs, t, h, segs \o new)
      BY <2>2, <2>4, <2>5, <3>3, <3>5 DEF Rest
    <3>7. r.gate = h /\ r.segments = new
      BY <3>2 DEF Gated
    <3> QED BY <1>6, <3>4, <3>6, <3>7
  <2>6. CASE b # "lf"
    <3>1. PICK p : p = ProcessByte(h, "cr")
      OBVIOUS
    <3>2. FlushCarriageReturn(g) = p
      BY <1>8, <2>3, <3>1 DEF FlushCarriageReturn
    <3>3. Settled(cs, n + 1)
      BY <1>2, <2>1, <2>2, <2>6 DEF Settled, IsUnsafeControl
    <3>4. PICK more : more = segs \o p.segments
      OBVIOUS
    <3>5. /\ Going(cs, t, p.gate, more) /\ Len(more) = n + 1
          /\ ~p.gate.pending_carriage_return /\ p.gate.raw_until_newline
      <4>1. PICK c : c = "cr"
        OBVIOUS
      <4>2. Classifies(cs, h, segs, c, p, more)
        BY <1>1, <1>2, <2>2, <3>1, <3>3, <3>4, <4>1 DEF Classifies
      <4>3. PICK ds : ds = cs
        OBVIOUS
      <4>4. ds \in Seq(Byte) /\ Scanned(ds, t) /\ Going(ds, t, h, segs)
        BY <1>3, <2>4, <4>3
      <4>5. Classifies(ds, h, segs, c, p, more)
        BY <4>2, <4>3
      <4>6. /\ Going(ds, t, p.gate, more) /\ Len(more) = Len(segs) + 1
            /\ p.gate.pending_carriage_return = h.pending_carriage_return
            /\ c = "cr" => p.gate.raw_until_newline
        BY <4>4, <4>5, ProcessGoes
      <4> QED BY <1>1, <2>4, <4>1, <4>3, <4>6
    <3>6. ~OnPlainLine(p.gate)
      BY <3>5 DEF OnPlainLine
    <3>7. p.segments \in Seq(Segments)
      <4>1. h \in Gates /\ "cr" \in Byte
        BY <2>4 DEF Going, At, Byte
      <4>2. p.segments = <<Segment(~OnPlainLine(h) \/ IsUnsafeControl("cr"), "cr")>>
        BY <3>1, <4>1, ProcessIs
      <4>3. Segment(~OnPlainLine(h) \/ IsUnsafeControl("cr"), "cr") \in Segments
        BY <4>1 DEF Segment, Segments
      <4> QED BY <4>2, <4>3
    <3>8. PICK q : q = ProcessByte(p.gate, b)
      OBVIOUS
    <3>9. r = Gated(q.gate, p.segments \o q.segments)
      BY <1>6, <2>6, <3>2, <3>6, <3>8 DEF GateFeedByte
    <3>10. PICK all : all = more \o q.segments
      OBVIOUS
    <3>11. q.segments \in Seq(Segments) /\ Rest(cs, t, q.gate, all)
      <4>1. PICK f : f = p.gate
        OBVIOUS
      <4>2. Going(cs, t, f, more) /\ ~f.pending_carriage_return /\ ~OnPlainLine(f)
        BY <3>5, <3>6, <4>1
      <4>3. Classifies(cs, f, more, b, q, all) /\ Len(more) + 1 = Len(cs)
        BY <1>2, <2>1, <2>2, <3>5, <3>8, <3>10, <4>1, <4>2 DEF Classifies
      <4> QED BY <1>3, <4>2, <4>3, LastGoes
    <3>12. PICK one, two : one = p.segments /\ two = q.segments
      OBVIOUS
    <3>13. one \in Seq(Segments) /\ two \in Seq(Segments)
      BY <3>7, <3>11, <3>12
    <3>14. (segs \o one) \o two = segs \o (one \o two) /\ one \o two \in Seq(Segments)
      BY <1>2, <3>13, Associates, ConcatProperties
    <3>15. r.gate = q.gate /\ r.segments = one \o two
      BY <3>9, <3>12 DEF Gated
    <3> QED BY <1>6, <3>4, <3>10, <3>11, <3>12, <3>14, <3>15
  <2> QED BY <2>5, <2>6
<1> QED BY <1>2, <1>7, <1>8

-----------------------------------------------------------------------------
\* The run over a chunk.

\* What the operators on the gate return.
Results == [gate : Gates, segments : Seq(Segments)]

\* A gate and segments are a result.
LEMMA GatedIs ==
  ASSUME NEW g \in Gates, NEW segs \in Seq(Segments)
  PROVE  /\ Gated(g, segs) \in Results
         /\ Gated(g, segs).gate = g /\ Gated(g, segs).segments = segs
  BY DEF Gated, Results

\* So is what ProcessByte returns.
LEMMA ProcessByteIs ==
  ASSUME NEW g \in Gates, NEW b \in Byte
  PROVE  ProcessByte(g, b).gate \in Gates /\ ProcessByte(g, b).segments \in Seq(Segments)
<1>1. PICK raw \in BOOLEAN : raw = (~OnPlainLine(g) \/ IsUnsafeControl(b))
  OBVIOUS
<1>2. PICK p, f : p = ProcessByte(g, b) /\ f = ControlParserFeed(g.parser, b)
  OBVIOUS
<1>3. Processed(g, b, f, p.gate) /\ p.segments = <<Segment(raw, b)>>
  BY <1>1, <1>2, ProcessIs
<1>4. Segment(raw, b) \in Segments
  BY DEF Segment, Segments
<1> QED BY <1>2, <1>3, <1>4 DEF Processed

\* And what GateFeedByte does, of any gate.
LEMMA FeedByteIs ==
  ASSUME NEW g \in Gates, NEW b \in Byte
  PROVE  GateFeedByte(g, b) \in Results
<1>1. PICK h : h = [g EXCEPT !.pending_carriage_return = FALSE]
  OBVIOUS
<1>2. h \in Gates
  BY <1>1, HoldIs
<1>3. PICK f : f = FlushCarriageReturn(g)
  OBVIOUS
<1>4. "cr" \in Byte /\ <<>> \in Seq(Segments)
  BY DEF Byte
<1>5. f.gate \in Gates /\ f.segments \in Seq(Segments)
  <2>1. CASE g.pending_carriage_return
    <3>1. f = ProcessByte(h, "cr")
      BY <1>1, <1>3, <2>1 DEF FlushCarriageReturn
    <3> QED BY <1>2, <1>4, <3>1, ProcessByteIs
  <2>2. CASE ~g.pending_carriage_return
    <3>1. f = Gated(g, <<>>)
      BY <1>3, <2>2 DEF FlushCarriageReturn
    <3> QED BY <1>4, <3>1, GatedIs
  <2> QED BY <2>1, <2>2
<1>6. PICK x : x = IF b = "cr" /\ OnPlainLine(f.gate)
                   THEN Gated([f.gate EXCEPT !.pending_carriage_return = TRUE], <<>>)
                   ELSE ProcessByte(f.gate, b)
  OBVIOUS
<1>7. x.gate \in Gates /\ x.segments \in Seq(Segments)
  <2>1. CASE b = "cr" /\ OnPlainLine(f.gate)
    <3>1. PICK e : e = f.gate
      OBVIOUS
    <3>2. [e EXCEPT !.pending_carriage_return = TRUE] \in Gates
      BY <1>5, <3>1, HoldIs
    <3> QED BY <1>4, <1>6, <2>1, <3>1, <3>2, GatedIs
  <2>2. CASE ~(b = "cr" /\ OnPlainLine(f.gate))
    BY <1>5, <1>6, <2>2, ProcessByteIs
  <2> QED BY <2>1, <2>2
<1>8. CASE g.pending_carriage_return /\ b = "lf" /\ OnPlainLine(g)
  <2>1. GateFeedByte(g, b) = Gated(h, <<Segment(FALSE, "cr"), Segment(FALSE, "lf")>>)
    BY <1>1, <1>8 DEF GateFeedByte
  <2>2. <<Segment(FALSE, "cr"), Segment(FALSE, "lf")>> \in Seq(Segments)
    BY DEF Segment, Segments, Byte
  <2> QED BY <1>2, <2>1, <2>2, GatedIs
<1>9. CASE ~(g.pending_carriage_return /\ b = "lf" /\ OnPlainLine(g))
  <2>1. GateFeedByte(g, b) = Gated(x.gate, f.segments \o x.segments)
    BY <1>3, <1>6, <1>9 DEF GateFeedByte
  <2>2. PICK one, two : one = f.segments /\ two = x.segments
    OBVIOUS
  <2>3. one \o two \in Seq(Segments)
    BY <1>5, <1>7, <2>2, ConcatProperties
  <2> QED BY <1>7, <2>1, <2>2, <2>3, GatedIs
<1> QED BY <1>8, <1>9

\* One more byte of a chunk, and a run over the whole of it.
FedOne(x, b) ==
  Gated(GateFeedByte(x.gate, b).gate, x.segments \o GateFeedByte(x.gate, b).segments)
IsFeed(g, chunk, run) ==
  /\ run \in [0..Len(chunk) -> Results]
  /\ run[0] = Gated(g, <<>>)
  /\ \A i \in 1..Len(chunk) : run[i] = FedOne(run[i - 1], chunk[i])

\* A step of the run returns a result.
LEMMA FedOneIs ==
  ASSUME NEW x \in Results, NEW b \in Byte
  PROVE  FedOne(x, b) \in Results
<1>1. x.gate \in Gates /\ x.segments \in Seq(Segments)
  BY DEF Results
<1>2. PICK r, e : r = GateFeedByte(e, b) /\ e = x.gate
  OBVIOUS
<1>3. r.gate \in Gates /\ r.segments \in Seq(Segments)
  BY <1>1, <1>2, FeedByteIs DEF Results
<1>4. PICK one, two : one = x.segments /\ two = r.segments
  OBVIOUS
<1>5. one \o two \in Seq(Segments)
  BY <1>1, <1>3, <1>4, ConcatProperties
<1> QED BY <1>2, <1>3, <1>4, <1>5, GatedIs DEF FedOne

\* There is a run over every chunk.
LEMMA FeedRunExists ==
  ASSUME NEW g \in Gates, NEW chunk \in Seq(Byte)
  PROVE  \E run : IsFeed(g, chunk, run)
<1> DEFINE n == Len(chunk)
           step == [i \in 1..n |-> [x \in Results |-> FedOne(x, chunk[i])]]
<1>1. n \in Nat /\ \A i \in 1..n : chunk[i] \in Byte
  BY LenProperties, ElementOfSeq
<1>2. step \in [1..n -> [Results -> Results]]
  BY <1>1, FedOneIs
<1> PICK base : base = Gated(g, <<>>)
  OBVIOUS
<1>3. base \in Results
  <2>1. <<>> \in Seq(Segments)
    OBVIOUS
  <2> QED BY <2>1, GatedIs
<1>4. PICK run : IsRun(Results, base, n, step, run)
  <2> HIDE DEF n, step
  <2> QED BY <1>1, <1>2, <1>3, RunExists
<1>5. ASSUME NEW i \in 1..n PROVE run[i] = FedOne(run[i - 1], chunk[i])
  <2>1. i - 1 \in 0..n /\ run[i - 1] \in Results
    BY <1>1, <1>4 DEF IsRun
  <2>2. step[i] = [x \in Results |-> FedOne(x, chunk[i])]
    OBVIOUS
  <2>3. run[i] = step[i][run[i - 1]]
    BY <1>4 DEF IsRun
  <2> QED BY <2>1, <2>2, <2>3
<1>6. run \in [0..n -> Results] /\ run[0] = base
  BY <1>4 DEF IsRun
<1> QED BY <1>5, <1>6 DEF IsFeed

\* And GateFeed is the end of one.
LEMMA FeedIsARun ==
  ASSUME NEW g \in Gates, NEW chunk \in Seq(Byte)
  PROVE  \E run : IsFeed(g, chunk, run) /\ GateFeed(g, chunk) = run[Len(chunk)]
<1> DEFINE n == Len(chunk)
           run[i \in 0..Len(chunk)] ==
             IF i = 0 THEN Gated(g, <<>>)
             ELSE LET step == GateFeedByte(run[i - 1].gate, chunk[i])
                  IN Gated(step.gate, run[i - 1].segments \o step.segments)
<1> PICK base : base = Gated(g, <<>>)
  OBVIOUS
<1>1. n \in Nat /\ \A i \in 1..n : chunk[i] \in Byte
  BY LenProperties, ElementOfSeq
<1>2. PICK e : IsFeed(g, chunk, e)
  BY FeedRunExists
<1>3. e = [i \in 0..n |-> IF i = 0 THEN Gated(g, <<>>)
                          ELSE Gated(GateFeedByte(e[i - 1].gate, chunk[i]).gate,
                                     e[i - 1].segments
                                       \o GateFeedByte(e[i - 1].gate, chunk[i]).segments)]
  BY <1>1, <1>2 DEF IsFeed, FedOne
<1>4. run = [i \in 0..n |-> IF i = 0 THEN Gated(g, <<>>)
                            ELSE Gated(GateFeedByte(run[i - 1].gate, chunk[i]).gate,
                                       run[i - 1].segments
                                         \o GateFeedByte(run[i - 1].gate, chunk[i]).segments)]
  BY <1>3
<1>5. GateFeed(g, chunk) = run[n]
  BY DEF GateFeed
<1> HIDE DEF run
<1>6. run[0] = base /\ \A i \in 1..n : run[i] = FedOne(run[i - 1], chunk[i])
  <2>1. PICK r, m : r = run /\ m = n
    OBVIOUS
  <2>2. /\ m \in Nat
        /\ r = [i \in 0..m |-> IF i = 0 THEN base ELSE FedOne(r[i - 1], chunk[i])]
    BY <1>1, <1>4, <2>1 DEF FedOne
  <2>3. r[0] = base
    BY <2>2
  <2>4. \A i \in 1..m : r[i] = FedOne(r[i - 1], chunk[i])
    BY <2>2
  <2> QED BY <2>1, <2>3, <2>4
<1> DEFINE Typed == {i \in Nat : i <= n => run[i] \in Results}
<1>7. 0 \in Typed
  <2>1. <<>> \in Seq(Segments)
    OBVIOUS
  <2>2. base \in Results
    BY <2>1, GatedIs
  <2> QED BY <1>6, <2>2
<1>8. \A i \in Nat : i \in Typed => i + 1 \in Typed
  <2> TAKE i \in Nat
  <2> SUFFICES ASSUME i + 1 <= n, run[i] \in Results PROVE run[i + 1] \in Results
    BY <1>1
  <2>1. i + 1 \in 1..n /\ i + 1 - 1 = i
    BY <1>1
  <2>2. run[i + 1] = FedOne(run[i], chunk[i + 1]) /\ chunk[i + 1] \in Byte
    BY <1>1, <1>6, <2>1
  <2> QED BY <2>2, FedOneIs
<1>9. Nat \subseteq Typed
  <2> HIDE DEF Typed
  <2> QED BY <1>7, <1>8, SetInduction
<1>10. run \in [0..n -> Results]
  <2>1. \A i \in 0..n : run[i] \in Results
    BY <1>1, <1>9
  <2>2. run = [i \in 0..n |-> run[i]]
    BY <1>4
  <2> HIDE DEF Typed
  <2> QED BY <2>1, <2>2
<1> QED BY <1>5, <1>6, <1>10 DEF IsFeed

-----------------------------------------------------------------------------
\* A chunk fed.

\* The bytes fed once i of the chunk are.
Upto(bs, chunk, i) == bs \o SubSeq(chunk, 1, i)

\* It starts before the chunk, ends with it, and grows by a byte.
LEMMA UptoIs ==
  ASSUME NEW bs \in Seq(Byte), NEW chunk \in Seq(Byte)
  PROVE  /\ Upto(bs, chunk, 0) = bs
         /\ Upto(bs, chunk, Len(chunk)) = bs \o chunk
         /\ \A i \in Nat : i + 1 <= Len(chunk) =>
              /\ Upto(bs, chunk, i) \in Seq(Byte)
              /\ Upto(bs, chunk, i + 1) = Append(Upto(bs, chunk, i), chunk[i + 1])
<1>1. Len(chunk) \in Nat /\ \A i \in 1..Len(chunk) : chunk[i] \in Byte
  BY LenProperties, ElementOfSeq
<1>2. Upto(bs, chunk, 0) = bs
  <2>1. SubSeq(chunk, 1, 0) = <<>>
    BY SubSeqEmpty
  <2> QED BY <2>1, ConcatEmptySeq DEF Upto
<1>3. Upto(bs, chunk, Len(chunk)) = bs \o chunk
  BY SubSeqFull DEF Upto
<1>4. ASSUME NEW i \in Nat, i + 1 <= Len(chunk)
      PROVE  /\ Upto(bs, chunk, i) \in Seq(Byte)
             /\ Upto(bs, chunk, i + 1) = Append(Upto(bs, chunk, i), chunk[i + 1])
  <2>1. PICK j, b : j = i + 1 /\ b = chunk[i + 1]
    OBVIOUS
  <2>2. j \in 1..Len(chunk) /\ 1 \in 1..Len(chunk) /\ j - 1 = i
        /\ b \in Byte /\ chunk[j] = b
    BY <1>1, <1>4, <2>1
  <2>3. SubSeq(chunk, 1, i) \in Seq(Byte)
    <3>1. \A k \in 1..i : chunk[k] \in Byte
      BY <1>1, <1>4
    <3> QED BY <3>1, SubSeqProperties
  <2>4. PICK front, one : front = SubSeq(chunk, 1, i) /\ one = <<b>>
    OBVIOUS
  <2>5. front \in Seq(Byte) /\ one \in Seq(Byte)
    BY <2>2, <2>3, <2>4
  <2>6. SubSeq(chunk, 1, j) = front \o one
    <3>1. 1 \in 1..Len(chunk) /\ j \in 1..Len(chunk)
      BY <2>2
    <3>2. SubSeq(chunk, 1, j) = SubSeq(chunk, 1, j - 1) \o <<chunk[j]>>
      BY <3>1, SubSeqRecursiveSecond
    <3> QED BY <2>2, <2>4, <3>2
  <2>7. (bs \o front) \o one = bs \o (front \o one)
    BY <2>5, Associates
  <2>8. bs \o front \in Seq(Byte)
    BY <2>5, ConcatProperties
  <2>9. (bs \o front) \o one = Append(bs \o front, b)
    <3>1. PICK w : w = bs \o front
      OBVIOUS
    <3>2. w \in Seq(Byte)
      BY <2>8, <3>1
    <3>3. w \o <<b>> = Append(w, b)
      BY <2>2, <3>2
    <3> QED BY <2>4, <3>1, <3>3
  <2> QED BY <2>1, <2>4, <2>6, <2>7, <2>8, <2>9 DEF Upto
<1> QED BY <1>2, <1>3, <1>4

\* A byte string has one scan.
LEMMA ScannedOnce ==
  ASSUME NEW bs \in Seq(Byte), NEW s, Scanned(bs, s), NEW t, Scanned(bs, t)
  PROVE  t = s
<1>1. Begins(bs, bs)
  BY LenProperties DEF Begins
<1>2. \A n \in 0..Len(bs) : t[n] = s[n]
  BY <1>1, ScanGoesOn
<1> QED BY <1>2 DEF Scanned

\* A chunk fed leaves the gate between two bytes, with all said right.
LEMMA ChunkGoes ==
  ASSUME NEW bs \in Seq(Byte), NEW s, Scanned(bs, s), NEW g, NEW segs, Rest(bs, s, g, segs),
         NEW chunk \in Seq(Byte), NEW t, Scanned(bs \o chunk, t)
  PROVE  LET r == GateFeed(g, chunk)
         IN r.segments \in Seq(Segments) /\ Rest(bs \o chunk, t, r.gate, segs \o r.segments)
<1>1. /\ Len(chunk) \in Nat /\ g \in Gates /\ segs \in Seq(Segments)
      /\ \A i \in 1..Len(chunk) : chunk[i] \in Byte
  BY LenProperties, ElementOfSeq DEF Rest, Going, At
<1>2. PICK run : IsFeed(g, chunk, run) /\ GateFeed(g, chunk) = run[Len(chunk)]
  BY <1>1, FeedIsARun
<1> DEFINE Good(i) ==
             /\ run[i].segments \in Seq(Segments)
             /\ \A u : Scanned(Upto(bs, chunk, i), u) =>
                         Rest(Upto(bs, chunk, i), u, run[i].gate, segs \o run[i].segments)
           T == {i \in Nat : i <= Len(chunk) => Good(i)}
<1>3. Good(0)
  <2>1. run[0] = Gated(g, <<>>)
    BY <1>2 DEF IsFeed
  <2>2. run[0].segments = <<>> /\ run[0].gate = g /\ <<>> \in Seq(Segments)
    BY <2>1 DEF Gated
  <2>3. segs \o run[0].segments = segs
    BY <1>1, <2>2, ConcatEmptySeq
  <2>4. Upto(bs, chunk, 0) = bs
    BY UptoIs
  <2>5. ASSUME NEW u, Scanned(bs, u) PROVE Rest(bs, u, g, segs)
    <3>1. u = s
      BY <2>5, ScannedOnce
    <3> QED BY <3>1
  <2> QED BY <2>2, <2>3, <2>4, <2>5
<1>4. ASSUME NEW i \in Nat, i + 1 <= Len(chunk), Good(i) PROVE Good(i + 1)
  <2>1. PICK b, as, cs, x, y, j :
          /\ b = chunk[i + 1] /\ as = Upto(bs, chunk, i) /\ cs = Upto(bs, chunk, i + 1)
          /\ x = run[i] /\ y = run[i + 1] /\ j = i + 1
    OBVIOUS
  <2>2. j \in 1..Len(chunk) /\ j - 1 = i /\ i \in 0..Len(chunk)
    BY <1>1, <1>4, <2>1
  <2>3. b \in Byte /\ as \in Seq(Byte) /\ cs = Append(as, b)
    BY <1>1, <1>4, <2>1, <2>2, UptoIs
  <2>4. y = FedOne(x, b) /\ x \in Results
    BY <1>2, <2>1, <2>2 DEF IsFeed
  <2>5. PICK f, one, mid : f = x.gate /\ one = x.segments /\ mid = segs \o one
    OBVIOUS
  <2>6. PICK r : r = GateFeedByte(f, b)
    OBVIOUS
  <2>7. PICK v : Scanned(as, v)
    BY <2>3, ScanExists
  <2>8. one \in Seq(Segments) /\ Rest(as, v, f, mid)
    BY <1>4, <2>1, <2>5, <2>7
  <2>9. PICK two : two = r.segments
    OBVIOUS
  <2>10. ASSUME NEW u, Scanned(cs, u)
         PROVE  two \in Seq(Segments) /\ Rest(cs, u, r.gate, mid \o two)
    BY <2>3, <2>6, <2>7, <2>8, <2>9, <2>10, FedByte
  <2>11. two \in Seq(Segments)
    <3>1. cs \in Seq(Byte)
      BY <2>3, AppendProperties
    <3>2. PICK u : Scanned(cs, u)
      BY <3>1, ScanExists
    <3> QED BY <2>10, <3>2
  <2>12. y.gate = r.gate /\ y.segments = one \o two
    BY <2>4, <2>5, <2>6, <2>9 DEF FedOne, Gated
  <2>13. mid \o two = segs \o (one \o two) /\ one \o two \in Seq(Segments)
    <3>1. (segs \o one) \o two = segs \o (one \o two)
      BY <1>1, <2>8, <2>11, Associates
    <3>2. one \o two \in Seq(Segments)
      BY <2>8, <2>11, ConcatProperties
    <3> QED BY <2>5, <3>1, <3>2
  <2>14. y.segments \in Seq(Segments)
         /\ \A u : Scanned(cs, u) => Rest(cs, u, y.gate, segs \o y.segments)
    BY <2>10, <2>12, <2>13
  <2> QED BY <2>1, <2>14
<1> HIDE DEF Good
<1>5. 0 \in T
  BY <1>3
<1>6. \A i \in Nat : i \in T => i + 1 \in T
  BY <1>1, <1>4
<1>7. Nat \subseteq T
  <2> HIDE DEF T
  <2> QED BY <1>5, <1>6, SetInduction
<1>8. Good(Len(chunk))
  BY <1>1, <1>7
<1>9. Upto(bs, chunk, Len(chunk)) = bs \o chunk
  BY UptoIs
<1> QED BY <1>2, <1>8, <1>9 DEF Good

-----------------------------------------------------------------------------
\* The end of the stream, and the reference.

\* Every byte classified, each as it should be.
Classified(bs, s, segs) ==
  /\ segs \in Seq(Segments)
  /\ Len(segs) = Len(bs)
  /\ \A n \in 1..Len(segs) : ~segs[n].raw <=> SafeAt(bs, s, n)

\* A carriage return that is held at the end is a control.
LEMMA FinishGoes ==
  ASSUME NEW bs \in Seq(Byte), NEW s, NEW g, NEW segs, Rest(bs, s, g, segs)
  PROVE  GateFinish(g).gate \in Gates /\ Classified(bs, s, segs \o GateFinish(g).segments)
<1>1. PICK n : n = Len(segs)
  OBVIOUS
<1>2. PICK r : r = GateFinish(g)
  OBVIOUS
<1>3. /\ n \in Nat /\ segs \in Seq(Segments) /\ g \in Gates
      /\ g.pending_carriage_return \in BOOLEAN
      /\ \A i \in 1..n : ~segs[i].raw <=> SafeAt(bs, s, i)
  BY <1>1, LenProperties, GateIs DEF Rest, Going, At
<1>4. CASE ~g.pending_carriage_return
  <2>1. r = Gated(g, <<>>)
    BY <1>2, <1>4 DEF GateFinish, FlushCarriageReturn
  <2>2. r.gate = g /\ r.segments = <<>>
    BY <2>1 DEF Gated
  <2>3. segs \o r.segments = segs
    BY <1>3, <2>2, ConcatEmptySeq
  <2>4. Len(segs) = Len(bs)
    BY <1>4 DEF Rest
  <2> QED BY <1>1, <1>2, <1>3, <2>2, <2>3, <2>4 DEF Classified
<1>5. CASE g.pending_carriage_return
  <2>1. PICK h : h = [g EXCEPT !.pending_carriage_return = FALSE]
    OBVIOUS
  <2>2. r = ProcessByte(h, "cr")
    BY <1>2, <1>5, <2>1 DEF GateFinish, FlushCarriageReturn
  <2>3. h \in Gates /\ "cr" \in Byte
    BY <1>3, <2>1, HoldIs DEF Byte
  <2>4. r.gate \in Gates
    BY <2>2, <2>3, ProcessByteIs
  <2>5. PICK new : new = Segment(TRUE, "cr")
    OBVIOUS
  <2>6. r.segments = <<new>>
    <3>1. r.segments = <<Segment(~OnPlainLine(h) \/ IsUnsafeControl("cr"), "cr")>>
      BY <2>2, <2>3, ProcessIs
    <3>2. (~OnPlainLine(h) \/ IsUnsafeControl("cr")) = TRUE
      BY DEF IsUnsafeControl
    <3> QED BY <2>5, <3>1, <3>2
  <2>7. new \in Segments /\ new.raw
    BY <2>3, <2>5 DEF Segment, Segments
  <2>8. PICK more : more = segs \o r.segments
    OBVIOUS
  <2>9. /\ more \in Seq(Segments) /\ Len(more) = n + 1 /\ more[n + 1] = new
        /\ \A i \in 1..n : more[i] = segs[i]
    <3>1. <<new>> \in Seq(Segments) /\ Len(<<new>>) = 1 /\ <<new>>[1] = new
      BY <2>7
    <3> QED BY <1>1, <1>3, <2>6, <2>8, <3>1, ConcatProperties
  <2>10. Len(bs) = n + 1 /\ bs[n + 1] = "cr"
    BY <1>1, <1>5 DEF Rest
  <2>11. ~SafeAt(bs, s, n + 1)
    BY <1>3, <2>10 DEF SafeAt, TaintAt, IsUnsafeControl
  <2>12. \A i \in 1..(n + 1) : ~more[i].raw <=> SafeAt(bs, s, i)
    <3>1. \A i \in 1..(n + 1) : i \in 1..n \/ i = n + 1
      BY <1>3
    <3> QED BY <1>3, <2>7, <2>9, <2>11, <3>1
  <2> QED BY <1>2, <2>4, <2>8, <2>9, <2>10, <2>12 DEF Classified
<1> QED BY <1>3, <1>4, <1>5

\* A bounded set of naturals has a maximum.
LEMMA MaxIs ==
  ASSUME NEW n \in Nat, NEW S \in SUBSET (0..n), S # {}
  PROVE  Max(S) \in S /\ \A y \in S : Max(S) >= y
<1> DEFINE T == {k \in Nat : \A U \in SUBSET (0..k) : U # {} => \E x \in U : \A y \in U : x >= y}
<1>1. 0 \in T
  <2>1. ASSUME NEW U \in SUBSET (0..0), U # {} PROVE \E x \in U : \A y \in U : x >= y
    <3>1. PICK x \in U : TRUE
      BY <2>1
    <3>2. \A y \in U : y = 0
      OBVIOUS
    <3> QED BY <3>1, <3>2
  <2> QED BY <2>1
<1>2. \A k \in Nat : k \in T => k + 1 \in T
  <2> SUFFICES ASSUME NEW k \in Nat, k \in T, NEW U \in SUBSET (0..(k + 1)), U # {}
               PROVE  \E x \in U : \A y \in U : x >= y
    OBVIOUS
  <2>1. CASE k + 1 \in U
    BY <2>1
  <2>2. CASE k + 1 \notin U
    <3>1. U \in SUBSET (0..k)
      BY <2>2
    <3> QED BY <3>1
  <2> QED BY <2>1, <2>2
<1>3. Nat \subseteq T
  <2> HIDE DEF T
  <2> QED BY <1>1, <1>2, SetInduction
<1>4. \E x \in S : \A y \in S : x >= y
  BY <1>3
<1> QED BY <1>4 DEF Max

\* The flags mean what the reference says: an overflow,
LEMMA OverflowedIs ==
  ASSUME NEW s, NEW n
  PROVE  Overflowed(s, n) <=> Dead(s, n)
  BY DEF Overflowed, Completed, Dead

\* the alternate screen,
LEMMA InAlternateScreenIs ==
  ASSUME NEW s, NEW n \in Nat
  PROVE  InAlternateScreen(s, n) <=> Alt(s, n)
<1> DEFINE switches == {k \in 1..n : s[k].event \in {"enter", "leave"}}
<1>1. InAlternateScreen(s, n) <=> switches # {} /\ s[Max(switches)].event = "enter"
  BY DEF InAlternateScreen, Completed
<1>2. ASSUME NEW j \in 1..n PROVE j \in switches <=> Switch(s, j)
  BY DEF Switch
<1>3. ASSUME switches # {}
      PROVE  Max(switches) \in switches /\ \A y \in switches : Max(switches) >= y
  <2>1. switches \in SUBSET (0..n)
    OBVIOUS
  <2> HIDE DEF switches
  <2> QED BY <1>3, <2>1, MaxIs
<1>4. switches \subseteq 1..n
  OBVIOUS
<1>5. \A k \in 1..n : s[k].event = "enter" => k \in switches
  OBVIOUS
<1> HIDE DEF switches
<1>6. ASSUME switches # {}, s[Max(switches)].event = "enter" PROVE Alt(s, n)
  <2>1. PICK k : k = Max(switches)
    OBVIOUS
  <2>2. k \in 1..n /\ s[k].event = "enter" /\ \A y \in switches : k >= y
    BY <1>3, <1>4, <1>6, <2>1
  <2>3. \A j \in (k + 1)..n : j \in 1..n /\ ~(k >= j)
    BY <2>2
  <2> QED BY <1>2, <2>2, <2>3 DEF Alt
<1>7. ASSUME Alt(s, n) PROVE switches # {} /\ s[Max(switches)].event = "enter"
  <2>1. PICK k \in 1..n : s[k].event = "enter" /\ \A j \in (k + 1)..n : ~Switch(s, j)
    BY <1>7 DEF Alt
  <2>2. k \in switches
    BY <1>5, <2>1
  <2>3. PICK m : m = Max(switches)
    OBVIOUS
  <2>4. m \in switches /\ m \in 1..n /\ m >= k
    BY <1>3, <1>4, <2>2, <2>3
  <2>5. m = k \/ m \in (k + 1)..n
    BY <2>4
  <2> QED BY <1>2, <2>1, <2>2, <2>3, <2>4, <2>5
<1> QED BY <1>1, <1>6, <1>7

\* and a plain line.
LEMMA PlainLineIs ==
  ASSUME NEW s, NEW n \in 1..Len(fed), fed \in Seq(Byte)
  PROVE  BelongsToPlainLine(s, n) <=> SafeAt(fed, s, n)
<1>1. PICK m : m = n - 1
  OBVIOUS
<1>2. Len(fed) \in Nat /\ n \in Nat /\ m \in Nat /\ m < Len(fed) /\ n = m + 1
  BY <1>1, LenProperties
<1>3. \A k \in Nat : EndsLine(s, k) <=> LineEnds(fed, s, k)
  BY InAlternateScreenIs DEF EndsLine, LineEnds
<1> DEFINE S == {0} \cup {k \in 1..(n - 1) : EndsLine(s, k)}
<1>4. PICK start : start = Max(S)
  OBVIOUS
<1>5. start \in S /\ \A k \in S : start >= k
  <2>1. S \in SUBSET (0..m) /\ S # {}
    BY <1>1, <1>2
  <2> HIDE DEF S
  <2> QED BY <1>2, <1>4, <2>1, MaxIs
<1>6. /\ start \in 0..m /\ (start = 0 \/ LineEnds(fed, s, start))
      /\ \A k \in 1..m : LineEnds(fed, s, k) => start >= k
  BY <1>1, <1>2, <1>3, <1>5
<1>7. LineStart(s, n) = start
  BY <1>4 DEF LineStart
<1> HIDE DEF S
<1>8. \A k : Taints(k) <=> TaintAt(fed, k)
  BY DEF Taints, TaintAt
<1>9. \A k \in 1..m : Settled(fed, k) <=> TaintAt(fed, k)
  BY <1>2 DEF Settled, TaintAt
<1>10. Dirty(fed, s, m) <=> \E k \in (start + 1)..m : TaintAt(fed, k)
  <2>1. ASSUME Dirty(fed, s, m) PROVE \E k \in (start + 1)..m : TaintAt(fed, k)
    <3>1. PICK k \in 1..m : Settled(fed, k) /\ \A j \in k..m : ~LineEnds(fed, s, j)
      BY <2>1 DEF Dirty
    <3>2. start < k
      BY <1>2, <1>6, <3>1
    <3>3. k \in (start + 1)..m
      BY <1>2, <1>6, <3>2
    <3> QED BY <1>9, <3>1, <3>3
  <2>2. ASSUME NEW k \in (start + 1)..m, TaintAt(fed, k) PROVE Dirty(fed, s, m)
    <3>1. k \in 1..m
      BY <1>2, <1>6
    <3>2. \A j \in k..m : j \in 1..m /\ ~(start >= j)
      BY <1>2, <1>6, <3>1
    <3> QED BY <1>6, <1>9, <2>2, <3>1, <3>2 DEF Dirty
  <2> QED BY <2>1, <2>2
<1>11. \A k : k \in (start + 1)..n <=> (k \in (start + 1)..m \/ k = n)
  BY <1>2, <1>6
<1>12. (\A k \in (LineStart(s, n) + 1)..n : ~Taints(k)) <=> ~Dirty(fed, s, m) /\ ~TaintAt(fed, n)
  BY <1>7, <1>8, <1>10, <1>11
<1>13. /\ Overflowed(s, n - 1) <=> Dead(s, m)
       /\ InAlternateScreen(s, n - 1) <=> Alt(s, m)
  BY <1>1, <1>2, OverflowedIs, InAlternateScreenIs
<1> QED BY <1>1, <1>12, <1>13 DEF BelongsToPlainLine, SafeAt, Plain

-----------------------------------------------------------------------------
\* The inductive invariant.

\* What is true of the gate at all times.
GateInv ==
  /\ fed \in Seq(Byte) /\ reads \in 0..MaxReads /\ finished \in BOOLEAN
  /\ gate \in Gates
  /\ ~finished => Rest(fed, Scan, gate, segments)
  /\ finished => Classified(fed, Scan, segments)

\* Scan is one of the bytes fed after a step, too.
LEMMA ScanIsNext == (fed \in Seq(Byte) => Scanned(fed, Scan))'
<1>1. fed \in Seq(Byte) => Scanned(fed, Scan)
  BY ScanIs
<1> QED BY <1>1, PTL

\* It holds at first.
LEMMA InitIsInv == Init => GateInv
<1> SUFFICES ASSUME Init PROVE GateInv
  OBVIOUS
<1>1. PICK s, segs, g, bs : s = Scan /\ segs = segments /\ g = gate /\ bs = fed
  OBVIOUS
<1>2. bs = <<>> /\ segs = <<>> /\ g = GateInit /\ reads = 0 /\ finished = FALSE
  BY <1>1 DEF Init
<1>3. <<>> \in Seq(Byte) /\ <<>> \in Seq(Segments)
  OBVIOUS
<1>4. s[0] = Parsed(Ground, "none")
  BY <1>1, <1>2, <1>3, ScanIs DEF Scanned
<1>5. /\ g \in Gates /\ ~g.raw_until_newline /\ ~g.alternate_screen
      /\ ~g.pending_carriage_return /\ ~g.parser_fail_closed /\ g.parser = Ground
  BY <1>2 DEF GateInit, Gates, Parsers, ParserType
<1>6. At(bs, s, g, 0)
  BY <1>4, <1>5, NothingYet DEF At, Parsed, IsGround, Ground
<1>7. Len(segs) = 0 /\ Len(bs) = 0
  BY <1>2
<1>8. Rest(bs, s, g, segs)
  BY <1>2, <1>3, <1>5, <1>6, <1>7 DEF Rest, Going
<1>9. fed \in Seq(Byte) /\ gate \in Gates
  BY <1>1, <1>2, <1>3, <1>5
<1>10. reads \in 0..MaxReads /\ finished = FALSE
  BY <1>2, ReadsAssumption
<1>11. Rest(fed, Scan, gate, segments)
  BY <1>1, <1>8
<1> QED BY <1>9, <1>10, <1>11 DEF GateInv

\* A chunk keeps it.
LEMMA FeedKeepsInv ==
  ASSUME GateInv, NEW chunk \in Chunks, Feed(chunk)
  PROVE  GateInv'
<1>1. chunk \in Seq(Byte)
  BY ReadsAssumption
<1>2. PICK s, segs, g, bs : s = Scan /\ segs = segments /\ g = gate /\ bs = fed
  OBVIOUS
<1>3. PICK r : r = GateFeed(g, chunk)
  OBVIOUS
<1>4. PICK cs : cs = bs \o chunk
  OBVIOUS
<1>5. /\ ~finished /\ reads < MaxReads /\ reads' = reads + 1 /\ finished' = FALSE
      /\ gate' = r.gate /\ segments' = segs \o r.segments /\ fed' = cs
  BY <1>2, <1>3, <1>4 DEF Feed, GateInv
<1>6. bs \in Seq(Byte) /\ Scanned(bs, s) /\ Rest(bs, s, g, segs)
  BY <1>2, <1>5, ScanIs DEF GateInv
<1>7. cs \in Seq(Byte)
  BY <1>1, <1>4, <1>6, ConcatProperties
<1>8. PICK t : t = Scan'
  OBVIOUS
<1>9. Scanned(cs, t)
  BY <1>5, <1>7, <1>8, ScanIsNext
<1>10. r.segments \in Seq(Segments) /\ Rest(cs, t, r.gate, segs \o r.segments)
  BY <1>1, <1>3, <1>4, <1>6, <1>9, ChunkGoes
<1>11. r.gate \in Gates
  BY <1>10 DEF Rest, Going, At
<1>12. reads' \in 0..MaxReads
  BY <1>5, ReadsAssumption DEF GateInv
<1> QED BY <1>5, <1>7, <1>8, <1>10, <1>11, <1>12 DEF GateInv

\* So does the end.
LEMMA FinishKeepsInv ==
  ASSUME GateInv, Finish
  PROVE  GateInv'
<1>1. PICK s, segs, g, bs : s = Scan /\ segs = segments /\ g = gate /\ bs = fed
  OBVIOUS
<1>2. PICK r : r = GateFinish(g)
  OBVIOUS
<1>3. /\ ~finished /\ finished' = TRUE /\ reads' = reads /\ fed' = bs
      /\ gate' = r.gate /\ segments' = segs \o r.segments
  BY <1>1, <1>2 DEF Finish
<1>4. bs \in Seq(Byte) /\ Scanned(bs, s) /\ Rest(bs, s, g, segs)
  BY <1>1, <1>3, ScanIs DEF GateInv
<1>5. PICK t : t = Scan'
  OBVIOUS
<1>6. t = s
  <2>1. Scanned(bs, t)
    BY <1>3, <1>4, <1>5, ScanIsNext
  <2> QED BY <1>4, <2>1, ScannedOnce
<1>7. r.gate \in Gates /\ Classified(bs, s, segs \o r.segments)
  BY <1>2, <1>4, FinishGoes
<1> QED BY <1>1, <1>3, <1>4, <1>5, <1>6, <1>7 DEF GateInv

\* It is always true.
LEMMA AlwaysInv == Spec => []GateInv
<1>1. GateInv /\ [Next]_vars => GateInv'
  <2> SUFFICES ASSUME GateInv, [Next]_vars PROVE GateInv'
    OBVIOUS
  <2>1. ASSUME NEW chunk \in Chunks, Feed(chunk) PROVE GateInv'
    BY <2>1, FeedKeepsInv
  <2>2. CASE Finish
    BY <2>2, FinishKeepsInv
  <2>3. CASE UNCHANGED vars
    BY <2>3 DEF vars, GateInv, Scan
  <2> QED BY <2>1, <2>2, <2>3 DEF Next
<1> QED BY <1>1, InitIsInv, PTL DEF Spec

\* It gives the types,
LEMMA InvIsTyped == GateInv => TypeOK
<1> SUFFICES ASSUME GateInv PROVE TypeOK
  OBVIOUS
<1>1. segments \in Seq(Segments)
  BY DEF GateInv, Rest, Going, Classified
<1>2. \A i \in DOMAIN segments : segments[i].raw \in BOOLEAN /\ segments[i].byte \in Byte
  <2>1. \A i \in DOMAIN segments : segments[i] \in Segments
    BY <1>1, LenProperties, ElementOfSeq
  <2> QED BY <2>1 DEF Segments
<1>3. \/ gate.parser \in ParserType
      \/ gate.parser.st = "csi" /\ Len(gate.parser.bytes) \in 2..MaxControl
  <2>1. gate.parser \in Parsers
    BY GateIs DEF GateInv
  <2> QED BY <2>1 DEF Parsers, Csi
<1> QED BY <1>2, <1>3, GateIs DEF GateInv, TypeOK

\* and that what was said of each byte is what the reference says.
LEMMA InvIsSafe == GateInv => SafeExactlyOnPlainLines
<1> SUFFICES ASSUME GateInv PROVE SafeExactlyOnPlainLines
  OBVIOUS
<1>1. PICK s : s = Scan
  OBVIOUS
<1>2. fed \in Seq(Byte) /\ Len(fed) \in Nat /\ segments \in Seq(Segments) /\ Len(segments) \in Nat
  BY LenProperties DEF GateInv, Rest, Going, Classified
<1>3. /\ Len(segments) <= Len(fed)
      /\ \A n \in 1..Len(segments) : ~segments[n].raw <=> SafeAt(fed, s, n)
  <2>1. CASE finished
    BY <1>1, <1>2, <2>1 DEF GateInv, Classified
  <2>2. CASE ~finished
    <3>1. Rest(fed, s, gate, segments) /\ gate \in Gates
      BY <1>1, <2>2 DEF GateInv
    <3>2. gate.pending_carriage_return \in BOOLEAN
      BY <3>1, GateIs
    <3> QED BY <1>2, <3>1, <3>2 DEF Rest, Going
  <2> QED BY <2>1, <2>2 DEF GateInv
<1>4. ASSUME NEW n \in DOMAIN segments
      PROVE  ~segments[n].raw <=> BelongsToPlainLine(s, n)
  <2>1. n \in 1..Len(segments) /\ n \in 1..Len(fed)
    BY <1>2, <1>3, <1>4, LenProperties
  <2> QED BY <1>2, <1>3, <2>1, PlainLineIs
<1> QED BY <1>1, <1>4 DEF SafeExactlyOnPlainLines

(* The flags are Booleans and an open control sequence is never longer     *)
(* than the bound, whatever is fed (ControlParser::feed).                  *)
THEOREM AlwaysTyped == Spec => []TypeOK
  BY AlwaysInv, InvIsTyped, PTL

(* Every byte is safe exactly when it stands on a plain line of the        *)
(* primary screen, for every input, however it is cut into chunks, and     *)
(* every bound on control sequences: no byte of a redrawn line, of a       *)
(* control sequence or of the alternate screen is offered to detection,    *)
(* and no plain byte withheld (feed, process_byte, finish).                *)
THEOREM AlwaysSafeExactlyOnPlainLines == Spec => []SafeExactlyOnPlainLines
  BY AlwaysInv, InvIsSafe, PTL
================================================================================
