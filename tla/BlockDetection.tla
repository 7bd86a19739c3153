---------------------------- MODULE BlockDetection ----------------------------
(***************************************************************************)
(* The operators of src/detector.rs: FencedDetector consumes safe text a   *)
(* byte at a time and divides it into passthrough bytes and complete       *)
(* semantic blocks. A block is opened by a line that is exactly one of the *)
(* opener patterns and closed by a line that is exactly its fence.         *)
(***************************************************************************)
EXTENDS Naturals, Sequences

CONSTANTS Openers,  \* build_openers: records [pattern, closing], pattern ends in "lf"
          MaxBlock  \* max_block_bytes

ASSUME MaxBlockAssumption == MaxBlock \in Nat \ {0}

Passthrough(bytes) == [type |-> "passthrough", bytes |-> bytes]
Semantic(source, body) == [type |-> "semantic", bytes |-> source, body |-> body]

LineStart(candidate) == [st |-> "line_start", source |-> candidate]
PassthroughLine == [st |-> "passthrough_line", source |-> <<>>]
Block(closing, source, body, line) ==
  [st |-> "block", closing |-> closing, source |-> source, body |-> body, line |-> line]

DetectorInit == LineStart(<<>>)

\* The detector after some input and the items that input released.
Detected(detector, items) == [detector |-> detector, items |-> items]

\* push_passthrough: adjacent passthrough bytes are one item.
PushPassthrough(items, bytes) ==
  IF items # <<>> /\ items[Len(items)].type = "passthrough"
  THEN [items EXCEPT ![Len(items)].bytes = @ \o bytes]
  ELSE Append(items, Passthrough(bytes))

ExactOpeners(candidate) == {rule \in Openers : rule.pattern = candidate}

OpenerPrefix(candidate) ==
  \E rule \in Openers : /\ Len(candidate) <= Len(rule.pattern)
                        /\ SubSeq(rule.pattern, 1, Len(candidate)) = candidate

\* Give the bytes back as passthrough; the line they end on may go on.
Abandon(items, bytes) ==
  Detected(IF bytes[Len(bytes)] = "lf" THEN LineStart(<<>>) ELSE PassthroughLine,
           PushPassthrough(items, bytes))

StripSuffix(line, b) ==
  IF line # <<>> /\ line[Len(line)] = b THEN SubSeq(line, 1, Len(line) - 1) ELSE line
\* Mutant: CRLF is not a line ending.
StripLineFeed(line) == StripSuffix(line, "lf")
StripEol(line) == StripSuffix(StripSuffix(line, "lf"), "cr")

FeedLineStart(detector, items, b) ==
  LET candidate == Append(detector.source, b)
  IN IF ExactOpeners(candidate) # {}
     THEN LET rule == CHOOSE r \in ExactOpeners(candidate) : TRUE
          IN Detected(Block(rule.closing, candidate, <<>>, <<>>), items)
     ELSE IF OpenerPrefix(candidate) THEN Detected(LineStart(candidate), items)
     ELSE Abandon(items, candidate)

\* Mutant: one byte too many is retained.
OversizeLate(source) == Len(source) > MaxBlock + 1
Oversize(source) == Len(source) > MaxBlock

FeedBlock(detector, items, b) ==
  LET source == Append(detector.source, b)
      line   == Append(detector.line, b)
  IN CASE Oversize(source) -> Abandon(items, source)
       [] ~Oversize(source) /\ b = "lf" /\ StripEol(line) = detector.closing ->
            Detected(LineStart(<<>>), Append(items, Semantic(source, detector.body)))
       [] ~Oversize(source) /\ b = "lf" /\ StripEol(line) # detector.closing ->
            Detected(Block(detector.closing, source, detector.body \o line, <<>>), items)
       [] OTHER ->
            Detected(Block(detector.closing, source, detector.body, line), items)

\* One iteration of the loop of FencedDetector::feed.
DetectorFeedByte(detector, items, b) ==
  CASE detector.st = "line_start" -> FeedLineStart(detector, items, b)
    [] detector.st = "passthrough_line" -> Abandon(items, <<b>>)
    [] detector.st = "block" -> FeedBlock(detector, items, b)

\* FencedDetector::feed
DetectorFeed(detector, input) ==
  LET run[i \in 0..Len(input)] ==
        IF i = 0 THEN Detected(detector, <<>>)
        ELSE LET before == run[i - 1]
             IN DetectorFeedByte(before.detector, before.items, input[i])
  IN run[Len(input)]

\* FencedDetector::finish: a candidate or an unclosed block is given back.
DetectorFinish(detector) ==
  Detected(LineStart(<<>>),
           IF detector.source = <<>> THEN <<>> ELSE <<Passthrough(detector.source)>>)

\* The bytes the detector has accepted and not yet released.
DetectorHeld(detector) == detector.source
=============================================================================
