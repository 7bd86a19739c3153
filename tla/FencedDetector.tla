---------------------------- MODULE FencedDetector ----------------------------
(***************************************************************************)
(* FencedDetector of src/detector.rs as a state machine over safe text     *)
(* that arrives in chunks cut anywhere, compared with a declarative        *)
(* reading of the whole text, line by line.                                *)
(***************************************************************************)
EXTENDS BlockDetection, Pieces, FiniteSets, FiniteSetsExt

CONSTANTS Byte,     \* the bytes of the text, line endings among them
          Chunks,   \* the pieces of safe text a feed may receive
          MaxReads  \* bound: chunks fed before the stream ends

VARIABLES detector,  \* the FencedDetector
          fed,       \* history: every byte fed so far
          released,  \* history: number of bytes released so far
          blocks,    \* history: the semantic blocks released, with their place
          reads,     \* chunks fed so far
          finished   \* finish() was called

vars == <<detector, fed, released, blocks, reads, finished>>

ASSUME TextAssumption == {"lf", "cr"} \subseteq Byte /\ Chunks \subseteq Seq(Byte)

\* An opener is one line with its ending; no fence is empty or ends in a carriage
\* return (build_openers, add_rule).
ASSUME OpenersAssumption ==
  \A rule \in Openers :
    /\ rule.pattern \in Seq(Byte) /\ rule.pattern # <<>>
    /\ \A i \in DOMAIN rule.pattern : rule.pattern[i] = "lf" <=> i = Len(rule.pattern)
    /\ rule.closing \in Seq(Byte) /\ rule.closing # <<>>
    /\ rule.closing[Len(rule.closing)] # "cr"

\* The bytes released before the i-th item.
Offset(items, i) == released + Len(TextOf(SubSeq(items, 1, i - 1)))

\* The semantic blocks among the items, each with the place of its source.
Located(items) ==
  {[first |-> Offset(items, i) + 1, last |-> Offset(items, i) + Len(items[i].bytes),
    body |-> items[i].body] :
      i \in {j \in DOMAIN items : items[j].type = "semantic"}}

Release(items) ==
  /\ released' = released + Len(TextOf(items))
  /\ blocks' = blocks \cup Located(items)

Init == /\ detector = DetectorInit
        /\ fed = <<>>
        /\ released = 0
        /\ blocks = {}
        /\ reads = 0
        /\ finished = FALSE

\* FencedDetector::feed
Feed(chunk) ==
  /\ ~finished
  /\ reads < MaxReads
  /\ reads' = reads + 1
  /\ fed' = fed \o chunk
  /\ LET result == DetectorFeed(detector, chunk)
     IN detector' = result.detector /\ Release(result.items)
  /\ UNCHANGED finished

\* FencedDetector::finish
Finish ==
  /\ ~finished
  /\ LET result == DetectorFinish(detector)
     IN detector' = result.detector /\ Release(result.items)
  /\ finished' = TRUE
  /\ UNCHANGED <<fed, reads>>

Next == (\E chunk \in Chunks : Feed(chunk)) \/ Finish

Spec == Init /\ [][Next]_vars
-----------------------------------------------------------------------------
(* However the stream is cut, what the detector retains never exceeds both *)
(* the block bound and every opener (max_block_bytes).                     *)
RetentionBounded ==
  \/ Len(DetectorHeld(detector)) <= MaxBlock
  \/ \E rule \in Openers : Len(DetectorHeld(detector)) <= Len(rule.pattern)
-----------------------------------------------------------------------------
(* The reference: the blocks of a text, read line by line.                 *)

LineEnds(text, from) == {k \in from..Len(text) : text[k] = "lf"}

\* The position after the line that holds position k; past the end if it is open.
NextLine(text, k) ==
  IF LineEnds(text, k) = {} THEN Len(text) + 1 ELSE Min(LineEnds(text, k)) + 1

\* Where the line, begun at or after position from, that holds position k begins.
LineFrom(text, from, k) ==
  Max({from} \cup {j + 1 : j \in {i \in LineEnds(text, from) : i < k}})

\* Position k ends a line that is the fence.
ClosesAt(text, rule, from, k) ==
  SubSeq(text, LineFrom(text, from, k), k)
    \in {rule.closing \o <<"lf">>, rule.closing \o <<"cr", "lf">>}

OpenersAt(text, p) ==
  {rule \in Openers : /\ p + Len(rule.pattern) - 1 <= Len(text)
                      /\ SubSeq(text, p, p + Len(rule.pattern) - 1) = rule.pattern}

\* The block opened at line start p, its body begun at from and its fence ended at k.
BlockAt(text, p, from, k) ==
  [first |-> p, last |-> k, body |-> SubSeq(text, from, LineFrom(text, from, k) - 1)]

\* The blocks among the lines from the first on. A block that outgrows
\* MaxBlock is given up in the middle of a line, and reading resumes at the next.
BlocksOf(text) ==
  LET blocksFrom[p \in 1..(Len(text) + 1)] ==
        IF p > Len(text) THEN {}
        ELSE IF OpenersAt(text, p) = {} THEN blocksFrom[NextLine(text, p)]
        ELSE LET rule    == CHOOSE r \in OpenersAt(text, p) : TRUE
                 from    == p + Len(rule.pattern)
                 limit   == Max({p + MaxBlock - 1, from - 1})
                 endings == {k \in from..Len(text) : k <= limit /\ ClosesAt(text, rule, from, k)}
             IN IF endings # {} THEN {BlockAt(text, p, from, Min(endings))}
                                      \cup blocksFrom[Min(endings) + 1]
                ELSE IF limit >= Len(text) THEN {}
                ELSE blocksFrom[NextLine(text, limit + 1)]
  IN blocksFrom[1]

(* The semantic blocks released are exactly those a reader of the complete *)
(* text would find: opened by a whole line, closed by the first whole line *)
(* that is its fence, no larger than the bound, with the lines between     *)
(* them as the body; an oversize block hides no later one (feed).          *)
BlocksMatchReference == blocks = BlocksOf(fed)
=============================================================================
