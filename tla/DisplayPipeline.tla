---------------------------- MODULE DisplayPipeline ----------------------------
(***************************************************************************)
(* DisplayPipeline of src/pipeline.rs: the terminal gate, the block        *)
(* detector, the renderer and the rendering toggle composed on the path of *)
(* the child's output to the display. The renderer is a choice of outcome  *)
(* per block; a concurrent cancellation is an action of its own.           *)
(***************************************************************************)
EXTENDS TerminalControl, BlockDetection, Pieces

CONSTANTS Chunks,     \* what one read of the child's output may return
          MaxPending, \* MAX_PENDING_OUTPUT_BYTES, in bytes of the model
          Strict      \* strict: a render failure is an error

ASSUME PendingAssumption == MaxPending \in Nat /\ Strict \in BOOLEAN

\* No opener begins, and no fence ends, with a carriage return (build_openers).
ASSUME TextAssumption ==
  /\ Chunks \subseteq Seq(Byte)
  /\ \A rule \in Openers :
       /\ rule.pattern \in Seq(Byte) \ {<<>>} /\ rule.pattern[1] # "cr"
       /\ rule.closing \in Seq(Byte) \ {<<>>} /\ rule.closing[Len(rule.closing)] # "cr"

VARIABLES gate, detector,
          rendering_enabled, requested_rendering_enabled,
          safe_line_start, passthrough_until_newline,
          cancelled,  \* RenderCancellation
          status,     \* "open", "closed" after finish, "failed" after an error
          shown,      \* the writes of the last call, in order
          owed,       \* history: bytes received and not on the display yet
          stale,      \* history: how many of them predate the last resume
          last_shown  \* history: the source byte displayed last

vars == <<gate, detector, rendering_enabled, requested_rendering_enabled,
          safe_line_start, passthrough_until_newline, cancelled, status, shown, owed, stale, last_shown>>
-----------------------------------------------------------------------------
(* The working state of one call of feed or finish. *)

Start == [gate |-> gate, detector |-> detector, enabled |-> rendering_enabled,
          line_start |-> safe_line_start, passthrough |-> passthrough_until_newline,
          cancelled |-> cancelled, writes |-> <<>>, resolved |-> 0, failed |-> FALSE]

Write(p, how, bytes) ==
  IF p.failed THEN p ELSE [p EXCEPT !.writes = Append(@, [how |-> how, bytes |-> bytes])]

\* Bytes of the items after the i-th: the output held behind that block.
PendingAfter(items, i) == Len(TextOf(SubSeq(items, i + 1, Len(items))))

\* Mutant: a refused block leaves the cancellation in place.
EmitBlockStillCancelled(p, block, pending, renders) ==
  LET attempted == ~p.cancelled /\ pending <= MaxPending
      q == [p EXCEPT !.resolved = @ + 1]
  IN IF attempted /\ renders[q.resolved] THEN Write(q, "rendered", block.bytes)
     ELSE IF Strict THEN [q EXCEPT !.failed = TRUE]
     ELSE Write(q, "fallback", block.bytes)

\* The Semantic arm of emit. renders[n]: the n-th attempt of this call succeeds.
EmitBlock(p, block, pending, renders) ==
  LET attempted == ~p.cancelled /\ pending <= MaxPending
      q == [p EXCEPT !.cancelled = FALSE, !.resolved = @ + 1]
  IN IF attempted /\ renders[q.resolved] THEN Write(q, "rendered", block.bytes)
     ELSE IF Strict THEN [q EXCEPT !.failed = TRUE]
     ELSE Write(q, "fallback", block.bytes)

Emit(p, items, renders) ==
  LET run[i \in 0..Len(items)] ==
        IF i = 0 THEN p
        ELSE LET before == run[i - 1]
             IN IF before.failed THEN before
                ELSE IF items[i].type = "semantic"
                THEN EmitBlock(before, items[i], PendingAfter(items, i), renders)
                ELSE Write(before, "verbatim", items[i].bytes)
  IN run[Len(items)]

EmitExactSource(p, items) ==
  LET run[i \in 0..Len(items)] ==
        IF i = 0 THEN p ELSE Write(run[i - 1], "verbatim", items[i].bytes)
  IN run[Len(items)]

\* detector.finish(), displayed as the mode demands.
FlushDetector(p, exact, renders) ==
  LET released == DetectorFinish(p.detector)
      q == [p EXCEPT !.detector = released.detector]
  IN IF exact THEN EmitExactSource(q, released.items) ELSE Emit(q, released.items, renders)

\* Mutant: a pause does not flush the detector.
ApplyRenderingStateUnflushed(p) ==
  IF p.enabled = requested_rendering_enabled THEN p
  ELSE IF ~requested_rendering_enabled THEN [p EXCEPT !.enabled = FALSE]
  ELSE [p EXCEPT !.passthrough = ~p.line_start, !.enabled = TRUE]
ApplyRenderingState(p) ==
  IF p.enabled = requested_rendering_enabled THEN p
  ELSE IF ~requested_rendering_enabled
  THEN [FlushDetector(p, TRUE, <<>>) EXCEPT !.enabled = FALSE]
  ELSE [p EXCEPT !.passthrough = ~p.line_start, !.enabled = TRUE]

\* Mutant: every piece is taken to end a line.
UpdateSafeLineStartAlways(p, bytes) == [p EXCEPT !.line_start = TRUE, !.passthrough = FALSE]
UpdateSafeLineStart(p, bytes) ==
  LET newline == bytes[Len(bytes)] = "lf"
  IN [p EXCEPT !.line_start = newline, !.passthrough = @ /\ ~newline]

\* The part of the text that stays passthrough after a resume in mid-line.
PassthroughPrefix(p, bytes) ==
  LET newlines == {i \in DOMAIN bytes : bytes[i] = "lf"}
  IN IF ~p.passthrough THEN 0
     ELSE IF newlines = {} THEN Len(bytes)
     ELSE CHOOSE i \in newlines : \A j \in newlines : i <= j

EmitRenderableText(p, bytes, renders) ==
  LET split  == PassthroughPrefix(p, bytes)
      opened == IF split = 0 THEN p
                ELSE [Write(p, "verbatim", SubSeq(bytes, 1, split)) EXCEPT
                        !.passthrough = (bytes[split] # "lf")]
      result == DetectorFeed(p.detector, SubSeq(bytes, split + 1, Len(bytes)))
  IN Emit([opened EXCEPT !.detector = result.detector], result.items, renders)

\* Mutant: raw segments reach the detector too.
EmitSegmentAsText(p, segment, renders) ==
  LET q == IF p.enabled THEN EmitRenderableText(p, segment.bytes, renders)
           ELSE Write(p, "verbatim", segment.bytes)
  IN IF q.failed THEN q ELSE UpdateSafeLineStart(q, segment.bytes)
EmitSegment(p, segment, renders) ==
  LET q == IF segment.raw
           THEN Write(FlushDetector(p, ~p.enabled, renders), "raw", segment.bytes)
           ELSE IF p.enabled THEN EmitRenderableText(p, segment.bytes, renders)
           ELSE Write(p, "verbatim", segment.bytes)
  IN IF q.failed THEN q ELSE UpdateSafeLineStart(q, segment.bytes)

\* push_segment: classified bytes gathered into runs of one kind.
Runs(segments) ==
  LET push(segment, runs) ==
        IF runs # <<>> /\ runs[Len(runs)].raw = segment.raw
        THEN [runs EXCEPT ![Len(runs)].bytes = Append(@, segment.byte)]
        ELSE Append(runs, [raw |-> segment.raw, bytes |-> <<segment.byte>>])
      run[i \in 0..Len(segments)] ==
        IF i = 0 THEN <<>> ELSE push(segments[i], run[i - 1])
  IN run[Len(segments)]

EmitSegments(p, gated, renders) ==
  LET runs == Runs(gated.segments)
      run[i \in 0..Len(runs)] ==
        IF i = 0 THEN [p EXCEPT !.gate = gated.gate]
        ELSE IF run[i - 1].failed THEN run[i - 1]
        ELSE EmitSegment(run[i - 1], runs[i], renders)
  IN run[Len(runs)]

FeedResult(chunk, renders) ==
  LET applied == ApplyRenderingState(Start)
  IN EmitSegments(applied, GateFeed(applied.gate, chunk), renders)

\* Mutant: the gate is not drained.
FinishResultUndrained(renders) ==
  LET applied == ApplyRenderingState(Start)
  IN FlushDetector(applied, ~applied.enabled, renders)
FinishResult(renders) ==
  LET applied == ApplyRenderingState(Start)
      drained == EmitSegments(applied, GateFinish(applied.gate), renders)
  IN IF drained.failed THEN drained ELSE FlushDetector(drained, ~drained.enabled, renders)
-----------------------------------------------------------------------------
(* The history of a call: each piece shown is noted with the source byte   *)
(* displayed before it, and whether all of it was received since rendering *)
(* was last enabled. An I/O error may stop the display after any write.    *)

Note(p, text, written) ==
  LET old == IF p.enabled /\ ~rendering_enabled THEN Len(owed) ELSE stale
      Offset(i) == Len(TextOf(SubSeq(p.writes, 1, i - 1)))
      total == Offset(written + 1)
  IN /\ shown' = [i \in 1..written |->
                    [how |-> p.writes[i].how, bytes |-> p.writes[i].bytes,
                     after |-> IF Offset(i) = 0 THEN last_shown ELSE text[Offset(i)],
                     fresh |-> Offset(i) >= old]]
     /\ owed' = SubSeq(text, total + 1, Len(text))
     /\ stale' = IF old > total THEN old - total ELSE 0
     /\ last_shown' = IF total = 0 THEN last_shown ELSE text[total]

\* The fields of the pipeline after a call, and what reached the display.
Commit(p, text, outcome) ==
  /\ gate' = p.gate
  /\ detector' = p.detector
  /\ rendering_enabled' = p.enabled
  /\ safe_line_start' = p.line_start
  /\ passthrough_until_newline' = p.passthrough
  /\ cancelled' = p.cancelled
  /\ \/ /\ status' = IF p.failed THEN "failed" ELSE outcome
        /\ Note(p, text, Len(p.writes))
     \/ /\ status' = "failed"  \* the display refused the next write
        /\ \E written \in 0..(Len(p.writes) - 1) : Note(p, text, written)
  /\ UNCHANGED requested_rendering_enabled

\* Success or failure of each attempt of a call (at most two blocks per read).
Renders == [1..2 -> BOOLEAN]

Init ==
  /\ gate = GateInit
  /\ detector = DetectorInit
  /\ rendering_enabled = TRUE
  /\ requested_rendering_enabled = TRUE
  /\ safe_line_start = TRUE
  /\ passthrough_until_newline = FALSE
  /\ cancelled = FALSE
  /\ status = "open"
  /\ shown = <<>>
  /\ owed = <<>>
  /\ stale = 0
  /\ last_shown = "lf"

\* DisplayPipeline::feed
Feed(chunk) ==
  /\ status = "open"
  /\ \E renders \in Renders : Commit(FeedResult(chunk, renders), owed \o chunk, "open")

\* DisplayPipeline::finish
Finish ==
  /\ status = "open"
  /\ \E renders \in Renders : Commit(FinishResult(renders), owed, "closed")

\* DisplayPipeline::set_rendering_enabled
SetRenderingEnabled(enabled) ==
  /\ status = "open"
  /\ enabled # requested_rendering_enabled
  /\ requested_rendering_enabled' = enabled
  /\ shown' = <<>>
  /\ UNCHANGED <<gate, detector, rendering_enabled, safe_line_start,
                 passthrough_until_newline, cancelled, status, owed, stale, last_shown>>

\* RenderCancellation::cancel by the reader thread, between two calls.
Cancel ==
  /\ status = "open"
  /\ ~cancelled
  /\ cancelled' = TRUE
  /\ shown' = <<>>
  /\ UNCHANGED <<gate, detector, rendering_enabled, requested_rendering_enabled,
                 safe_line_start, passthrough_until_newline, status, owed, stale, last_shown>>

Next ==
  \/ \E chunk \in Chunks : Feed(chunk)
  \/ Finish
  \/ \E enabled \in BOOLEAN : SetRenderingEnabled(enabled)
  \/ Cancel

Spec == Init /\ [][Next]_vars
-----------------------------------------------------------------------------
(* The display is an exact account of the child's output: each byte is     *)
(* shown once and in order, as itself or inside the source of a rendered   *)
(* block, across feeds, toggles, fallbacks and finish; only an error may   *)
(* leave bytes undisplayed (feed, finish, emit, emit_exact_source).        *)
Exact == INSTANCE ExactDisplay
  WITH Chunks <- Chunks, owed <- owed, shown <- shown, status <- status
ImplementsExactDisplay == Exact!Spec

(* What is withheld is what the detector and the gate retain, in that      *)
(* order, and nothing else: no byte waits in the display path itself, and  *)
(* a paused pipeline withholds nothing but a carriage return. No control   *)
(* byte is withheld for later, except a carriage return whose successor    *)
(* decides whether it ends a line (apply_rendering_state, emit_segments).  *)
OnlyParsersWithhold ==
  status = "open" =>
    /\ owed = DetectorHeld(detector) \o GateHeld(gate)
    /\ rendering_enabled \/ DetectorHeld(detector) = <<>>
    /\ \A k \in DOMAIN owed : IsUnsafeControl(owed[k]) =>
         owed[k] = "cr" /\ (k = Len(owed) \/ owed[k + 1] = "lf")

\* The positions at which a line of the text that is the fence ends.
FenceEnds(text, fence) ==
  LET ends == {k \in DOMAIN text : text[k] = "lf"}
      IsFence(j, k) == /\ j < k
                       /\ ~\E i \in ends : j < i /\ i < k
                       /\ SubSeq(text, j + 1, k) \in {fence \o <<"lf">>, fence \o <<"cr", "lf">>}
  IN {k \in ends : \E j \in ends \cup {0} : IsFence(j, k)}

(* Only a genuine block is ever replaced by a rendering: its source begins *)
(* at the start of a line of the child's output, opens with an opener line *)
(* and ends with the first line that is its fence, is within the size      *)
(* bound, and holds no terminal control (FencedDetector behind             *)
(* TerminalOutputGate, emit_renderable_text).                              *)
RenderedIsGenuineBlock ==
  \A i \in DOMAIN shown : shown[i].how = "rendered" =>
    LET text == shown[i].bytes
    IN /\ shown[i].after = "lf"
       /\ Len(text) <= MaxBlock
       /\ \A k \in DOMAIN text :
            IsUnsafeControl(text[k]) => text[k] = "cr" /\ text[k + 1] = "lf"
       /\ \E rule \in Openers :
            /\ SubSeq(text, 1, Len(rule.pattern)) = rule.pattern
            /\ LET body == SubSeq(text, Len(rule.pattern) + 1, Len(text))
               IN body # <<>> /\ FenceEnds(body, rule.closing) = {Len(body)}

(* No delimiter is assembled across a rendering toggle: a rendered block   *)
(* was received whole since rendering was last enabled, and while          *)
(* rendering is paused nothing is rendered (apply_rendering_state,         *)
(* emit_segments).                                                         *)
NothingRenderedAcrossToggle ==
  \A i \in DOMAIN shown :
    shown[i].how = "rendered" => rendering_enabled /\ shown[i].fresh

(* A cancelled attempt costs one block: the next block to be resolved is   *)
(* shown as its exact source before any block is rendered, and resolving   *)
(* it consumes the cancellation, so no later block of the session is       *)
(* refused for it (emit).                                                  *)
CancellationCostsOneBlock ==
  [][cancelled =>
       /\ \A i \in DOMAIN shown' : shown'[i].how = "rendered" =>
            \E j \in 1..(i - 1) : shown'[j].how = "fallback"
       /\ (\E i \in DOMAIN shown' : shown'[i].how \in {"rendered", "fallback"}) =>
            ~cancelled']_vars
=============================================================================
