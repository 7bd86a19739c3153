----------------------------- MODULE TerminalGate -----------------------------
(***************************************************************************)
(* TerminalOutputGate of src/terminal.rs as a state machine: the child's   *)
(* output arrives in chunks cut anywhere, and each byte leaves the gate    *)
(* once, as safe text or as a raw terminal byte.                           *)
(***************************************************************************)
EXTENDS TerminalControl, FiniteSets, FiniteSetsExt

CONSTANTS Chunks,   \* the chunks a read may return
          MaxReads  \* bound: chunks fed before the stream ends

ASSUME ReadsAssumption == Chunks \subseteq Seq(Byte) /\ MaxReads \in Nat

VARIABLES gate,      \* the TerminalOutputGate
          fed,       \* history: every byte fed so far
          segments,  \* history: every byte classified so far, in order
          reads,     \* chunks fed so far
          finished   \* finish() was called

vars == <<gate, fed, segments, reads, finished>>

Init == /\ gate = GateInit
        /\ fed = <<>>
        /\ segments = <<>>
        /\ reads = 0
        /\ finished = FALSE

\* TerminalOutputGate::feed
Feed(chunk) ==
  /\ ~finished
  /\ reads < MaxReads
  /\ reads' = reads + 1
  /\ LET result == GateFeed(gate, chunk)
     IN /\ gate' = result.gate
        /\ segments' = segments \o result.segments
  /\ fed' = fed \o chunk
  /\ UNCHANGED finished

\* TerminalOutputGate::finish
Finish ==
  /\ ~finished
  /\ LET result == GateFinish(gate)
     IN /\ gate' = result.gate
        /\ segments' = segments \o result.segments
  /\ finished' = TRUE
  /\ UNCHANGED <<fed, reads>>

Next == (\E chunk \in Chunks : Feed(chunk)) \/ Finish

Spec == Init /\ [][Next]_vars
-----------------------------------------------------------------------------
ParserType ==
  {Ground, Escape} \cup {Osc(e) : e \in BOOLEAN} \cup {StringControl(e) : e \in BOOLEAN}

TypeOK ==
  /\ gate.raw_until_newline \in BOOLEAN
  /\ gate.alternate_screen \in BOOLEAN
  /\ gate.pending_carriage_return \in BOOLEAN
  /\ gate.parser_fail_closed \in BOOLEAN
  /\ \/ gate.parser \in ParserType
     \/ gate.parser.st = "csi" /\ Len(gate.parser.bytes) \in 2..MaxControl
  /\ fed \in Seq(Byte)
  /\ reads \in 0..MaxReads
  /\ finished \in BOOLEAN
  /\ \A i \in DOMAIN segments : segments[i].raw \in BOOLEAN /\ segments[i].byte \in Byte

(* The reference for "safe": a statement about the whole input that knows  *)
(* nothing of the gate's flags. Scan[n] is the control parser after n      *)
(* bytes together with the event the n-th byte completed.                  *)
Scan ==
  LET scan[n \in 0..Len(fed)] ==
        IF n = 0 THEN Parsed(Ground, "none")
        ELSE ControlParserFeed(scan[n - 1].parser, fed[n])
  IN scan

\* The positions among 1..n where a control sequence completed one of events.
Completed(scan, n, events) == {k \in 1..n : scan[k].event \in events}

Overflowed(scan, n) == Completed(scan, n, {"overflow"}) # {}

InAlternateScreen(scan, n) ==
  LET switches == Completed(scan, n, {"enter", "leave"})
  IN switches # {} /\ scan[Max(switches)].event = "enter"

\* The n-th byte ends a line of the primary screen, outside any control.
EndsLine(scan, n) == /\ fed[n] = "lf"
                     /\ IsGround(scan[n].parser)
                     /\ ~InAlternateScreen(scan, n)

LineStart(scan, n) == Max({0} \cup {k \in 1..(n - 1) : EndsLine(scan, k)})

\* A CRLF pair is one line ending; any other unsafe control taints the line.
Taints(k) == /\ IsUnsafeControl(fed[k])
             /\ ~(fed[k] = "cr" /\ k < Len(fed) /\ fed[k + 1] = "lf")

BelongsToPlainLine(scan, n) ==
  /\ ~Overflowed(scan, n - 1)
  /\ ~InAlternateScreen(scan, n - 1)
  /\ \A k \in (LineStart(scan, n) + 1)..n : ~Taints(k)

(* A byte is offered to semantic detection exactly when it stands on the   *)
(* primary screen on a line with no terminal control before it: no byte of *)
(* a redrawn line, of a control sequence (however long or split), of the   *)
(* alternate screen, or after an unclassifiable sequence is ever safe, and *)
(* no plain line is ever withheld (process_byte, feed).                    *)
SafeExactlyOnPlainLines ==
  LET scan == Scan
  IN \A n \in DOMAIN segments : ~segments[n].raw <=> BelongsToPlainLine(scan, n)

=============================================================================
