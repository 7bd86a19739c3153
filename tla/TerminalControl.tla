--------------------------- MODULE TerminalControl ---------------------------
(***************************************************************************)
(* The byte-level operators of src/terminal.rs: the control-sequence       *)
(* parser and the gate that decides, byte by byte, whether child output    *)
(* may reach semantic detection (safe) or must bypass it (raw).            *)
(*                                                                         *)
(* A byte is represented by the class the code can tell it apart by:       *)
(*   "lf" "cr" "bel" "esc"  the controls with a rule of their own          *)
(*   "ctl"                  every other control below 0x20, and DEL        *)
(*   "lbr" "rbr" "bsl"      the characters [ ] and \                       *)
(*   "dcs"                  one of P _ ^ X, which open a string control    *)
(*   "h" "l"                the two final bytes of a mode switch           *)
(*   "let" "fence" "name"   other bytes 0x40..0x7e (a letter, a backtick   *)
(*                          fence, a fence language name)                  *)
(*   "q" "semi"             the characters ? and ;                         *)
(*   "alt"                  one of the numbers 47, 1047, 1049 written out  *)
(*   "dollar"               any other byte that is not in 0x40..0x7e       *)
(***************************************************************************)
EXTENDS Naturals, Sequences

CONSTANT MaxControl  \* MAX_TERMINAL_CONTROL_BYTES, in units of the classes

ASSUME MaxControlAssumption == MaxControl \in Nat /\ MaxControl >= 2

Final == {"h", "l", "let", "fence", "name", "lbr", "rbr", "bsl", "dcs"}

\* is_unsafe_control: every control byte except LF (and TAB, a "dollar" here).
IsUnsafeControl(b) == b \in {"esc", "cr", "bel", "ctl"}

Byte == Final \cup {"esc", "cr", "bel", "ctl", "lf", "q", "semi", "alt", "dollar"}
-----------------------------------------------------------------------------
(* ControlParser *)

Ground == [st |-> "ground"]
Escape == [st |-> "escape"]
Csi(bytes) == [st |-> "csi", bytes |-> bytes]
Osc(escaped) == [st |-> "osc", escaped |-> escaped]
StringControl(escaped) == [st |-> "string", escaped |-> escaped]

IsGround(parser) == parser.st = "ground"

\* alternate_screen_event: ESC [ ? fields (h | l) with a field that is exactly
\* one of the alternate-screen mode numbers.
AlternateScreenEvent(sequence) ==
  LET final  == sequence[Len(sequence)]
      params == SubSeq(sequence, 4, Len(sequence) - 1)
      Alone(i) == /\ params[i] = "alt"
                  /\ i = 1 \/ params[i - 1] = "semi"
                  /\ i = Len(params) \/ params[i + 1] = "semi"
  IN IF /\ Len(sequence) >= 4
        /\ sequence[3] = "q"
        /\ final \in {"h", "l"}
        /\ \E i \in DOMAIN params : Alone(i)
     THEN IF final = "h" THEN "enter" ELSE "leave"
     ELSE "none"

\* A CSI sequence that is still open at the bound cannot be classified.
\* Mutant: one byte too many.
ControlFullLate(bytes) == Len(bytes) > MaxControl
ControlFull(bytes) == Len(bytes) >= MaxControl

Parsed(parser, event) == [parser |-> parser, event |-> event]

\* Inside OSC and the other string controls: ESC \ ends both, BEL only OSC.
InString(parser, b, endings) ==
  Parsed(IF b \in endings \/ (parser.escaped /\ b = "bsl") THEN Ground
         ELSE [parser EXCEPT !.escaped = (b = "esc")], "none")

ControlParserFeed(parser, b) ==
  CASE parser.st = "ground" -> Parsed(IF b = "esc" THEN Escape ELSE parser, "none")
    [] parser.st = "escape" ->
         Parsed(CASE b = "lbr" -> Csi(<<"esc", "lbr">>)
                  [] b = "rbr" -> Osc(FALSE)
                  [] b = "dcs" -> StringControl(FALSE)
                  [] b = "esc" -> Escape
                  [] OTHER -> Ground, "none")
    [] parser.st = "csi" ->
         LET bytes == Append(parser.bytes, b)
         IN IF ControlFull(parser.bytes) THEN Parsed(Ground, "overflow")
            ELSE IF b \in Final THEN Parsed(Ground, AlternateScreenEvent(bytes))
            ELSE Parsed(Csi(bytes), "none")
    [] parser.st = "osc" -> InString(parser, b, {"bel"})
    [] parser.st = "string" -> InString(parser, b, {})
-----------------------------------------------------------------------------
(* TerminalOutputGate *)

GateInit == [raw_until_newline |-> FALSE, alternate_screen |-> FALSE,
             pending_carriage_return |-> FALSE, parser_fail_closed |-> FALSE,
             parser |-> Ground]

\* What the gate says of one byte, and the gate after it.
Gated(gate, segments) == [gate |-> gate, segments |-> segments]
Segment(raw, b) == [raw |-> raw, byte |-> b]

\* The condition under which a carriage return is held to look at its successor.
OnPlainLine(gate) == /\ ~gate.alternate_screen
                     /\ ~gate.raw_until_newline
                     /\ ~gate.parser_fail_closed
                     /\ IsGround(gate.parser)

\* The line stays raw after a control, and after an event. Mutant: for one byte.
TaintedOnce(gate, b, event) == IsUnsafeControl(b) \/ event # "none"
Tainted(gate, b, event) == gate.raw_until_newline \/ IsUnsafeControl(b) \/ event # "none"

ProcessByte(gate, b) ==
  LET raw      == ~OnPlainLine(gate) \/ IsUnsafeControl(b)
      fed      == ControlParserFeed(gate.parser, b)
      failed   == gate.parser_fail_closed \/ fed.event = "overflow"
      alt      == IF fed.event \in {"enter", "leave"} THEN fed.event = "enter"
                  ELSE gate.alternate_screen
      released == b = "lf" /\ ~failed /\ ~alt /\ IsGround(fed.parser)
  IN Gated([gate EXCEPT !.parser = fed.parser,
                        !.parser_fail_closed = failed,
                        !.alternate_screen = alt,
                        !.raw_until_newline = Tainted(gate, b, fed.event) /\ ~released],
           <<Segment(raw, b)>>)

\* Give up on a held carriage return: it was a redraw control.
FlushCarriageReturn(gate) ==
  IF gate.pending_carriage_return
  THEN ProcessByte([gate EXCEPT !.pending_carriage_return = FALSE], "cr")
  ELSE Gated(gate, <<>>)

\* One iteration of the loop of TerminalOutputGate::feed.
GateFeedByte(gate, b) ==
  IF gate.pending_carriage_return /\ b = "lf" /\ OnPlainLine(gate)
  THEN Gated([gate EXCEPT !.pending_carriage_return = FALSE],
             <<Segment(FALSE, "cr"), Segment(FALSE, "lf")>>)
  ELSE LET flushed == FlushCarriageReturn(gate)
           byte    == IF b = "cr" /\ OnPlainLine(flushed.gate)
                      THEN Gated([flushed.gate EXCEPT !.pending_carriage_return = TRUE], <<>>)
                      ELSE ProcessByte(flushed.gate, b)
       IN Gated(byte.gate, flushed.segments \o byte.segments)

\* TerminalOutputGate::feed, for a whole chunk: byte after byte.
GateFeed(gate, chunk) ==
  LET run[i \in 0..Len(chunk)] ==
        IF i = 0 THEN Gated(gate, <<>>)
        ELSE LET step == GateFeedByte(run[i - 1].gate, chunk[i])
             IN Gated(step.gate, run[i - 1].segments \o step.segments)
  IN run[Len(chunk)]

GateFinish(gate) == FlushCarriageReturn(gate)

\* The bytes the gate has accepted and not yet classified.
GateHeld(gate) == IF gate.pending_carriage_return THEN <<"cr">> ELSE <<>>
=============================================================================
