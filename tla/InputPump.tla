------------------------------ MODULE InputPump ------------------------------
(***************************************************************************)
(* The input side of src/native_session.rs: the stdin thread filters the   *)
(* rendering-toggle scalar out of the keyboard input and forwards the rest *)
(* to the child's pseudo terminal, while the session thread may stop it by *)
(* clearing `running` and closing the shared writer.                       *)
(***************************************************************************)
EXTENDS Naturals, Sequences

CONSTANTS Chunks,   \* what one read of the keyboard may return
          MaxReads  \* bound: reads before the input ends

VARIABLES
  pending,            \* SessionInputFilter.pending
  pump,               \* where the stdin thread stands
  actions,            \* SessionInputActions still to be applied, byte by byte
  last_read,          \* this is the flush at end of input or on a read error
  running,            \* the flag SessionControl::stop clears
  writer,             \* the shared writer: "open" or "closed"
  rendering_enabled,
  typed,              \* history: the keyboard input read so far
  effects,            \* history: bytes written to the child, and toggles
  reads

thread_vars == <<pending, pump, actions, last_read>>
input_vars == <<thread_vars, running, writer, rendering_enabled, typed, effects, reads>>

\* RENDER_TOGGLE_SEQUENCE: the four bytes of U+10FFFD.
RENDER_TOGGLE_SEQUENCE == <<"f4", "8f", "bf", "bd">>
Toggle == "toggle"
\* What the filter tells apart: the four bytes, and Escape for all the others.
InputByte == {"f4", "8f", "bf", "bd", "esc"}

ASSUME ReadsAssumption == Chunks \subseteq Seq(InputByte)

IsTogglePrefix(candidate) ==
  /\ Len(candidate) <= Len(RENDER_TOGGLE_SEQUENCE)
  /\ candidate = SubSeq(RENDER_TOGGLE_SEQUENCE, 1, Len(candidate))

\* The filter after some input, and the actions it has produced.
Filtered(candidate, produced) == [pending |-> candidate, actions |-> produced]

\* Give back bytes from the front until a prefix of the scalar is left.
\* Mutants: all of a mismatch is given back; it is given back when four bytes are in.
ReleaseWholeMismatch(candidate) ==
  IF IsTogglePrefix(candidate) THEN Filtered(candidate, <<>>) ELSE Filtered(<<>>, candidate)
ReleaseMismatchLate(candidate) ==
  IF Len(candidate) < Len(RENDER_TOGGLE_SEQUENCE) \/ IsTogglePrefix(candidate)
  THEN Filtered(candidate, <<>>) ELSE Filtered(<<>>, candidate)
ReleaseMismatch(candidate) ==
  LET kept == CHOOSE n \in 0..Len(candidate) :
        /\ IsTogglePrefix(SubSeq(candidate, Len(candidate) - n + 1, Len(candidate)))
        /\ \A m \in 0..Len(candidate) :
             IsTogglePrefix(SubSeq(candidate, Len(candidate) - m + 1, Len(candidate))) => m <= n
  IN Filtered(SubSeq(candidate, Len(candidate) - kept + 1, Len(candidate)),
              SubSeq(candidate, 1, Len(candidate) - kept))

PushByte(filter, b) ==
  LET released == ReleaseMismatch(Append(filter.pending, b))
      produced == filter.actions \o released.actions
  IN IF Len(released.pending) = Len(RENDER_TOGGLE_SEQUENCE)
     THEN Filtered(<<>>, Append(produced, Toggle))
     ELSE Filtered(released.pending, produced)

\* SessionInputFilter::push
Push(candidate, input) ==
  LET run[i \in 0..Len(input)] ==
        IF i = 0 THEN Filtered(candidate, <<>>) ELSE PushByte(run[i - 1], input[i])
  IN run[Len(input)]

\* The bytes before the next toggle: one SessionInputAction::Forward.
NextForward(todo) ==
  LET places == {i \in DOMAIN todo : todo[i] = Toggle}
  IN IF places = {} THEN todo
     ELSE SubSeq(todo, 1, (CHOOSE i \in places : \A j \in places : i <= j) - 1)

Drop(sequence, n) == SubSeq(sequence, n + 1, Len(sequence))

\* What SessionInputFilter::finish gives back.
Flushed == pending

\* The writer is still in its Option. Mutant: that is not looked at.
AssumedOpen == TRUE
WriterOpen == writer = "open"

\* The toggle of apply_input_actions.
Toggled == ~rendering_enabled

-----------------------------------------------------------------------------
InputInit ==
  /\ pending = <<>> /\ pump = "check" /\ actions = <<>> /\ last_read = FALSE
  /\ running = TRUE /\ writer = "open" /\ rendering_enabled = TRUE
  /\ typed = <<>> /\ effects = <<>> /\ reads = 0

\* while running.load(..)
CheckRunning ==
  /\ pump = "check"
  /\ pump' = IF running THEN "read" ELSE "done"
  /\ UNCHANGED <<pending, actions, last_read, running, writer, rendering_enabled,
                 typed, effects, reads>>

Read(input) ==
  /\ pump = "read"
  /\ reads < MaxReads
  /\ reads' = reads + 1
  /\ typed' = typed \o input
  /\ LET filtered == Push(pending, input)
     IN pending' = filtered.pending /\ actions' = filtered.actions
  /\ pump' = "apply"
  /\ UNCHANGED <<last_read, running, writer, rendering_enabled, effects>>

\* Ok(0) or a read error: flush_pending_input.
EndOfInput ==
  /\ pump = "read"
  /\ pending' = <<>>
  /\ actions' = Flushed
  /\ last_read' = TRUE
  /\ pump' = "apply"
  /\ UNCHANGED <<running, writer, rendering_enabled, typed, effects, reads>>

\* forward_input, under the writer lock: all of the bytes, or some and an error.
Forward ==
  /\ pump = "apply"
  /\ actions # <<>> /\ Head(actions) # Toggle
  /\ LET bytes == NextForward(actions)
     IN \/ /\ WriterOpen
           /\ effects' = effects \o bytes
           /\ actions' = Drop(actions, Len(bytes))
           /\ UNCHANGED pump
        \/ /\ WriterOpen
           /\ \E n \in 0..Len(bytes) : effects' = effects \o SubSeq(bytes, 1, n)
           /\ pump' = "done"
           /\ UNCHANGED actions
        \/ /\ ~WriterOpen
           /\ pump' = "done"
           /\ UNCHANGED <<effects, actions>>
  /\ UNCHANGED <<pending, last_read, running, writer, rendering_enabled, typed, reads>>

\* rendering_enabled.fetch_xor(true, ..)
ToggleRendering ==
  /\ pump = "apply"
  /\ actions # <<>> /\ Head(actions) = Toggle
  /\ rendering_enabled' = Toggled
  /\ effects' = Append(effects, Toggle)
  /\ actions' = Tail(actions)
  /\ UNCHANGED <<pending, pump, last_read, running, writer, typed, reads>>

ActionsApplied ==
  /\ pump = "apply"
  /\ actions = <<>>
  /\ pump' = IF last_read THEN "done" ELSE "check"
  /\ UNCHANGED <<pending, actions, last_read, running, writer, rendering_enabled,
                 typed, effects, reads>>

\* SessionControl::stop, and its Drop: the flag first, then the writer.
StopRunning ==
  /\ running
  /\ running' = FALSE
  /\ UNCHANGED <<thread_vars, writer, rendering_enabled, typed, effects, reads>>

CloseWriter ==
  /\ ~running /\ writer = "open"
  /\ writer' = "closed"
  /\ UNCHANGED <<thread_vars, running, rendering_enabled, typed, effects, reads>>

Pump == \/ CheckRunning \/ EndOfInput \/ Forward \/ ToggleRendering \/ ActionsApplied
        \/ \E input \in Chunks : Read(input)

InputNext == Pump \/ StopRunning \/ CloseWriter

InputSpec == InputInit /\ [][InputNext]_input_vars
-----------------------------------------------------------------------------
(* The reference: what the whole input means, read from the left. Each     *)
(* complete scalar is a toggle, every other byte is the child's.           *)
Meaning(text) ==
  LET n == Len(RENDER_TOGGLE_SEQUENCE)
      from[p \in 1..(Len(text) + 1)] ==
        IF p > Len(text) THEN <<>>
        ELSE IF p + n - 1 <= Len(text) /\ SubSeq(text, p, p + n - 1) = RENDER_TOGGLE_SEQUENCE
        THEN <<Toggle>> \o from[p + n]
        ELSE <<text[p]>> \o from[p + 1]
  IN from[1]

(* However the reads cut the input, its meaning is carried out in order:   *)
(* what has been done, what the thread is about to do and what the filter  *)
(* holds make up the meaning of all that was typed. A thread that gave up  *)
(* had done a part of it, from the front; one that saw the end of the      *)
(* input, and was neither stopped nor refused, all of it (push,            *)
(* apply_input_actions, flush_pending_input).                              *)
InputCarriedOutInOrder ==
  LET meaning == Meaning(typed)
      done    == effects \o actions \o pending
  IN IF pump = "done"
     THEN /\ effects = SubSeq(meaning, 1, Len(effects))
          /\ last_read /\ actions = <<>> => effects = meaning
     ELSE done = meaning

(* No keystroke is delayed except one that may still become the scalar:    *)
(* what the filter holds is the start of the scalar, so an Escape or a     *)
(* Ctrl+C is passed on at once, with all that was held before it           *)
(* (pending_is_prefix).                                                    *)
OnlyScalarPrefixDelayed ==
  pending = SubSeq(RENDER_TOGGLE_SEQUENCE, 1, Len(pending))

(* Once the session has closed the writer the child gets no more input,    *)
(* even from actions the thread had already decided on (stop,              *)
(* forward_input).                                                         *)
NothingAfterClose ==
  [][writer = "closed" =>
       \A i \in DOMAIN effects' :
         effects'[i] # Toggle => i \in DOMAIN effects /\ effects[i] = effects'[i]]_input_vars

=============================================================================
