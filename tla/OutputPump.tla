------------------------------ MODULE OutputPump ------------------------------
(***************************************************************************)
(* PipelinePump::run_bounded_with_updates of src/stream.rs: a reader       *)
(* thread moves the child's output into a bounded queue while the display  *)
(* thread feeds it to the pipeline, where each complete semantic block is  *)
(* an attempt to render. The two threads share the queue and the           *)
(* RenderCancellation flag of src/render.rs; the session thread flips the  *)
(* rendering toggle that update_context copies into the pipeline.          *)
(*                                                                         *)
(* Chunks are numbered in the order the child wrote them; of their bytes   *)
(* the model keeps the size and the number of blocks they complete.        *)
(***************************************************************************)
EXTENDS Naturals, Sequences

CONSTANTS MaxChunks,   \* bound: chunks the child writes
          Capacity,    \* PENDING_CHUNKS
          Sizes,       \* the sizes a read may return, 1..BUFFER_BYTES in the code
          MaxBlocks,   \* bound: blocks one chunk may complete
          MaxToggles,  \* bound: presses of the rendering toggle
          Strict       \* a failed or refused rendering is an error

ASSUME PumpAssumption ==
  /\ MaxChunks \in Nat
  /\ Capacity \in Nat \ {0}
  /\ Sizes \subseteq Nat \ {0}
  /\ MaxBlocks \in Nat
  /\ MaxToggles \in Nat
  /\ Strict \in BOOLEAN

VARIABLES
  source,         \* the child's output: "running", "ended" or "killed"
  read,           \* number of chunks read so far
  reader,         \* where the reader thread stands
  message,        \* the message it is about to send
  queue,          \* the bounded channel
  display,        \* where the display thread stands
  chunk,          \* the chunk it feeds to the pipeline
  blocks,         \* blocks of that chunk still to be resolved
  cancelled,      \* RenderCancellation
  shown,          \* history: the chunks on the display, in order
  processing,     \* result of the processing closure
  toggles,        \* presses of the toggle so far (SessionControl.rendering_enabled)
  requested       \* presses seen by the last update_context

reader_vars == <<read, reader, message>>
display_vars == <<display, chunk, blocks, shown, processing, requested>>
vars == <<source, reader_vars, queue, display_vars, cancelled, toggles>>

\* ReadMessage
Message == [kind : {"bytes", "end", "error"}, id : Nat, size : Nat, blocks : Nat, toggles : Nat]
Bytes(id, size, n) ==
  [kind |-> "bytes", id |-> id, size |-> size, blocks |-> n, toggles |-> toggles]
Marker(kind) == [kind |-> kind, id |-> 0, size |-> 0, blocks |-> 0, toggles |-> 0]
None == Marker("end")

\* The receiver lives until the processing closure has returned.
\* Mutant: it lives until the pump returns.
ReceiverKept == TRUE
ReceiverOpen == display \notin {"join", "returned"}

\* Mutant: one message too many.
RoomForOneMore == Len(queue) <= Capacity
RoomInQueue == Len(queue) < Capacity

\* TrySendError::Full gives the message back, to be sent. Mutant: it is dropped.
DropAndRead == "read"
AfterFull == "cancel"

\* The end of the output is announced by a message. Mutant: it is not.
EndSilently == "done"
AtEnd == "send"

\* What update_context copies. Mutant: only the first call of a round does.
SeenBeforeRecv == IF display = "update" THEN requested ELSE toggles
SeenToggles == toggles

\* cancel_source kills the child. Mutant: it is left running.
SourceLeftAlone == source
SourceCancelled == IF source = "running" THEN "killed" ELSE source

Init ==
  /\ source = "running"
  /\ read = 0 /\ reader = "read" /\ message = None
  /\ queue = <<>>
  /\ display = "context" /\ chunk = None /\ blocks = 0
  /\ cancelled = FALSE
  /\ shown = <<>> /\ processing = "pending"
  /\ toggles = 0 /\ requested = 0
-----------------------------------------------------------------------------
(* The child, and the keyboard. *)

SourceEnds ==
  /\ source = "running"
  /\ source' = "ended"
  /\ UNCHANGED <<reader_vars, queue, display_vars, cancelled, toggles>>

PressToggle ==
  /\ toggles < MaxToggles
  /\ toggles' = toggles + 1
  /\ UNCHANGED <<source, reader_vars, queue, display_vars, cancelled>>
-----------------------------------------------------------------------------
(* read_bounded: the reader thread. *)

ReadBytes ==
  /\ reader = "read"
  /\ read < MaxChunks
  /\ \E size \in Sizes, n \in 0..MaxBlocks : message' = Bytes(read + 1, size, n)
  /\ read' = read + 1
  /\ reader' = "offer"
  /\ UNCHANGED <<source, queue, display_vars, cancelled, toggles>>

\* Ok(0), or an error that a pseudo terminal reports for the end of the stream.
ReadEnd ==
  /\ reader = "read"
  /\ source \in {"ended", "killed"}
  /\ message' = Marker("end")
  /\ reader' = AtEnd
  /\ UNCHANGED <<source, read, queue, display_vars, cancelled, toggles>>

ReadError ==
  /\ reader = "read"
  /\ source = "running"
  /\ source' = "ended"
  /\ message' = Marker("error")
  /\ reader' = "send"
  /\ UNCHANGED <<read, queue, display_vars, cancelled, toggles>>

\* What the reader does once its message is delivered, or the receiver is gone.
AfterSend(delivered) ==
  reader' = IF delivered /\ message.kind = "bytes" THEN "read" ELSE "done"

\* try_send
Offer ==
  /\ reader = "offer"
  /\ \/ /\ ReceiverOpen /\ RoomInQueue
        /\ queue' = Append(queue, message)
        /\ AfterSend(TRUE)
     \/ /\ ReceiverOpen /\ ~RoomInQueue
        /\ reader' = AfterFull
        /\ UNCHANGED queue
     \/ /\ ~ReceiverOpen
        /\ AfterSend(FALSE)
        /\ UNCHANGED queue
  /\ UNCHANGED <<source, read, message, display_vars, cancelled, toggles>>

\* TrySendError::Full: cancel the attempt in progress, then wait for room.
CancelAttempt ==
  /\ reader = "cancel"
  /\ cancelled' = TRUE
  /\ reader' = "send"
  /\ UNCHANGED <<source, read, message, queue, display_vars, toggles>>

\* send: blocks until there is room or the receiver is dropped.
Send ==
  /\ reader = "send"
  /\ \/ /\ ReceiverOpen /\ RoomInQueue
        /\ queue' = Append(queue, message)
        /\ AfterSend(TRUE)
     \/ /\ ~ReceiverOpen
        /\ AfterSend(FALSE)
        /\ UNCHANGED queue
  /\ UNCHANGED <<source, read, message, display_vars, cancelled, toggles>>

Reader == ReadBytes \/ ReadEnd \/ ReadError \/ Offer \/ CancelAttempt \/ Send
-----------------------------------------------------------------------------
(* The processing closure on the display thread. *)

\* update_context: before recv, and again between recv and feed.
UpdateContext ==
  /\ \/ /\ display = "context"
        /\ display' = "recv"
        /\ UNCHANGED blocks
     \/ /\ display = "update"
        /\ display' = "resolve"
        /\ blocks' = chunk.blocks
  /\ requested' = SeenToggles
  /\ UNCHANGED <<source, reader_vars, queue, chunk, cancelled, shown, processing, toggles>>

\* receiver.recv(). Its Err(_) arm is never taken: EndIsAnnounced below.
Receive ==
  /\ display = "recv"
  /\ queue # <<>>
  /\ queue' = Tail(queue)
  /\ CASE Head(queue).kind = "bytes" ->
            /\ display' = "update"
            /\ chunk' = Head(queue)
            /\ UNCHANGED processing
       [] Head(queue).kind = "end" ->
            /\ display' = "finish"
            /\ UNCHANGED <<chunk, processing>>
       [] Head(queue).kind = "error" ->
            /\ display' = "fail"
            /\ processing' = "read_error"
            /\ UNCHANGED chunk
  /\ UNCHANGED <<source, reader_vars, blocks, cancelled, shown, toggles, requested>>

\* An error of the processing closure.
Fail(why) == display' = "fail" /\ processing' = why

\* DisplayPipeline::emit looks at the flag before it renders the next block.
CheckCancellation ==
  /\ display = "resolve" /\ blocks > 0
  /\ display' = IF ~cancelled THEN "attempt" ELSE IF Strict THEN "refused" ELSE "reset"
  /\ UNCHANGED <<source, reader_vars, queue, chunk, blocks, cancelled, shown,
                 processing, requested, toggles>>

\* The renderer returns: at its deadline at the latest, or when it is cancelled.
AttemptEnds ==
  /\ display = "attempt"
  /\ display' \in IF Strict THEN {"reset", "refused"} ELSE {"reset"}
  /\ UNCHANGED <<source, reader_vars, queue, chunk, blocks, cancelled, shown,
                 processing, requested, toggles>>

\* The block is shown, rendered or as its source, and the cancellation consumed;
\* or the display refuses the write.
ResetCancellation ==
  /\ display = "reset"
  /\ \/ /\ cancelled' = FALSE
        /\ blocks' = blocks - 1
        /\ display' = "resolve"
        /\ UNCHANGED processing
     \/ /\ Fail("io_error")
        /\ UNCHANGED <<cancelled, blocks>>
  /\ UNCHANGED <<source, reader_vars, queue, chunk, shown, requested, toggles>>

\* strict: the cancellation is consumed and the error returned.
Refuse ==
  /\ display = "refused"
  /\ cancelled' = FALSE
  /\ Fail("render_error")
  /\ UNCHANGED <<source, reader_vars, queue, chunk, blocks, shown, requested, toggles>>

\* The rest of feed, and the flush after the chunk.
ShowChunk ==
  /\ display = "resolve" /\ blocks = 0
  /\ \/ /\ shown' = Append(shown, chunk.id)
        /\ display' = "context"
        /\ UNCHANGED processing
     \/ /\ Fail("io_error")
        /\ UNCHANGED shown
  /\ UNCHANGED <<source, reader_vars, queue, chunk, blocks, cancelled, requested, toggles>>

\* The last update_context, and pipeline.finish.
FinishPipeline ==
  /\ display = "finish"
  /\ requested' = SeenToggles
  /\ \/ display' = "join" /\ processing' = "ok"
     \/ Fail("io_error")
  /\ UNCHANGED <<source, reader_vars, queue, chunk, blocks, cancelled, shown, toggles>>

\* processing.is_err(): cancellation.cancel(), cancel_source(), drop(receiver).
AbortSource ==
  /\ display = "fail"
  /\ cancelled' = TRUE
  /\ source' = SourceCancelled
  /\ display' = "join"
  /\ UNCHANGED <<reader_vars, queue, chunk, blocks, shown, processing, requested, toggles>>

\* reader_handle.join()
JoinReader ==
  /\ display = "join"
  /\ reader = "done"
  /\ display' = "returned"
  /\ UNCHANGED <<source, reader_vars, queue, chunk, blocks, cancelled, shown,
                 processing, requested, toggles>>

Display ==
  \/ Receive \/ UpdateContext \/ CheckCancellation
  \/ AttemptEnds \/ ResetCancellation \/ Refuse \/ ShowChunk
  \/ FinishPipeline \/ AbortSource \/ JoinReader

\* The pump has returned: processing's error, or else the reader's result.
Done == display = "returned" /\ UNCHANGED vars

Next == SourceEnds \/ PressToggle \/ Reader \/ Display \/ Done

(* Both threads are scheduled, a read returns once the child has exited,   *)
(* and an attempt ends at its deadline at the latest. Nothing makes the    *)
(* child exit of its own accord, or write.                                 *)
Fairness ==
  /\ WF_vars(ReadEnd) /\ WF_vars(Offer) /\ WF_vars(CancelAttempt) /\ WF_vars(Send)
  /\ WF_vars(Display)

Spec == Init /\ [][Next]_vars /\ Fairness
-----------------------------------------------------------------------------
(* Properties. *)

TypeOK ==
  /\ source \in {"running", "ended", "killed"}
  /\ read \in 0..MaxChunks
  /\ reader \in {"read", "offer", "cancel", "send", "done"}
  /\ message \in Message
  /\ cancelled \in BOOLEAN
  /\ queue \in Seq(Message) /\ Len(queue) <= Capacity
  /\ display \in {"context", "recv", "update", "resolve", "attempt", "reset", "refused",
                  "finish", "fail", "join", "returned"}
  /\ chunk \in Message
  /\ blocks \in Nat
  /\ shown \in Seq(Nat)
  /\ processing \in {"pending", "ok", "read_error", "render_error", "io_error"}
  /\ toggles \in 0..MaxToggles
  /\ requested \in 0..toggles

(* Chunks reach the display in the order they were read, none skipped and  *)
(* none twice, whichever thread runs, however full the queue is and        *)
(* however many attempts are cancelled (read_bounded, the recv loop).      *)
ShownInOrder == \A i \in DOMAIN shown : shown[i] = i

(* Nothing is dropped at the end: when the pump reports success, or the    *)
(* reader's error, everything read before is on the display; and success   *)
(* is never reported over a read error (End and Error travel behind the    *)
(* bytes in the same queue).                                               *)
NothingDroppedAtEnd ==
  processing \in {"ok", "read_error"} =>
    /\ Len(shown) = read
    /\ reader = "done"
    /\ processing = "ok" <=> message.kind = "end"

(* The display thread never waits on a channel whose sender is gone: the   *)
(* reader announces the end, or the error, unless the receiver is gone     *)
(* first (ReadMessage::End, ReadMessage::Error).                           *)
EndIsAnnounced == display \in {"context", "recv"} /\ queue = <<>> => reader # "done"

(* The output held between the two threads is bounded by the queue and one *)
(* chunk at either end of it, whatever the child writes and whether or not *)
(* the processing has failed (sync_channel(PENDING_CHUNKS)).               *)
PendingBounded == read - Len(shown) <= Capacity + 2

(* Threads, queue, marker and refusals apart, the pump is a bounded and    *)
(* ordered delivery, complete when the end or the reader's error has come  *)
(* through behind the last chunk (run_bounded_with_updates).               *)
Outcome == IF processing \in {"ok", "read_error"} THEN "complete"
           ELSE IF processing = "pending" THEN "open" ELSE "failed"

Promised == INSTANCE BoundedDelivery
  WITH Limit <- Capacity + 2, accepted <- read, shown <- shown, outcome <- Outcome

ImplementsDelivery == Promised!Spec

(* A chunk read after a press of the toggle is displayed with that press   *)
(* taken into account, even if it was pressed while the display thread was *)
(* blocked in recv (the update_context between recv and feed).             *)
ToggleReachesLaterOutput ==
  display \in {"resolve", "attempt", "reset"} => requested >= chunk.toggles

(* Backpressure ends: a reader blocked on the full queue is released, by   *)
(* the display thread taking a chunk or by the receiver being dropped.     *)
BlockedReaderIsReleased == reader = "send" ~> reader # "send"

(* The pump returns once the child's output has ended, and a failure of    *)
(* the processing ends it even while the child runs on (cancel_source,     *)
(* drop(receiver), join).                                                  *)
PumpReturns == (source # "running" \/ display = "fail") ~> display = "returned"
=============================================================================
