----------------------------- MODULE Pumps_proofs -----------------------------
(***************************************************************************)
(* Proofs about the two pumps of a session, OutputPump and InputPump, each *)
(* for every value of its constants; neither part uses the other.          *)
(***************************************************************************)
EXTENDS OutputPump, InputPump, SequenceTheorems, WellFoundedInduction, TLAPS
-----------------------------------------------------------------------------
(***************************************************************************)
(* OutputPump, for every number of chunks, queue capacity, set of sizes and*)
(* number of toggles. The state is accounted for by chunk.id, the number   *)
(* of chunks the display thread has taken off the queue: the queue holds   *)
(* the chunks that follow it, in order, then the reader's hand, and only   *)
(* the last message may be the end or the error.                           *)
(***************************************************************************)
\* The display thread has a chunk it has not shown.
InHand == display \in {"update", "resolve", "attempt", "reset", "refused"}

\* The reader has a chunk that is not in the queue; for good once it is done.
Held == \/ reader \in {"offer", "cancel"}
        \/ reader \in {"send", "done"} /\ message.kind = "bytes"

\* The last message in the queue is the end or the error.
Marked == Len(queue) > 0 /\ queue[Len(queue)].kind # "bytes"

TakenAccount ==
  /\ chunk.id = Len(shown) \/ chunk.id = Len(shown) + 1
  /\ InHand => chunk.id = Len(shown) + 1
  /\ display \in {"context", "recv", "finish"} => chunk.id = Len(shown)
  /\ processing \in {"ok", "read_error"} => chunk.id = Len(shown)

QueueAccount ==
  /\ \A i \in 1..Len(queue) : queue[i].kind = "bytes" => queue[i].id = chunk.id + i
  /\ \A i \in 1..Len(queue) : i < Len(queue) => queue[i].kind = "bytes"
  /\ Marked => reader = "done" /\ message = queue[Len(queue)]

ReaderAccount ==
  /\ reader \in {"offer", "cancel"} => message.kind = "bytes"
  /\ Held => message.id = read
  /\ reader = "done" /\ (InHand \/ display \in {"context", "recv"}) => Marked
  /\ read = chunk.id + Len(queue) - (IF Marked THEN 1 ELSE 0) + (IF Held THEN 1 ELSE 0)

EndAccount ==
  /\ InHand \/ display \in {"context", "recv", "finish"} => processing = "pending"
  /\ display = "fail" => processing \in {"read_error", "render_error", "io_error"}
  /\ display = "finish" \/ processing = "ok" =>
       queue = <<>> /\ reader = "done" /\ message.kind = "end"
  /\ processing = "read_error" => queue = <<>> /\ reader = "done" /\ message.kind = "error"

-----------------------------------------------------------------------------
\* A message taken off the queue, and the queue it leaves behind.
LEMMA MessageFields ==
  ASSUME NEW m \in Message
  PROVE  /\ m.kind \in {"bytes", "end", "error"}
         /\ m.id \in Nat /\ m.blocks \in Nat
  BY DEF Message

\* What is left of a sequence when its first member is taken.
LEMMA HeadAndTail ==
  ASSUME NEW S, NEW q \in Seq(S), q # <<>>
  PROVE  /\ Len(q) \in Nat /\ Len(q) > 0
         /\ Head(q) = q[1] /\ Head(q) \in S
         /\ Tail(q) \in Seq(S) /\ Len(Tail(q)) = Len(q) - 1
         /\ \A i \in 1..Len(Tail(q)) : Tail(q)[i] = q[i + 1]
  OBVIOUS

\* What a sequence is after one more member.
LEMMA Appended ==
  ASSUME NEW S, NEW q \in Seq(S), NEW m \in S
  PROVE  /\ Len(q) \in Nat
         /\ Append(q, m) \in Seq(S) /\ Len(Append(q, m)) = Len(q) + 1
         /\ \A i \in 1..Len(q) : Append(q, m)[i] = q[i]
         /\ Append(q, m)[Len(q) + 1] = m
  OBVIOUS

\* Types, with the fact that makes them inductive: a block is being resolved.
TypeInv == /\ TypeOK
           /\ display \in {"attempt", "reset", "refused"} => blocks > 0

\* The state has its type at the start.
LEMMA TypeInit == Init => TypeInv
<1> SUFFICES ASSUME Init PROVE TypeInv
  OBVIOUS
<1>1. message \in Message /\ chunk \in Message
  BY DEF Init, None, Marker, Message
<1>2. queue \in Seq(Message) /\ Len(queue) <= Capacity
  BY PumpAssumption DEF Init
<1>3. shown \in Seq(Nat) /\ blocks \in Nat
  BY DEF Init
<1>4. read \in 0..MaxChunks /\ toggles \in 0..MaxToggles /\ requested \in 0..toggles
  BY PumpAssumption DEF Init
<1> QED
  BY <1>1, <1>2, <1>3, <1>4 DEF Init, TypeInv, TypeOK

\* Every step keeps the type of the state.
LEMMA TypeStep == TypeInv /\ [Next]_vars => TypeInv'
<1> SUFFICES ASSUME TypeInv, [Next]_vars PROVE TypeInv'
  OBVIOUS
<1> USE PumpAssumption DEF TypeInv, TypeOK
<1>1. CASE SourceEnds
  BY <1>1 DEF SourceEnds, reader_vars, display_vars
<1>2. CASE PressToggle
  BY <1>2 DEF PressToggle, reader_vars, display_vars
<1>3. CASE ReadBytes
  BY <1>3 DEF ReadBytes, Bytes, Message, reader_vars, display_vars
<1>4. CASE ReadEnd
  BY <1>4 DEF ReadEnd, AtEnd, Marker, Message, reader_vars, display_vars
<1>5. CASE ReadError
  BY <1>5 DEF ReadError, Marker, Message, reader_vars, display_vars
<1>6. CASE Offer
  BY <1>6 DEF Offer, RoomInQueue, AfterSend, AfterFull, reader_vars, display_vars
<1>7. CASE CancelAttempt
  BY <1>7 DEF CancelAttempt, reader_vars, display_vars
<1>8. CASE Send
  <2>1. CASE UNCHANGED queue
    BY <1>8, <2>1 DEF Send, AfterSend, reader_vars, display_vars
  <2>2. CASE RoomInQueue /\ queue' = Append(queue, message)
    <3>1. queue' \in Seq(Message) /\ Len(queue') <= Capacity
      BY <2>2, Appended DEF RoomInQueue
    <3> QED
      BY <1>8, <3>1 DEF Send, AfterSend, reader_vars, display_vars
  <2> QED
    BY <1>8, <2>1, <2>2 DEF Send
<1>9. CASE Receive
  <2>1. queue' \in Seq(Message) /\ Len(queue') <= Capacity /\ Head(queue) \in Message
    BY <1>9, HeadAndTail DEF Receive
  <2>2. Head(queue).kind \in {"bytes", "end", "error"}
    BY <2>1, MessageFields
  <2>3. /\ display' \in {"update", "finish", "fail"}
        /\ chunk' \in Message
        /\ processing' \in {"pending", "ok", "read_error", "render_error", "io_error"}
    BY <1>9, <2>1, <2>2 DEF Receive
  <2>4. UNCHANGED <<source, read, reader, message, blocks, cancelled, shown, toggles, requested>>
    BY <1>9 DEF Receive, reader_vars
  <2> QED
    BY <2>1, <2>3, <2>4
<1>10. CASE UpdateContext
  BY <1>10 DEF UpdateContext, SeenToggles, Message, reader_vars, display_vars
<1>11. CASE CheckCancellation
  BY <1>11 DEF CheckCancellation, reader_vars, display_vars
<1>12. CASE AttemptEnds
  BY <1>12 DEF AttemptEnds, reader_vars, display_vars
<1>13. CASE ResetCancellation
  <2>1. blocks' \in Nat
    <3>1. blocks \in Nat /\ blocks > 0
      BY <1>13 DEF ResetCancellation
    <3>2. blocks' = blocks \/ blocks' = blocks - 1
      BY <1>13 DEF ResetCancellation
    <3> QED
      BY <3>1, <3>2
  <2>2. cancelled' \in BOOLEAN
    BY <1>13 DEF ResetCancellation
  <2>3. /\ display' \in {"resolve", "fail"}
        /\ processing' \in {"pending", "ok", "read_error", "render_error", "io_error"}
    BY <1>13 DEF ResetCancellation, Fail
  <2>4. UNCHANGED <<source, read, reader, message, queue, chunk, shown, toggles, requested>>
    BY <1>13 DEF ResetCancellation, reader_vars
  <2> QED
    BY <2>1, <2>2, <2>3, <2>4
<1>14. CASE Refuse
  BY <1>14 DEF Refuse, Fail, reader_vars, display_vars
<1>15. CASE ShowChunk
  <2>1. chunk.id \in Nat
    BY MessageFields
  <2>2. shown' \in Seq(Nat)
    <3>1. shown \in Seq(Nat)
      OBVIOUS
    <3>2. Append(shown, chunk.id) \in Seq(Nat)
      BY <2>1, <3>1, Appended
    <3>3. shown' = shown \/ shown' = Append(shown, chunk.id)
      BY <1>15 DEF ShowChunk
    <3> HIDE DEF TypeInv, TypeOK
    <3> QED
      BY <3>1, <3>2, <3>3, Zenon
  <2>3. /\ display' \in {"context", "fail"}
        /\ processing' \in {"pending", "ok", "read_error", "render_error", "io_error"}
    BY <1>15 DEF ShowChunk, Fail
  <2>4. UNCHANGED <<source, reader_vars, queue, chunk, blocks, cancelled, requested, toggles>>
    BY <1>15 DEF ShowChunk
  <2> QED
    BY <2>2, <2>3, <2>4 DEF reader_vars
<1>16. CASE FinishPipeline
  BY <1>16 DEF FinishPipeline, Fail, SeenToggles, reader_vars, display_vars
<1>17. CASE AbortSource
  BY <1>17 DEF AbortSource, SourceCancelled, reader_vars, display_vars
<1>18. CASE JoinReader
  BY <1>18 DEF JoinReader, reader_vars, display_vars
<1>19. CASE Done
  BY <1>19 DEF Done, reader_vars, display_vars, vars
<1>20. CASE UNCHANGED vars
  BY <1>20 DEF vars, reader_vars, display_vars
<1> QED
  BY <1>1, <1>2, <1>3, <1>4, <1>5, <1>6, <1>7, <1>8, <1>9, <1>10, <1>11, <1>12, <1>13, <1>14, <1>15, <1>16, <1>17, <1>18, <1>19, <1>20 DEF Next, Reader, Display

(* The state stays within its types, for every value of the constants: the *)
(* queue never outgrows its capacity, no more is read than was written,    *)
(* and the toggles an update has seen were pressed (all actions).          *)
THEOREM TypeCorrect == Spec => []TypeOK
<1>1. TypeInv => TypeOK
  BY DEF TypeInv
<1> QED
  BY TypeInit, TypeStep, <1>1, PTL DEF Spec

-----------------------------------------------------------------------------
IInv == /\ TypeInv
        /\ ShownInOrder
        /\ TakenAccount
        /\ QueueAccount
        /\ ReaderAccount
        /\ EndAccount

\* The account holds at the start.
LEMMA IInvInit == Init => IInv
<1> SUFFICES ASSUME Init PROVE IInv
  OBVIOUS
<1>1. TypeInv
  BY TypeInit
<1>2. queue = <<>> /\ shown = <<>> /\ chunk.id = 0 /\ message.kind = "end"
  BY DEF Init, None, Marker
<1>3. ~Marked /\ ~Held
  BY <1>2 DEF Init, Marked, Held
<1>4. ShownInOrder /\ TakenAccount
  BY <1>2 DEF Init, ShownInOrder, TakenAccount, InHand
<1>5. QueueAccount /\ ReaderAccount /\ EndAccount
  BY <1>2, <1>3 DEF Init, QueueAccount, ReaderAccount, EndAccount, InHand
<1> QED
  BY <1>1, <1>4, <1>5 DEF IInv

\* A message goes from the reader's hand to the end of the queue.
LEMMA Delivery ==
  ASSUME IInv,
         reader \in {"offer", "send"},
         queue' = Append(queue, message),
         AfterSend(TRUE),
         UNCHANGED <<read, message, display_vars>>
  PROVE  QueueAccount' /\ ReaderAccount'
<1> USE DEF IInv, TypeInv, TypeOK
<1>1. \A i \in 1..Len(queue) : queue[i].kind = "bytes" /\ queue[i].id = chunk.id + i
  BY DEF QueueAccount, Marked
<1>2. /\ Len(queue) \in Nat
      /\ Len(queue') = Len(queue) + 1
      /\ \A i \in 1..Len(queue) : queue'[i] = queue[i]
      /\ queue'[Len(queue')] = message
  BY Appended
<1>3. chunk.id \in Nat /\ UNCHANGED <<chunk, display, read, message>>
  BY MessageFields DEF display_vars
<1>4. ~Marked
  BY DEF QueueAccount
<1>5. CASE message.kind = "bytes"
  <2>1. message.id = chunk.id + Len(queue')
    BY <1>2, <1>3, <1>4, <1>5 DEF ReaderAccount, Held
  <2>2. ~Marked' /\ ~Held' /\ reader' = "read"
    BY <1>2, <1>5 DEF Marked, Held, AfterSend
  <2>3. read = message.id
    BY <1>5 DEF ReaderAccount, Held
  <2>4. QueueAccount'
    BY <1>1, <1>2, <1>3, <1>5, <2>1, <2>2 DEF QueueAccount
  <2>5. ReaderAccount'
    BY <1>2, <1>3, <2>1, <2>2, <2>3 DEF ReaderAccount
  <2> QED
    BY <2>4, <2>5
<1>6. CASE message.kind # "bytes"
  <2>1. Marked' /\ ~Held /\ ~Held' /\ reader' = "done"
    BY <1>2, <1>3, <1>6 DEF Marked, Held, AfterSend, ReaderAccount
  <2>2. read = chunk.id + Len(queue)
    BY <1>2, <1>3, <1>4, <2>1 DEF ReaderAccount
  <2>3. QueueAccount'
    BY <1>1, <1>2, <1>3, <1>6, <2>1 DEF QueueAccount
  <2>4. ReaderAccount'
    BY <1>2, <1>3, <2>1, <2>2 DEF ReaderAccount
  <2> QED
    BY <2>3, <2>4
<1> QED
  BY <1>5, <1>6

\* The display thread takes a chunk, or the last message, off the queue.
LEMMA Reception ==
  ASSUME IInv, Receive
  PROVE  TakenAccount' /\ QueueAccount' /\ ReaderAccount' /\ EndAccount'
<1>0. /\ queue \in Seq(Message) /\ chunk \in Message /\ shown \in Seq(Nat) /\ read \in Nat
      /\ TakenAccount /\ QueueAccount /\ ReaderAccount /\ EndAccount
  BY DEF IInv, TypeInv, TypeOK
<1>1. /\ Len(queue) \in Nat /\ Len(queue) > 0
      /\ Head(queue) = queue[1] /\ queue[1] \in Message
      /\ queue' = Tail(queue)
      /\ Len(queue') = Len(queue) - 1
      /\ \A i \in 1..Len(queue') : queue'[i] = queue[i + 1]
  BY <1>0, HeadAndTail DEF Receive
<1>2. Len(queue) \in Nat /\ Len(queue) > 0 /\ Len(queue') = Len(queue) - 1
  BY <1>1
<1>3. /\ display = "recv" /\ processing = "pending"
      /\ chunk.id = Len(shown) /\ chunk.id \in Nat /\ Len(shown) \in Nat
      /\ UNCHANGED <<read, reader, message, shown>>
  BY <1>0, MessageFields DEF Receive, TakenAccount, EndAccount, reader_vars
<1>4. CASE queue[1].kind = "bytes"
  <2>1. /\ display' = "update" /\ UNCHANGED processing
        /\ chunk' = queue[1] /\ chunk'.id = chunk.id + 1
    <3>1. 1 \in 1..Len(queue)
      BY <1>1
    <3>2. queue[1].id = chunk.id + 1
      BY <1>0, <1>4, <3>1 DEF QueueAccount
    <3> QED
      BY <1>1, <1>4, <3>2 DEF Receive
  <2>2. Marked' <=> Marked
    BY <1>1, <1>4 DEF Marked
  <2>3. TakenAccount' /\ EndAccount'
    BY <1>0, <1>3, <2>1 DEF TakenAccount, EndAccount, InHand
  <2>4. \A i \in 1..Len(queue') :
          /\ queue'[i].kind = "bytes" => queue'[i].id = chunk'.id + i
          /\ i < Len(queue') => queue'[i].kind = "bytes"
    <3> TAKE i \in 1..Len(queue')
    <3>1. /\ i + 1 \in 1..Len(queue)
          /\ queue'[i] = queue[i + 1]
          /\ i < Len(queue') => i + 1 < Len(queue)
      BY <1>1
    <3>2. queue[i + 1].kind = "bytes" => queue[i + 1].id = chunk.id + (i + 1)
      BY <1>0, <3>1 DEF QueueAccount
    <3>3. i < Len(queue') => queue[i + 1].kind = "bytes"
      BY <1>0, <3>1 DEF QueueAccount
    <3> QED
      BY <1>3, <2>1, <3>1, <3>2, <3>3
  <2>5. Marked' => reader' = "done" /\ message' = queue'[Len(queue')]
    BY <1>0, <1>1, <1>3, <2>2 DEF QueueAccount, Marked
  <2>6. ReaderAccount'
    <3>1. Held' <=> Held
      BY <1>3 DEF Held
    <3>2. chunk'.id + Len(queue') = chunk.id + Len(queue)
      BY <1>3, <1>2, <2>1
    <3>3. read = chunk.id + Len(queue) - (IF Marked THEN 1 ELSE 0) + (IF Held THEN 1 ELSE 0)
      BY <1>0 DEF ReaderAccount
    <3>4. read' = chunk'.id + Len(queue') - (IF Marked' THEN 1 ELSE 0) + (IF Held' THEN 1 ELSE 0)
      BY <1>3, <1>2, <2>1, <2>2, <3>1, <3>2, <3>3
    <3>5. /\ reader' \in {"offer", "cancel"} => message'.kind = "bytes"
          /\ Held' => message'.id = read'
          /\ reader' = "done" => Marked'
      BY <1>0, <1>3, <2>2, <3>1 DEF ReaderAccount
    <3> QED
      BY <3>4, <3>5 DEF ReaderAccount
  <2> QED
    BY <2>3, <2>4, <2>5, <2>6 DEF QueueAccount
<1>5. CASE queue[1].kind # "bytes"
  <2>1. Len(queue) = 1
    <3>1. 1 \in 1..Len(queue)
      BY <1>1
    <3>2. ~(1 < Len(queue))
      BY <1>0, <1>5, <3>1 DEF QueueAccount
    <3> QED
      BY <1>2, <3>2
  <2>2. Marked /\ reader = "done" /\ message = queue[1]
    BY <1>0, <1>5, <2>1 DEF QueueAccount, Marked
  <2>3. Len(queue') = 0 /\ queue' = <<>>
    <3>1. Len(queue') = 0
      BY <1>2, <2>1
    <3> QED
      BY <1>0, <1>1, <3>1, HeadAndTail
  <2>4. /\ UNCHANGED chunk
        /\ \/ queue[1].kind = "end" /\ display' = "finish" /\ UNCHANGED processing
           \/ queue[1].kind = "error" /\ display' = "fail" /\ processing' = "read_error"
    <3>1. queue[1].kind \in {"end", "error"}
      BY <1>1, <1>5, MessageFields
    <3> QED
      BY <1>1, <3>1 DEF Receive
  <2>5. TakenAccount' /\ EndAccount'
    BY <1>0, <1>3, <2>2, <2>3, <2>4 DEF TakenAccount, EndAccount, InHand
  <2>6. QueueAccount'
    BY <1>0, <2>3 DEF QueueAccount, Marked
  <2>7. read = chunk.id /\ ~Held' /\ ~Marked'
    BY <1>0, <1>3, <1>5, <2>1, <2>2, <2>3 DEF ReaderAccount, Held, Marked
  <2>8. ReaderAccount'
    BY <1>0, <1>3, <2>2, <2>3, <2>4, <2>7 DEF ReaderAccount, InHand
  <2> QED
    BY <2>5, <2>6, <2>8
<1> QED
  BY <1>4, <1>5

\* Every step keeps the account.
LEMMA IInvStep == IInv /\ [Next]_vars => IInv'
<1> SUFFICES ASSUME IInv, [Next]_vars
             PROVE  /\ ShownInOrder' /\ TakenAccount' /\ QueueAccount'
                    /\ ReaderAccount' /\ EndAccount'
  BY TypeStep DEF IInv
<1> USE DEF IInv, TypeInv, TypeOK
<1>1. CASE SourceEnds
  <2>1. UNCHANGED <<read, reader, message, queue, display, chunk, shown, processing>>
    BY <1>1 DEF SourceEnds, reader_vars, display_vars
  <2> QED
    BY <2>1 DEF ShownInOrder, TakenAccount, QueueAccount, ReaderAccount, EndAccount,
         InHand, Held, Marked
<1>2. CASE PressToggle
  BY <1>2 DEF PressToggle, reader_vars, display_vars,
       ShownInOrder, TakenAccount, QueueAccount, ReaderAccount,
       EndAccount, InHand, Held, Marked
<1>3. CASE ReadBytes
  <2>1. ~Held /\ Held' /\ (Marked' <=> Marked) /\ read' = read + 1 /\ message'.id = read'
    BY <1>3 DEF ReadBytes, Bytes, Held, Marked
  <2>2. ReaderAccount'
    <3>1. read \in Nat /\ chunk.id \in Nat /\ Len(queue) \in Nat
      BY PumpAssumption, MessageFields
    <3>2. UNCHANGED <<queue, display_vars>> /\ reader' = "offer" /\ message'.kind = "bytes"
      BY <1>3 DEF ReadBytes, Bytes
    <3> QED
      BY <2>1, <3>1, <3>2 DEF ReaderAccount, display_vars
  <2>3. ShownInOrder' /\ TakenAccount' /\ QueueAccount' /\ EndAccount'
    BY <1>3 DEF ReadBytes, display_vars, ShownInOrder, TakenAccount, QueueAccount,
       EndAccount, InHand, Marked
  <2> QED
    BY <2>2, <2>3
<1>4. CASE ReadEnd
  BY <1>4 DEF ReadEnd, AtEnd, Marker, reader_vars, display_vars,
       ShownInOrder, TakenAccount, QueueAccount, ReaderAccount,
       EndAccount, InHand, Held, Marked
<1>5. CASE ReadError
  BY <1>5 DEF ReadError, Marker, reader_vars, display_vars,
       ShownInOrder, TakenAccount, QueueAccount, ReaderAccount,
       EndAccount, InHand, Held, Marked
<1>6. CASE Offer
  <2>1. CASE queue' = Append(queue, message) /\ AfterSend(TRUE)
    <3>1. QueueAccount' /\ ReaderAccount'
      BY <1>6, <2>1, Delivery DEF Offer
    <3>2. ShownInOrder' /\ TakenAccount' /\ EndAccount'
      BY <1>6 DEF Offer, display_vars, ShownInOrder, TakenAccount, EndAccount, InHand
    <3> QED
      BY <3>1, <3>2
  <2>2. CASE UNCHANGED queue
    BY <1>6, <2>2 DEF Offer, AfterSend, AfterFull, ReceiverOpen, display_vars, ShownInOrder, TakenAccount, QueueAccount, ReaderAccount,
       EndAccount, InHand, Held, Marked
  <2> QED
    BY <1>6, <2>1, <2>2 DEF Offer
<1>7. CASE CancelAttempt
  BY <1>7 DEF CancelAttempt, reader_vars, display_vars,
       ShownInOrder, TakenAccount, QueueAccount, ReaderAccount,
       EndAccount, InHand, Held, Marked
<1>8. CASE Send
  <2>1. CASE queue' = Append(queue, message) /\ AfterSend(TRUE)
    <3>1. QueueAccount' /\ ReaderAccount'
      BY <1>8, <2>1, Delivery DEF Send
    <3>2. ShownInOrder' /\ TakenAccount' /\ EndAccount'
      BY <1>8 DEF Send, display_vars, ShownInOrder, TakenAccount, EndAccount, InHand
    <3> QED
      BY <3>1, <3>2
  <2>2. CASE ~ReceiverOpen /\ UNCHANGED queue
    BY <1>8, <2>2 DEF Send, AfterSend, ReceiverOpen, display_vars, ShownInOrder, TakenAccount, QueueAccount, ReaderAccount,
       EndAccount, InHand, Held, Marked
  <2> QED
    BY <1>8, <2>1, <2>2 DEF Send
<1>9. CASE Receive
  <2>1. ShownInOrder'
    BY <1>9 DEF Receive, ShownInOrder
  <2> QED
    BY <1>9, <2>1, Reception
<1>10. CASE UpdateContext
  BY <1>10 DEF UpdateContext, SeenToggles, reader_vars, display_vars,
       ShownInOrder, TakenAccount, QueueAccount, ReaderAccount,
       EndAccount, InHand, Held, Marked
<1>11. CASE CheckCancellation
  BY <1>11 DEF CheckCancellation, reader_vars, display_vars,
       ShownInOrder, TakenAccount, QueueAccount, ReaderAccount,
       EndAccount, InHand, Held, Marked
<1>12. CASE AttemptEnds
  BY <1>12 DEF AttemptEnds, reader_vars, display_vars,
       ShownInOrder, TakenAccount, QueueAccount, ReaderAccount,
       EndAccount, InHand, Held, Marked
<1>13. CASE ResetCancellation
  BY <1>13 DEF ResetCancellation, Fail, reader_vars, display_vars,
       ShownInOrder, TakenAccount, QueueAccount, ReaderAccount,
       EndAccount, InHand, Held, Marked
<1>14. CASE Refuse
  BY <1>14 DEF Refuse, Fail, reader_vars, display_vars,
       ShownInOrder, TakenAccount, QueueAccount, ReaderAccount,
       EndAccount, InHand, Held, Marked
<1>15. CASE ShowChunk
  <2>1. ShownInOrder'
    <3>1. chunk.id = Len(shown) + 1 /\ chunk.id \in Nat
      BY <1>15, MessageFields DEF ShowChunk, TakenAccount, InHand
    <3>2. shown' = shown \/ shown' = Append(shown, chunk.id)
      BY <1>15 DEF ShowChunk
    <3> QED
      BY <3>1, <3>2, Appended DEF ShownInOrder
  <2>2. TakenAccount' /\ QueueAccount' /\ ReaderAccount' /\ EndAccount'
    BY <1>15 DEF ShowChunk, Fail, reader_vars, ShownInOrder, TakenAccount, QueueAccount, ReaderAccount,
       EndAccount, InHand, Held, Marked
  <2> QED
    BY <2>1, <2>2
<1>16. CASE FinishPipeline
  BY <1>16 DEF FinishPipeline, Fail, reader_vars, display_vars,
       ShownInOrder, TakenAccount, QueueAccount, ReaderAccount,
       EndAccount, InHand, Held, Marked
<1>17. CASE AbortSource
  BY <1>17 DEF AbortSource, SourceCancelled, reader_vars, display_vars,
       ShownInOrder, TakenAccount, QueueAccount, ReaderAccount,
       EndAccount, InHand, Held, Marked
<1>18. CASE JoinReader
  BY <1>18 DEF JoinReader, reader_vars, display_vars,
       ShownInOrder, TakenAccount, QueueAccount, ReaderAccount,
       EndAccount, InHand, Held, Marked
<1>19. CASE Done
  BY <1>19 DEF Done, reader_vars, display_vars, vars,
       ShownInOrder, TakenAccount, QueueAccount, ReaderAccount,
       EndAccount, InHand, Held, Marked
<1>20. CASE UNCHANGED vars
  BY <1>20 DEF vars, reader_vars, display_vars, ShownInOrder, TakenAccount, QueueAccount, ReaderAccount,
       EndAccount, InHand, Held, Marked
<1> QED
  BY <1>1, <1>2, <1>3, <1>4, <1>5, <1>6, <1>7, <1>8, <1>9, <1>10, <1>11, <1>12, <1>13, <1>14, <1>15, <1>16, <1>17, <1>18, <1>19, <1>20 DEF Next, Reader, Display

\* The account holds throughout.
LEMMA IInvHolds == Spec => []IInv
  BY IInvInit, IInvStep, PTL DEF Spec
-----------------------------------------------------------------------------
(* Chunks reach the display in the order they were read, none skipped and  *)
(* none twice, for every capacity and number of chunks (read_bounded, the  *)
(* recv loop).                                                             *)
THEOREM DisplayOrder == Spec => []ShownInOrder
<1>1. IInv => ShownInOrder
  BY DEF IInv
<1> QED
  BY IInvHolds, <1>1, PTL

\* What the accounts say of the end.
LEMMA IInvAtEnd == IInv => NothingDroppedAtEnd
<1> SUFFICES ASSUME IInv, processing \in {"ok", "read_error"}
             PROVE  /\ Len(shown) = read
                    /\ reader = "done"
                    /\ processing = "ok" <=> message.kind = "end"
  BY DEF NothingDroppedAtEnd
<1>1. /\ queue = <<>> /\ reader = "done" /\ chunk.id = Len(shown)
      /\ processing = "ok" => message.kind = "end"
      /\ processing = "read_error" => message.kind = "error"
  BY DEF IInv, EndAccount, TakenAccount
<1>2. ~Marked /\ ~Held /\ Len(queue) = 0 /\ chunk.id \in Nat
  BY <1>1, MessageFields DEF Marked, Held, IInv, TypeInv, TypeOK
<1>3. read = chunk.id
  BY <1>2 DEF IInv, ReaderAccount
<1> QED
  BY <1>1, <1>3

\* The account bounds what is read and not shown.
LEMMA IInvBounds == IInv => PendingBounded
<1> SUFFICES ASSUME IInv PROVE read - Len(shown) <= Capacity + 2
  BY DEF PendingBounded
<1>1. /\ chunk.id \in Nat /\ read \in Nat
      /\ Capacity \in Nat /\ Len(queue) \in Nat /\ Len(queue) <= Capacity
      /\ Len(shown) \in Nat
  BY PumpAssumption, MessageFields DEF IInv, TypeInv, TypeOK
<1>2. chunk.id <= Len(shown) + 1
  BY <1>1 DEF IInv, TakenAccount
<1>3. read <= chunk.id + Len(queue) + 1
  BY <1>1 DEF IInv, ReaderAccount
<1> QED
  BY <1>1, <1>2, <1>3

(* The pump reports success, or the reader's error, only once everything   *)
(* that was read is on the display and the reader has ended.               *)
THEOREM NothingLost == Spec => []NothingDroppedAtEnd
<1>1. IInv => NothingDroppedAtEnd
  BY IInvAtEnd
<1> QED
  BY IInvHolds, <1>1, PTL

(* What has been read and not displayed is bounded by the capacity of the  *)
(* queue and one chunk at either end of it, also after a failure.          *)
THEOREM BoundedPending == Spec => []PendingBounded
<1>1. IInv => PendingBounded
  BY IInvBounds
<1> QED
  BY IInvHolds, <1>1, PTL

(* The display thread finds the channel closed only after it was told of   *)
(* the end: the Err(_) arm of its recv loop is never taken.                *)
THEOREM EndAnnounced == Spec => []EndIsAnnounced
<1>1. IInv => EndIsAnnounced
  BY DEF IInv, ReaderAccount, Marked, EndIsAnnounced
<1> QED
  BY IInvHolds, <1>1, PTL
-----------------------------------------------------------------------------
\* The steps of the abstract specification, one lemma for each kind.

\* A read accepts the next chunk, as the abstract delivery does.
LEMMA ReadAccepts ==
  ASSUME IInv, PendingBounded', ReadBytes
  PROVE  Promised!Accept
<1>1. read \in Nat /\ Len(shown) \in Nat /\ Capacity \in Nat
  BY PumpAssumption DEF IInv, TypeInv, TypeOK
<1>2. read' = read + 1 /\ shown' = shown /\ processing' = processing /\ reader = "read"
  BY DEF ReadBytes, display_vars
<1>3. Outcome # "complete"
  <2> SUFFICES ASSUME processing \in {"ok", "read_error"} PROVE FALSE
    BY DEF Outcome
  <2> QED BY <1>2 DEF IInv, EndAccount
<1>4. read - Len(shown) < Capacity + 2
  <2>1. read' - Len(shown') <= Capacity + 2
    BY DEF PendingBounded
  <2> QED BY <1>1, <1>2, <2>1
<1> QED BY <1>2, <1>3, <1>4 DEF Promised!Accept, Outcome

\* Showing a chunk delivers the next one accepted.
LEMMA ShowingShows ==
  ASSUME IInv, ShowChunk, processing' = processing
  PROVE  Promised!Show
<1>1. display = "resolve" /\ processing = "pending" /\ read' = read
  BY DEF ShowChunk, IInv, EndAccount, InHand, reader_vars
<1>2. chunk.id = Len(shown) + 1 /\ Len(shown) \in Nat /\ read \in Nat
  BY <1>1 DEF IInv, TypeInv, TypeOK, TakenAccount, InHand
<1>3. shown' = Append(shown, Len(shown) + 1)
  BY <1>1, <1>2 DEF ShowChunk, Fail
<1>4. Len(shown) < read
  <2>1. Len(queue) \in Nat /\ (Marked => Len(queue) > 0)
    BY DEF IInv, TypeInv, TypeOK, Marked
  <2> QED BY <1>2, <2>1 DEF IInv, ReaderAccount
<1> QED BY <1>1, <1>3, <1>4 DEF Promised!Show, Outcome

\* The end completes the delivery, with nothing pending.
LEMMA EndingCompletes ==
  ASSUME NothingDroppedAtEnd', processing = "pending", processing' \in {"ok", "read_error"},
         UNCHANGED <<read, shown>>
  PROVE  Promised!Complete
<1>1. Len(shown') = read'
  BY DEF NothingDroppedAtEnd
<1> QED BY <1>1 DEF Promised!Complete, Outcome

\* A failure gives the delivery up.
LEMMA FailingGivesUp ==
  ASSUME processing = "pending", processing' \in {"render_error", "io_error"},
         UNCHANGED <<read, shown>>
  PROVE  Promised!GiveUp
  BY DEF Promised!GiveUp, Outcome

\* Every step is a step of the abstract delivery or leaves it as it is.
LEMMA StepDelivers ==
  IInv /\ NothingDroppedAtEnd' /\ PendingBounded' /\ [Next]_vars
    => [Promised!Next]_Promised!vars
<1> SUFFICES ASSUME IInv, NothingDroppedAtEnd', PendingBounded', [Next]_vars
             PROVE  Promised!Next \/ UNCHANGED Promised!vars
  OBVIOUS
<1> DEFINE Same == UNCHANGED <<read, shown, processing>>
<1>1. Same => UNCHANGED Promised!vars
  BY DEF Promised!vars, Outcome
<1>2. CASE ReadBytes
  BY <1>2, ReadAccepts DEF Promised!Next
<1>3. CASE ShowChunk
  <2>1. CASE processing' = processing
    BY <1>3, <2>1, ShowingShows DEF Promised!Next
  <2>2. CASE processing' # processing
    <3>1. processing = "pending" /\ processing' = "io_error" /\ UNCHANGED <<read, shown>>
      BY <1>3, <2>2 DEF ShowChunk, Fail, IInv, EndAccount, InHand, reader_vars
    <3> QED BY <3>1, FailingGivesUp DEF Promised!Next
  <2> QED BY <2>1, <2>2
<1>4. CASE Receive
  <2>1. processing = "pending" /\ processing' \in {"pending", "read_error"}
        /\ UNCHANGED <<read, shown>>
    <3>1. Head(queue).kind \in {"bytes", "end", "error"}
      BY <1>4, HeadAndTail, MessageFields DEF Receive, IInv, TypeInv, TypeOK
    <3>2. processing = "pending"
      BY <1>4 DEF Receive, IInv, EndAccount
    <3>3. CASE Head(queue).kind = "error"
      BY <1>4, <3>2, <3>3 DEF Receive, reader_vars
    <3>4. CASE Head(queue).kind # "error"
      BY <1>4, <3>1, <3>2, <3>4 DEF Receive, reader_vars
    <3> QED BY <3>3, <3>4
  <2> QED BY <1>1, <2>1, EndingCompletes DEF Promised!Next
<1>5. CASE FinishPipeline
  <2>1. processing = "pending" /\ processing' \in {"ok", "io_error"} /\ UNCHANGED <<read, shown>>
    BY <1>5 DEF FinishPipeline, Fail, IInv, EndAccount, reader_vars
  <2> QED BY <2>1, EndingCompletes, FailingGivesUp DEF Promised!Next
<1>6. CASE ResetCancellation \/ Refuse
  <2>1. processing = "pending" /\ UNCHANGED <<read, shown>>
        /\ processing' \in {"pending", "render_error", "io_error"}
    BY <1>6 DEF ResetCancellation, Refuse, Fail, IInv, EndAccount, InHand, reader_vars
  <2> QED BY <1>1, <2>1, FailingGivesUp DEF Promised!Next
<1>7. CASE SourceEnds \/ PressToggle \/ Done \/ UNCHANGED vars
  BY <1>1, <1>7 DEF SourceEnds, PressToggle, Done, vars, reader_vars, display_vars
<1>8. CASE ReadEnd \/ ReadError \/ Offer \/ CancelAttempt \/ Send
  BY <1>1, <1>8 DEF ReadEnd, ReadError, Offer, CancelAttempt, Send, display_vars
<1>9. CASE UpdateContext \/ CheckCancellation \/ AttemptEnds \/ AbortSource \/ JoinReader
  BY <1>1, <1>9 DEF UpdateContext, CheckCancellation, AttemptEnds, AbortSource, JoinReader,
                    reader_vars
<1> QED
  BY <1>2, <1>3, <1>4, <1>5, <1>6, <1>7, <1>8, <1>9 DEF Next, Reader, Display

(* The pump implements the bounded, ordered delivery, for every capacity,  *)
(* number of chunks, blocks and toggles, strict or not: threads, queue and *)
(* marker are no more than a way to do it (run_bounded_with_updates).      *)
THEOREM Delivers == Spec => ImplementsDelivery
<1>1. Init => Promised!Init
  BY DEF Init, Promised!Init, Outcome
<1> QED
  BY <1>1, StepDelivers, IInvHolds, IInvAtEnd, IInvBounds, PTL DEF Spec, ImplementsDelivery, Promised!Spec
-----------------------------------------------------------------------------
\* No chunk has seen more presses of the toggle than there were.
ToggleInv ==
  /\ message.toggles <= toggles /\ chunk.toggles <= toggles
  /\ \A i \in 1..Len(queue) : queue[i].toggles <= toggles
  /\ display \in {"resolve", "attempt", "reset", "refused"} => requested >= chunk.toggles

\* However a step leaves the queue, its messages carry presses already made.
LEMMA ToggleDelivery ==
  ASSUME TypeInv, ToggleInv, toggles' = toggles,
         UNCHANGED queue \/ queue' = Append(queue, message)
  PROVE  \A i \in 1..Len(queue') : queue'[i].toggles <= toggles'
<1>1. CASE UNCHANGED queue
  BY <1>1 DEF ToggleInv
<1>2. CASE queue' = Append(queue, message)
  <2>1. /\ Len(queue) \in Nat /\ Len(queue') = Len(queue) + 1
        /\ \A i \in 1..Len(queue) : queue'[i] = queue[i]
        /\ queue'[Len(queue) + 1] = message
    BY <1>2, Appended DEF TypeInv, TypeOK
  <2> QED BY <2>1 DEF ToggleInv
<1> QED BY <1>1, <1>2

\* Taking a message off the queue keeps the account of the toggles.
LEMMA ToggleReception ==
  ASSUME TypeInv, ToggleInv, Receive
  PROVE  ToggleInv'
<1>1. /\ Head(queue) \in Message /\ Head(queue).toggles <= toggles
      /\ Len(queue') \in Nat /\ Len(queue') = Len(queue) - 1
      /\ \A i \in 1..Len(queue') : queue'[i] = queue[i + 1]
  BY HeadAndTail DEF Receive, TypeInv, TypeOK, ToggleInv
<1>2. toggles' = toggles /\ message' = message
  BY DEF Receive, reader_vars
<1>3. \A i \in 1..Len(queue') : queue'[i].toggles <= toggles'
  <2>1. SUFFICES ASSUME NEW i \in 1..Len(queue') PROVE queue[i + 1].toggles <= toggles
    BY <1>1, <1>2
  <2>2. Len(queue) \in Nat /\ i + 1 \in 1..Len(queue)
    BY <1>1 DEF TypeInv, TypeOK
  <2> QED BY <2>2 DEF ToggleInv
<1>4. chunk'.toggles <= toggles'
  <2>1. chunk' = Head(queue) \/ chunk' = chunk
    <3>1. Head(queue).kind \in {"bytes", "end", "error"}
      BY <1>1, MessageFields
    <3> QED BY <3>1 DEF Receive
  <2> QED BY <1>1, <1>2, <2>1 DEF ToggleInv
<1>5. display' \in {"update", "finish", "fail"}
  BY <1>1 DEF Receive, Message
<1> QED BY <1>2, <1>3, <1>4, <1>5 DEF ToggleInv

\* Every step keeps the account of the toggles.
LEMMA ToggleStep == TypeInv /\ ToggleInv /\ [Next]_vars => ToggleInv'
<1> SUFFICES ASSUME TypeInv, ToggleInv, [Next]_vars PROVE ToggleInv'
  OBVIOUS
<1>a. /\ toggles \in Nat /\ requested \in Nat /\ requested <= toggles
      /\ message.toggles \in Nat /\ chunk.toggles \in Nat
      /\ Len(queue) \in Nat /\ \A i \in 1..Len(queue) : queue[i].toggles \in Nat
  <2>1. /\ toggles \in Nat /\ requested \in Nat /\ requested <= toggles
        /\ message \in Message /\ chunk \in Message
    BY PumpAssumption DEF TypeInv, TypeOK
  <2>2. Len(queue) \in Nat /\ \A i \in 1..Len(queue) : queue[i] \in Message
    BY DEF TypeInv, TypeOK
  <2>3. \A m \in Message : m.toggles \in Nat
    BY DEF Message
  <2> QED BY <2>1, <2>2, <2>3
<1>1. CASE PressToggle
  BY <1>1, <1>a DEF PressToggle, ToggleInv, reader_vars, display_vars
<1>2. CASE ReadBytes
  <2>1. message'.toggles = toggles
    BY <1>2 DEF ReadBytes, Bytes
  <2> QED BY <1>2, <1>a, <2>1 DEF ReadBytes, ToggleInv, display_vars
<1>3. CASE ReadEnd \/ ReadError
  <2>1. message'.toggles = 0
    BY <1>3 DEF ReadEnd, ReadError, Marker
  <2> QED BY <1>3, <1>a, <2>1 DEF ReadEnd, ReadError, ToggleInv, display_vars
<1>4. CASE Offer \/ Send
  <2>1. \A i \in 1..Len(queue') : queue'[i].toggles <= toggles'
    BY <1>4, ToggleDelivery DEF Offer, Send
  <2> QED BY <1>4, <2>1 DEF Offer, Send, ToggleInv, display_vars
<1>5. CASE Receive
  BY <1>5, ToggleReception
<1>6. CASE UpdateContext
  BY <1>6, <1>a DEF UpdateContext, SeenToggles, ToggleInv, reader_vars
<1>7. CASE CheckCancellation \/ AttemptEnds \/ ResetCancellation \/ Refuse
  BY <1>7 DEF CheckCancellation, AttemptEnds, ResetCancellation, Refuse, Fail,
              ToggleInv, reader_vars
<1>8. CASE ShowChunk \/ FinishPipeline \/ AbortSource \/ JoinReader
  BY <1>8 DEF ShowChunk, FinishPipeline, AbortSource, JoinReader, Fail, ToggleInv, reader_vars
<1>9. CASE SourceEnds \/ CancelAttempt \/ Done \/ UNCHANGED vars
  BY <1>9 DEF SourceEnds, CancelAttempt, Done, ToggleInv, vars, reader_vars, display_vars
<1> QED
  BY <1>1, <1>2, <1>3, <1>4, <1>5, <1>6, <1>7, <1>8, <1>9 DEF Next, Reader, Display

(* A chunk read after a press of the toggle is displayed with that press   *)
(* taken into account (the update_context between recv and feed).          *)
THEOREM ToggleSeen == Spec => []ToggleReachesLaterOutput
<1>1. Init => ToggleInv
  BY PumpAssumption DEF Init, ToggleInv, None, Marker
<1>2. ToggleInv => ToggleReachesLaterOutput
  BY DEF ToggleInv, ToggleReachesLaterOutput
<1>3. TypeInv /\ ToggleInv /\ [Next]_vars => ToggleInv'
  BY ToggleStep
<1> QED BY TypeInit, TypeStep, <1>1, <1>2, <1>3, PTL DEF Spec
-----------------------------------------------------------------------------
(***************************************************************************)
(* InputPump, for every set of chunks that are read and every bound. From  *)
(* gives the meaning of the input from each position on; EndsIn says which *)
(* front of the scalar the input read so far ends in, and Accounts that    *)
(* the effects done, with what the filter holds, mean that input. The      *)
(* invariant InputInv ties the pump's control to that account.             *)
(***************************************************************************)

\* A set that has 0 and the successors of its numbers has them all.
LEMMA SetInduction ==
  ASSUME NEW S, 0 \in S, \A n \in Nat : n \in S => n + 1 \in S
  PROVE  Nat \subseteq S
<1> DEFINE T == Nat \ S
           R == {ss \in Nat \X Nat : ss[1] < ss[2]}
<1> SUFFICES ASSUME T # {} PROVE FALSE
  OBVIOUS
<1>1. IsWellFoundedOn(R, Nat)
  BY NatLessThanWellFounded DEF OpToRel
<1>2. PICK m \in T : \A k \in T : ~ (<<k, m>> \in R)
  <2>1. T \subseteq Nat
    OBVIOUS
  <2> HIDE DEF T, R
  <2> QED BY <1>1, <2>1, WFMin
<1>3. m \in Nat /\ m # 0
  OBVIOUS
<1>4. m - 1 \in Nat /\ m - 1 + 1 = m
  BY <1>3
<1>5. m - 1 \in T
  BY <1>4
<1>6. <<m - 1, m>> \in R
  BY <1>3, <1>4
<1> QED BY <1>2, <1>5, <1>6

\* Two sequences joined.
LEMMA JoinIs ==
  ASSUME NEW S, NEW a \in Seq(S), NEW b \in Seq(S)
  PROVE  /\ a \o b \in Seq(S)
         /\ Len(a \o b) = Len(a) + Len(b)
         /\ \A i \in 1..Len(a) : (a \o b)[i] = a[i]
         /\ \A j \in 1..Len(b) : (a \o b)[Len(a) + j] = b[j]
<1>1. PICK c, m, n : c = a \o b /\ m = Len(a) /\ n = Len(b)
  OBVIOUS
<1>2. m \in Nat /\ n \in Nat
  BY <1>1, LenProperties
<1>3. c \in Seq(S) /\ Len(c) = m + n
  BY <1>1, ConcatProperties
<1>4. \A i \in 1..(m + n) : c[i] = IF i <= m THEN a[i] ELSE b[i - m]
  BY <1>1, ConcatProperties
<1>5. \A i \in 1..m : c[i] = a[i]
  BY <1>2, <1>4
<1>6. \A j \in 1..n : c[m + j] = b[j]
  <2> TAKE j \in 1..n
  <2>1. PICK i : i = m + j
    OBVIOUS
  <2>2. i \in 1..(m + n) /\ ~(i <= m) /\ i - m = j
    BY <1>2, <2>1
  <2> QED BY <1>4, <2>1, <2>2
<1> QED BY <1>1, <1>3, <1>5, <1>6

\* What the input and the effects are made of.
Effect == InputByte \cup {Toggle}

\* The scalar stands at a place of the text.
ScalarAt(t, p) ==
  /\ p + 3 <= Len(t)
  /\ t[p] = "f4" /\ t[p + 1] = "8f" /\ t[p + 2] = "bf" /\ t[p + 3] = "bd"

\* That is what Meaning looks for.
LEMMA ScalarIs ==
  ASSUME NEW t \in Seq(InputByte), NEW p \in 1..Len(t)
  PROVE  LET n == Len(RENDER_TOGGLE_SEQUENCE)
         IN (p + n - 1 <= Len(t) /\ SubSeq(t, p, p + n - 1) = RENDER_TOGGLE_SEQUENCE)
              <=> ScalarAt(t, p)
<1>1. PICK s : s = RENDER_TOGGLE_SEQUENCE
  OBVIOUS
<1>2. s \in Seq(InputByte) /\ Len(s) = 4 /\ s[1] = "f4" /\ s[2] = "8f" /\ s[3] = "bf" /\ s[4] = "bd"
  BY <1>1 DEF RENDER_TOGGLE_SEQUENCE, InputByte
<1>3. PICK m, q : m = Len(t) /\ q = p + 3
  OBVIOUS
<1>4. m \in Nat /\ p \in Nat /\ q \in Nat /\ p + 4 - 1 = q /\ q - p + 1 = 4 /\ p <= q
  BY <1>3, LenProperties
<1>5. CASE q <= m
  <2>1. \A i \in p..q : t[i] \in InputByte
    <3> TAKE i \in p..q
    <3>1. i \in 1..Len(t)
      BY <1>3, <1>4, <1>5
    <3> QED BY <3>1, ElementOfSeq
  <2>2. PICK u : u = SubSeq(t, p, q)
    OBVIOUS
  <2>3. p \in Int /\ q \in Int
    BY <1>4
  <2>4. u \in Seq(InputByte) /\ Len(u) = 4 /\ \A i \in 1..4 : u[i] = t[p + i - 1]
    BY <1>4, <2>1, <2>2, <2>3, SubSeqProperties
  <2>5. u = s <=> \A i \in 1..4 : u[i] = s[i]
    BY <1>2, <2>4, SeqEqual
  <2>6. u[1] = t[p] /\ u[2] = t[p + 1] /\ u[3] = t[p + 2] /\ u[4] = t[p + 3]
    <3>1. p + 1 - 1 = p /\ p + 2 - 1 = p + 1 /\ p + 3 - 1 = p + 2 /\ p + 4 - 1 = p + 3
      BY <1>4
    <3> QED BY <2>4, <3>1
  <2>7. (\A i \in 1..4 : u[i] = s[i]) <=> u[1] = s[1] /\ u[2] = s[2] /\ u[3] = s[3] /\ u[4] = s[4]
    OBVIOUS
  <2>8. u = s <=> ScalarAt(t, p)
    BY <1>2, <1>3, <1>4, <1>5, <2>5, <2>6, <2>7 DEF ScalarAt
  <2> QED BY <1>1, <1>2, <1>3, <1>4, <1>5, <2>2, <2>8
<1>6. CASE ~(q <= m)
  BY <1>1, <1>2, <1>3, <1>4, <1>6 DEF ScalarAt
<1> QED BY <1>4, <1>5, <1>6, <1>3, LenProperties

\* The run of Meaning, from the end of the text.
IsMeaningRun(t, g) ==
  g = [p \in 1..(Len(t) + 1) |->
        IF p > Len(t) THEN <<>>
        ELSE IF p + Len(RENDER_TOGGLE_SEQUENCE) - 1 <= Len(t)
                /\ SubSeq(t, p, p + Len(RENDER_TOGGLE_SEQUENCE) - 1) = RENDER_TOGGLE_SEQUENCE
        THEN <<Toggle>> \o g[p + Len(RENDER_TOGGLE_SEQUENCE)]
        ELSE <<t[p]>> \o g[p + 1]]

MeaningRun(t) == CHOOSE g : IsMeaningRun(t, g)

\* What it says at a place, by what it says further on.
MeaningAt(t, g, p) ==
  IF p > Len(t) THEN <<>>
  ELSE IF ScalarAt(t, p) THEN <<Toggle>> \o g[p + 4] ELSE <<t[p]>> \o g[p + 1]

\* Two texts that agree from a position on mean the same from there.
LEMMA SameRun ==
  ASSUME NEW t \in Seq(InputByte), NEW g
  PROVE  IsMeaningRun(t, g) <=> g = [p \in 1..(Len(t) + 1) |-> MeaningAt(t, g, p)]
<1>1. Len(RENDER_TOGGLE_SEQUENCE) = 4
  BY DEF RENDER_TOGGLE_SEQUENCE
<1> DEFINE Value(p) ==
      IF p > Len(t) THEN <<>>
      ELSE IF p + Len(RENDER_TOGGLE_SEQUENCE) - 1 <= Len(t)
                /\ SubSeq(t, p, p + Len(RENDER_TOGGLE_SEQUENCE) - 1) = RENDER_TOGGLE_SEQUENCE
           THEN <<Toggle>> \o g[p + Len(RENDER_TOGGLE_SEQUENCE)]
           ELSE <<t[p]>> \o g[p + 1]
<1>2. ASSUME NEW p \in 1..(Len(t) + 1) PROVE Value(p) = MeaningAt(t, g, p)
  <2>1. Len(t) \in Nat
    BY LenProperties
  <2>2. CASE p > Len(t)
    BY <2>2 DEF MeaningAt
  <2>3. CASE ~(p > Len(t))
    <3>1. p \in 1..Len(t)
      BY <2>1, <2>3
    <3>2. (p + Len(RENDER_TOGGLE_SEQUENCE) - 1 <= Len(t)
             /\ SubSeq(t, p, p + Len(RENDER_TOGGLE_SEQUENCE) - 1) = RENDER_TOGGLE_SEQUENCE)
           <=> ScalarAt(t, p)
      BY <3>1, ScalarIs
    <3> HIDE <1>1
    <3>3. Value(p) = IF ScalarAt(t, p) THEN <<Toggle>> \o g[p + Len(RENDER_TOGGLE_SEQUENCE)]
                     ELSE <<t[p]>> \o g[p + 1]
      BY <2>3, <3>2, Zenon
    <3> HIDE DEF Value
    <3> QED BY <1>1, <2>3, <3>3 DEF MeaningAt
  <2> QED BY <2>2, <2>3
<1>3. [p \in 1..(Len(t) + 1) |-> Value(p)] = [p \in 1..(Len(t) + 1) |-> MeaningAt(t, g, p)]
  <2> HIDE DEF Value
  <2> QED BY <1>2
<1> QED BY <1>3, Zenon DEF IsMeaningRun

\* There is one.
LEMMA MeaningExists ==
  ASSUME NEW t \in Seq(InputByte)
  PROVE  IsMeaningRun(t, MeaningRun(t)) /\ Meaning(t) = MeaningRun(t)[1]
<1>1. PICK n : n = Len(t)
  OBVIOUS
<1>2. n \in Nat
  BY <1>1, LenProperties
<1> DEFINE Back(k, g) == g = [p \in (n + 1 - k)..(n + 1) |-> MeaningAt(t, g, p)]
           Good(k) == k <= n => \E g : Back(k, g)
<1>3. Good(0)
  <2> DEFINE g == [p \in (n + 1)..(n + 1) |-> <<>>]
  <2>1. \A p \in (n + 1)..(n + 1) : MeaningAt(t, g, p) = <<>>
    <3> HIDE DEF g
    <3> QED BY <1>1, <1>2 DEF MeaningAt
  <2>2. n + 1 - 0 = n + 1
    BY <1>2
  <2>3. Back(0, g)
    <3>1. g = [p \in (n + 1)..(n + 1) |-> MeaningAt(t, g, p)]
      BY <2>1
    <3> HIDE DEF g
    <3> QED BY <2>2, <3>1
  <2> HIDE DEF g
  <2> QED BY <2>3
<1>4. ASSUME NEW k \in Nat, Good(k) PROVE Good(k + 1)
  <2> SUFFICES ASSUME k + 1 <= n PROVE \E g : Back(k + 1, g)
    OBVIOUS
  <2>1. PICK g : Back(k, g)
    BY <1>2, <1>4
  <2>2. PICK q : q = n - k
    OBVIOUS
  <2>3. q \in 1..n /\ n + 1 - k = q + 1 /\ n + 1 - (k + 1) = q
    BY <1>2, <2>2
  <2>4. PICK first : first = MeaningAt(t, g, q)
    OBVIOUS
  <2> DEFINE h == [p \in q..(n + 1) |-> IF p = q THEN first ELSE g[p]]
  <2>5. \A p \in (q + 1)..(n + 1) : h[p] = g[p]
    BY <2>3, <1>2
  <2>6. ASSUME NEW p \in q..(n + 1) PROVE MeaningAt(t, g, p) = MeaningAt(t, h, p)
    <3> HIDE DEF h
    <3>1. p <= n => p + 1 \in (q + 1)..(n + 1) /\ (p + 3 <= n => p + 4 \in (q + 1)..(n + 1))
      BY <1>2, <2>3
    <3>2. p <= n => g[p + 1] = h[p + 1] /\ (p + 3 <= n => g[p + 4] = h[p + 4])
      BY <2>5, <3>1
    <3>3. CASE p > n
      BY <1>1, <3>3 DEF MeaningAt
    <3>4. CASE ~(p > n)
      <4>1. p <= n
        BY <1>2, <2>3, <3>4
      <4>2. CASE ScalarAt(t, p)
        <5>1. p + 3 <= n
          BY <1>1, <4>2 DEF ScalarAt
        <5> QED BY <3>2, <4>1, <4>2, <5>1 DEF MeaningAt
      <4>3. CASE ~ScalarAt(t, p)
        BY <3>2, <4>1, <4>3 DEF MeaningAt
      <4> QED BY <4>2, <4>3
    <3> QED BY <3>3, <3>4
  <2>7. ASSUME NEW p \in q..(n + 1) PROVE h[p] = MeaningAt(t, h, p)
    <3>1. CASE p = q
      <4>1. h[p] = first
        BY <3>1
      <4> HIDE DEF h
      <4> QED BY <2>4, <2>6, <3>1, <4>1
    <3>2. CASE p # q
      <4>1. p \in (q + 1)..(n + 1) /\ h[p] = g[p]
        BY <1>2, <2>3, <3>2
      <4>2. g[p] = MeaningAt(t, g, p)
        BY <2>1, <2>3, <4>1
      <4> HIDE DEF h
      <4> QED BY <2>6, <4>1, <4>2
    <3> QED BY <3>1, <3>2
  <2>8. h = [p \in q..(n + 1) |-> h[p]]
    OBVIOUS
  <2>9. h = [p \in q..(n + 1) |-> MeaningAt(t, h, p)]
    <3> HIDE DEF h
    <3> QED BY <2>7, <2>8
  <2>10. Back(k + 1, h)
    <3> HIDE DEF h
    <3> QED BY <2>3, <2>9
  <2> HIDE DEF h
  <2> QED BY <2>10
<1> DEFINE T == {k \in Nat : Good(k)}
<1> HIDE DEF Good
<1>5. 0 \in T /\ \A k \in Nat : k \in T => k + 1 \in T
  BY <1>3, <1>4
<1>6. Nat \subseteq T
  <2> HIDE DEF T
  <2> QED BY <1>5, SetInduction
<1>7. \E g : Back(n, g)
  <2>1. Good(n) /\ n <= n
    BY <1>2, <1>6
  <2> QED BY <2>1 DEF Good
<1>8. \E g : IsMeaningRun(t, g)
  <2>1. PICK g : Back(n, g)
    BY <1>7
  <2>2. n + 1 - n = 1
    BY <1>2
  <2>3. g = [p \in 1..(Len(t) + 1) |-> MeaningAt(t, g, p)]
    BY <1>1, <2>1, <2>2
  <2> QED BY <2>3, SameRun
<1>9. Meaning(t) = MeaningRun(t)[1]
  BY Zenon DEF Meaning, MeaningRun, IsMeaningRun
<1> QED BY <1>8, <1>9, Zenon DEF MeaningRun

\* The meaning of a text from a place on.
From(t, p) == MeaningRun(t)[p]

\* What a text means from each position on, one item at a time.
LEMMA FromIs ==
  ASSUME NEW t \in Seq(InputByte)
  PROVE  /\ Meaning(t) = From(t, 1)
         /\ From(t, Len(t) + 1) = <<>>
         /\ \A p \in 1..Len(t) :
              From(t, p) = IF ScalarAt(t, p) THEN <<Toggle>> \o From(t, p + 4)
                           ELSE <<t[p]>> \o From(t, p + 1)
<1>1. PICK g : g = MeaningRun(t)
  OBVIOUS
<1>2. IsMeaningRun(t, g) /\ Meaning(t) = g[1]
  BY <1>1, MeaningExists
<1>3. g = [p \in 1..(Len(t) + 1) |-> MeaningAt(t, g, p)]
  BY <1>2, SameRun
<1>4. PICK n : n = Len(t)
  OBVIOUS
<1>5. n \in Nat
  BY <1>4, LenProperties
<1>6. \A p \in 1..(n + 1) : g[p] = MeaningAt(t, g, p)
  <2>1. g = [p \in 1..(n + 1) |-> MeaningAt(t, g, p)]
    BY <1>3, <1>4
  <2> QED BY <2>1
<1>7. g[n + 1] = <<>>
  <2>1. n + 1 \in 1..(n + 1) /\ n + 1 > n
    BY <1>5
  <2>2. g[n + 1] = MeaningAt(t, g, n + 1)
    BY <1>6, <2>1
  <2> QED BY <1>4, <2>1, <2>2 DEF MeaningAt
<1>8. ASSUME NEW p \in 1..n
      PROVE  g[p] = IF ScalarAt(t, p) THEN <<Toggle>> \o g[p + 4] ELSE <<t[p]>> \o g[p + 1]
  <2>1. p \in 1..(n + 1) /\ ~(p > n)
    BY <1>5
  <2>2. g[p] = MeaningAt(t, g, p)
    BY <1>6, <2>1
  <2> QED BY <1>4, <2>1, <2>2 DEF MeaningAt
<1> QED BY <1>1, <1>2, <1>4, <1>7, <1>8 DEF From

\* Joining effects is associative.
LEMMA EffectsAssociate ==
  \A a, b, c \in Seq(Effect) : (a \o b) \o c = a \o (b \o c)
<1>1. ASSUME NEW a \in Seq(Effect), NEW b \in Seq(Effect), NEW c \in Seq(Effect)
      PROVE  (a \o b) \o c = a \o (b \o c)
  BY ConcatAssociative
<1> QED BY <1>1

\* One effect is a sequence of effects.
LEMMA OneEffect ==
  /\ \A e \in Effect : <<e>> \in Seq(Effect) /\ Len(<<e>>) = 1 /\ <<e>>[1] = e
  /\ <<>> \in Seq(Effect)
  /\ Toggle \in Effect
  /\ InputByte \subseteq Effect
BY DEF Effect

\* Joining nothing changes nothing.
LEMMA NothingJoined == \A t \in Seq(Effect) : <<>> \o t = t /\ t \o <<>> = t
<1>1. ASSUME NEW t \in Seq(Effect) PROVE <<>> \o t = t /\ t \o <<>> = t
  BY ConcatEmptySeq
<1> QED BY <1>1

\* Forwarded bytes are effects.
LEMMA InputIsEffects == Seq(InputByte) \subseteq Seq(Effect)
<1>1. InputByte \subseteq Effect
  BY DEF Effect
<1> QED BY <1>1, SeqMonotonic

\* What holds at the end of a text, and at a place when it holds further on,
\* holds everywhere.
LEMMA BackwardInduction ==
  ASSUME NEW n \in Nat, NEW S, n + 1 \in S,
         \A p \in 1..n : (\A q \in (p + 1)..(n + 1) : q \in S) => p \in S
  PROVE  \A p \in 1..(n + 1) : p \in S
<1> DEFINE T == {k \in Nat : \A p \in 1..(n + 1) : n + 1 - p <= k => p \in S}
<1>1. 0 \in T
  <2>1. ASSUME NEW p \in 1..(n + 1), n + 1 - p <= 0 PROVE p \in S
    <3>1. p = n + 1
      BY <2>1
    <3> QED BY <3>1
  <2> QED BY <2>1
<1>2. ASSUME NEW k \in Nat, k \in T PROVE k + 1 \in T
  <2>1. ASSUME NEW p \in 1..(n + 1), n + 1 - p <= k + 1 PROVE p \in S
    <3>1. CASE p = n + 1
      BY <3>1
    <3>2. CASE p # n + 1
      <4>1. p \in 1..n
        BY <3>2
      <4>2. \A q \in (p + 1)..(n + 1) : q \in S
        <5> TAKE q \in (p + 1)..(n + 1)
        <5>1. q \in 1..(n + 1) /\ n + 1 - q <= k
          BY <2>1, <4>1
        <5> QED BY <1>2, <5>1
      <4> QED BY <4>1, <4>2
    <3> QED BY <3>1, <3>2
  <2> QED BY <2>1
<1>3. Nat \subseteq T
  <2> HIDE DEF T
  <2> QED BY <1>1, <1>2, SetInduction
<1>4. ASSUME NEW p \in 1..(n + 1) PROVE p \in S
  <2>1. n + 1 - p \in Nat /\ n + 1 - p <= n + 1 - p
    OBVIOUS
  <2>2. n + 1 - p \in T
    BY <1>3, <2>1
  <2> QED BY <2>1, <2>2
<1> QED BY <1>4

\* The meaning of a text is a sequence of bytes and toggles.
LEMMA FromIsEffects ==
  ASSUME NEW t \in Seq(InputByte)
  PROVE  \A p \in 1..(Len(t) + 1) : From(t, p) \in Seq(Effect)
<1>1. PICK n : n = Len(t)
  OBVIOUS
<1>2. n \in Nat
  BY <1>1, LenProperties
<1> DEFINE S == {p \in Nat : From(t, p) \in Seq(Effect)}
<1>3. n + 1 \in S
  <2>1. From(t, n + 1) = <<>>
    BY <1>1, FromIs
  <2>2. <<>> \in Seq(Effect)
    BY OneEffect
  <2>3. From(t, n + 1) \in Seq(Effect)
    BY <2>1, <2>2, Zenon
  <2>4. n + 1 \in Nat
    BY <1>2
  <2> QED BY <2>3, <2>4
<1>4. ASSUME NEW p \in 1..n, \A q \in (p + 1)..(n + 1) : q \in S
      PROVE  p \in S
  <2>1. From(t, p) = IF ScalarAt(t, p) THEN <<Toggle>> \o From(t, p + 4)
                     ELSE <<t[p]>> \o From(t, p + 1)
    BY <1>1, FromIs
  <2>2. CASE ScalarAt(t, p)
    <3>1. p + 4 \in (p + 1)..(n + 1)
      BY <1>1, <1>2, <2>2 DEF ScalarAt
    <3>2. From(t, p + 4) \in Seq(Effect)
      BY <1>4, <3>1
    <3>3. <<Toggle>> \in Seq(Effect)
      BY OneEffect
    <3>4. <<Toggle>> \o From(t, p + 4) \in Seq(Effect)
      BY <3>2, <3>3, ConcatProperties
    <3>5. From(t, p) \in Seq(Effect) /\ p \in Nat
      BY <1>2, <2>1, <2>2, <3>4
    <3> QED BY <3>5
  <2>3. CASE ~ScalarAt(t, p)
    <3>1. p + 1 \in (p + 1)..(n + 1)
      BY <1>2
    <3>2. From(t, p + 1) \in Seq(Effect)
      BY <1>4, <3>1
    <3>3. t[p] \in Effect
      BY <1>1, ElementOfSeq, OneEffect
    <3>4. <<t[p]>> \in Seq(Effect)
      BY <3>3, OneEffect
    <3>5. <<t[p]>> \o From(t, p + 1) \in Seq(Effect)
      BY <3>2, <3>4, ConcatProperties
    <3>6. From(t, p) \in Seq(Effect) /\ p \in Nat
      BY <1>2, <2>1, <2>3, <3>5
    <3> QED BY <3>6
  <2> QED BY <2>2, <2>3
<1>5. \A p \in 1..(n + 1) : p \in S
  <2> HIDE DEF S
  <2> QED BY <1>2, <1>3, <1>4, BackwardInduction
<1> QED BY <1>1, <1>5

\* The text ends in all of the scalar but its last byte.
NearScalar(t) ==
  /\ Len(t) >= 3
  /\ t[Len(t) - 2] = "f4" /\ t[Len(t) - 1] = "8f" /\ t[Len(t)] = "bf"

\* Where the scalar stands in a text with one more byte.
LEMMA ScalarGrows ==
  ASSUME NEW t \in Seq(InputByte), NEW b \in InputByte
  PROVE  /\ t \o <<b>> \in Seq(InputByte)
         /\ Len(t \o <<b>>) = Len(t) + 1
         /\ \A p \in 1..Len(t) : (t \o <<b>>)[p] = t[p]
         /\ (t \o <<b>>)[Len(t) + 1] = b
         /\ \A p \in 1..(Len(t) + 1) :
              ScalarAt(t \o <<b>>, p)
                <=> ScalarAt(t, p) \/ (p = Len(t) - 2 /\ NearScalar(t) /\ b = "bd")
         /\ ~ScalarAt(t, Len(t) + 1)
<1>1. PICK n, T, u : n = Len(t) /\ T = t \o <<b>> /\ u = <<b>>
  OBVIOUS
<1>2. n \in Nat
  BY <1>1, LenProperties
<1>3. u \in Seq(InputByte) /\ Len(u) = 1 /\ u[1] = b
  BY <1>1
<1>4. u \in Seq(InputByte)
  BY <1>3
<1>5. /\ t \o u \in Seq(InputByte)
      /\ Len(t \o u) = Len(t) + Len(u)
      /\ \A i \in 1..Len(t) : (t \o u)[i] = t[i]
      /\ \A j \in 1..Len(u) : (t \o u)[Len(t) + j] = u[j]
  BY <1>4, JoinIs
<1>6. T \in Seq(InputByte) /\ Len(T) = n + 1 /\ (\A i \in 1..n : T[i] = t[i]) /\ T[n + 1] = b
  BY <1>1, <1>3, <1>5
<1>7. ASSUME NEW p \in 1..(n + 1)
      PROVE  ScalarAt(T, p) <=> ScalarAt(t, p) \/ (p = n - 2 /\ NearScalar(t) /\ b = "bd")
  <2>1. CASE p + 3 <= n
    <3>1. T[p] = t[p] /\ T[p + 1] = t[p + 1] /\ T[p + 2] = t[p + 2] /\ T[p + 3] = t[p + 3]
      <4>1. p \in 1..n /\ p + 1 \in 1..n /\ p + 2 \in 1..n /\ p + 3 \in 1..n
        BY <1>2, <2>1
      <4> QED BY <1>6, <4>1
    <3>2. p # n - 2 /\ p + 3 <= n + 1
      BY <1>2, <2>1
    <3> QED BY <1>1, <1>6, <2>1, <3>1, <3>2 DEF ScalarAt
  <2>2. CASE p + 3 = n + 1
    <3>1. p \in 1..n /\ p + 1 \in 1..n /\ p + 2 \in 1..n
      BY <1>2, <2>2
    <3>2. T[p] = t[p] /\ T[p + 1] = t[p + 1] /\ T[p + 2] = t[p + 2] /\ T[p + 3] = b
      BY <1>6, <2>2, <3>1
    <3>3. p = n - 2 /\ p + 1 = n - 1 /\ p + 2 = n /\ n >= 3 /\ ~(p + 3 <= n) /\ p + 3 <= n + 1
      BY <1>2, <2>2
    <3>4. ~ScalarAt(t, p)
      BY <1>1, <3>3 DEF ScalarAt
    <3>5. NearScalar(t) <=> t[p] = "f4" /\ t[p + 1] = "8f" /\ t[p + 2] = "bf"
      BY <1>1, <3>3 DEF NearScalar
    <3>6. ScalarAt(T, p) <=> t[p] = "f4" /\ t[p + 1] = "8f" /\ t[p + 2] = "bf" /\ b = "bd"
      BY <1>6, <3>2, <3>3 DEF ScalarAt
    <3> QED BY <3>3, <3>4, <3>5, <3>6
  <2>3. CASE p + 3 > n + 1
    <3>1. ~(p + 3 <= n) /\ ~(p + 3 <= n + 1) /\ p # n - 2
      BY <1>2, <2>3
    <3> QED BY <1>1, <1>6, <3>1 DEF ScalarAt
  <2> QED BY <1>2, <2>1, <2>2, <2>3
<1>8. ~ScalarAt(t, n + 1)
  BY <1>1, <1>2 DEF ScalarAt
<1> QED BY <1>1, <1>6, <1>7, <1>8

\* A byte that does not complete the scalar means itself,
LEMMA ByteMeansItself ==
  ASSUME NEW t \in Seq(InputByte), NEW b \in InputByte, ~(NearScalar(t) /\ b = "bd")
  PROVE  Meaning(t \o <<b>>) = Meaning(t) \o <<b>>
<1>1. PICK n, T, u : n = Len(t) /\ T = t \o <<b>> /\ u = <<b>>
  OBVIOUS
<1>2. n \in Nat
  BY <1>1, LenProperties
<1>3. /\ T \in Seq(InputByte) /\ Len(T) = n + 1 /\ (\A p \in 1..n : T[p] = t[p]) /\ T[n + 1] = b
      /\ \A p \in 1..(n + 1) : ScalarAt(T, p) <=> ScalarAt(t, p)
      /\ ~ScalarAt(t, n + 1)
  BY <1>1, ScalarGrows
<1>4. T \in Seq(InputByte)
  BY <1>3
<1>5. b \in Effect /\ u \in Seq(Effect)
  BY <1>1, OneEffect
<1>6. /\ Meaning(T) = From(T, 1)
      /\ From(T, n + 2) = <<>>
      /\ \A p \in 1..(n + 1) :
           From(T, p) = IF ScalarAt(T, p) THEN <<Toggle>> \o From(T, p + 4)
                        ELSE <<T[p]>> \o From(T, p + 1)
  <2>1. n + 1 + 1 = n + 2
    BY <1>2
  <2> QED BY <1>3, <1>4, <2>1, FromIs
<1>7. /\ Meaning(t) = From(t, 1)
      /\ From(t, n + 1) = <<>>
      /\ \A p \in 1..n :
           From(t, p) = IF ScalarAt(t, p) THEN <<Toggle>> \o From(t, p + 4)
                        ELSE <<t[p]>> \o From(t, p + 1)
  BY <1>1, FromIs
<1>8. \A p \in 1..(n + 1) : From(t, p) \in Seq(Effect)
  BY <1>1, FromIsEffects
<1> DEFINE S == {p \in Nat : From(T, p) = From(t, p) \o u}
<1>9. n + 1 \in S
  <2>1. n + 1 \in 1..(n + 1) /\ n + 1 + 1 = n + 2
    BY <1>2
  <2>2. From(T, n + 1) = <<b>> \o <<>>
    BY <1>3, <1>6, <2>1
  <2>3. From(T, n + 1) = u /\ <<>> \o u = u
    BY <1>1, <1>5, <2>2, NothingJoined
  <2>4. From(t, n + 1) = <<>>
    BY <1>7
  <2>5. From(T, n + 1) = From(t, n + 1) \o u
    BY <2>3, <2>4, Zenon
  <2>6. n + 1 \in Nat
    BY <1>2
  <2> QED BY <2>5, <2>6
<1>10. ASSUME NEW p \in 1..n, \A q \in (p + 1)..(n + 1) : q \in S
       PROVE  p \in S
  <2>1. p \in 1..(n + 1) /\ T[p] = t[p]
    BY <1>2, <1>3
  <2>2. CASE ScalarAt(t, p)
    <3>1. p + 4 \in (p + 1)..(n + 1) /\ p + 4 \in 1..(n + 1)
      BY <1>1, <1>2, <2>2 DEF ScalarAt
    <3>2. From(T, p + 4) = From(t, p + 4) \o u
      BY <1>10, <3>1
    <3>3. From(T, p) = <<Toggle>> \o From(T, p + 4) /\ From(t, p) = <<Toggle>> \o From(t, p + 4)
      BY <1>3, <1>6, <1>7, <2>1, <2>2
    <3>4. <<Toggle>> \in Seq(Effect) /\ From(t, p + 4) \in Seq(Effect)
      BY <1>8, <3>1, OneEffect
    <3>5. (<<Toggle>> \o From(t, p + 4)) \o u = <<Toggle>> \o (From(t, p + 4) \o u)
      BY <1>5, <3>4, EffectsAssociate
    <3>6. From(T, p) = From(t, p) \o u
      BY <3>2, <3>3, <3>5
    <3> QED BY <1>2, <3>6
  <2>3. CASE ~ScalarAt(t, p)
    <3>1. p + 1 \in (p + 1)..(n + 1) /\ p + 1 \in 1..(n + 1)
      BY <1>2
    <3>2. From(T, p + 1) = From(t, p + 1) \o u
      BY <1>10, <3>1
    <3>3. From(T, p) = <<t[p]>> \o From(T, p + 1) /\ From(t, p) = <<t[p]>> \o From(t, p + 1)
      BY <1>3, <1>6, <1>7, <2>1, <2>3
    <3>4. t[p] \in Effect
      BY <1>1, ElementOfSeq, OneEffect
    <3>5. <<t[p]>> \in Seq(Effect) /\ From(t, p + 1) \in Seq(Effect)
      BY <1>8, <3>1, <3>4, OneEffect
    <3>6. (<<t[p]>> \o From(t, p + 1)) \o u = <<t[p]>> \o (From(t, p + 1) \o u)
      BY <1>5, <3>5, EffectsAssociate
    <3>7. From(T, p) = From(t, p) \o u
      BY <3>2, <3>3, <3>6
    <3> QED BY <1>2, <3>7
  <2> QED BY <2>2, <2>3
<1>11. 1 \in S
  <2>1. \A p \in 1..(n + 1) : p \in S
    <3> HIDE DEF S
    <3> QED BY <1>2, <1>9, <1>10, BackwardInduction
  <2> QED BY <1>2, <2>1
<1> QED BY <1>1, <1>6, <1>7, <1>11

\* Sequences that end alike begin alike.
LEMMA BackCancels ==
  ASSUME NEW a \in Seq(Effect), NEW b \in Seq(Effect), NEW c \in Seq(Effect), a \o c = b \o c
  PROVE  a = b
<1>1. PICK n, k, m : n = Len(c) /\ k = Len(a) /\ m = Len(b)
  OBVIOUS
<1>2. n \in Nat /\ k \in Nat /\ m \in Nat
  BY <1>1, LenProperties
<1>3. Len(a \o c) = k + n /\ \A i \in 1..k : (a \o c)[i] = a[i]
  BY <1>1, JoinIs
<1>4. Len(b \o c) = m + n /\ \A i \in 1..m : (b \o c)[i] = b[i]
  BY <1>1, JoinIs
<1>5. k = m
  BY <1>2, <1>3, <1>4
<1>6. \A i \in 1..k : a[i] = b[i]
  BY <1>3, <1>4, <1>5
<1> QED BY <1>1, <1>5, <1>6, SeqEqual

\* All of the scalar but its last byte.
Unfinished == <<"f4", "8f", "bf">>

\* The first three bytes of the scalar, as a sequence.
LEMMA UnfinishedIs ==
  /\ Unfinished \in Seq(Effect)
  /\ <<"f4">> \o (<<"8f">> \o (<<"bf">> \o <<>>)) = Unfinished
<1>1. "f4" \in Effect /\ "8f" \in Effect /\ "bf" \in Effect
  BY DEF Effect, InputByte
<1>2. PICK a, b, c : a = <<"f4">> /\ b = <<"8f">> /\ c = <<"bf">>
  OBVIOUS
<1>3. a \in Seq(Effect) /\ Len(a) = 1 /\ a[1] = "f4"
  BY <1>1, <1>2, OneEffect
<1>4. b \in Seq(Effect) /\ Len(b) = 1 /\ b[1] = "8f"
  BY <1>1, <1>2, OneEffect
<1>5. c \in Seq(Effect) /\ Len(c) = 1 /\ c[1] = "bf" /\ c \o <<>> = c
  BY <1>1, <1>2, OneEffect, NothingJoined
<1>6. PICK bc : bc = b \o c
  OBVIOUS
<1>7. bc \in Seq(Effect) /\ Len(bc) = 2 /\ bc[1] = "8f" /\ bc[2] = "bf"
  <2>1. b \in Seq(Effect)
    BY <1>4
  <2>2. c \in Seq(Effect)
    BY <1>5
  <2>3. /\ b \o c \in Seq(Effect) /\ Len(b \o c) = Len(b) + Len(c)
        /\ \A i \in 1..Len(b) : (b \o c)[i] = b[i]
        /\ \A j \in 1..Len(c) : (b \o c)[Len(b) + j] = c[j]
    BY <2>1, <2>2, JoinIs
  <2>4. bc[1 + 1] = c[1]
    BY <1>4, <1>5, <1>6, <2>3
  <2> QED BY <1>4, <1>5, <1>6, <2>3, <2>4
<1>8. PICK abc : abc = a \o bc
  OBVIOUS
<1>9. abc \in Seq(Effect) /\ Len(abc) = 3 /\ abc[1] = "f4" /\ abc[2] = "8f" /\ abc[3] = "bf"
  <2>1. a \in Seq(Effect)
    BY <1>3
  <2>2. bc \in Seq(Effect)
    BY <1>7
  <2>3. /\ a \o bc \in Seq(Effect) /\ Len(a \o bc) = Len(a) + Len(bc)
        /\ \A i \in 1..Len(a) : (a \o bc)[i] = a[i]
        /\ \A j \in 1..Len(bc) : (a \o bc)[Len(a) + j] = bc[j]
    BY <2>1, <2>2, JoinIs
  <2>4. abc[1 + 1] = bc[1] /\ abc[1 + 2] = bc[2]
    BY <1>3, <1>7, <1>8, <2>3
  <2> QED BY <1>3, <1>7, <1>8, <2>3, <2>4
<1>10. PICK u : u = Unfinished
  OBVIOUS
<1>11. u \in Seq(Effect) /\ Len(u) = 3 /\ u[1] = "f4" /\ u[2] = "8f" /\ u[3] = "bf"
  BY <1>1, <1>10 DEF Unfinished
<1>12. abc = u
  <2>1. \A i \in 1..3 : abc[i] = u[i]
    BY <1>9, <1>11
  <2> QED BY <1>9, <1>11, <2>1, SeqEqual
<1> QED BY <1>2, <1>5, <1>6, <1>8, <1>10, <1>11, <1>12

\* A byte that completes the scalar makes a toggle of it.
LEMMA ScalarMeansToggle ==
  ASSUME NEW t \in Seq(InputByte), NearScalar(t)
  PROVE  \E x \in Seq(Effect) : /\ Meaning(t) = x \o Unfinished
                                /\ Meaning(t \o <<"bd">>) = x \o <<Toggle>>
<1>1. PICK n, T : n = Len(t) /\ T = t \o <<"bd">>
  OBVIOUS
<1>2. n \in Nat /\ n >= 3 /\ t[n - 2] = "f4" /\ t[n - 1] = "8f" /\ t[n] = "bf"
  BY <1>1, LenProperties DEF NearScalar
<1>3. "bd" \in InputByte
  BY DEF InputByte
<1>4. /\ T \in Seq(InputByte) /\ Len(T) = n + 1 /\ (\A p \in 1..n : T[p] = t[p])
      /\ \A p \in 1..(n + 1) : ScalarAt(T, p) <=> ScalarAt(t, p) \/ p = n - 2
  BY <1>1, <1>3, ScalarGrows
<1>5. T \in Seq(InputByte)
  BY <1>4
<1>6. /\ Meaning(T) = From(T, 1)
      /\ From(T, n + 2) = <<>>
      /\ \A p \in 1..(n + 1) :
           From(T, p) = IF ScalarAt(T, p) THEN <<Toggle>> \o From(T, p + 4)
                        ELSE <<T[p]>> \o From(T, p + 1)
  <2>1. n + 1 + 1 = n + 2
    BY <1>2
  <2> QED BY <1>4, <1>5, <2>1, FromIs
<1>7. /\ Meaning(t) = From(t, 1)
      /\ From(t, n + 1) = <<>>
      /\ \A p \in 1..n :
           From(t, p) = IF ScalarAt(t, p) THEN <<Toggle>> \o From(t, p + 4)
                        ELSE <<t[p]>> \o From(t, p + 1)
  BY <1>1, FromIs
<1> DEFINE Ends(p, x) == From(t, p) = x \o Unfinished /\ From(T, p) = x \o <<Toggle>>
           S == {p \in Nat : \E x \in Seq(Effect) : Ends(p, x)}
<1>8. n - 3 \in Nat /\ n - 3 + 1 = n - 2
  BY <1>2
<1>9. n - 2 \in S
  <2>1. /\ ~ScalarAt(t, n - 2) /\ ~ScalarAt(t, n - 1) /\ ~ScalarAt(t, n)
        /\ n - 2 + 1 = n - 1 /\ n - 1 + 1 = n /\ n - 2 + 4 = n + 2
        /\ n - 2 \in 1..n /\ n - 1 \in 1..n /\ n \in 1..n /\ n - 2 \in 1..(n + 1)
    BY <1>1, <1>2 DEF ScalarAt
  <2>2. From(t, n) = <<"bf">> \o <<>>
    BY <1>2, <1>7, <2>1
  <2>3. From(t, n - 1) = <<"8f">> \o (<<"bf">> \o <<>>)
    BY <1>2, <1>7, <2>1, <2>2
  <2>4. From(t, n - 2) = <<"f4">> \o (<<"8f">> \o (<<"bf">> \o <<>>))
    BY <1>2, <1>7, <2>1, <2>3
  <2>5. From(t, n - 2) = Unfinished
    BY <2>4, UnfinishedIs, Zenon
  <2>6. ScalarAt(T, n - 2)
    BY <1>4, <2>1
  <2>7. From(T, n - 2) = <<Toggle>> \o <<>>
    BY <1>6, <2>1, <2>6
  <2>8. <<Toggle>> \in Seq(Effect)
    BY OneEffect
  <2>9. <<Toggle>> \o <<>> = <<Toggle>> /\ <<>> \o <<Toggle>> = <<Toggle>>
    BY <2>8, NothingJoined
  <2>10. <<>> \o Unfinished = Unfinished
    BY UnfinishedIs, NothingJoined
  <2>11. Ends(n - 2, <<>>)
    BY <2>5, <2>7, <2>9, <2>10, Zenon
  <2>12. <<>> \in Seq(Effect)
    BY OneEffect
  <2>13. n - 2 \in Nat
    BY <1>2
  <2> HIDE DEF Ends
  <2>14. \E x \in Seq(Effect) : Ends(n - 2, x)
    BY <2>11, <2>12, Zenon
  <2> QED BY <2>13, <2>14
<1>10. ASSUME NEW p \in 1..(n - 3), \A q \in (p + 1)..(n - 2) : q \in S
       PROVE  p \in S
  <2>1. p \in 1..(n + 1) /\ p \in 1..n /\ T[p] = t[p] /\ p # n - 2
    BY <1>2, <1>4
  <2>2. ScalarAt(T, p) <=> ScalarAt(t, p)
    BY <1>4, <2>1
  <2>3. PICK q, e : /\ q \in (p + 1)..(n - 2) /\ e \in Effect
                    /\ From(t, p) = <<e>> \o From(t, q) /\ From(T, p) = <<e>> \o From(T, q)
    <3>1. CASE ScalarAt(t, p)
      <4>1. p + 3 <= n /\ t[p + 3] = "bd"
        BY <1>1, <3>1 DEF ScalarAt
      <4>2. p + 3 # n - 2 /\ p + 3 # n - 1 /\ p + 3 # n
        BY <1>2, <4>1
      <4>3. p + 4 \in (p + 1)..(n - 2)
        BY <1>2, <4>1, <4>2
      <4>4. From(t, p) = <<Toggle>> \o From(t, p + 4) /\ From(T, p) = <<Toggle>> \o From(T, p + 4)
        BY <1>6, <1>7, <2>1, <2>2, <3>1
      <4> QED BY <4>3, <4>4, OneEffect
    <3>2. CASE ~ScalarAt(t, p)
      <4>1. p + 1 \in (p + 1)..(n - 2)
        BY <1>2
      <4>2. From(t, p) = <<t[p]>> \o From(t, p + 1) /\ From(T, p) = <<t[p]>> \o From(T, p + 1)
        BY <1>6, <1>7, <2>1, <2>2, <3>2
      <4>3. t[p] \in Effect
        BY <1>1, <2>1, ElementOfSeq, OneEffect
      <4> QED BY <4>1, <4>2, <4>3
    <3> QED BY <3>1, <3>2
  <2>4. PICK x \in Seq(Effect) : Ends(q, x)
    BY <1>10, <2>3
  <2>5. PICK u : u = <<e>>
    OBVIOUS
  <2>6. u \in Seq(Effect)
    BY <2>3, <2>5, OneEffect
  <2>7. <<Toggle>> \in Seq(Effect)
    BY OneEffect
  <2>8. Unfinished \in Seq(Effect)
    BY UnfinishedIs
  <2>9. u \o x \in Seq(Effect)
    BY <2>6, ConcatProperties
  <2>10. (u \o x) \o Unfinished = u \o (x \o Unfinished)
    BY <2>6, <2>8, EffectsAssociate
  <2>11. (u \o x) \o <<Toggle>> = u \o (x \o <<Toggle>>)
    BY <2>6, <2>7, EffectsAssociate
  <2>12. From(t, p) = u \o From(t, q) /\ From(T, p) = u \o From(T, q)
    BY <2>3, <2>5, Zenon
  <2>13. Ends(p, u \o x)
    BY <2>4, <2>10, <2>11, <2>12, Zenon
  <2>14. p \in Nat
    BY <2>1
  <2> HIDE DEF Ends
  <2> QED BY <2>9, <2>13, <2>14
<1>11. 1 \in S
  <2>1. \A p \in 1..(n - 3 + 1) : p \in S
    <3>1. n - 3 + 1 \in S /\ \A p \in 1..(n - 3) : (\A q \in (p + 1)..(n - 3 + 1) : q \in S) => p \in S
      BY <1>8, <1>9, <1>10
    <3> HIDE DEF S
    <3> QED BY <1>8, <3>1, BackwardInduction
  <2>2. 1 \in 1..(n - 3 + 1)
    BY <1>2
  <2> QED BY <2>1, <2>2
<1>12. PICK x \in Seq(Effect) : Ends(1, x)
  BY <1>11
<1> QED BY <1>1, <1>6, <1>7, <1>12

\* The first bytes of the scalar.
ScalarFront(k) == SubSeq(RENDER_TOGGLE_SEQUENCE, 1, k)
ScalarByte(k) == RENDER_TOGGLE_SEQUENCE[k]

\* The four bytes of the scalar.
LEMMA ScalarBytes ==
  /\ Len(RENDER_TOGGLE_SEQUENCE) = 4
  /\ RENDER_TOGGLE_SEQUENCE \in Seq(InputByte)
  /\ ScalarByte(1) = "f4" /\ ScalarByte(2) = "8f" /\ ScalarByte(3) = "bf" /\ ScalarByte(4) = "bd"
  /\ \A k \in 1..4 : ScalarByte(k) \in InputByte
  /\ \A k, m \in 1..4 : ScalarByte(k) = ScalarByte(m) => k = m
<1>1. ScalarByte(1) = "f4" /\ ScalarByte(2) = "8f" /\ ScalarByte(3) = "bf" /\ ScalarByte(4) = "bd"
  BY DEF ScalarByte, RENDER_TOGGLE_SEQUENCE
<1>2. \A k \in 1..4 : ScalarByte(k) \in InputByte
  BY <1>1 DEF InputByte
<1>3. \A k, m \in 1..4 : ScalarByte(k) = ScalarByte(m) => k = m
  BY <1>1
<1>4. Len(RENDER_TOGGLE_SEQUENCE) = 4 /\ RENDER_TOGGLE_SEQUENCE \in Seq(InputByte)
  BY DEF RENDER_TOGGLE_SEQUENCE, InputByte
<1> QED BY <1>1, <1>2, <1>3, <1>4

\* The bytes of the fronts of the scalar.
LEMMA ScalarFrontIs ==
  ASSUME NEW k \in 0..4
  PROVE  /\ ScalarFront(k) \in Seq(InputByte)
         /\ Len(ScalarFront(k)) = k
         /\ \A i \in 1..k : ScalarFront(k)[i] = ScalarByte(i)
<1>1. PICK s, m : s = RENDER_TOGGLE_SEQUENCE /\ m = 1
  OBVIOUS
<1>2. Len(s) = 4 /\ s \in Seq(InputByte)
  BY <1>1, ScalarBytes
<1>3. k \in Int /\ m \in Int /\ k - m + 1 = k
  BY <1>1
<1>4. s \in Seq(InputByte)
  BY <1>2
<1>5. \A i \in m..k : s[i] \in InputByte
  <2> TAKE i \in m..k
  <2>1. i \in 1..Len(s)
    BY <1>1, <1>2
  <2> QED BY <1>4, <2>1, ElementOfSeq
<1>6. PICK u : u = SubSeq(s, m, k)
  OBVIOUS
<1>7. /\ u \in Seq(InputByte) /\ Len(u) = (IF m <= k THEN k - m + 1 ELSE 0)
      /\ \A i \in 1..(k - m + 1) : u[i] = s[m + i - 1]
  BY <1>3, <1>5, <1>6, SubSeqProperties
<1>8. Len(u) = k
  BY <1>1, <1>7
<1>9. \A i \in 1..k : u[i] = s[i]
  <2> TAKE i \in 1..k
  <2>1. i \in 1..(k - m + 1) /\ m + i - 1 = i
    BY <1>1, <1>3
  <2> QED BY <1>7, <2>1
<1> QED BY <1>1, <1>6, <1>7, <1>8, <1>9 DEF ScalarFront, ScalarByte

\* A text ends in the first k bytes of the scalar.
EndsIn(t, k) ==
  /\ Len(t) >= k
  /\ \A i \in 1..k : t[Len(t) - k + i] = ScalarByte(i)

\* They are the longest such, short of all of it.
Holds(t, k) == EndsIn(t, k) /\ \A m \in 1..3 : EndsIn(t, m) => m <= k

\* Every text ends in the empty front of the scalar.
LEMMA EndsInNothing == \A t \in Seq(InputByte) : EndsIn(t, 0)
<1>1. ASSUME NEW t \in Seq(InputByte) PROVE EndsIn(t, 0)
  BY LenProperties DEF EndsIn
<1> QED BY <1>1

\* The input is one byte short of the scalar when it ends in its first three.
LEMMA NearIs == ASSUME NEW t \in Seq(InputByte) PROVE NearScalar(t) <=> EndsIn(t, 3)
<1>1. PICK n : n = Len(t)
  OBVIOUS
<1>2. n \in Nat /\ n - 3 + 1 = n - 2 /\ n - 3 + 2 = n - 1 /\ n - 3 + 3 = n
  BY <1>1, LenProperties
<1>3. (\A i \in 1..3 : t[n - 3 + i] = ScalarByte(i))
        <=> t[n - 2] = "f4" /\ t[n - 1] = "8f" /\ t[n] = "bf"
  BY <1>2, ScalarBytes
<1> QED BY <1>1, <1>3 DEF NearScalar, EndsIn

\* What a text with one more byte ends in.
LEMMA EndsInMore ==
  ASSUME NEW t \in Seq(InputByte), NEW b \in InputByte, NEW k \in 1..4
  PROVE  EndsIn(t \o <<b>>, k) <=> EndsIn(t, k - 1) /\ b = ScalarByte(k)
<1>1. PICK n, T : n = Len(t) /\ T = t \o <<b>>
  OBVIOUS
<1>2. n \in Nat
  BY <1>1, LenProperties
<1>3. Len(T) = n + 1 /\ (\A i \in 1..n : T[i] = t[i]) /\ T[n + 1] = b
  BY <1>1, ScalarGrows
<1>4. n + 1 >= k <=> n >= k - 1
  BY <1>2
<1>5. ASSUME n >= k - 1
      PROVE  (\A i \in 1..k : T[n + 1 - k + i] = ScalarByte(i))
               <=> (\A i \in 1..(k - 1) : t[n - (k - 1) + i] = ScalarByte(i)) /\ b = ScalarByte(k)
  <2>1. \A i \in 1..(k - 1) : T[n + 1 - k + i] = t[n - (k - 1) + i]
    <3> TAKE i \in 1..(k - 1)
    <3>1. PICK j : j = n + 1 - k + i
      OBVIOUS
    <3>2. j \in 1..n /\ j = n - (k - 1) + i
      BY <1>2, <1>5, <3>1
    <3> QED BY <1>3, <3>1, <3>2
  <2>2. T[n + 1 - k + k] = b
    <3>1. n + 1 - k + k = n + 1
      BY <1>2
    <3> QED BY <1>3, <3>1
  <2>3. \A i \in 1..k : i = k \/ i \in 1..(k - 1)
    OBVIOUS
  <2>4. k \in 1..k /\ \A i \in 1..(k - 1) : i \in 1..k
    OBVIOUS
  <2> QED BY <2>1, <2>2, <2>3, <2>4
<1> QED BY <1>1, <1>3, <1>4, <1>5 DEF EndsIn

\* Two ends of the same text are the same.
LEMMA SameEnd ==
  ASSUME NEW t \in Seq(InputByte), NEW k \in 1..4, NEW m \in 1..4, EndsIn(t, k), EndsIn(t, m)
  PROVE  k = m
<1>1. PICK n : n = Len(t)
  OBVIOUS
<1>2. n \in Nat /\ n - k + k = n /\ n - m + m = n
  BY <1>1, LenProperties
<1>3. t[n] = ScalarByte(k) /\ t[n] = ScalarByte(m)
  BY <1>1, <1>2 DEF EndsIn
<1> QED BY <1>3, ScalarBytes

\* The end of a text with one more byte, by cases.
LEMMA HoldsNext ==
  ASSUME NEW t \in Seq(InputByte), NEW b \in InputByte, NEW k \in 0..3, Holds(t, k)
  PROVE  /\ b = ScalarByte(k + 1) => Holds(t \o <<b>>, IF k < 3 THEN k + 1 ELSE 0)
         /\ b # ScalarByte(k + 1) => Holds(t \o <<b>>, IF b = "f4" THEN 1 ELSE 0)
         /\ (NearScalar(t) /\ b = "bd") <=> (k = 3 /\ b = ScalarByte(k + 1))
<1>1. EndsIn(t, k) /\ (\A m \in 1..3 : EndsIn(t, m) => m <= k) /\ EndsIn(t, 0)
  BY EndsInNothing DEF Holds
<1>2. \A m \in 1..4 : EndsIn(t \o <<b>>, m) <=> EndsIn(t, m - 1) /\ b = ScalarByte(m)
  BY EndsInMore
<1>3. k + 1 \in 1..4 /\ k + 1 - 1 = k /\ 1 - 1 = 0
  OBVIOUS
<1>4. EndsIn(t \o <<b>>, 0)
  <2>1. t \o <<b>> \in Seq(InputByte)
    BY ScalarGrows
  <2> QED BY <2>1, EndsInNothing
<1>5. CASE b = ScalarByte(k + 1)
  <2>1. \A m \in 1..3 : EndsIn(t \o <<b>>, m) => m = k + 1
    BY <1>2, <1>3, <1>5, ScalarBytes
  <2>2. EndsIn(t \o <<b>>, k + 1)
    BY <1>1, <1>2, <1>3, <1>5
  <2>3. CASE k < 3
    <3>1. k + 1 \in 1..3
      BY <2>3
    <3>2. b # "bd"
      <4>1. 4 \in 1..4 /\ k + 1 # 4 /\ ScalarByte(4) = "bd"
        BY <2>3, ScalarBytes
      <4> QED BY <1>3, <1>5, <4>1, ScalarBytes
    <3> QED BY <1>5, <2>1, <2>2, <2>3, <3>1, <3>2 DEF Holds
  <2>4. CASE ~(k < 3)
    <3>1. k = 3 /\ \A m \in 1..3 : m # k + 1
      BY <2>4
    <3>2. NearScalar(t) /\ b = "bd"
      <4>1. ScalarByte(4) = "bd" /\ k + 1 = 4
        BY <3>1, ScalarBytes
      <4> QED BY <1>1, <1>5, <3>1, <4>1, NearIs
    <3> QED BY <1>4, <1>5, <2>1, <2>4, <3>1, <3>2 DEF Holds
  <2> QED BY <2>3, <2>4
<1>6. CASE b # ScalarByte(k + 1)
  <2>1. ~(NearScalar(t) /\ b = "bd")
    <3>1. SUFFICES ASSUME NearScalar(t), b = "bd" PROVE FALSE
      OBVIOUS
    <3>2. 3 <= k
      <4>1. 3 \in 1..3 /\ EndsIn(t, 3)
        BY <3>1, NearIs
      <4> QED BY <1>1, <4>1
    <3>3. k + 1 = 4
      BY <3>2
    <3> QED BY <1>6, <3>1, <3>3, ScalarBytes
  <2>2. CASE b = "f4"
    <3>1. EndsIn(t \o <<b>>, 1)
      <4>1. 1 \in 1..4 /\ b = ScalarByte(1)
        BY <2>2, ScalarBytes
      <4> QED BY <1>1, <1>2, <1>3, <4>1
    <3>2. \A m \in 1..3 : EndsIn(t \o <<b>>, m) => m <= 1
      <4> SUFFICES ASSUME NEW m \in 1..3, EndsIn(t \o <<b>>, m) PROVE m <= 1
        OBVIOUS
      <4>1. m \in 1..4 /\ 1 \in 1..4
        OBVIOUS
      <4>2. ScalarByte(m) = ScalarByte(1)
        BY <1>2, <2>2, <4>1, ScalarBytes
      <4> QED BY <4>1, <4>2, ScalarBytes
    <3> QED BY <1>6, <2>1, <2>2, <3>1, <3>2 DEF Holds
  <2>3. CASE b # "f4"
    <3>1. \A m \in 1..3 : ~EndsIn(t \o <<b>>, m)
      <4> SUFFICES ASSUME NEW m \in 1..3, EndsIn(t \o <<b>>, m) PROVE FALSE
        OBVIOUS
      <4>1. m \in 1..4 /\ EndsIn(t, m - 1) /\ b = ScalarByte(m)
        BY <1>2
      <4>2. m # 1
        BY <2>3, <4>1, ScalarBytes
      <4>3. m - 1 \in 1..3 /\ m - 1 \in 1..4
        BY <4>2
      <4>4. m - 1 <= k
        BY <1>1, <4>1, <4>3
      <4>5. k \in 1..4
        BY <4>3, <4>4
      <4>6. m - 1 = k
        BY <1>1, <4>1, <4>3, <4>5, SameEnd
      <4>7. m = k + 1
        BY <4>6
      <4> QED BY <1>6, <4>1, <4>7
    <3> QED BY <1>4, <1>6, <2>1, <2>3, <3>1 DEF Holds
  <2> QED BY <2>2, <2>3
<1> QED BY <1>5, <1>6

\* What of a candidate is a prefix of the scalar, at its end.
LEMMA PrefixEnds ==
  ASSUME NEW c \in Seq(InputByte), Len(c) <= 4, NEW k \in 0..Len(c)
  PROVE  /\ IsTogglePrefix(SubSeq(c, Len(c) - k + 1, Len(c))) <=> EndsIn(c, k)
         /\ EndsIn(c, k) => SubSeq(c, Len(c) - k + 1, Len(c)) = ScalarFront(k)
         /\ SubSeq(c, 1, Len(c) - k) \in Seq(InputByte)
         /\ SubSeq(c, 1, Len(c) - k) \o SubSeq(c, Len(c) - k + 1, Len(c)) = c
<1>1. PICK n, p, q : n = Len(c) /\ p = n - k + 1 /\ q = n - k
  OBVIOUS
<1>2. n \in Nat /\ p \in Nat /\ q \in Nat /\ n <= 4 /\ k \in 0..4 /\ n - p + 1 = k /\ p = q + 1
  BY <1>1, LenProperties
<1>3. \A i \in 1..n : c[i] \in InputByte
  BY <1>1, ElementOfSeq
<1>4. PICK u : u = SubSeq(c, p, n)
  OBVIOUS
<1>5. u \in Seq(InputByte) /\ Len(u) = k /\ \A i \in 1..k : u[i] = c[q + i]
  <2>1. p \in Int /\ n \in Int /\ \A i \in p..n : c[i] \in InputByte
    BY <1>2, <1>3
  <2>2. /\ u \in Seq(InputByte) /\ Len(u) = (IF p <= n THEN n - p + 1 ELSE 0)
        /\ \A i \in 1..(n - p + 1) : u[i] = c[p + i - 1]
    BY <1>4, <2>1, SubSeqProperties
  <2>3. Len(u) = k
    BY <1>2, <2>2
  <2>4. \A i \in 1..k : u[i] = c[q + i]
    <3> TAKE i \in 1..k
    <3>1. i \in 1..(n - p + 1) /\ p + i - 1 = q + i
      BY <1>2
    <3> QED BY <2>2, <3>1
  <2> QED BY <2>2, <2>3, <2>4
<1>6. PICK v, m : m = 1 /\ v = SubSeq(c, m, q)
  OBVIOUS
<1>7. v \in Seq(InputByte) /\ Len(v) = q /\ \A i \in 1..q : v[i] = c[i]
  <2>1. m \in Int /\ q \in Int /\ \A i \in m..q : c[i] \in InputByte
    BY <1>1, <1>2, <1>3, <1>6
  <2>2. /\ v \in Seq(InputByte) /\ Len(v) = (IF m <= q THEN q - m + 1 ELSE 0)
        /\ \A i \in 1..(q - m + 1) : v[i] = c[m + i - 1]
    BY <1>6, <2>1, SubSeqProperties
  <2>3. Len(v) = q
    BY <1>2, <1>6, <2>2
  <2>4. \A i \in 1..q : v[i] = c[i]
    <3> TAKE i \in 1..q
    <3>1. i \in 1..(q - m + 1) /\ m + i - 1 = i
      BY <1>2, <1>6
    <3> QED BY <2>2, <3>1
  <2> QED BY <2>2, <2>3, <2>4
<1>8. PICK f : f = ScalarFront(k)
  OBVIOUS
<1>9. f \in Seq(InputByte) /\ Len(f) = k /\ \A i \in 1..k : f[i] = ScalarByte(i)
  BY <1>2, <1>8, ScalarFrontIs
<1>10. u = f <=> \A i \in 1..k : u[i] = f[i]
  BY <1>5, <1>9, SeqEqual
<1>11. EndsIn(c, k) <=> \A i \in 1..k : c[q + i] = ScalarByte(i)
  BY <1>1, <1>2 DEF EndsIn
<1>12. u = f <=> EndsIn(c, k)
  BY <1>5, <1>9, <1>10, <1>11
<1>13. IsTogglePrefix(u) <=> u = f
  BY <1>2, <1>5, <1>8, ScalarBytes DEF IsTogglePrefix, ScalarFront
<1>14. v \o u = c
  <2>1. v \in Seq(InputByte)
    BY <1>7
  <2>2. u \in Seq(InputByte)
    BY <1>5
  <2>3. PICK w : w = v \o u
    OBVIOUS
  <2>4. /\ w \in Seq(InputByte) /\ Len(w) = Len(v) + Len(u)
        /\ \A i \in 1..Len(v) : w[i] = v[i]
        /\ \A j \in 1..Len(u) : w[Len(v) + j] = u[j]
    BY <2>1, <2>2, <2>3, JoinIs
  <2>5. Len(w) = n
    BY <1>2, <1>5, <1>7, <2>4
  <2>6. ASSUME NEW i \in 1..n PROVE w[i] = c[i]
    <3>1. CASE i <= q
      <4>1. i \in 1..q
        BY <3>1
      <4> QED BY <1>7, <2>4, <4>1
    <3>2. CASE ~(i <= q)
      <4>1. PICK j : j = i - q
        OBVIOUS
      <4>2. j \in 1..k /\ q + j = i
        BY <1>2, <3>2, <4>1
      <4> QED BY <1>5, <1>7, <2>4, <4>2
    <3> QED BY <3>1, <3>2
  <2>7. w = c
    BY <1>1, <2>4, <2>5, <2>6, SeqEqual
  <2> QED BY <2>3, <2>7
<1> QED BY <1>1, <1>4, <1>6, <1>7, <1>8, <1>12, <1>13, <1>14

\* The filter keeps the longest.
LEMMA ReleaseSays ==
  ASSUME NEW c \in Seq(InputByte), Len(c) <= 4, NEW n \in 0..Len(c), EndsIn(c, n),
         \A m \in 0..Len(c) : EndsIn(c, m) => m <= n
  PROVE  \E rel \in Seq(InputByte) : /\ ReleaseMismatch(c) = Filtered(ScalarFront(n), rel)
                                     /\ rel \o ScalarFront(n) = c
<1> DEFINE IsLongest(k) ==
      /\ IsTogglePrefix(SubSeq(c, Len(c) - k + 1, Len(c)))
      /\ \A m \in 0..Len(c) : IsTogglePrefix(SubSeq(c, Len(c) - m + 1, Len(c))) => m <= k
           Tail_(k) == SubSeq(c, Len(c) - k + 1, Len(c))
           Start_(k) == SubSeq(c, 1, Len(c) - k)
<1>1. PICK kept : kept = CHOOSE k \in 0..Len(c) : IsLongest(k)
  OBVIOUS
<1>2. \A m \in 0..Len(c) : IsTogglePrefix(Tail_(m)) <=> EndsIn(c, m)
  BY PrefixEnds
<1>3. IsLongest(n)
  BY <1>2
<1>4. kept \in 0..Len(c) /\ IsLongest(kept)
  <2> HIDE DEF IsLongest
  <2> QED BY <1>1, <1>3
<1>5. kept = n
  <2>1. kept <= n /\ n <= kept
    BY <1>2, <1>3, <1>4
  <2>2. Len(c) \in Nat
    BY LenProperties
  <2> QED BY <1>4, <2>1, <2>2
<1>6. ReleaseMismatch(c) = Filtered(Tail_(kept), Start_(kept))
  BY <1>1, Zenon DEF ReleaseMismatch
<1>7. Tail_(n) = ScalarFront(n) /\ Start_(n) \in Seq(InputByte) /\ Start_(n) \o Tail_(n) = c
  BY PrefixEnds
<1> HIDE DEF Tail_, Start_
<1> QED BY <1>5, <1>6, <1>7

\* The scalar but its last byte, and what is left of it after each.
LEMMA FrontEnds ==
  ASSUME NEW k \in 0..3
  PROVE  Holds(ScalarFront(k), k)
<1>1. PICK f : f = ScalarFront(k)
  OBVIOUS
<1>0. k \in 0..4
  OBVIOUS
<1>2. Len(f) = k /\ \A i \in 1..k : f[i] = ScalarByte(i)
  BY <1>0, <1>1, ScalarFrontIs
<1>3. EndsIn(f, k)
  BY <1>2 DEF EndsIn
<1>4. \A m \in 1..3 : EndsIn(f, m) => m <= k
  BY <1>2 DEF EndsIn
<1> QED BY <1>1, <1>3, <1>4 DEF Holds

\* The longest and the shortest fronts of the scalar.
LEMMA UnfinishedFront == ScalarFront(3) = Unfinished /\ ScalarFront(0) = <<>>
<1>1. PICK u, f : u = Unfinished /\ f = ScalarFront(3)
  OBVIOUS
<1>2. u \in Seq(InputByte) /\ Len(u) = 3 /\ u[1] = "f4" /\ u[2] = "8f" /\ u[3] = "bf"
  BY <1>1 DEF Unfinished, InputByte
<1>3. f \in Seq(InputByte) /\ Len(f) = 3 /\ f[1] = "f4" /\ f[2] = "8f" /\ f[3] = "bf"
  BY <1>1, ScalarFrontIs, ScalarBytes
<1>4. f = u
  <2>1. \A i \in 1..3 : f[i] = u[i]
    BY <1>2, <1>3
  <2> QED BY <1>2, <1>3, <2>1, SeqEqual
<1>5. ScalarFront(0) \in Seq(InputByte) /\ Len(ScalarFront(0)) = 0
  BY ScalarFrontIs
<1> QED BY <1>1, <1>4, <1>5, EmptySeq

\* The filter after a text, and what it has given back of it since what was done.
Accounts(done, t, f) ==
  \E k \in 0..3, a \in Seq(Effect) :
    /\ f = Filtered(ScalarFront(k), a)
    /\ Holds(t, k)
    /\ Meaning(t) = done \o (a \o ScalarFront(k))

\* One byte pushed.
PushesTo(k, b, a, r) ==
  IF b = ScalarByte(k + 1) /\ k = 3 THEN r = Filtered(<<>>, Append(a, Toggle))
  ELSE LET j == IF b = ScalarByte(k + 1) THEN k + 1 ELSE IF b = "f4" THEN 1 ELSE 0
       IN \E rel \in Seq(InputByte) : /\ r = Filtered(ScalarFront(j), a \o rel)
                                      /\ rel \o ScalarFront(j) = ScalarFront(k) \o <<b>>

\* What the filter does with one byte, case by case.
LEMMA PushByteSays ==
  ASSUME NEW k \in 0..3, NEW b \in InputByte, NEW a \in Seq(Effect)
  PROVE  PushesTo(k, b, a, PushByte(Filtered(ScalarFront(k), a), b))
<1>1. PICK p, c : p = ScalarFront(k) /\ c = p \o <<b>>
  OBVIOUS
<1>0. k \in 0..4
  OBVIOUS
<1>2. p \in Seq(InputByte) /\ Len(p) = k /\ Holds(p, k)
  BY <1>0, <1>1, ScalarFrontIs, FrontEnds
<1>3. p \in Seq(InputByte)
  BY <1>2
<1>4. c \in Seq(InputByte) /\ Len(c) = k + 1
  BY <1>1, <1>2, <1>3, ScalarGrows
<1>5. c \in Seq(InputByte)
  BY <1>4
<1>6. Append(p, b) = c
  BY <1>1, <1>3, AppendIsConcat
<1>7. /\ b = ScalarByte(k + 1) => Holds(c, IF k < 3 THEN k + 1 ELSE 0)
      /\ b # ScalarByte(k + 1) => Holds(c, IF b = "f4" THEN 1 ELSE 0)
  BY <1>1, <1>2, <1>3, HoldsNext
<1>8. \A m \in 1..4 : EndsIn(c, m) <=> EndsIn(p, m - 1) /\ b = ScalarByte(m)
  BY <1>1, <1>3, EndsInMore
<1>9. EndsIn(p, k)
  BY <1>2 DEF Holds
<1>10. PushByte(Filtered(p, a), b) =
         IF Len(ReleaseMismatch(c).pending) = Len(RENDER_TOGGLE_SEQUENCE)
         THEN Filtered(<<>>, Append(a \o ReleaseMismatch(c).actions, Toggle))
         ELSE Filtered(ReleaseMismatch(c).pending, a \o ReleaseMismatch(c).actions)
  BY <1>6 DEF PushByte, Filtered
<1>11. ASSUME NEW x, NEW y, ReleaseMismatch(c) = Filtered(x, y)
       PROVE  PushByte(Filtered(p, a), b) =
                IF Len(x) = 4 THEN Filtered(<<>>, Append(a \o y, Toggle)) ELSE Filtered(x, a \o y)
  <2>1. ReleaseMismatch(c).pending = x /\ ReleaseMismatch(c).actions = y
    BY <1>11 DEF Filtered
  <2> QED BY <1>10, <2>1, ScalarBytes
<1>12. CASE b = ScalarByte(k + 1) /\ k = 3
  <2>1. EndsIn(c, 4) /\ 4 \in 0..Len(c) /\ Len(c) <= 4 /\ \A m \in 0..Len(c) : m <= 4
    BY <1>4, <1>8, <1>9, <1>12
  <2>2. PICK rel \in Seq(InputByte) : /\ ReleaseMismatch(c) = Filtered(ScalarFront(4), rel)
                                      /\ rel \o ScalarFront(4) = c
    BY <1>5, <2>1, ReleaseSays
  <2>3. PICK f : f = ScalarFront(4)
    OBVIOUS
  <2>4. f \in Seq(InputByte) /\ Len(f) = 4
    BY <2>3, ScalarFrontIs
  <2>5. f \in Seq(InputByte)
    BY <2>4
  <2>6. Len(rel \o f) = Len(rel) + Len(f)
    BY <2>5, JoinIs
  <2>7. Len(rel) = 0
    BY <1>4, <1>12, <2>2, <2>3, <2>4, <2>6, LenProperties
  <2>8. rel = <<>>
    BY <2>7, EmptySeq
  <2>9. a \o <<>> = a
    BY NothingJoined
  <2>10. PushByte(Filtered(p, a), b) = Filtered(<<>>, Append(a \o rel, Toggle))
    BY <1>11, <2>2, <2>3, <2>4
  <2>11. PushByte(Filtered(p, a), b) = Filtered(<<>>, Append(a, Toggle))
    BY <2>8, <2>9, <2>10
  <2> QED BY <1>1, <1>12, <2>11, Zenon DEF PushesTo
<1>13. CASE ~(b = ScalarByte(k + 1) /\ k = 3)
  <2>1. PICK j : j = IF b = ScalarByte(k + 1) THEN k + 1 ELSE IF b = "f4" THEN 1 ELSE 0
    OBVIOUS
  <2>2. j \in 0..3 /\ j \in 0..4 /\ j \in 0..Len(c) /\ Len(c) <= 4
    BY <1>4, <1>13, <2>1
  <2>3. Holds(c, j)
    <3>1. CASE b = ScalarByte(k + 1)
      BY <1>7, <1>13, <2>1, <3>1
    <3>2. CASE b # ScalarByte(k + 1)
      BY <1>7, <2>1, <3>2
    <3> QED BY <3>1, <3>2
  <2>4. ASSUME NEW m \in 0..Len(c), EndsIn(c, m) PROVE m <= j
    <3>1. CASE m \in 1..3
      BY <2>3, <2>4, <3>1 DEF Holds
    <3>2. CASE m = 0
      BY <2>2, <3>2
    <3>3. CASE m = 4
      <4>1. k = 3
        BY <1>4, <3>3
      <4>2. b = ScalarByte(4)
        BY <1>8, <2>4, <3>3
      <4> QED BY <1>13, <4>1, <4>2
    <3> QED BY <1>4, <3>1, <3>2, <3>3
  <2>5. EndsIn(c, j)
    BY <2>3 DEF Holds
  <2>6. PICK rel \in Seq(InputByte) : /\ ReleaseMismatch(c) = Filtered(ScalarFront(j), rel)
                                      /\ rel \o ScalarFront(j) = c
    BY <1>5, <2>2, <2>4, <2>5, ReleaseSays
  <2>7. Len(ScalarFront(j)) = j /\ j # 4
    <3>1. j \in 0..4 /\ j # 4
      BY <2>2
    <3>2. j \in 0..4
      BY <3>1
    <3> QED BY <3>1, <3>2, ScalarFrontIs
  <2>8. PushByte(Filtered(p, a), b) = Filtered(ScalarFront(j), a \o rel)
    BY <1>11, <2>6, <2>7
  <2> QED BY <1>1, <1>13, <2>1, <2>6, <2>8, Zenon DEF PushesTo
<1> QED BY <1>12, <1>13

\* One byte keeps the account: done and held together mean the text read.
LEMMA PushByteAccounts ==
  ASSUME NEW done \in Seq(Effect), NEW t \in Seq(InputByte), NEW b \in InputByte, NEW f,
         Accounts(done, t, f)
  PROVE  Accounts(done, t \o <<b>>, PushByte(f, b))
<1>1. PICK k \in 0..3, a \in Seq(Effect) :
        f = Filtered(ScalarFront(k), a) /\ Holds(t, k) /\ Meaning(t) = done \o (a \o ScalarFront(k))
  BY DEF Accounts
<1>2. PICK p, u, r, T : p = ScalarFront(k) /\ u = <<b>> /\ r = PushByte(f, b) /\ T = t \o <<b>>
  OBVIOUS
<1>3. PushesTo(k, b, a, r)
  BY <1>1, <1>2, PushByteSays
<1>4. p \in Seq(Effect)
  <2>1. k \in 0..4
    OBVIOUS
  <2>2. p \in Seq(InputByte)
    BY <1>2, <2>1, ScalarFrontIs
  <2> QED BY <2>2, InputIsEffects
<1>5. u \in Seq(Effect)
  BY <1>2, OneEffect
<1>6. /\ b = ScalarByte(k + 1) => Holds(T, IF k < 3 THEN k + 1 ELSE 0)
      /\ b # ScalarByte(k + 1) => Holds(T, IF b = "f4" THEN 1 ELSE 0)
      /\ (NearScalar(t) /\ b = "bd") <=> (k = 3 /\ b = ScalarByte(k + 1))
  BY <1>1, <1>2, HoldsNext
<1>7. done \o a \in Seq(Effect) /\ a \o p \in Seq(Effect)
  BY <1>4, ConcatProperties
<1>8. (done \o a) \o p = done \o (a \o p)
  BY <1>4, EffectsAssociate
<1>9. CASE b = ScalarByte(k + 1) /\ k = 3
  <2>1. NearScalar(t) /\ b = "bd"
    BY <1>6, <1>9
  <2>2. PICK x \in Seq(Effect) : Meaning(t) = x \o Unfinished /\ Meaning(T) = x \o <<Toggle>>
    BY <1>2, <2>1, ScalarMeansToggle
  <2>3. p = Unfinished
    BY <1>2, <1>9, UnfinishedFront
  <2>4. (done \o a) \o p = x \o p
    BY <1>1, <1>2, <1>8, <2>2, <2>3, Zenon
  <2>5. done \o a \in Seq(Effect)
    BY <1>7
  <2>6. done \o a = x
    BY <1>4, <2>4, <2>5, BackCancels
  <2>7. PICK v : v = <<Toggle>>
    OBVIOUS
  <2>8. v \in Seq(Effect)
    BY <2>7, OneEffect
  <2>9. Append(a, Toggle) = a \o v
    BY <2>7, OneEffect, AppendIsConcat
  <2>10. a \o v \in Seq(Effect)
    BY <2>8, ConcatProperties
  <2>11. (a \o v) \o <<>> = a \o v /\ (done \o a) \o v = done \o (a \o v)
    BY <2>8, <2>10, EffectsAssociate, NothingJoined
  <2>12. r = Filtered(ScalarFront(0), a \o v)
    <3>1. r = Filtered(<<>>, Append(a, Toggle))
      BY <1>3, <1>9, Zenon DEF PushesTo
    <3> QED BY <2>9, <3>1, UnfinishedFront, Zenon
  <2>13. Meaning(T) = done \o ((a \o v) \o ScalarFront(0))
    BY <2>2, <2>6, <2>7, <2>11, UnfinishedFront, Zenon
  <2>14. Holds(T, 0)
    BY <1>6, <1>9
  <2>15. 0 \in 0..3
    OBVIOUS
  <2> QED BY <1>2, <2>10, <2>12, <2>13, <2>14, <2>15, Zenon DEF Accounts
<1>10. CASE ~(b = ScalarByte(k + 1) /\ k = 3)
  <2>1. PICK j : j = IF b = ScalarByte(k + 1) THEN k + 1 ELSE IF b = "f4" THEN 1 ELSE 0
    OBVIOUS
  <2>2. j \in 0..3
    BY <1>10, <2>1
  <2>3. PICK rel \in Seq(InputByte) : r = Filtered(ScalarFront(j), a \o rel)
                                      /\ rel \o ScalarFront(j) = p \o u
    BY <1>2, <1>3, <1>10, <2>1, Zenon DEF PushesTo
  <2>4. Holds(T, j)
    <3>1. CASE b = ScalarByte(k + 1)
      BY <1>6, <1>10, <2>1, <3>1
    <3>2. CASE b # ScalarByte(k + 1)
      BY <1>6, <2>1, <3>2
    <3> QED BY <3>1, <3>2
  <2>5. PICK g : g = ScalarFront(j)
    OBVIOUS
  <2>6. g \in Seq(Effect)
    <3>1. j \in 0..4
      BY <2>2
    <3>2. g \in Seq(InputByte)
      BY <2>5, <3>1, ScalarFrontIs
    <3> QED BY <3>2, InputIsEffects
  <2>7. rel \in Seq(Effect)
    BY InputIsEffects
  <2>8. a \o rel \in Seq(Effect)
    BY <2>7, ConcatProperties
  <2>9. Meaning(T) = Meaning(t) \o u
    <3>1. ~(NearScalar(t) /\ b = "bd")
      BY <1>6, <1>10
    <3> QED BY <1>2, <3>1, ByteMeansItself
  <2>10. Meaning(T) = (done \o (a \o p)) \o u
    BY <1>1, <1>2, <2>9, Zenon
  <2>11. a \o p \in Seq(Effect)
    BY <1>7
  <2>12. (done \o (a \o p)) \o u = done \o ((a \o p) \o u)
    BY <1>5, <2>11, EffectsAssociate
  <2>13. (a \o p) \o u = a \o (p \o u)
    BY <1>4, <1>5, EffectsAssociate
  <2>14. (a \o rel) \o g = a \o (rel \o g)
    BY <2>6, <2>7, EffectsAssociate
  <2>15. Meaning(T) = done \o ((a \o rel) \o g)
    BY <2>3, <2>5, <2>10, <2>12, <2>13, <2>14, Zenon
  <2> QED BY <1>2, <2>2, <2>3, <2>4, <2>5, <2>8, <2>15, Zenon DEF Accounts
<1> QED BY <1>9, <1>10

\* The run of Push.
IsPushRun(p, input, r) ==
  r = [i \in 0..Len(input) |-> IF i = 0 THEN Filtered(p, <<>>) ELSE PushByte(r[i - 1], input[i])]

PushRun(p, input) == CHOOSE r : IsPushRun(p, input, r)

\* There is one over every read, and it ends in what Push returns.
LEMMA PushRunIs ==
  ASSUME NEW p, NEW input \in Seq(InputByte)
  PROVE  /\ Push(p, input) = PushRun(p, input)[Len(input)]
         /\ PushRun(p, input)[0] = Filtered(p, <<>>)
         /\ \A k \in Nat : k < Len(input) =>
              PushRun(p, input)[k + 1] = PushByte(PushRun(p, input)[k], input[k + 1])
<1>1. PICK n : n = Len(input)
  OBVIOUS
<1>2. n \in Nat
  BY <1>1, LenProperties
<1> DEFINE Runs(k, r) == r = [i \in 0..k |-> IF i = 0 THEN Filtered(p, <<>>) ELSE PushByte(r[i - 1], input[i])]
           Good(k) == \E r : Runs(k, r)
<1>3. Good(0)
  <2> DEFINE r == [i \in 0..0 |-> Filtered(p, <<>>)]
  <2>1. Runs(0, r)
    OBVIOUS
  <2> HIDE DEF r
  <2> QED BY <2>1
<1>4. ASSUME NEW k \in Nat, Good(k) PROVE Good(k + 1)
  <2>1. PICK r : Runs(k, r)
    BY <1>4
  <2>2. PICK last : last = PushByte(r[k], input[k + 1])
    OBVIOUS
  <2> DEFINE h == [i \in 0..(k + 1) |-> IF i <= k THEN r[i] ELSE last]
  <2>3. Runs(k + 1, h)
    <3>1. ASSUME NEW i \in 0..(k + 1)
          PROVE  h[i] = IF i = 0 THEN Filtered(p, <<>>) ELSE PushByte(h[i - 1], input[i])
      <4>1. CASE i <= k
        <5>1. i \in 0..k /\ h[i] = r[i] /\ (i # 0 => i - 1 \in 0..(k + 1) /\ h[i - 1] = r[i - 1])
          BY <4>1
        <5>2. r[i] = IF i = 0 THEN Filtered(p, <<>>) ELSE PushByte(r[i - 1], input[i])
          BY <2>1, <5>1
        <5> QED BY <5>1, <5>2
      <4>2. CASE i = k + 1
        <5>1. i # 0 /\ h[i] = last /\ i - 1 = k /\ h[k] = r[k]
          BY <4>2
        <5> QED BY <2>2, <4>2, <5>1
      <4> QED BY <4>1, <4>2
    <3> HIDE DEF h
    <3>2. h = [i \in 0..(k + 1) |-> h[i]]
      BY DEF h
    <3> QED BY <3>1, <3>2
  <2> HIDE DEF h
  <2> QED BY <2>3
<1> DEFINE T == {k \in Nat : Good(k)}
<1> HIDE DEF Good
<1>5. 0 \in T /\ \A k \in Nat : k \in T => k + 1 \in T
  BY <1>3, <1>4
<1>6. Nat \subseteq T
  <2> HIDE DEF T
  <2> QED BY <1>5, SetInduction
<1>7. \E r : IsPushRun(p, input, r)
  <2>1. Good(n)
    BY <1>2, <1>6
  <2> QED BY <1>1, <2>1, Zenon DEF Good, IsPushRun
<1>8. PICK r : r = PushRun(p, input)
  OBVIOUS
<1>9. IsPushRun(p, input, r)
  BY <1>7, <1>8 DEF PushRun
<1>10. r = [i \in 0..n |-> IF i = 0 THEN Filtered(p, <<>>) ELSE PushByte(r[i - 1], input[i])]
  BY <1>1, <1>9, Zenon DEF IsPushRun
<1>11. r[0] = Filtered(p, <<>>)
  BY <1>2, <1>10
<1>12. \A k \in Nat : k < n => r[k + 1] = PushByte(r[k], input[k + 1])
  <2> SUFFICES ASSUME NEW k \in Nat, k < n PROVE r[k + 1] = PushByte(r[k], input[k + 1])
    OBVIOUS
  <2>1. PICK i : i = k + 1
    OBVIOUS
  <2>2. i \in 0..n /\ i # 0 /\ i - 1 = k
    BY <1>2, <2>1
  <2>3. r[i] = PushByte(r[i - 1], input[i])
    BY <1>10, <2>2
  <2> QED BY <2>1, <2>2, <2>3
<1>13. Push(p, input) = r[n]
  <2>1. Push(p, input) = PushRun(p, input)[Len(input)]
    BY Zenon DEF Push, PushRun, IsPushRun
  <2> QED BY <1>1, <1>8, <2>1
<1> QED BY <1>1, <1>8, <1>11, <1>12, <1>13

\* The first bytes of an input.
Front(t, k) == SubSeq(t, 1, k)

\* The fronts of a text, one byte at a time.
LEMMA FrontIs ==
  ASSUME NEW t \in Seq(InputByte)
  PROVE  /\ Front(t, 0) = <<>>
         /\ Front(t, Len(t)) = t
         /\ \A k \in Nat : k < Len(t) => /\ Front(t, k + 1) = Front(t, k) \o <<t[k + 1]>>
                                         /\ Front(t, k) \in Seq(InputByte)
                                         /\ t[k + 1] \in InputByte
<1>1. Len(t) \in Nat
  BY LenProperties
<1>2. Front(t, 0) = <<>>
  BY SubSeqEmpty DEF Front
<1>3. Front(t, Len(t)) = t
  BY SubSeqFull DEF Front
<1>4. ASSUME NEW k \in Nat, k < Len(t)
      PROVE  /\ Front(t, k + 1) = Front(t, k) \o <<t[k + 1]>>
             /\ Front(t, k) \in Seq(InputByte)
             /\ t[k + 1] \in InputByte
  <2>1. PICK m, n : m = 1 /\ n = k + 1
    OBVIOUS
  <2>2. m \in 1..Len(t) /\ n \in m..Len(t) /\ n \in 1..Len(t) /\ n - 1 = k
    BY <1>1, <1>4, <2>1
  <2>3. SubSeq(t, m, n) = SubSeq(t, m, n - 1) \o <<t[n]>>
    BY <2>2, SubSeqRecursiveSecond
  <2>4. t[n] \in InputByte
    BY <2>2, ElementOfSeq
  <2>5. \A i \in 1..k : t[i] \in InputByte
    <3> TAKE i \in 1..k
    <3>1. i \in 1..Len(t)
      BY <1>1, <1>4
    <3> QED BY <3>1, ElementOfSeq
  <2>6. SubSeq(t, 1, k) \in Seq(InputByte)
    BY <2>5, SubSeqProperties
  <2> QED BY <2>1, <2>2, <2>3, <2>4, <2>6 DEF Front
<1> QED BY <1>2, <1>3, <1>4

\* A whole read pushed.
LEMMA PushAccounts ==
  ASSUME NEW done \in Seq(Effect), NEW t \in Seq(InputByte), NEW input \in Seq(InputByte), NEW p,
         Accounts(done, t, Filtered(p, <<>>))
  PROVE  Accounts(done, t \o input, Push(p, input))
<1>1. PICK n, r : n = Len(input) /\ r = PushRun(p, input)
  OBVIOUS
<1>2. n \in Nat
  BY <1>1, LenProperties
<1>3. /\ Push(p, input) = r[n] /\ r[0] = Filtered(p, <<>>)
      /\ \A k \in Nat : k < n => r[k + 1] = PushByte(r[k], input[k + 1])
  BY <1>1, PushRunIs
<1>4. /\ Front(input, 0) = <<>> /\ Front(input, n) = input
      /\ \A k \in Nat : k < n => /\ Front(input, k + 1) = Front(input, k) \o <<input[k + 1]>>
                                  /\ Front(input, k) \in Seq(InputByte)
                                  /\ input[k + 1] \in InputByte
  BY <1>1, FrontIs
<1> DEFINE S == {k \in Nat : k <= n => Accounts(done, t \o Front(input, k), r[k])}
<1>5. 0 \in S
  <2>1. t \o <<>> = t
    BY ConcatEmptySeq
  <2>2. Accounts(done, t \o Front(input, 0), r[0])
    BY <1>3, <1>4, <2>1, Zenon
  <2> QED BY <2>2
<1>6. ASSUME NEW k \in Nat, k \in S PROVE k + 1 \in S
  <2> SUFFICES ASSUME k + 1 <= n PROVE Accounts(done, t \o Front(input, k + 1), r[k + 1])
    OBVIOUS
  <2>1. k < n /\ k <= n
    BY <1>2
  <2>2. PICK f, b, u : f = Front(input, k) /\ b = input[k + 1] /\ u = <<b>>
    OBVIOUS
  <2>3. f \in Seq(InputByte) /\ b \in InputByte /\ Front(input, k + 1) = f \o u
    BY <1>4, <2>1, <2>2
  <2>4. f \in Seq(InputByte)
    BY <2>3
  <2>5. b \in InputByte
    BY <2>3
  <2>6. u \in Seq(InputByte)
    BY <2>2, <2>5
  <2>7. t \o f \in Seq(InputByte)
    BY <2>4, ConcatProperties
  <2>8. Accounts(done, t \o f, r[k])
    BY <1>6, <2>1, <2>2
  <2>9. Accounts(done, (t \o f) \o <<b>>, PushByte(r[k], b))
    BY <2>5, <2>7, <2>8, PushByteAccounts
  <2>10. (t \o f) \o u = t \o (f \o u)
    BY <2>4, <2>6, ConcatAssociative
  <2>11. r[k + 1] = PushByte(r[k], b)
    BY <1>3, <2>1, <2>2
  <2> QED BY <2>2, <2>3, <2>9, <2>10, <2>11, Zenon
<1>7. Nat \subseteq S
  <2> HIDE DEF S
  <2> QED BY <1>5, <1>6, SetInduction
<1>8. n \in S /\ n <= n
  BY <1>2, <1>7
<1>9. Accounts(done, t \o Front(input, n), r[n])
  BY <1>8
<1> QED BY <1>3, <1>4, <1>9, Zenon

\* A sequence cut in two.
LEMMA CutIs ==
  ASSUME NEW t \in Seq(Effect), NEW m \in 0..Len(t)
  PROVE  /\ SubSeq(t, 1, m) \in Seq(Effect) /\ Len(SubSeq(t, 1, m)) = m
         /\ SubSeq(t, m + 1, Len(t)) \in Seq(Effect)
         /\ SubSeq(t, 1, m) \o SubSeq(t, m + 1, Len(t)) = t
<1>1. PICK n, p, q : n = Len(t) /\ p = m + 1 /\ q = 1
  OBVIOUS
<1>2. n \in Nat /\ m \in Int /\ p \in Int /\ q \in Int /\ n \in Int
  BY <1>1, LenProperties
<1>3. \A i \in 1..n : t[i] \in Effect
  BY <1>1, ElementOfSeq
<1>4. \A i \in q..m : t[i] \in Effect
  BY <1>1, <1>2, <1>3
<1>5. \A i \in p..n : t[i] \in Effect
  BY <1>1, <1>2, <1>3
<1>6. /\ SubSeq(t, q, m) \in Seq(Effect)
      /\ Len(SubSeq(t, q, m)) = IF q <= m THEN m - q + 1 ELSE 0
  BY <1>2, <1>4, SubSeqProperties
<1>7. SubSeq(t, p, n) \in Seq(Effect)
  BY <1>2, <1>5, SubSeqProperties
<1>8. SubSeq(t, q, m) \o SubSeq(t, p, n) = SubSeq(t, q, n)
  <2>1. q \in 1..(Len(t) + 1) /\ m \in (q - 1)..Len(t) /\ n \in m..Len(t)
    BY <1>1, <1>2
  <2> QED BY <1>1, <2>1, ConcatAdjacentSubSeq
<1>9. SubSeq(t, q, n) = t
  BY <1>1, SubSeqFull
<1>10. Len(SubSeq(t, q, m)) = m
  BY <1>1, <1>6
<1> QED BY <1>1, <1>6, <1>7, <1>8, <1>9, <1>10

\* Where a sequence begins with another.
LEMMA StartIs ==
  ASSUME NEW a \in Seq(Effect), NEW b \in Seq(Effect)
  PROVE  a = SubSeq(a \o b, 1, Len(a))
<1>1. PICK c, n, u : c = a \o b /\ n = Len(a) /\ u = SubSeq(c, 1, n)
  OBVIOUS
<1>2. c \in Seq(Effect) /\ Len(c) = n + Len(b) /\ \A i \in 1..n : c[i] = a[i]
  BY <1>1, JoinIs
<1>3. c \in Seq(Effect)
  BY <1>2
<1>4. n \in Nat /\ Len(b) \in Nat
  BY <1>1, LenProperties
<1>5. n \in 0..Len(c)
  BY <1>2, <1>4
<1>6. u \in Seq(Effect) /\ Len(u) = n
  BY <1>1, <1>3, <1>5, CutIs
<1>7. \A i \in 1..n : u[i] = a[i]
  <2>1. PICK q : q = 1
    OBVIOUS
  <2>2. q \in Int /\ n \in Int /\ \A i \in q..n : c[i] \in Effect
    <3>1. \A i \in 1..Len(c) : c[i] \in Effect
      BY <1>3, ElementOfSeq
    <3> QED BY <1>2, <1>4, <2>1, <3>1
  <2>3. \A i \in 1..(n - q + 1) : SubSeq(c, q, n)[i] = c[q + i - 1]
    BY <2>2, SubSeqProperties
  <2>4. \A i \in 1..n : i \in 1..(n - q + 1) /\ q + i - 1 = i
    BY <1>4, <2>1
  <2> QED BY <1>1, <1>2, <2>1, <2>3, <2>4
<1>8. u = a
  BY <1>1, <1>6, <1>7, SeqEqual
<1> QED BY <1>1, <1>8

\* What one Forward carries, and what is left.
LEMMA ForwardIs ==
  ASSUME NEW todo \in Seq(Effect)
  PROVE  /\ NextForward(todo) \in Seq(Effect)
         /\ Drop(todo, Len(NextForward(todo))) \in Seq(Effect)
         /\ NextForward(todo) \o Drop(todo, Len(NextForward(todo))) = todo
<1> DEFINE places == {i \in DOMAIN todo : todo[i] = Toggle}
<1>1. PICK n : n = Len(todo)
  OBVIOUS
<1>2. n \in Nat /\ DOMAIN todo = 1..n
  BY <1>1, LenProperties
<1>3. \E m \in 0..n : NextForward(todo) = SubSeq(todo, 1, m)
  <2>1. CASE places = {}
    <3>1. NextForward(todo) = todo
      BY <2>1 DEF NextForward
    <3>2. SubSeq(todo, 1, n) = todo
      BY <1>1, SubSeqFull
    <3>3. n \in 0..n
      BY <1>2
    <3> QED BY <3>1, <3>2, <3>3
  <2>2. CASE places # {}
    <3>1. PICK i : i = CHOOSE k \in places : \A j \in places : k <= j
      OBVIOUS
    <3>2. NextForward(todo) = SubSeq(todo, 1, i - 1)
      BY <2>2, <3>1 DEF NextForward
    <3>3. places \subseteq 1..n /\ places \subseteq Nat
      BY <1>2
    <3>4. \E k \in places : \A j \in places : k <= j
      <4> HIDE DEF places
      <4>1. places \subseteq Nat
        BY <3>3
      <4> DEFINE R == {ss \in Nat \X Nat : ss[1] < ss[2]}
      <4>2. IsWellFoundedOn(R, Nat)
        BY NatLessThanWellFounded DEF OpToRel
      <4>3. PICK k \in places : \A j \in places : ~ (<<j, k>> \in R)
        <5> HIDE DEF R
        <5> QED BY <2>2, <4>1, <4>2, WFMin
      <4>4. \A j \in places : ~(j < k) /\ j \in Nat /\ k \in Nat
        BY <4>1, <4>3
      <4> QED BY <4>4
    <3>5. i \in places
      <4> HIDE DEF places
      <4> QED BY <3>1, <3>4
    <3>6. i - 1 \in 0..n
      BY <1>2, <3>3, <3>5
    <3> QED BY <3>2, <3>6
  <2> QED BY <2>1, <2>2
<1>4. PICK m \in 0..n : NextForward(todo) = SubSeq(todo, 1, m)
  BY <1>3
<1>5. m \in 0..Len(todo)
  BY <1>1
<1>6. /\ SubSeq(todo, 1, m) \in Seq(Effect) /\ Len(SubSeq(todo, 1, m)) = m
      /\ SubSeq(todo, m + 1, Len(todo)) \in Seq(Effect)
      /\ SubSeq(todo, 1, m) \o SubSeq(todo, m + 1, Len(todo)) = todo
  BY <1>5, CutIs
<1>7. Drop(todo, Len(NextForward(todo))) = SubSeq(todo, m + 1, Len(todo))
  BY <1>4, <1>6, Zenon DEF Drop
<1> QED BY <1>4, <1>6, <1>7, Zenon

-----------------------------------------------------------------------------
\* What the sequences are made of, and where the thread stands.
PumpInv ==
  /\ typed \in Seq(InputByte) /\ actions \in Seq(Effect) /\ effects \in Seq(Effect)
  /\ pump \in {"check", "read", "apply", "done"}
  /\ pump \in {"check", "read"} => actions = <<>> /\ ~last_read
  /\ last_read => pending = <<>>

\* The filter holds the longest end of the input that may become the scalar.
HoldInv ==
  \E k \in 0..3 : /\ pending = ScalarFront(k)
                  /\ pump # "done" /\ ~last_read => Holds(typed, k)

\* What is done, what is to be done and what is held make up the meaning.
CarriedInv ==
  /\ pump # "done" => Meaning(typed) = effects \o (actions \o pending)
  /\ pump = "done" => InputCarriedOutInOrder

InputInv == PumpInv /\ HoldInv /\ CarriedInv

\* The fronts of the scalar are effects.
LEMMA FrontIsEffects == \A k \in 0..3 : ScalarFront(k) \in Seq(Effect) /\ Len(ScalarFront(k)) = k
<1> SUFFICES ASSUME NEW k \in 0..3 PROVE ScalarFront(k) \in Seq(Effect) /\ Len(ScalarFront(k)) = k
  OBVIOUS
<1>1. k \in 0..4
  OBVIOUS
<1>2. ScalarFront(k) \in Seq(InputByte) /\ Len(ScalarFront(k)) = k
  BY <1>1, ScalarFrontIs
<1> QED BY <1>2, InputIsEffects

\* An empty input means nothing.
LEMMA NoMeaning == Meaning(<<>>) = <<>>
<1>1. PICK t : t = <<>>
  OBVIOUS
<1>2. t \in Seq(InputByte) /\ Len(t) = 0
  BY <1>1
<1>3. t \in Seq(InputByte)
  BY <1>2
<1>4. Meaning(t) = From(t, 1) /\ From(t, Len(t) + 1) = <<>>
  BY <1>3, FromIs
<1>5. Len(t) + 1 = 1
  BY <1>2
<1> QED BY <1>1, <1>4, <1>5, Zenon

\* The invariant holds before the first read.
LEMMA InputInitInv == InputInit => InputInv
<1> SUFFICES ASSUME InputInit PROVE InputInv
  OBVIOUS
<1>1. /\ pending = <<>> /\ pump = "check" /\ actions = <<>> /\ last_read = FALSE
      /\ typed = <<>> /\ effects = <<>>
  BY DEF InputInit
<1>2. <<>> \in Seq(InputByte) /\ <<>> \in Seq(Effect) /\ Len(<<>>) = 0
  OBVIOUS
<1>3. PumpInv
  BY <1>1, <1>2 DEF PumpInv
<1>4. HoldInv
  <2>1. pending = ScalarFront(0)
    BY <1>1, UnfinishedFront
  <2>2. Holds(<<>>, 0)
    BY <2>1, <1>1, FrontEnds
  <2> QED BY <1>1, <2>1, <2>2 DEF HoldInv
<1>5. CarriedInv
  <2>1. <<>> \o (<<>> \o <<>>) = <<>>
    BY <1>2, NothingJoined
  <2> QED BY <1>1, <2>1, NoMeaning DEF CarriedInv
<1> QED BY <1>3, <1>4, <1>5 DEF InputInv

\* A read keeps the invariant.
LEMMA ReadStep ==
  ASSUME InputInv, NEW input \in Chunks, Read(input)
  PROVE  InputInv'
<1>1. /\ typed \in Seq(InputByte) /\ effects \in Seq(Effect) /\ actions = <<>> /\ ~last_read
      /\ pump = "read" /\ pump' = "apply" /\ last_read' = last_read /\ effects' = effects
  BY DEF InputInv, PumpInv, Read
<1>2. typed \in Seq(InputByte)
  BY <1>1
<1>3. effects \in Seq(Effect)
  BY <1>1
<1>4. input \in Seq(InputByte)
  BY ReadsAssumption
<1>5. PICK k \in 0..3 : pending = ScalarFront(k) /\ Holds(typed, k)
  BY <1>1 DEF InputInv, HoldInv
<1>6. PICK p : p = ScalarFront(k)
  OBVIOUS
<1>7. p \in Seq(Effect)
  BY <1>6, FrontIsEffects
<1>8. Meaning(typed) = effects \o (<<>> \o p)
  BY <1>1, <1>5, <1>6, Zenon DEF InputInv, CarriedInv
<1>9. Accounts(effects, typed, Filtered(p, <<>>))
  <2>1. <<>> \in Seq(Effect)
    BY OneEffect
  <2> QED BY <1>5, <1>6, <1>8, <2>1, Zenon DEF Accounts
<1>10. Accounts(effects, typed \o input, Push(p, input))
  BY <1>2, <1>3, <1>4, <1>9, PushAccounts
<1>11. PICK j \in 0..3, a \in Seq(Effect) :
         /\ Push(p, input) = Filtered(ScalarFront(j), a)
         /\ Holds(typed \o input, j)
         /\ Meaning(typed \o input) = effects \o (a \o ScalarFront(j))
  BY <1>10, Zenon DEF Accounts
<1>12. typed' = typed \o input /\ pending' = ScalarFront(j) /\ actions' = a
  <2>1. /\ typed' = typed \o input
        /\ pending' = Push(pending, input).pending /\ actions' = Push(pending, input).actions
    BY DEF Read
  <2> QED BY <1>5, <1>6, <1>11, <2>1 DEF Filtered
<1>13. typed \o input \in Seq(InputByte)
  BY <1>2, <1>4, ConcatProperties
<1>14. PumpInv'
  BY <1>1, <1>12, <1>13 DEF PumpInv
<1>15. HoldInv'
  BY <1>11, <1>12 DEF HoldInv
<1>16. CarriedInv'
  <2>1. Meaning(typed') = effects' \o (actions' \o pending')
    BY <1>1, <1>11, <1>12
  <2> QED BY <1>1, <2>1 DEF CarriedInv
<1> QED BY <1>14, <1>15, <1>16 DEF InputInv

\* The end of the input keeps the invariant.
LEMMA EndStep ==
  ASSUME InputInv, EndOfInput
  PROVE  InputInv'
<1>1. /\ typed \in Seq(InputByte) /\ effects \in Seq(Effect) /\ actions = <<>>
      /\ pump = "read" /\ pump' = "apply" /\ last_read' = TRUE
      /\ typed' = typed /\ effects' = effects /\ pending' = <<>> /\ actions' = pending
  BY DEF InputInv, PumpInv, EndOfInput, Flushed
<1>2. PICK k \in 0..3 : pending = ScalarFront(k)
  BY DEF InputInv, HoldInv
<1>3. pending \in Seq(Effect)
  BY <1>2, FrontIsEffects
<1>4. PumpInv'
  BY <1>1, <1>3 DEF PumpInv
<1>5. HoldInv'
  <2>1. 0 \in 0..3 /\ pending' = ScalarFront(0)
    BY <1>1, UnfinishedFront
  <2> QED BY <1>1, <2>1 DEF HoldInv
<1>6. CarriedInv'
  <2>1. Meaning(typed) = effects \o (<<>> \o pending)
    BY <1>1 DEF InputInv, CarriedInv
  <2>2. <<>> \o pending = pending /\ pending \o <<>> = pending
    BY <1>3, NothingJoined
  <2>3. Meaning(typed') = effects' \o (actions' \o pending')
    BY <1>1, <2>1, <2>2
  <2> QED BY <1>1, <2>3 DEF CarriedInv
<1> QED BY <1>4, <1>5, <1>6 DEF InputInv

\* A thread that stops in the middle has done the first part of the meaning.
LEMMA StopsEarly ==
  ASSUME NEW done \in Seq(Effect), NEW rest \in Seq(Effect), NEW text,
         Meaning(text) = done \o rest
  PROVE  done = SubSeq(Meaning(text), 1, Len(done))
BY StartIs

\* Forwarding, in full or in part, keeps the invariant.
LEMMA ForwardStep ==
  ASSUME InputInv, Forward
  PROVE  InputInv'
<1>1. /\ typed \in Seq(InputByte) /\ effects \in Seq(Effect) /\ actions \in Seq(Effect)
      /\ pump = "apply" /\ actions # <<>>
      /\ typed' = typed /\ last_read' = last_read /\ pending' = pending
  BY DEF InputInv, PumpInv, Forward
<1>2. effects \in Seq(Effect)
  BY <1>1
<1>3. actions \in Seq(Effect)
  BY <1>1
<1>4. PICK k \in 0..3 : pending = ScalarFront(k) /\ (~last_read => Holds(typed, k))
  BY <1>1 DEF InputInv, HoldInv
<1>5. pending \in Seq(Effect)
  BY <1>4, FrontIsEffects
<1>6. Meaning(typed) = effects \o (actions \o pending)
  BY <1>1 DEF InputInv, CarriedInv
<1>7. PICK bytes, rest : bytes = NextForward(actions) /\ rest = Drop(actions, Len(bytes))
  OBVIOUS
<1>8. bytes \in Seq(Effect) /\ rest \in Seq(Effect) /\ bytes \o rest = actions
  BY <1>3, <1>7, ForwardIs
<1>9. bytes \in Seq(Effect)
  BY <1>8
<1>10. rest \in Seq(Effect)
  BY <1>8
<1>11. \/ effects' = effects \o bytes /\ actions' = rest /\ pump' = pump
       \/ /\ pump' = "done" /\ actions' = actions
          /\ \E n \in 0..Len(bytes) : effects' = effects \o SubSeq(bytes, 1, n)
       \/ pump' = "done" /\ effects' = effects /\ actions' = actions
  BY <1>7 DEF Forward
<1>12. HoldInv'
  BY <1>1, <1>4, <1>11 DEF HoldInv
<1>13. rest \o pending \in Seq(Effect) /\ actions \o pending \in Seq(Effect)
  BY <1>3, <1>5, <1>10, ConcatProperties
<1>14. CASE effects' = effects \o bytes /\ actions' = rest /\ pump' = pump
  <2>1. effects \o bytes \in Seq(Effect)
    BY <1>2, <1>9, ConcatProperties
  <2>2. PumpInv'
    BY <1>1, <1>10, <1>14, <2>1 DEF PumpInv, InputInv
  <2>3. (bytes \o rest) \o pending = bytes \o (rest \o pending)
    BY <1>5, <1>9, <1>10, EffectsAssociate
  <2>4. rest \o pending \in Seq(Effect)
    BY <1>13
  <2>5. (effects \o bytes) \o (rest \o pending) = effects \o (bytes \o (rest \o pending))
    BY <1>2, <1>9, <2>4, EffectsAssociate
  <2>6. Meaning(typed') = effects' \o (actions' \o pending')
    BY <1>1, <1>6, <1>8, <1>14, <2>3, <2>5
  <2> QED BY <1>1, <1>12, <1>14, <2>2, <2>6 DEF InputInv, CarriedInv
<1>15. CASE /\ pump' = "done" /\ actions' = actions
            /\ \E n \in 0..Len(bytes) : effects' = effects \o SubSeq(bytes, 1, n)
  <2>1. PICK n \in 0..Len(bytes) : effects' = effects \o SubSeq(bytes, 1, n)
    BY <1>15
  <2>2. PICK u, v : u = SubSeq(bytes, 1, n) /\ v = SubSeq(bytes, n + 1, Len(bytes))
    OBVIOUS
  <2>3. u \in Seq(Effect) /\ v \in Seq(Effect) /\ u \o v = bytes
    BY <1>9, <2>2, CutIs
  <2>4. u \in Seq(Effect)
    BY <2>3
  <2>5. v \in Seq(Effect)
    BY <2>3
  <2>6. PICK w : w = v \o (rest \o pending)
    OBVIOUS
  <2>7. rest \o pending \in Seq(Effect)
    BY <1>13
  <2>8. w \in Seq(Effect)
    BY <2>5, <2>6, <2>7, ConcatProperties
  <2>9. (u \o v) \o (rest \o pending) = u \o w
    BY <2>4, <2>5, <2>6, <2>7, EffectsAssociate
  <2>10. (bytes \o rest) \o pending = bytes \o (rest \o pending)
    BY <1>5, <1>9, <1>10, EffectsAssociate
  <2>11. (effects \o u) \o w = effects \o (u \o w)
    BY <1>2, <2>4, <2>8, EffectsAssociate
  <2>12. PICK e : e = effects \o u
    OBVIOUS
  <2>13. e \in Seq(Effect)
    BY <1>2, <2>4, <2>12, ConcatProperties
  <2>14. Meaning(typed) = e \o w
    BY <1>6, <1>8, <2>3, <2>9, <2>10, <2>11, <2>12, Zenon
  <2>15. e = SubSeq(Meaning(typed), 1, Len(e))
    BY <2>8, <2>13, <2>14, StopsEarly
  <2>16. effects' = e
    BY <2>1, <2>2, <2>12
  <2>17. PumpInv'
    BY <1>1, <1>15, <2>13, <2>16 DEF PumpInv, InputInv
  <2>18. InputCarriedOutInOrder'
    BY <1>1, <1>15, <2>15, <2>16 DEF InputCarriedOutInOrder
  <2> QED BY <1>12, <1>15, <2>17, <2>18 DEF InputInv, CarriedInv
<1>16. CASE pump' = "done" /\ effects' = effects /\ actions' = actions
  <2>1. actions \o pending \in Seq(Effect)
    BY <1>13
  <2>2. effects = SubSeq(Meaning(typed), 1, Len(effects))
    BY <1>2, <1>6, <2>1, StopsEarly
  <2>3. PumpInv'
    BY <1>1, <1>16 DEF PumpInv, InputInv
  <2>4. InputCarriedOutInOrder'
    BY <1>1, <1>16, <2>2 DEF InputCarriedOutInOrder
  <2> QED BY <1>12, <1>16, <2>3, <2>4 DEF InputInv, CarriedInv
<1> QED BY <1>11, <1>14, <1>15, <1>16

\* Carrying out a toggle keeps the invariant.
LEMMA ToggleReadStep ==
  ASSUME InputInv, ToggleRendering
  PROVE  InputInv'
<1>1. /\ typed \in Seq(InputByte) /\ effects \in Seq(Effect) /\ actions \in Seq(Effect)
      /\ pump = "apply" /\ actions # <<>> /\ Head(actions) = Toggle /\ pump' = pump
      /\ typed' = typed /\ last_read' = last_read /\ pending' = pending
      /\ effects' = Append(effects, Toggle) /\ actions' = Tail(actions)
  BY DEF InputInv, PumpInv, ToggleRendering
<1>2. effects \in Seq(Effect)
  BY <1>1
<1>3. actions \in Seq(Effect)
  BY <1>1
<1>4. PICK k \in 0..3 : pending = ScalarFront(k) /\ (~last_read => Holds(typed, k))
  BY <1>1 DEF InputInv, HoldInv
<1>5. pending \in Seq(Effect)
  BY <1>4, FrontIsEffects
<1>6. PICK v, rest : v = <<Toggle>> /\ rest = Tail(actions)
  OBVIOUS
<1>7. v \in Seq(Effect)
  BY <1>6, OneEffect
<1>8. rest \in Seq(Effect)
  BY <1>1, <1>3, <1>6, HeadTailProperties
<1>9. v \o rest = actions
  <2>1. 1 \in 1..Len(actions) /\ Len(actions) \in Nat
    BY <1>1, <1>3, LenProperties, EmptySeq
  <2>2. PICK m, n : m = 1 /\ n = Len(actions)
    OBVIOUS
  <2>3. m \in 1..Len(actions) /\ n \in m..Len(actions)
    BY <2>1, <2>2
  <2>4. SubSeq(actions, m, n) = <<actions[m]>> \o SubSeq(actions, m + 1, n)
    BY <1>3, <2>3, SubSeqRecursiveFirst
  <2>5. SubSeq(actions, 1, Len(actions)) = actions
    BY <1>3, SubSeqFull
  <2>6. Tail(actions) = SubSeq(actions, 2, Len(actions))
    BY <1>1, <1>3, TailIsSubSeq
  <2>7. actions[1] = Toggle
    BY <1>1, <1>3
  <2> QED BY <1>6, <2>2, <2>4, <2>5, <2>6, <2>7
<1>10. effects' = effects \o v /\ effects \o v \in Seq(Effect)
  <2>1. Toggle \in Effect
    BY OneEffect
  <2>2. Append(effects, Toggle) = effects \o <<Toggle>>
    BY <1>2, <2>1, AppendIsConcat
  <2>3. effects \o v \in Seq(Effect)
    BY <1>2, <1>7, ConcatProperties
  <2> QED BY <1>1, <1>6, <2>2, <2>3
<1>11. PumpInv'
  BY <1>1, <1>6, <1>8, <1>10 DEF PumpInv, InputInv
<1>12. HoldInv'
  BY <1>1, <1>4 DEF HoldInv
<1>13. CarriedInv'
  <2>1. Meaning(typed) = effects \o (actions \o pending)
    BY <1>1 DEF InputInv, CarriedInv
  <2>2. rest \o pending \in Seq(Effect)
    BY <1>5, <1>8, ConcatProperties
  <2>3. (v \o rest) \o pending = v \o (rest \o pending)
    BY <1>5, <1>7, <1>8, EffectsAssociate
  <2>4. (effects \o v) \o (rest \o pending) = effects \o (v \o (rest \o pending))
    BY <1>2, <1>7, <2>2, EffectsAssociate
  <2>5. Meaning(typed') = effects' \o (actions' \o pending')
    BY <1>1, <1>6, <1>9, <1>10, <2>1, <2>3, <2>4
  <2> QED BY <1>1, <2>5 DEF CarriedInv
<1> QED BY <1>11, <1>12, <1>13 DEF InputInv

\* The thread looks at the flag, or is done with what it read.
LEMMA TurnStep ==
  ASSUME InputInv, CheckRunning \/ ActionsApplied
  PROVE  InputInv'
<1>1. /\ actions = <<>> /\ pump # "done" /\ effects \in Seq(Effect)
      /\ typed' = typed /\ effects' = effects /\ actions' = actions
      /\ pending' = pending /\ last_read' = last_read
      /\ pump' \in {"check", "read", "done"} /\ (last_read => pump' = "done")
  BY DEF InputInv, PumpInv, CheckRunning, ActionsApplied
<1>2. effects \in Seq(Effect)
  BY <1>1
<1>3. PICK k \in 0..3 : pending = ScalarFront(k) /\ (~last_read => Holds(typed, k))
  BY <1>1 DEF InputInv, HoldInv
<1>4. pending \in Seq(Effect)
  BY <1>3, FrontIsEffects
<1>5. Meaning(typed) = effects \o (<<>> \o pending)
  BY <1>1 DEF InputInv, CarriedInv
<1>6. <<>> \o pending = pending /\ effects \o <<>> = effects
  BY <1>2, <1>4, NothingJoined
<1>7. Meaning(typed) = effects \o pending
  BY <1>5, <1>6
<1>8. effects = SubSeq(Meaning(typed), 1, Len(effects))
  BY <1>2, <1>4, <1>7, StopsEarly
<1>9. last_read => Meaning(typed) = effects
  BY <1>6, <1>7 DEF InputInv, PumpInv
<1>10. PumpInv'
  BY <1>1 DEF InputInv, PumpInv
<1>11. HoldInv'
  BY <1>1, <1>3 DEF HoldInv
<1>12. CarriedInv'
  BY <1>1, <1>5, <1>8, <1>9 DEF CarriedInv, InputCarriedOutInOrder
<1> QED BY <1>10, <1>11, <1>12 DEF InputInv

\* Every step of the input pump keeps the invariant.
LEMMA InputNextInv == InputInv /\ [InputNext]_input_vars => InputInv'
<1> SUFFICES ASSUME InputInv, [InputNext]_input_vars PROVE InputInv'
  OBVIOUS
<1>1. CASE \E input \in Chunks : Read(input)
  BY <1>1, ReadStep
<1>2. CASE EndOfInput
  BY <1>2, EndStep
<1>3. CASE Forward
  BY <1>3, ForwardStep
<1>4. CASE ToggleRendering
  BY <1>4, ToggleReadStep
<1>5. CASE CheckRunning \/ ActionsApplied
  BY <1>5, TurnStep
<1>6. CASE StopRunning \/ CloseWriter \/ UNCHANGED input_vars
  <2>1. UNCHANGED <<pending, pump, actions, last_read, typed, effects>>
    BY <1>6 DEF StopRunning, CloseWriter, input_vars, thread_vars
  <2> QED BY <2>1 DEF InputInv, PumpInv, HoldInv, CarriedInv, InputCarriedOutInOrder
<1> QED BY <1>1, <1>2, <1>3, <1>4, <1>5, <1>6 DEF InputNext, Pump

\* The invariant holds throughout.
LEMMA InputInvariant == InputSpec => []InputInv
BY InputInitInv, InputNextInv, PTL DEF InputSpec

(* However the reads cut the input, and whenever the session stops the     *)
(* thread, the meaning of what was typed is carried out in order and       *)
(* nothing of it is lost while the thread runs (push, apply_input_actions, *)
(* flush_pending_input).                                                   *)
THEOREM InputMeansWhatItSays == InputSpec => []InputCarriedOutInOrder
<1>1. InputInv => InputCarriedOutInOrder
  <2> SUFFICES ASSUME InputInv PROVE InputCarriedOutInOrder
    OBVIOUS
  <2>1. CASE pump = "done"
    BY <2>1 DEF InputInv, CarriedInv
  <2>2. CASE pump # "done"
    <3>1. effects \in Seq(Effect)
      BY DEF InputInv, PumpInv
    <3>2. actions \in Seq(Effect)
      BY DEF InputInv, PumpInv
    <3>3. pending \in Seq(Effect)
      BY FrontIsEffects DEF InputInv, HoldInv
    <3>4. (effects \o actions) \o pending = effects \o (actions \o pending)
      BY <3>1, <3>2, <3>3, EffectsAssociate
    <3> QED BY <2>2, <3>4 DEF InputInv, CarriedInv, InputCarriedOutInOrder
  <2> QED BY <2>1, <2>2
<1> QED BY InputInvariant, <1>1, PTL

(* The filter delays nothing but the start of the scalar                   *)
(* (pending_is_prefix).                                                    *)
THEOREM NothingElseDelayed == InputSpec => []OnlyScalarPrefixDelayed
<1>1. InputInv => OnlyScalarPrefixDelayed
  <2> SUFFICES ASSUME InputInv PROVE OnlyScalarPrefixDelayed
    OBVIOUS
  <2>1. PICK k \in 0..3 : pending = ScalarFront(k)
    BY DEF InputInv, HoldInv
  <2>2. Len(pending) = k
    BY <2>1, FrontIsEffects
  <2> QED BY <2>1, <2>2 DEF OnlyScalarPrefixDelayed, ScalarFront
<1> QED BY InputInvariant, <1>1, PTL

(* The child gets nothing once the writer is closed (stop, forward_input). *)
THEOREM ClosedIsClosed == InputSpec => NothingAfterClose
<1> DEFINE Kept == writer = "closed" =>
             \A i \in DOMAIN effects' :
               effects'[i] # Toggle => i \in DOMAIN effects /\ effects[i] = effects'[i]
<1>1. ASSUME InputInv, InputNext PROVE Kept
  <2>1. SUFFICES ASSUME writer = "closed", NEW i \in DOMAIN effects', effects'[i] # Toggle
                 PROVE  i \in DOMAIN effects /\ effects[i] = effects'[i]
    OBVIOUS
  <2>2. CASE ToggleRendering
    <3>1. effects' = Append(effects, Toggle) /\ effects \in Seq(Effect)
      BY <1>1, <2>2 DEF ToggleRendering, InputInv, PumpInv
    <3>2. effects \in Seq(Effect) /\ Toggle \in Effect
      BY <3>1, OneEffect
    <3> QED BY <2>1, <3>1, <3>2
  <2>3. CASE ~ToggleRendering
    <3>1. effects' = effects
      BY <1>1, <2>1, <2>3 DEF InputNext, Pump, CheckRunning, EndOfInput, Forward, ActionsApplied,
                              Read, StopRunning, CloseWriter, WriterOpen
    <3> QED BY <2>1, <3>1
  <2> QED BY <2>2, <2>3
<1>2. InputInv /\ [InputNext]_input_vars => [Kept]_input_vars
  BY <1>1
<1> QED BY InputInvariant, <1>2, PTL DEF InputSpec, NothingAfterClose
=============================================================================
