--------------------------- MODULE InteractiveSession ---------------------------
(***************************************************************************)
(* A session of src/interactive.rs on the pseudo terminal of               *)
(* src/native_session.rs, as a Unix build runs it. The session thread      *)
(* spawns the child and starts the resize monitor, the stdin thread and    *)
(* the exit waiter, pumps the child's output to the display, and takes     *)
(* all of it down again, whatever fails on the way. The pump is OutputPump,*)
(* seen here by what it reads and shows; what the stdin thread does with   *)
(* the keys is the subject of InputPump.                                   *)
(***************************************************************************)
EXTENDS Naturals, Sequences

CONSTANTS Sizes,       \* sizes the parent terminal may have
          MaxOutput,   \* bound: pieces of output the child and its descendants write
          MaxKeys,     \* bound: reads of the keyboard
          MaxResizes,  \* bound: changes of the parent terminal's size
          MaxRefusals  \* bound: calls of resize that fail

ASSUME SessionAssumption ==
  /\ Sizes # {}
  /\ MaxOutput \in Nat /\ MaxKeys \in Nat /\ MaxResizes \in Nat /\ MaxRefusals \in Nat

VARIABLES
  main,       \* where the session thread stands
  failed,     \* there is an error for finish_session, or a `?`, to report
  result,     \* what the session has returned
  attached,   \* the display is a terminal
  child,      \* "none", "running", "exited", or "reaped" by the waiter
  asked,      \* the child was killed, or its terminal hung up
  holders,    \* who holds the child's end of the terminal: child, descendant
  written, shown,  \* pieces of output written, and those on the display
  running,    \* the flag of SessionControl
  writer,     \* the shared writer: "none", "open" or "closed"
  stdin,      \* the stdin thread: "off", "read", "lock", "write" (with the lock), "done"
  keys,       \* reads of the keyboard so far
  monitor,    \* the resize thread: "off", "check", "look", "send", "done"
  previous,   \* the size it last gave to the child
  sent,       \* the channel of sizes to the session thread
  columns,    \* the size the pipeline renders for
  terminal,   \* the size of the parent terminal
  child_size, \* the size of the child's terminal
  resizes, refusals,
  waiter      \* the exit waiter: "off", "wait", "close", "done"

session_vars == <<main, failed, result>>
child_vars == <<child, asked, holders>>
output_vars == <<written, shown>>
input_vars == <<running, writer, stdin, keys>>
monitor_vars == <<monitor, previous, refusals>>
size_vars == <<terminal, resizes>>
vars == <<session_vars, attached, child_vars, output_vars, input_vars, monitor_vars, sent,
          columns, size_vars, child_size, waiter>>

\* The child's end is open. All of ptymark's ends are closed with the session.
TerminalOpen == holders # {}

Init ==
  /\ main = "spawn" /\ failed = FALSE /\ result = "none"
  /\ attached \in BOOLEAN
  /\ child = "none" /\ asked = FALSE /\ holders = {}
  /\ written = 0 /\ shown = 0
  /\ running = TRUE /\ writer = "none" /\ stdin = "off" /\ keys = 0
  /\ terminal \in Sizes /\ resizes = 0
  /\ monitor = "off" /\ previous = terminal /\ refusals = 0
  /\ sent = <<>> /\ columns = terminal /\ child_size = terminal
  /\ waiter = "off"
-----------------------------------------------------------------------------
(* The child and what it starts, and the parent terminal. *)

Write ==
  /\ TerminalOpen /\ written < MaxOutput
  /\ written' = written + 1
  /\ UNCHANGED <<session_vars, attached, child_vars, shown, input_vars, monitor_vars, sent,
                 columns, size_vars, child_size, waiter>>

StartDescendant ==
  /\ child = "running" /\ "child" \in holders /\ ~asked
  /\ holders' = holders \cup {"descendant"}
  /\ UNCHANGED <<session_vars, attached, child, asked, output_vars, input_vars,
                 monitor_vars, sent, columns, size_vars, child_size, waiter>>

\* A process closes the terminal; the child does when it exits.
LeaveTerminal ==
  /\ \E who \in holders : holders' = holders \ {who}
  /\ UNCHANGED <<session_vars, attached, child, asked, output_vars, input_vars,
                 monitor_vars, sent, columns, size_vars, child_size, waiter>>

Exit ==
  /\ child = "running"
  /\ child' = "exited"
  /\ holders' = holders \ {"child"}
  /\ UNCHANGED <<session_vars, attached, asked, output_vars, input_vars,
                 monitor_vars, sent, columns, size_vars, child_size, waiter>>

ChangeSize ==
  /\ resizes < MaxResizes
  /\ resizes' = resizes + 1
  /\ terminal' \in Sizes \ {terminal}
  /\ UNCHANGED <<session_vars, attached, child_vars, output_vars, input_vars, monitor_vars,
                 sent, columns, child_size, waiter>>

Environment == Write \/ StartDescendant \/ LeaveTerminal \/ Exit \/ ChangeSize
-----------------------------------------------------------------------------
(* The stdin thread: spawn_input_pump, forward_input. *)

\* One read of the keyboard, before which `running` may have been cleared; or
\* the end, of the input or of the loop.
ReadKeys ==
  /\ stdin = "read"
  /\ \/ keys < MaxKeys /\ keys' = keys + 1 /\ stdin' = "lock"
     \/ stdin' = "done" /\ UNCHANGED keys
  /\ UNCHANGED <<session_vars, attached, child_vars, output_vars, running, writer,
                 monitor_vars, sent, columns, size_vars, child_size, waiter>>

LockWriter ==
  /\ stdin = "lock"
  /\ stdin' = IF writer = "open" THEN "write" ELSE "done"
  /\ UNCHANGED <<session_vars, attached, child_vars, output_vars, running, writer, keys,
                 monitor_vars, sent, columns, size_vars, child_size, waiter>>

\* What follows a write: one that fails ends the thread. Mutant: it is tried again.
WriteAgain == IF TerminalOpen THEN "read" ELSE "write"
AfterWrite == IF TerminalOpen THEN "read" ELSE "done"

\* write_all under the lock: it waits while the terminal is full, for ever if
\* nobody reads it, and fails when nobody holds the other end.
WriteKeys ==
  /\ stdin = "write"
  /\ stdin' = AfterWrite
  /\ UNCHANGED <<session_vars, attached, child_vars, output_vars, running, writer, keys,
                 monitor_vars, sent, columns, size_vars, child_size, waiter>>

WriterUnlocked == stdin # "write"
-----------------------------------------------------------------------------
(* The resize monitor: ResizeMonitor::spawn. *)

\* The size the monitor compares with next, once a call of resize has failed.
\* Mutant: as if it had succeeded.
TakenAsDone == terminal
KeptToRetry == previous

\* while running.load(..), and then it sleeps.
CheckMonitor ==
  /\ monitor = "check"
  /\ monitor' = IF running THEN "look" ELSE "done"
  /\ UNCHANGED <<session_vars, attached, child_vars, output_vars, input_vars, previous,
                 refusals, sent, columns, size_vars, child_size, waiter>>

\* A size that has changed is given to the child; a closed master ends the loop.
\* terminal_size, the lock and resize are one step: a change of the terminal
\* between them is seen at the next poll, like one that comes after them.
LookAtSize ==
  /\ monitor = "look"
  /\ \/ /\ terminal = previous
        /\ monitor' = "check"
        /\ UNCHANGED <<previous, refusals, child_size>>
     \/ /\ terminal # previous /\ waiter = "done"
        /\ monitor' = "done"
        /\ UNCHANGED <<previous, refusals, child_size>>
     \/ /\ terminal # previous /\ waiter # "done"
        /\ \/ /\ child_size' = terminal /\ previous' = terminal
              /\ monitor' = "send"
              /\ UNCHANGED refusals
           \/ /\ refusals < MaxRefusals
              /\ refusals' = refusals + 1
              /\ previous' = KeptToRetry
              /\ monitor' = "check"
              /\ UNCHANGED child_size
  /\ UNCHANGED <<session_vars, attached, child_vars, output_vars, input_vars, sent, columns,
                 size_vars, waiter>>

\* Still under the master's lock.
SendSize ==
  /\ monitor = "send"
  /\ sent' = Append(sent, previous)
  /\ monitor' = "check"
  /\ UNCHANGED <<session_vars, attached, child_vars, output_vars, input_vars, previous,
                 refusals, columns, size_vars, child_size, waiter>>
-----------------------------------------------------------------------------
(* The exit waiter: start_exit_waiter. *)

Reap ==
  /\ waiter = "wait" /\ child = "exited"
  /\ child' = "reaped"
  /\ waiter' = "close"
  /\ UNCHANGED <<session_vars, attached, asked, holders, output_vars, input_vars,
                 monitor_vars, sent, columns, size_vars, child_size>>

\* close_shared_master: the reader has a descriptor of its own.
CloseMaster ==
  /\ waiter = "close" /\ monitor # "send"
  /\ waiter' = "done"
  /\ UNCHANGED <<session_vars, attached, child_vars, output_vars, input_vars, monitor_vars,
                 sent, columns, size_vars, child_size>>
-----------------------------------------------------------------------------
(* The session thread: run. *)

\* Leaving run. The last of the session's descriptors goes with it: a child
\* that is left is hung up. (The guard of the raw mode restores the terminal.)
Return(failure, left) ==
  /\ main' = "returned"
  /\ failed' = failure
  /\ result' = IF failure THEN "error" ELSE "ok"
  /\ asked' = (asked \/ left = "running")

\* NativeTerminalSession::spawn. It may fail with the child already running.
Spawn ==
  /\ main = "spawn"
  /\ \/ /\ Return(TRUE, child)
        /\ UNCHANGED <<child, holders, writer>>
     \/ /\ child' = "running" /\ holders' = {"child"}
        /\ \/ /\ Return(TRUE, "running")
              /\ UNCHANGED writer
           \/ /\ main' = "raw" /\ writer' = "open"
              /\ UNCHANGED <<failed, result, asked>>
  /\ UNCHANGED <<attached, output_vars, running, stdin, keys, monitor_vars, sent,
                 columns, size_vars, child_size, waiter>>

\* enter_raw_mode, when the keyboard is a terminal as well.
EnterRawMode ==
  /\ main = "raw"
  /\ \/ /\ main' = "control"
        /\ UNCHANGED <<failed, result, asked>>
     \/ /\ attached /\ Return(TRUE, child)
  /\ UNCHANGED <<attached, child, holders, output_vars, input_vars, monitor_vars, sent,
                 columns, size_vars, child_size, waiter>>

\* SessionControl::start: first the monitor, if the display is a terminal.
StartMonitor ==
  /\ main = "control"
  /\ \/ /\ monitor' = IF attached THEN "check" ELSE "off"
        /\ main' = "input"
        /\ UNCHANGED <<failed, result, asked>>
     \/ /\ attached /\ Return(TRUE, child)
        /\ UNCHANGED monitor
  /\ UNCHANGED <<attached, child, holders, output_vars, input_vars, previous, refusals,
                 sent, columns, size_vars, child_size, waiter>>

\* Then the stdin thread; if it does not start, the monitor is stopped again.
StartInput ==
  /\ main = "input"
  /\ \/ /\ stdin' = "read" /\ main' = "waiter"
        /\ UNCHANGED <<failed, running, writer>>
     \/ /\ running' = FALSE /\ writer' = "closed"
        /\ main' = "undo" /\ failed' = TRUE
        /\ UNCHANGED stdin
  /\ UNCHANGED <<result, attached, child_vars, output_vars, keys, monitor_vars, sent,
                 columns, size_vars, child_size, waiter>>

UndoControl ==
  /\ main = "undo" /\ monitor \in {"off", "done"}
  /\ Return(failed, child)
  /\ UNCHANGED <<attached, child, holders, output_vars, input_vars, monitor_vars, sent,
                 columns, size_vars, child_size, waiter>>

\* kill: a signal to the child, if it is still there. Mutant: none is sent.
NotKilled == asked
Killed == asked \/ child = "running"

\* If the waiter does not start, the child is killed and the control stopped.
StartWaiter ==
  /\ main = "waiter"
  /\ \/ /\ waiter' = "wait" /\ main' = "update"
        /\ UNCHANGED <<failed, asked>>
     \/ /\ failed' = TRUE /\ asked' = Killed /\ main' = "stop"
        /\ UNCHANGED waiter
  /\ UNCHANGED <<result, attached, child, holders, output_vars, input_vars,
                 monitor_vars, sent, columns, size_vars, child_size>>

\* latest_resize: the channel is emptied, and its last size counts.
\* Mutant: its first.
OldestSize == IF sent = <<>> THEN columns ELSE Head(sent)
LatestSize == IF sent = <<>> THEN columns ELSE sent[Len(sent)]

\* The updates of the pump, before and after it receives.
Update ==
  /\ main \in {"update", "refresh"}
  /\ columns' = LatestSize
  /\ sent' = <<>>
  /\ main' = IF main = "update" THEN "recv" ELSE "show"
  /\ UNCHANGED <<failed, result, attached, child_vars, output_vars, input_vars,
                 monitor_vars, size_vars, child_size, waiter>>

\* The output has ended: all of it is read, and nobody can write any more.
\* Mutant: the child has exited.
EndOnExit == child # "running"
EndOfOutput == ~TerminalOpen /\ shown = written

Receive ==
  /\ main = "recv"
  /\ \/ shown < written /\ main' = "refresh"
     \/ EndOfOutput /\ main' = "finish"
  /\ UNCHANGED <<failed, result, attached, child_vars, output_vars, input_vars,
                 monitor_vars, sent, columns, size_vars, child_size, waiter>>

\* A piece is shown, or the pipeline or the display fails.
Show ==
  /\ main = "show"
  /\ \/ shown' = shown + 1 /\ main' = "update"
     \/ main' = "failing" /\ UNCHANGED shown
  /\ UNCHANGED <<failed, result, attached, child_vars, written, input_vars, monitor_vars,
                 sent, columns, size_vars, child_size, waiter>>

Finish ==
  /\ main = "finish"
  /\ main' \in {"stop", "failing"}
  /\ UNCHANGED <<failed, result, attached, child_vars, output_vars, input_vars,
                 monitor_vars, sent, columns, size_vars, child_size, waiter>>

\* cancel_source
CancelSource ==
  /\ main = "failing"
  /\ asked' = Killed
  /\ main' = "abort"
  /\ UNCHANGED <<failed, result, attached, child, holders, output_vars,
                 input_vars, monitor_vars, sent, columns, size_vars, child_size, waiter>>

\* The pump's reader has ended: at the end of the output, or with a piece, after
\* the one that failed, that nobody received.
ReaderJoined == ~TerminalOpen \/ written > shown + 1

\* The pump joins its reader, and returns the error.
Abort ==
  /\ main = "abort" /\ ReaderJoined
  /\ failed' = TRUE
  /\ asked' = Killed
  /\ main' = "stop"
  /\ UNCHANGED <<result, attached, child, holders, output_vars, input_vars,
                 monitor_vars, sent, columns, size_vars, child_size, waiter>>

\* SessionControl::stop: the flag, the writer, the monitor.
Stop ==
  /\ main = "stop"
  /\ running' = FALSE
  /\ main' = "close"
  /\ UNCHANGED <<failed, result, attached, child_vars, output_vars, writer, stdin, keys,
                 monitor_vars, sent, columns, size_vars, child_size, waiter>>

CloseWriter ==
  /\ main = "close" /\ WriterUnlocked
  /\ writer' = "closed"
  /\ main' = "join"
  /\ UNCHANGED <<failed, result, attached, child_vars, output_vars, running, stdin, keys,
                 monitor_vars, sent, columns, size_vars, child_size, waiter>>

\* The threads to be joined. Mutant: the monitor ends by itself.
OnlyWaiterJoined == waiter \in {"off", "done"}
Joined == monitor \in {"off", "done"} /\ waiter \in {"off", "done"}

\* The joins, and finish_session.
JoinThreads ==
  /\ main = "join" /\ Joined
  /\ Return(failed, child)
  /\ UNCHANGED <<attached, child, holders, output_vars, input_vars, monitor_vars, sent,
                 columns, size_vars, child_size, waiter>>

Main ==
  \/ Spawn \/ EnterRawMode \/ StartMonitor \/ StartInput \/ UndoControl \/ StartWaiter
  \/ Update \/ Receive \/ Show \/ Finish \/ CancelSource \/ Abort
  \/ Stop \/ CloseWriter \/ JoinThreads

Stdin == ReadKeys \/ LockWriter \/ WriteKeys
Monitor == CheckMonitor \/ LookAtSize \/ SendSize
Waiter == Reap \/ CloseMaster

Returned == main = "returned" /\ UNCHANGED vars

Next == Environment \/ Stdin \/ Monitor \/ Waiter \/ Main \/ Returned

(* The threads are scheduled, and a child that was killed or hung up exits.*)
(* Nothing else makes a process exit, read or write, and no key need come. *)
(* The reader that is joined need not end before the output does.          *)
Fairness ==
  /\ WF_vars((main = "abort" => ~TerminalOpen) /\ Main)
  /\ WF_vars(Waiter) /\ WF_vars(Monitor)
  /\ WF_vars(LockWriter) /\ WF_vars(~TerminalOpen /\ WriteKeys)
  /\ WF_vars(asked /\ Exit)

Spec == Init /\ [][Next]_vars /\ Fairness
-----------------------------------------------------------------------------
(* A session that reports an exit status has shown all the output, of the  *)
(* child and of everything it left on its terminal, and the status is that *)
(* of the exited child (run, join_exit_waiter, finish_session).            *)
SuccessIsComplete ==
  result = "ok" => shown = written /\ ~TerminalOpen /\ child = "reaped"

(* However it ends, the session leaves no thread that could still touch    *)
(* the child's terminal, and no way to send it input (SessionControl::start*)
(* when it fails, SessionControl::stop, join_exit_waiter).                 *)
NothingOutlivesTheSession ==
  main = "returned" =>
    /\ monitor \in {"off", "done"} /\ waiter \in {"off", "done"}
    /\ stdin # "off" => writer = "closed" /\ stdin # "write"

(* A pipeline or display that fails does not leave the child running       *)
(* invisibly, nor does a session that cannot be set up (cancel_source,     *)
(* kill, the drop of the session).                                         *)
FailureEndsTheChild ==
  (main = "failing" \/ result = "error") ~> child # "running"

(* The session returns once the child has exited and nobody holds its      *)
(* terminal any more, whatever failed, although a thread may have been     *)
(* blocked writing input that nobody reads (stop, close_shared_writer).    *)
SessionReturns ==
  (child \in {"exited", "reaped"} /\ ~TerminalOpen) ~> main = "returned"

(* While the pump runs and the child lives, its terminal gets the size of  *)
(* the parent's: no change is lost, whether it came before the monitor was *)
(* started, or was refused at first (ResizeMonitor::spawn).                *)
ChildFollowsTerminal ==
  \A size \in Sizes :
    <>[](/\ terminal = size /\ attached /\ child = "running"
         /\ main \in {"update", "recv", "refresh", "show"})
      => <>[](child_size = size)

(* The pipeline renders for the size of the child's terminal, or is about  *)
(* to: the last size in the channel is the child's, however many changes   *)
(* came between two updates (the lock around resize and send,              *)
(* latest_resize).                                                         *)
ColumnsFollowTheChild ==
  monitor # "send" => child_size = IF sent = <<>> THEN columns ELSE sent[Len(sent)]
=============================================================================
