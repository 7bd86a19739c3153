----------------------- MODULE InteractiveSession_proofs -----------------------
(***************************************************************************)
(* Proofs of the three invariants of an interactive session, for any       *)
(* terminal sizes and any bounds on output, keys, resizes and refusals.    *)
(***************************************************************************)
EXTENDS InteractiveSession, TLAPS

\* How far the session thread has come.
SettingUp == {"spawn", "raw", "control", "input", "waiter", "undo"}
Pumping == {"update", "recv", "refresh", "show", "finish", "failing", "abort"}
Leaving == {"stop", "close", "join"}

\* The sizes on their way are the child's, the one about to be sent included.
SizesInv ==
  /\ terminal \in Sizes /\ previous \in Sizes /\ sent \in Seq(Sizes)
  /\ monitor = "send" => child_size = previous
  /\ ColumnsFollowTheChild

\* Which threads there are at each stage, and that the writer, once closed,
\* stays closed and unlocked.
ThreadsInv ==
  /\ main \in {"spawn", "raw", "control"} => monitor = "off"
  /\ main \in SettingUp \ {"waiter"} => stdin = "off"
  /\ main \in SettingUp => waiter = "off"
  /\ main = "join" => writer = "closed" /\ stdin # "write"
  /\ NothingOutlivesTheSession

\* What is known of the output and of the child where nothing has failed.
OutputInv ==
  /\ main = "undo" => failed
  /\ main \in Pumping => waiter # "off"
  /\ main = "finish" => shown = written /\ ~TerminalOpen
  /\ main \in Leaving /\ ~failed => shown = written /\ ~TerminalOpen /\ waiter # "off"
  /\ waiter \in {"close", "done"} => child = "reaped"
  /\ result = "ok" => main = "returned"
  /\ SuccessIsComplete

IInv == SizesInv /\ ThreadsInv /\ OutputInv

LEMMA IInvInit == Init => IInv
<1> SUFFICES ASSUME Init PROVE IInv
  OBVIOUS
<1>1. SizesInv
  BY DEF Init, SizesInv, ColumnsFollowTheChild
<1>2. ThreadsInv
  BY DEF Init, ThreadsInv, SettingUp, NothingOutlivesTheSession
<1>3. OutputInv
  BY DEF Init, OutputInv, SuccessIsComplete, Pumping, Leaving
<1> QED BY <1>1, <1>2, <1>3 DEF IInv

\* A size is sent under the lock that covers its resize, behind all others.
LEMMA SizesStep ==
  IInv /\ [Next]_vars => SizesInv'
<1> SUFFICES ASSUME IInv, [Next]_vars PROVE SizesInv'
  OBVIOUS
<1> USE DEF session_vars, child_vars, output_vars, input_vars, monitor_vars, size_vars
<1> USE DEF IInv, SizesInv, ColumnsFollowTheChild
<1>1. CASE Environment
  <2>1. CASE Write
    BY <2>1 DEF Write
  <2>2. CASE StartDescendant
    BY <2>2 DEF StartDescendant
  <2>3. CASE LeaveTerminal
    BY <2>3 DEF LeaveTerminal
  <2>4. CASE Exit
    BY <2>4 DEF Exit
  <2>5. CASE ChangeSize
    BY <2>5 DEF ChangeSize
  <2> QED
    BY <1>1, <2>1, <2>2, <2>3, <2>4, <2>5 DEF Environment
<1>2. CASE Stdin
  <2>1. CASE ReadKeys
    BY <2>1 DEF ReadKeys
  <2>2. CASE LockWriter
    BY <2>2 DEF LockWriter
  <2>3. CASE WriteKeys
    BY <2>3 DEF WriteKeys
  <2> QED
    BY <1>2, <2>1, <2>2, <2>3 DEF Stdin
<1>3. CASE Monitor
  <2>1. CASE CheckMonitor
    BY <2>1 DEF CheckMonitor
  <2>2. CASE LookAtSize
    BY <2>2 DEF LookAtSize, KeptToRetry
  <2>3. CASE SendSize
    BY <2>3 DEF SendSize
  <2> QED
    BY <1>3, <2>1, <2>2, <2>3 DEF Monitor
<1>4. CASE Waiter
  <2>1. CASE Reap
    BY <2>1 DEF Reap
  <2>2. CASE CloseMaster
    BY <2>2 DEF CloseMaster
  <2> QED
    BY <1>4, <2>1, <2>2 DEF Waiter
<1>5. CASE Main
  <2>1. CASE Spawn
    BY <2>1 DEF Spawn, Return
  <2>2. CASE EnterRawMode
    BY <2>2 DEF EnterRawMode, Return
  <2>3. CASE StartMonitor
    BY <2>3 DEF StartMonitor, Return, ThreadsInv
  <2>4. CASE StartInput
    BY <2>4 DEF StartInput
  <2>5. CASE UndoControl
    BY <2>5 DEF UndoControl, Return
  <2>6. CASE StartWaiter
    BY <2>6 DEF StartWaiter
  <2>7. CASE Update
    BY <2>7 DEF Update, LatestSize
  <2>8. CASE Receive
    BY <2>8 DEF Receive
  <2>9. CASE Show
    BY <2>9 DEF Show
  <2>10. CASE Finish
    BY <2>10 DEF Finish
  <2>11. CASE CancelSource
    BY <2>11 DEF CancelSource
  <2>12. CASE Abort
    BY <2>12 DEF Abort
  <2>13. CASE Stop
    BY <2>13 DEF Stop
  <2>14. CASE CloseWriter
    BY <2>14 DEF CloseWriter
  <2>15. CASE JoinThreads
    BY <2>15 DEF JoinThreads, Return
  <2> QED
    BY <1>5, <2>1, <2>2, <2>3, <2>4, <2>5, <2>6, <2>7, <2>8, <2>9, 
       <2>10, <2>11, <2>12, <2>13, <2>14, <2>15 DEF Main
<1>6. CASE Returned \/ UNCHANGED vars
  BY <1>6 DEF Returned, vars
<1> QED
  BY <1>1, <1>2, <1>3, <1>4, <1>5, <1>6 DEF Next

\* Every way out of the session joins the threads that were started.
LEMMA ThreadsStep ==
  IInv /\ [Next]_vars => ThreadsInv'
<1> SUFFICES ASSUME IInv, [Next]_vars PROVE ThreadsInv'
  OBVIOUS
<1> USE DEF session_vars, child_vars, output_vars, input_vars, monitor_vars, size_vars
<1> USE DEF IInv, ThreadsInv, SettingUp, NothingOutlivesTheSession
<1>1. CASE Environment
  <2>1. CASE Write
    BY <2>1 DEF Write
  <2>2. CASE StartDescendant
    BY <2>2 DEF StartDescendant
  <2>3. CASE LeaveTerminal
    BY <2>3 DEF LeaveTerminal
  <2>4. CASE Exit
    BY <2>4 DEF Exit
  <2>5. CASE ChangeSize
    BY <2>5 DEF ChangeSize
  <2> QED
    BY <1>1, <2>1, <2>2, <2>3, <2>4, <2>5 DEF Environment
<1>2. CASE Stdin
  <2>1. CASE ReadKeys
    BY <2>1 DEF ReadKeys
  <2>2. CASE LockWriter
    BY <2>2 DEF LockWriter
  <2>3. CASE WriteKeys
    BY <2>3 DEF WriteKeys, AfterWrite
  <2> QED
    BY <1>2, <2>1, <2>2, <2>3 DEF Stdin
<1>3. CASE Monitor
  <2>1. CASE CheckMonitor
    BY <2>1 DEF CheckMonitor
  <2>2. CASE LookAtSize
    BY <2>2 DEF LookAtSize
  <2>3. CASE SendSize
    BY <2>3 DEF SendSize
  <2> QED
    BY <1>3, <2>1, <2>2, <2>3 DEF Monitor
<1>4. CASE Waiter
  <2>1. CASE Reap
    BY <2>1 DEF Reap
  <2>2. CASE CloseMaster
    BY <2>2 DEF CloseMaster
  <2> QED
    BY <1>4, <2>1, <2>2 DEF Waiter
<1>5. CASE Main
  <2>1. CASE Spawn
    BY <2>1 DEF Spawn, Return
  <2>2. CASE EnterRawMode
    BY <2>2 DEF EnterRawMode, Return
  <2>3. CASE StartMonitor
    BY <2>3 DEF StartMonitor, Return
  <2>4. CASE StartInput
    BY <2>4 DEF StartInput
  <2>5. CASE UndoControl
    BY <2>5 DEF UndoControl, Return
  <2>6. CASE StartWaiter
    BY <2>6 DEF StartWaiter
  <2>7. CASE Update
    BY <2>7 DEF Update
  <2>8. CASE Receive
    BY <2>8 DEF Receive
  <2>9. CASE Show
    BY <2>9 DEF Show
  <2>10. CASE Finish
    BY <2>10 DEF Finish
  <2>11. CASE CancelSource
    BY <2>11 DEF CancelSource
  <2>12. CASE Abort
    BY <2>12 DEF Abort
  <2>13. CASE Stop
    BY <2>13 DEF Stop
  <2>14. CASE CloseWriter
    BY <2>14 DEF CloseWriter, WriterUnlocked
  <2>15. CASE JoinThreads
    BY <2>15 DEF JoinThreads, Return, Joined
  <2> QED
    BY <1>5, <2>1, <2>2, <2>3, <2>4, <2>5, <2>6, <2>7, <2>8, <2>9, 
       <2>10, <2>11, <2>12, <2>13, <2>14, <2>15 DEF Main
<1>6. CASE Returned \/ UNCHANGED vars
  BY <1>6 DEF Returned, vars
<1> QED
  BY <1>1, <1>2, <1>3, <1>4, <1>5, <1>6 DEF Next

\* The terminal, once nobody holds it, stays so, and nothing more is written.
LEMMA OutputStep ==
  IInv /\ [Next]_vars => OutputInv'
<1> SUFFICES ASSUME IInv, [Next]_vars PROVE OutputInv'
  OBVIOUS
<1> USE DEF session_vars, child_vars, output_vars, input_vars, monitor_vars, size_vars
<1> USE DEF IInv, ThreadsInv, OutputInv, SuccessIsComplete, TerminalOpen,
           SettingUp, Pumping, Leaving
<1>1. CASE Environment
  <2>1. CASE Write
    BY <2>1 DEF Write
  <2>2. CASE StartDescendant
    BY <2>2 DEF StartDescendant
  <2>3. CASE LeaveTerminal
    BY <2>3 DEF LeaveTerminal
  <2>4. CASE Exit
    BY <2>4 DEF Exit
  <2>5. CASE ChangeSize
    BY <2>5 DEF ChangeSize
  <2> QED
    BY <1>1, <2>1, <2>2, <2>3, <2>4, <2>5 DEF Environment
<1>2. CASE Stdin
  <2>1. CASE ReadKeys
    BY <2>1 DEF ReadKeys
  <2>2. CASE LockWriter
    BY <2>2 DEF LockWriter
  <2>3. CASE WriteKeys
    BY <2>3 DEF WriteKeys
  <2> QED
    BY <1>2, <2>1, <2>2, <2>3 DEF Stdin
<1>3. CASE Monitor
  <2>1. CASE CheckMonitor
    BY <2>1 DEF CheckMonitor
  <2>2. CASE LookAtSize
    BY <2>2 DEF LookAtSize
  <2>3. CASE SendSize
    BY <2>3 DEF SendSize
  <2> QED
    BY <1>3, <2>1, <2>2, <2>3 DEF Monitor
<1>4. CASE Waiter
  <2>1. CASE Reap
    BY <2>1 DEF Reap
  <2>2. CASE CloseMaster
    BY <2>2 DEF CloseMaster
  <2> QED
    BY <1>4, <2>1, <2>2 DEF Waiter
<1>5. CASE Main
  <2>1. CASE Spawn
    BY <2>1 DEF Spawn, Return
  <2>2. CASE EnterRawMode
    BY <2>2 DEF EnterRawMode, Return
  <2>3. CASE StartMonitor
    BY <2>3 DEF StartMonitor, Return
  <2>4. CASE StartInput
    BY <2>4 DEF StartInput
  <2>5. CASE UndoControl
    BY <2>5 DEF UndoControl, Return
  <2>6. CASE StartWaiter
    BY <2>6 DEF StartWaiter
  <2>7. CASE Update
    BY <2>7 DEF Update
  <2>8. CASE Receive
    BY <2>8 DEF Receive, EndOfOutput
  <2>9. CASE Show
    BY <2>9 DEF Show
  <2>10. CASE Finish
    BY <2>10 DEF Finish
  <2>11. CASE CancelSource
    BY <2>11 DEF CancelSource
  <2>12. CASE Abort
    BY <2>12 DEF Abort
  <2>13. CASE Stop
    BY <2>13 DEF Stop
  <2>14. CASE CloseWriter
    BY <2>14 DEF CloseWriter
  <2>15. CASE JoinThreads
    BY <2>15 DEF JoinThreads, Return, Joined
  <2> QED
    BY <1>5, <2>1, <2>2, <2>3, <2>4, <2>5, <2>6, <2>7, <2>8, <2>9, 
       <2>10, <2>11, <2>12, <2>13, <2>14, <2>15 DEF Main
<1>6. CASE Returned \/ UNCHANGED vars
  BY <1>6 DEF Returned, vars
<1> QED
  BY <1>1, <1>2, <1>3, <1>4, <1>5, <1>6 DEF Next

LEMMA IInvInvariant == Spec => []IInv
<1>1. IInv /\ [Next]_vars => IInv'
  BY SizesStep, ThreadsStep, OutputStep DEF IInv
<1> QED BY IInvInit, <1>1, PTL DEF Spec

(* However the threads interleave, a session that returns an exit status   *)
(* has shown everything, and the status is that of the exited child (run,  *)
(* join_exit_waiter, finish_session).                                      *)
THEOREM SuccessComplete == Spec => []SuccessIsComplete
<1>1. IInv => SuccessIsComplete
  BY DEF IInv, OutputInv
<1> QED BY IInvInvariant, <1>1, PTL

(* A session that has returned has joined the monitor and the waiter and   *)
(* closed the writer, on every path (SessionControl::start, stop, run).    *)
THEOREM NothingLeft == Spec => []NothingOutlivesTheSession
<1>1. IInv => NothingOutlivesTheSession
  BY DEF IInv, ThreadsInv
<1> QED BY IInvInvariant, <1>1, PTL

(* However many sizes are on their way, the last one the pipeline will see *)
(* is that of the child's terminal (ResizeMonitor::spawn, latest_resize).  *)
THEOREM ColumnsCurrent == Spec => []ColumnsFollowTheChild
<1>1. IInv => ColumnsFollowTheChild
  BY DEF IInv, SizesInv
<1> QED BY IInvInvariant, <1>1, PTL
=============================================================================
