----------------------------- MODULE RenderAttempt -----------------------------
(***************************************************************************)
(* One attempt of ConfiguredRenderer of src/engine.rs to render a block:   *)
(* an engine and then the presenter, each an external process supervised   *)
(* by run_process_with_deadline under one deadline. The supervisor runs on *)
(* the display thread, beside one thread for each pipe of the process; the *)
(* process may leave a descendant that holds its pipes.                    *)
(*                                                                         *)
(* Output is counted in units; what it says is of no concern here.         *)
(***************************************************************************)
EXTENDS Naturals

CONSTANTS Limit,        \* stdout_limit, in units
          MaxWritten,   \* bound: units a process writes
          Descendants   \* a process may leave a descendant behind

ASSUME AttemptAssumption ==
  /\ Limit \in Nat \ {0}
  /\ MaxWritten \in Nat
  /\ Descendants \in BOOLEAN

VARIABLES
  engine,      \* EngineChoice: "mermaid" reads its input, "math" an argument
  stage,       \* "engine" or "presenter"
  at,          \* where the supervisor stands
  process,     \* "none", "running", "succeeded", "failed" or "killed"
  descendant,  \* "none", or "alive" and holding the pipes of the process
  stdin,       \* the writer thread: "none", "writing", "accepted", "refused"
  stdout,      \* its reader: "none", "reading", "end", "overflow" or "error"
  stderr,      \* its reader: "none", "reading" or "end"
  written,     \* units written to stdout by the process and its descendant
  read,        \* units the reader has taken
  retained,    \* units it has kept
  overflowed,  \* the flag it shares with the supervisor
  expired,     \* AttemptDeadline has passed
  cancelled,   \* RenderCancellation
  outcome,     \* ProcessOutcome, or "wait_error"
  result       \* what the attempt returns

world == <<process, descendant>>
pipes == <<stdin, stdout, stderr, written, read, retained, overflowed>>
flags == <<expired, cancelled>>
attempt_vars == <<engine, stage, at, world, pipes, flags, outcome, result>>

\* Someone holds the far ends of the pipes.
PipesHeld == process = "running" \/ descendant = "alive"

AttemptInit ==
  /\ engine \in {"mermaid", "math"}
  /\ stage = "engine" /\ at = "prepare"
  /\ process = "none" /\ descendant = "none"
  /\ stdin = "none" /\ stdout = "none" /\ stderr = "none"
  /\ written = 0 /\ read = 0 /\ retained = 0 /\ overflowed = FALSE
  /\ expired = FALSE /\ cancelled = FALSE
  /\ outcome = "none" /\ result = "none"

Return(why) == at' = "returned" /\ result' = why
-----------------------------------------------------------------------------
(* Time, and the reader thread of the output pump. *)

Expire ==
  /\ ~expired
  /\ expired' = TRUE
  /\ UNCHANGED <<engine, stage, at, world, pipes, cancelled, outcome, result>>

Cancel ==
  /\ ~cancelled
  /\ cancelled' = TRUE
  /\ UNCHANGED <<engine, stage, at, world, pipes, expired, outcome, result>>
-----------------------------------------------------------------------------
(* The process and its descendant. *)

Exit ==
  /\ process = "running"
  /\ process' \in {"succeeded", "failed"}
  /\ UNCHANGED <<engine, stage, at, descendant, pipes, flags, outcome, result>>

Fork ==
  /\ Descendants
  /\ process = "running" /\ descendant = "none"
  /\ descendant' = "alive"
  /\ UNCHANGED <<engine, stage, at, process, pipes, flags, outcome, result>>

DescendantExits ==
  /\ descendant = "alive"
  /\ descendant' = "none"
  /\ UNCHANGED <<engine, stage, at, process, pipes, flags, outcome, result>>

WriteOutput ==
  /\ PipesHeld
  /\ stdout = "reading"
  /\ written < MaxWritten
  /\ written' = written + 1
  /\ UNCHANGED <<engine, stage, at, world, stdin, stdout, stderr, read, retained,
                 overflowed, flags, outcome, result>>
-----------------------------------------------------------------------------
(* The threads at the pipes. *)

\* write_all ends: all is in the pipe, or nobody will read it.
WriteInput ==
  /\ stdin = "writing"
  /\ \/ stdin' = "accepted" /\ PipesHeld
     \/ stdin' = "refused"
  /\ UNCHANGED <<engine, stage, at, world, stdout, stderr, written, read, retained,
                 overflowed, flags, outcome, result>>

\* Units that do not fit are not kept.
Kept(n) == IF retained + n <= Limit THEN retained + n ELSE Limit

\* read_capped_until_limit: one read, the probe after the limit included.
ReadOutput ==
  /\ stdout = "reading"
  /\ read < written
  /\ \E n \in 1..(written - read) :
       /\ read' = read + n
       /\ retained' = Kept(n)
       /\ overflowed' = (overflowed \/ retained + n > Limit)
       /\ stdout' = IF retained + n > Limit THEN "overflow" ELSE stdout
  /\ UNCHANGED <<engine, stage, at, world, stdin, stderr, written, flags, outcome, result>>

EndOutput ==
  /\ stdout = "reading"
  /\ \/ stdout' = "end" /\ read = written /\ ~PipesHeld
     \/ stdout' = "error"
  /\ UNCHANGED <<engine, stage, at, world, stdin, stderr, written, read, retained,
                 overflowed, flags, outcome, result>>

\* read_capped reads stderr to its end whatever its length.
EndDiagnostics ==
  /\ stderr = "reading"
  /\ ~PipesHeld
  /\ stderr' = "end"
  /\ UNCHANGED <<engine, stage, at, world, stdin, stdout, written, read, retained,
                 overflowed, flags, outcome, result>>
-----------------------------------------------------------------------------
(* The supervisor. *)

\* The checks and the scratch files before a process is run.
Prepare ==
  /\ at = "prepare"
  /\ \/ at' = "deadline" /\ UNCHANGED result
     \/ Return("unprepared")
  /\ UNCHANGED <<engine, stage, world, pipes, flags, outcome>>

\* deadline.remaining()
CheckDeadline ==
  /\ at = "deadline"
  /\ IF expired THEN Return("timeout") ELSE at' = "spawn" /\ UNCHANGED result
  /\ UNCHANGED <<engine, stage, world, pipes, flags, outcome>>

\* cancellation.is_cancelled(), then the process and its threads.
Spawn ==
  /\ at = "spawn"
  /\ \/ /\ cancelled
        /\ Return("cancelled")
        /\ UNCHANGED <<world, pipes>>
     \/ /\ ~cancelled
        /\ Return("missing")
        /\ UNCHANGED <<world, pipes>>
     \/ /\ ~cancelled
        /\ at' = "poll_cancelled"
        /\ process' = "running" /\ descendant' = "none"
        /\ stdin' = IF stage = "engine" /\ engine = "mermaid" THEN "writing" ELSE "none"
        /\ stdout' = "reading" /\ stderr' = "reading"
        /\ written' = 0 /\ read' = 0 /\ retained' = 0 /\ overflowed' = FALSE
        /\ UNCHANGED result
  /\ UNCHANGED <<engine, stage, flags, outcome>>

\* What terminate_child leaves of the process group.
\* Mutant: only the process itself is killed.
AloneKilled == descendant
GroupKilled == "none"

\* terminate_child, and the outcome it is for.
Terminate(why) ==
  /\ process' = IF process = "running" THEN "killed" ELSE process
  /\ descendant' = GroupKilled
  /\ outcome' = why
  /\ at' = "join_stdin"

\* The order of the checks in one round of wait_with_limits.
PollCancelled ==
  /\ at = "poll_cancelled"
  /\ IF cancelled THEN Terminate("cancelled")
     ELSE at' = "poll_overflow" /\ UNCHANGED <<world, outcome>>
  /\ UNCHANGED <<engine, stage, pipes, flags, result>>

PollOverflow ==
  /\ at = "poll_overflow"
  /\ IF overflowed THEN Terminate("output_limit")
     ELSE at' = "poll_exit" /\ UNCHANGED <<world, outcome>>
  /\ UNCHANGED <<engine, stage, pipes, flags, result>>

PollExit ==
  /\ at = "poll_exit"
  /\ \/ /\ process # "running"
        /\ outcome' = "exited"
        /\ at' = "join_stdin"
        /\ UNCHANGED world
     \/ /\ process = "running"
        /\ at' = "poll_deadline"
        /\ UNCHANGED <<world, outcome>>
     \/ Terminate("wait_error")
  /\ UNCHANGED <<engine, stage, pipes, flags, result>>

\* Mutant: the deadline is not looked at while the process runs.
NeverLate == FALSE
Late == expired

PollDeadline ==
  /\ at = "poll_deadline"
  /\ IF Late THEN Terminate("timed_out")
     ELSE at' = "poll_cancelled" /\ UNCHANGED <<world, outcome>>
  /\ UNCHANGED <<engine, stage, pipes, flags, result>>

\* stdin_writer, stdout_reader and stderr_reader are joined, in this order.
JoinStdin ==
  /\ at = "join_stdin"
  /\ stdin # "writing"
  /\ at' = "join_stdout"
  /\ UNCHANGED <<engine, stage, world, pipes, flags, outcome, result>>

JoinStdout ==
  /\ at = "join_stdout"
  /\ stdout # "reading"
  /\ IF stdout = "error" THEN Return("read_error")
     ELSE at' = "join_stderr" /\ UNCHANGED result
  /\ UNCHANGED <<engine, stage, world, pipes, flags, outcome>>

JoinStderr ==
  /\ at = "join_stderr"
  /\ stderr # "reading"
  /\ at' = "classify"
  /\ UNCHANGED <<engine, stage, world, pipes, flags, outcome, result>>

\* The second look at the overflow, after the exit. Mutant: there is none.
NoSecondLook == FALSE
OverflowSeen == stdout = "overflow" \/ overflowed

Failure ==
  CASE outcome = "wait_error" -> "wait_error"
    [] outcome = "timed_out" -> "timeout"
    [] outcome = "output_limit" -> "limit"
    [] outcome = "cancelled" -> "cancelled"
    [] outcome = "exited" ->
         IF OverflowSeen THEN "limit"
         ELSE IF process # "succeeded" \/ stdin = "refused" THEN "exit"
         ELSE "none"

Classify ==
  /\ at = "classify"
  /\ IF Failure = "none" THEN at' = "artifact" /\ UNCHANGED result ELSE Return(Failure)
  /\ UNCHANGED <<engine, stage, world, pipes, flags, outcome>>

\* read_file_capped and validate_svg of the engine's artifact, which the
\* presenter is then given; the presenter's own output is the artifact.
UseArtifact ==
  /\ at = "artifact"
  /\ \/ /\ stage = "engine"
        /\ stage' = "presenter" /\ at' = "prepare" /\ outcome' = "none"
        /\ UNCHANGED result
     \/ /\ stage = "engine"
        /\ Return("invalid")
        /\ UNCHANGED <<stage, outcome>>
     \/ /\ stage = "presenter"
        /\ Return(IF retained = 0 THEN "empty" ELSE "artifact")
        /\ UNCHANGED <<stage, outcome>>
  /\ UNCHANGED <<engine, world, pipes, flags>>

Supervisor ==
  \/ Prepare \/ CheckDeadline \/ Spawn
  \/ PollCancelled \/ PollOverflow \/ PollExit \/ PollDeadline
  \/ JoinStdin \/ JoinStdout \/ JoinStderr \/ Classify \/ UseArtifact

Process == Exit \/ Fork \/ DescendantExits \/ WriteOutput

Done == at = "returned" /\ UNCHANGED attempt_vars

AttemptNext ==
  \/ Expire \/ Cancel \/ Process
  \/ WriteInput \/ ReadOutput \/ EndOutput \/ EndDiagnostics
  \/ Supervisor \/ Done

(* Time passes, the supervisor is scheduled, and a thread that is at the   *)
(* end of its pipe notices. No process need exit, read or write.           *)
AttemptFairness ==
  /\ WF_attempt_vars(Expire)
  /\ WF_attempt_vars(Supervisor)
  /\ WF_attempt_vars(~PipesHeld /\ WriteInput)
  /\ WF_attempt_vars(ReadOutput)
  /\ WF_attempt_vars(~PipesHeld /\ EndOutput)
  /\ WF_attempt_vars(EndDiagnostics)

AttemptSpec == AttemptInit /\ [][AttemptNext]_attempt_vars /\ AttemptFairness
-----------------------------------------------------------------------------
(* Output is used only if it is whole: the process ended of its own accord *)
(* with success, was given all of its input, and everything it or a        *)
(* descendant wrote was kept, whichever of exit, overflow, deadline and    *)
(* cancellation the supervisor notices first (run_process_with_deadline).  *)
UsedOutputIsWhole ==
  at = "artifact" \/ result = "artifact" =>
    /\ process = "succeeded"
    /\ stdin # "refused"
    /\ retained = written
    /\ ~PipesHeld

(* An attempt that gives up on its process leaves nothing of it behind:    *)
(* neither the process nor its group, nor a thread at one of its pipes     *)
(* (terminate_child, the joins). A read error is the exception: stderr is  *)
(* not joined then.                                                        *)
NothingOutlivesTheAttempt ==
  at = "returned" /\ outcome \notin {"none", "exited"} =>
    /\ ~PipesHeld
    /\ stdin # "writing" /\ stdout # "reading"
    /\ result = "read_error" \/ stderr # "reading"

(* An attempt ends: its process is killed at the deadline at the latest.   *)
(* Only where a descendant is left alive is nothing promised: it may hold  *)
(* a pipe of a process that exited in time (wait_with_limits, the joins).  *)
AttemptEnds == []<>(at = "returned" \/ descendant = "alive")
-----------------------------------------------------------------------------
(* troubleshooting.md says that each attempt has a hard deadline: the      *)
(* attempt ends after it, whatever the processes do.                       *)
DeadlineEndsAttempt == expired ~> at = "returned"
=============================================================================
