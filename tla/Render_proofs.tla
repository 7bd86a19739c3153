----------------------------- MODULE Render_proofs -----------------------------
(***************************************************************************)
(* Proofs about rendering: one attempt (RenderAttempt), and the service    *)
(* with its cache (RenderService), each for every value of its constants;  *)
(* neither part uses the other.                                            *)
(***************************************************************************)
EXTENDS RenderAttempt, RenderService, SequenceTheorems, WellFoundedInduction, TLAPS
-----------------------------------------------------------------------------
(***************************************************************************)
(* One attempt, for any output limit, any amount of output and either kind *)
(* of process group: what is used is whole, and an attempt that gives up   *)
(* leaves nothing behind. The invariant is what each thread at a pipe      *)
(* knows of it, what each join has waited for, and why the supervisor is   *)
(* where it stands.                                                        *)
(***************************************************************************)
\* Where the supervisor stands while a process has pipes, and has been joined.
Polling == {"poll_cancelled", "poll_overflow", "poll_exit", "poll_deadline"}
Joining == {"join_stdin", "join_stdout", "join_stderr", "classify"}
StdinJoined == {"join_stdout", "join_stderr", "classify", "artifact"}
StdoutJoined == {"join_stderr", "classify", "artifact"}
StderrJoined == {"classify", "artifact"}

\* What the threads at the pipes know of them.
PipesInv ==
  /\ written \in Nat /\ read \in Nat /\ retained \in Nat
  /\ stdout \in {"none", "reading", "end", "overflow", "error"}
  /\ stdout = "end" => read = written /\ ~PipesHeld
  /\ stderr = "end" => ~PipesHeld
  /\ ~overflowed => retained = read
  /\ stderr \in {"none", "reading", "end"}

\* What each join has waited for.
JoinsInv ==
  /\ at \in Polling \cup Joining \cup {"artifact"} => stdout # "none" /\ stderr # "none"
  /\ at \in StdinJoined => stdin # "writing"
  /\ at \in StdoutJoined => stdout \notin {"reading", "error"}
  /\ at \in StderrJoined => stderr # "reading"

\* Why the attempt is where it is.
OutcomeInv ==
  /\ outcome \in {"none", "exited", "timed_out", "output_limit", "cancelled", "wait_error"}
  /\ at \in Joining => outcome # "none"
  /\ at = "artifact" => outcome = "exited"
  /\ at \in Polling \cup {"prepare", "deadline", "spawn"} => outcome = "none"
  /\ outcome \notin {"none", "exited"} => ~PipesHeld
  /\ NothingOutlivesTheAttempt

\* Used output is whole, and stays so: its pipes are closed.
Whole == /\ process = "succeeded" /\ ~PipesHeld
         /\ stdin \notin {"refused", "writing"}
         /\ stdout = "end" /\ retained = written

UsedInv ==
  /\ at = "artifact" \/ result = "artifact" => Whole
  /\ result = "artifact" => at = "returned"

AttemptInv == PipesInv /\ JoinsInv /\ OutcomeInv /\ UsedInv

\* It holds before anything is run.
LEMMA AttemptInvInit == AttemptInit => AttemptInv
  BY DEF AttemptInit, AttemptInv, PipesInv, JoinsInv, OutcomeInv, UsedInv, NothingOutlivesTheAttempt,
         PipesHeld, Polling, Joining, StdinJoined, StdoutJoined, StderrJoined

\* What can happen beside the supervisor: time, processes and pipe threads.
Beside == Expire \/ Cancel \/ Process \/ WriteInput \/ ReadOutput \/ EndOutput \/ EndDiagnostics

\* Nothing of that breaks it.
LEMMA BesideStep == AttemptInv /\ Beside => AttemptInv'
<1> SUFFICES ASSUME AttemptInv, Beside PROVE AttemptInv'
  OBVIOUS
<1> USE DEF AttemptInv, PipesInv, JoinsInv, OutcomeInv, UsedInv, Whole, NothingOutlivesTheAttempt,
            PipesHeld, world, pipes, flags
<1>1. CASE Expire \/ Cancel
  BY <1>1 DEF Expire, Cancel
<1>2. CASE Process
  <2>1. CASE Exit \/ Fork \/ DescendantExits
    BY <2>1 DEF Exit, Fork, DescendantExits
  <2>2. CASE WriteOutput
    BY <2>2 DEF WriteOutput
  <2> QED BY <1>2, <2>1, <2>2 DEF Process
<1>3. CASE WriteInput
  BY <1>3 DEF WriteInput, StdinJoined, StdoutJoined, StderrJoined
<1>4. CASE ReadOutput
  <2>1. PICK n \in 1..(written - read) :
          /\ stdout = "reading" /\ read < written
          /\ read' = read + n
          /\ retained' = Kept(n)
          /\ overflowed' = (overflowed \/ retained + n > Limit)
          /\ stdout' = IF retained + n > Limit THEN "overflow" ELSE stdout
          /\ UNCHANGED <<engine, stage, at, world, stdin, stderr, written, flags, outcome, result>>
    BY <1>4 DEF ReadOutput
  <2>2. n \in Nat /\ read' \in Nat /\ retained' \in Nat
    BY <2>1, AttemptAssumption DEF Kept
  <2>3. stdout' \in {"reading", "overflow"}
    BY <2>1
  <2>4. ~overflowed' => retained' = read'
    <3>1. SUFFICES ASSUME ~overflowed' PROVE retained' = read'
      OBVIOUS
    <3>2. ~overflowed /\ ~(retained + n > Limit)
      BY <2>1, <3>1, Zenon
    <3>3. retained' = retained + n
      BY <2>1, <2>2, <3>2, AttemptAssumption DEF Kept
    <3> QED BY <2>1, <3>2, <3>3
  <2>5. PipesInv'
    BY <2>1, <2>2, <2>3, <2>4
  <2>6. JoinsInv'
    BY <2>1, <2>3 DEF StdoutJoined
  <2>7. OutcomeInv'
    BY <2>1, <2>3
  <2>8. UsedInv'
    BY <2>1
  <2> QED BY <2>5, <2>6, <2>7, <2>8
<1>5. CASE EndOutput \/ EndDiagnostics
  BY <1>5 DEF EndOutput, EndDiagnostics, StdoutJoined, StderrJoined
<1> QED
  BY <1>1, <1>2, <1>3, <1>4, <1>5 DEF Beside

\* Nor does a step of the supervisor.
LEMMA SupervisorStep == AttemptInv /\ Supervisor => AttemptInv'
<1> SUFFICES ASSUME AttemptInv, Supervisor PROVE AttemptInv'
  OBVIOUS
<1> USE DEF AttemptInv, PipesInv, JoinsInv, OutcomeInv, UsedInv, Whole, NothingOutlivesTheAttempt,
            PipesHeld, world, pipes, flags, Return,
            Polling, Joining, StdinJoined, StdoutJoined, StderrJoined
<1>1. CASE Prepare
  BY <1>1 DEF Prepare
<1>2. CASE CheckDeadline
  BY <1>2 DEF CheckDeadline
<1>3. CASE Spawn
  BY <1>3 DEF Spawn
<1>4. CASE PollCancelled
  BY <1>4 DEF PollCancelled, Terminate, GroupKilled
<1>5. CASE PollOverflow
  BY <1>5 DEF PollOverflow, Terminate, GroupKilled
<1>6. CASE PollExit
  BY <1>6 DEF PollExit, Terminate, GroupKilled
<1>7. CASE PollDeadline
  BY <1>7 DEF PollDeadline, Terminate, GroupKilled
<1>8. CASE JoinStdin
  BY <1>8 DEF JoinStdin
<1>9. CASE JoinStdout
  BY <1>9 DEF JoinStdout
<1>10. CASE JoinStderr
  BY <1>10 DEF JoinStderr
<1>11. CASE Classify
  <2>1. Failure = "none" => /\ outcome = "exited" /\ ~OverflowSeen
                            /\ process = "succeeded" /\ stdin # "refused"
    BY <1>11 DEF Classify, Failure
  <2>2. Failure # "artifact"
    BY <1>11 DEF Classify, Failure
  <2> QED BY <1>11, <2>1, <2>2 DEF Classify, OverflowSeen
<1>12. CASE UseArtifact
  BY <1>12 DEF UseArtifact
<1> QED
  BY <1>1, <1>2, <1>3, <1>4, <1>5, <1>6, <1>7, <1>8, <1>9, <1>10, <1>11, <1>12 DEF Supervisor

\* The invariant holds throughout.
LEMMA AttemptInvariant == AttemptSpec => []AttemptInv
<1>1. AttemptInv /\ UNCHANGED attempt_vars => AttemptInv'
  BY DEF AttemptInv, PipesInv, JoinsInv, OutcomeInv, UsedInv, Whole, NothingOutlivesTheAttempt,
         PipesHeld, attempt_vars, world, pipes, flags
<1>2. AttemptInv /\ [AttemptNext]_attempt_vars => AttemptInv'
  BY <1>1, BesideStep, SupervisorStep DEF AttemptNext, Beside, Done
<1> QED BY AttemptInvInit, <1>2, PTL DEF AttemptSpec

(* Whichever of exit, overflow, deadline and cancellation the supervisor   *)
(* notices first, and however its threads interleave, output that is used  *)
(* is whole (run_process_with_deadline).                                   *)
THEOREM UsedIsWhole == AttemptSpec => []UsedOutputIsWhole
<1>1. AttemptInv => UsedOutputIsWhole
  BY DEF AttemptInv, UsedInv, Whole, UsedOutputIsWhole
<1> QED BY AttemptInvariant, <1>1, PTL

(* An attempt that gives up has killed the group of its process and joined *)
(* the threads at its pipes (terminate_child, the joins).                  *)
THEOREM NothingOutlives == AttemptSpec => []NothingOutlivesTheAttempt
<1>1. AttemptInv => NothingOutlivesTheAttempt
  BY DEF AttemptInv, OutcomeInv
<1> QED BY AttemptInvariant, <1>1, PTL
-----------------------------------------------------------------------------
(***************************************************************************)
(* What holds of the render service and its cache for all blocks, widths,  *)
(* limits and weights, in any order of renders and changes of width.       *)
(*                                                                         *)
(* The argument: WeightOf is a recursive function of which the equations   *)
(* hold (SumsExist), because a run of steps exists for any number of them  *)
(* (RunExists, from the well-foundedness of the naturals); so does the run *)
(* of evictions at the end of put (EvictsTheFewest). A cache whose bytes   *)
(* are the weight of its entries and that has one entry for each key       *)
(* (CacheOK) stays one, and put leaves the longest run of recent entries   *)
(* that fits (PutLeaves, LeavesACache). The inductive invariant ServiceInv *)
(* adds that the entries were made for their keys, and that their keys are *)
(* the last of the keys used.                                              *)
(***************************************************************************)
-----------------------------------------------------------------------------
\* Recursion over the naturals, and the sums of a sequence.

\* A set that has 0 and the successors of its numbers has them all.
LEMMA SetInduction ==
  ASSUME NEW S, 0 \in S, \A n \in Nat : n \in S => n + 1 \in S
  PROVE  Nat \subseteq S
<1> DEFINE T == Nat \ S
           R == {ss \in Nat \X Nat : ss[1] < ss[2]}
<1> SUFFICES ASSUME T # {} PROVE FALSE
  OBVIOUS
<1>1. IsWellFoundedOn(R, Nat)
  BY NatLessThanWellFounded DEF OpToRel
<1>2. PICK m \in T : \A k \in T : ~ (<<k, m>> \in R)
  <2>1. T \subseteq Nat
    OBVIOUS
  <2> HIDE DEF T, R
  <2> QED BY <1>1, <2>1, WFMin
<1>3. m \in Nat /\ m # 0
  OBVIOUS
<1>4. m - 1 \in Nat /\ m - 1 + 1 = m
  BY <1>3
<1>5. m - 1 \in T
  BY <1>4
<1>6. <<m - 1, m>> \in R
  BY <1>3, <1>4
<1> QED BY <1>2, <1>5, <1>6

\* A run of n steps, of which step[i] is the i-th.
IsRun(S, base, n, step, g) ==
  g \in [0..n -> S] /\ g[0] = base /\ \A i \in 1..n : g[i] = step[i][g[i - 1]]

\* There is one for all of them.
LEMMA RunExists ==
  ASSUME NEW S, NEW base \in S, NEW n \in Nat, NEW step \in [1..n -> [S -> S]]
  PROVE  \E g : IsRun(S, base, n, step, g)
<1> DEFINE Good(k) == \E g \in [0..k -> S] :
                        g[0] = base /\ \A i \in 1..k : g[i] = step[i][g[i - 1]]
<1>1. Good(0)
  <2> DEFINE g == [i \in 0..0 |-> base]
  <2>1. g \in [0..0 -> S] /\ g[0] = base /\ \A i \in 1..0 : g[i] = step[i][g[i - 1]]
    OBVIOUS
  <2> HIDE DEF g
  <2> QED BY <2>1
<1>2. ASSUME NEW k \in Nat, k + 1 <= n, Good(k) PROVE Good(k + 1)
  <2>1. PICK g \in [0..k -> S] : g[0] = base /\ \A i \in 1..k : g[i] = step[i][g[i - 1]]
    BY <1>2
  <2> DEFINE h == [i \in 0..(k + 1) |-> IF i <= k THEN g[i] ELSE step[k + 1][g[k]]]
  <2>2. step[k + 1][g[k]] \in S
    <3>1. k + 1 \in 1..n /\ g[k] \in S
      BY <1>2, <2>1
    <3>2. step[k + 1] \in [S -> S]
      BY <3>1
    <3> QED BY <3>1, <3>2
  <2>3. h \in [0..(k + 1) -> S]
    BY <2>1, <2>2
  <2>4. h[0] = base
    BY <2>1
  <2>5. \A i \in 1..(k + 1) : h[i] = step[i][h[i - 1]]
    <3> TAKE i \in 1..(k + 1)
    <3>1. CASE i <= k
      BY <2>1, <3>1
    <3>2. CASE i = k + 1
      BY <3>2
    <3> QED BY <3>1, <3>2
  <2> QED BY <2>3, <2>4, <2>5
<1> DEFINE T == {k \in Nat : k <= n => Good(k)}
<1> HIDE DEF Good
<1>3. 0 \in T
  BY <1>1
<1>4. \A k \in Nat : k \in T => k + 1 \in T
  BY <1>2
<1>5. Nat \subseteq T
  <2> HIDE DEF T
  <2> QED BY <1>3, <1>4, SetInduction
<1>6. Good(n)
  BY <1>5
<1> QED BY <1>6 DEF Good, IsRun
-----------------------------------------------------------------------------
\* Sequences of what has a weight.
Weighed(s) == /\ s = [i \in 1..Len(s) |-> s[i]] /\ Len(s) \in Nat
              /\ \A i \in 1..Len(s) : s[i].weight \in Nat
Sums(s, g) == /\ g \in [0..Len(s) -> Nat] /\ g[0] = 0
              /\ \A i \in 1..Len(s) : g[i] = g[i - 1] + s[i].weight

\* The recursive function WeightOf is made of is their sums.
LEMMA SumsExist ==
  ASSUME NEW s, Weighed(s)
  PROVE  \E g : Sums(s, g) /\ WeightOf(s) = g[Len(s)]
<1> DEFINE n == Len(s)
           step == [i \in 1..n |-> [x \in Nat |-> x + s[i].weight]]
           sum[i \in 0..Len(s)] == IF i = 0 THEN 0 ELSE sum[i - 1] + s[i].weight
<1>1. n \in Nat
  BY DEF Weighed
<1>2. step \in [1..n -> [Nat -> Nat]]
  BY DEF Weighed
<1>3. PICK g \in [0..n -> Nat] : g[0] = 0 /\ \A i \in 1..n : g[i] = step[i][g[i - 1]]
  <2>1. PICK N : N = Nat
    OBVIOUS
  <2>2. PICK st, zero : st = step /\ zero = 0
    OBVIOUS
  <2> HIDE DEF n, step
  <2>3. zero \in N /\ st \in [1..n -> [N -> N]]
    BY <1>2, <2>1, <2>2
  <2>4. PICK g : IsRun(N, zero, n, st, g)
    BY <1>1, <2>3, RunExists
  <2> QED BY <2>1, <2>2, <2>4 DEF IsRun
<1>4. \A i \in 1..n : g[i] = g[i - 1] + s[i].weight
  <2> TAKE i \in 1..n
  <2>1. i - 1 \in 0..n /\ g[i - 1] \in Nat
    BY <1>1, <1>3
  <2>2. step[i] = [x \in Nat |-> x + s[i].weight]
    OBVIOUS
  <2> QED BY <1>3, <2>1, <2>2
<1>5. g = [i \in 0..n |-> IF i = 0 THEN 0 ELSE g[i - 1] + s[i].weight]
  BY <1>4, <1>3, <1>1
<1>6. sum = [i \in 0..n |-> IF i = 0 THEN 0 ELSE sum[i - 1] + s[i].weight]
  BY <1>5
<1>7. WeightOf(s) = sum[Len(s)]
  BY DEF WeightOf
<1>8. sum[0] = 0 /\ \A i \in 1..n : sum[i] = sum[i - 1] + s[i].weight
  <2> HIDE DEF sum
  <2> QED BY <1>6, <1>1
<1> DEFINE Typed == {i \in Nat : i <= n => sum[i] \in Nat}
<1>9. Nat \subseteq Typed
  <2>1. 0 \in Typed
    BY <1>8
  <2>2. \A k \in Nat : k \in Typed => k + 1 \in Typed
    <3> HIDE DEF sum
    <3> TAKE k \in Nat
    <3> SUFFICES ASSUME k + 1 <= n, sum[k] \in Nat PROVE sum[k + 1] \in Nat
      OBVIOUS
    <3>1. s[k + 1].weight \in Nat /\ k + 1 \in 1..n /\ k + 1 - 1 = k
      BY <1>1 DEF Weighed
    <3>2. sum[k + 1] = sum[k] + s[k + 1].weight
      BY <1>8, <3>1
    <3> QED BY <3>1, <3>2
  <2> HIDE DEF Typed
  <2> QED BY <2>1, <2>2, SetInduction
<1>10. sum \in [0..n -> Nat]
  <2> HIDE DEF sum
  <2>1. \A i \in 0..n : sum[i] \in Nat
    BY <1>1, <1>9
  <2>2. sum = [i \in 0..n |-> sum[i]]
    BY <1>6
  <2> HIDE DEF Typed
  <2> QED BY <2>1, <2>2
<1> HIDE DEF sum
<1> QED BY <1>7, <1>8, <1>10 DEF Sums

\* There are no others.
LEMMA SumsAreOne ==
  ASSUME NEW s, Weighed(s), NEW g, Sums(s, g)
  PROVE  WeightOf(s) = g[Len(s)]
<1>1. PICK h : Sums(s, h) /\ WeightOf(s) = h[Len(s)]
  BY SumsExist
<1> DEFINE Same == {i \in Nat : i <= Len(s) => h[i] = g[i]}
<1>2. 0 \in Same
  BY <1>1 DEF Sums
<1>3. \A i \in Nat : i \in Same => i + 1 \in Same
  <2> TAKE i \in Nat
  <2> SUFFICES ASSUME i + 1 <= Len(s), h[i] = g[i] PROVE h[i + 1] = g[i + 1]
    BY DEF Weighed
  <2>1. i + 1 \in 1..Len(s) /\ i + 1 - 1 = i
    BY DEF Weighed
  <2> QED BY <1>1, <2>1 DEF Sums
<1>4. Nat \subseteq Same
  <2> HIDE DEF Same
  <2> QED BY <1>2, <1>3, SetInduction
<1> QED BY <1>1, <1>4 DEF Weighed

\* Sums never fall.
LEMMA SumsGrow ==
  ASSUME NEW s, Weighed(s), NEW g, Sums(s, g), NEW i \in 0..Len(s)
  PROVE  \A j \in i..Len(s) : g[i] <= g[j]
<1> DEFINE Above == {j \in Nat : i + j <= Len(s) => g[i] <= g[i + j]}
<1>1. 0 \in Above
  BY DEF Sums, Weighed
<1>2. \A j \in Nat : j \in Above => j + 1 \in Above
  <2> TAKE j \in Nat
  <2> SUFFICES ASSUME i + (j + 1) <= Len(s), g[i] <= g[i + j] PROVE g[i] <= g[i + (j + 1)]
    BY DEF Weighed
  <2>1. i + j + 1 \in 1..Len(s) /\ i + j + 1 - 1 = i + j /\ i + j \in 0..Len(s)
    BY DEF Weighed
  <2>2. g[i + j + 1] = g[i + j] + s[i + j + 1].weight
    BY <2>1 DEF Sums
  <2>3. s[i + j + 1].weight \in Nat /\ g[i + j] \in Nat /\ g[i] \in Nat
    BY <2>1 DEF Sums, Weighed
  <2> QED BY <2>1, <2>2, <2>3
<1>3. Nat \subseteq Above
  <2> HIDE DEF Above
  <2> QED BY <1>1, <1>2, SetInduction
<1> TAKE j \in i..Len(s)
<1>4. j - i \in Nat /\ i + (j - i) = j /\ j <= Len(s)
  BY DEF Weighed
<1>5. j - i \in Above
  BY <1>3, <1>4
<1> QED BY <1>4, <1>5

-----------------------------------------------------------------------------
\* The weight of sequences.

\* Entries have a weight.
Sized(S) == \A e \in S : e.weight \in Nat

\* So sequences of them are weighed.
LEMMA AreWeighed ==
  ASSUME NEW S, Sized(S), NEW s \in Seq(S)
  PROVE  Weighed(s)
  BY DEF Sized, Weighed

\* A sequence without its i-th element.
LEMMA RemovedAt ==
  ASSUME NEW S, NEW s \in Seq(S), NEW i \in 1..Len(s)
  PROVE  /\ RemoveAt(s, i) \in Seq(S)
         /\ Len(RemoveAt(s, i)) = Len(s) - 1
         /\ \A j \in 1..(Len(s) - 1) :
              RemoveAt(s, i)[j] = IF j < i THEN s[j] ELSE s[j + 1]
<1> DEFINE a == SubSeq(s, 1, i - 1)
           b == SubSeq(s, i + 1, Len(s))
<1>1. a \in Seq(S) /\ Len(a) = i - 1 /\ \A j \in 1..(i - 1) : a[j] = s[j]
  OBVIOUS
<1>2. b \in Seq(S) /\ Len(b) = Len(s) - i /\ \A j \in 1..(Len(s) - i) : b[j] = s[j + i]
  OBVIOUS
<1> HIDE DEF a, b
<1>3. PICK t : t = a \o b
  OBVIOUS
<1>4. /\ t \in Seq(S) /\ Len(t) = Len(a) + Len(b)
      /\ \A j \in 1..(Len(a) + Len(b)) : t[j] = IF j <= Len(a) THEN a[j] ELSE b[j - Len(a)]
  BY <1>1, <1>2, <1>3, ConcatProperties
<1>5. Len(s) \in Nat
  BY LenProperties
<1>6. Len(a) + Len(b) = Len(s) - 1
  BY <1>1, <1>2, <1>5
<1>7. ASSUME NEW j \in 1..(Len(s) - 1) PROVE t[j] = IF j < i THEN s[j] ELSE s[j + 1]
  <2>1. t[j] = IF j <= Len(a) THEN a[j] ELSE b[j - Len(a)]
    <3>1. j \in 1..(Len(a) + Len(b))
      BY <1>6
    <3> QED BY <1>4, <3>1
  <2>2. CASE j < i
    <3>1. j \in 1..(i - 1) /\ j <= Len(a)
      BY <1>1, <1>5, <2>2
    <3>2. a[j] = s[j]
      BY <1>1, <3>1
    <3> QED BY <2>1, <2>2, <3>1, <3>2
  <2>3. CASE ~(j < i)
    <3>1. /\ j - (i - 1) \in 1..(Len(s) - i) /\ j - (i - 1) + i = j + 1
          /\ ~(j <= Len(a)) /\ j - Len(a) = j - (i - 1)
      BY <1>1, <1>5, <2>3
    <3>2. b[j - (i - 1)] = s[j + 1]
      BY <1>2, <3>1
    <3> QED BY <2>1, <2>3, <3>1, <3>2
  <2> QED BY <2>2, <2>3
<1>8. RemoveAt(s, i) = t
  BY <1>3 DEF RemoveAt, a, b
<1>9. Len(t) = Len(s) - 1
  BY <1>4, <1>6
<1> QED BY <1>4, <1>7, <1>8, <1>9

\* No entries weigh nothing.
LEMMA EmptyWeight == WeightOf(<<>>) = 0
<1>1. Weighed(<<>>)
  BY DEF Weighed
<1>2. PICK g : Sums(<<>>, g) /\ WeightOf(<<>>) = g[Len(<<>>)]
  BY <1>1, SumsExist
<1> QED BY <1>2 DEF Sums

\* An entry more weighs its weight more.
LEMMA AppendedWeight ==
  ASSUME NEW S, Sized(S), NEW s \in Seq(S), NEW e \in S
  PROVE  WeightOf(Append(s, e)) = WeightOf(s) + e.weight
<1>1. PICK g : Sums(s, g) /\ WeightOf(s) = g[Len(s)]
  BY AreWeighed, SumsExist
<1>2. PICK t : t = Append(s, e)
  OBVIOUS
<1>3. t \in Seq(S) /\ Len(t) = Len(s) + 1 /\ t[Len(t)] = e
      /\ \A i \in 1..Len(s) : t[i] = s[i]
  BY <1>2
<1> DEFINE h == [i \in 0..(Len(s) + 1) |-> IF i <= Len(s) THEN g[i] ELSE g[Len(s)] + e.weight]
<1>4. Sums(t, h)
  <2>1. e.weight \in Nat /\ g \in [0..Len(s) -> Nat]
    BY <1>1 DEF Sized, Sums
  <2>2. h \in [0..Len(t) -> Nat] /\ h[0] = 0
    <3>1. Len(s) \in Nat /\ 0 \in 0..Len(s) /\ Len(s) \in 0..Len(s) /\ g[0] = 0
      BY <1>1, LenProperties DEF Sums
    <3>2. g[Len(s)] + e.weight \in Nat
      BY <2>1, <3>1
    <3>3. \A i \in 0..(Len(s) + 1) : h[i] \in Nat
      BY <2>1, <3>1, <3>2
    <3> QED BY <1>3, <3>1, <3>3
  <2>3. ASSUME NEW i \in 1..Len(t) PROVE h[i] = h[i - 1] + t[i].weight
    <3>1. CASE i <= Len(s)
      <4>1. i \in 1..Len(s) /\ h[i] = g[i] /\ h[i - 1] = g[i - 1]
        BY <1>3, <3>1
      <4> QED BY <1>1, <1>3, <4>1 DEF Sums
    <3>2. CASE i = Len(s) + 1
      <4>1. h[i] = g[Len(s)] + e.weight /\ h[i - 1] = g[Len(s)]
        BY <1>3, <3>2
      <4> QED BY <1>3, <3>2, <4>1
    <3> QED BY <1>3, <3>1, <3>2
  <2> QED BY <2>2, <2>3 DEF Sums
<1>5. WeightOf(t) = h[Len(t)]
  <2> HIDE DEF h
  <2> QED BY <1>3, <1>4, AreWeighed, SumsAreOne
<1> QED BY <1>1, <1>2, <1>3, <1>5

\* And an entry less as much less.
LEMMA RemovedWeight ==
  ASSUME NEW S, Sized(S), NEW s \in Seq(S), NEW i \in 1..Len(s)
  PROVE  /\ WeightOf(s) \in Nat /\ s[i].weight <= WeightOf(s)
         /\ WeightOf(RemoveAt(s, i)) = WeightOf(s) - s[i].weight
<1>1. PICK g : Sums(s, g) /\ WeightOf(s) = g[Len(s)]
  BY AreWeighed, SumsExist
<1>2. PICK t : t = RemoveAt(s, i)
  OBVIOUS
<1>3. /\ t \in Seq(S) /\ Len(t) = Len(s) - 1
      /\ \A j \in 1..(Len(s) - 1) : t[j] = IF j < i THEN s[j] ELSE s[j + 1]
  BY <1>2, RemovedAt
<1>4. /\ g \in [0..Len(s) -> Nat] /\ g[0] = 0 /\ Len(s) \in Nat
      /\ \A j \in 1..Len(s) : g[j] = g[j - 1] + s[j].weight
      /\ \A j \in 1..Len(s) : s[j].weight \in Nat
  BY <1>1 DEF Sums, Sized
<1>5. \A j \in i..Len(s) : g[j] >= s[i].weight
  <2>1. g[i] = g[i - 1] + s[i].weight /\ g[i - 1] \in Nat /\ g[i] \in Nat
    BY <1>4
  <2>2. \A j \in i..Len(s) : g[i] <= g[j]
    <3>1. Weighed(s) /\ i \in 0..Len(s)
      BY <1>4, AreWeighed
    <3> QED BY <1>1, <3>1, SumsGrow
  <2>3. s[i].weight <= g[i] /\ s[i].weight \in Nat
    BY <1>4, <2>1
  <2> TAKE j \in i..Len(s)
  <2>4. g[j] \in Nat
    BY <1>4
  <2> QED BY <2>1, <2>2, <2>3, <2>4
<1> DEFINE h == [j \in 0..(Len(s) - 1) |-> IF j < i THEN g[j] ELSE g[j + 1] - s[i].weight]
<1>6. Sums(t, h)
  <2>1. h \in [0..Len(t) -> Nat]
    <3>1. ASSUME NEW j \in 0..(Len(s) - 1) PROVE h[j] \in Nat
      <4>1. CASE j < i
        <5>1. g[j] \in Nat
          BY <1>4
        <5> QED BY <4>1, <5>1
      <4>2. CASE j >= i
        <5>1. j + 1 \in i..Len(s) /\ g[j + 1] \in Nat
          BY <1>4, <4>2
        <5> QED BY <1>4, <1>5, <4>2, <5>1
      <4> QED BY <4>1, <4>2
    <3> QED BY <1>3, <3>1
  <2>2. h[0] = 0
    BY <1>4
  <2>3. ASSUME NEW j \in 1..Len(t) PROVE h[j] = h[j - 1] + t[j].weight
    <3>1. j \in 1..(Len(s) - 1) /\ j + 1 \in 1..Len(s) /\ j \in 1..Len(s) /\ j + 1 - 1 = j
      BY <1>3, <1>4
    <3>2. /\ g[j + 1] = g[j] + s[j + 1].weight /\ g[j] = g[j - 1] + s[j].weight
          /\ g[j] \in Nat /\ g[j - 1] \in Nat
      <4>1. PICK k : k = j + 1
        OBVIOUS
      <4>2. k \in 1..Len(s) /\ k - 1 = j
        BY <3>1, <4>1
      <4>3. g[k] = g[k - 1] + s[k].weight
        BY <1>4, <4>2
      <4>4. g[j] = g[j - 1] + s[j].weight
        BY <1>4, <3>1
      <4>5. j \in 0..Len(s) /\ j - 1 \in 0..Len(s)
        BY <1>4, <3>1
      <4>6. g[j] \in Nat /\ g[j - 1] \in Nat
        BY <1>4, <4>5
      <4> QED BY <4>1, <4>2, <4>3, <4>4, <4>6
    <3>3. s[j].weight \in Nat /\ s[j + 1].weight \in Nat /\ s[i].weight \in Nat
      BY <1>4, <3>1
    <3>4. CASE j < i
      <4>1. h[j] = g[j] /\ h[j - 1] = g[j - 1] /\ t[j] = s[j]
        BY <1>3, <1>4, <3>1, <3>4
      <4> QED BY <3>2, <4>1
    <3>5. CASE j = i
      <4>1. h[j] = g[j + 1] - s[i].weight /\ h[j - 1] = g[j - 1] /\ t[j] = s[j + 1]
        BY <1>3, <1>4, <3>1, <3>5
      <4> HIDE DEF h
      <4>2. PICK x, y, v, w : /\ x = g[j] /\ y = g[j - 1] /\ v = s[j + 1].weight
                              /\ w = s[j].weight
        OBVIOUS
      <4>3. x \in Nat /\ y \in Nat /\ v \in Nat /\ w \in Nat /\ x = y + w
        BY <3>2, <3>3, <4>2
      <4>4. h[j] = x + v - w
        <5>1. g[j + 1] = x + v
          BY <3>2, <4>2
        <5>2. s[i].weight = w
          BY <3>5, <4>2
        <5>3. x + v \in Nat
          BY <4>3
        <5> QED BY <4>1, <4>3, <5>1, <5>2, <5>3
      <4>5. x + v - w = y + v
        BY <4>3
      <4> QED BY <4>1, <4>2, <4>4, <4>5
    <3>6. CASE j > i
      <4>1. h[j] = g[j + 1] - s[i].weight /\ h[j - 1] = g[j] - s[i].weight /\ t[j] = s[j + 1]
        <5>1. j - 1 \in 0..(Len(s) - 1) /\ j \in 0..(Len(s) - 1) /\ ~(j - 1 < i) /\ j - 1 + 1 = j
          BY <1>4, <3>1, <3>6
        <5>2. ~(j < i) /\ t[j] = s[j + 1]
          BY <1>3, <3>1, <3>6
        <5> QED BY <5>1, <5>2
      <4> HIDE DEF h
      <4> QED BY <3>2, <3>3, <4>1
    <3> QED BY <3>1, <3>4, <3>5, <3>6
  <2> QED BY <2>1, <2>2, <2>3 DEF Sums
<1>7. WeightOf(t) = h[Len(t)]
  <2> HIDE DEF h
  <2> QED BY <1>3, <1>6, AreWeighed, SumsAreOne
<1>8. h[Len(t)] = g[Len(s)] - s[i].weight
  <2>1. Len(t) \in 0..(Len(s) - 1) /\ Len(t) + 1 = Len(s)
    BY <1>3, <1>4
  <2>2. CASE Len(t) < i
    <3>1. i = Len(s) /\ Len(t) = i - 1
      BY <1>4, <2>1, <2>2
    <3>2. g[i] = g[i - 1] + s[i].weight /\ g[i - 1] \in Nat /\ s[i].weight \in Nat
      <4>1. i \in 1..Len(s) /\ i - 1 \in 0..Len(s)
        BY <1>4
      <4>2. g[i] = g[i - 1] + s[i].weight /\ s[i].weight \in Nat
        BY <1>4, <4>1
      <4>3. g[i - 1] \in Nat
        BY <1>4, <4>1
      <4> QED BY <4>2, <4>3
    <3> QED BY <2>1, <2>2, <3>1, <3>2
  <2>3. CASE ~(Len(t) < i)
    BY <2>1, <2>3
  <2> QED BY <2>2, <2>3
<1>9. g[Len(s)] \in Nat /\ s[i].weight <= g[Len(s)]
  BY <1>4, <1>5
<1> QED BY <1>1, <1>2, <1>7, <1>8, <1>9

\* The entries from k + 1 on.
From(s, k) == SubSeq(s, k + 1, Len(s))

\* The elements of an end of a sequence.
LEMMA FromIs ==
  ASSUME NEW S, NEW s \in Seq(S), NEW k \in 0..Len(s)
  PROVE  /\ From(s, k) \in Seq(S) /\ Len(From(s, k)) = Len(s) - k
         /\ \A j \in 1..(Len(s) - k) : From(s, k)[j] = s[j + k]
  BY DEF From

\* A shorter end is the tail of the longer.
LEMMA FromTail ==
  ASSUME NEW S, NEW s \in Seq(S), NEW k \in 0..Len(s), k < Len(s)
  PROVE  /\ From(s, k) # <<>> /\ Head(From(s, k)) = s[k + 1]
         /\ Tail(From(s, k)) = From(s, k + 1)
<1>1. PICK t : t = From(s, k)
  OBVIOUS
<1>2. PICK u : u = From(s, k + 1)
  OBVIOUS
<1>3. t \in Seq(S) /\ Len(t) = Len(s) - k /\ \A j \in 1..(Len(s) - k) : t[j] = s[j + k]
  BY <1>1, FromIs
<1>4. k + 1 \in 0..Len(s)
  BY LenProperties
<1>5. /\ u \in Seq(S) /\ Len(u) = Len(s) - (k + 1)
      /\ \A j \in 1..(Len(s) - (k + 1)) : u[j] = s[j + (k + 1)]
  BY <1>4, <1>2, FromIs
<1>6. t # <<>> /\ Head(t) = s[k + 1]
  BY <1>3
<1>7. Tail(t) = u
  <2>1. Tail(t) \in Seq(S) /\ Len(Tail(t)) = Len(u)
    BY <1>3, <1>5
  <2>2. \A j \in 1..Len(u) : Tail(t)[j] = u[j]
    BY <1>3, <1>5
  <2> QED BY <1>5, <2>1, <2>2
<1> QED BY <1>1, <1>2, <1>6, <1>7

\* And weighs less by the weight of the entry it lacks.
LEMMA FromWeight ==
  ASSUME NEW S, Sized(S), NEW s \in Seq(S)
  PROVE  /\ WeightOf(From(s, 0)) = WeightOf(s)
         /\ \A k \in 0..Len(s) : WeightOf(From(s, k)) \in Nat
         /\ \A k \in 0..Len(s) : k < Len(s) =>
              /\ s[k + 1].weight <= WeightOf(From(s, k))
              /\ WeightOf(From(s, k + 1)) = WeightOf(From(s, k)) - s[k + 1].weight
<1>1. From(s, 0) = s
  BY DEF From
<1>2. ASSUME NEW k \in 0..Len(s) PROVE WeightOf(From(s, k)) \in Nat
  <2>1. PICK t : t = From(s, k)
    OBVIOUS
  <2>2. t \in Seq(S)
    BY <2>1, FromIs
  <2>3. PICK g : Sums(t, g) /\ WeightOf(t) = g[Len(t)]
    BY <2>2, AreWeighed, SumsExist
  <2> QED BY <2>1, <2>2, <2>3 DEF Sums
<1>3. ASSUME NEW k \in 0..Len(s), k < Len(s)
      PROVE  /\ s[k + 1].weight <= WeightOf(From(s, k))
             /\ WeightOf(From(s, k + 1)) = WeightOf(From(s, k)) - s[k + 1].weight
  <2>1. PICK t : t = From(s, k)
    OBVIOUS
  <2>2. t \in Seq(S) /\ 1 \in 1..Len(t) /\ t[1] = s[k + 1]
    BY <1>3, <2>1, FromIs
  <2>3. /\ t[1].weight <= WeightOf(t)
        /\ WeightOf(RemoveAt(t, 1)) = WeightOf(t) - t[1].weight
    BY <2>2, RemovedWeight
  <2>4. RemoveAt(t, 1) = Tail(t)
    BY <2>2 DEF RemoveAt
  <2>5. Tail(t) = From(s, k + 1)
    BY <1>3, <2>1, FromTail
  <2> QED BY <2>1, <2>2, <2>3, <2>4, <2>5
<1> QED BY <1>1, <1>2, <1>3

-----------------------------------------------------------------------------
\* The evictions at the end of put.

\* A cache that has lost its k oldest entries, well accounted.
Dropped(c, k) ==
  [max_entries |-> c.max_entries, max_bytes |-> c.max_bytes,
   entries |-> From(c.entries, k), bytes |-> WeightOf(From(c.entries, k))]
\* A round of the loop.
Round(c) == IF OverBounds(c) THEN EvictOldest(c) ELSE c

\* A round drops the oldest entry that is left.
LEMMA KeptIsEvicted ==
  ASSUME NEW S, Sized(S), NEW c, c.entries \in Seq(S), NEW k \in 0..Len(c.entries)
  PROVE  EvictOldest(Dropped(c, k)) = IF k < Len(c.entries) THEN Dropped(c, k + 1) ELSE Dropped(c, k)
<1> DEFINE s == c.entries
<1>1. PICK t, w : t = From(s, k) /\ w = WeightOf(From(s, k))
  OBVIOUS
<1>2. t \in Seq(S) /\ Len(t) = Len(s) - k /\ Len(s) \in Nat
  BY <1>1, FromIs, LenProperties
<1>3. PICK d : d = Dropped(c, k)
  OBVIOUS
<1>4. d = [max_entries |-> c.max_entries, max_bytes |-> c.max_bytes, entries |-> t, bytes |-> w]
  BY <1>1, <1>3 DEF Dropped
<1>5. CASE k < Len(s)
  <2>1. t # <<>> /\ Head(t) = s[k + 1] /\ Tail(t) = From(s, k + 1)
    BY <1>1, <1>5, FromTail
  <2>2. s[k + 1].weight <= w /\ WeightOf(From(s, k + 1)) = w - s[k + 1].weight /\ w \in Nat
    BY <1>1, <1>5, FromWeight
  <2>3. s[k + 1].weight \in Nat
    BY <1>2, <1>5, ElementOfSeq DEF Sized
  <2>4. SaturatingSub(w, Head(t).weight) = WeightOf(From(s, k + 1))
    BY <2>1, <2>2, <2>3 DEF SaturatingSub
  <2>5. EvictOldest(d) = [d EXCEPT !.entries = Tail(t), !.bytes = SaturatingSub(w, Head(t).weight)]
    BY <1>4, <2>1 DEF EvictOldest
  <2>6. EvictOldest(d) = [max_entries |-> c.max_entries, max_bytes |-> c.max_bytes,
                          entries |-> Tail(t), bytes |-> SaturatingSub(w, Head(t).weight)]
    BY <1>4, <2>5
  <2> QED BY <1>3, <1>5, <2>1, <2>4, <2>6 DEF Dropped
<1>6. CASE ~(k < Len(s))
  <2>1. t = <<>>
    <3>1. Len(t) = 0
      BY <1>2, <1>6
    <3> QED BY <1>2, <3>1, EmptySeq
  <2> QED BY <1>3, <1>4, <1>6, <2>1 DEF EvictOldest
<1> QED BY <1>5, <1>6

\* The loop drops the oldest entries until the rest is within the bounds, and
\* no more.
LEMMA EvictsTheFewest ==
  ASSUME NEW S, Sized(S), NEW c, c = Dropped(c, 0), c.entries \in Seq(S),
         c.max_entries \in Nat, c.max_bytes \in Nat
  PROVE  \E k \in 0..Len(c.entries) :
           /\ EvictWhileOver(c) = Dropped(c, k)
           /\ ~OverBounds(Dropped(c, k))
           /\ \A j \in 0..(k - 1) : OverBounds(Dropped(c, j))
<1> DEFINE n == Len(c.entries)
           C == {Dropped(c, k) : k \in 0..n}
           turn == [i \in 1..n |-> [x \in C |-> Round(x)]]
           round[i \in 0..Len(c.entries)] ==
             IF i = 0 THEN c
             ELSE IF OverBounds(round[i - 1]) THEN EvictOldest(round[i - 1]) ELSE round[i - 1]
<1>1. n \in Nat
  BY LenProperties
<1>2. \A x \in C : Round(x) \in C
  <2> TAKE x \in C
  <2>1. PICK k \in 0..n : x = Dropped(c, k)
    OBVIOUS
  <2>2. EvictOldest(x) = IF k < n THEN Dropped(c, k + 1) ELSE Dropped(c, k)
    BY <2>1, KeptIsEvicted
  <2>3. k < n => k + 1 \in 0..n
    BY <1>1
  <2>4. EvictOldest(x) \in C
    BY <2>2, <2>3
  <2> QED BY <2>4 DEF Round
<1>3. c \in C
  BY <1>1
<1>4. PICK g \in [0..n -> C] : g[0] = c /\ \A i \in 1..n : g[i] = Round(g[i - 1])
  <2>1. turn \in [1..n -> [C -> C]]
    BY <1>2
  <2> HIDE DEF n, C, turn, round
  <2>2. PICK g \in [0..n -> C] : g[0] = c /\ \A i \in 1..n : g[i] = turn[i][g[i - 1]]
    <3>1. PICK g : IsRun(C, c, n, turn, g)
      BY <1>1, <1>3, <2>1, RunExists
    <3> QED BY <3>1 DEF IsRun
  <2>3. ASSUME NEW i \in 1..n PROVE g[i] = Round(g[i - 1])
    <3>1. i - 1 \in 0..n /\ g[i - 1] \in C
      BY <1>1, <2>2
    <3>2. turn[i] = [x \in C |-> Round(x)]
      BY DEF turn
    <3> QED BY <2>2, <3>1, <3>2
  <2> QED BY <2>2, <2>3
<1>5. g = [i \in 0..n |-> IF i = 0 THEN c ELSE Round(g[i - 1])]
  <2> HIDE DEF C
  <2> QED BY <1>1, <1>4
<1>6. round = [i \in 0..n |-> IF i = 0 THEN c ELSE Round(round[i - 1])]
  BY <1>5 DEF Round
<1>7. EvictWhileOver(c) = round[n]
  BY DEF EvictWhileOver
<1> HIDE DEF round
<1>8. round[0] = c /\ \A i \in 1..n : round[i] = Round(round[i - 1])
  <2>1. PICK r, m : r = round /\ m = n
    OBVIOUS
  <2>2. m \in Nat /\ r = [i \in 0..m |-> IF i = 0 THEN c ELSE Round(r[i - 1])]
    BY <1>1, <1>6, <2>1
  <2>3. r[0] = c
    BY <2>2
  <2>4. \A i \in 1..m : r[i] = Round(r[i - 1])
    BY <2>2
  <2> QED BY <2>1, <2>3, <2>4
<1> DEFINE Fewest(i, k) == /\ round[i] = Dropped(c, k)
                           /\ k = i \/ ~OverBounds(Dropped(c, k))
                           /\ \A j \in 0..(k - 1) : OverBounds(Dropped(c, j))
           Good == {i \in Nat : i <= n => \E k \in 0..i : Fewest(i, k)}
<1>9. 0 \in Good
  <2>1. Fewest(0, 0)
    BY <1>8
  <2> HIDE DEF Fewest
  <2> QED BY <2>1
<1>10. ASSUME NEW i \in Nat, i + 1 <= n, NEW k \in 0..i, Fewest(i, k)
       PROVE  \E l \in 0..(i + 1) : Fewest(i + 1, l)
  <2>1. round[i + 1] = Round(Dropped(c, k))
    <3>1. i + 1 \in 1..n /\ i + 1 - 1 = i
      BY <1>1, <1>10
    <3> QED BY <1>8, <1>10, <3>1
  <2>2. CASE ~OverBounds(Dropped(c, k))
    <3>1. Fewest(i + 1, k)
      BY <1>10, <2>1, <2>2 DEF Round
    <3>2. k \in 0..(i + 1)
      OBVIOUS
    <3> HIDE DEF Fewest
    <3> QED BY <3>1, <3>2
  <2>3. CASE OverBounds(Dropped(c, k))
    <3>1. k = i /\ k < n /\ k \in 0..n
      BY <1>1, <1>10, <2>3
    <3>2. EvictOldest(Dropped(c, k)) = Dropped(c, k + 1)
      BY <1>1, <3>1, KeptIsEvicted
    <3>3. round[i + 1] = Dropped(c, i + 1)
      BY <2>1, <2>3, <3>1, <3>2 DEF Round
    <3>4. \A j \in 0..(i + 1 - 1) : OverBounds(Dropped(c, j))
      <4> TAKE j \in 0..(i + 1 - 1)
      <4>1. j = k \/ j \in 0..(k - 1)
        BY <3>1
      <4> QED BY <1>10, <2>3, <4>1
    <3>5. Fewest(i + 1, i + 1)
      BY <3>3, <3>4
    <3> HIDE DEF Fewest
    <3> QED BY <3>5
  <2> QED BY <2>2, <2>3
<1>11. Nat \subseteq Good
  <2>1. \A i \in Nat : i \in Good => i + 1 \in Good
    <3> HIDE DEF Fewest
    <3> TAKE i \in Nat
    <3> SUFFICES ASSUME i \in Good, i + 1 <= n PROVE \E l \in 0..(i + 1) : Fewest(i + 1, l)
      OBVIOUS
    <3>1. PICK k \in 0..i : Fewest(i, k)
      BY <1>1
    <3> QED BY <1>10, <3>1
  <2> HIDE DEF Good
  <2> QED BY <1>9, <2>1, SetInduction
<1>12. PICK k \in 0..n : Fewest(n, k)
  <2> HIDE DEF Fewest
  <2>1. n \in Good /\ n <= n
    BY <1>1, <1>11
  <2> QED BY <2>1
<1>13. k = n => ~OverBounds(Dropped(c, k))
  <2> SUFFICES ASSUME k = n PROVE ~OverBounds(Dropped(c, n))
    OBVIOUS
  <2>1. PICK t : t = From(c.entries, n)
    OBVIOUS
  <2>2. t \in Seq(S) /\ Len(t) = 0
    BY <1>1, <2>1, FromIs
  <2>3. t = <<>>
    BY <2>2, EmptySeq
  <2>4. WeightOf(t) = 0
    BY <2>3, EmptyWeight
  <2>5. Dropped(c, n).entries = t /\ Dropped(c, n).bytes = 0 /\ Dropped(c, n).max_entries = c.max_entries
        /\ Dropped(c, n).max_bytes = c.max_bytes
    BY <2>1, <2>4 DEF Dropped
  <2> QED BY <2>2, <2>5 DEF OverBounds
<1> QED BY <1>7, <1>12, <1>13

-----------------------------------------------------------------------------
\* A cache, and its entries without one key.

\* No key twice; not this key.
OneOfEach(s) == \A i, j \in DOMAIN s : s[i].key = s[j].key => i = j
NoneOf(s, key) == \A i \in DOMAIN s : s[i].key # key

\* A cache whose count is that of its entries.
CacheOK(S, c) ==
  /\ c = [max_entries |-> c.max_entries, max_bytes |-> c.max_bytes,
          entries |-> c.entries, bytes |-> c.bytes]
  /\ c.max_entries \in Nat /\ c.max_bytes \in Nat
  /\ c.entries \in Seq(S)
  /\ OneOfEach(c.entries)
  /\ c.bytes = WeightOf(c.entries)

\* What is there when the entry of a key has been taken out.
Popped(s, key, t) ==
  \/ NoneOf(s, key) /\ t = s
  \/ \E i \in 1..Len(s) : s[i].key = key /\ t = RemoveAt(s, i)

\* A cached key has a place.
LEMMA PlaceIs ==
  ASSUME NEW S, NEW c, c.entries \in Seq(S), NEW key, Cached(c, key)
  PROVE  /\ PlaceOf(c, key) \in 1..Len(c.entries)
         /\ c.entries[PlaceOf(c, key)].key = key
<1>1. \E i \in 1..Len(c.entries) : c.entries[i].key = key
  BY LenProperties DEF Cached
<1>2. DOMAIN c.entries = 1..Len(c.entries)
  BY LenProperties
<1> QED BY <1>1, <1>2 DEF PlaceOf

\* pop takes the entry of the key out, with its weight.
LEMMA PopIs ==
  ASSUME NEW S, Sized(S), NEW c, CacheOK(S, c), NEW key
  PROVE  \E t \in Seq(S) : /\ Popped(c.entries, key, t)
                           /\ Pop(c, key) = [max_entries |-> c.max_entries,
                                             max_bytes |-> c.max_bytes,
                                             entries |-> t, bytes |-> WeightOf(t)]
<1> DEFINE s == c.entries
<1>1. /\ s \in Seq(S) /\ c.bytes = WeightOf(s)
      /\ c = [max_entries |-> c.max_entries, max_bytes |-> c.max_bytes,
              entries |-> s, bytes |-> c.bytes]
  BY DEF CacheOK
<1>2. CASE ~Cached(c, key)
  <2>1. NoneOf(s, key)
    BY <1>2 DEF Cached, NoneOf
  <2>2. Pop(c, key) = c
    BY <1>2 DEF Pop
  <2> QED BY <1>1, <2>1, <2>2 DEF Popped
<1>3. CASE Cached(c, key)
  <2>1. PICK i : i = PlaceOf(c, key)
    OBVIOUS
  <2>2. i \in 1..Len(s) /\ s[i].key = key
    BY <1>1, <1>3, <2>1, PlaceIs
  <2>3. PICK t : t = RemoveAt(s, i)
    OBVIOUS
  <2>4. t \in Seq(S)
    BY <1>1, <2>2, <2>3, RemovedAt
  <2>5. /\ WeightOf(s) \in Nat /\ s[i].weight <= WeightOf(s)
        /\ WeightOf(t) = WeightOf(s) - s[i].weight
    BY <1>1, <2>2, <2>3, RemovedWeight
  <2>6. s[i].weight \in Nat
    BY <1>1, <2>2, ElementOfSeq DEF Sized
  <2>7. SaturatingSub(c.bytes, s[i].weight) = WeightOf(t)
    BY <1>1, <2>5, <2>6 DEF SaturatingSub
  <2>8. Pop(c, key) = [c EXCEPT !.entries = t, !.bytes = WeightOf(t)]
    BY <1>3, <2>1, <2>3, <2>7 DEF Pop, Without, EntryOf
  <2>9. Pop(c, key) = [max_entries |-> c.max_entries, max_bytes |-> c.max_bytes,
                       entries |-> t, bytes |-> WeightOf(t)]
    BY <1>1, <2>8
  <2>10. Popped(s, key, t)
    BY <2>2, <2>3 DEF Popped
  <2> QED BY <2>4, <2>9, <2>10
<1> QED BY <1>2, <1>3

\* Then the key is in no entry.
LEMMA PoppedIs ==
  ASSUME NEW S, NEW s \in Seq(S), OneOfEach(s), NEW key, NEW t, Popped(s, key, t)
  PROVE  t \in Seq(S) /\ OneOfEach(t) /\ NoneOf(t, key) /\ Len(t) <= Len(s)
<1>1. CASE NoneOf(s, key) /\ t = s
  BY <1>1, LenProperties
<1>2. CASE \E i \in 1..Len(s) : s[i].key = key /\ t = RemoveAt(s, i)
  <2>1. PICK i \in 1..Len(s) : s[i].key = key /\ t = RemoveAt(s, i)
    BY <1>2
  <2>2. /\ t \in Seq(S) /\ Len(t) = Len(s) - 1 /\ Len(s) \in Nat
        /\ \A j \in 1..(Len(s) - 1) : t[j] = IF j < i THEN s[j] ELSE s[j + 1]
    BY <2>1, RemovedAt, LenProperties
  <2>3. DOMAIN s = 1..Len(s) /\ DOMAIN t = 1..(Len(s) - 1)
    BY <2>2, LenProperties
  <2> DEFINE from(j) == IF j < i THEN j ELSE j + 1
  <2>4. ASSUME NEW j \in DOMAIN t
        PROVE  t[j] = s[from(j)] /\ from(j) \in DOMAIN s /\ from(j) # i
    <3>1. j \in 1..(Len(s) - 1)
      BY <2>3
    <3> QED BY <2>2, <2>3, <3>1
  <2>5. \A j, k \in DOMAIN t : from(j) = from(k) => j = k
    BY <2>2, <2>3
  <2> HIDE DEF from
  <2>6. OneOfEach(t)
    BY <2>4, <2>5 DEF OneOfEach
  <2>7. NoneOf(t, key)
    BY <2>1, <2>3, <2>4 DEF OneOfEach, NoneOf
  <2> QED BY <2>2, <2>6, <2>7
<1> QED BY <1>1, <1>2 DEF Popped

\* And an entry for it may be added.
LEMMA AppendedIs ==
  ASSUME NEW S, NEW t \in Seq(S), OneOfEach(t), NEW e \in S, NoneOf(t, e.key)
  PROVE  /\ Append(t, e) \in Seq(S) /\ OneOfEach(Append(t, e))
         /\ Len(Append(t, e)) = Len(t) + 1 /\ Append(t, e)[Len(t) + 1] = e
<1>1. PICK u : u = Append(t, e)
  OBVIOUS
<1>2. /\ u \in Seq(S) /\ Len(u) = Len(t) + 1 /\ u[Len(t) + 1] = e
      /\ \A i \in 1..Len(t) : u[i] = t[i]
  BY <1>1, AppendProperties
<1>3. DOMAIN u = 1..Len(u) /\ DOMAIN t = 1..Len(t) /\ Len(t) \in Nat
  BY <1>2, LenProperties
<1>4. ASSUME NEW i \in DOMAIN u, NEW j \in DOMAIN u, u[i].key = u[j].key PROVE i = j
  <2>1. (i \in DOMAIN t \/ i = Len(t) + 1) /\ (j \in DOMAIN t \/ j = Len(t) + 1)
    BY <1>2, <1>3
  <2>2. CASE i \in DOMAIN t /\ j \in DOMAIN t
    <3>1. u[i] = t[i] /\ u[j] = t[j]
      BY <1>2, <1>3, <2>2
    <3> QED BY <1>4, <2>2, <3>1 DEF OneOfEach
  <2>3. CASE i \in DOMAIN t /\ j = Len(t) + 1
    <3>1. u[i] = t[i] /\ u[j] = e
      BY <1>2, <1>3, <2>3
    <3> QED BY <1>4, <2>3, <3>1 DEF NoneOf
  <2>4. CASE i = Len(t) + 1 /\ j \in DOMAIN t
    <3>1. u[i] = e /\ u[j] = t[j]
      BY <1>2, <1>3, <2>4
    <3> QED BY <1>4, <2>4, <3>1 DEF NoneOf
  <2> QED BY <2>1, <2>2, <2>3, <2>4
<1>5. OneOfEach(u)
  BY <1>4 DEF OneOfEach
<1> QED BY <1>1, <1>2, <1>5

-----------------------------------------------------------------------------
\* What put leaves.

\* A cache with these entries.
With(c, s) == [max_entries |-> c.max_entries, max_bytes |-> c.max_bytes,
               entries |-> s, bytes |-> WeightOf(s)]

\* What put leaves: of the entries without the key's, and the new one at the
\* end, the longest run to the end that is within the bounds.
Leaves(S, c, key, entry, after, t, k) ==
  /\ t \in Seq(S) /\ Popped(c.entries, key, t) /\ Pop(c, key).entries = t
  /\ k \in 0..Len(t)
  /\ after = With(c, From(Append(t, entry), k))
  /\ ~OverBounds(after)
  /\ \A j \in 0..(k - 1) : OverBounds(With(c, From(Append(t, entry), j)))

\* The new entry alone is within the bounds, if it was admitted.
LEMMA LastFits ==
  ASSUME NEW S, Sized(S), NEW c, c.max_entries \in Nat, c.max_bytes \in Nat,
         NEW s \in Seq(S), NEW n \in Nat, Len(s) = n + 1,
         c.max_entries # 0, s[n + 1].weight <= c.max_bytes
  PROVE  ~OverBounds(With(c, From(s, n)))
<1>1. PICK u : u = From(s, n)
  OBVIOUS
<1>2. u \in Seq(S) /\ Len(u) = 1 /\ u[1] = s[n + 1]
  <2>1. n \in 0..Len(s) /\ Len(s) - n = 1 /\ 1 + n = n + 1
    OBVIOUS
  <2>2. u \in Seq(S) /\ Len(u) = Len(s) - n /\ \A j \in 1..(Len(s) - n) : u[j] = s[j + n]
    BY <1>1, <2>1, FromIs
  <2>3. 1 \in 1..(Len(s) - n)
    BY <2>1
  <2> QED BY <2>1, <2>2, <2>3
<1>3. n \in 0..Len(s) /\ n < Len(s)
  OBVIOUS
<1>4. WeightOf(u) \in Nat /\ WeightOf(From(s, n + 1)) = WeightOf(u) - s[n + 1].weight
  BY <1>1, <1>3, FromWeight
<1>5. WeightOf(From(s, n + 1)) = 0
  <2>1. PICK v : v = From(s, n + 1)
    OBVIOUS
  <2>2. v \in Seq(S) /\ Len(v) = 0
    <3>1. n + 1 \in 0..Len(s)
      OBVIOUS
    <3> QED BY <2>1, <3>1, FromIs
  <2>3. v = <<>>
    BY <2>2, EmptySeq
  <2> QED BY <2>1, <2>3, EmptyWeight
<1>6. s[n + 1].weight \in Nat
  BY ElementOfSeq DEF Sized
<1>7. WeightOf(u) = s[n + 1].weight
  BY <1>4, <1>5, <1>6
<1>8. PICK d : d = With(c, u)
  OBVIOUS
<1>9. d.entries = u /\ d.bytes = WeightOf(u) /\ d.max_entries = c.max_entries
      /\ d.max_bytes = c.max_bytes
  BY <1>8 DEF With
<1>10. ~(Len(u) > c.max_entries) /\ ~(WeightOf(u) > c.max_bytes)
  BY <1>2, <1>6, <1>7
<1> QED BY <1>1, <1>8, <1>9, <1>10 DEF OverBounds

\* put is all of this, for an entry that is admitted.
LEMMA PutLeaves ==
  ASSUME NEW S, Sized(S), NEW c, CacheOK(S, c), NEW key, NEW bytes, NEW entry \in S,
         entry = [key |-> key, bytes |-> bytes, weight |-> EntryWeight(key, bytes)],
         Admitted(c, EntryWeight(key, bytes))
  PROVE  \E t, k : Leaves(S, c, key, entry, Put(c, key, bytes), t, k)
<1> DEFINE weight == EntryWeight(key, bytes)
<1>1. PICK t \in Seq(S) : /\ Popped(c.entries, key, t)
                          /\ Pop(c, key) = With(c, t)
  BY PopIs DEF With
<1>2. c.max_entries \in Nat /\ c.max_bytes \in Nat /\ c.entries \in Seq(S) /\ OneOfEach(c.entries)
  BY DEF CacheOK
<1>3. PICK p : p = Pop(c, key)
  OBVIOUS
<1>4. p.entries = t /\ p.bytes = WeightOf(t)
      /\ p = [max_entries |-> c.max_entries, max_bytes |-> c.max_bytes,
              entries |-> t, bytes |-> WeightOf(t)]
  BY <1>1, <1>3 DEF With
<1>5. PICK s : s = Append(t, entry)
  OBVIOUS
<1>6. s \in Seq(S) /\ Len(s) = Len(t) + 1 /\ s[Len(t) + 1] = entry /\ Len(t) \in Nat
  BY <1>1, <1>5, AppendProperties, LenProperties
<1>7. WeightOf(s) = WeightOf(t) + entry.weight
  BY <1>1, <1>5, AppendedWeight
<1>8. entry.weight = weight
  OBVIOUS
<1>9. PICK full : full = With(c, s)
  OBVIOUS
<1>10. Put(c, key, bytes) = EvictWhileOver(full)
  <2>1. [p EXCEPT !.entries = Append(p.entries, entry), !.bytes = p.bytes + weight] = full
    <3>1. Append(p.entries, entry) = s /\ p.bytes + weight = WeightOf(s)
      BY <1>4, <1>5, <1>7, <1>8
    <3>2. [p EXCEPT !.entries = s, !.bytes = WeightOf(s)]
            = [max_entries |-> c.max_entries, max_bytes |-> c.max_bytes,
               entries |-> s, bytes |-> WeightOf(s)]
      <4>1. /\ p = [max_entries |-> p.max_entries, max_bytes |-> p.max_bytes,
                     entries |-> p.entries, bytes |-> p.bytes]
            /\ p.max_entries = c.max_entries /\ p.max_bytes = c.max_bytes
        BY <1>4
      <4>2. PICK r, w : w = WeightOf(s) /\ r = [p EXCEPT !.entries = s, !.bytes = w]
        OBVIOUS
      <4>3. r = [max_entries |-> p.max_entries, max_bytes |-> p.max_bytes,
                 entries |-> s, bytes |-> w]
        BY <4>1, <4>2
      <4> QED BY <4>1, <4>2, <4>3
    <3> QED BY <1>9, <3>1, <3>2 DEF With
  <2>2. Put(c, key, bytes)
          = EvictWhileOver([p EXCEPT !.entries = Append(p.entries, entry), !.bytes = p.bytes + weight])
    BY <1>3 DEF Put
  <2> QED BY <2>1, <2>2
<1>11. full.entries = s /\ full.max_entries = c.max_entries /\ full.max_bytes = c.max_bytes
  BY <1>9 DEF With
<1>12. \A k : Dropped(full, k) = With(c, From(s, k))
  BY <1>11 DEF Dropped, With
<1>13. full = Dropped(full, 0)
  <2>1. From(s, 0) = s
    BY <1>6, SubSeqFull DEF From
  <2> QED BY <1>9, <1>12, <2>1
<1>14. PICK k \in 0..Len(s) : /\ EvictWhileOver(full) = Dropped(full, k)
                              /\ ~OverBounds(Dropped(full, k))
                              /\ \A j \in 0..(k - 1) : OverBounds(Dropped(full, j))
  BY <1>2, <1>6, <1>11, <1>13, EvictsTheFewest
<1>15. k \in 0..Len(t)
  <2>1. ~OverBounds(With(c, From(s, Len(t))))
    <3>1. c.max_entries # 0 /\ s[Len(t) + 1].weight <= c.max_bytes
      BY <1>6, <1>8 DEF Admitted
    <3> QED BY <1>2, <1>6, <3>1, LastFits
  <2>2. k # Len(t) + 1
    <3> SUFFICES ASSUME k = Len(t) + 1 PROVE FALSE
      OBVIOUS
    <3>1. Len(t) \in 0..(k - 1)
      BY <1>6
    <3> QED BY <1>12, <1>14, <2>1, <3>1
  <2> QED BY <1>6, <2>2
<1>16. Put(c, key, bytes) = With(c, From(s, k)) /\ ~OverBounds(With(c, From(s, k)))
       /\ \A j \in 0..(k - 1) : OverBounds(With(c, From(s, j)))
  BY <1>10, <1>12, <1>14
<1>17. Leaves(S, c, key, entry, Put(c, key, bytes), t, k)
  BY <1>1, <1>3, <1>4, <1>5, <1>15, <1>16 DEF Leaves
<1> QED BY <1>17

\* It is again a cache, and has the new entry.
LEMMA LeavesACache ==
  ASSUME NEW S, Sized(S), NEW c, CacheOK(S, c), NEW key, NEW entry \in S, entry.key = key,
         NEW after, NEW t, NEW k, Leaves(S, c, key, entry, after, t, k)
  PROVE  /\ CacheOK(S, after) /\ ~OverBounds(after)
         /\ after.max_entries = c.max_entries /\ after.max_bytes = c.max_bytes
         /\ after.entries = From(Append(t, entry), k)
         /\ Cached(after, key)
<1>1. c.max_entries \in Nat /\ c.max_bytes \in Nat /\ c.entries \in Seq(S) /\ OneOfEach(c.entries)
  BY DEF CacheOK
<1>2. t \in Seq(S) /\ OneOfEach(t) /\ NoneOf(t, key)
  BY <1>1, PoppedIs DEF Leaves
<1>3. PICK s : s = Append(t, entry)
  OBVIOUS
<1>4. s \in Seq(S) /\ OneOfEach(s) /\ Len(s) = Len(t) + 1 /\ s[Len(t) + 1] = entry
  BY <1>2, <1>3, AppendedIs
<1>5. Len(t) \in Nat /\ k \in 0..Len(s) /\ k <= Len(t) /\ k \in Nat
  BY <1>2, <1>4, LenProperties DEF Leaves
<1>6. PICK u : u = From(s, k)
  OBVIOUS
<1>7. u \in Seq(S) /\ Len(u) = Len(s) - k /\ \A j \in 1..(Len(s) - k) : u[j] = s[j + k]
  BY <1>4, <1>5, <1>6, FromIs
<1>8. DOMAIN u = 1..(Len(s) - k) /\ DOMAIN s = 1..Len(s)
  BY <1>4, <1>7, LenProperties
<1>9. OneOfEach(u)
  <2>1. ASSUME NEW i \in DOMAIN u PROVE u[i] = s[i + k] /\ i + k \in DOMAIN s /\ i \in Int
    BY <1>4, <1>5, <1>7, <1>8
  <2>2. ASSUME NEW i \in DOMAIN u, NEW j \in DOMAIN u, u[i].key = u[j].key PROVE i = j
    <3>1. i + k = j + k
      BY <1>4, <2>1, <2>2 DEF OneOfEach
    <3> QED BY <1>5, <2>1, <3>1
  <2> QED BY <2>2 DEF OneOfEach
<1>10. after = With(c, u) /\ ~OverBounds(after)
  BY <1>3, <1>6 DEF Leaves
<1>11. /\ after.entries = u /\ after.bytes = WeightOf(u)
       /\ after.max_entries = c.max_entries /\ after.max_bytes = c.max_bytes
       /\ after = [max_entries |-> after.max_entries, max_bytes |-> after.max_bytes,
                   entries |-> after.entries, bytes |-> after.bytes]
  BY <1>10 DEF With
<1>12. CacheOK(S, after)
  BY <1>1, <1>7, <1>9, <1>11 DEF CacheOK
<1>13. Cached(after, key)
  <2>1. Len(s) - k \in DOMAIN u /\ Len(s) - k + k = Len(t) + 1
    BY <1>4, <1>5, <1>8
  <2>2. u[Len(s) - k] = entry
    BY <1>4, <1>7, <1>8, <2>1
  <2> QED BY <1>11, <2>1, <2>2 DEF Cached
<1> QED BY <1>3, <1>6, <1>10, <1>11, <1>12, <1>13

-----------------------------------------------------------------------------
\* The keys used last.

\* No key twice; the keys without one.
Distinct(keys) == \A i, j \in DOMAIN keys : keys[i] = keys[j] => i = j
Forgot(keys, key, f) ==
  \/ (\A i \in DOMAIN keys : keys[i] # key) /\ f = keys
  \/ \E i \in 1..Len(keys) : keys[i] = key /\ f = RemoveAt(keys, i)

\* The entries are those of the last keys.
Ends(s, keys) ==
  /\ Len(s) <= Len(keys)
  /\ \A i \in 1..Len(s) : s[i].key = keys[Len(keys) - Len(s) + i]

\* Forget leaves the others.
LEMMA ForgetIs ==
  ASSUME NEW K, NEW keys \in Seq(K), NEW key
  PROVE  Forgot(keys, key, Forget(keys, key))
<1>1. DOMAIN keys = 1..Len(keys)
  BY LenProperties
<1>2. CASE \E i \in DOMAIN keys : keys[i] = key
  <2>1. PICK p : p = CHOOSE i \in DOMAIN keys : keys[i] = key
    OBVIOUS
  <2>2. p \in DOMAIN keys /\ keys[p] = key
    BY <1>2, <2>1
  <2>3. Forget(keys, key) = RemoveAt(keys, p)
    BY <1>2, <2>1 DEF Forget
  <2> QED BY <1>1, <2>2, <2>3 DEF Forgot
<1>3. CASE ~\E i \in DOMAIN keys : keys[i] = key
  BY <1>3 DEF Forget, Forgot
<1> QED BY <1>2, <1>3

\* They are still distinct.
LEMMA ForgotIs ==
  ASSUME NEW K, NEW keys \in Seq(K), Distinct(keys), NEW key, NEW f, Forgot(keys, key, f)
  PROVE  /\ f \in Seq(K) /\ Distinct(f) /\ Len(f) <= Len(keys)
         /\ \A i \in DOMAIN f : f[i] # key
         /\ (\E i \in DOMAIN keys : keys[i] = key) => Len(f) = Len(keys) - 1
<1>1. CASE (\A i \in DOMAIN keys : keys[i] # key) /\ f = keys
  BY <1>1, LenProperties
<1>2. CASE \E i \in 1..Len(keys) : keys[i] = key /\ f = RemoveAt(keys, i)
  <2>1. PICK i \in 1..Len(keys) : keys[i] = key /\ f = RemoveAt(keys, i)
    BY <1>2
  <2>2. /\ f \in Seq(K) /\ Len(f) = Len(keys) - 1 /\ Len(keys) \in Nat
        /\ \A j \in 1..(Len(keys) - 1) : f[j] = IF j < i THEN keys[j] ELSE keys[j + 1]
    BY <2>1, RemovedAt, LenProperties
  <2>3. DOMAIN keys = 1..Len(keys) /\ DOMAIN f = 1..(Len(keys) - 1)
    BY <2>2, LenProperties
  <2> DEFINE from(j) == IF j < i THEN j ELSE j + 1
  <2>4. ASSUME NEW j \in DOMAIN f
        PROVE  f[j] = keys[from(j)] /\ from(j) \in DOMAIN keys /\ from(j) # i
    <3>1. j \in 1..(Len(keys) - 1)
      BY <2>3
    <3> QED BY <2>2, <2>3, <3>1
  <2>5. \A j, k \in DOMAIN f : from(j) = from(k) => j = k
    BY <2>2, <2>3
  <2> HIDE DEF from
  <2>6. Distinct(f)
    BY <2>4, <2>5 DEF Distinct
  <2>7. \A j \in DOMAIN f : f[j] # key
    BY <2>1, <2>3, <2>4 DEF Distinct
  <2> QED BY <2>2, <2>6, <2>7
<1> QED BY <1>1, <1>2 DEF Forgot

\* What is taken out of both sides leaves ends of each other.
LEMMA EndsForgot ==
  ASSUME NEW S, NEW s \in Seq(S), OneOfEach(s), NEW K, NEW keys \in Seq(K), Distinct(keys),
         Ends(s, keys), NEW key, NEW t, Popped(s, key, t), NEW f, Forgot(keys, key, f)
  PROVE  Ends(t, f)
<1>1. PICK n, m : n = Len(s) /\ m = Len(keys)
  OBVIOUS
<1>2. /\ n \in Nat /\ m \in Nat /\ n <= m
      /\ DOMAIN s = 1..n /\ DOMAIN keys = 1..m
  BY <1>1, LenProperties DEF Ends
<1>3. \A i \in 1..n : s[i].key = keys[m - n + i]
  BY <1>1 DEF Ends
<1>4. CASE NoneOf(s, key) /\ t = s
  <2>1. CASE f = keys
    BY <1>4, <2>1
  <2>2. CASE \E q \in 1..Len(keys) : keys[q] = key /\ f = RemoveAt(keys, q)
    <3>1. PICK q \in 1..m : keys[q] = key /\ f = RemoveAt(keys, q)
      BY <1>1, <2>2
    <3>2. /\ Len(f) = m - 1
          /\ \A j \in 1..(m - 1) : f[j] = IF j < q THEN keys[j] ELSE keys[j + 1]
      BY <1>1, <3>1, RemovedAt
    <3>3. q <= m - n
      <4> SUFFICES ASSUME q > m - n PROVE FALSE
        BY <1>2
      <4>1. q - (m - n) \in 1..n /\ m - n + (q - (m - n)) = q
        BY <1>2
      <4>2. s[q - (m - n)].key = key
        BY <1>3, <3>1, <4>1
      <4> QED BY <1>2, <1>4, <4>1, <4>2 DEF NoneOf
    <3>4. ASSUME NEW i \in 1..n PROVE s[i].key = f[m - 1 - n + i]
      <4>1. /\ m - 1 - n + i \in 1..(m - 1) /\ ~(m - 1 - n + i < q)
            /\ m - 1 - n + i + 1 = m - n + i
        BY <1>2, <3>3
      <4> QED BY <1>3, <3>2, <4>1
    <3>5. n <= m - 1
      BY <1>2, <3>3
    <3> QED BY <1>1, <1>4, <3>2, <3>4, <3>5 DEF Ends
  <2> QED BY <2>1, <2>2 DEF Forgot
<1>5. CASE \E i \in 1..Len(s) : s[i].key = key /\ t = RemoveAt(s, i)
  <2>1. PICK p \in 1..n : s[p].key = key /\ t = RemoveAt(s, p)
    BY <1>1, <1>5
  <2>2. /\ Len(t) = n - 1
        /\ \A j \in 1..(n - 1) : t[j] = IF j < p THEN s[j] ELSE s[j + 1]
    BY <1>1, <2>1, RemovedAt
  <2>3. m - n + p \in 1..m /\ keys[m - n + p] = key
    <3>1. m - n + p \in 1..m
      BY <1>2, <2>1
    <3>2. s[p].key = keys[m - n + p]
      BY <1>3, <2>1
    <3> QED BY <2>1, <3>1, <3>2
  <2>4. PICK q \in 1..m : keys[q] = key /\ f = RemoveAt(keys, q)
    BY <1>1, <1>2, <2>3 DEF Forgot
  <2>5. q = m - n + p
    BY <1>2, <2>3, <2>4 DEF Distinct
  <2>6. /\ Len(f) = m - 1
        /\ \A j \in 1..(m - 1) : f[j] = IF j < q THEN keys[j] ELSE keys[j + 1]
    BY <1>1, <2>4, RemovedAt
  <2>7. ASSUME NEW i \in 1..(n - 1) PROVE t[i].key = f[(m - 1) - (n - 1) + i]
    <3>1. /\ (m - 1) - (n - 1) + i = m - n + i /\ m - n + i \in 1..(m - 1)
          /\ m - n + (i + 1) = m - n + i + 1
          /\ i \in 1..n /\ i + 1 \in 1..n
      BY <1>2
    <3>2. f[m - n + i] = IF m - n + i < q THEN keys[m - n + i] ELSE keys[m - n + i + 1]
      BY <2>6, <3>1
    <3>3. t[i] = IF i < p THEN s[i] ELSE s[i + 1]
      BY <2>2
    <3>4. s[i].key = keys[m - n + i] /\ s[i + 1].key = keys[m - n + i + 1]
      <4>1. s[i].key = keys[m - n + i] /\ s[i + 1].key = keys[m - n + (i + 1)]
        BY <1>3, <3>1
      <4> QED BY <3>1, <4>1
    <3>5. m - n + i < q <=> i < p
      BY <1>2, <2>5
    <3> QED BY <3>1, <3>2, <3>3, <3>4, <3>5
  <2>8. n - 1 <= m - 1
    BY <1>2
  <2> QED BY <2>2, <2>6, <2>7, <2>8 DEF Ends
<1> QED BY <1>4, <1>5 DEF Popped

\* So does what is added to both.
LEMMA EndsAppended ==
  ASSUME NEW S, NEW t \in Seq(S), NEW K, NEW f \in Seq(K), Ends(t, f), NEW e \in S, e.key \in K
  PROVE  Ends(Append(t, e), Append(f, e.key))
<1>1. PICK u, g, n, m : u = Append(t, e) /\ g = Append(f, e.key) /\ n = Len(t) /\ m = Len(f)
  OBVIOUS
<1>2. /\ Len(u) = n + 1 /\ u[n + 1] = e /\ n \in Nat
      /\ \A i \in 1..n : u[i] = t[i]
  BY <1>1, AppendProperties, LenProperties
<1>3. /\ Len(g) = m + 1 /\ g[m + 1] = e.key /\ m \in Nat
      /\ \A i \in 1..m : g[i] = f[i]
  BY <1>1, AppendProperties, LenProperties
<1>4. n <= m /\ \A i \in 1..n : t[i].key = f[m - n + i]
  BY <1>1 DEF Ends
<1>5. ASSUME NEW i \in 1..(n + 1) PROVE u[i].key = g[(m + 1) - (n + 1) + i]
  <2>1. (m + 1) - (n + 1) + i = m - n + i
    BY <1>2, <1>3
  <2>2. CASE i = n + 1
    <3>1. m - n + i = m + 1
      BY <1>2, <1>3, <2>2
    <3> QED BY <1>2, <1>3, <2>1, <2>2, <3>1
  <2>3. CASE i # n + 1
    <3>1. i \in 1..n /\ m - n + i \in 1..m
      BY <1>2, <1>3, <1>4, <2>3
    <3> QED BY <1>2, <1>3, <1>4, <2>1, <3>1
  <2> QED BY <2>2, <2>3
<1>6. n + 1 <= m + 1
  BY <1>2, <1>3, <1>4
<1> QED BY <1>1, <1>2, <1>3, <1>5, <1>6 DEF Ends

\* Entries that go do so from the oldest key on.
LEMMA EndsFrom ==
  ASSUME NEW S, NEW s \in Seq(S), NEW K, NEW keys \in Seq(K), Ends(s, keys),
         NEW k \in 0..Len(s)
  PROVE  Ends(From(s, k), keys)
<1>1. PICK u, n, m : u = From(s, k) /\ n = Len(s) /\ m = Len(keys)
  OBVIOUS
<1>2. /\ n \in Nat /\ m \in Nat /\ k \in 0..n
      /\ Len(u) = n - k /\ \A i \in 1..(n - k) : u[i] = s[i + k]
  BY <1>1, FromIs, LenProperties
<1>3. n <= m /\ \A i \in 1..n : s[i].key = keys[m - n + i]
  BY <1>1 DEF Ends
<1>4. ASSUME NEW i \in 1..(n - k) PROVE u[i].key = keys[m - (n - k) + i]
  <2>1. i + k \in 1..n /\ m - n + (i + k) = m - (n - k) + i
    BY <1>2
  <2>2. s[i + k].key = keys[m - n + (i + k)]
    BY <1>3, <2>1
  <2> QED BY <1>2, <2>1, <2>2
<1>5. n - k <= m
  BY <1>2, <1>3
<1> QED BY <1>1, <1>2, <1>4, <1>5 DEF Ends

\* As long as there are as many keys as entries, the oldest may go.
LEMMA EndsCut ==
  ASSUME NEW S, NEW s \in Seq(S), NEW K, NEW keys \in Seq(K), Ends(s, keys),
         NEW k \in 0..Len(keys), Len(s) <= Len(keys) - k
  PROVE  Ends(s, From(keys, k))
<1>1. PICK v, n, m : v = From(keys, k) /\ n = Len(s) /\ m = Len(keys)
  OBVIOUS
<1>2. /\ n \in Nat /\ m \in Nat /\ k \in 0..m /\ n <= m - k
      /\ Len(v) = m - k /\ \A i \in 1..(m - k) : v[i] = keys[i + k]
  BY <1>1, FromIs, LenProperties
<1>3. \A i \in 1..n : s[i].key = keys[m - n + i]
  BY <1>1 DEF Ends
<1>4. ASSUME NEW i \in 1..n PROVE s[i].key = v[(m - k) - n + i]
  <2>1. (m - k) - n + i \in 1..(m - k) /\ (m - k) - n + i + k = m - n + i
    BY <1>2
  <2> QED BY <1>2, <1>3, <2>1
<1> QED BY <1>1, <1>2, <1>4 DEF Ends

\* A suffix, element by element.
LEMMA EndsIsSuffix ==
  ASSUME NEW S, NEW s \in Seq(S), NEW K, NEW keys \in Seq(K), Ends(s, keys)
  PROVE  IsSuffix([i \in DOMAIN s |-> s[i].key], keys)
<1>1. PICK u, n, m : u = [i \in DOMAIN s |-> s[i].key] /\ n = Len(s) /\ m = Len(keys)
  OBVIOUS
<1>2. n \in Nat /\ m \in Nat /\ DOMAIN s = 1..n
  BY <1>1, LenProperties
<1>3. u = [i \in 1..n |-> s[i].key] /\ Len(u) = n
  BY <1>1, <1>2
<1>4. n <= m /\ \A i \in 1..n : u[i] = keys[m - n + i]
  BY <1>1, <1>3 DEF Ends
<1>5. PICK a, b : a = Reverse(u) /\ b = Reverse(keys)
  OBVIOUS
<1>6. /\ a = [i \in 1..n |-> u[n - i + 1]] /\ b = [i \in 1..m |-> keys[m - i + 1]]
  BY <1>1, <1>3, <1>5 DEF Reverse
<1>7. Len(a) = n /\ Len(b) = m
  BY <1>2, <1>6
<1>8. ASSUME NEW i \in 1..n PROVE a[i] = b[i]
  <2>1. n - i + 1 \in 1..n /\ m - n + (n - i + 1) = m - i + 1 /\ i \in 1..m
    BY <1>2, <1>4
  <2>2. u[n - i + 1] = keys[m - n + (n - i + 1)]
    BY <1>4, <2>1
  <2> QED BY <1>6, <2>1, <2>2
<1>9. SubSeq(a, 1, n) = SubSeq(b, 1, n)
  <2>1. SubSeq(a, 1, n) = [i \in 1..n |-> a[i]] /\ SubSeq(b, 1, n) = [i \in 1..n |-> b[i]]
    BY <1>2, <1>4, <1>6, <1>7
  <2> QED BY <1>8, <2>1
<1>10. IsPrefix(a, b)
  BY <1>4, <1>7, <1>9 DEF IsPrefix
<1> QED BY <1>1, <1>5, <1>10 DEF IsSuffix

-----------------------------------------------------------------------------
\* The keys once one more is used, and get.

\* The keys used last, once key is used.
Latest(keys, key, max) ==
  LET used == Append(Forget(keys, key), key)
  IN IF Len(used) - max > 0 THEN From(used, Len(used) - max) ELSE used

\* An end of distinct keys is distinct.
LEMMA DistinctFrom ==
  ASSUME NEW K, NEW keys \in Seq(K), Distinct(keys), NEW k \in 0..Len(keys)
  PROVE  Distinct(From(keys, k))
<1>1. PICK u : u = From(keys, k)
  OBVIOUS
<1>2. /\ u \in Seq(K) /\ Len(u) = Len(keys) - k /\ Len(keys) \in Nat
      /\ \A i \in 1..(Len(keys) - k) : u[i] = keys[i + k]
  BY <1>1, FromIs, LenProperties
<1>3. DOMAIN u = 1..(Len(keys) - k) /\ DOMAIN keys = 1..Len(keys)
  BY <1>2, LenProperties
<1>4. ASSUME NEW i \in DOMAIN u PROVE u[i] = keys[i + k] /\ i + k \in DOMAIN keys /\ i \in Int
  BY <1>2, <1>3
<1>5. ASSUME NEW i \in DOMAIN u, NEW j \in DOMAIN u, u[i] = u[j] PROVE i = j
  <2>1. i + k = j + k
    BY <1>4, <1>5 DEF Distinct
  <2> QED BY <1>4, <2>1
<1>6. Distinct(u)
  BY <1>5 DEF Distinct
<1> QED BY <1>1, <1>6

\* So are they with one that is new.
LEMMA DistinctAppended ==
  ASSUME NEW K, NEW f \in Seq(K), Distinct(f), NEW key \in K, \A i \in DOMAIN f : f[i] # key
  PROVE  Distinct(Append(f, key))
<1>1. PICK u : u = Append(f, key)
  OBVIOUS
<1>2. /\ u \in Seq(K) /\ Len(u) = Len(f) + 1 /\ Len(f) \in Nat
      /\ u[Len(f) + 1] = key /\ \A i \in 1..Len(f) : u[i] = f[i]
  BY <1>1, AppendProperties, LenProperties
<1>3. DOMAIN u = 1..(Len(f) + 1) /\ DOMAIN f = 1..Len(f)
  BY <1>2, LenProperties
<1>4. \A i \in DOMAIN u : i = Len(f) + 1 \/ i \in DOMAIN f
  BY <1>2, <1>3
<1>5. Distinct(u)
  BY <1>2, <1>3, <1>4 DEF Distinct
<1> QED BY <1>1, <1>5

\* The entries left by a use are those of the keys used last.
LEMMA LatestIs ==
  ASSUME NEW S, NEW s \in Seq(S), OneOfEach(s), NEW K, NEW keys \in Seq(K), Distinct(keys),
         Ends(s, keys), NEW max \in Nat, NEW key \in K, NEW t, Popped(s, key, t),
         NEW e \in S, e.key = key, NEW k \in 0..Len(t), Len(t) + 1 - k <= max
  PROVE  LET latest == Latest(keys, key, max)
         IN /\ latest \in Seq(K) /\ Distinct(latest) /\ Len(latest) <= max
            /\ Ends(From(Append(t, e), k), latest)
<1>1. PICK f : f = Forget(keys, key)
  OBVIOUS
<1>2. Forgot(keys, key, f)
  BY <1>1, ForgetIs
<1>3. f \in Seq(K) /\ Distinct(f) /\ \A i \in DOMAIN f : f[i] # key
  BY <1>2, ForgotIs
<1>4. t \in Seq(S) /\ Ends(t, f)
  BY <1>2, EndsForgot, PoppedIs
<1>5. PICK used : used = Append(f, key)
  OBVIOUS
<1>6. used \in Seq(K) /\ Distinct(used) /\ Len(used) \in Nat
  BY <1>3, <1>5, DistinctAppended, AppendProperties, LenProperties
<1>7. PICK kept : kept = Append(t, e)
  OBVIOUS
<1>8. kept \in Seq(S) /\ Len(kept) = Len(t) + 1 /\ Len(t) \in Nat
  BY <1>4, <1>7, AppendProperties, LenProperties
<1>9. Ends(kept, used)
  BY <1>3, <1>4, <1>5, <1>7, EndsAppended
<1>10. k \in 0..Len(kept)
  BY <1>8
<1>11. PICK cut : cut = From(kept, k)
  OBVIOUS
<1>12. cut \in Seq(S) /\ Len(cut) = Len(kept) - k /\ Ends(cut, used) /\ Len(cut) <= max
  BY <1>6, <1>8, <1>9, <1>10, <1>11, FromIs, EndsFrom
<1>13. PICK latest : latest = Latest(keys, key, max)
  OBVIOUS
<1>14. latest = IF Len(used) - max > 0 THEN From(used, Len(used) - max) ELSE used
  BY <1>1, <1>5, <1>13 DEF Latest
<1>15. latest \in Seq(K) /\ Distinct(latest) /\ Len(latest) <= max /\ Ends(cut, latest)
  <2>1. CASE Len(used) - max > 0
    <3>1. PICK j : j = Len(used) - max
      OBVIOUS
    <3>2. j \in 0..Len(used) /\ Len(used) - j = max
      BY <1>6, <2>1, <3>1
    <3>3. latest = From(used, j)
      BY <1>14, <2>1, <3>1
    <3>4. latest \in Seq(K) /\ Len(latest) = max /\ Distinct(latest)
      BY <1>6, <3>2, <3>3, FromIs, DistinctFrom
    <3>5. Ends(cut, latest)
      BY <1>6, <1>12, <3>2, <3>3, EndsCut
    <3> QED BY <3>4, <3>5
  <2>2. CASE ~(Len(used) - max > 0)
    BY <1>6, <1>12, <1>14, <2>2
  <2> QED BY <2>1, <2>2
<1> QED BY <1>7, <1>11, <1>13, <1>15

\* get is a pop and a push of the same entry, and weighs nothing.
LEMMA GetIs ==
  ASSUME NEW S, Sized(S), NEW c, CacheOK(S, c), NEW key, Cached(c, key)
  PROVE  \E t \in Seq(S), e \in S :
           /\ Popped(c.entries, key, t) /\ e.key = key /\ e = EntryOf(c, key)
           /\ Len(t) + 1 = Len(c.entries)
           /\ Get(c, key) = With(c, Append(t, e))
<1> DEFINE s == c.entries
<1>1. /\ s \in Seq(S) /\ c.bytes = WeightOf(s)
      /\ c = [max_entries |-> c.max_entries, max_bytes |-> c.max_bytes,
              entries |-> s, bytes |-> c.bytes]
  BY DEF CacheOK
<1>2. PICK i : i = PlaceOf(c, key)
  OBVIOUS
<1>3. i \in 1..Len(s) /\ s[i].key = key
  BY <1>1, <1>2, PlaceIs
<1>4. PICK t, e : t = RemoveAt(s, i) /\ e = s[i]
  OBVIOUS
<1>5. t \in Seq(S) /\ e \in S /\ Len(t) + 1 = Len(s)
  BY <1>1, <1>3, <1>4, RemovedAt, ElementOfSeq, LenProperties
<1>6. WeightOf(s) \in Nat /\ WeightOf(t) = WeightOf(s) - e.weight
  BY <1>1, <1>3, <1>4, RemovedWeight
<1>7. PICK u : u = Append(t, e)
  OBVIOUS
<1>8. WeightOf(u) = WeightOf(t) + e.weight /\ e.weight \in Nat
  BY <1>5, <1>7, AppendedWeight DEF Sized
<1>9. WeightOf(u) = c.bytes
  BY <1>1, <1>6, <1>8
<1>10. Get(c, key) = [c EXCEPT !.entries = u]
  BY <1>2, <1>4, <1>7 DEF Get, Without, EntryOf
<1>11. Get(c, key) = [max_entries |-> c.max_entries, max_bytes |-> c.max_bytes,
                      entries |-> u, bytes |-> c.bytes]
  BY <1>1, <1>10
<1>12. Get(c, key) = With(c, u)
  BY <1>9, <1>11 DEF With
<1>13. Popped(s, key, t)
  BY <1>3, <1>4 DEF Popped
<1> QED BY <1>2, <1>3, <1>4, <1>5, <1>7, <1>12, <1>13 DEF EntryOf

-----------------------------------------------------------------------------
\* The inductive invariant.

\* An entry shows what its key says.
MadeFor(entry) ==
  /\ entry.key.kind = entry.bytes.block.kind
  /\ entry.key.format = entry.bytes.block.format
  /\ entry.key.source = entry.bytes.block.source
  /\ entry.key.columns = entry.bytes.columns
Entries == {entry \in [key : Keys, bytes : Artifacts, weight : Nat] : MadeFor(entry)}

\* What is true of the service at all times.
ServiceInv ==
  /\ options \in SUBSET Options /\ engines \in [Kinds -> Routes] /\ columns \in Widths
  /\ CacheOK(Entries, cache)
  /\ Len(cache.entries) <= cache.max_entries
  /\ recency \in Seq(Keys) /\ Distinct(recency)
  /\ Len(recency) <= cache.max_entries
  /\ Ends(cache.entries, recency)
  /\ HitIsCurrent

\* Entries have a weight.
LEMMA EntriesAreSized == Sized(Entries)
  BY DEF Sized, Entries

\* Every block has a key.
LEMMA KeyIs ==
  ASSUME columns \in Widths, NEW block \in Blocks
  PROVE  CacheKey(block) \in Keys
  BY DEF CacheKey, Keys

\* What is put is an entry made for its key.
LEMMA MadeIs ==
  ASSUME options \in SUBSET Options, engines \in [Kinds -> Routes], columns \in Widths,
         NEW block \in Blocks, NEW length \in 1..MaxLength
  PROVE  LET bytes == Bytes(block, length)
             key == CacheKey(block)
         IN [key |-> key, bytes |-> bytes, weight |-> EntryWeight(key, bytes)] \in Entries
<1>1. PICK bytes : bytes = Bytes(block, length)
  OBVIOUS
<1>2. PICK key : key = CacheKey(block)
  OBVIOUS
<1>3. Route(block) \in Routes
  BY ServiceAssumption DEF Route, Routes
<1>4. bytes \in Artifacts /\ bytes.length = length /\ bytes.block = block /\ bytes.columns = columns
  BY <1>1, <1>3 DEF Bytes, Artifacts
<1>5. key \in Keys /\ KeyWeight(key) \in Nat
  BY <1>2, KeyIs, ServiceAssumption DEF CacheKey
<1>6. PICK weight : weight = EntryWeight(key, bytes)
  OBVIOUS
<1>7. weight \in Nat
  BY <1>4, <1>5, <1>6 DEF EntryWeight
<1>8. [key |-> key, bytes |-> bytes, weight |-> weight] \in Entries
  BY <1>2, <1>4, <1>5, <1>7 DEF Entries, MadeFor, CacheKey
<1> QED BY <1>1, <1>2, <1>6, <1>8

\* It holds at first.
LEMMA StartsInOrder == Init => ServiceInv
<1> SUFFICES ASSUME Init PROVE ServiceInv
  OBVIOUS
<1>1. PICK n \in EntryLimits, m \in ByteLimits : cache = NewCache(n, m)
  BY DEF Init
<1>2. n \in Nat /\ m \in Nat
  BY ServiceAssumption
<1>3. /\ cache = [max_entries |-> n, max_bytes |-> m, entries |-> <<>>, bytes |-> 0]
      /\ cache.entries = <<>> /\ cache.bytes = 0
      /\ cache.max_entries = n /\ cache.max_bytes = m
  BY <1>1 DEF NewCache
<1>4. <<>> \in Seq(Entries) /\ <<>> \in Seq(Keys) /\ Len(<<>>) = 0 /\ DOMAIN <<>> = {}
  BY EmptySeq
<1>5. CacheOK(Entries, cache)
  BY <1>2, <1>3, <1>4, EmptyWeight DEF CacheOK, OneOfEach
<1>6. Distinct(<<>>) /\ Ends(<<>>, <<>>)
  BY <1>4 DEF Distinct, Ends
<1>7. recency = <<>> /\ reply = NoReply
  BY DEF Init
<1>8. HitIsCurrent
  BY <1>7 DEF HitIsCurrent, NoReply
<1> QED BY <1>2, <1>3, <1>4, <1>5, <1>6, <1>7, <1>8 DEF Init, ServiceInv

\* A hit keeps it: what is served was made for this very key.
LEMMA HitKeeps == ServiceInv /\ (\E block \in Blocks : Hit(block)) => ServiceInv'
<1> SUFFICES ASSUME ServiceInv, NEW block \in Blocks, Hit(block) PROVE ServiceInv'
  OBVIOUS
<1>1. /\ CacheOK(Entries, cache) /\ recency \in Seq(Keys) /\ Distinct(recency)
      /\ Ends(cache.entries, recency) /\ Len(cache.entries) <= cache.max_entries
      /\ columns \in Widths
  BY DEF ServiceInv
<1>2. /\ cache.entries \in Seq(Entries) /\ OneOfEach(cache.entries)
      /\ cache.max_entries \in Nat /\ cache.max_bytes \in Nat
  BY <1>1 DEF CacheOK
<1>3. PICK key : key = CacheKey(block)
  OBVIOUS
<1>4. key \in Keys
  BY <1>1, <1>3, KeyIs
<1>5. Cached(cache, key) /\ cache' = Get(cache, key)
  BY <1>3 DEF Hit
<1>6. PICK t \in Seq(Entries), e \in Entries :
        /\ Popped(cache.entries, key, t) /\ e.key = key /\ e = EntryOf(cache, key)
        /\ Len(t) + 1 = Len(cache.entries)
        /\ Get(cache, key) = With(cache, Append(t, e))
  BY <1>1, <1>5, EntriesAreSized, GetIs
<1>7. PICK u : u = Append(t, e)
  OBVIOUS
<1>8. NoneOf(t, key) /\ OneOfEach(t) /\ Len(t) \in Nat
  BY <1>2, <1>6, PoppedIs, LenProperties
<1>9. u \in Seq(Entries) /\ OneOfEach(u) /\ Len(u) = Len(cache.entries)
  BY <1>6, <1>7, <1>8, AppendedIs
<1>10. From(u, 0) = u
  BY <1>9 DEF From
<1>11. recency' = Latest(recency, key, cache.max_entries)
  BY <1>3 DEF Hit, Use, Latest, From
<1>12. /\ recency' \in Seq(Keys) /\ Distinct(recency') /\ Len(recency') <= cache.max_entries
       /\ Ends(u, recency')
  <2>1. PICK zero : zero = 0
    OBVIOUS
  <2>2. zero \in 0..Len(t) /\ Len(t) + 1 - zero <= cache.max_entries
    BY <1>1, <1>6, <1>8, <2>1
  <2>3. LET latest == Latest(recency, key, cache.max_entries)
        IN /\ latest \in Seq(Keys) /\ Distinct(latest) /\ Len(latest) <= cache.max_entries
           /\ Ends(From(Append(t, e), zero), latest)
    BY <1>1, <1>2, <1>4, <1>6, <2>2, LatestIs
  <2> QED BY <1>7, <1>10, <1>11, <2>1, <2>3
<1>13. /\ cache'.entries = u /\ cache'.bytes = WeightOf(u)
       /\ cache'.max_entries = cache.max_entries /\ cache'.max_bytes = cache.max_bytes
       /\ cache' = [max_entries |-> cache'.max_entries, max_bytes |-> cache'.max_bytes,
                    entries |-> cache'.entries, bytes |-> cache'.bytes]
  BY <1>5, <1>6, <1>7 DEF With
<1>14. CacheOK(Entries, cache')
  BY <1>2, <1>9, <1>13 DEF CacheOK
<1>15. HitIsCurrent'
  <2>1. /\ reply'.kind = "hit" /\ reply'.block = block /\ reply'.columns = columns
        /\ reply'.bytes = e.bytes
    BY <1>3, <1>6 DEF Hit
  <2>2. e.key.kind = block.kind /\ e.key.format = block.format /\ e.key.source = block.source
        /\ e.key.columns = columns
    BY <1>3, <1>6 DEF CacheKey
  <2>3. e.bytes.block \in Blocks /\ MadeFor(e)
    BY DEF Entries, Artifacts
  <2>4. e.bytes.block = block
    <3>1. PICK b : b = e.bytes.block
      OBVIOUS
    <3>2. b.kind = block.kind /\ b.format = block.format /\ b.source = block.source
      BY <2>2, <2>3, <3>1 DEF MadeFor
    <3>3. /\ b = [kind |-> b.kind, format |-> b.format, source |-> b.source]
          /\ block = [kind |-> block.kind, format |-> block.format, source |-> block.source]
      BY <2>3, <3>1, ServiceAssumption
    <3> QED BY <3>1, <3>2, <3>3
  <2> QED BY <2>1, <2>2, <2>3, <2>4 DEF HitIsCurrent, MadeFor
<1> QED BY <1>1, <1>9, <1>12, <1>13, <1>14, <1>15 DEF Hit, ServiceInv

\* So does what is rendered, put or not.
LEMMA RenderedKeeps == ServiceInv /\ (\E block \in Blocks : Rendered(block)) => ServiceInv'
<1> SUFFICES ASSUME ServiceInv, NEW block \in Blocks, Rendered(block) PROVE ServiceInv'
  OBVIOUS
<1>1. /\ CacheOK(Entries, cache) /\ recency \in Seq(Keys) /\ Distinct(recency)
      /\ Ends(cache.entries, recency) /\ Len(cache.entries) <= cache.max_entries
      /\ columns \in Widths /\ options \in SUBSET Options /\ engines \in [Kinds -> Routes]
      /\ Len(recency) <= cache.max_entries
  BY DEF ServiceInv
<1>2. /\ cache.entries \in Seq(Entries) /\ OneOfEach(cache.entries)
      /\ cache.max_entries \in Nat /\ cache.max_bytes \in Nat
  BY <1>1 DEF CacheOK
<1>3. PICK key : key = CacheKey(block)
  OBVIOUS
<1>4. PICK length \in 1..MaxLength :
        /\ reply'.kind = "rendered"
        /\ \/ /\ cache' = Put(cache, key, Bytes(block, length))
              /\ IF PutAccepts(cache, key, Bytes(block, length)) THEN Use(key)
                 ELSE UNCHANGED recency
              /\ ~Cached(cache, key)
           \/ UNCHANGED <<cache, recency>>
  BY <1>3 DEF Rendered, Missed
<1>5. HitIsCurrent'
  BY <1>4 DEF HitIsCurrent
<1>6. UNCHANGED <<options, engines, columns>>
  BY DEF Rendered
<1>7. CASE UNCHANGED <<cache, recency>>
  BY <1>1, <1>5, <1>6, <1>7 DEF ServiceInv
<1>8. CASE /\ cache' = Put(cache, key, Bytes(block, length))
           /\ IF PutAccepts(cache, key, Bytes(block, length)) THEN Use(key)
              ELSE UNCHANGED recency
           /\ ~Cached(cache, key)
  <2>1. PICK bytes : bytes = Bytes(block, length)
    OBVIOUS
  <2>2. PICK entry : entry = [key |-> key, bytes |-> bytes, weight |-> EntryWeight(key, bytes)]
    OBVIOUS
  <2>3. entry \in Entries /\ entry.key = key /\ key \in Keys
    BY <1>1, <1>3, <2>1, <2>2, MadeIs, KeyIs
  <2>4. CASE ~Admitted(cache, EntryWeight(key, bytes))
    <3>1. Put(cache, key, bytes) = cache
      BY <2>4 DEF Put
    <3>2. ~PutAccepts(cache, key, bytes)
      BY <1>8, <3>1 DEF PutAccepts
    <3> QED BY <1>1, <1>5, <1>6, <1>8, <2>1, <3>1, <3>2 DEF ServiceInv
  <2>5. CASE Admitted(cache, EntryWeight(key, bytes))
    <3>1. PICK t, k : Leaves(Entries, cache, key, entry, Put(cache, key, bytes), t, k)
      BY <1>1, <2>2, <2>3, <2>5, EntriesAreSized, PutLeaves
    <3>2. Leaves(Entries, cache, key, entry, cache', t, k)
      BY <1>8, <2>1, <3>1
    <3>3. /\ CacheOK(Entries, cache') /\ ~OverBounds(cache')
          /\ cache'.max_entries = cache.max_entries /\ cache'.max_bytes = cache.max_bytes
          /\ cache'.entries = From(Append(t, entry), k)
          /\ Cached(cache', key)
      <4>1. PICK after : after = cache'
        OBVIOUS
      <4>2. Leaves(Entries, cache, key, entry, after, t, k)
        BY <3>2, <4>1
      <4>3. /\ CacheOK(Entries, after) /\ ~OverBounds(after)
            /\ after.max_entries = cache.max_entries /\ after.max_bytes = cache.max_bytes
            /\ after.entries = From(Append(t, entry), k)
            /\ Cached(after, key)
        <5>1. PICK S : S = Entries
          OBVIOUS
        <5>2. Sized(S) /\ CacheOK(S, cache) /\ entry \in S /\ entry.key = key
          BY <1>1, <2>3, <5>1, EntriesAreSized
        <5>3. Leaves(S, cache, key, entry, after, t, k)
          BY <4>2, <5>1
        <5>4. CacheOK(S, after)
          BY <5>2, <5>3, LeavesACache
        <5>5. /\ ~OverBounds(after)
              /\ after.max_entries = cache.max_entries /\ after.max_bytes = cache.max_bytes
              /\ after.entries = From(Append(t, entry), k)
              /\ Cached(after, key)
          BY <5>2, <5>3, LeavesACache
        <5> QED BY <5>1, <5>4, <5>5
      <4> QED BY <4>1, <4>3
    <3>4. PutAccepts(cache, key, bytes)
      BY <1>8, <2>1, <3>3 DEF PutAccepts
    <3>5. recency' = Latest(recency, key, cache.max_entries)
      BY <1>8, <2>1, <3>4 DEF Use, Latest, From
    <3>6. t \in Seq(Entries) /\ Popped(cache.entries, key, t) /\ k \in 0..Len(t) /\ Len(t) \in Nat
      BY <3>1, LenProperties DEF Leaves
    <3>7. /\ Append(t, entry) \in Seq(Entries) /\ Len(Append(t, entry)) = Len(t) + 1
      BY <2>3, <3>6, AppendProperties
    <3>8. Len(cache'.entries) = Len(t) + 1 - k
      <4>1. PICK u : u = Append(t, entry)
        OBVIOUS
      <4>2. u \in Seq(Entries) /\ Len(u) = Len(t) + 1 /\ k \in 0..Len(u)
        BY <3>6, <3>7, <4>1
      <4>3. Len(From(u, k)) = Len(u) - k
        BY <4>2, FromIs
      <4> QED BY <3>3, <4>1, <4>2, <4>3
    <3>9. Len(cache'.entries) <= cache.max_entries
      <4>1. Len(cache'.entries) \in Nat
        BY <3>6, <3>8
      <4> QED BY <1>2, <3>3, <4>1 DEF OverBounds
    <3>10. LET latest == Latest(recency, key, cache.max_entries)
           IN /\ latest \in Seq(Keys) /\ Distinct(latest) /\ Len(latest) <= cache.max_entries
              /\ Ends(From(Append(t, entry), k), latest)
      <4>1. Len(t) + 1 - k <= cache.max_entries
        BY <3>8, <3>9
      <4> QED BY <1>1, <1>2, <2>3, <3>6, <4>1, LatestIs
    <3> QED BY <1>1, <1>5, <1>6, <3>3, <3>5, <3>9, <3>10 DEF ServiceInv
  <2> QED BY <2>4, <2>5
<1> QED BY <1>4, <1>7, <1>8

(* The count of the cache stays that of its entries, it never holds more   *)
(* entries than it may, each of them made for its key, and its keys are    *)
(* those used last (render, get, put).                                     *)
THEOREM AlwaysInOrder == Spec => []ServiceInv
<1>1. Init => ServiceInv
  BY StartsInOrder
<1>2. ServiceInv /\ [Next]_vars => ServiceInv'
  <2> SUFFICES ASSUME ServiceInv, [Next]_vars PROVE ServiceInv'
    OBVIOUS
  <2>1. ASSUME NEW block \in Blocks, Hit(block) PROVE ServiceInv'
    BY <2>1, HitKeeps
  <2>2. ASSUME NEW block \in Blocks, Rendered(block) PROVE ServiceInv'
    BY <2>2, RenderedKeeps
  <2>3. ASSUME NEW block \in Blocks, Failed(block) PROVE ServiceInv'
    BY <2>3 DEF Failed, ServiceInv, HitIsCurrent
  <2>4. ASSUME SetColumns PROVE ServiceInv'
    BY <2>4 DEF SetColumns, ServiceInv, HitIsCurrent
  <2>5. ASSUME UNCHANGED vars PROVE ServiceInv'
    BY <2>5 DEF vars, ServiceInv, HitIsCurrent
  <2> QED BY <2>1, <2>2, <2>3, <2>4, <2>5 DEF Next
<1> QED BY <1>1, <1>2, PTL DEF Spec

(* A hit shows what was made of this very block at the width of now,       *)
(* whatever was rendered before (CacheKey, render).                        *)
THEOREM HitsAreAlwaysCurrent == Spec => []HitIsCurrent
<1>1. ServiceInv => HitIsCurrent
  BY DEF ServiceInv
<1> QED BY <1>1, AlwaysInOrder, PTL

(* What is kept was used more recently than all that was evicted, for any  *)
(* limits (get, put).                                                      *)
THEOREM AlwaysKeepsMostRecent == Spec => []KeptAreMostRecent
<1>1. ServiceInv => KeptAreMostRecent
  <2> SUFFICES ASSUME ServiceInv PROVE KeptAreMostRecent
    OBVIOUS
  <2>1. cache.entries \in Seq(Entries) /\ recency \in Seq(Keys) /\ Ends(cache.entries, recency)
    BY DEF ServiceInv, CacheOK
  <2> QED BY <2>1, EndsIsSuffix DEF KeptAreMostRecent
<1> QED BY <1>1, AlwaysInOrder, PTL

-----------------------------------------------------------------------------
\* What the next put keeps.

\* What put could be asked to keep next.
AnyEntries ==
  [key : Keys, weight : Nat,
   bytes : [block : Blocks, columns : Widths \cup {1}, route : Routes, length : 1..MaxLength]]

\* What is within the limits of a cache.
Fitting(c, s) == Len(s) <= c.max_entries /\ WeightOf(s) <= c.max_bytes

\* They have a weight.
LEMMA AnyEntriesAreSized == Sized(AnyEntries)
  BY DEF Sized, AnyEntries

\* It is what a cache with no other entries keeps.
LEMMA FittingIs ==
  ASSUME NEW S, Sized(S), NEW c, c.max_entries \in Nat, c.max_bytes \in Nat, NEW s \in Seq(S)
  PROVE  Fitting(c, s) <=> ~OverBounds(With(c, s))
<1>1. Len(s) \in Nat
  BY LenProperties
<1>2. WeightOf(s) \in Nat
  <2>1. From(s, 0) = s
    BY DEF From
  <2>2. 0 \in 0..Len(s)
    BY <1>1
  <2> QED BY <2>1, <2>2, FromWeight
<1> QED BY <1>1, <1>2 DEF Fitting, OverBounds, With

\* An entry fits if and only if it is admitted.
LEMMA OneFits ==
  ASSUME NEW S, Sized(S), NEW e \in S, e.weight # 0,
         NEW c, c.max_entries \in Nat, c.max_bytes \in Nat
  PROVE  Fitting(c, <<e>>) <=> Admitted(c, e.weight)
<1>1. <<>> \in Seq(S) /\ Append(<<>>, e) = <<e>> /\ Len(<<e>>) = 1
  BY EmptySeq
<1>2. e.weight \in Nat
  BY DEF Sized
<1>3. WeightOf(<<e>>) = e.weight
  <2>1. PICK s : s = <<>>
    OBVIOUS
  <2>2. WeightOf(Append(s, e)) = WeightOf(s) + e.weight
    BY <1>1, <2>1, AppendedWeight
  <2> QED BY <1>1, <1>2, <2>1, <2>2, EmptyWeight
<1> QED BY <1>1, <1>2, <1>3 DEF Fitting, Admitted

\* The kept entries are the longest run to the end that fits.
LEMMA LongestIsKept ==
  ASSUME NEW S, Sized(S), NEW c, CacheOK(S, c), NEW key, NEW entry \in S, entry.key = key,
         NEW after, NEW t, NEW k, Leaves(S, c, key, entry, after, t, k)
  PROVE  LET wanted == Append(t, entry)
             kept == after.entries
         IN /\ kept \in Suffixes(wanted) /\ Fitting(c, kept)
            /\ \A s \in Suffixes(wanted) : Fitting(c, s) => Len(s) <= Len(kept)
<1>1. c.max_entries \in Nat /\ c.max_bytes \in Nat
  BY DEF CacheOK
<1>2. PICK wanted : wanted = Append(t, entry)
  OBVIOUS
<1>3. t \in Seq(S) /\ Len(t) \in Nat /\ k \in 0..Len(t)
  BY LenProperties DEF Leaves
<1>4. wanted \in Seq(S) /\ Len(wanted) = Len(t) + 1
  BY <1>2, <1>3, AppendProperties
<1>5. k \in 0..Len(wanted) /\ k + 1 \in 1..Len(wanted) /\ k \in Nat
  BY <1>3, <1>4
<1>6. PICK kept : kept = From(wanted, k)
  OBVIOUS
<1>7. kept \in Seq(S) /\ Len(kept) = Len(wanted) - k
  BY <1>4, <1>5, <1>6, FromIs
<1>8. after.entries = kept
  BY <1>2, <1>6 DEF Leaves, With
<1>9. kept \in Suffixes(wanted)
  BY <1>5, <1>6 DEF Suffixes, From
<1>10. Fitting(c, kept)
  <2>1. ~OverBounds(With(c, kept))
    BY <1>2, <1>6 DEF Leaves
  <2> QED BY <1>1, <1>7, <2>1, FittingIs
<1>11. ASSUME NEW s \in Suffixes(wanted), Fitting(c, s)
       PROVE  Len(s) <= Len(kept)
  <2>1. CASE s = <<>>
    BY <1>3, <1>4, <1>5, <1>7, <2>1
  <2>2. CASE \E l \in 1..Len(wanted) : s = SubSeq(wanted, l, Len(wanted))
    <3>1. PICK l \in 1..Len(wanted) : s = SubSeq(wanted, l, Len(wanted))
      BY <2>2
    <3>2. PICK j : j = l - 1
      OBVIOUS
    <3>3. j \in 0..Len(wanted) /\ j + 1 = l /\ j \in Nat
      BY <1>3, <1>4, <3>1, <3>2
    <3>4. s = From(wanted, j)
      BY <3>1, <3>3 DEF From
    <3>5. s \in Seq(S) /\ Len(s) = Len(wanted) - j
      BY <1>4, <3>3, <3>4, FromIs
    <3>6. ~OverBounds(With(c, s))
      BY <1>1, <1>11, <3>5, FittingIs
    <3>7. ~(j \in 0..(k - 1))
      BY <1>2, <3>4, <3>6 DEF Leaves
    <3> QED BY <1>3, <1>4, <1>5, <1>7, <3>3, <3>5, <3>7
  <2> QED BY <2>1, <2>2 DEF Suffixes
<1> QED BY <1>2, <1>8, <1>9, <1>10, <1>11

(* Any next put keeps as many recent entries as fit, and leaves the count  *)
(* right, for all limits and weights of keys (put).                        *)
THEOREM PutAlwaysKeepsAllThatFits == Spec => []PutKeepsAllThatFits
<1>1. ServiceInv => PutKeepsAllThatFits
  <2> SUFFICES ASSUME ServiceInv PROVE PutKeepsAllThatFits
    OBVIOUS
  <2> SUFFICES ASSUME NEW key \in Keys, NEW n \in 1..MaxLength, NEW b \in Blocks
      PROVE
        LET bytes == [block |-> b, columns |-> 1, route |-> "preview", length |-> n]
            entry == [key |-> key, bytes |-> bytes, weight |-> EntryWeight(key, bytes)]
            wanted == Append(Pop(cache, key).entries, entry)
            Fits(s) == Len(s) <= cache.max_entries /\ WeightOf(s) <= cache.max_bytes
            after == Put(cache, key, bytes)
            kept == after.entries
        IN /\ WellAccounted(after)
           /\ IF Fits(<<entry>>)
              THEN /\ kept \in Suffixes(wanted) /\ Fits(kept)
                   /\ \A s \in Suffixes(wanted) : Fits(s) => Len(s) <= Len(kept)
              ELSE kept = cache.entries
    BY DEF PutKeepsAllThatFits
  <2>1. PICK bytes : bytes = [block |-> b, columns |-> 1, route |-> "preview", length |-> n]
    OBVIOUS
  <2>2. PICK entry : entry = [key |-> key, bytes |-> bytes, weight |-> EntryWeight(key, bytes)]
    OBVIOUS
  <2>3. KeyWeight(key) \in Nat
    BY ServiceAssumption DEF Keys
  <2>4. /\ entry \in AnyEntries /\ entry.key = key
        /\ entry.weight = EntryWeight(key, bytes) /\ entry.weight # 0
    <3>1. PICK weight : weight = EntryWeight(key, bytes)
      OBVIOUS
    <3>2. weight \in Nat /\ weight # 0
      BY <2>1, <2>3, <3>1, ServiceAssumption DEF EntryWeight
    <3> QED BY <2>1, <2>2, <3>1, <3>2 DEF AnyEntries, Routes
  <2>5. CacheOK(AnyEntries, cache)
    <3>1. Entries \subseteq AnyEntries
      BY DEF Entries, AnyEntries, Artifacts
    <3>2. CacheOK(Entries, cache) /\ cache.entries \in Seq(AnyEntries)
      BY <3>1 DEF ServiceInv, CacheOK
    <3> QED BY <3>2 DEF CacheOK
  <2>6. cache.max_entries \in Nat /\ cache.max_bytes \in Nat
    BY <2>5 DEF CacheOK
  <2>7. Fitting(cache, <<entry>>) <=> Admitted(cache, EntryWeight(key, bytes))
    BY <2>4, <2>6, AnyEntriesAreSized, OneFits
  <2>8. PICK after : after = Put(cache, key, bytes)
    OBVIOUS
  <2>9. PICK wanted : wanted = Append(Pop(cache, key).entries, entry)
    OBVIOUS
  <2>10. CASE Admitted(cache, EntryWeight(key, bytes))
    <3>1. PICK t, k : Leaves(AnyEntries, cache, key, entry, after, t, k)
      BY <2>2, <2>4, <2>5, <2>8, <2>10, AnyEntriesAreSized, PutLeaves
    <3>2. wanted = Append(t, entry)
      BY <2>9, <3>1 DEF Leaves
    <3>3. CacheOK(AnyEntries, after)
      BY <2>4, <2>5, <3>1, AnyEntriesAreSized, LeavesACache
    <3>4. WellAccounted(after)
      BY <3>3 DEF CacheOK, WellAccounted, OneOfEach
    <3>5. /\ after.entries \in Suffixes(wanted) /\ Fitting(cache, after.entries)
          /\ \A s \in Suffixes(wanted) : Fitting(cache, s) => Len(s) <= Len(after.entries)
      BY <2>4, <2>5, <3>1, <3>2, AnyEntriesAreSized, LongestIsKept
    <3> QED BY <2>1, <2>2, <2>7, <2>8, <2>9, <2>10, <3>4, <3>5 DEF Fitting
  <2>11. CASE ~Admitted(cache, EntryWeight(key, bytes))
    <3>1. after = cache
      BY <2>8, <2>11 DEF Put
    <3>2. WellAccounted(cache)
      BY <2>5 DEF CacheOK, WellAccounted, OneOfEach
    <3> QED BY <2>1, <2>2, <2>7, <2>8, <2>11, <3>1, <3>2 DEF Fitting
  <2> QED BY <2>10, <2>11
<1> QED BY <1>1, AlwaysInOrder, PTL
================================================================================
