-------------------------- MODULE InstallCommit_proofs --------------------------
(***************************************************************************)
(* Proofs about the two files of an installation, for any configurations   *)
(* and any number of installations and edits.                              *)
(***************************************************************************)
EXTENDS InstallCommit, TLAPS

\* The installation that is running is the latest, and both files are of its
\* time or before. A user's file is as old as can be.
AgesInv ==
  /\ lost \in BOOLEAN
  /\ installs \in Nat /\ config.by \in Nat /\ state.by \in Nat /\ found.state.by \in Nat
  /\ installer # "idle" => plan.by = installs /\ plan.by > 0
  /\ config.by <= installs /\ state.by <= installs /\ found.state.by <= installs

\* What the running installation has found is what it will restore, or it could
\* not be read. A state older than its configuration is one that was lost.
FoundInv ==
  /\ installer # "idle" => config = found.config \/ config.by = 0
  /\ installer \in {"read_previous", "commit_state"} => state = found.state
  /\ installer \in {"commit_state", "commit_config", "roll_back"} =>
       previous \in {found.state, Absent}
  /\ installer # "idle" => found.state.by >= config.by \/ (found.state = Absent /\ lost)
  /\ FailedInstallLeavesNoTrace

\* What it has committed is what it planned.
PlannedInv ==
  /\ installer \in {"commit_config", "roll_back"} => state = PlannedState
  /\ installer = "idle" /\ outcome = "ok" => state = PlannedState /\ plan.by > 0
  /\ state.by >= config.by \/ (state = Absent /\ lost)

IInv == AgesInv /\ FoundInv /\ PlannedInv

LEMMA IInvInit == Init => IInv
<1> SUFFICES ASSUME Init PROVE IInv
  OBVIOUS
<1>1. config.by = 0 /\ state.by = 0
  BY DEF Init, OldStates, Absent, State, File
<1>2. AgesInv
  <2>1. found.state.by = 0
    BY <1>1 DEF Init
  <2>2. installs = 0 /\ installer = "idle" /\ lost \in BOOLEAN
    BY DEF Init
  <2> QED BY <1>1, <2>1, <2>2 DEF AgesInv
<1>3. FoundInv
  BY DEF Init, FoundInv, FailedInstallLeavesNoTrace
<1>4. PlannedInv
  BY <1>1 DEF Init, PlannedInv
<1> QED BY <1>2, <1>3, <1>4 DEF IInv

\* Each step of the installer, and of the others, keeps the three parts.
LEMMA IInvStep == IInv /\ [Next]_vars => IInv'
<1> SUFFICES ASSUME IInv, [Next]_vars PROVE IInv'
  OBVIOUS
<1> USE DEF IInv, AgesInv, FoundInv, PlannedInv, FailedInstallLeavesNoTrace,
            files, reader_vars
<1>1. CASE Plan
  BY <1>1 DEF Plan, File
<1>2. CASE ReadPrevious
  BY <1>2 DEF ReadPrevious
<1>3. CASE CommitState
  <2>1. CASE state' = PlannedState /\ installer' = "commit_config" /\ outcome' = outcome
    BY <1>3, <2>1 DEF CommitState, PlannedState, State
  <2>2. CASE state' = state /\ installer' = "idle" /\ outcome' = "failed"
    BY <1>3, <2>2 DEF CommitState, PlannedState
  <2> QED BY <1>3, <2>1, <2>2 DEF CommitState, AfterFailedState
<1>4. CASE CommitConfig
  <2>1. CASE config' = plan /\ installer' = "idle" /\ outcome' = "ok" /\ lost' = FALSE
    <3>1. UNCHANGED <<state, plan, previous, installs, found>> /\ installer = "commit_config"
      BY <1>4 DEF CommitConfig
    <3>2. plan.by = installs /\ plan.by > 0 /\ state.by = plan.by
      BY <3>1 DEF PlannedState, State
    <3>3. AgesInv'
      BY <2>1, <3>1, <3>2
    <3>4. FoundInv' /\ PlannedInv'
      BY <2>1, <3>1, <3>2 DEF PlannedState
    <3> QED BY <3>3, <3>4
  <2>2. CASE installer' = "roll_back" /\ config' = config /\ outcome' = outcome /\ lost' = lost
    BY <1>4, <2>2 DEF CommitConfig, PlannedState
  <2> QED BY <1>4, <2>1, <2>2 DEF CommitConfig
<1>5. CASE RollBack
  <2>1. CASE outcome' = "rollback_failed" /\ state' = state /\ lost' = lost
    BY <1>5, <2>1 DEF RollBack, PlannedState
  <2>2. CASE state' = previous /\ previous = found.state /\ outcome' = "failed" /\ lost' = lost
    BY <1>5, <2>2 DEF RollBack, PlannedState
  <2>3. CASE state' = Absent /\ previous # found.state /\ outcome' = "failed" /\ lost' = TRUE
    <3>1. state'.by = 0
      BY <2>3 DEF Absent, State
    <3> QED BY <1>5, <2>3, <3>1 DEF RollBack, PlannedState
  <2> QED BY <1>5, <2>1, <2>2, <2>3 DEF RollBack, Restored
<1>6. CASE Kill
  BY <1>6 DEF Kill
<1>7. CASE EditConfig
  BY <1>7 DEF EditConfig, install_vars, File, PlannedState
<1>8. CASE ReadConfig \/ LoadMatchingState \/ StartAgain
  BY <1>8 DEF ReadConfig, LoadMatchingState, StartAgain, install_vars, PlannedState
<1>9. CASE UNCHANGED vars
  BY <1>9 DEF vars, install_vars, PlannedState
<1> QED
  BY <1>1, <1>2, <1>3, <1>4, <1>5, <1>6, <1>7, <1>8, <1>9 DEF Next

LEMMA IInvInvariant == Spec => []IInv
BY IInvInit, IInvStep, PTL DEF Spec

(* Wherever installations are killed or fail, and whatever the user edits, *)
(* a committed configuration has the state made for it, or a later one, or *)
(* none after a roll back that could not read it (InstallPlan::apply).     *)
THEOREM ConfigHasItsState == Spec => []CommittedConfigHasItsState
<1>1. IInv => CommittedConfigHasItsState
  BY DEF IInv, AgesInv, PlannedInv, CommittedConfigHasItsState, Absent, State
<1> QED BY IInvInvariant, <1>1, PTL

(* An installation that fails restores what it found, as far as it could   *)
(* read it (InstallPlan::apply, restore_previous).                         *)
THEOREM FailureLeavesNoTrace == Spec => []FailedInstallLeavesNoTrace
<1>1. IInv => FailedInstallLeavesNoTrace
  BY DEF IInv, FoundInv
<1> QED BY IInvInvariant, <1>1, PTL

(* A session that starts on the configuration of an installation that      *)
(* succeeded uses what that installation resolved                          *)
(* (load_matching_install_state, matches_user_config).                     *)
THEOREM ResolvedIsUsed == Spec => InstalledStateIsUsed
<1> DEFINE Starts == /\ reader = "state" /\ reader' = "resolved"
                     /\ installer = "idle" /\ outcome = "ok" /\ seen = plan
<1>1. ASSUME IInv, Next, Starts
      PROVE  accepted' = State(plan.value, plan.by)
  <2>1. LoadMatchingState
    BY <1>1 DEF Next, Plan, ReadPrevious, CommitState, CommitConfig, RollBack, Kill,
                EditConfig, ReadConfig, StartAgain, reader_vars
  <2>2. state = State(plan.value, plan.by) /\ plan.by > 0
    BY <1>1 DEF IInv, PlannedInv, PlannedState
  <2>3. state # Absent /\ MatchesUserConfig(state, seen.value)
    BY <1>1, <2>2 DEF Absent, State, MatchesUserConfig
  <2> QED BY <2>1, <2>2, <2>3 DEF LoadMatchingState
<1>2. IInv /\ [Next]_vars => [Starts => accepted' = State(plan.value, plan.by)]_vars
  BY <1>1
<1> QED BY IInvInvariant, <1>2, PTL DEF Spec, InstalledStateIsUsed
=============================================================================
