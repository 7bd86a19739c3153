----------------------------- MODULE InstallCommit -----------------------------
(***************************************************************************)
(* The two files of an installation (src/install.rs, src/config.rs): the   *)
(* user configuration, and the installation state that names the programs  *)
(* resolved for it. InstallPlan::apply replaces one after the other, each  *)
(* atomically; a process may be killed between any two steps. The user may *)
(* edit the configuration, and a session reads both files on its own.      *)
(* Installers run one after another.                                       *)
(***************************************************************************)
EXTENDS Naturals

CONSTANTS Configs,      \* normalized user configurations; a digest is one of them
          MaxInstalls,  \* bound: installations
          MaxEdits      \* bound: edits of the configuration by the user

ASSUME InstallAssumption ==
  /\ Configs # {}
  /\ MaxInstalls \in Nat /\ MaxEdits \in Nat

VARIABLES
  config,     \* the user configuration file: [value, by]
  state,      \* the installation state file, or Absent: [digest, by]
  installer,  \* where the running installation stands
  plan,       \* the plan it applies
  previous,   \* apply: the state file found, Absent also if it cannot be read
  outcome,    \* of the last installation: "none", "ok", "failed" or "killed"
  reader,     \* where a starting session stands
  seen,       \* the configuration it has read
  accepted,   \* the state it uses, or Absent
  installs, edits,
  found,      \* history: both files as the running installation found them
  lost        \* history: whether a roll back has removed a state that could not
              \* be read, and no installation has succeeded since

files == <<config, state>>
install_vars == <<installer, plan, previous, outcome, installs, found, lost>>
reader_vars == <<reader, seen, accepted>>
vars == <<files, install_vars, reader_vars, edits>>

\* by: the installation that wrote the file, 0 for the user or an older program.
File(value, by) == [value |-> value, by |-> by]
State(digest, by) == [digest |-> digest, by |-> by]
NoDigest == "no digest"
Absent == State("absent", 0)

\* None, one of an older schema, which has no digest, or one for some configuration.
OldStates == {Absent} \cup {State(d, 0) : d \in Configs \cup {NoDigest}}

\* The state a plan holds carries the digest of the planned configuration.
\* Mutant: of the configuration found on disk.
StateOfFoundConfig == State(found.config.value, plan.by)
PlannedState == State(plan.value, plan.by)

\* apply returns when the state cannot be replaced. Mutant: it carries on.
CommitConfigAnyway == "commit_config"
AfterFailedState == "idle"

\* What restore_previous leaves: the bytes read before, or no file.
\* Mutant: no file, whatever was there.
AlwaysRemoved == Absent
Restored == previous

\* InstallState::matches_user_config, for a state of the same config path.
MatchesUserConfig(found_state, value) ==
  \/ found_state.digest = value
  \/ found_state.digest = NoDigest

Init ==
  /\ \E c \in Configs : config = File(c, 0)
  /\ state \in OldStates
  /\ installer = "idle" /\ outcome = "none"
  /\ plan = config /\ previous = Absent
  /\ found = [config |-> config, state |-> state]
  /\ reader = "config" /\ seen = config /\ accepted = Absent
  /\ installs = 0 /\ edits = 0
  /\ lost = FALSE
-----------------------------------------------------------------------------
(* Installer::plan and InstallPlan::apply. *)

\* The plan: a configuration, and a state that carries its digest.
Plan ==
  /\ installer = "idle"
  /\ installs < MaxInstalls
  /\ installs' = installs + 1
  /\ \E c \in Configs : plan' = File(c, installs + 1)
  /\ found' = [config |-> config, state |-> state]
  /\ installer' = "read_previous"
  /\ UNCHANGED <<files, previous, outcome, lost, reader_vars, edits>>

\* fs::read(&self.state_path).ok(): a read that fails is taken for no file.
ReadPrevious ==
  /\ installer = "read_previous"
  /\ previous' \in {state, Absent}
  /\ installer' = "commit_state"
  /\ UNCHANGED <<files, plan, outcome, installs, found, lost, reader_vars, edits>>

\* One atomic_replace: it takes effect as a whole, or fails and changes nothing.
CommitState ==
  /\ installer = "commit_state"
  /\ \/ /\ state' = PlannedState
        /\ installer' = "commit_config"
        /\ UNCHANGED outcome
     \/ /\ installer' = AfterFailedState
        /\ outcome' = "failed"
        /\ UNCHANGED state
  /\ UNCHANGED <<config, plan, previous, installs, found, lost, reader_vars, edits>>

CommitConfig ==
  /\ installer = "commit_config"
  /\ \/ /\ config' = plan
        /\ installer' = "idle"
        /\ outcome' = "ok"
        /\ lost' = FALSE
     \/ /\ installer' = "roll_back"
        /\ UNCHANGED <<config, outcome, lost>>
  /\ UNCHANGED <<state, plan, previous, installs, found, reader_vars, edits>>

\* restore_previous: replace the file, or remove it if there was none.
RollBack ==
  /\ installer = "roll_back"
  /\ \/ /\ state' = Restored
        /\ outcome' = "failed"
        /\ lost' = IF previous = found.state THEN lost ELSE TRUE
     \/ /\ outcome' = "rollback_failed"
        /\ UNCHANGED <<state, lost>>
  /\ installer' = "idle"
  /\ UNCHANGED <<config, plan, previous, installs, found, reader_vars, edits>>

\* The process is killed before its next step.
Kill ==
  /\ installer # "idle"
  /\ installer' = "idle"
  /\ outcome' = "killed"
  /\ UNCHANGED <<files, plan, previous, installs, found, lost, reader_vars, edits>>
-----------------------------------------------------------------------------
EditConfig ==
  /\ edits < MaxEdits
  /\ edits' = edits + 1
  /\ \E c \in Configs \ {config.value} : config' = File(c, 0)
  /\ UNCHANGED <<state, install_vars, reader_vars>>

(* Config::load_exact_profile in a starting session. *)

ReadConfig ==
  /\ reader = "config"
  /\ seen' = config
  /\ reader' = "state"
  /\ UNCHANGED <<files, install_vars, accepted, edits>>

\* load_matching_install_state
LoadMatchingState ==
  /\ reader = "state"
  /\ accepted' = IF state # Absent /\ MatchesUserConfig(state, seen.value)
                 THEN state ELSE Absent
  /\ reader' = "resolved"
  /\ UNCHANGED <<files, install_vars, seen, edits>>

\* Another session starts.
StartAgain ==
  /\ reader = "resolved"
  /\ reader' = "config"
  /\ UNCHANGED <<files, install_vars, seen, accepted, edits>>

Next ==
  \/ Plan \/ ReadPrevious \/ CommitState \/ CommitConfig \/ RollBack \/ Kill
  \/ EditConfig \/ ReadConfig \/ LoadMatchingState \/ StartAgain

Spec == Init /\ [][Next]_vars
-----------------------------------------------------------------------------
(* A session that reads a configuration an installation committed finds    *)
(* the state of that installation, or of a later attempt: never an older   *)
(* one, wherever an installation was killed or failed (state is committed  *)
(* first, and read last). It finds none only if a roll back has removed    *)
(* one it could not read before.                                           *)
CommittedConfigHasItsState ==
  config.by > 0 => \/ state # Absent /\ state.by >= config.by
                   \/ state = Absent /\ lost

(* An installation that fails, and says it was rolled back, leaves both    *)
(* files as it found them: unless the user has edited the configuration    *)
(* meanwhile, or it could not read the state it rolls back, which is then  *)
(* removed (apply, restore_previous).                                      *)
FailedInstallLeavesNoTrace ==
  outcome = "failed" /\ installer = "idle" =>
    /\ state = found.state \/ (state = Absent /\ lost /\ previous # found.state)
    /\ config = found.config \/ config.by = 0

(* A session that starts after an installation succeeded, on the           *)
(* configuration it committed, uses its state: what was resolved is never  *)
(* ignored (the digest in state is that of the configuration committed).   *)
InstalledStateIsUsed ==
  [][(reader = "state" /\ reader' = "resolved" /\ installer = "idle"
        /\ outcome = "ok" /\ seen = plan) => accepted' = State(plan.value, plan.by)]_vars
-----------------------------------------------------------------------------
(* A claim of the repository that the code does not keep. *)

(* alpha4-design.md says an installation interrupted after it committed    *)
(* its state, and before its configuration, cannot activate what it has    *)
(* resolved.                                                               *)
InterruptedInstallActivatesNothing ==
  (/\ outcome = "killed" /\ installer = "idle"
   /\ config.by # plan.by
   /\ reader = "resolved")
  => accepted.by # plan.by
=============================================================================
