----------------------------- MODULE Provisioning -----------------------------
(***************************************************************************)
(* The life of an installation of ptymark: a user edits the configuration, *)
(* runs `install resolve` and `config migrate`, starts sessions of any     *)
(* profile and asks the doctor, while programs and the renderer bundle     *)
(* come and go and the program is upgraded (src/install.rs, src/config.rs, *)
(* src/doctor.rs, src/cli.rs). An installation is one step here; the two   *)
(* files it replaces one after the other are the subject of InstallCommit. *)
(***************************************************************************)
EXTENDS InstallPlan, Doctor, Naturals

CONSTANTS FirstWorlds,  \* what may be installed at first
          UserFiles,    \* configuration files a user may have written
          Requests,     \* what an installation may be asked for
          MaxInstalls,  \* bound: installations
          MaxEvents     \* bound: edits, losses and changes around them

Worlds == [programs : SUBSET Programs, manifest : Manifests]

ASSUME ProvisioningAssumption ==
  /\ FirstWorlds \subseteq Worlds
  /\ \A written \in UserFiles : IsFile(written)
  /\ Requests \subseteq InstallRequests
  /\ MaxInstalls \in Nat /\ MaxEvents \in Nat

VARIABLES
  world,   \* the programs that can be executed, and the bundle's manifest
  file,    \* the user configuration file
  state,   \* the installation state file
  last,    \* history: the last installation, until the user undoes it, or None
  spent    \* the installations and the other events so far

vars == <<world, file, state, last, spent>>

KeepAll == Request(Ask("keep"), Ask("keep"), Ask("keep"), FALSE)
StartOver == Request(Ask("auto"), Ask("auto"), Ask("auto"), TRUE)

\* A session of the default profile: none if it refuses to start.
Session == Load(world, file, state, None)

\* A state an older ptymark left: all roles by its bundle, and no digest.
OlderState == [State(NoDigest, [role \in Roles |-> Bundled(role)]) EXCEPT !.current = FALSE]

Init ==
  /\ world \in FirstWorlds
  /\ file \in {NoFile} \cup UserFiles
  /\ state \in {NoState, OlderState}
  /\ last = None
  /\ spent = [installs |-> 0, events |-> 0]
-----------------------------------------------------------------------------
(* What the user has chosen for an engine, now or before: the route that   *)
(* an installation may not replace. Empty if it was left to ptymark.       *)
DefaultProfileOf(user) == user.profiles[user.default]

KeptChoice(role) ==
  UNION {LET selection == DefaultProfileOf(user).select[role]
         IN CASE selection.provider = "external" -> {Runs(Located(selection.program))}
              [] selection.provider = "managed" ->
                   {Runs(path) : path \in StateProgram(Readable(state), role)}
              [] selection.provider = "auto" -> {}
              [] OTHER -> {BuiltIn(selection.provider)} : user \in Parse(world, file)}

Choice(request, role) ==
  LET asked == request[role]
  IN CASE asked.ask = "program" -> {Runs(Located(asked.program))}
       [] asked.ask \in {"preview", "source"} -> {BuiltIn(asked.ask)}
       [] asked.ask = "keep" /\ ~request.reset -> KeptChoice(role)
       [] OTHER -> {}

\* run_install_resolve: what is planned is written. One that fails changes
\* nothing. Mutant: only the state is written.
ConfigNotWritten(planned) == file
WrittenConfig(planned) == File(planned.user)

InstallResolve ==
  /\ spent.installs < MaxInstalls
  /\ spent' = [spent EXCEPT !.installs = @ + 1]
  /\ \E request \in Requests :
       \E planned \in Plan(world, request, file, state) :
         /\ file' = WrittenConfig(planned)
         /\ state' = planned.state
         /\ last' = <<[user |-> planned.user, view |-> planned.view,
                       chosen |-> [role \in Engines |-> Choice(request, role)],
                       changed |-> {}]>>
  /\ UNCHANGED world

\* run_config, config migrate --write: the file is replaced by what it means.
ConfigMigrate ==
  /\ file.schema = "v1"
  /\ \E user \in Parse(world, file) : file' = File(user)
  /\ UNCHANGED <<world, state, last, spent>>

EditConfig ==
  /\ spent.events < MaxEvents
  /\ spent' = [spent EXCEPT !.events = @ + 1]
  /\ file' \in (UserFiles \cup {Broken}) \ {file}
  /\ last' = None
  /\ UNCHANGED <<world, state>>

\* The state file is removed or damaged, or a newer ptymark has replaced it.
LoseState ==
  /\ spent.events < MaxEvents
  /\ spent' = [spent EXCEPT !.events = @ + 1]
  /\ state' \in {NoState, UnreadableState} \ {state}
  /\ last' = None
  /\ UNCHANGED <<world, file>>

Upgrade ==
  /\ \E s \in Readable(state) : s.current /\ state' = [s EXCEPT !.current = FALSE]
  /\ UNCHANGED <<world, file, last, spent>>

\* A program appears or disappears, or the bundle is installed, damaged, removed.
Changes(what, changed_world) ==
  /\ world' = changed_world
  /\ last' = IF last = None THEN None ELSE <<[last[1] EXCEPT !.changed = @ \cup {what}]>>

ChangeWorld ==
  /\ spent.events < MaxEvents
  /\ spent' = [spent EXCEPT !.events = @ + 1]
  /\ \/ \E p \in Programs :
          Changes("programs", [world EXCEPT !.programs = IF p \in @ THEN @ \ {p} ELSE @ \cup {p}])
     \/ \E m \in Manifests \ {world.manifest} :
          Changes("manifest", [world EXCEPT !.manifest = m])
  /\ UNCHANGED <<file, state>>

Next ==
  \/ InstallResolve \/ ConfigMigrate
  \/ EditConfig \/ LoseState \/ Upgrade \/ ChangeWorld

Spec == Init /\ [][Next]_vars
-----------------------------------------------------------------------------
Installed == last # None
InSameWorld == Installed /\ last[1].changed = {}
Bypassed(profile) == SourceRequested(profile) \/ PlainRequested(profile)

\* The programs a session with this view may start.
Started(view) == {view[role].path : role \in {r \in Engines : IsExternal(view[r])}}
                   \cup (IF NeedsPresenter(view) THEN {view.presenter} ELSE {})
BundleIntact(view) ==
  (\E path \in Started(view) : path[1] = "bundle") => world.manifest = "ready"

\* The profiles a session or the doctor may be told to take: by default, none.
Selectable == {None} \cup UNION {{<<name>> : name \in DOMAIN user.profiles} :
                                  user \in Parse(world, file)}

(* Until the user edits the configuration or loses the state, a session    *)
(* gets the routes the installation printed, also when programs have come  *)
(* and gone since: the digest in the state is that of what was written     *)
(* (plan, fingerprint, matches_user_config, resolve).                      *)
SessionsGetWhatWasPlanned ==
  Installed /\ "manifest" \notin last[1].changed => Session = {last[1].view}

(* What the user chose, now or before, is never replaced by something else *)
(* in an installation that succeeds: a program given or kept is the one    *)
(* that runs, and a built-in route is taken when it was asked for          *)
(* (plan_slot, required_external, fallback_if_optional).                   *)
RequiredChoicesAreKept ==
  Installed /\ ~Bypassed(DefaultProfileOf(last[1].user)) =>
    \A role \in Engines : \A route \in last[1].chosen[role] :
      LET taken == last[1].view[role]
      IN /\ taken.backend = route.backend
         /\ IsExternal(route) => Located(taken.path) = route.path

(* Running the installer again, with nothing asked for and nothing changed *)
(* since, succeeds and changes nothing (plan_existing_slot, plan_presenter *)
(* against what the first run wrote).                                      *)
RerunChangesNothing ==
  InSameWorld =>
    LET rerun == Plan(world, KeepAll, file, state)
    IN /\ rerun # {}
       /\ \A again \in rerun : /\ again.user = last[1].user
                               /\ again.view = last[1].view
                               /\ again.state.components = state.components

(* An engine is active in an installation state only with a presenter: no  *)
(* diagram is ever made that nothing can show (plan, fallback_if_optional).*)
EnginesHaveAPresenter ==
  \A s \in Readable(state) :
    (\E role \in Engines : s.components[role] # None) => s.components["presenter"] # None

(* The doctor, a session and the launcher look at the world each in its    *)
(* own way. An installation leaves a session able to start every program   *)
(* it was given; and from then on, whatever comes or goes, the doctor says *)
(* "ready" of a profile exactly when a session of that profile could start *)
(* all of its programs, unless the state itself gives cause for a warning  *)
(* (inspect_engines, resolve, run_managed_role). Both are said of every    *)
(* view that runs nothing of a damaged bundle: that the doctor does not    *)
(* see all such damage is told in the README.                              *)
ReadyIsUsable ==
  /\ InSameWorld => \A view \in Session : BundleIntact(view) => CanLaunch(world, view)
  /\ InstallationState(state) \in {"missing", "valid"} =>
       \A selected \in Selectable, strict \in BOOLEAN :
         \A view \in {v \in Load(world, file, state, selected) : BundleIntact(v)} :
           DoctorStatus(world, file, state, selected, FALSE, strict) = "ready"
             <=> CanLaunch(world, view)

(* Whatever was edited, removed or damaged, an installation that starts    *)
(* over and leaves all to ptymark succeeds as long as the state file can be*)
(* read (plan_auto_slot, plan_presenter: nothing is required).             *)
StartingOverSucceeds ==
  state # UnreadableState => Plan(world, StartOver, file, state) # {}
=============================================================================
