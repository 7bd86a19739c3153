----------------------------- MODULE ConfigResolve -----------------------------
(***************************************************************************)
(* How a session's configuration comes about (src/config.rs): what the     *)
(* user wrote, normalized and validated, together with the installation    *)
(* state made for it, resolves to a route for each kind of block and a     *)
(* presenter.                                                              *)
(*                                                                         *)
(* A decision that may fail is the set of its results: empty when it fails.*)
(* A world is what the file system holds apart from the two files: the     *)
(* programs that can be executed, and the manifest of the renderer bundle. *)
(***************************************************************************)
EXTENDS FiniteSets

Engines == {"mermaid", "math"}
Roles == Engines \cup {"presenter"}

\* Program paths: a bare name to be looked up on PATH, a program of the
\* user's, or a renderer alias inside a bundle of ptymark's own.
Bare(role) == <<"bare", role>>
Own(role) == <<"own", role>>
Bundled(role) == <<"bundle", role>>
Programs == {Own(r) : r \in Roles} \cup {Bundled(r) : r \in Roles}
Paths == {Bare(r) : r \in Roles} \cup Programs
None == <<>>

\* resolve_executable: a bare name is found among the user's programs.
Located(path) == IF path[1] = "bare" THEN Own(path[2]) ELSE path
Usable(world, path) == Located(path) \in world.programs

\* The manifest beside the aliases: unreadable, of another schema or with a
\* path that is gone, naming an entry point that is gone, or in order.
Manifests == {"absent", "unreadable", "invalid", "no_entry", "ready"}

(* inspect_managed_alias answers for any manifest that is there; its       *)
(* status is compatible when validate_manifest finds the paths in order.   *)
IsAlias(world, path) == path[1] = "bundle" /\ world.manifest # "absent"
IsCompatible(world, path) ==
  IsAlias(world, path) /\ world.manifest \in {"no_entry", "ready"}

\* run_managed_role: what a launched alias requires before it starts Node.
Launches(world, path) ==
  /\ Usable(world, path)
  /\ path[1] = "bundle" => world.manifest = "ready"
-----------------------------------------------------------------------------
(* The user's configuration: profiles of selections, and a default profile.*)

EngineProviders == {"auto", "preview", "source", "managed", "external"}
PresenterProviders == {"auto", "managed", "external"}

Selections(providers) == [provider : providers, program : Paths \cup {None}]
Select(provider) == [provider |-> provider, program |-> None]
External(path) == [provider |-> "external", program |-> path]

\* session: render or source; show: auto, plain or source; cache: the memory
\* backend with positive limits, with a limit of zero, or none.
IsProfile(profile) ==
  /\ profile \in [session : {"render", "source"}, show : {"auto", "plain", "source"},
                  cache : {"memory", "zero", "none"},
                  select : [Roles -> Selections(EngineProviders)]]
  /\ profile.select["presenter"].provider \in PresenterProviders

\* UserConfig: profiles under any names, of which one is meant to be the default.
IsUser(user) ==
  /\ user = [default |-> user.default, profiles |-> user.profiles]
  /\ user.profiles = [name \in DOMAIN user.profiles |-> user.profiles[name]]
  /\ \A name \in DOMAIN user.profiles : IsProfile(user.profiles[name])

\* validate_engine_selection, validate_presenter_selection
ValidSelection(selection) == (selection.provider = "external") <=> (selection.program # None)

ValidProfile(profile) ==
  /\ profile.cache # "zero"
  /\ \A role \in Roles : ValidSelection(profile.select[role])

ValidUser(user) ==
  /\ user.default \in DOMAIN user.profiles
  /\ \A name \in DOMAIN user.profiles : ValidProfile(user.profiles[name])

DefaultProfile == [session |-> "render", show |-> "auto", cache |-> "memory",
                   select |-> [role \in Roles |-> Select("auto")]]
OneProfile(profile) == [default |-> "default", profiles |-> [n \in {"default"} |-> profile]]
DefaultUser == OneProfile(DefaultProfile)
-----------------------------------------------------------------------------
(* Schema 1, which names a backend and a path for each role, becomes one   *)
(* profile: LegacyConfig::into_user_config.                                *)

LegacyConfigs ==
  [mermaid : [backend : {"preview", "source", "mermaid-cli"}, path : Paths],
   math : [backend : {"preview", "source", "mathjax-cli"}, path : Paths],
   presenter : Paths, source : BOOLEAN, cache : {"memory", "zero", "none"}]

\* legacy_external_selection
LegacyExternal(world, path) ==
  IF IsAlias(world, path) THEN Select("managed") ELSE External(path)

LegacyEngine(world, engine) ==
  IF engine.backend \in {"preview", "source"} THEN Select(engine.backend)
  ELSE LegacyExternal(world, engine.path)

LegacyPresenter(world, legacy) ==
  IF \E role \in Engines :
       LegacyEngine(world, legacy[role]).provider \in {"external", "managed"}
  THEN LegacyExternal(world, legacy.presenter)
  ELSE Select("auto")

IntoUserConfig(world, legacy) ==
  OneProfile([session |-> IF legacy.source THEN "source" ELSE "render",
              show |-> IF legacy.source THEN "source" ELSE "auto",
              cache |-> legacy.cache,
              select |-> [role \in Roles |-> IF role = "presenter"
                                             THEN LegacyPresenter(world, legacy)
                                             ELSE LegacyEngine(world, legacy[role])]])

\* The configuration file. A broken one does not parse, or names no schema.
NoFile == [schema |-> "none"]
Broken == [schema |-> "broken"]
File(user) == [schema |-> "v2", user |-> user]
LegacyFile(legacy) == [schema |-> "v1", legacy |-> legacy]

\* A file that parses, whether it is valid or not.
IsFile(file) == \/ /\ file.schema = "v2"
                   /\ file = File(file.user) /\ IsUser(file.user)
                \/ /\ file.schema = "v1"
                   /\ file = LegacyFile(file.legacy) /\ file.legacy \in LegacyConfigs

\* UserConfig::load_exact, parse and validate.
Parse(world, file) ==
  {user \in CASE file.schema = "v1" -> {IntoUserConfig(world, file.legacy)}
              [] file.schema = "v2" -> {file.user}
              [] OTHER -> {} : ValidUser(user)}
-----------------------------------------------------------------------------
(* The installation state: the program active for each role, of which the  *)
(* user configuration with this digest was resolved. A digest is taken of  *)
(* the normalized configuration; a state of the older schema has none. One *)
(* that this version of ptymark wrote is current.                          *)

Digest(user) == <<user>>
NoDigest == <<>>
NoState == [schema |-> "none"]
UnreadableState == [schema |-> "broken"]
State(digest, components) ==
  [schema |-> "state", digest |-> digest, components |-> components, current |-> TRUE]

Readable(state) == {s \in {state} : s.schema = "state"}

\* InstallState::matches_user_config, for a state of the same config path.
MatchesUserConfig(state, user) == state.digest = NoDigest \/ state.digest = Digest(user)

\* load_matching_install_state: a set of at most one state.
MatchingState(state, user) == {s \in Readable(state) : MatchesUserConfig(s, user)}

\* A component: the resolved program, or None. state_program: of known states.
StateProgram(known, role) == {s.components[role] : s \in known} \ {None}

\* managed_state_program
ManagedStateProgram(world, known, role) ==
  {path \in StateProgram(known, role) : IsAlias(world, path)}
-----------------------------------------------------------------------------
(* UserConfig::resolve. A route is a built-in one or the external program. *)

BuiltIn(backend) == [backend |-> backend, path |-> None]
Runs(path) == [backend |-> "external", path |-> path]

SourceRequested(profile) == profile.session = "source" \/ profile.show = "source"
PlainRequested(profile) == profile.show = "plain"

\* resolve_mermaid and resolve_math
ResolveEngine(world, profile, known, role) ==
  LET selection == profile.select[role]
      found == StateProgram(known, role)
  IN CASE SourceRequested(profile) -> {BuiltIn("source")}
       [] ~SourceRequested(profile) /\ PlainRequested(profile) -> {BuiltIn("preview")}
       [] OTHER ->
            CASE selection.provider \in {"preview", "source"} -> {BuiltIn(selection.provider)}
              [] selection.provider = "external" -> {Runs(selection.program)}
              [] selection.provider = "managed" ->
                   {Runs(path) : path \in ManagedStateProgram(world, known, role)}
              [] selection.provider = "auto" ->
                   IF found = {} THEN {BuiltIn("preview")} ELSE {Runs(path) : path \in found}

ResolvePresenter(world, profile, known, required) ==
  LET selection == profile.select["presenter"]
      found == StateProgram(known, "presenter")
  IN CASE ~required -> {Bare("presenter")}
       [] required /\ selection.provider = "external" -> {selection.program}
       [] required /\ selection.provider = "managed" ->
            ManagedStateProgram(world, known, "presenter")
       [] required /\ selection.provider = "auto" ->
            IF found = {} THEN {Bare("presenter")} ELSE found

\* The resolved configuration, as far as its routes go.
View(mermaid, math, presenter) == [mermaid |-> mermaid, math |-> math, presenter |-> presenter]
IsExternal(route) == route.backend = "external"
NeedsPresenter(view) == \E role \in Engines : IsExternal(view[role])

\* Everything a session with this view may start can be started.
CanLaunch(world, view) ==
  /\ \A role \in Engines : IsExternal(view[role]) => Launches(world, view[role].path)
  /\ NeedsPresenter(view) => Launches(world, view.presenter)

Resolve(world, user, name, known) ==
  IF ~ValidUser(user) \/ name \notin DOMAIN user.profiles THEN {}
  ELSE LET profile == user.profiles[name]
       IN UNION {{View(mermaid, math, presenter) :
                    presenter \in ResolvePresenter(world, profile, known,
                                    IsExternal(mermaid) \/ IsExternal(math))} :
                 mermaid \in ResolveEngine(world, profile, known, "mermaid"),
                 math \in ResolveEngine(world, profile, known, "math")}

(* Config::load_profile: without a file, the defaults and no state. No     *)
(* profile is named: the default one.                                      *)
Load(world, file, state, selected) ==
  LET name(user) == IF selected = None THEN user.default ELSE selected[1]
  IN IF file = NoFile THEN Resolve(world, DefaultUser, name(DefaultUser), {})
     ELSE UNION {Resolve(world, user, name(user), MatchingState(state, user)) :
                   user \in Parse(world, file)}
=============================================================================
