-------------------------------- MODULE Doctor --------------------------------
(***************************************************************************)
(* The report of `ptymark doctor` (src/doctor.rs): findings about the      *)
(* configuration, the installation state, the engines and the presenter,   *)
(* and the status they add up to. It starts no renderer and writes nothing.*)
(***************************************************************************)
EXTENDS ConfigResolve

\* Severities of the findings that decide a status; information is left out.
Unavailable(strict) == IF strict THEN "error" ELSE "warning"

\* load_configuration: the defaults stand in for one that cannot be used.
InspectedView(world, file, state, selected) ==
  LET views == Load(world, file, state, selected)
  IN IF views # {} THEN CHOOSE view \in views : TRUE
     ELSE CHOOSE view \in Resolve(world, DefaultUser, DefaultUser.default, {}) : TRUE

ConfigurationFindings(world, file, state, selected) ==
  IF Load(world, file, state, selected) = {} THEN {"error"} ELSE {}

\* inspect_installation: valid, unless it is of another version or another
\* configuration's; the digest is not looked at. No state at all is in order.
InstallationState(state) ==
  CASE state.schema = "none" -> "missing"
    [] state.schema = "broken" -> "invalid"
    [] state.schema = "state" -> IF state.current THEN "valid" ELSE "stale"

InstallationFindings(state) ==
  IF InstallationState(state) \in {"invalid", "stale"} THEN {"warning"} ELSE {}

\* inspect_engine: found or not, and compatible if it is an alias of a bundle.
EngineState(world, route) ==
  CASE ~IsExternal(route) -> "built-in"
    [] IsExternal(route) /\ ~Usable(world, route.path) -> "missing"
    [] OTHER -> IF IsAlias(world, Located(route.path)) /\ ~IsCompatible(world, Located(route.path))
                THEN "incompatible" ELSE "ready"

\* inspect_engines looks for the presenter, and at no more than that.
\* Mutant: it is taken to be there.
PresenterUnchecked(world, view) == IF NeedsPresenter(view) THEN "ready" ELSE "inactive"
PresenterState(world, view) ==
  CASE ~NeedsPresenter(view) -> "inactive"
    [] OTHER -> IF Usable(world, view.presenter) THEN "ready" ELSE "missing"

EngineFindings(world, view, strict) ==
  {Unavailable(strict) : s \in {EngineState(world, view[r]) : r \in Engines}
                                 \intersect {"missing", "incompatible"}}
  \cup {Unavailable(strict) : s \in {PresenterState(world, view)} \intersect {"missing"}}

\* DoctorReport::collect. Engines that are bypassed, by --safe or by a source
\* mode, are not inspected.
Findings(world, file, state, selected, bypass, strict) ==
  ConfigurationFindings(world, file, state, selected)
  \cup InstallationFindings(state)
  \cup IF bypass THEN {}
       ELSE EngineFindings(world, InspectedView(world, file, state, selected), strict)

\* DiagnosticStatus::from_findings
Status(findings) ==
  CASE "error" \in findings -> "unusable"
    [] "error" \notin findings /\ "warning" \in findings -> "degraded"
    [] OTHER -> "ready"

DoctorStatus(world, file, state, selected, bypass, strict) ==
  Status(Findings(world, file, state, selected, bypass, strict))
=============================================================================
