------------------------------ MODULE InstallPlan ------------------------------
(***************************************************************************)
(* What an installation decides (Installer::plan of src/install.rs): from  *)
(* what the user asks for now, what was configured and installed before,   *)
(* and the programs that can be found, a new configuration and the state   *)
(* that goes with it, or an error.                                         *)
(***************************************************************************)
EXTENDS ConfigResolve

\* What is asked for an engine: keep, auto, preview or source, or a program.
Keep == "keep"
Ask(what) == [ask |-> what, program |-> None]
AskFor(path) == [ask |-> "program", program |-> path]
EngineAsks == {Ask(what) : what \in {"keep", "auto", "preview", "source"}}
                \cup {AskFor(path) : path \in Paths}
PresenterAsks == {Ask("keep"), Ask("auto")} \cup {AskFor(path) : path \in Paths}
InstallRequests ==
  [mermaid : EngineAsks, math : EngineAsks, presenter : PresenterAsks, reset : BOOLEAN]
Request(mermaid, math, presenter, reset) ==
  [mermaid |-> mermaid, math |-> math, presenter |-> presenter, reset |-> reset]

\* The planned slot of an engine (SlotPlan) and of the presenter (PresenterPlan).
Slot(route, resolved, required, selection) ==
  [route |-> route, resolved |-> resolved, required |-> required, selection |-> selection]
Presenter(resolved, selection) == [resolved |-> resolved, selection |-> selection]

BuiltInSlot(route, selection) == Slot(route, None, FALSE, selection)
ExternalSlot(path, required, selection) == Slot("external", path, required, selection)

\* A bundled program is chosen by its role, any other by its path.
ChosenSelection(world, path) ==
  IF IsAlias(world, Located(path)) THEN Select("managed") ELSE External(path)

\* A program that was chosen must be there. Mutant: or the preview will do.
RequiredOrPreview(world, path) ==
  {IF Usable(world, path) THEN ExternalSlot(Located(path), TRUE, ChosenSelection(world, path))
   ELSE BuiltInSlot("preview", Select("auto"))}
RequiredExternal(world, path) ==
  {s \in {ExternalSlot(Located(path), TRUE, ChosenSelection(world, path))} : Usable(world, path)}

\* One that is only looked for gives way to the preview. Mutant: it is
\* taken to be there.
AutoSlotUnchecked(world, role) ==
  {ExternalSlot(Located(Bare(role)), FALSE, Select("auto"))}
PlanAutoSlot(world, role) ==
  {IF Usable(world, Bare(role))
   THEN ExternalSlot(Located(Bare(role)), FALSE, Select("auto"))
   ELSE BuiltInSlot("preview", Select("auto"))}

\* A managed choice is kept with the program the known state has for it.
\* Mutant: nothing is kept, the engine is looked for again.
LookedForAgain(world, role, selection, known) == PlanAutoSlot(world, role)
PlanExistingSlot(world, role, selection, known) ==
  IF selection.provider = "auto" THEN PlanAutoSlot(world, role)
  ELSE IF selection.provider = "external" THEN RequiredExternal(world, selection.program)
  ELSE IF selection.provider = "managed"
  THEN {ExternalSlot(path, TRUE, selection) :
          path \in {p \in StateProgram(known, role) : Usable(world, p)}}
  ELSE {BuiltInSlot(selection.provider, selection)}

PlanSlot(world, role, asked, existing, selection, known) ==
  IF asked.ask = "keep" /\ existing THEN PlanExistingSlot(world, role, selection, known)
  ELSE IF asked.ask \in {"keep", "auto"} THEN PlanAutoSlot(world, role)
  ELSE IF asked.ask = "program" THEN RequiredExternal(world, asked.program)
  ELSE {BuiltInSlot(asked.ask, Select(asked.ask))}

\* The presenter is resolved only for an engine that needs one, unless it is
\* asked for by its path: then it must be there, and is kept for later.
AskedPresenter(world, path, externals) ==
  {p \in {Presenter(IF externals # {} THEN Located(path) ELSE None, ChosenSelection(world, path))} :
     Usable(world, path)}

\* Where a presenter that is not asked for is looked for.
PresenterCandidates(selection, known) ==
  IF selection.provider = "auto" THEN {Bare("presenter")}
  ELSE IF selection.provider = "external" THEN {selection.program}
  ELSE StateProgram(known, "presenter")

\* It may be missing only if it was left to ptymark, and no engine was chosen.
\* Mutant: it may never be missing.
FoundOrNone(world, selection, known, externals) ==
  {Presenter(Located(path), selection) :
     path \in {p \in PresenterCandidates(selection, known) : Usable(world, p)}}
FoundPresenter(world, selection, known, externals) ==
  LET mustResolve == selection.provider # "auto" \/ \E s \in externals : s.required
  IN {Presenter(IF Usable(world, path) THEN Located(path) ELSE None, selection) :
        path \in {p \in PresenterCandidates(selection, known) : Usable(world, p) \/ ~mustResolve}}

\* externals: the slots of the engines that need a presenter.
PlanPresenter(world, asked, existing, selection, known, externals) ==
  LET kept == IF asked.ask = "keep" /\ existing THEN selection ELSE Select("auto")
  IN IF asked.ask = "program" THEN AskedPresenter(world, asked.program, externals)
     ELSE IF externals # {} THEN FoundPresenter(world, kept, known, externals)
     ELSE {Presenter(None, kept)}

\* fallback_if_optional: an engine nobody chose is given up with the presenter.
\* Mutant: it is kept although nothing can present what it makes.
KeepAnyway(slot) == slot
FallbackIfOptional(slot) ==
  IF slot.route = "external" /\ ~slot.required THEN BuiltInSlot("preview", slot.selection)
  ELSE slot

\* into_component: the program, if there is one.
Component(slot) == slot.resolved

\* The selections are written to the default profile, and the state carries
\* the digest of what is written.
PlannedUser(user, mermaid, math, presenter) ==
  [user EXCEPT !.profiles[user.default].select =
     [mermaid |-> mermaid.selection, math |-> math.selection, presenter |-> presenter.selection]]

PlannedState(user, mermaid, math, presenter) ==
  State(Digest(user), [mermaid |-> Component(mermaid), math |-> Component(math),
                       presenter |-> Component(presenter)])

\* plan: validated, and resolved as a session will resolve it.
Plans(world, user, mermaid, math, presenter) ==
  LET given_up == presenter.resolved = None
      mermaid_slot == IF given_up THEN FallbackIfOptional(mermaid) ELSE mermaid
      math_slot == IF given_up THEN FallbackIfOptional(math) ELSE math
      planned == PlannedUser(user, mermaid_slot, math_slot, presenter)
      new_state == PlannedState(planned, mermaid_slot, math_slot, presenter)
  IN {[user |-> planned, state |-> new_state, view |-> view] :
        view \in Resolve(world, planned, planned.default, {new_state})}

\* The decisions in their order: both engines, then the presenter they need.
PlanWith(world, request, user, existing, known, m, a) ==
  LET selection == user.profiles[user.default].select["presenter"]
      externals == {s \in {m, a} : s.route = "external"}
  IN UNION {Plans(world, user, m, a, p) :
              p \in PlanPresenter(world, request.presenter, existing, selection, known, externals)}

PlanFor(world, request, user, existing, known) ==
  LET slots(role) == PlanSlot(world, role, request[role], existing,
                              user.profiles[user.default].select[role], known)
  IN UNION {UNION {PlanWith(world, request, user, existing, known, m, a) :
                     a \in slots("math")} : m \in slots("mermaid")}

(* Installer::plan. A state that cannot be read stops it; so does a        *)
(* configuration that cannot, unless it is to be replaced.                 *)
Plan(world, request, file, state) ==
  LET existing == file # NoFile /\ ~request.reset
      users == IF existing THEN Parse(world, file) ELSE {DefaultUser}
  IN IF state = UnreadableState THEN {}
     ELSE UNION {PlanFor(world, request, user, existing, Readable(state)) : user \in users}
=============================================================================
