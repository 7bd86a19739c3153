-------------------------- MODULE Provisioning_proofs --------------------------
(***************************************************************************)
(* What holds of an installation whatever was configured, installed, asked *)
(* for and found, and however the world changes around it.                 *)
(*                                                                         *)
(* The argument: what an installation decides for each role is of a few    *)
(* good forms (GoodSlot, GoodPresenter). What it writes for a good decision*)
(* is read back by a session as one view (PlannedIsResolved), of programs  *)
(* that are there (PlannedIsUsable) and were chosen (ViewTakes), and is    *)
(* decided again when the installer is run again (DecidedAgain). The       *)
(* inductive invariant ProvisioningInv keeps these facts of the two files  *)
(* and the last installation, as long as nothing they depend on changes.   *)
(***************************************************************************)
EXTENDS Provisioning, TLAPS

\* A set of programs that can be executed: the part of the type that matters.
WorldOK(w) == w.programs \subseteq Programs

\* What was found on PATH is a program, and is found again where it is.
LEMMA LocatedIsFinal ==
  ASSUME NEW w, WorldOK(w), NEW path, Usable(w, path)
  PROVE  /\ Located(path) \in Programs
         /\ Located(path) # None
         /\ Located(Located(path)) = Located(path)
         /\ Usable(w, Located(path))
<1>1. Located(path) \in Programs
  BY DEF WorldOK, Usable
<1>2. \A q \in Programs : q # None /\ q[1] # "bare"
  BY DEF Programs, None, Own, Bundled
<1>3. Located(Located(path)) = Located(path)
  <2> DEFINE q == Located(path)
  <2>1. q[1] # "bare"
    BY <1>1, <1>2
  <2> HIDE DEF q
  <2>2. Located(q) = q
    BY <2>1 DEF Located
  <2> QED BY <2>2 DEF q
<1> QED BY <1>1, <1>2, <1>3 DEF Usable

\* A known program is where it is.
LEMMA ProgramIsLocated ==
  ASSUME NEW path \in Programs
  PROVE  path # None /\ Located(path) = path
<1>1. path # None /\ path[1] # "bare"
  BY DEF Programs, None, Own, Bundled
<1> QED BY <1>1 DEF Located

\* What is known of a role is this program, or nothing if that is None.
Only(S, x) == S = {x}
OnlyProgram(known, role, path) == StateProgram(known, role) = {path} \ {None}

\* What an engine may be given: found, not found, chosen by its path or by
\* its role, or built in.
GoodSlot(w, role, slot) ==
  \/ slot = ExternalSlot(Located(Bare(role)), FALSE, Select("auto")) /\ Usable(w, Bare(role))
  \/ slot = BuiltInSlot("preview", Select("auto")) /\ ~Usable(w, Bare(role))
  \/ \E path : /\ slot = ExternalSlot(Located(path), TRUE, External(path))
               /\ Usable(w, path) /\ ~IsAlias(w, Located(path))
  \/ \E path, selection : /\ slot = ExternalSlot(path, TRUE, selection)
                          /\ selection.provider = "managed"
                          /\ path \in Programs /\ Usable(w, path)
  \/ \E selection : /\ slot = BuiltInSlot(selection.provider, selection)
                    /\ selection.provider \in {"preview", "source"}

\* A role left to ptymark: found or not.
LEMMA AutoIsGood ==
  ASSUME NEW w, NEW role, NEW slot \in PlanAutoSlot(w, role)
  PROVE  GoodSlot(w, role, slot)
  BY DEF PlanAutoSlot, GoodSlot

\* A program that was asked for.
LEMMA RequiredIsGood ==
  ASSUME NEW w, WorldOK(w), NEW role, NEW path, NEW slot \in RequiredExternal(w, path)
  PROVE  GoodSlot(w, role, slot)
<1>1. slot = ExternalSlot(Located(path), TRUE, ChosenSelection(w, path)) /\ Usable(w, path)
  BY DEF RequiredExternal
<1>2. CASE IsAlias(w, Located(path))
  <2>1. slot = ExternalSlot(Located(path), TRUE, Select("managed"))
    BY <1>1, <1>2 DEF ChosenSelection
  <2>2. Located(path) \in Programs /\ Usable(w, Located(path))
    BY <1>1, LocatedIsFinal
  <2>3. Select("managed").provider = "managed"
    BY DEF Select
  <2> QED BY <2>1, <2>2, <2>3 DEF GoodSlot
<1>3. CASE ~IsAlias(w, Located(path))
  BY <1>1, <1>3 DEF ChosenSelection, GoodSlot
<1> QED BY <1>2, <1>3

\* So every role of a configuration that is valid.
LEMMA PlannedIsGood ==
  ASSUME NEW w, WorldOK(w), NEW role, NEW asked \in EngineAsks, NEW existing,
         NEW selection, selection.provider \in EngineProviders,
         NEW known, StateProgram(known, role) \subseteq Programs,
         NEW slot \in PlanSlot(w, role, asked, existing, selection, known)
  PROVE  GoodSlot(w, role, slot)
<1>1. ASSUME slot \in PlanExistingSlot(w, role, selection, known) PROVE GoodSlot(w, role, slot)
  <2>1. CASE selection.provider = "auto"
    BY <1>1, <2>1, AutoIsGood DEF PlanExistingSlot
  <2>2. CASE selection.provider = "external"
    BY <1>1, <2>2, RequiredIsGood DEF PlanExistingSlot
  <2>3. CASE selection.provider = "managed"
    <3>1. PICK path \in StateProgram(known, role) :
            Usable(w, path) /\ slot = ExternalSlot(path, TRUE, selection)
      BY <1>1, <2>3 DEF PlanExistingSlot
    <3> QED BY <3>1, <2>3 DEF GoodSlot
  <2>4. CASE selection.provider \in {"preview", "source"}
    BY <1>1, <2>4 DEF PlanExistingSlot, GoodSlot
  <2> QED BY <2>1, <2>2, <2>3, <2>4 DEF EngineProviders
<1>2. CASE asked.ask = "keep" /\ existing
  BY <1>1, <1>2 DEF PlanSlot
<1>3. CASE ~(asked.ask = "keep" /\ existing) /\ asked.ask \in {"keep", "auto"}
  BY <1>3, AutoIsGood DEF PlanSlot
<1>4. CASE asked.ask = "program"
  BY <1>4, RequiredIsGood DEF PlanSlot
<1>5. CASE asked.ask \in {"preview", "source"}
  <2>1. slot = BuiltInSlot(asked.ask, Select(asked.ask)) /\ Select(asked.ask).provider = asked.ask
    BY <1>5 DEF PlanSlot, Select
  <2> QED BY <2>1, <1>5 DEF GoodSlot
<1>6. asked.ask \in {"keep", "auto", "program", "preview", "source"}
  BY DEF EngineAsks, Ask, AskFor
<1> QED BY <1>2, <1>3, <1>4, <1>5, <1>6

\* What a planned engine selects is planned again, with the same program.
LEMMA SlotIsKept ==
  ASSUME NEW w, WorldOK(w), NEW role, NEW slot, GoodSlot(w, role, slot), NEW known,
         slot.selection.provider = "auto"
           \/ OnlyProgram(known, role, slot.resolved)
  PROVE  Only(PlanExistingSlot(w, role, slot.selection, known), slot)
<1> USE DEF Only, ExternalSlot, BuiltInSlot, Slot
<1>1. CASE slot = ExternalSlot(Located(Bare(role)), FALSE, Select("auto")) /\ Usable(w, Bare(role))
  BY <1>1 DEF PlanExistingSlot, PlanAutoSlot, Select
<1>2. CASE slot = BuiltInSlot("preview", Select("auto")) /\ ~Usable(w, Bare(role))
  BY <1>2 DEF PlanExistingSlot, PlanAutoSlot, Select
<1>3. ASSUME NEW path, slot = ExternalSlot(Located(path), TRUE, External(path)),
             Usable(w, path), ~IsAlias(w, Located(path))
      PROVE  Only(PlanExistingSlot(w, role, slot.selection, known), slot)
  <2>1. slot.selection = External(path) /\ slot.selection.provider = "external"
        /\ slot.selection.program = path
    BY <1>3 DEF External
  <2>2. PlanExistingSlot(w, role, slot.selection, known) = RequiredExternal(w, path)
    BY <2>1 DEF PlanExistingSlot
  <2>3. ChosenSelection(w, path) = External(path)
    BY <1>3 DEF ChosenSelection
  <2> QED BY <1>3, <2>2, <2>3 DEF RequiredExternal
<1>4. ASSUME NEW path, NEW selection, slot = ExternalSlot(path, TRUE, selection),
             selection.provider = "managed", path \in Programs, Usable(w, path)
      PROVE  Only(PlanExistingSlot(w, role, slot.selection, known), slot)
  <2>1. slot.selection = selection /\ slot.resolved = path
    BY <1>4
  <2>2. StateProgram(known, role) = {path}
    BY <1>4, <2>1, ProgramIsLocated DEF OnlyProgram, Select
  <2> QED BY <1>4, <2>1, <2>2 DEF PlanExistingSlot
<1>5. ASSUME NEW selection, slot = BuiltInSlot(selection.provider, selection),
             selection.provider \in {"preview", "source"}
      PROVE  Only(PlanExistingSlot(w, role, slot.selection, known), slot)
  BY <1>5 DEF PlanExistingSlot
<1> QED BY <1>1, <1>2, <1>3, <1>4, <1>5 DEF GoodSlot

-----------------------------------------------------------------------------
(* The presenter.                                                          *)

\* A planned presenter: not looked for, found, given up, chosen by its path or
\* by its role.
GoodPresenter(w, p, externals) ==
  /\ p = Presenter(p.resolved, p.selection)
  /\ p.selection.provider \in PresenterProviders
  /\ \/ externals = {} /\ p.resolved = None
     \/ /\ externals # {} /\ p.selection.provider = "auto"
        /\ Usable(w, Bare("presenter")) /\ p.resolved = Located(Bare("presenter"))
     \/ /\ externals # {} /\ p.selection.provider = "auto"
        /\ ~Usable(w, Bare("presenter")) /\ p.resolved = None
        /\ \A s \in externals : ~s.required
     \/ /\ externals # {} /\ p.selection.provider = "external"
        /\ Usable(w, p.selection.program) /\ p.resolved = Located(p.selection.program)
     \/ /\ externals # {} /\ p.selection.provider = "managed"
        /\ p.resolved \in Programs /\ Usable(w, p.resolved)

\* The presenter that was asked for.
LEMMA AskedPresenterIsGood ==
  ASSUME NEW w, WorldOK(w), NEW path, NEW externals, NEW p \in AskedPresenter(w, path, externals)
  PROVE  GoodPresenter(w, p, externals)
<1>1. /\ p = Presenter(IF externals # {} THEN Located(path) ELSE None, ChosenSelection(w, path))
      /\ Usable(w, path)
  BY DEF AskedPresenter
<1>2. /\ p.resolved = IF externals # {} THEN Located(path) ELSE None
      /\ p.selection = ChosenSelection(w, path)
      /\ p = Presenter(p.resolved, p.selection)
  BY <1>1 DEF Presenter
<1>3. CASE IsAlias(w, Located(path))
  <2>1. p.selection.provider = "managed"
    BY <1>2, <1>3 DEF ChosenSelection, Select
  <2>2. Located(path) \in Programs /\ Usable(w, Located(path))
    BY <1>1, LocatedIsFinal
  <2> QED BY <1>2, <2>1, <2>2 DEF GoodPresenter, PresenterProviders
<1>4. CASE ~IsAlias(w, Located(path))
  <2>1. p.selection.provider = "external" /\ p.selection.program = path
    BY <1>2, <1>4 DEF ChosenSelection, External
  <2> QED BY <1>1, <1>2, <2>1 DEF GoodPresenter, PresenterProviders
<1> QED BY <1>3, <1>4

\* The presenter that was looked for.
LEMMA FoundPresenterIsGood ==
  ASSUME NEW w, WorldOK(w), NEW selection, selection.provider \in PresenterProviders,
         NEW known, StateProgram(known, "presenter") \subseteq Programs,
         NEW externals, externals # {},
         NEW p \in FoundPresenter(w, selection, known, externals)
  PROVE  GoodPresenter(w, p, externals)
<1>1. PICK path \in PresenterCandidates(selection, known) :
        /\ p = Presenter(IF Usable(w, path) THEN Located(path) ELSE None, selection)
        /\ Usable(w, path) \/ ~(selection.provider # "auto" \/ \E s \in externals : s.required)
  BY DEF FoundPresenter
<1>2. /\ p.resolved = IF Usable(w, path) THEN Located(path) ELSE None
      /\ p.selection = selection
      /\ p = Presenter(p.resolved, p.selection)
  BY <1>1 DEF Presenter
<1>3. CASE selection.provider = "auto"
  <2>1. path = Bare("presenter")
    BY <1>1, <1>3 DEF PresenterCandidates
  <2> QED BY <1>1, <1>2, <1>3, <2>1 DEF GoodPresenter
<1>4. CASE selection.provider = "external"
  <2>1. path = selection.program
    BY <1>1, <1>4 DEF PresenterCandidates
  <2> QED BY <1>1, <1>2, <1>4, <2>1 DEF GoodPresenter
<1>5. CASE selection.provider = "managed"
  <2>1. path \in Programs
    BY <1>1, <1>5 DEF PresenterCandidates
  <2> QED BY <1>1, <1>2, <1>5, <2>1, ProgramIsLocated DEF GoodPresenter
<1> QED BY <1>3, <1>4, <1>5 DEF PresenterProviders

\* So every presenter of a configuration that is valid.
LEMMA PresenterIsGood ==
  ASSUME NEW w, WorldOK(w), NEW asked \in PresenterAsks, NEW existing,
         NEW selection, selection.provider \in PresenterProviders,
         NEW known, StateProgram(known, "presenter") \subseteq Programs, NEW externals,
         NEW p \in PlanPresenter(w, asked, existing, selection, known, externals)
  PROVE  GoodPresenter(w, p, externals)
<1> DEFINE kept == IF asked.ask = "keep" /\ existing THEN selection ELSE Select("auto")
<1>1. kept.provider \in PresenterProviders
  BY DEF Select, PresenterProviders
<1> HIDE DEF kept
<1>2. CASE asked.ask = "program"
  BY <1>2, AskedPresenterIsGood DEF PlanPresenter
<1>3. CASE asked.ask # "program" /\ externals # {}
  <2>1. p \in FoundPresenter(w, kept, known, externals)
    BY <1>3 DEF PlanPresenter, kept
  <2> QED BY <1>1, <1>3, <2>1, FoundPresenterIsGood
<1>4. CASE asked.ask # "program" /\ externals = {}
  <2>1. p = Presenter(None, kept)
    BY <1>4 DEF PlanPresenter, kept
  <2> QED BY <1>1, <1>4, <2>1 DEF GoodPresenter, Presenter
<1> QED BY <1>2, <1>3, <1>4

\* What a planned presenter selects is planned again, with the same program.
LEMMA PresenterIsKept ==
  ASSUME NEW w, WorldOK(w), NEW externals, NEW p, GoodPresenter(w, p, externals), NEW known,
         OnlyProgram(known, "presenter", p.resolved)
  PROVE  Only(PlanPresenter(w, Ask("keep"), TRUE, p.selection, known, externals), p)
<1> USE DEF Only
<1> DEFINE found == FoundPresenter(w, p.selection, known, externals)
<1>1. PlanPresenter(w, Ask("keep"), TRUE, p.selection, known, externals)
        = IF externals # {} THEN found ELSE {Presenter(None, p.selection)}
  BY DEF PlanPresenter, Ask
<1>2. p = Presenter(p.resolved, p.selection)
  BY DEF GoodPresenter
<1>3. CASE externals = {}
  BY <1>1, <1>2, <1>3 DEF GoodPresenter
<1>4. ASSUME externals # {},
             NEW path, PresenterCandidates(p.selection, known) = {path},
             p.resolved = IF Usable(w, path) THEN Located(path) ELSE None,
             Usable(w, path) \/ (p.selection.provider = "auto" /\ \A s \in externals : ~s.required)
      PROVE  found = {p}
  BY <1>2, <1>4 DEF FoundPresenter
<1>5. CASE externals # {} /\ p.selection.provider = "auto"
  <2>1. PresenterCandidates(p.selection, known) = {Bare("presenter")}
    BY <1>5 DEF PresenterCandidates
  <2> QED BY <1>1, <1>4, <1>5, <2>1 DEF GoodPresenter
<1>6. CASE externals # {} /\ p.selection.provider = "external"
  <2>1. PresenterCandidates(p.selection, known) = {p.selection.program}
    BY <1>6 DEF PresenterCandidates
  <2> QED BY <1>1, <1>4, <1>6, <2>1 DEF GoodPresenter
<1>7. CASE externals # {} /\ p.selection.provider = "managed"
  <2>1. p.resolved \in Programs /\ Usable(w, p.resolved)
    BY <1>7 DEF GoodPresenter
  <2>2. p.resolved # None /\ Located(p.resolved) = p.resolved
    BY <2>1, ProgramIsLocated
  <2>3. PresenterCandidates(p.selection, known) = {p.resolved}
    BY <1>7, <2>2 DEF PresenterCandidates, OnlyProgram
  <2> QED BY <1>1, <1>4, <1>7, <2>1, <2>2, <2>3
<1> QED BY <1>3, <1>5, <1>6, <1>7 DEF GoodPresenter, PresenterProviders
-----------------------------------------------------------------------------
\* What an engine ends up with.
Settled(slot, p) == IF p.resolved = None THEN FallbackIfOptional(slot) ELSE slot

ExternalsOf(m, a) == {s \in {m, a} : s.route = "external"}

\* The facts of a settled slot that the rest needs.
SettledOK(w, role, slot) ==
  /\ slot.selection.provider \in EngineProviders
  /\ slot.resolved \in {None} \cup Programs
  /\ slot.resolved # None => slot.route = "external" /\ Usable(w, slot.resolved)
  /\ slot.selection.provider = "external" =>
       /\ Usable(w, slot.selection.program) /\ slot.required /\ slot.route = "external"
       /\ slot.resolved = Located(slot.selection.program)
  /\ slot.selection.provider = "managed" =>
       slot.resolved # None /\ slot.required /\ slot.route = "external"
  /\ slot.route = "external" =>
       slot.resolved # None /\ slot.selection.provider \in {"auto", "external", "managed"}

\* A good slot has them.
LEMMA GoodIsOK ==
  ASSUME NEW w, WorldOK(w), NEW role, NEW slot, GoodSlot(w, role, slot)
  PROVE  SettledOK(w, role, slot)
<1> USE DEF ExternalSlot, BuiltInSlot, Slot, SettledOK, EngineProviders
<1>1. CASE slot = ExternalSlot(Located(Bare(role)), FALSE, Select("auto")) /\ Usable(w, Bare(role))
  BY <1>1, LocatedIsFinal DEF Select
<1>2. CASE slot = BuiltInSlot("preview", Select("auto"))
  BY <1>2 DEF Select
<1>3. ASSUME NEW path, slot = ExternalSlot(Located(path), TRUE, External(path)),
             Usable(w, path)
      PROVE  SettledOK(w, role, slot)
  BY <1>3, LocatedIsFinal DEF External
<1>4. ASSUME NEW path, NEW selection, slot = ExternalSlot(path, TRUE, selection),
             selection.provider = "managed", path \in Programs, Usable(w, path)
      PROVE  SettledOK(w, role, slot)
  BY <1>4, ProgramIsLocated
<1>5. ASSUME NEW selection, slot = BuiltInSlot(selection.provider, selection),
             selection.provider \in {"preview", "source"}
      PROVE  SettledOK(w, role, slot)
  BY <1>5
<1> QED BY <1>1, <1>2, <1>3, <1>4, <1>5 DEF GoodSlot

\* Only an engine left to ptymark is given up, and stays left to it.
LEMMA GivenUpIsOptional ==
  ASSUME NEW w, WorldOK(w), NEW role, NEW slot, GoodSlot(w, role, slot), NEW p
  PROVE  /\ SettledOK(w, role, Settled(slot, p))
         /\ Settled(slot, p).selection = slot.selection
         /\ Settled(slot, p) = slot \/ slot.selection.provider = "auto"
         /\ slot.required => Settled(slot, p) = slot
<1>1. SettledOK(w, role, slot)
  BY GoodIsOK
<1>2. slot.route = "external" /\ ~slot.required => slot.selection.provider = "auto"
  BY <1>1 DEF SettledOK
<1>3. CASE Settled(slot, p) = slot
  BY <1>1, <1>3
<1>4. CASE Settled(slot, p) # slot
  <2>1. slot.route = "external" /\ ~slot.required
        /\ Settled(slot, p) = BuiltInSlot("preview", slot.selection)
    BY <1>4 DEF Settled, FallbackIfOptional
  <2> QED BY <1>2, <2>1 DEF SettledOK, BuiltInSlot, Slot, EngineProviders
<1> QED BY <1>3, <1>4

-----------------------------------------------------------------------------
(* The selections and the configuration an installation writes.            *)

AnySelection == Selections(EngineProviders)

\* The selections an installation may find or write are typed.
LEMMA SelectIsTyped ==
  ASSUME NEW provider \in EngineProviders
  PROVE  Select(provider) \in AnySelection
  BY DEF AnySelection, Selections, Select

\* So is the one for a program that was asked for, by its path or by its bundle.
LEMMA ChosenIsTyped ==
  ASSUME NEW w, NEW path \in Paths
  PROVE  ChosenSelection(w, path) \in AnySelection
  BY DEF AnySelection, Selections, ChosenSelection, Select, External, EngineProviders

\* A user's program is the absent one, or a path.
LEMMA SlotSelectionIsTyped ==
  ASSUME NEW w, WorldOK(w), NEW role, NEW asked \in EngineAsks, NEW existing,
         NEW selection \in AnySelection, NEW known,
         selection.provider = "external" => selection.program # None,
         NEW slot \in PlanSlot(w, role, asked, existing, selection, known)
  PROVE  slot.selection \in AnySelection
<1> USE DEF ExternalSlot, BuiltInSlot, Slot
<1>1. selection.provider \in EngineProviders /\ selection.program \in Paths \cup {None}
  BY DEF AnySelection, Selections
<1>2. Select("auto") \in AnySelection
  BY SelectIsTyped DEF EngineProviders
<1>3. ASSUME slot \in PlanAutoSlot(w, role) PROVE slot.selection \in AnySelection
  BY <1>2, <1>3 DEF PlanAutoSlot
<1>4. ASSUME NEW path \in Paths, slot \in RequiredExternal(w, path)
      PROVE  slot.selection \in AnySelection
  <2>1. slot.selection = ChosenSelection(w, path)
    BY <1>4 DEF RequiredExternal
  <2> QED BY <2>1, ChosenIsTyped
<1>5. ASSUME slot \in PlanExistingSlot(w, role, selection, known)
      PROVE  slot.selection \in AnySelection
  BY <1>1, <1>3, <1>4, <1>5 DEF PlanExistingSlot
<1>6. CASE asked.ask = "keep" /\ existing
  BY <1>5, <1>6 DEF PlanSlot
<1>7. CASE ~(asked.ask = "keep" /\ existing) /\ asked.ask \in {"keep", "auto"}
  BY <1>3, <1>7 DEF PlanSlot
<1>8. CASE asked.ask = "program"
  <2>1. asked.program \in Paths
    BY <1>8 DEF EngineAsks, Ask, AskFor
  <2> QED BY <1>4, <1>8, <2>1 DEF PlanSlot
<1>9. CASE asked.ask \in {"preview", "source"}
  BY <1>9, SelectIsTyped DEF PlanSlot, EngineProviders
<1>10. asked.ask \in {"keep", "auto", "program", "preview", "source"}
  BY DEF EngineAsks, Ask, AskFor
<1> QED BY <1>6, <1>7, <1>8, <1>9, <1>10

\* So is the selection of a planned presenter.
LEMMA PresenterSelectionIsTyped ==
  ASSUME NEW w, NEW asked \in PresenterAsks, NEW existing,
         NEW selection \in AnySelection, NEW known, NEW externals,
         NEW p \in PlanPresenter(w, asked, existing, selection, known, externals)
  PROVE  p.selection \in AnySelection
<1> DEFINE kept == IF asked.ask = "keep" /\ existing THEN selection ELSE Select("auto")
<1>1. kept \in AnySelection
  BY SelectIsTyped DEF EngineProviders
<1> HIDE DEF kept
<1>2. CASE asked.ask = "program"
  <2>1. asked.program \in Paths
    BY <1>2 DEF PresenterAsks, Ask, AskFor
  <2>2. p.selection = ChosenSelection(w, asked.program)
    BY <1>2 DEF PlanPresenter, AskedPresenter, Presenter
  <2> QED BY <2>1, <2>2, ChosenIsTyped
<1>3. CASE asked.ask # "program"
  BY <1>1, <1>3 DEF PlanPresenter, kept, FoundPresenter, Presenter
<1> QED BY <1>2, <1>3
-----------------------------------------------------------------------------
\* The three selections an installation writes.
Selected(m, a, p) ==
  [mermaid |-> m.selection, math |-> a.selection, presenter |-> p.selection]

WithSelected(profile, m, a, p) == [profile EXCEPT !.select = Selected(m, a, p)]

\* A user configuration with another default profile, of the same name.
Rewritten(user, profile, new) ==
  /\ new.default = user.default
  /\ DOMAIN new.profiles = DOMAIN user.profiles
  /\ new = [default |-> new.default, profiles |-> new.profiles]
  /\ new.profiles = [name \in DOMAIN new.profiles |-> new.profiles[name]]
  /\ new.profiles[user.default] = profile
  /\ \A name \in DOMAIN user.profiles \ {user.default} :
       new.profiles[name] = user.profiles[name]

\* The configuration that is written.
LEMMA PlannedUserIs ==
  ASSUME NEW user, IsUser(user), user.default \in DOMAIN user.profiles, NEW m, NEW a, NEW p,
         NEW new, new = PlannedUser(user, m, a, p),
         NEW profile, profile = WithSelected(user.profiles[user.default], m, a, p)
  PROVE  Rewritten(user, profile, new)
<1> DEFINE profiles == user.profiles
           d == user.default
           new_profiles == [profiles EXCEPT ![d].select = Selected(m, a, p)]
<1>1. user = [default |-> d, profiles |-> profiles]
  BY DEF IsUser
<1>2. new = [user EXCEPT !.profiles = new_profiles]
  BY DEF PlannedUser, Selected
<1>3. profile = [profiles[d] EXCEPT !.select = Selected(m, a, p)]
  BY DEF WithSelected
<1>4. profiles = [name \in DOMAIN profiles |-> profiles[name]] /\ d \in DOMAIN profiles
  BY DEF IsUser, profiles, d
<1>5. /\ DOMAIN new_profiles = DOMAIN profiles
      /\ new_profiles = [name \in DOMAIN new_profiles |-> new_profiles[name]]
      /\ new_profiles[d] = profile
      /\ \A name \in DOMAIN profiles \ {d} : new_profiles[name] = profiles[name]
  <2> HIDE DEF profiles, d
  <2> QED BY <1>3, <1>4
<1> HIDE DEF profiles, d, new_profiles
<1>6. new = [default |-> d, profiles |-> new_profiles]
  BY <1>1, <1>2
<1> QED BY <1>5, <1>6 DEF Rewritten, profiles, d

\* Its default profile: the three selections, and the rest as it was.
LEMMA NewProfile ==
  ASSUME NEW profile, IsProfile(profile), NEW m, NEW a, NEW p,
         m.selection \in AnySelection, a.selection \in AnySelection, p.selection \in AnySelection,
         p.selection.provider \in PresenterProviders
  PROVE  LET new == WithSelected(profile, m, a, p)
         IN /\ IsProfile(new)
            /\ new.session = profile.session /\ new.show = profile.show
            /\ new.cache = profile.cache
            /\ new.select["mermaid"] = m.selection
            /\ new.select["math"] = a.selection
            /\ new.select["presenter"] = p.selection
<1> DEFINE new == WithSelected(profile, m, a, p)
<1>1. Selected(m, a, p) \in [Roles -> AnySelection]
  BY DEF Selected, Roles, Engines
<1>2. /\ Selected(m, a, p)["mermaid"] = m.selection
      /\ Selected(m, a, p)["math"] = a.selection
      /\ Selected(m, a, p)["presenter"] = p.selection
  BY DEF Selected
<1>3. profile \in [session : {"render", "source"}, show : {"auto", "plain", "source"},
                   cache : {"memory", "zero", "none"}, select : [Roles -> AnySelection]]
  BY DEF IsProfile, AnySelection
<1>4. new \in [session : {"render", "source"}, show : {"auto", "plain", "source"},
               cache : {"memory", "zero", "none"}, select : [Roles -> AnySelection]]
  BY <1>1, <1>3 DEF WithSelected
<1>5. new.select = Selected(m, a, p)
  BY <1>3 DEF WithSelected
<1>6. IsProfile(new)
  BY <1>2, <1>4, <1>5 DEF IsProfile, AnySelection
<1> QED BY <1>2, <1>3, <1>5, <1>6 DEF WithSelected

\* It is a configuration.
LEMMA PlannedUserIsUser ==
  ASSUME NEW user, IsUser(user), user.default \in DOMAIN user.profiles, NEW m, NEW a, NEW p,
         m.selection \in AnySelection, a.selection \in AnySelection, p.selection \in AnySelection,
         p.selection.provider \in PresenterProviders
  PROVE  IsUser(PlannedUser(user, m, a, p))
<1>1. PICK new : new = PlannedUser(user, m, a, p)
  OBVIOUS
<1>2. PICK profile : profile = WithSelected(user.profiles[user.default], m, a, p)
  OBVIOUS
<1>3. Rewritten(user, profile, new)
  BY <1>1, <1>2, PlannedUserIs
<1>4. \A name \in DOMAIN user.profiles : IsProfile(user.profiles[name])
  BY DEF IsUser
<1>5. IsProfile(profile)
  BY <1>2, <1>4, NewProfile
<1>6. \A name \in DOMAIN new.profiles : IsProfile(new.profiles[name])
  BY <1>3, <1>4, <1>5 DEF Rewritten
<1>7. IsUser(new)
  BY <1>3, <1>6 DEF Rewritten, IsUser
<1> QED BY <1>1, <1>7

\* What was written is written again.
LEMMA PlannedAgain ==
  ASSUME NEW user, IsUser(user), user.default \in DOMAIN user.profiles,
         NEW m, NEW a, NEW p, user.profiles[user.default].select = Selected(m, a, p)
  PROVE  PlannedUser(user, m, a, p) = user
<1> DEFINE new == PlannedUser(user, m, a, p)
           profile == user.profiles[user.default]
<1>1. profile \in [session : {"render", "source"}, show : {"auto", "plain", "source"},
                   cache : {"memory", "zero", "none"}, select : [Roles -> AnySelection]]
  BY DEF IsUser, IsProfile, AnySelection
<1>2. profile = WithSelected(profile, m, a, p)
  <2> HIDE DEF profile
  <2>1. profile.select = Selected(m, a, p)
    BY DEF profile
  <2> QED BY <1>1, <2>1 DEF WithSelected
<1>3. profile = WithSelected(user.profiles[user.default], m, a, p)
  BY <1>2
<1>4. new = PlannedUser(user, m, a, p)
  OBVIOUS
<1> HIDE DEF new, profile
<1>5. Rewritten(user, profile, new)
  BY <1>3, <1>4, PlannedUserIs
<1>6. \A name \in DOMAIN user.profiles : new.profiles[name] = user.profiles[name]
  BY <1>5 DEF Rewritten, profile
<1>7. new.profiles = user.profiles
  BY <1>5, <1>6 DEF Rewritten, IsUser
<1>8. new = user
  BY <1>5, <1>7 DEF Rewritten, IsUser
<1> QED BY <1>4, <1>8

-----------------------------------------------------------------------------
(* What a session resolves a configuration to.                             *)

\* One state knows at most one program for each role.
LEMMA OneProgram ==
  ASSUME NEW known, NEW s, known = {s}, NEW role
  PROVE  StateProgram(known, role) = {s.components[role]} \ {None}
  BY DEF StateProgram

\* With at most one program known for each role, there is one answer.
AtMostOne(S) == \A x, y \in S : x = y

\* An engine has at most one route.
LEMMA EngineIsOne ==
  ASSUME NEW w, NEW profile, NEW known, NEW role,
         profile.select[role].provider \in EngineProviders,
         AtMostOne(StateProgram(known, role))
  PROVE  AtMostOne(ResolveEngine(w, profile, known, role))
<1> DEFINE selection == profile.select[role]
           found == StateProgram(known, role)
<1>1. CASE SourceRequested(profile)
  BY <1>1 DEF ResolveEngine, AtMostOne
<1>2. CASE ~SourceRequested(profile) /\ PlainRequested(profile)
  BY <1>2 DEF ResolveEngine, AtMostOne
<1>3. ASSUME ~SourceRequested(profile), ~PlainRequested(profile)
      PROVE  AtMostOne(ResolveEngine(w, profile, known, role))
  <2>1. CASE selection.provider \in {"preview", "source"}
    BY <1>3, <2>1 DEF ResolveEngine, AtMostOne
  <2>2. CASE selection.provider = "external"
    BY <1>3, <2>2 DEF ResolveEngine, AtMostOne
  <2>3. CASE selection.provider = "managed"
    <3>1. ResolveEngine(w, profile, known, role)
            = {Runs(path) : path \in ManagedStateProgram(w, known, role)}
      BY <1>3, <2>3 DEF ResolveEngine
    <3> QED BY <3>1 DEF AtMostOne, ManagedStateProgram
  <2>4. CASE selection.provider = "auto"
    <3>1. ResolveEngine(w, profile, known, role)
            = IF found = {} THEN {BuiltIn("preview")} ELSE {Runs(path) : path \in found}
      BY <1>3, <2>4 DEF ResolveEngine
    <3> HIDE DEF found
    <3>2. AtMostOne(found)
      BY DEF found
    <3> QED BY <3>1, <3>2 DEF AtMostOne
  <2> QED BY <2>1, <2>2, <2>3, <2>4 DEF EngineProviders
<1> QED BY <1>1, <1>2, <1>3

\* A view has at most one presenter.
LEMMA PresenterIsOne ==
  ASSUME NEW w, NEW profile, NEW known, NEW required \in BOOLEAN,
         profile.select["presenter"].provider \in PresenterProviders,
         AtMostOne(StateProgram(known, "presenter"))
  PROVE  AtMostOne(ResolvePresenter(w, profile, known, required))
<1> DEFINE selection == profile.select["presenter"]
           found == StateProgram(known, "presenter")
<1>1. CASE ~required
  BY <1>1 DEF ResolvePresenter, AtMostOne
<1>2. CASE required /\ selection.provider = "external"
  BY <1>2 DEF ResolvePresenter, AtMostOne
<1>3. CASE required /\ selection.provider = "managed"
  BY <1>3 DEF ResolvePresenter, AtMostOne, ManagedStateProgram
<1>4. CASE required /\ selection.provider = "auto"
  BY <1>4 DEF ResolvePresenter, AtMostOne
<1> QED BY <1>1, <1>2, <1>3, <1>4 DEF PresenterProviders

\* A view of a profile.
ViewOf(w, profile, known, view) ==
  \E mermaid \in ResolveEngine(w, profile, known, "mermaid"),
     math \in ResolveEngine(w, profile, known, "math") :
     \E presenter \in ResolvePresenter(w, profile, known, IsExternal(mermaid) \/ IsExternal(math)) :
       view = View(mermaid, math, presenter)

\* Every view is of a route for each engine and of a presenter.
LEMMA IsView ==
  ASSUME NEW w, NEW user, NEW name, NEW known, NEW view \in Resolve(w, user, name, known)
  PROVE  ViewOf(w, user.profiles[name], known, view)
<1>1. ValidUser(user) /\ name \in DOMAIN user.profiles
  BY DEF Resolve
<1> DEFINE profile == user.profiles[name]
           P(mermaid, math) == ResolvePresenter(w, profile, known,
                                 IsExternal(mermaid) \/ IsExternal(math))
           E(role) == ResolveEngine(w, profile, known, role)
<1>2. Resolve(w, user, name, known)
        = UNION {{View(mermaid, math, presenter) : presenter \in P(mermaid, math)} :
                   mermaid \in E("mermaid"), math \in E("math")}
  BY <1>1 DEF Resolve
<1> HIDE DEF P, E, profile
<1>3. \E mermaid \in E("mermaid"), math \in E("math") :
        \E presenter \in P(mermaid, math) : view = View(mermaid, math, presenter)
  BY <1>2
<1> QED BY <1>3 DEF ViewOf, P, E, profile

\* And every such view is one.
LEMMA ViewIs ==
  ASSUME NEW w, NEW user, ValidUser(user), NEW name \in DOMAIN user.profiles, NEW known,
         NEW mermaid \in ResolveEngine(w, user.profiles[name], known, "mermaid"),
         NEW math \in ResolveEngine(w, user.profiles[name], known, "math"),
         NEW presenter \in ResolvePresenter(w, user.profiles[name], known,
                              IsExternal(mermaid) \/ IsExternal(math))
  PROVE  View(mermaid, math, presenter) \in Resolve(w, user, name, known)
<1> DEFINE profile == user.profiles[name]
           P(m, a) == ResolvePresenter(w, profile, known, IsExternal(m) \/ IsExternal(a))
           E(role) == ResolveEngine(w, profile, known, role)
<1>1. Resolve(w, user, name, known)
        = UNION {{View(m, a, p) : p \in P(m, a)} : m \in E("mermaid"), a \in E("math")}
  BY DEF Resolve
<1>2. mermaid \in E("mermaid") /\ math \in E("math") /\ presenter \in P(mermaid, math)
  OBVIOUS
<1> DEFINE of(m, a) == {View(m, a, p) : p \in P(m, a)}
<1>3. Resolve(w, user, name, known) = UNION {of(m, a) : m \in E("mermaid"), a \in E("math")}
  BY <1>1
<1>4. View(mermaid, math, presenter) \in of(mermaid, math)
  BY <1>2
<1> HIDE DEF P, E, profile, of
<1> QED BY <1>2, <1>3, <1>4

\* A profile that can be read, at most one program for each role: one view.
LEMMA ResolveIsOne ==
  ASSUME NEW w, NEW user, IsUser(user), NEW name, NEW known,
         \A role \in Roles : AtMostOne(StateProgram(known, role))
  PROVE  AtMostOne(Resolve(w, user, name, known))
<1> SUFFICES ASSUME NEW v1 \in Resolve(w, user, name, known),
                    NEW v2 \in Resolve(w, user, name, known)
             PROVE  v1 = v2
  BY DEF AtMostOne
<1> DEFINE profile == user.profiles[name]
           P(required) == ResolvePresenter(w, profile, known, required)
           E(role) == ResolveEngine(w, profile, known, role)
<1>1. name \in DOMAIN user.profiles
  BY DEF Resolve
<1>2. IsProfile(profile)
  BY <1>1 DEF IsUser
<1>3. /\ profile.select["mermaid"].provider \in EngineProviders
      /\ profile.select["math"].provider \in EngineProviders
      /\ profile.select["presenter"].provider \in PresenterProviders
  <2> HIDE DEF profile
  <2> QED BY <1>2 DEF IsProfile, Selections, Roles, Engines
<1>4. AtMostOne(E("mermaid")) /\ AtMostOne(E("math"))
  BY <1>3, EngineIsOne DEF Roles, Engines
<1>5. \A required \in BOOLEAN : AtMostOne(P(required))
  BY <1>3, PresenterIsOne DEF Roles
<1>6. PICK m1 \in E("mermaid"), a1 \in E("math") : \E p1 \in P(IsExternal(m1) \/ IsExternal(a1)) :
        v1 = View(m1, a1, p1)
  <2>1. ViewOf(w, profile, known, v1)
    BY IsView
  <2> QED BY <2>1 DEF ViewOf
<1>7. PICK m2 \in E("mermaid"), a2 \in E("math") : \E p2 \in P(IsExternal(m2) \/ IsExternal(a2)) :
        v2 = View(m2, a2, p2)
  <2>1. ViewOf(w, profile, known, v2)
    BY IsView
  <2> QED BY <2>1 DEF ViewOf
<1>8. m1 = m2 /\ a1 = a2
  BY <1>4, <1>6, <1>7 DEF AtMostOne
<1>9. (IsExternal(m1) \/ IsExternal(a1)) \in BOOLEAN
  OBVIOUS
<1> HIDE DEF P, E, profile
<1> QED BY <1>5, <1>6, <1>7, <1>8, <1>9 DEF AtMostOne

\* A view depends on the programs known and on whether there is a bundle.
LEMMA ResolveDepends ==
  ASSUME NEW w1, NEW w2, w1.manifest = w2.manifest, NEW user, NEW name, NEW k1, NEW k2,
         \A role \in Roles : StateProgram(k1, role) = StateProgram(k2, role)
  PROVE  Resolve(w1, user, name, k1) = Resolve(w2, user, name, k2)
<1>1. \A role \in Roles : ManagedStateProgram(w1, k1, role) = ManagedStateProgram(w2, k2, role)
  BY DEF ManagedStateProgram, IsAlias
<1> DEFINE profile == user.profiles[name]
<1>2. ASSUME NEW role \in Roles
      PROVE  ResolveEngine(w1, profile, k1, role) = ResolveEngine(w2, profile, k2, role)
  BY <1>1 DEF ResolveEngine
<1>3. ASSUME NEW required
      PROVE  ResolvePresenter(w1, profile, k1, required) = ResolvePresenter(w2, profile, k2, required)
  BY <1>1 DEF ResolvePresenter, Roles
<1>4. "mermaid" \in Roles /\ "math" \in Roles
  BY DEF Roles, Engines
<1>5. ASSUME NEW view \in Resolve(w1, user, name, k1)
      PROVE  view \in Resolve(w2, user, name, k2)
  <2>1. ValidUser(user) /\ name \in DOMAIN user.profiles
    BY DEF Resolve
  <2>2. PICK mermaid \in ResolveEngine(w1, profile, k1, "mermaid"),
             math \in ResolveEngine(w1, profile, k1, "math") :
               \E presenter \in ResolvePresenter(w1, profile, k1,
                                  IsExternal(mermaid) \/ IsExternal(math)) :
                 view = View(mermaid, math, presenter)
    <3>1. ViewOf(w1, profile, k1, view)
      BY IsView
    <3> QED BY <3>1 DEF ViewOf
  <2> QED BY <1>2, <1>3, <1>4, <2>1, <2>2, ViewIs
<1>6. ASSUME NEW view \in Resolve(w2, user, name, k2)
      PROVE  view \in Resolve(w1, user, name, k1)
  <2>1. ValidUser(user) /\ name \in DOMAIN user.profiles
    BY DEF Resolve
  <2>2. PICK mermaid \in ResolveEngine(w2, profile, k2, "mermaid"),
             math \in ResolveEngine(w2, profile, k2, "math") :
               \E presenter \in ResolvePresenter(w2, profile, k2,
                                  IsExternal(mermaid) \/ IsExternal(math)) :
                 view = View(mermaid, math, presenter)
    <3>1. ViewOf(w2, profile, k2, view)
      BY IsView
    <3> QED BY <3>1 DEF ViewOf
  <2> QED BY <1>2, <1>3, <1>4, <2>1, <2>2, ViewIs
<1> QED BY <1>5, <1>6
-----------------------------------------------------------------------------
\* Where the slot of an engine leads a session of the profile it is in.
LEMMA RouteOfSlot ==
  ASSUME NEW w, WorldOK(w), NEW role, NEW slot, SettledOK(w, role, slot),
         NEW profile, profile.select[role] = slot.selection,
         NEW known, OnlyProgram(known, role, slot.resolved),
         NEW route \in ResolveEngine(w, profile, known, role)
  PROVE  /\ IsExternal(route) => /\ slot.route = "external" /\ Usable(w, route.path)
                                 /\ slot.resolved # None
         /\ ~Bypassed(profile) /\ slot.route = "external" =>
              IsExternal(route) /\ Located(route.path) = slot.resolved
         /\ ~Bypassed(profile) /\ slot.selection.provider \in {"preview", "source"} =>
              route.backend = slot.selection.provider
<1> USE DEF IsExternal, BuiltIn, Runs, Bypassed
<1>1. CASE SourceRequested(profile)
  BY <1>1 DEF ResolveEngine
<1>2. CASE ~SourceRequested(profile) /\ PlainRequested(profile)
  BY <1>2 DEF ResolveEngine
<1>3. CASE ~SourceRequested(profile) /\ ~PlainRequested(profile)
  <2>1. CASE slot.selection.provider \in {"preview", "source"}
    <3>1. route = BuiltIn(slot.selection.provider)
      BY <1>3, <2>1 DEF ResolveEngine
    <3>2. slot.route # "external"
      BY <2>1 DEF SettledOK
    <3> QED BY <2>1, <3>1, <3>2
  <2>2. CASE slot.selection.provider = "external"
    <3>1. route = Runs(slot.selection.program)
      BY <1>3, <2>2 DEF ResolveEngine
    <3> QED BY <2>2, <3>1 DEF SettledOK
  <2>3. CASE slot.selection.provider = "managed"
    <3>1. route = Runs(slot.resolved)
      BY <1>3, <2>3 DEF ResolveEngine, ManagedStateProgram, OnlyProgram
    <3>2. Located(slot.resolved) = slot.resolved
      BY <2>3, ProgramIsLocated DEF SettledOK
    <3> QED BY <2>3, <3>1, <3>2 DEF SettledOK
  <2>4. CASE slot.selection.provider = "auto" /\ slot.resolved = None
    <3>1. route = BuiltIn("preview")
      BY <1>3, <2>4 DEF ResolveEngine, OnlyProgram
    <3> QED BY <2>4, <3>1 DEF SettledOK
  <2>5. CASE slot.selection.provider = "auto" /\ slot.resolved # None
    <3>1. route = Runs(slot.resolved)
      <4>1. StateProgram(known, role) = {slot.resolved}
        BY <2>5 DEF OnlyProgram
      <4> QED BY <1>3, <2>5, <4>1 DEF ResolveEngine
    <3>2. Located(slot.resolved) = slot.resolved
      BY <2>5, ProgramIsLocated DEF SettledOK
    <3> QED BY <2>5, <3>1, <3>2 DEF SettledOK
  <2> QED BY <2>1, <2>2, <2>3, <2>4, <2>5 DEF SettledOK, EngineProviders
<1> QED BY <1>1, <1>2, <1>3

\* The presenter of a view that needs one can be used.
LEMMA PresenterOfView ==
  ASSUME NEW w, WorldOK(w), NEW externals, externals # {}, NEW p, GoodPresenter(w, p, externals),
         p.resolved # None,
         NEW profile, profile.select["presenter"] = p.selection,
         NEW known, OnlyProgram(known, "presenter", p.resolved),
         NEW presenter \in ResolvePresenter(w, profile, known, TRUE)
  PROVE  Usable(w, presenter)
<1>1. StateProgram(known, "presenter") = {p.resolved}
  BY DEF OnlyProgram
<1>2. Usable(w, p.resolved)
  BY LocatedIsFinal DEF GoodPresenter
<1>3. CASE p.selection.provider = "external"
  BY <1>3 DEF ResolvePresenter, GoodPresenter
<1>4. CASE p.selection.provider = "managed"
  BY <1>1, <1>2, <1>4 DEF ResolvePresenter, ManagedStateProgram
<1>5. CASE p.selection.provider = "auto"
  BY <1>1, <1>2, <1>5 DEF ResolvePresenter
<1> QED BY <1>3, <1>4, <1>5 DEF GoodPresenter, PresenterProviders

-----------------------------------------------------------------------------
(* The plan of an installation.                                            *)

Presentable(components) ==
  (\E role \in Engines : components[role] # None) => components["presenter"] # None

Components(components) ==
  /\ components = [role \in Roles |-> components[role]]
  /\ \A role \in Roles : components[role] \in Programs \cup {None}
  /\ Presentable(components)

\* What an installation decides for a user, and what becomes of it.
Decided(w, user, m, a, p) ==
  /\ IsUser(user) /\ user.default \in DOMAIN user.profiles
  /\ GoodSlot(w, "mermaid", m) /\ GoodSlot(w, "math", a)
  /\ GoodPresenter(w, p, ExternalsOf(m, a))
  /\ m.selection \in AnySelection /\ a.selection \in AnySelection /\ p.selection \in AnySelection

\* A plan for these decisions.
PlanOf(w, user, m, a, p, planned) ==
  /\ planned = [user |-> planned.user, state |-> planned.state, view |-> planned.view]
  /\ planned.user = PlannedUser(user, Settled(m, p), Settled(a, p), p)
  /\ planned.state = PlannedState(planned.user, Settled(m, p), Settled(a, p), p)
  /\ planned.view \in Resolve(w, planned.user, planned.user.default, {planned.state})

\* Every plan is one for the decisions it was made from.
LEMMA PlansAre ==
  ASSUME NEW w, NEW user, NEW m, NEW a, NEW p, NEW planned
  PROVE  planned \in Plans(w, user, m, a, p) <=> PlanOf(w, user, m, a, p, planned)
<1> DEFINE new == PlannedUser(user, Settled(m, p), Settled(a, p), p)
           made == PlannedState(new, Settled(m, p), Settled(a, p), p)
           views == Resolve(w, new, new.default, {made})
<1>1. Plans(w, user, m, a, p) = {[user |-> new, state |-> made, view |-> view] : view \in views}
  BY DEF Plans, Settled
<1>2. PlanOf(w, user, m, a, p, planned)
        <=> /\ planned = [user |-> planned.user, state |-> planned.state, view |-> planned.view]
            /\ planned.user = new /\ planned.state = made /\ planned.view \in views
  BY DEF PlanOf
<1> HIDE DEF new, made, views
<1>3. planned \in Plans(w, user, m, a, p)
        <=> /\ planned = [user |-> planned.user, state |-> planned.state, view |-> planned.view]
            /\ planned.user = new /\ planned.state = made /\ planned.view \in views
  BY <1>1
<1> QED BY <1>2, <1>3

Selects(profile, m, a, p) ==
  /\ profile.select = Selected(m, a, p)
  /\ profile.select["mermaid"] = m.selection
  /\ profile.select["math"] = a.selection
  /\ profile.select["presenter"] = p.selection

\* The profile a session of the default profile gets.
LEMMA PlannedProfile ==
  ASSUME NEW w, WorldOK(w), NEW user, NEW m, NEW a, NEW p, Decided(w, user, m, a, p),
         NEW planned \in Plans(w, user, m, a, p)
  PROVE  /\ IsUser(planned.user) /\ ValidUser(planned.user)
         /\ planned.user.default \in DOMAIN planned.user.profiles
         /\ Selects(DefaultProfileOf(planned.user), m, a, p)
         /\ Bypassed(DefaultProfileOf(planned.user)) = Bypassed(DefaultProfileOf(user))
<1>0. PlanOf(w, user, m, a, p, planned)
  BY PlansAre
<1>1. PICK new : new = planned.user
  OBVIOUS
<1>2. PICK profile : profile = WithSelected(user.profiles[user.default], m, a, p)
  OBVIOUS
<1>3. Settled(m, p).selection = m.selection /\ Settled(a, p).selection = a.selection
  BY GivenUpIsOptional DEF Decided
<1>4. new = PlannedUser(user, m, a, p)
  <2>1. new = PlannedUser(user, Settled(m, p), Settled(a, p), p)
    BY <1>0, <1>1 DEF PlanOf
  <2>2. new = [user EXCEPT !.profiles[user.default].select = Selected(Settled(m, p), Settled(a, p), p)]
    BY <2>1 DEF PlannedUser, Selected
  <2>3. Selected(Settled(m, p), Settled(a, p), p) = Selected(m, a, p)
    BY <1>3 DEF Selected
  <2>4. new = [user EXCEPT !.profiles[user.default].select = Selected(m, a, p)]
    BY <2>2, <2>3
  <2> QED BY <2>4 DEF PlannedUser, Selected
<1>5. p.selection.provider \in PresenterProviders
  BY DEF Decided, GoodPresenter
<1>6. IsUser(new)
  BY <1>4, <1>5, PlannedUserIsUser DEF Decided
<1>7. /\ new.default = user.default /\ DOMAIN new.profiles = DOMAIN user.profiles
      /\ new.profiles[user.default] = profile
  <2>1. IsUser(user) /\ user.default \in DOMAIN user.profiles
    BY DEF Decided
  <2>2. Rewritten(user, profile, new)
    BY <1>2, <1>4, <2>1, PlannedUserIs
  <2> QED BY <2>2 DEF Rewritten
<1>8. IsProfile(user.profiles[user.default])
  BY DEF Decided, IsUser
<1>9. /\ profile.session = user.profiles[user.default].session
      /\ profile.show = user.profiles[user.default].show
      /\ profile.select["mermaid"] = m.selection
      /\ profile.select["math"] = a.selection
      /\ profile.select["presenter"] = p.selection
  BY <1>2, <1>5, <1>8, NewProfile DEF Decided
<1>10. profile.select = Selected(m, a, p)
  BY <1>2, <1>8 DEF WithSelected, IsProfile
<1>11. ValidUser(new)
  <2>1. planned.view \in Resolve(w, new, new.default, {planned.state})
    BY <1>0, <1>1 DEF PlanOf
  <2> QED BY <2>1 DEF Resolve
<1>12. DefaultProfileOf(planned.user) = profile
  BY <1>1, <1>7 DEF DefaultProfileOf
<1>13. Bypassed(profile) = Bypassed(DefaultProfileOf(user))
  BY <1>9 DEF DefaultProfileOf, Bypassed, SourceRequested, PlainRequested
<1> QED BY <1>1, <1>6, <1>7, <1>9, <1>10, <1>11, <1>12, <1>13 DEF Decided, Selects

\* A presenter that a chosen engine needs is there.
LEMMA RequiredIsPresented ==
  ASSUME NEW w, WorldOK(w), NEW externals, NEW p, GoodPresenter(w, p, externals),
         NEW s \in externals, s.required
  PROVE  p.resolved # None
<1>1. CASE p.selection.provider = "managed"
  BY <1>1, ProgramIsLocated DEF GoodPresenter
<1> QED BY <1>1, LocatedIsFinal DEF GoodPresenter

\* No engine is settled without a presenter.
LEMMA SettledIsPresented ==
  ASSUME NEW w, WorldOK(w), NEW m, NEW a, NEW p, GoodPresenter(w, p, ExternalsOf(m, a)),
         NEW slot \in {m, a}, NEW role, GoodSlot(w, role, slot), Settled(slot, p).route = "external"
  PROVE  p.resolved # None /\ ExternalsOf(m, a) # {}
<1>1. CASE p.resolved # None
  BY <1>1 DEF GoodPresenter
<1>2. CASE p.resolved = None
  <2>1. slot.route = "external" /\ slot.required
    BY <1>2 DEF Settled, FallbackIfOptional, BuiltInSlot, Slot
  <2>2. slot \in ExternalsOf(m, a)
    BY <2>1 DEF ExternalsOf
  <2> QED BY <1>2, <2>1, <2>2, RequiredIsPresented
<1> QED BY <1>1, <1>2

Holds(components, m, a, p) ==
  /\ components["mermaid"] = m.resolved
  /\ components["math"] = a.resolved
  /\ components["presenter"] = p.resolved

\* The programs known from a state with these components.
LEMMA HeldPrograms ==
  ASSUME NEW s, NEW m, NEW a, NEW p, Holds(s.components, m, a, p)
  PROVE  /\ OnlyProgram({s}, "mermaid", m.resolved)
         /\ OnlyProgram({s}, "math", a.resolved)
         /\ OnlyProgram({s}, "presenter", p.resolved)
  BY DEF Holds, StateProgram, OnlyProgram

\* The state an installation writes.
LEMMA PlannedComponents ==
  ASSUME NEW w, WorldOK(w), NEW user, NEW m, NEW a, NEW p, Decided(w, user, m, a, p),
         NEW planned \in Plans(w, user, m, a, p)
  PROVE  /\ planned.state = State(Digest(planned.user), planned.state.components)
         /\ Components(planned.state.components)
         /\ Holds(planned.state.components, Settled(m, p), Settled(a, p), p)
<1> DEFINE m_slot == Settled(m, p)
           a_slot == Settled(a, p)
           components == planned.state.components
<1>1. /\ components = [mermaid |-> m_slot.resolved, math |-> a_slot.resolved,
                       presenter |-> p.resolved]
      /\ planned.state = State(Digest(planned.user), components)
  <2>1. planned.state = PlannedState(planned.user, m_slot, a_slot, p)
    <3>1. PlanOf(w, user, m, a, p, planned)
      BY PlansAre
    <3> QED BY <3>1 DEF PlanOf
  <2> HIDE DEF m_slot, a_slot
  <2>2. planned.state = State(Digest(planned.user),
                              [mermaid |-> m_slot.resolved, math |-> a_slot.resolved,
                               presenter |-> p.resolved])
    BY <2>1 DEF PlannedState, Component
  <2> QED BY <2>2 DEF State
<1>2. SettledOK(w, "mermaid", m_slot) /\ SettledOK(w, "math", a_slot)
  BY GivenUpIsOptional DEF Decided
<1>3. p.resolved \in Programs \cup {None}
  BY LocatedIsFinal DEF Decided, GoodPresenter
<1>4. m_slot.resolved # None => p.resolved # None
  BY <1>2, SettledIsPresented DEF SettledOK, Decided
<1>5. a_slot.resolved # None => p.resolved # None
  BY <1>2, SettledIsPresented DEF SettledOK, Decided
<1> HIDE DEF m_slot, a_slot, components
<1>6. /\ components["mermaid"] = m_slot.resolved
      /\ components["math"] = a_slot.resolved
      /\ components["presenter"] = p.resolved
      /\ components = [role \in Roles |-> components[role]]
  BY <1>1 DEF Roles, Engines
<1>7. Components(components)
  BY <1>2, <1>3, <1>4, <1>5, <1>6 DEF Components, Presentable, SettledOK, Roles, Engines
<1>8. Holds(components, m_slot, a_slot, p)
  BY <1>6 DEF Holds
<1> QED BY <1>1, <1>7, <1>8 DEF components, m_slot, a_slot

\* There is one view of what was planned, whatever is read back of the state.
LEMMA PlannedIsResolved ==
  ASSUME NEW w, WorldOK(w), NEW user, NEW m, NEW a, NEW p, Decided(w, user, m, a, p),
         NEW planned \in Plans(w, user, m, a, p),
         NEW s, s.components = planned.state.components
  PROVE  Only(Resolve(w, planned.user, planned.user.default, {s}), planned.view)
<1>1. \A role \in Roles : /\ StateProgram({s}, role) = StateProgram({planned.state}, role)
                          /\ AtMostOne(StateProgram({s}, role))
  BY DEF StateProgram, AtMostOne
<1>2. planned.view \in Resolve(w, planned.user, planned.user.default, {s})
  <2>1. planned.view \in Resolve(w, planned.user, planned.user.default, {planned.state})
    <3>1. PlanOf(w, user, m, a, p, planned)
      BY PlansAre
    <3> QED BY <3>1 DEF PlanOf
  <2> QED BY <1>1, <2>1, ResolveDepends
<1>3. IsUser(planned.user)
  BY PlannedProfile
<1>4. AtMostOne(Resolve(w, planned.user, planned.user.default, {s}))
  BY <1>1, <1>3, ResolveIsOne
<1> QED BY <1>2, <1>4 DEF AtMostOne, Only

\* A program that a session may start is there.
ViewUsable(w, view) ==
  /\ \A role \in Engines : IsExternal(view[role]) => Usable(w, view[role].path)
  /\ NeedsPresenter(view) => Usable(w, view.presenter)

\* So a program that the view of a plan runs.
LEMMA PlannedIsUsable ==
  ASSUME NEW w, WorldOK(w), NEW user, NEW m, NEW a, NEW p, Decided(w, user, m, a, p),
         NEW planned \in Plans(w, user, m, a, p)
  PROVE  ViewUsable(w, planned.view)
<1> DEFINE new == planned.user
           profile == DefaultProfileOf(new)
           known == {planned.state}
<1>1. PlanOf(w, user, m, a, p, planned)
  BY PlansAre
<1>2. planned.view \in Resolve(w, new, new.default, known)
  BY <1>1 DEF PlanOf
<1>3. PICK mermaid \in ResolveEngine(w, profile, known, "mermaid"),
           math \in ResolveEngine(w, profile, known, "math") :
        \E presenter \in ResolvePresenter(w, profile, known, IsExternal(mermaid) \/ IsExternal(math)) :
          planned.view = View(mermaid, math, presenter)
  <2>1. ViewOf(w, profile, known, planned.view)
    BY <1>2, IsView DEF DefaultProfileOf
  <2> QED BY <2>1 DEF ViewOf
<1>4. PICK presenter \in ResolvePresenter(w, profile, known, IsExternal(mermaid) \/ IsExternal(math)) :
          planned.view = View(mermaid, math, presenter)
  BY <1>3
<1>5. /\ profile.select["mermaid"] = m.selection
      /\ profile.select["math"] = a.selection
      /\ profile.select["presenter"] = p.selection
  <2>1. Selects(profile, m, a, p)
    BY PlannedProfile
  <2> QED BY <2>1 DEF Selects
<1>6. /\ OnlyProgram(known, "mermaid", Settled(m, p).resolved)
      /\ OnlyProgram(known, "math", Settled(a, p).resolved)
      /\ OnlyProgram(known, "presenter", p.resolved)
  <2>1. Holds(planned.state.components, Settled(m, p), Settled(a, p), p)
    BY PlannedComponents
  <2> QED BY <2>1, HeldPrograms
<1>7. /\ SettledOK(w, "mermaid", Settled(m, p)) /\ Settled(m, p).selection = m.selection
      /\ SettledOK(w, "math", Settled(a, p)) /\ Settled(a, p).selection = a.selection
  BY GivenUpIsOptional DEF Decided
<1> HIDE DEF profile, known
<1>8. IsExternal(mermaid) => Settled(m, p).route = "external" /\ Usable(w, mermaid.path)
  BY <1>3, <1>5, <1>6, <1>7, RouteOfSlot
<1>9. IsExternal(math) => Settled(a, p).route = "external" /\ Usable(w, math.path)
  BY <1>3, <1>5, <1>6, <1>7, RouteOfSlot
<1>10. ASSUME IsExternal(mermaid) \/ IsExternal(math)
       PROVE  Usable(w, presenter)
  <2>1. p.resolved # None /\ ExternalsOf(m, a) # {}
    BY <1>8, <1>9, <1>10, SettledIsPresented DEF Decided
  <2>2. presenter \in ResolvePresenter(w, profile, known, TRUE)
    BY <1>4, <1>10
  <2> QED BY <1>5, <1>6, <2>1, <2>2, PresenterOfView DEF Decided
<1> QED
  BY <1>4, <1>8, <1>9, <1>10 DEF ViewUsable, View, NeedsPresenter, Engines
-----------------------------------------------------------------------------
\* Whatever was decided for what is written is decided again, from the
\* programs the state has, current or not.
LEMMA DecidedAgain ==
  ASSUME NEW w, WorldOK(w), NEW user, NEW m, NEW a, NEW p, Decided(w, user, m, a, p),
         NEW planned \in Plans(w, user, m, a, p),
         NEW s, s.schema = "state", s.components = planned.state.components
  PROVE  Plan(w, KeepAll, File(planned.user), s) = {planned}
<1> DEFINE new == planned.user
           f == File(new)
           sel(role) == DefaultProfileOf(new).select[role]
           known == {s}
           slots(role) == PlanSlot(w, role, KeepAll[role], TRUE, sel(role), known)
<1>1. /\ IsUser(new) /\ ValidUser(new) /\ new.default \in DOMAIN new.profiles
      /\ sel("mermaid") = m.selection /\ sel("math") = a.selection
      /\ sel("presenter") = p.selection
      /\ DefaultProfileOf(new).select = Selected(m, a, p)
  <2>1. Selects(DefaultProfileOf(new), m, a, p)
    BY PlannedProfile
  <2> QED BY <2>1, PlannedProfile DEF Selects
<1>2. Plan(w, KeepAll, f, s) = PlanFor(w, KeepAll, new, TRUE, known)
  <2>1. f # NoFile /\ f.schema = "v2" /\ f.user = new
    BY DEF File, NoFile
  <2>2. Parse(w, f) = {new}
    BY <1>1, <2>1 DEF Parse
  <2>3. s # UnreadableState /\ Readable(s) = known
    BY DEF UnreadableState, Readable
  <2>4. KeepAll.reset = FALSE
    BY DEF KeepAll, Request
  <2> HIDE DEF f, new
  <2> QED BY <2>1, <2>2, <2>3, <2>4 DEF Plan
<1>3. /\ KeepAll["mermaid"].ask = "keep" /\ KeepAll["math"].ask = "keep"
      /\ KeepAll.presenter = Ask("keep")
  BY DEF KeepAll, Request, Ask
<1>4. /\ OnlyProgram(known, "mermaid", Settled(m, p).resolved)
      /\ OnlyProgram(known, "math", Settled(a, p).resolved)
      /\ OnlyProgram(known, "presenter", p.resolved)
  <2>1. Holds(s.components, Settled(m, p), Settled(a, p), p)
    BY PlannedComponents
  <2> QED BY <2>1, HeldPrograms
<1>5. slots("mermaid") = {m}
  <2>1. slots("mermaid") = PlanExistingSlot(w, "mermaid", m.selection, known)
    BY <1>1, <1>3 DEF PlanSlot
  <2>2. m.selection.provider = "auto" \/ OnlyProgram(known, "mermaid", m.resolved)
    <3>1. Settled(m, p) = m \/ m.selection.provider = "auto"
      BY GivenUpIsOptional DEF Decided
    <3> QED BY <1>4, <3>1
  <2>3. Only(PlanExistingSlot(w, "mermaid", m.selection, known), m)
    BY <2>2, SlotIsKept DEF Decided
  <2> QED BY <2>1, <2>3 DEF Only
<1>6. slots("math") = {a}
  <2>1. slots("math") = PlanExistingSlot(w, "math", a.selection, known)
    BY <1>1, <1>3 DEF PlanSlot
  <2>2. a.selection.provider = "auto" \/ OnlyProgram(known, "math", a.resolved)
    <3>1. Settled(a, p) = a \/ a.selection.provider = "auto"
      BY GivenUpIsOptional DEF Decided
    <3> QED BY <1>4, <3>1
  <2>3. Only(PlanExistingSlot(w, "math", a.selection, known), a)
    BY <2>2, SlotIsKept DEF Decided
  <2> QED BY <2>1, <2>3 DEF Only
<1> DEFINE with(x, y) == PlanWith(w, KeepAll, new, TRUE, known, x, y)
<1>7. PlanFor(w, KeepAll, new, TRUE, known) = with(m, a)
  <2>1. PlanFor(w, KeepAll, new, TRUE, known)
          = UNION {UNION {with(x, y) : y \in slots("math")} : x \in slots("mermaid")}
    BY DEF PlanFor, DefaultProfileOf
  <2> DEFINE each(x) == UNION {with(x, y) : y \in slots("math")}
  <2>2. PlanFor(w, KeepAll, new, TRUE, known) = UNION {each(x) : x \in slots("mermaid")}
    BY <2>1
  <2>3. each(m) = with(m, a)
    <3> HIDE DEF slots, with
    <3> QED BY <1>6
  <2> HIDE DEF slots, each
  <2>4. UNION {each(x) : x \in slots("mermaid")} = each(m)
    BY <1>5
  <2> QED BY <2>2, <2>3, <2>4
<1>8. with(m, a) = Plans(w, new, m, a, p)
  <2> DEFINE externals == ExternalsOf(m, a)
             presenters == PlanPresenter(w, KeepAll.presenter, TRUE, sel("presenter"), known, externals)
             plans(x) == Plans(w, new, m, a, x)
  <2>1. with(m, a) = UNION {plans(x) : x \in presenters}
    BY DEF PlanWith, ExternalsOf, DefaultProfileOf
  <2>2. GoodPresenter(w, p, externals)
    BY DEF Decided
  <2>3. presenters = PlanPresenter(w, Ask("keep"), TRUE, p.selection, known, externals)
    BY <1>1, <1>3
  <2> HIDE DEF known, externals, presenters
  <2>4. presenters = {p}
    <3>1. Only(PlanPresenter(w, Ask("keep"), TRUE, p.selection, known, externals), p)
      BY <1>4, <2>2, PresenterIsKept
    <3> QED BY <2>3, <3>1 DEF Only
  <2>5. UNION {plans(x) : x \in presenters} = plans(p)
    <3> HIDE DEF plans
    <3> QED BY <2>4
  <2> QED BY <2>1, <2>5
<1>9. PlannedUser(new, Settled(m, p), Settled(a, p), p) = new
  <2>1. Settled(m, p).selection = m.selection /\ Settled(a, p).selection = a.selection
    BY GivenUpIsOptional DEF Decided
  <2>2. new.profiles[new.default].select = Selected(Settled(m, p), Settled(a, p), p)
    BY <1>1, <2>1 DEF Selected, DefaultProfileOf
  <2> HIDE DEF new
  <2> QED BY <1>1, <2>2, PlannedAgain
<1>10. PlanOf(w, user, m, a, p, planned)
  BY PlansAre
<1>11. AtMostOne(Resolve(w, new, new.default, {planned.state}))
  <2>1. Only(Resolve(w, new, new.default, {planned.state}), planned.view)
    BY PlannedIsResolved
  <2> QED BY <2>1 DEF AtMostOne, Only
<1>12. ASSUME NEW again \in Plans(w, new, m, a, p) PROVE again = planned
  <2>1. PlanOf(w, new, m, a, p, again)
    BY <1>12, PlansAre
  <2>2. again.user = new
    BY <1>9, <2>1 DEF PlanOf
  <2>3. again.state = planned.state
    BY <1>10, <2>1, <2>2 DEF PlanOf
  <2>4. again.view = planned.view
    BY <1>10, <1>11, <2>1, <2>2, <2>3 DEF PlanOf, AtMostOne
  <2> QED BY <1>10, <2>1, <2>2, <2>3, <2>4 DEF PlanOf
<1>13. planned \in Plans(w, new, m, a, p)
  <2>1. PlanOf(w, new, m, a, p, planned)
    BY <1>9, <1>10 DEF PlanOf
  <2> QED BY <2>1, PlansAre
<1> QED BY <1>2, <1>7, <1>8, <1>12, <1>13

-----------------------------------------------------------------------------
(* What an installation starts from.                                       *)

\* A file that was never broken is one that parses.
FileOK(f) == f = NoFile \/ f = Broken \/ IsFile(f)

StateOK(s) ==
  s.schema = "state" =>
    /\ s = State(s.digest, s.components)
         \/ s = [State(s.digest, s.components) EXCEPT !.current = FALSE]
    /\ Components(s.components)

\* The defaults are a valid configuration.
LEMMA DefaultUserIsValid == IsUser(DefaultUser) /\ ValidUser(DefaultUser)
<1>1. DefaultProfile \in [session : {"render", "source"}, show : {"auto", "plain", "source"},
                          cache : {"memory", "zero", "none"}, select : [Roles -> AnySelection]]
  BY SelectIsTyped DEF DefaultProfile, EngineProviders
<1>2. \A role \in Roles : DefaultProfile.select[role] = Select("auto")
  BY DEF DefaultProfile
<1>3. IsProfile(DefaultProfile)
  BY <1>1, <1>2 DEF IsProfile, AnySelection, Select, PresenterProviders, Roles
<1>4. ValidProfile(DefaultProfile)
  BY <1>2 DEF ValidProfile, ValidSelection, Select, DefaultProfile, None
<1>5. /\ DefaultUser.default = "default"
      /\ DefaultUser.profiles = [n \in {"default"} |-> DefaultProfile]
      /\ DefaultUser = [default |-> DefaultUser.default, profiles |-> DefaultUser.profiles]
  BY DEF DefaultUser, OneProfile
<1>6. DOMAIN DefaultUser.profiles = {"default"} /\ DefaultUser.profiles["default"] = DefaultProfile
  BY <1>5
<1>7. DefaultUser.profiles = [n \in DOMAIN DefaultUser.profiles |-> DefaultUser.profiles[n]]
  BY <1>5
<1> QED BY <1>3, <1>4, <1>5, <1>6, <1>7 DEF IsUser, ValidUser

\* So is what an older configuration means, once it is valid.
LEMMA LegacyIsUser ==
  ASSUME NEW w, NEW legacy \in LegacyConfigs
  PROVE  IsUser(IntoUserConfig(w, legacy))
<1> DEFINE select == [role \in Roles |-> IF role = "presenter" THEN LegacyPresenter(w, legacy)
                                         ELSE LegacyEngine(w, legacy[role])]
           profile == [session |-> IF legacy.source THEN "source" ELSE "render",
                       show |-> IF legacy.source THEN "source" ELSE "auto",
                       cache |-> legacy.cache, select |-> select]
           user == OneProfile(profile)
<1>1. IntoUserConfig(w, legacy) = user
  BY DEF IntoUserConfig
<1>2. ASSUME NEW path \in Paths
      PROVE  LegacyExternal(w, path) \in AnySelection
             /\ LegacyExternal(w, path).provider \in PresenterProviders
  BY DEF LegacyExternal, AnySelection, Selections, Select, External, EngineProviders,
         PresenterProviders
<1>3. /\ legacy["mermaid"].path \in Paths /\ legacy["math"].path \in Paths
      /\ legacy.presenter \in Paths /\ legacy.cache \in {"memory", "zero", "none"}
  BY DEF LegacyConfigs
<1>4. ASSUME NEW role \in Engines PROVE LegacyEngine(w, legacy[role]) \in AnySelection
  BY <1>2, <1>3, SelectIsTyped DEF LegacyEngine, Engines, EngineProviders
<1>5. LegacyPresenter(w, legacy) \in AnySelection
      /\ LegacyPresenter(w, legacy).provider \in PresenterProviders
  <2>1. Select("auto") \in AnySelection /\ Select("auto").provider \in PresenterProviders
    BY SelectIsTyped DEF EngineProviders, PresenterProviders, Select
  <2> QED BY <1>2, <1>3, <2>1 DEF LegacyPresenter
<1>6. select \in [Roles -> AnySelection] /\ select["presenter"].provider \in PresenterProviders
  BY <1>4, <1>5 DEF Roles
<1> HIDE DEF select
<1>7. IsProfile(profile)
  BY <1>3, <1>6 DEF IsProfile, AnySelection
<1> HIDE DEF profile
<1>8. /\ user.profiles = [n \in {"default"} |-> profile]
      /\ user = [default |-> user.default, profiles |-> user.profiles]
  BY DEF OneProfile
<1>9. IsUser(user)
  BY <1>7, <1>8 DEF IsUser
<1> QED BY <1>1, <1>9

\* So is what a file says.
LEMMA ParsedIsUser ==
  ASSUME NEW w, NEW f, FileOK(f), NEW user \in Parse(w, f)
  PROVE  IsUser(user) /\ ValidUser(user) /\ IsFile(f)
<1>1. ValidUser(user)
  BY DEF Parse
<1>2. ASSUME f.schema = "v1", f.legacy \in LegacyConfigs PROVE IsUser(user)
  <2>1. user = IntoUserConfig(w, f.legacy)
    BY <1>2 DEF Parse
  <2> QED BY <1>2, <2>1, LegacyIsUser
<1>3. ASSUME f.schema = "v2", IsUser(f.user) PROVE IsUser(user)
  BY <1>3 DEF Parse
<1>4. IsFile(f)
  <2>1. NoFile.schema = "none" /\ Broken.schema = "broken"
    BY DEF NoFile, Broken
  <2>2. f # NoFile /\ f # Broken
    BY <2>1 DEF Parse
  <2> QED BY <2>2 DEF FileOK
<1> QED BY <1>1, <1>2, <1>3, <1>4 DEF IsFile

\* And it says one thing.
LEMMA OneUserParsed ==
  ASSUME NEW w, NEW f, FileOK(f), NEW u1 \in Parse(w, f), NEW u2 \in Parse(w, f)
  PROVE  u1 = u2
<1>1. f.schema \in {"v1", "v2"}
  BY ParsedIsUser DEF IsFile
<1> QED BY <1>1 DEF Parse
-----------------------------------------------------------------------------
\* The users an installation may start from: the one the file has, if it is kept.
Keeps(request, f) == f # NoFile /\ ~request.reset
UsersFor(w, request, f) == IF Keeps(request, f) THEN Parse(w, f) ELSE {DefaultUser}

\* The decisions of an installation.
Decides(w, request, f, s, user, m, a, p) ==
  LET selection == DefaultProfileOf(user).select
      existing == Keeps(request, f)
      known == Readable(s)
  IN /\ user \in UsersFor(w, request, f)
     /\ m \in PlanSlot(w, "mermaid", request["mermaid"], existing, selection["mermaid"], known)
     /\ a \in PlanSlot(w, "math", request["math"], existing, selection["math"], known)
     /\ p \in PlanPresenter(w, request.presenter, existing, selection["presenter"], known,
                            ExternalsOf(m, a))

\* A plan is of decisions.
LEMMA PlanDecides ==
  ASSUME NEW w, NEW request, NEW f, NEW s, NEW planned \in Plan(w, request, f, s)
  PROVE  \E user, m, a, p : /\ Decides(w, request, f, s, user, m, a, p)
                            /\ planned \in Plans(w, user, m, a, p)
<1> DEFINE existing == Keeps(request, f)
           known == Readable(s)
<1>1. PICK user \in UsersFor(w, request, f) :
        planned \in PlanFor(w, request, user, existing, known)
  <2> DEFINE for(u) == PlanFor(w, request, u, existing, known)
  <2>1. planned \in UNION {for(u) : u \in UsersFor(w, request, f)}
    BY DEF Plan, UsersFor, Keeps
  <2> HIDE DEF for
  <2>2. PICK user \in UsersFor(w, request, f) : planned \in for(user)
    BY <2>1
  <2> QED BY <2>2 DEF for
<1> DEFINE selection == DefaultProfileOf(user).select
           slots(role) == PlanSlot(w, role, request[role], existing, selection[role], known)
           with(m, a) == PlanWith(w, request, user, existing, known, m, a)
<1>2. PICK m \in slots("mermaid"), a \in slots("math") : planned \in with(m, a)
  <2>1. planned \in UNION {UNION {with(m, a) : a \in slots("math")} : m \in slots("mermaid")}
    BY <1>1 DEF PlanFor, DefaultProfileOf
  <2> HIDE DEF slots, with
  <2> QED BY <2>1
<1> DEFINE presenters == PlanPresenter(w, request.presenter, existing, selection["presenter"],
                                       known, ExternalsOf(m, a))
           plans(p) == Plans(w, user, m, a, p)
<1>3. PICK p \in presenters : planned \in plans(p)
  <2>1. planned \in UNION {plans(p) : p \in presenters}
    BY <1>2 DEF PlanWith, DefaultProfileOf, ExternalsOf
  <2> HIDE DEF presenters, plans
  <2> QED BY <2>1
<1>4. Decides(w, request, f, s, user, m, a, p)
  BY <1>1, <1>2, <1>3 DEF Decides
<1> QED BY <1>3, <1>4

\* What an installation starts from is well formed, and so is what it decides.
LEMMA SelectionsOfValid ==
  ASSUME NEW user, IsUser(user), ValidUser(user), NEW role \in Roles
  PROVE  LET selection == DefaultProfileOf(user).select[role]
         IN /\ selection \in AnySelection
            /\ selection.provider \in EngineProviders
            /\ role = "presenter" => selection.provider \in PresenterProviders
            /\ selection.provider = "external" => selection.program # None
<1>1. user.default \in DOMAIN user.profiles
  BY DEF ValidUser
<1> DEFINE profile == user.profiles[user.default]
<1>2. IsProfile(profile) /\ ValidProfile(profile)
  BY <1>1 DEF IsUser, ValidUser
<1>3. profile.select \in [Roles -> AnySelection]
  <2> HIDE DEF profile
  <2> QED BY <1>2 DEF IsProfile, AnySelection
<1>4. profile.select[role] \in AnySelection
  BY <1>3
<1>5. ValidSelection(profile.select[role])
  BY <1>2 DEF ValidProfile
<1> HIDE DEF profile
<1>6. profile.select[role].provider \in EngineProviders
  BY <1>4 DEF AnySelection, Selections
<1>7. DefaultProfileOf(user) = profile
  BY DEF profile, DefaultProfileOf
<1> QED BY <1>2, <1>4, <1>5, <1>6, <1>7 DEF IsProfile, ValidSelection

\* The programs a state knows are programs.
LEMMA KnownIsTyped ==
  ASSUME NEW s, StateOK(s), NEW role \in Roles
  PROVE  StateProgram(Readable(s), role) \subseteq Programs
  BY DEF StateProgram, Readable, StateOK, Components

\* What an installation decides is of the good forms.
LEMMA DecidesIsDecided ==
  ASSUME NEW w, WorldOK(w), NEW request \in InstallRequests, NEW f, FileOK(f),
         NEW s, StateOK(s), NEW user, NEW m, NEW a, NEW p,
         Decides(w, request, f, s, user, m, a, p)
  PROVE  Decided(w, user, m, a, p)
<1>1. IsUser(user) /\ ValidUser(user)
  BY ParsedIsUser, DefaultUserIsValid DEF Decides, UsersFor
<1>2. /\ request["mermaid"] \in EngineAsks /\ request["math"] \in EngineAsks
      /\ request.presenter \in PresenterAsks
  BY DEF InstallRequests
<1> DEFINE selection == DefaultProfileOf(user).select
           existing == Keeps(request, f)
           known == Readable(s)
<1>3. /\ m \in PlanSlot(w, "mermaid", request["mermaid"], existing, selection["mermaid"], known)
      /\ a \in PlanSlot(w, "math", request["math"], existing, selection["math"], known)
      /\ p \in PlanPresenter(w, request.presenter, existing, selection["presenter"], known,
                             ExternalsOf(m, a))
  BY DEF Decides
<1>4. "mermaid" \in Roles /\ "math" \in Roles /\ "presenter" \in Roles
  BY DEF Roles, Engines
<1> HIDE DEF selection, existing, known
<1>5. \A role \in Roles : /\ selection[role] \in AnySelection
                          /\ selection[role].provider \in EngineProviders
                          /\ role = "presenter" => selection[role].provider \in PresenterProviders
                          /\ selection[role].provider = "external" => selection[role].program # None
  BY <1>1, SelectionsOfValid DEF selection
<1>6. \A role \in Roles : StateProgram(known, role) \subseteq Programs
  BY KnownIsTyped DEF known
<1>7. GoodSlot(w, "mermaid", m) /\ m.selection \in AnySelection
  BY <1>2, <1>3, <1>4, <1>5, <1>6, PlannedIsGood, SlotSelectionIsTyped
<1>8. GoodSlot(w, "math", a) /\ a.selection \in AnySelection
  BY <1>2, <1>3, <1>4, <1>5, <1>6, PlannedIsGood, SlotSelectionIsTyped
<1>9. GoodPresenter(w, p, ExternalsOf(m, a)) /\ p.selection \in AnySelection
  BY <1>2, <1>3, <1>4, <1>5, <1>6, PresenterIsGood, PresenterSelectionIsTyped
<1> QED BY <1>1, <1>7, <1>8, <1>9 DEF Decided, ValidUser

-----------------------------------------------------------------------------
(* What was chosen is taken.                                               *)

\* A slot takes the route that was chosen for it.
Takes(slot, route) ==
  \/ /\ route.backend = "external" /\ slot.route = "external"
     /\ slot.required /\ slot.resolved = route.path
  \/ /\ route.backend \in {"preview", "source"}
     /\ slot.selection.provider = route.backend

\* What is kept.
LEMMA KeptIsTaken ==
  ASSUME NEW role, FileOK(file), NEW user, user \in Parse(world, file),
         NEW selection, selection = DefaultProfileOf(user).select[role],
         selection.provider \in EngineProviders,
         NEW route \in KeptChoice(role),
         NEW slot \in PlanExistingSlot(world, role, selection, Readable(state))
  PROVE  Takes(slot, route)
<1> DEFINE known == Readable(state)
           choice(u) == LET picked == DefaultProfileOf(u).select[role]
                        IN CASE picked.provider = "external" -> {Runs(Located(picked.program))}
                             [] picked.provider = "managed" -> {Runs(path) : path \in StateProgram(known, role)}
                             [] picked.provider = "auto" -> {}
                             [] OTHER -> {BuiltIn(picked.provider)}
<1>1. route \in choice(user)
  <2>1. route \in UNION {choice(u) : u \in Parse(world, file)}
    BY DEF KeptChoice
  <2> HIDE DEF choice
  <2>2. PICK u \in Parse(world, file) : route \in choice(u)
    BY <2>1
  <2> QED BY <2>2, OneUserParsed
<1> USE DEF Takes, Runs, BuiltIn, ExternalSlot, BuiltInSlot, Slot
<1>2. CASE selection.provider = "external"
  <2>1. route = Runs(Located(selection.program))
    BY <1>1, <1>2
  <2>2. slot = ExternalSlot(Located(selection.program), TRUE,
                            ChosenSelection(world, selection.program))
    BY <1>2 DEF PlanExistingSlot, RequiredExternal
  <2> QED BY <2>1, <2>2
<1>3. CASE selection.provider = "managed"
  <2>1. PICK path \in StateProgram(known, role) : route = Runs(path)
    BY <1>1, <1>3
  <2>2. PICK other \in StateProgram(known, role) : slot = ExternalSlot(other, TRUE, selection)
    BY <1>3 DEF PlanExistingSlot
  <2>3. other = path
    BY DEF StateProgram, Readable
  <2> QED BY <2>1, <2>2, <2>3
<1>4. CASE selection.provider = "auto"
  BY <1>1, <1>4
<1>5. CASE selection.provider \in {"preview", "source"}
  <2>1. route = BuiltIn(selection.provider)
    BY <1>1, <1>5
  <2>2. slot = BuiltInSlot(selection.provider, selection)
    BY <1>5 DEF PlanExistingSlot
  <2> QED BY <1>5, <2>1, <2>2
<1> QED BY <1>2, <1>3, <1>4, <1>5 DEF EngineProviders

\* What is asked for, or kept.
LEMMA ChoiceIsTaken ==
  ASSUME NEW request \in InstallRequests, NEW role \in Engines, FileOK(file),
         NEW user \in UsersFor(world, request, file),
         NEW route \in Choice(request, role),
         NEW slot \in PlanSlot(world, role, request[role], Keeps(request, file),
                               DefaultProfileOf(user).select[role], Readable(state))
  PROVE  Takes(slot, route)
<1> DEFINE asked == request[role]
<1>1. asked \in EngineAsks
  BY DEF InstallRequests, Engines
<1>2. asked.ask \in {"keep", "auto", "program", "preview", "source"}
  BY <1>1 DEF EngineAsks, Ask, AskFor
<1> HIDE DEF asked
<1>3. CASE asked.ask = "program"
  <2>1. route = Runs(Located(asked.program))
    BY <1>3 DEF Choice, asked
  <2>2. slot = ExternalSlot(Located(asked.program), TRUE, ChosenSelection(world, asked.program))
    BY <1>3 DEF PlanSlot, RequiredExternal, asked
  <2> QED BY <2>1, <2>2 DEF Takes, Runs, ExternalSlot, Slot
<1>4. CASE asked.ask \in {"preview", "source"}
  <2>1. route = BuiltIn(asked.ask)
    BY <1>4 DEF Choice, asked
  <2>2. slot = BuiltInSlot(asked.ask, Select(asked.ask))
    BY <1>4 DEF PlanSlot, asked
  <2> QED BY <1>4, <2>1, <2>2 DEF Takes, BuiltIn, BuiltInSlot, Slot, Select
<1>5. CASE asked.ask = "keep" /\ ~request.reset
  <2>1. route \in KeptChoice(role)
    BY <1>5 DEF Choice, asked
  <2>2. Parse(world, NoFile) = {}
    BY DEF Parse, NoFile
  <2>3. file # NoFile
    BY <2>1, <2>2 DEF KeptChoice
  <2>4. Keeps(request, file) /\ user \in Parse(world, file)
    BY <1>5, <2>3 DEF Keeps, UsersFor
  <2>5. slot \in PlanExistingSlot(world, role, DefaultProfileOf(user).select[role], Readable(state))
    BY <1>5, <2>4 DEF PlanSlot, asked
  <2>6. DefaultProfileOf(user).select[role].provider \in EngineProviders
    BY <2>4, ParsedIsUser, SelectionsOfValid DEF Roles
  <2> QED BY <2>1, <2>4, <2>5, <2>6, KeptIsTaken
<1>6. CASE asked.ask = "auto" \/ (asked.ask = "keep" /\ request.reset)
  BY <1>6 DEF Choice, asked
<1>7. request.reset \in BOOLEAN
  BY DEF InstallRequests
<1> QED BY <1>2, <1>3, <1>4, <1>5, <1>6, <1>7

\* A view takes it too, unless the profile bypasses the engines.
Keeping(taken, route) ==
  /\ taken.backend = route.backend
  /\ IsExternal(route) => Located(taken.path) = route.path

\* The view of a plan takes what a required slot takes.
LEMMA ViewTakes ==
  ASSUME NEW w, WorldOK(w), NEW user, NEW m, NEW a, NEW p, Decided(w, user, m, a, p),
         NEW planned \in Plans(w, user, m, a, p),
         ~Bypassed(DefaultProfileOf(planned.user)), NEW route
  PROVE  /\ Takes(m, route) => Keeping(planned.view["mermaid"], route)
         /\ Takes(a, route) => Keeping(planned.view["math"], route)
<1> DEFINE new == planned.user
           profile == DefaultProfileOf(new)
           known == {planned.state}
<1>1. PlanOf(w, user, m, a, p, planned)
  BY PlansAre
<1>2. planned.view \in Resolve(w, new, new.default, known)
  BY <1>1 DEF PlanOf
<1>3. PICK mermaid \in ResolveEngine(w, profile, known, "mermaid"),
           math \in ResolveEngine(w, profile, known, "math") :
             \E presenter : planned.view = View(mermaid, math, presenter)
  <2>1. ViewOf(w, profile, known, planned.view)
    BY <1>2, IsView DEF DefaultProfileOf
  <2> QED BY <2>1 DEF ViewOf
<1>4. planned.view["mermaid"] = mermaid /\ planned.view["math"] = math
  BY <1>3 DEF View
<1>5. profile.select["mermaid"] = m.selection /\ profile.select["math"] = a.selection
  <2>1. Selects(profile, m, a, p)
    BY PlannedProfile
  <2> QED BY <2>1 DEF Selects
<1>6. /\ OnlyProgram(known, "mermaid", Settled(m, p).resolved)
      /\ OnlyProgram(known, "math", Settled(a, p).resolved)
  <2>1. Holds(planned.state.components, Settled(m, p), Settled(a, p), p)
    BY PlannedComponents
  <2> QED BY <2>1, HeldPrograms
<1> HIDE DEF profile, known
<1>7. ASSUME NEW role, NEW slot, GoodSlot(w, role, slot), NEW taken,
             profile.select[role] = slot.selection,
             OnlyProgram(known, role, Settled(slot, p).resolved),
             taken \in ResolveEngine(w, profile, known, role), Takes(slot, route)
      PROVE  Keeping(taken, route)
  <2>1. /\ SettledOK(w, role, Settled(slot, p))
        /\ Settled(slot, p).selection = slot.selection
        /\ slot.required => Settled(slot, p) = slot
    BY <1>7, GivenUpIsOptional
  <2>2. /\ Settled(slot, p).route = "external" =>
             IsExternal(taken) /\ Located(taken.path) = Settled(slot, p).resolved
        /\ slot.selection.provider \in {"preview", "source"} =>
             taken.backend = slot.selection.provider
    BY <1>7, <2>1, RouteOfSlot DEF profile
  <2> QED BY <1>7, <2>1, <2>2 DEF Takes, Keeping, IsExternal
<1>8. GoodSlot(w, "mermaid", m) /\ GoodSlot(w, "math", a)
  BY DEF Decided
<1>9. Takes(m, route) => Keeping(mermaid, route)
  BY <1>3, <1>5, <1>6, <1>7, <1>8
<1>10. Takes(a, route) => Keeping(math, route)
  BY <1>3, <1>5, <1>6, <1>7, <1>8
<1> QED BY <1>4, <1>9, <1>10
-----------------------------------------------------------------------------
\* Where nothing is chosen, there is always a plan.
LEMMA AutoResolves ==
  ASSUME NEW w, NEW profile, NEW known, NEW role, profile.select[role].provider = "auto"
  PROVE  ResolveEngine(w, profile, known, role) # {}
<1> DEFINE found == StateProgram(known, role)
<1>1. CASE SourceRequested(profile)
  BY <1>1 DEF ResolveEngine
<1>2. CASE ~SourceRequested(profile) /\ PlainRequested(profile)
  BY <1>2 DEF ResolveEngine
<1>3. CASE ~SourceRequested(profile) /\ ~PlainRequested(profile)
  <2>1. ResolveEngine(w, profile, known, role)
          = IF found = {} THEN {BuiltIn("preview")} ELSE {Runs(path) : path \in found}
    BY <1>3 DEF ResolveEngine
  <2> HIDE DEF found
  <2> QED BY <2>1
<1> QED BY <1>1, <1>2, <1>3

\* Nor does a presenter that is left to ptymark fail.
LEMMA AutoPresents ==
  ASSUME NEW w, NEW profile, NEW known, NEW required \in BOOLEAN,
         profile.select["presenter"].provider = "auto"
  PROVE  ResolvePresenter(w, profile, known, required) # {}
  BY DEF ResolvePresenter

\* So starting over is planned.
LEMMA StartingOverIsPlanned ==
  ASSUME NEW w, WorldOK(w), NEW f, NEW s, s # UnreadableState
  PROVE  Plan(w, StartOver, f, s) # {}
<1> DEFINE user == DefaultUser
           known == Readable(s)
           auto == Select("auto")
           selection(role) == user.profiles[user.default].select[role]
           slots(role) == PlanSlot(w, role, StartOver[role], FALSE, selection(role), known)
           with(m, a) == PlanWith(w, StartOver, user, FALSE, known, m, a)
<1>1. StartOver = [mermaid |-> Ask("auto"), math |-> Ask("auto"), presenter |-> Ask("auto"),
                   reset |-> TRUE]
  BY DEF StartOver, Request
<1>2. Plan(w, StartOver, f, s) = PlanFor(w, StartOver, user, FALSE, known)
  BY <1>1 DEF Plan
<1>3. slots("mermaid") = PlanAutoSlot(w, "mermaid") /\ slots("math") = PlanAutoSlot(w, "math")
  BY <1>1 DEF PlanSlot, Ask
<1>4. PICK m \in slots("mermaid"), a \in slots("math") :
        /\ m \in PlanAutoSlot(w, "mermaid") /\ a \in PlanAutoSlot(w, "math")
  BY <1>3 DEF PlanAutoSlot
<1>5. PlanFor(w, StartOver, user, FALSE, known)
        = UNION {UNION {with(x, y) : y \in slots("math")} : x \in slots("mermaid")}
  BY DEF PlanFor
<1>6. ~m.required /\ ~a.required /\ m.selection = auto /\ a.selection = auto
  BY <1>4 DEF PlanAutoSlot, ExternalSlot, BuiltInSlot, Slot
<1> DEFINE externals == ExternalsOf(m, a)
           presenters == PlanPresenter(w, StartOver.presenter, FALSE, selection("presenter"),
                                       known, externals)
           plans(p) == Plans(w, user, m, a, p)
<1>7. with(m, a) = UNION {plans(p) : p \in presenters}
  BY DEF PlanWith, ExternalsOf
<1>8. PICK p \in presenters : p.selection = auto /\ GoodPresenter(w, p, externals)
  <2>1. presenters = IF externals # {} THEN FoundPresenter(w, auto, known, externals)
                     ELSE {Presenter(None, auto)}
    BY <1>1 DEF PlanPresenter, Ask
  <2>2. auto.provider = "auto"
    BY DEF Select
  <2>3. CASE externals = {}
    <3>1. PICK none : none = Presenter(None, auto)
      OBVIOUS
    <3>2. none \in presenters
      BY <2>1, <2>3, <3>1
    <3>3. none.resolved = None /\ none.selection = auto
          /\ none = Presenter(none.resolved, none.selection)
      BY <3>1 DEF Presenter
    <3> HIDE DEF externals, presenters, auto
    <3>4. GoodPresenter(w, none, externals)
      BY <2>2, <2>3, <3>3 DEF GoodPresenter, PresenterProviders
    <3> QED BY <3>2, <3>3, <3>4
  <2>4. CASE externals # {}
    <3>1. \A x \in externals : ~x.required
      BY <1>6 DEF ExternalsOf
    <3> DEFINE path == Bare("presenter")
               q == Presenter(IF Usable(w, path) THEN Located(path) ELSE None, auto)
    <3>2. q \in FoundPresenter(w, auto, known, externals)
      <4> HIDE DEF externals
      <4> QED BY <2>2, <3>1 DEF FoundPresenter, PresenterCandidates
    <3>3. q.selection = auto
          /\ q.resolved = (IF Usable(w, path) THEN Located(path) ELSE None)
          /\ q = Presenter(q.resolved, q.selection)
      BY DEF Presenter
    <3> HIDE DEF externals, auto, q
    <3>4. GoodPresenter(w, q, externals)
      BY <2>2, <2>4, <3>1, <3>3 DEF GoodPresenter, PresenterProviders
    <3> QED BY <2>1, <2>4, <3>2, <3>3, <3>4
  <2> HIDE DEF externals, presenters, auto
  <2> QED BY <2>3, <2>4
<1>9. Decided(w, user, m, a, p)
  <2>1. GoodSlot(w, "mermaid", m) /\ GoodSlot(w, "math", a)
    BY <1>4, AutoIsGood
  <2>2. auto \in AnySelection
    BY SelectIsTyped DEF EngineProviders
  <2>3. IsUser(user) /\ user.default \in DOMAIN user.profiles
    BY DefaultUserIsValid DEF ValidUser
  <2> HIDE DEF externals, presenters, auto, user
  <2> QED BY <1>6, <1>8, <2>1, <2>2, <2>3 DEF Decided, externals
<1>10. PICK new : new = PlannedUser(user, Settled(m, p), Settled(a, p), p)
  OBVIOUS
<1>11. PICK made : made = PlannedState(new, Settled(m, p), Settled(a, p), p)
  OBVIOUS
<1>12. PICK profile : profile = WithSelected(user.profiles[user.default],
                                             Settled(m, p), Settled(a, p), p)
  OBVIOUS
<1>13. Settled(m, p).selection = auto /\ Settled(a, p).selection = auto
  BY <1>6, <1>9, GivenUpIsOptional DEF Decided
<1>14. /\ new.default = "default" /\ DOMAIN new.profiles = {"default"}
       /\ new.profiles["default"] = profile
  <2>1. /\ user.default = "default" /\ user.profiles = [n \in {"default"} |-> DefaultProfile]
    BY DEF DefaultUser, OneProfile
  <2>2. Rewritten(user, profile, new)
    BY <1>9, <1>10, <1>12, PlannedUserIs DEF Decided
  <2> HIDE DEF user
  <2> QED BY <2>1, <2>2 DEF Rewritten
<1>15. /\ \A role \in Roles : profile.select[role] = auto
       /\ profile.cache = "memory"
  <2>1. user.profiles[user.default] = DefaultProfile
    BY DEF DefaultUser, OneProfile
  <2>2. IsProfile(DefaultProfile) /\ DefaultProfile.cache = "memory"
    BY <2>1, <1>9 DEF Decided, IsUser, DefaultProfile
  <2>3. auto \in AnySelection /\ auto.provider \in PresenterProviders
    BY SelectIsTyped DEF EngineProviders, PresenterProviders, Select
  <2> HIDE DEF user, auto
  <2>4. /\ profile.cache = "memory" /\ profile.select["mermaid"] = auto
        /\ profile.select["math"] = auto /\ profile.select["presenter"] = auto
    BY <1>8, <1>12, <1>13, <2>1, <2>2, <2>3, NewProfile
  <2> QED BY <2>4 DEF Roles, Engines
<1>16. ValidUser(new)
  BY <1>14, <1>15 DEF ValidUser, ValidProfile, ValidSelection, Select, None
<1>17. \E view : view \in Resolve(w, new, new.default, {made})
  <2>1. \A role \in Roles : new.profiles[new.default].select[role].provider = "auto"
    BY <1>14, <1>15 DEF Select
  <2>2. PICK mermaid \in ResolveEngine(w, new.profiles[new.default], {made}, "mermaid"),
             math \in ResolveEngine(w, new.profiles[new.default], {made}, "math") : TRUE
    BY <2>1, AutoResolves DEF Roles, Engines
  <2>3. PICK required : required = (IsExternal(mermaid) \/ IsExternal(math))
    OBVIOUS
  <2>4. PICK presenter \in ResolvePresenter(w, new.profiles[new.default], {made}, required) : TRUE
    <3>1. required \in BOOLEAN
      BY <2>3
    <3> QED BY <2>1, <3>1, AutoPresents DEF Roles
  <2> QED BY <1>14, <1>16, <2>2, <2>3, <2>4, ViewIs
<1>18. PICK view : view \in Resolve(w, new, new.default, {made})
  BY <1>17
<1>19. PICK planned : planned = [user |-> new, state |-> made, view |-> view]
  OBVIOUS
<1>20. PlanOf(w, user, m, a, p, planned)
  <2>1. planned.user = new /\ planned.state = made /\ planned.view = view
    BY <1>19
  <2> QED BY <1>10, <1>11, <1>18, <1>19, <2>1 DEF PlanOf
<1>21. planned \in plans(p)
  BY <1>20, PlansAre
<1>22. planned \in with(m, a)
  <2> HIDE DEF plans, presenters, with
  <2> QED BY <1>7, <1>8, <1>21
<1>23. planned \in PlanFor(w, StartOver, user, FALSE, known)
  <2> DEFINE each(x) == UNION {with(x, y) : y \in slots("math")}
  <2>1. planned \in each(m)
    <3> HIDE DEF with, slots
    <3> QED BY <1>4, <1>22
  <2>2. PlanFor(w, StartOver, user, FALSE, known) = UNION {each(x) : x \in slots("mermaid")}
    BY <1>5
  <2> HIDE DEF each, slots
  <2> QED BY <1>4, <2>1, <2>2
<1> QED BY <1>2, <1>23

-----------------------------------------------------------------------------
(* The inductive invariant.                                                *)

\* What holds of the files and the world once there is an installation, until
\* the user undoes it.
KeptChoices(made) ==
  ~Bypassed(DefaultProfileOf(made.user)) =>
    \A role \in Engines : \A route \in made.chosen[role] : Keeping(made.view[role], route)

Aged(s, current) == [s EXCEPT !.current = current]

InstalledInv(w, f, s, made) ==
  /\ made = [user |-> made.user, view |-> made.view, chosen |-> made.chosen,
             changed |-> made.changed]
  /\ f = File(made.user) /\ IsUser(made.user) /\ ValidUser(made.user)
  /\ s.schema = "state" /\ s.digest = Digest(made.user)
  /\ KeptChoices(made)
  /\ "manifest" \notin made.changed =>
       Only(Resolve(w, made.user, made.user.default, {s}), made.view)
  /\ made.changed = {} =>
       /\ ViewUsable(w, made.view)
       /\ \A current \in BOOLEAN :
            Only(Plan(w, KeepAll, f, Aged(s, current)),
                 [user |-> made.user, state |-> Aged(s, TRUE), view |-> made.view])

ProvisioningInv ==
  /\ world \in Worlds
  /\ FileOK(file)
  /\ StateOK(state)
  /\ last # None => last = <<last[1]>> /\ InstalledInv(world, file, state, last[1])

\* It holds at first.
LEMMA InitProvisioning == Init => ProvisioningInv
<1> SUFFICES ASSUME Init PROVE ProvisioningInv
  OBVIOUS
<1>1. world \in Worlds /\ FileOK(file)
  BY ProvisioningAssumption DEF Init, FileOK
<1>2. StateOK(NoState)
  BY DEF StateOK, NoState
<1>3. StateOK(OlderState)
  <2> DEFINE components == [role \in Roles |-> Bundled(role)]
  <2>1. \A role \in Roles : Bundled(role) \in Programs /\ Bundled(role) # None
    BY DEF Programs, Bundled, None
  <2>2. Components(components)
    BY <2>1 DEF Components, Presentable, Roles, Engines
  <2>3. OlderState.components = components
        /\ OlderState = [State(OlderState.digest, OlderState.components) EXCEPT !.current = FALSE]
    BY DEF OlderState, State
  <2> HIDE DEF components
  <2> QED BY <2>2, <2>3 DEF StateOK
<1> QED BY <1>1, <1>2, <1>3 DEF Init, ProvisioningInv

\* The age of a state is that of the version that wrote it.
LEMMA AnyAge ==
  ASSUME NEW digest, NEW components, NEW old, NEW new
  PROVE  [[schema |-> "state", digest |-> digest, components |-> components,
           current |-> old] EXCEPT !.current = new]
           = [schema |-> "state", digest |-> digest, components |-> components,
              current |-> new]
  OBVIOUS

\* A state that an upgrade has left behind.
LEMMA OlderOf ==
  ASSUME NEW digest, NEW components
  PROVE  [State(digest, components) EXCEPT !.current = FALSE]
           = [schema |-> "state", digest |-> digest, components |-> components,
              current |-> FALSE]
  BY AnyAge, Zenon DEF State

\* A state is the same but for its age.
LEMMA AgedState ==
  ASSUME NEW s, StateOK(s), s.schema = "state", NEW current \in BOOLEAN
  PROVE  /\ Aged(s, current).schema = "state"
         /\ Aged(s, current).digest = s.digest
         /\ Aged(s, current).components = s.components
         /\ Aged(s, TRUE) = State(s.digest, s.components)
         /\ StateOK(Aged(s, current))
         /\ \A again \in BOOLEAN : Aged(Aged(s, current), again) = Aged(s, again)
<1>1. PICK c \in BOOLEAN : s = [schema |-> "state", digest |-> s.digest,
                                components |-> s.components, current |-> c]
  BY DEF StateOK, State
<1>2. \A b \in BOOLEAN : Aged(s, b) = [schema |-> "state", digest |-> s.digest,
                                       components |-> s.components, current |-> b]
  BY <1>1 DEF Aged
<1>3. PICK aged : aged = Aged(s, current)
  OBVIOUS
<1>4. aged = [schema |-> "state", digest |-> s.digest,
              components |-> s.components, current |-> current]
  BY <1>2, <1>3
<1>5. \A b \in BOOLEAN : Aged(aged, b) = Aged(s, b)
  BY <1>2, <1>4 DEF Aged
<1>6. aged.schema = "state" /\ aged.digest = s.digest /\ aged.components = s.components
  BY <1>4
<1>7. aged = State(s.digest, s.components)
        \/ aged = [State(s.digest, s.components) EXCEPT !.current = FALSE]
  <2>1. CASE current
    BY <1>4, <2>1 DEF State
  <2>2. CASE ~current
    BY <1>4, <2>2, OlderOf
  <2> QED BY <2>1, <2>2
<1>8. StateOK(aged)
  BY <1>6, <1>7 DEF StateOK
<1>9. Aged(s, TRUE) = State(s.digest, s.components)
  BY <1>2 DEF State
<1> QED BY <1>3, <1>5, <1>6, <1>8, <1>9

\* A state has some age.
LEMMA SameAge ==
  ASSUME NEW s, StateOK(s), s.schema = "state"
  PROVE  \E current \in BOOLEAN : s = Aged(s, current)
<1>1. PICK c \in BOOLEAN : s = [schema |-> "state", digest |-> s.digest,
                                components |-> s.components, current |-> c]
  BY OlderOf DEF StateOK, State
<1>2. Aged(s, c) = [schema |-> "state", digest |-> s.digest,
                    components |-> s.components, current |-> c]
  BY <1>1 DEF Aged
<1> QED BY <1>1, <1>2

\* An installation establishes it.
LEMMA InstallEstablishes ==
  ASSUME ProvisioningInv, NEW request \in InstallRequests,
         NEW planned \in Plan(world, request, file, state),
         NEW made, made = [user |-> planned.user, view |-> planned.view,
                           chosen |-> [role \in Engines |-> Choice(request, role)],
                           changed |-> {}]
  PROVE  /\ FileOK(File(planned.user)) /\ StateOK(planned.state)
         /\ InstalledInv(world, File(planned.user), planned.state, made)
<1>1. WorldOK(world)
  BY DEF ProvisioningInv, WorldOK, Worlds
<1>2. FileOK(file) /\ StateOK(state)
  BY DEF ProvisioningInv
<1>3. PICK user, m, a, p : /\ Decides(world, request, file, state, user, m, a, p)
                           /\ planned \in Plans(world, user, m, a, p)
  BY PlanDecides
<1>4. Decided(world, user, m, a, p)
  BY <1>1, <1>2, <1>3, DecidesIsDecided
<1>5. IsUser(planned.user) /\ ValidUser(planned.user)
  BY <1>1, <1>3, <1>4, PlannedProfile
<1>6. FileOK(File(planned.user))
  BY <1>5 DEF FileOK, IsFile, File
<1>7. /\ planned.state = State(Digest(planned.user), planned.state.components)
      /\ Components(planned.state.components)
  BY <1>1, <1>3, <1>4, PlannedComponents
<1>8. planned.state.schema = "state" /\ planned.state.digest = Digest(planned.user)
  BY <1>7 DEF State
<1>9. StateOK(planned.state)
  BY <1>7, <1>8 DEF StateOK
<1>10. Only(Resolve(world, planned.user, planned.user.default, {planned.state}), planned.view)
  BY <1>1, <1>3, <1>4, PlannedIsResolved
<1>11. ViewUsable(world, planned.view)
  BY <1>1, <1>3, <1>4, PlannedIsUsable
<1>12. planned = [user |-> planned.user, state |-> planned.state, view |-> planned.view]
  <2>1. PlanOf(world, user, m, a, p, planned)
    BY <1>3, PlansAre
  <2> QED BY <2>1 DEF PlanOf
<1>13. ASSUME NEW current \in BOOLEAN
       PROVE  Only(Plan(world, KeepAll, File(planned.user), Aged(planned.state, current)), planned)
  <2>1. PICK s : s = Aged(planned.state, current)
    OBVIOUS
  <2>2. s.schema = "state" /\ s.components = planned.state.components
    BY <1>8, <1>9, <2>1, AgedState
  <2>3. Plan(world, KeepAll, File(planned.user), s) = {planned}
    BY <1>1, <1>3, <1>4, <2>2, DecidedAgain
  <2> QED BY <2>1, <2>3 DEF Only
<1>14. Aged(planned.state, TRUE) = planned.state
  BY <1>7, <1>8, <1>9, AgedState
<1>15. /\ made.user = planned.user /\ made.view = planned.view
       /\ \A role \in Engines : made.chosen[role] = Choice(request, role)
       /\ made.changed = {}
       /\ made = [user |-> made.user, view |-> made.view, chosen |-> made.chosen,
                  changed |-> made.changed]
  OBVIOUS
<1>16. KeptChoices(made)
  <2> SUFFICES ASSUME ~Bypassed(DefaultProfileOf(planned.user)), NEW role \in Engines,
                      NEW route \in Choice(request, role)
               PROVE  Keeping(planned.view[role], route)
    BY <1>15 DEF KeptChoices
  <2>1. user \in UsersFor(world, request, file)
    BY <1>3 DEF Decides
  <2>2. CASE role = "mermaid"
    <3>1. Takes(m, route)
      BY <1>2, <1>3, <2>1, <2>2, ChoiceIsTaken DEF Decides
    <3> QED BY <1>1, <1>3, <1>4, <2>2, <3>1, ViewTakes
  <2>3. CASE role = "math"
    <3>1. Takes(a, route)
      BY <1>2, <1>3, <2>1, <2>3, ChoiceIsTaken DEF Decides
    <3> QED BY <1>1, <1>3, <1>4, <2>3, <3>1, ViewTakes
  <2> QED BY <2>2, <2>3 DEF Engines
<1>17. InstalledInv(world, File(planned.user), planned.state, made)
  BY <1>5, <1>8, <1>10, <1>11, <1>12, <1>13, <1>14, <1>15, <1>16 DEF InstalledInv
<1> QED BY <1>6, <1>9, <1>17

\* A file and a state that stay serve as well when the world changes, or the
\* program is upgraded: only the manifest matters to a plan that was made.
LEMMA StepProvisioning == ProvisioningInv /\ [Next]_vars => ProvisioningInv'
<1> SUFFICES ASSUME ProvisioningInv, [Next]_vars PROVE ProvisioningInv'
  OBVIOUS
<1>1. CASE InstallResolve
  <2>0. PICK request \in InstallRequests :
          \E planned \in Plan(world, request, file, state) :
            /\ file' = WrittenConfig(planned) /\ state' = planned.state
            /\ last' = <<[user |-> planned.user, view |-> planned.view,
                          chosen |-> [role \in Engines |-> Choice(request, role)],
                          changed |-> {}]>>
    BY <1>1, ProvisioningAssumption DEF InstallResolve
  <2>1. PICK planned \in Plan(world, request, file, state) :
          /\ file' = WrittenConfig(planned) /\ state' = planned.state
          /\ last' = <<[user |-> planned.user, view |-> planned.view,
                        chosen |-> [role \in Engines |-> Choice(request, role)],
                        changed |-> {}]>>
    BY <2>0
  <2>2. PICK made : made = [user |-> planned.user, view |-> planned.view,
                            chosen |-> [role \in Engines |-> Choice(request, role)],
                            changed |-> {}]
    OBVIOUS
  <2>3. /\ FileOK(File(planned.user)) /\ StateOK(planned.state)
        /\ InstalledInv(world, File(planned.user), planned.state, made)
    BY <2>2, InstallEstablishes
  <2>4. file' = File(planned.user) /\ last' = <<made>> /\ world' = world
    BY <1>1, <2>1, <2>2 DEF WrittenConfig, InstallResolve
  <2> QED BY <2>1, <2>3, <2>4 DEF ProvisioningInv
<1>2. CASE ConfigMigrate
  <2>1. PICK user \in Parse(world, file) : file' = File(user)
    BY <1>2 DEF ConfigMigrate
  <2>2. IsUser(user)
    BY <2>1, ParsedIsUser DEF ProvisioningInv
  <2>3. FileOK(file')
    BY <2>1, <2>2 DEF FileOK, IsFile, File
  <2>4. last = None
    BY <1>2 DEF ConfigMigrate, ProvisioningInv, InstalledInv, File
  <2> QED BY <1>2, <2>3, <2>4 DEF ConfigMigrate, ProvisioningInv
<1>3. CASE EditConfig
  BY <1>3, ProvisioningAssumption DEF EditConfig, ProvisioningInv, FileOK
<1>4. CASE LoseState
  <2>1. StateOK(NoState) /\ StateOK(UnreadableState)
    BY DEF StateOK, NoState, UnreadableState
  <2> QED BY <1>4, <2>1 DEF LoseState, ProvisioningInv
<1>5. CASE Upgrade
  <2>1. state.schema = "state" /\ state' = Aged(state, FALSE)
    BY <1>5 DEF Upgrade, Readable, Aged
  <2>2. UNCHANGED <<world, file, last>>
    BY <1>5 DEF Upgrade
  <2>3. StateOK(state)
    BY DEF ProvisioningInv
  <2>4. /\ StateOK(state') /\ state'.schema = "state" /\ state'.digest = state.digest
        /\ state'.components = state.components
        /\ \A again \in BOOLEAN : Aged(state', again) = Aged(state, again)
    BY <2>1, <2>3, AgedState
  <2>5. ASSUME NEW made, InstalledInv(world, file, state, made)
        PROVE  InstalledInv(world, file, state', made)
    <3>1. PICK new : new = state'
      OBVIOUS
    <3>2. \A role \in Roles : StateProgram({new}, role) = StateProgram({state}, role)
      BY <2>4, <3>1 DEF StateProgram
    <3>3. Resolve(world, made.user, made.user.default, {new})
            = Resolve(world, made.user, made.user.default, {state})
      BY <3>2, ResolveDepends
    <3>4. "manifest" \notin made.changed =>
            Only(Resolve(world, made.user, made.user.default, {new}), made.view)
      BY <2>5, <3>3 DEF InstalledInv, Only
    <3>5. \A again \in BOOLEAN : Aged(new, again) = Aged(state, again)
      BY <2>4, <3>1
    <3>6. new.schema = "state" /\ new.digest = Digest(made.user)
      BY <2>4, <2>5, <3>1 DEF InstalledInv
    <3>7. InstalledInv(world, file, new, made)
      BY <2>5, <3>4, <3>5, <3>6 DEF InstalledInv
    <3> QED BY <3>1, <3>7
  <2> QED BY <2>2, <2>4, <2>5 DEF ProvisioningInv
<1>6. CASE ChangeWorld
  <2>1. UNCHANGED <<file, state>>
    BY <1>6 DEF ChangeWorld
  <2>2. PICK what \in {"programs", "manifest"}, w \in Worlds :
          /\ Changes(what, w)
          /\ what = "programs" => w.manifest = world.manifest
    <3>1. world \in Worlds
      BY DEF ProvisioningInv
    <3>2. ASSUME NEW p \in Programs,
                 Changes("programs", [world EXCEPT !.programs =
                                        IF p \in @ THEN @ \ {p} ELSE @ \cup {p}])
          PROVE  \E w \in Worlds : Changes("programs", w) /\ w.manifest = world.manifest
      <4>1. PICK programs : programs = IF p \in world.programs THEN world.programs \ {p}
                                       ELSE world.programs \cup {p}
        OBVIOUS
      <4>2. programs \in SUBSET Programs
        BY <3>1, <4>1 DEF Worlds
      <4>3. PICK w : w = [world EXCEPT !.programs = programs]
        OBVIOUS
      <4>4. w \in Worlds /\ w.manifest = world.manifest
        BY <3>1, <4>2, <4>3 DEF Worlds
      <4>5. Changes("programs", w)
        BY <3>2, <4>1, <4>3
      <4> QED BY <4>4, <4>5
    <3>3. ASSUME NEW m \in Manifests, Changes("manifest", [world EXCEPT !.manifest = m])
          PROVE  \E w \in Worlds : Changes("manifest", w)
      <4>1. [world EXCEPT !.manifest = m] \in Worlds
        BY <3>1 DEF Worlds
      <4> QED BY <3>3, <4>1
    <3> QED BY <1>6, <3>2, <3>3 DEF ChangeWorld
  <2>3. world' = w
    BY <2>2 DEF Changes
  <2>4. CASE last = None
    BY <2>1, <2>2, <2>3, <2>4 DEF Changes, ProvisioningInv
  <2>5. CASE last # None
    <3>1. PICK made : last = <<made>> /\ InstalledInv(world, file, state, made)
      BY <2>5 DEF ProvisioningInv
    <3>2. PICK now : now = [made EXCEPT !.changed = @ \cup {what}]
      OBVIOUS
    <3>3. last' = <<now>>
      BY <2>2, <2>5, <3>1, <3>2 DEF Changes
    <3>4. /\ now = [user |-> made.user, view |-> made.view, chosen |-> made.chosen,
                    changed |-> made.changed \cup {what}]
      BY <3>1, <3>2 DEF InstalledInv
    <3>5. KeptChoices(now)
      BY <3>1, <3>4 DEF InstalledInv, KeptChoices
    <3>6. "manifest" \notin now.changed =>
            Only(Resolve(w, now.user, now.user.default, {state}), now.view)
      <4> SUFFICES ASSUME "manifest" \notin now.changed
                   PROVE  Only(Resolve(w, made.user, made.user.default, {state}), made.view)
        BY <3>4
      <4>1. "manifest" \notin made.changed /\ w.manifest = world.manifest
        BY <2>2, <3>4
      <4>2. Resolve(w, made.user, made.user.default, {state})
              = Resolve(world, made.user, made.user.default, {state})
        BY <4>1, ResolveDepends
      <4> QED BY <3>1, <4>1, <4>2 DEF InstalledInv, Only
    <3>7. now.changed # {}
      BY <3>4
    <3>8. InstalledInv(w, file, state, now)
      BY <3>1, <3>4, <3>5, <3>6, <3>7 DEF InstalledInv
    <3> QED BY <2>1, <2>2, <2>3, <3>3, <3>8 DEF ProvisioningInv
  <2> QED BY <2>4, <2>5
<1>7. CASE UNCHANGED vars
  BY <1>7 DEF vars, ProvisioningInv, InstalledInv, KeptChoices
<1> QED BY <1>1, <1>2, <1>3, <1>4, <1>5, <1>6, <1>7 DEF Next

-----------------------------------------------------------------------------
(* The theorems.                                                           *)

(* The two files and the last installation belong together, whatever the   *)
(* user, the installer and the world do: the inductive invariant.          *)
THEOREM AlwaysConsistent == Spec => []ProvisioningInv
  BY InitProvisioning, StepProvisioning, PTL DEF Spec

\* What sessions load.
LEMMA SessionIs ==
  ASSUME ProvisioningInv, NEW made, InstalledInv(world, file, state, made)
  PROVE  Session = Resolve(world, made.user, made.user.default, {state})
<1>1. file = File(made.user) /\ ValidUser(made.user)
  BY DEF InstalledInv
<1>2. Parse(world, file) = {made.user}
  BY <1>1 DEF Parse, File
<1>3. MatchingState(state, made.user) = {state}
  BY DEF InstalledInv, MatchingState, Readable, MatchesUserConfig
<1>4. file # NoFile
  BY <1>1 DEF File, NoFile
<1> DEFINE resolved(user) == Resolve(world, user, user.default, MatchingState(state, user))
<1>5. Session = UNION {resolved(user) : user \in Parse(world, file)}
  BY <1>4 DEF Session, Load
<1>6. UNION {resolved(user) : user \in Parse(world, file)} = resolved(made.user)
  <2> HIDE DEF resolved
  <2> QED BY <1>2
<1> QED BY <1>3, <1>5, <1>6

\* The last installation, and the session it leads to.
LEMMA LastIs ==
  ASSUME ProvisioningInv, Installed
  PROVE  InstalledInv(world, file, state, last[1])
  BY DEF ProvisioningInv, Installed

\* The session is the view that was planned, while the manifest stays.
LEMMA SessionIsPlanned ==
  ASSUME ProvisioningInv, Installed, "manifest" \notin last[1].changed
  PROVE  Session = {last[1].view}
  BY LastIs, SessionIs DEF InstalledInv, Only

(* A session gets the routes the installation printed until the user edits *)
(* the configuration or loses the state, although programs come and go     *)
(* (plan, fingerprint, matches_user_config, resolve).                      *)
THEOREM AlwaysSessionsGetWhatWasPlanned == Spec => []SessionsGetWhatWasPlanned
<1>1. ProvisioningInv => SessionsGetWhatWasPlanned
  BY SessionIsPlanned DEF SessionsGetWhatWasPlanned
<1> QED BY <1>1, AlwaysConsistent, PTL

(* What the user chose, now or before, runs (plan_slot, required_external, *)
(* plan_existing_slot, fallback_if_optional).                              *)
THEOREM AlwaysKept == Spec => []RequiredChoicesAreKept
<1>1. ProvisioningInv => RequiredChoicesAreKept
  BY LastIs DEF InstalledInv, KeptChoices, Keeping, RequiredChoicesAreKept
<1> QED BY <1>1, AlwaysConsistent, PTL

(* Running the installer again succeeds and plans the same configuration,  *)
(* view and components (plan_existing_slot, plan_presenter).               *)
THEOREM RerunsChangeNothing == Spec => []RerunChangesNothing
<1>1. ASSUME ProvisioningInv, InSameWorld
      PROVE  LET rerun == Plan(world, KeepAll, file, state)
             IN /\ rerun # {}
                /\ \A again \in rerun : /\ again.user = last[1].user
                                        /\ again.view = last[1].view
                                        /\ again.state.components = state.components
  <2>1. Installed /\ last[1].changed = {}
    BY <1>1 DEF InSameWorld
  <2>2. PICK made : made = last[1]
    OBVIOUS
  <2>3. InstalledInv(world, file, state, made) /\ StateOK(state)
    BY <1>1, <2>1, <2>2, LastIs DEF ProvisioningInv
  <2>4. PICK current \in BOOLEAN : state = Aged(state, current)
    BY <2>3, AgedState, SameAge DEF InstalledInv
  <2>5. PICK planned : planned = [user |-> made.user, state |-> Aged(state, TRUE), view |-> made.view]
    OBVIOUS
  <2>6. Only(Plan(world, KeepAll, file, state), planned)
    BY <2>1, <2>2, <2>3, <2>4, <2>5 DEF InstalledInv
  <2>7. Plan(world, KeepAll, file, state) = {planned}
    BY <2>6 DEF Only
  <2>8. Aged(state, TRUE).components = state.components
    BY <2>3, AgedState DEF InstalledInv
  <2>9. /\ planned.user = made.user /\ planned.view = made.view
        /\ planned.state.components = state.components
    BY <2>5, <2>8
  <2> QED BY <2>2, <2>7, <2>9
<1>2. ProvisioningInv => RerunChangesNothing
  BY <1>1 DEF RerunChangesNothing
<1> QED BY <1>2, AlwaysConsistent, PTL

(* Whatever is requested, configured, installed and found, an installation *)
(* activates no engine without a presenter (plan, plan_presenter,          *)
(* fallback_if_optional).                                                  *)
THEOREM AlwaysPresentable == Spec => []EnginesHaveAPresenter
<1>1. ProvisioningInv => EnginesHaveAPresenter
  BY DEF ProvisioningInv, StateOK, Components, Presentable, EnginesHaveAPresenter, Readable
<1> QED BY <1>1, AlwaysConsistent, PTL

\* A session that loads has one view.
LEMMA LoadIsOne ==
  ASSUME NEW w, NEW f, FileOK(f), NEW s, NEW selected
  PROVE  AtMostOne(Load(w, f, s, selected))
<1> DEFINE name(user) == IF selected = None THEN user.default ELSE selected[1]
           views(user) == Resolve(w, user, name(user), MatchingState(s, user))
<1>1. CASE f = NoFile
  <2>1. \A role \in Roles : AtMostOne(StateProgram({}, role))
    BY DEF StateProgram, AtMostOne
  <2>2. AtMostOne(Resolve(w, DefaultUser, name(DefaultUser), {}))
    BY <2>1, DefaultUserIsValid, ResolveIsOne
  <2> QED BY <1>1, <2>2 DEF Load
<1>2. CASE f # NoFile
  <2>1. ASSUME NEW user \in Parse(w, f)
        PROVE  AtMostOne(views(user))
    <3>1. \A role \in Roles : AtMostOne(StateProgram(MatchingState(s, user), role))
      BY DEF StateProgram, AtMostOne, MatchingState, Readable
    <3>2. IsUser(user)
      BY <2>1, ParsedIsUser
    <3> QED BY <3>1, <3>2, ResolveIsOne
  <2>2. Load(w, f, s, selected) = UNION {views(user) : user \in Parse(w, f)}
    BY <1>2 DEF Load
  <2> HIDE DEF views
  <2>3. ASSUME NEW v1 \in Load(w, f, s, selected), NEW v2 \in Load(w, f, s, selected)
        PROVE  v1 = v2
    <3>1. PICK u1 \in Parse(w, f) : v1 \in views(u1)
      BY <2>2, <2>3
    <3>2. PICK u2 \in Parse(w, f) : v2 \in views(u2)
      BY <2>2, <2>3
    <3>3. u1 = u2
      BY <3>1, <3>2, OneUserParsed
    <3> QED BY <2>1, <3>1, <3>2, <3>3 DEF AtMostOne
  <2> QED BY <2>3 DEF AtMostOne
<1> QED BY <1>1, <1>2

\* Where no damaged bundle is in use, a program that is there can be launched.
LEMMA IntactLaunches ==
  ASSUME NEW view, BundleIntact(view), NEW path \in Started(view)
  PROVE  /\ Launches(world, path) <=> Usable(world, path)
         /\ IsAlias(world, Located(path)) => IsCompatible(world, Located(path))
<1>1. path[1] = "bundle" => world.manifest = "ready"
  BY DEF BundleIntact
<1>2. Located(path)[1] = "bundle" => path[1] = "bundle"
  BY DEF Located, Own
<1> QED BY <1>1, <1>2 DEF Launches, IsAlias, IsCompatible

LEMMA IntactCanLaunch ==
  ASSUME NEW view, BundleIntact(view)
  PROVE  CanLaunch(world, view) <=> ViewUsable(world, view)
<1>1. \A role \in Engines : IsExternal(view[role]) => view[role].path \in Started(view)
  BY DEF Started
<1>2. NeedsPresenter(view) => view.presenter \in Started(view)
  BY DEF Started
<1> QED BY <1>1, <1>2, IntactLaunches DEF CanLaunch, ViewUsable

\* The engine and presenter findings of the doctor are about what is not there.
LEMMA FindingsOfView ==
  ASSUME NEW view, BundleIntact(view), NEW strict \in BOOLEAN
  PROVE  /\ EngineFindings(world, view, strict) \subseteq {"error", "warning"}
         /\ EngineFindings(world, view, strict) = {} <=> ViewUsable(world, view)
<1> DEFINE amiss == {EngineState(world, view[r]) : r \in Engines} \intersect {"missing", "incompatible"}
           absent == {PresenterState(world, view)} \intersect {"missing"}
<1>1. EngineFindings(world, view, strict)
        = {Unavailable(strict) : s \in amiss} \cup {Unavailable(strict) : s \in absent}
  BY DEF EngineFindings
<1>2. Unavailable(strict) \in {"error", "warning"}
  BY DEF Unavailable
<1>3. ASSUME NEW role \in Engines
      PROVE  EngineState(world, view[role]) \in {"missing", "incompatible"}
               <=> IsExternal(view[role]) /\ ~Usable(world, view[role].path)
  <2>1. IsExternal(view[role]) => view[role].path \in Started(view)
    BY DEF Started
  <2>2. IsExternal(view[role]) =>
          (IsAlias(world, Located(view[role].path)) => IsCompatible(world, Located(view[role].path)))
    BY <2>1, IntactLaunches
  <2> QED BY <2>2 DEF EngineState
<1>4. PresenterState(world, view) = "missing"
        <=> NeedsPresenter(view) /\ ~Usable(world, view.presenter)
  BY DEF PresenterState
<1>5. amiss = {} /\ absent = {} <=> ViewUsable(world, view)
  <2>1. amiss = {} <=> \A role \in Engines : EngineState(world, view[role]) \notin {"missing", "incompatible"}
    OBVIOUS
  <2>2. absent = {} <=> PresenterState(world, view) # "missing"
    OBVIOUS
  <2> HIDE DEF amiss, absent
  <2> QED BY <1>3, <1>4, <2>1, <2>2 DEF ViewUsable
<1> HIDE DEF amiss, absent
<1> QED BY <1>1, <1>2, <1>5

\* The doctor inspects the view a session has, and finds all that is amiss.
LEMMA DoctorSees ==
  ASSUME ProvisioningInv, InstallationState(state) \in {"missing", "valid"},
         NEW selected, NEW strict \in BOOLEAN,
         NEW view \in Load(world, file, state, selected), BundleIntact(view)
  PROVE  DoctorStatus(world, file, state, selected, FALSE, strict) = "ready"
           <=> CanLaunch(world, view)
<1>1. InspectedView(world, file, state, selected) = view
  <2>1. AtMostOne(Load(world, file, state, selected))
    BY LoadIsOne DEF ProvisioningInv
  <2>2. \A v \in Load(world, file, state, selected) : v = view
    BY <2>1 DEF AtMostOne
  <2> QED BY <2>2 DEF InspectedView
<1>2. ConfigurationFindings(world, file, state, selected) = {}
  BY DEF ConfigurationFindings
<1>3. InstallationFindings(state) = {}
  BY DEF InstallationFindings
<1>4. Findings(world, file, state, selected, FALSE, strict) = EngineFindings(world, view, strict)
  BY <1>1, <1>2, <1>3 DEF Findings
<1>5. Status(EngineFindings(world, view, strict)) = "ready" <=> EngineFindings(world, view, strict) = {}
  BY FindingsOfView DEF Status
<1> QED BY <1>4, <1>5, FindingsOfView, IntactCanLaunch DEF DoctorStatus

(* After an installation a session can start what it was given, and from   *)
(* then on the doctor calls a profile ready exactly when a session of it   *)
(* could start all of its programs; both where no damaged bundle is in use *)
(* (DoctorReport::collect, run_managed_role).                              *)
THEOREM ReadyIsAlwaysUsable == Spec => []ReadyIsUsable
<1>1. ASSUME ProvisioningInv, InSameWorld, NEW view \in Session, BundleIntact(view)
      PROVE  CanLaunch(world, view)
  <2>1. Installed /\ last[1].changed = {}
    BY <1>1 DEF InSameWorld
  <2>2. view = last[1].view
    BY <1>1, <2>1, SessionIsPlanned
  <2>3. ViewUsable(world, view)
    BY <1>1, <2>1, <2>2, LastIs DEF InstalledInv
  <2> QED BY <1>1, <2>3, IntactCanLaunch
<1>2. ProvisioningInv => ReadyIsUsable
  BY <1>1, DoctorSees DEF ReadyIsUsable
<1> QED BY <1>2, AlwaysConsistent, PTL

(* An installation that starts over and leaves all to ptymark has a plan,  *)
(* whatever the files hold, if the state can be read (plan_auto_slot).     *)
THEOREM StartingOverAlwaysSucceeds == Spec => []StartingOverSucceeds
<1>1. ProvisioningInv => StartingOverSucceeds
  BY StartingOverIsPlanned DEF ProvisioningInv, Worlds, WorldOK, StartingOverSucceeds
<1> QED BY <1>1, AlwaysConsistent, PTL
=============================================================================
