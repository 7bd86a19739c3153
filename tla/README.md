# ptymark: TLA+ models, model checking and proofs

ptymark runs a program in a pseudo terminal (or behind a pipe), finds fenced
semantic blocks (Mermaid diagrams, mathematics) in its output, and shows a
rendering in place of each block; everything else passes through byte for byte.
This directory models the parts of it that carry state through time, checks the
models with TLC on small instances, and proves the most important theorems for
every instance with TLAPS. Paths like `pipeline.rs` are under `src/src/`.

## The system

```
            keyboard                                  child's output
               |                                            |
   stdin thread (native_session.rs)              reader thread (stream.rs)
   SessionInputFilter                             read_bounded
        |            \ toggle                               |  bounded queue
        |             \ (atomic flag)                       v
   child's terminal    +-------------------->   display thread (stream.rs)
                                                 update_context, recv, feed
                                                            |
                            DisplayPipeline (pipeline.rs):  |
                            TerminalOutputGate (terminal.rs)
                              -> FencedDetector (detector.rs)
                                 -> RenderService (render.rs) -> cache (cache.rs)
                                       -> external renderer (engine.rs)
                                                            |
                                                         display

   session thread (interactive.rs): spawns the child, starts stdin thread, resize
   monitor and exit waiter, runs the display loop, stops and joins them all

   installer (install.rs):  plan -> state file, config file  <- config.rs at start
                             ^ programs, renderer bundle -> doctor.rs, managed_launcher.rs
```

| component | state it keeps | operations | hard behaviour | what makes it correct |
|---|---|---|---|---|
| terminal gate, `terminal.rs` | control parser, raw until newline, alternate screen, held CR, failed parser | feed, finish | sequences and CR LF split over reads, overflow | no byte lost; safe text is exactly that of plain lines |
| block detector, `detector.rs` | candidate opener, open block and its line | feed, finish | openers and fences split over reads, oversize blocks | lossless; the blocks of the whole text; bounded retention |
| display pipeline, `pipeline.rs` | gate, detector, toggle (requested and applied), line start, cancellation flag | feed, finish, set_rendering_enabled | toggle in mid-block or mid-line, controls inside blocks, fallback, strict errors, write errors | the display is an exact account of the source |
| output pump, `stream.rs` | queue, reader, display loop | run_bounded_with_updates | two threads, full queue, aborts, shared flag | order, boundedness, termination |
| input pump, `native_session.rs` | partial scalar, writer, running flag, toggle | filter, forward, toggle, stop | scalars split over reads, concurrent stop, end of input | byte-exact forwarding, parity of toggles |
| install commit, `install.rs`, `config.rs` | two files | plan, apply, rollback; load | kills, failures, edits, concurrent session start | no session uses a state older than its configuration |
| render attempt, `engine.rs` | child process, pipe threads | run, wait, kill | deadline, output limit, cancellation | one outcome, no process left |
| cache and render service, `cache.rs`, `render.rs` | LRU map with byte and entry bounds | get, put; render, resize | eviction order, failures, widths | limits and accounts; hits are current; the most recent is kept |
| interactive session, `interactive.rs`, `native_session.rs` | child, terminal, shared writer and master, size channel | spawn, start, pump, kill, stop, join; resize monitor; exit waiter | four threads, blocked writes, output after the exit, failures of the setup | success means all output shown; nothing survives the session; sizes reach child and pipeline |
| planner, `install.rs` | none of its own: reads configuration, state and programs | plan | keep, replace, look for or require; an engine without presenter | choices are kept, a rerun changes nothing, no engine without presenter |
| configuration, `config.rs` | configuration file, matching state | load, migrate, validate, resolve | two schemas, stale states, managed and bare programs | a session gets the routes the installation showed |
| doctor, launcher, `doctor.rs`, `managed_launcher.rs` | none: they look at the same world | collect; run a role | checks of their own at different times | after an installation what is chosen can be launched; "ready" exactly when it can |

`PROJECT.json` lists every component with its status, every hazard of the code
with the properties that cover it, and the source lines each definition models.

## Modules

| module | models | kind |
|---|---|---|
| `TerminalControl` | the functions of `terminal.rs` | operators on a gate value |
| `TerminalGate` | one `TerminalOutputGate` over a stream of chunks | state machine |
| `BlockDetection` | the functions of `detector.rs` | operators on a detector value |
| `FencedDetector` | one `FencedDetector` over a stream of chunks, beside a line-by-line reading of the whole text | state machine |
| `Pieces` | the source text that a sequence of items or displayed pieces stands for | operator |
| `ExactDisplay` | what the display promises: received bytes are shown once and in order | abstract specification |
| `DisplayPipeline` | `DisplayPipeline`, composed of `TerminalControl` and `BlockDetection`; implements `ExactDisplay` | state machine, refinement |
| `OutputPump` | `run_bounded_with_updates` and `read_bounded`, with the cancellation protocol of `emit` | two threads |
| `BoundedDelivery` | what the pump promises: chunks in order, a bounded number held, complete only when all is shown | abstract specification |
| `Pumps_proofs` | theorems about `OutputPump`, the refinement of `BoundedDelivery` among them, and about `InputPump` | proofs |
| `InputPump` | the stdin thread, `SessionInputFilter`, the shared writer and `SessionControl::stop` | two threads |
| `RenderAttempt` | `ConfiguredRenderer` and `run_process_with_deadline`: supervisor, pipe threads, process and descendant | threads and processes |
| `MemoryCache` | `MemoryCache` of `cache.rs` | operators on a cache value |
| `RenderService` | `RenderService` over the cache, in front of the renderer that `PipelineFactory` composes | state machine |
| `InteractiveSession` | `interactive::run` with `NativeTerminalSession`, `SessionControl`, `ResizeMonitor` and the exit waiter | four threads, child and descendant |
| `InstallCommit` | `InstallPlan::apply` and `load_exact_profile` over two files | processes and crashes |
| `ConfigResolve` | `config.rs`: validation, migration, matching, resolution; what an alias needs | operators |
| `InstallPlan` | `Installer::plan` of `install.rs`, over `ConfigResolve` | operators |
| `Doctor` | `DoctorReport::collect` of `doctor.rs`, over `ConfigResolve` | operators |
| `Provisioning` | the life of an installation: composes `InstallPlan` and `Doctor` with a changing world | state machine |
| `InteractiveSession_proofs`, `InstallCommit_proofs`, `Provisioning_proofs`, `TerminalGate_proofs`, `FencedDetector_proofs`, `DisplayPipeline_proofs` | theorems about these modules | proofs |
| `Render_proofs` | theorems about `RenderAttempt` and about `RenderService` | proofs |
| `MC...` | constants for TLC | |

### From code to model

*Bytes.* `TerminalControl` and `BlockDetection` see classes of bytes: `esc`,
`cr`, `lf`, `bel`, `ctl` (any other control), the bytes that introduce
sequences (`lbr`, `rbr`, `dcs`, `bsl`), the parameters of the alternate screen
(`q` is `?`, `semi` is `;`, `alt` one of 47, 1047, 1049), final bytes `h`, `l`
and `let`, and for the detector `dollar`, `fence` and `name`. A parameter such
as 1049 is one symbol, so the lengths the bounds speak of are in symbols.

*Calls.* A call of `feed` handles its whole chunk in one action: the gate
classifies the chunk, neighbouring bytes of one kind become a segment, each
segment goes through the detector and what the detector releases is displayed.
Loops over bytes are recursive functions over prefixes. The renderer is a choice
of success or failure per attempt; a display error may end a call after any of
its writes.

*Threads.* In `OutputPump` every access to the queue, the flag or the toggle is
an action of its own, so that the other thread may run between any two. The
reader stands at `read`, `offer` (try_send), `cancel` (the queue was full),
`send` (blocking) or `done`; the display at the points of its loop and, inside
`emit`, at the check of the flag, the attempt, the reset and the refusal. In
`InputPump` the write of one `Forward` action is one step (it happens under the
writer lock). In `InstallCommit` each file operation is a step; `atomic_replace`
takes effect as a whole or not at all.

In `InteractiveSession` the output pump is seen from outside: the session thread
stands at the points where it updates the pipeline, receives, shows and fails,
and what the reader thread has read is the output written so far. The monitor's
call of `resize` and its `send`, one under the other's lock, are two steps; so
are the look at `running`, the lock and the write of the stdin thread, so that
the session can be stopped between any two. A session that returns drops its
descriptors, and the child that is left is hung up.

*Worlds and decisions.* In `ConfigResolve`, `InstallPlan` and `Doctor` a world is
the set of programs that can be executed and the state of the renderer bundle's
manifest. A function that may fail is the set of its results, empty when it
fails; so `\E planned \in Plan(...)` is an installation that succeeds. A program
path is a bare name, a program of the user's, or an alias in a bundle. A
configuration is its profiles, the selections in them and the few fields that
validation and resolution look at; a digest is the configuration it is taken
of. `Provisioning` makes one step of each command and lets programs, manifest,
files and version change between them.

*History.* `last` of `Provisioning`, `fed`, `owed`, `shown`, `typed`, `effects`, `found`, `lost` and the `by`
fields record what happened, for the properties only.

Operators whose comment begins with "Mutant:" are variants with a plausible
bug. No specification uses them; each shows that a property would notice.

## What the runs check

| run | properties | shows |
|---|---|---|
| `MCTerminalGate` | `TypeOK`, `SafeExactlyOnPlainLines` | safe text is exactly the plain lines of the whole stream, computed by a scan that knows the stream and not the gate's flags; no sequence is retained beyond the bound |
| `MCFencedDetector` | `RetentionBounded`, `BlocksMatchReference` | the blocks found incrementally are those of a definition over the whole text |
| `MCDisplayPipeline` | `ImplementsExactDisplay`, `OnlyParsersWithhold`, `RenderedIsGenuineBlock`, `NothingRenderedAcrossToggle`, `CancellationCostsOneBlock` | the composition keeps its promises over reads, toggles, cancellations, fallbacks and write errors |
| `MCOutputPump` | `TypeOK`, `NothingDroppedAtEnd`, `EndIsAnnounced`, `ToggleReachesLaterOutput`, `ImplementsDelivery`, `BlockedReaderIsReleased`, `PumpReturns` | the two threads deliver in order and within a bound, and end |
| `MCInputPump` | `InputCarriedOutInOrder`, `OnlyScalarPrefixDelayed`, `NothingAfterClose` | input is forwarded exactly, against a concurrent stop |
| `MCInteractiveSession` | `SuccessIsComplete`, `NothingOutlivesTheSession`, `ColumnsFollowTheChild`, `FailureEndsTheChild`, `SessionReturns`, `ChildFollowsTerminal` | setup, pump, resizes and shutdown of a session in every order, with a failure at every step |
| `MCRenderAttempt` | `UsedOutputIsWhole`, `NothingOutlivesTheAttempt`, `AttemptEnds` | exit, overflow, deadline and cancellation in every order |
| `MCRenderService` | `HitIsCurrent`, `KeptAreMostRecent`, `PutKeepsAllThatFits` | hits, failures, evictions and resizes in every order; the last one also quantifies over every next `put` |
| `MCInstallCommit` | `CommittedConfigHasItsState`, `FailedInstallLeavesNoTrace`, `InstalledStateIsUsed` | the two-file commit under failures, unreadable states, kills and edits |
| `MCProvisioning` | `SessionsGetWhatWasPlanned`, `RequiredChoicesAreKept`, `RerunChangesNothing`, `EnginesHaveAPresenter`, `ReadyIsUsable`, `StartingOverSucceeds` | installer, sessions, doctor and launcher agree, over installations, edits, losses and upgrades in every order |

`TypeOK` is checked where a bound of the code is part of the type (a retained
CSI sequence, the queue).

### Where the code and its documentation disagree

Two runs check a claim of a document and TLC refutes it.

| cfg | claim | what happens |
|---|---|---|
| `InstallCommitInterrupted` | `alpha4-design.md:253`: an interrupted installation cannot activate new engines | it does when the configuration is unchanged, for then the digests match |
| `RenderAttemptDeadline` | `troubleshooting.md:75`: each attempt has a hard deadline | once the process has exited its pipes are read to their end without one, and a descendant may hold them open |

Others were met while modelling, and the models follow the code in them:

- `stream.rs:116-118` says a full queue cancels the attempt before the reader
  blocks. The reset after one block (`pipeline.rs:327`) also discards the
  cancellation meant for the next block of the same chunk. The reader is
  released all the same (`BlockedReaderIsReleased`), only later. The queue also
  counts messages and not bytes: short reads fill it below one MiB.
- `pipeline.rs:288` says that a block is refused because output was pending
  while it was unresolved. A flag raised when no block was open refuses a later
  one, when nothing may be pending any more; `CancellationCostsOneBlock` bounds
  the damage to one block.
- `interactive-session.md:213` has the pipeline use the child's new size. Between
  `resize` and `send`, and until the next update, it still renders for the old
  one; `ColumnsFollowTheChild` says what does hold.
- `alpha4-design.md:67` says that a state is used only if its digest matches;
  `install.rs:127` accepts one without a digest. `alpha4-design.md:159` asks for
  a compatible managed alias; `managed_state_program` takes any alias beside
  which there is a manifest, whatever it says.
- `troubleshooting.md:28`: the doctor's "ready" should mean usable. It does not
  look at the manifest of a managed presenter, nor at the entry points of any
  role, and it calls a state valid without comparing its digest.
  So a damaged bundle may be called ready although none of its programs can be
  launched: `ReadyIsUsable` claims nothing for a view that runs a program of a
  bundle whose manifest is not in order, and says for every other that ready
  means just what the document says.
- `install.rs:200` takes a state that cannot be read for one that is not there.
  When the configuration then cannot be committed, that state is removed, and the
  error says that it "was rolled back" (`install.rs:210`).
  `FailedInstallLeavesNoTrace` and `CommittedConfigHasItsState` make the exception.
- The remedy for an unreadable state, "rerun `ptymark install resolve`"
  (`doctor.rs:508`), cannot work: the installer refuses such a state, even
  when told to start over (`install.rs:277`). `StartingOverSucceeds` excludes it.
- The installer is said to leave unrelated profiles alone
  (`ptymark-installer.md:190`), and it does not change them; but a profile with a
  managed selection stops resolving when the new state lacks its role.
- A managed presenter that no engine needs is dropped from the state
  (`PresenterPlan::inactive`), so a later engine cannot find it again.
- A schema 1 file with a cache limit of zero is refused after its migration.

### Bounds

- `MCTerminalGate`: four reads of up to five symbols, a control bound of five:
  long enough to enter and leave the alternate screen, to overflow a sequence,
  and to split every sequence and every CR LF.
- `MCFencedDetector`: six reads, five symbols, blocks of up to eight symbols, two kinds of
  block, the openers of both with either line ending; complete blocks, oversize
  blocks and abandoned prefixes all occur, also after one another.
- `MCDisplayPipeline`: no bound on the number of reads; the state space is
  finite because only withheld bytes are remembered. Not strict; at most two
  attempts per read, which no chunk exceeds.
- `MCOutputPump`: five chunks through a queue of two, so that the queue fills,
  drains and fills again; one toggle; strict, so that a refusal aborts.
- `MCInputPump`: four reads; a scalar can be split four ways, and a partial
  scalar can be followed by a whole one.
- `MCInteractiveSession`: two pieces of output, so that one can be unread when
  the other fails; two changes between two sizes, so that the terminal can come
  back to its old size, with two sizes in the channel at once; one refused
  resize; one read of the keyboard, which is enough for a write that blocks.
- `MCRenderAttempt`: an output limit of two units and up to four written: within
  the limit, exactly at it, and beyond it by one read or two; both engines.
- `MCRenderService`: three blocks (two of one source in different formats) at two
  widths make six keys for a cache of at most three; bytes of two lengths under
  limits that make one, several or no eviction necessary; a limit of zero; every
  combination of options and backends. No bound on the number of renderings.
- `MCInstallCommit`: three installations, two edits, two configurations; a
  failed installation may lie between two successful ones.
- `MCProvisioning`: two installations and one other event around them, from the
  worlds, configuration files and requests that `MCProvisioning.tla` lists: of
  both schemas, with every provider, with a second profile, a cache limit of
  zero, and a broken file. What an installation does depends on the present
  files and world only, so that two are enough to see one build on another.

Deadlock is checked for the output pump, the interactive session and the render
attempt (which stutter explicitly once they have returned), the render service
and the installation. The other machines stop when their input has ended.

### Fairness

`OutputPump` assumes that both threads are scheduled (weak fairness of each
reader step and of the display thread), that a read returns once the child has
exited or was killed, and that an attempt ends, which `RenderAttempt`
examines. Nothing is assumed of the child: it may run and write for ever, or
never write. `RenderAttempt` assumes that time
passes, that the supervisor is scheduled, and that a pipe thread notices the end
of its pipe; no process need exit, read or write, and a descendant may live for
ever. `/bin/kill` is assumed to exist and the descendant to stay in its group.

`InteractiveSession` assumes that its threads are scheduled and that a child that
was killed or hung up exits. Neither child nor descendant need ever exit, read
or write of its own accord, and no key need come. A `write_all` to a terminal
that someone still has open may take for ever; it ends (with an error) once
nobody has. The reader thread of a pump that failed is assumed to end only when
the output does: that it may end earlier, with a piece nobody receives, is
possible and not promised. `SessionReturns` therefore starts from a child that
has exited and a terminal that nobody holds.

The other machines state no fairness: they are checked for safety only.

## What is proved

Each proof module proves its theorems for every value of the constants, from the
assumptions that the component's modules state about them (listed at the end).
Every safety invariant of the passing runs has a theorem, and so have their
action properties and the refinements.

`Pumps_proofs`, of `OutputPump`, for every capacity, set of read sizes, number of chunks,
blocks and toggles, strict or not:

- `TypeCorrect`: `Spec => []TypeOK`;
- `DisplayOrder`: `Spec => []ShownInOrder`, chunks are shown in the order read;
- `NothingLost`: `Spec => []NothingDroppedAtEnd`;
- `BoundedPending`: `Spec => []PendingBounded`, at most Capacity + 2 chunks held;
- `EndAnnounced`: `Spec => []EndIsAnnounced`, so that the `Err(_)` arm of the
  loop around `recv` is never taken, which is why the model has no action for it;
- `ToggleSeen`: `Spec => []ToggleReachesLaterOutput`, output read after a toggle is
  shown under it;
- `Delivers`: `Spec => ImplementsDelivery`, the refinement of `BoundedDelivery`.

None of these is inductive. The inductive invariant `IInv` gives each chunk a
place: the chunks shown are `1..Len(shown)`; the chunk in the display's hands
comes next (`TakenAccount`); then the queued chunks in order, a marker only at
the very end (`QueueAccount`); then the one in the reader's hands, and what is
in the reader's hands is the last read (`ReaderAccount`); and when the pipeline
has finished, the reader is done and nothing is left between (`EndAccount`).
The two actions that append to the queue share the lemma `Delivery`, the one
that takes from it uses `Reception`; `HeadAndTail` and `Appended` are the facts
about sequences they rest on. `ToggleSeen` has
an invariant of its own: no chunk, wherever it is, has seen more presses than
there were, and one that is being shown none that the display has not.
For `Delivers` each step of the pump is shown,
under `IInv`, to be a step of `BoundedDelivery` or to leave its three variables
alone: a read is `Accept` (room follows from the bound), showing a chunk is
`Show`, joining the reader without an error is `Complete` and failing `GiveUp`.

`Pumps_proofs`, of `InputPump`, for every set of chunks a read may return, any number of
reads and a stop at any moment: `InputMeansWhatItSays` (`InputCarriedOutInOrder`),
`NothingElseDelayed` (`OnlyScalarPrefixDelayed`) and `ClosedIsClosed`
(`NothingAfterClose`). `InputInv` says that what is done, what is to be done and what
the filter holds make up the meaning of all that was typed (`CarriedInv`), and that
the filter holds the longest end of it that is a front of the scalar (`HoldInv`). The
second is what makes the first inductive: a byte that does not continue the scalar
gives back just the bytes that can no longer belong to one (`Accounts`, `PushesTo`),
which for these four bytes is all of them unless the byte begins the scalar anew.

`InteractiveSession_proofs`: `SuccessComplete` (`SuccessIsComplete`), `NothingLeft`
(`NothingOutlivesTheSession`) and `ColumnsCurrent` (`ColumnsFollowTheChild`), for
any sizes and any bounds. `IInv` has three parts that do not need each other's
details: `SizesInv` follows the one value that travels from monitor to child,
channel and pipeline; `ThreadsInv` says which threads can be alive at each point
of the session thread, and that the flag is down wherever a thread is waited
for; `OutputInv` says that a session on its way to success has read all the
output of a closed terminal, and that nothing reopens one.

`InstallCommit_proofs`: `ConfigHasItsState`, `FailureLeavesNoTrace` and
`ResolvedIsUsed`, for any set of configurations and any number of installations,
kills and edits. `AgesInv` orders the installations that wrote the two files and
the one in progress, `FoundInv` ties what the installer remembers to what is on
disk at each of its steps (or says that it could not be read), `PlannedInv` says
that the state written is the one planned, and never older than the configuration
unless it is lost.

`Render_proofs`, of `RenderAttempt`: `UsedIsWhole` and `NothingOutlives`, for any limit and any
amount of output. `PipesInv` is what a pipe thread knows when it ends (the end of
output means all read, and nobody left to write), `JoinsInv` what each join of the
supervisor has waited for, `OutcomeInv` that every outcome but an exit killed the
group, and `UsedInv` that what was found whole stays whole.

`Provisioning_proofs`, for any worlds, files and requests, and any number of commands
and changes of the world: `AlwaysSessionsGetWhatWasPlanned`, `AlwaysKept`,
`RerunsChangeNothing`, `ReadyIsAlwaysUsable`, `StartingOverAlwaysSucceeds` and
`AlwaysPresentable`, one for each invariant of the run. `ProvisioningInv` says what
kind of configuration and state the two files can hold, and that the last
installation, while nothing was edited, lost or upgraded since, is still what
`Resolve` finds. Its preservation rests on lemmas about the operators: what one
selection becomes in `Plan` (kept, replaced, looked for, or dropped with its
engine), that the configuration written resolves with the state written to
the selections printed, and that planning the result again gives the result. The
slots of a plan that survive `FallbackIfOptional` beside a missing presenter have
no program, because a required engine makes the presenter required.

`Render_proofs`, of `RenderService`, for any blocks, widths, limits and weights: `AlwaysInOrder`
(the inductive invariant `ServiceInv` itself), `HitsAreAlwaysCurrent`
(`HitIsCurrent`), `AlwaysKeepsMostRecent` (`KeptAreMostRecent`) and
`PutAlwaysKeepsAllThatFits` (`PutKeepsAllThatFits`). `ServiceInv` says that the count of
bytes is the weight of the entries, that no key has two entries, that each entry
was made for its key, and that the keys of the entries are the last of the keys
used. That put keeps the longest run of recent entries that fits follows from
the first two: each round of the eviction loop drops the oldest entry exactly
while what is left is over a limit.

`TerminalGate_proofs`, for any input in any chunks and any bound on a control
sequence: `AlwaysTyped` (`TypeOK`, the bound on retained sequences with it) and
`AlwaysSafeExactlyOnPlainLines` (`SafeExactlyOnPlainLines`). The reference is a
statement about the whole input, the gate four flags and a parser. `At` says what
each flag means after n bytes: an overflow so far (`Dead`), the last switch of the
alternate screen an enter (`Alt`), a control since the last line end (`Dirty`). The
flag of the raw line means nothing after an overflow, and the meaning of a
carriage return depends on the next byte: `GateInv` therefore has two shapes. While
no byte is held, a carriage return that came last stands on a line that was raw
already; while one is held, the line was plain up to it. So no verdict needs
to be taken back, whatever follows (`AtStays`, `SafeStays`), and the only
byte of which nothing can be said yet is the one that is held.

`FencedDetector_proofs`, for any bytes, openers, text in any chunks and block bound:
`BlocksAreThoseOfTheText` (`BlocksMatchReference`) and `HoldsNoMoreThanABlock`
(`RetentionBounded`). The detector decides at each line end with what it has seen, the
reference with the whole text before it. So the invariant speaks of all that the text may
become (`Future`): whatever follows, reading it finds the blocks found so far and then
what it finds from some place on (`Settled`). What the detector holds is tied to that
place (`Says`): the beginning of a line that may still open a block (`AtLine`); a line
that opens nothing (`OnPassedLine`), where the place is the next line; or a block whose
opener stands there and none of whose lines so far is its fence (`InBlock`). Each byte
keeps `Says`, one lemma for each of the three states (`LineStartSays`, `PassedLineSays`,
`BlockSays`): in a block it is the byte that closes it, the one that makes it
too large, after which both go on at the next line, or one more of it.

`DisplayPipeline_proofs`, for all openers, reads, outcomes of renders, toggles and
cancellations between calls and I/O errors, strict or not, and for every bound on
blocks, control sequences and withheld output: `DisplayIsExact`
(`ImplementsExactDisplay`), `OnlyGenuineBlocksRendered` (`RenderedIsGenuineBlock`),
`NoBlockSpansToggle` (`NothingRenderedAcrossToggle`), `NothingElseWithheld`
(`OnlyParsersWithhold`) and `CancellationCost` (`CancellationCostsOneBlock`).
None of them is inductive. `Between` adds what only the parts together maintain
between two calls: what is owed is what the detector and the gate hold; the detector
holds no control; if it may open a block and the gate is on a plain line, the
last byte displayed is a line feed; `safe_line_start` tells the truth about the line,
so that a resume in mid-line passes through the rest of it; a paused detector, and
one that passes through, holds nothing. The proof follows the bytes of a call:
`Gating` is the contract of the gate (every byte once and in order, no control as
text but in a line ending, after a raw byte text only on a new line), `RunsOf` that
of gathering segments, `DetSays` that of the detector (text in is items and rest
out, and a block among them is genuine and starts a line), `Works` that of the call so
far. Of the bytes that a resume finds owed only a carriage return can be
older than it, and no opener begins with one; that is why no block spans a toggle.

The proofs about the input pump, the render service, the gate, the detector and the
pipeline are about recursive functions over sequences (`Push`, `Meaning`, `WeightOf`,
the eviction loop, `Scan`, `GateFeed`, `DetectorFeed`, `BlocksOf`, `TextOf`, the loops of a
call). A recursive function is an unspecified value until a
function with its equations is shown to exist: `RunExists` shows it for any number
of typed steps, by an induction stated with a set (`SetInduction`, from the
well-foundedness of the naturals), since the induction theorems of the library
take an operator as a parameter, which the installed provers can not
instantiate. What the loop preserves is then proved by the same induction.

Each inductive invariant was checked with TLC on the constants of its run (that of the
detector with a few continuations of the text in place of all).

The assumptions on constants are those the modules state (`...Assumption`): bounds are
naturals, a control sequence holds at least its introducer, chunks are sequences
of bytes, an opener is one line with its ending that does not begin with a carriage return,
a fence is not empty and does not end with one (`build_openers` and `add_rule`,
`detector.rs:186-240`: no opener or fence has a line ending in it, and `add_rule` appends
LF or CR LF to an opener), weights and limits are naturals, a block is its kind, format and
source, and the files, worlds and requests that come up are files, worlds and
requests. TLC evaluates each of them in a run.

Model-checked only: all liveness (`BlockedReaderIsReleased`, `PumpReturns`,
`SessionReturns`, `FailureEndsTheChild`, `ChildFollowsTerminal`, `AttemptEnds`), since
the prover has no rules for fairness and ENABLED.

## What is not modelled

See the components of `PROJECT.json`. Left out for good: argument parsing,
report formatting and redaction, the text of TOML and XML, the OpenMath
conversion, packaging, scripts, the Node renderers and the shell plugin: pure
functions, or input and output without a protocol. Windows branches (the grace
before the pseudo console is closed, the answer to a cursor request, renaming
over an existing file) are left out; the models are of a Unix build. A
configuration written is taken to be the same when it is read back: there is no
text in the models, and a digest that changed on the way through TOML
(`config_ext.rs:18`) could not show. The resize monitor reads the size and calls
`resize` in one step, for a change between them is one that the next poll finds. Processes
of other programs that reuse a process number, and two installers at once, are
left out as well.

## Plan

1. Gate, detector, pipeline, both pumps, render attempt, cache and service,
   installation, interactive session, planner, configuration and doctor (done).
2. Proofs of every safety property the runs check (done).
3. Two installers at once; the CR LF translation of rendered bytes.
