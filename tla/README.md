# A TLA+ verification of saex

saex observes the start of a 32-bit game from outside. A probe creates the game
suspended under the Windows debugger, lets it run from one execution breakpoint
to the next, compares what it finds at each stop with pinned facts, and kills
it. Around that observer the repository holds the first pieces of a platform: a
lease gate, a bounded queue, and the bootstrap DLL the observer calls inside the
game.

These modules model the parts that keep state. TLC checks them on small
instances, and TLAPS proves the safety properties of most of them, and three
refinements, for every value of their constants. Paths below are relative to the repository root.

- [1. Inventory](#1-inventory)
- [2. Modules](#2-modules-and-the-code-they-model)
- [3. Runs](#3-runs-bounds-and-what-they-show)
- [4. Fairness](#4-fairness)
- [5. Proofs](#5-proofs)
- [6. A divergence](#6-a-divergence-between-a-comment-and-the-code)
- [7. Limits](#7-what-is-not-modelled)
- [8. Plan](#8-plan)

## 1. Inventory

| Part | State | Operations | What is hard | What makes it right |
|---|---|---|---|---|
| Loader observation loop, `src/engine/loader/loader_observation.cpp` | the trace: events, modules, threads, armed stages and their stops; DR0-DR3 and DR7 of the main thread | one pass of the loop per debug event; 29 stage handlers | the order of over 30 flags; module loads and unloads between stops; registers the debuggee can rewrite; budgets and a deadline | a run is a walk along its line of stops and always ends; verdicts rest on mappings still there; the handler chosen is the one that was armed |
| Mapping ledger, `loader_mapping_ledger.cpp` | up to 64 entries, the live count, the last event | `admit`, `retire`, `active`, `history` | a base reused after an unload; limits; event order | identifiers never change meaning; live bases are distinct |
| Suspended image, `src/engine/observer/suspended_image.cpp` | process, job, held event, `kill_requested_`, `exit_seen_` | constructor, `copy`, `same_file`, `stop`, destructor | every system call can fail; `stop` is retried | the child never runs on after its end was asked for, and dies |
| Platform suppression, `platform_suppression.cpp` | the thread's context before and after the skipped call | `apply`, `restore` | writes that fail after taking effect in part | the context is changed once, and put back exactly or the run fails |
| Bootstrap session, `src/engine/bootstrap/bootstrap_session.cpp`, exports in `bootstrap_module.cpp` | status, a busy flag | query, initialize, stop | several host threads without a mutex | answers look atomic; one observation for the life of the module; terminal states |
| Injected bootstrap calls, `bootstrap_lifecycle.cpp` | replies so far | eight calls and their judgement | judgement and session are written apart | exactly the genuine runs are accepted |
| Lease authority, `src/core/lease_authority.cpp`, clock | last stamp, epochs, sequences, fence, grant | `issue`, `accept`, `renew`, `suspend_or_resume`, `revoke`, `recover_after_readiness` | a clock that jumps; late and repeated messages; counters at their end | nothing is accepted twice, late, or outside its lease |
| Bounded inbox, `src/core/bounded_inbox.cpp` | queue, charged bytes, closed | `push`, `pop`, `close` | a byte budget near the end of `size_t` | the bytes counted are those queued; nothing is lost, doubled or reordered |
| CD-stream stops, `cd_stream_{tables,disk,allocation,channels}.cpp` | the copies taken at earlier stops | 25 stops judged by registers, stack words, globals, flags and exception frame | formulas written apart from the code bytes they judge; 32-bit arithmetic on blocks | the game's own run is never refused; a verified run holds what it reports |
| Other stage policies, `src/engine/loader/{application_*,crt_*,cwd_*,...}.cpp` | none: pure validators | compare frames, code bytes, layouts | as above, for other code | the loop takes their refusals as inputs |
| PE parser, profile gate, file and image readers | none kept | `parse_pe32`, `raw_offset`, `match_file_observation`, `check_mapped_observation` | sums near 2^32; the file's layout against the system's mapping of it | an accepted layout is sound; file and mapping agree where they are compared |
| Launch context, `observer/launch_context.cpp` | a pinned directory and an environment block | constructor, `directory_matches` | checked now, used by path later; two ways to count a block | the child starts in the pinned directory, with the whole environment |
| Loader policy, `loader_policy.cpp` | up to 64 open files | constructor, `pins` | files that change between two openings; declared and actual byte budgets | the pins are the recipe and stay so; no more bytes are read than budgeted |
| World plan validator, `managed/Saex.Tools/WorldPlanValidator.cs` | none between calls | `Validate` | diagnostics of one loop that depend on another; cycles | exact diagnostics, a deterministic order, an answer on every plan |
| Fixture codec, contract probe, other managed tools, generators, audit scripts | none between calls | batch | agreement of two decoders | out of reach or planned (sections 7 and 8) |

How they interact. The probe (`loader_probe.cpp`) checks the executable with the
profile gate, opens the DLLs of the recipe through the loader policy, makes a
`SuspendedImage`, with a launch context where one was asked for, and passes it to `LoaderObservation`, a friend of the class: the loop takes and
continues the debug events itself, and every end of a run (`finish`) goes through
`stop()`. The loop keeps a `LoaderMappingLedger` in step with its table of
modules and keeps, for the proxy, the codec and the ASI, the identifiers the
ledger gave them. One stage of the loop runs the `SuppressionTransaction` over
two stops; another makes the eight calls whose replies `valid_bootstrap_status`
judges, and the code answering them in the game is a `BootstrapSession`, which a
host may also call from its own threads. The lease gate and the inbox are used by
no other part of this commit, and the world plan validator is a tool of its own. A gate is driven from one thread; an inbox from
many, under its mutex.

## 2. Modules and the code they model

Each action is one call, handler or step, named after it. The mapping of every
definition to its lines is in `PROJECT.json`. Where an operation is spread over
many handlers of the same form (passing a stage, arming the next stop), one
definition stands for all of them and the mapping names one of their blocks. The
tables of `LoaderStages` name the stretch of handlers they were read from.

| Module | Models | Notes |
|---|---|---|
| `MappingLedger` | the ledger | `history` is the array up to `count_`, and `unload_event = 0` means live; `transition` is the last answer |
| `LeaseAuthority` | the gate | a call is a step, a clock reading its input; history variables log what was accepted |
| `BootstrapApi` | the ABI's statuses and what each operation makes of them | shared by the three modules below |
| `SessionPromise` | abstract: answered calls take effect one at a time, each writes its own caller's buffer | no lock, no program counter |
| `BootstrapSession` | `invoke()` between its atomic operations, for any number of threads | refines `SessionPromise` |
| `BootstrapLifecycle` | the observer's eight calls against the genuine session or arbitrary code | |
| `LineWalk` | abstract: a run is a walk along the stops of its goal | with its own liveness |
| `LoaderStages` | the lines, the stops of each stage, the refusals each stop can give, the reasons a goal is verified with | data read out of the handlers |
| `LoaderObservation` | the debug loop, its budgets, the ledger (by INSTANCE), the guard registers, the handlers | refines `LineWalk` |
| `OwnedChild` | abstract: born held, goes on only by permission, never after its end was asked for | |
| `SuspendedImage` | the ownership of the debuggee, system call by system call, with the loop as its user | refines `OwnedChild` |
| `SuppressionTransaction` | `apply`, `restore`, and the return stop between them | application registers and debug registers move apart |
| `BoundedInbox` | the queue | `Word` is 2^w, so sums wrap as `size_t` does |
| `X86` | the processor instructions that the pinned code uses, over words of `Bits` bits | external: it gives the code bytes their meaning |
| `GameCode` | the pinned bytes of the CD-stream functions, as instructions | decoded from the validators' own byte arrays |
| `CdStreamWatch` | the four CD-stream stages: the game's thread instruction by instruction, the system's answers, the observer at each armed address | composes the two above with the stops of the loop |
| `WorldPlan` | `Validate` and `Sort`, one action per iteration of a loop; its `PlanInit`, `PlanNext` and `PlanSpec` stand beside the inbox's in `MCPlatform` | checked and proved against definitions over the document alone |
| `LaunchContext` | the constructor, `directory_matches` and the child's creation, against the other processes of the machine | a path is a way and a name; ways can be rerouted |
| `LoaderPolicy` | both passes over the recipe, each file in the four steps open, measure, hash, compare | files not yet open are free to change |
| `PeImage` | `parse_pe32` section by section, `raw_offset`, both comparisons of the gate | sizes scaled; the system's mapping is external |

Abstractions worth knowing:

- *Reads of the debuggee are inputs.* Most of `loader_observation.cpp` compares
  bytes, registers and memory regions with pinned values. In the model a check
  may refuse its stop whatever came before (`MayRefuse`), with the reason strings
  the code gives at that stop, in `StopChecks`, `ArmFailures` and
  `ClosingChecks`. Checks that depend on the observer's own state (mappings,
  guards, budgets, the order of stages) are modelled exactly.
- *Addresses are named by what is there*: `<<stage, stop>>`, the import slot, the
  end of the ASI scan, the second instance's branch. What matters in the code is
  whether two of them are the same, and they are distinct by construction of the
  policies.
- *The debuggee is free*: it loads and unloads, starts threads, raises
  exceptions, exits, and, under `MayTamper`, rewrites its own debug registers or
  raises exceptions that look like the observer's.
- *A kill is part of `finish`.* Every early return of the loop calls
  `child.stop()`; when the exit cannot be confirmed the reason is replaced by
  `loader_exit_unconfirmed`. `LoaderObservation` takes that as a second outcome
  of `Finish`; how `stop()` can fail is the subject of `SuspendedImage`.
- *The CD-stream stages are the exception.* There the debuggee has registers and
  memory and executes the very instructions whose bytes the validators pin, so a
  validator's formula can be wrong. Words are scaled (`Bits`), the tables have
  `Entries` entries for 32 and the pool block `Request` bytes for 2048; the
  identity of modules and the protection of pages are left out.
- *What the CD-stream stops compare of the caller* differs from stop to stop, as
  in the code. The outer return address is read at the tables and disk stops
  only; the words above it (32 and 156 bytes in the code, ten words here) at
  every stop; the caller's own exception record from the allocation on. So
  `ReportIsTrue` promises those words and that record, and not the return
  address, which may change after the last disk stop.
- *A byte says where it came from.* In `PeImage` the byte of the file at offset
  `o` is the number `o`, so that comparing bytes compares places.
- *The bootstrap verdict is an input of the session.* `inspect()` may return any
  of the reasons, the ones outside the ABI too, or throw.

Modules named `MC...` instantiate these for TLC. A definition whose comment
begins with *Mutant of* is a plausible slip in the code; it is used by no
specification, and shows that the property it is listed with notices the slip.

## 3. Runs, bounds and what they show

| Run | Instance | Distinct states | Shows |
|---|---|---|---|
| `lease` | 2 clock domains and the invalid one, stamps to 3 with leases of 2, 2 epochs, sequences to 2, 2 sessions | 77 952 | `AcceptedInOrder` (motions and renewals in order, one session per owner), `GateSound`, `AcceptedWithinLease`, `ExhaustedForGood` |
| `loads` | runs to the codec and to the first game stop, 4 bases, 8 file placements, 14 events | 3 314 200 | `MappingsTrusted`, `LedgerInStep`, `QuietScan`, `DefensiveUnreachable`, and the budgets in `TypeOK` |
| `walk` | every goal, every refusal at every stop, 4 loads | 570 178 | `WalkKept`: the run walks its line and always ends |
| `guards` | the two longest lines, one interference at any moment | 174 486 | `AlarmsAreReal` (an identity alarm has a cause, an arming holds), `NextHandlerOwnsStop` |
| `owned_image` | 2 explicit stops, 2 events per drain, 4 reports | 9 682 | `OwnershipSound` (a child in its job is killed before it goes on, every event is accounted for), `ReadsStandStill`, `ChildDies`, `OwnedKept` |
| `unassigned_child` | the same | a violation | the divergence of section 6 |
| `loader_parts` | ledger: 2 bases and the null base, array of 3, limits 0, 2, 3 and 4, 6 events; suppression: no parameters | 16 192 | `LedgerInvariant` (identifiers are positions, live bases distinct, events rise, counters agree, the array is not overrun), `HistoryAppendOnly`; `MovedOnce`, `AppliesOrUndoes`, `VerifiedRoundTrip` |
| `bootstrap` | session: 3 threads calling for ever; calls: the whole protocol, every status as a reply | 399 403 | `SessionInvariant` (the flag excludes, one observation), `PromiseKept`, `FlagReleased`; `GenuineAccepted`, `VerifiedIsSessionRun` |
| `platform` | inbox: 4-bit `size_t`, charge 3, 3 items, 13 bytes, 5 admissions; plan: all graphs of 3 resources and of 3 assets with every flag, pairs with every kind of bad name, both kinds together | 397 285 | `InboxInvariant`, `OnceInOrder`; `DiagnosticsExact`, `OrderByLongestWait`, `Answers` |
| `preflight` | policy: recipes of up to 4 files, sizes to 5, limit 4 for each and 6 for all, 14 replacements at any path; image: 6-bit words, images and files to 16, alignments 2 to 8, up to 2 sections, one anchor | 2 391 778 | `PinsAreRecipe`; `FileMatchesMapping` |
| `cd_stream` | 14-bit words, 2 stacks, 7 geometries, 4 heaps, 13 blocks, 8 pointers; or one choice of each and one word, register or flag rewritten at any instruction | 306 314 | `GenuineRunNotRefused`, `HeaderInsideBlock`, `ReportIsTrue`, `StopsAreReached` |
| `launch_context` | environments to 4 entries under limits of 3 entries and 12 units; 2 ways, 2 trees of 2 names, 2 directories | 2 222 208 | `EnvironmentExact`, `StartsWherePinned` |

Four runs hold two models each: parts that share no state, beside each other. A
variable `part`, fixed in the first state, says which of them moves, so each is
explored exactly as it would be alone and its claims lose nothing; the other one
stays where it starts.

Why the bounds are enough, by model.

- *ledger*: three entries let a base be mapped, unmapped and mapped again with
  another base between, and let the array fill with retired entries only. Limits
  0 and 4 are those `validate` must refuse. `MaxEvent` bounds the event numbers.
- *lease*: a stamp of 1 can be leased to 3, exactly the end of the width, and 2
  cannot, so both sides of the overflow test run; two epochs and two sequence
  numbers reach both counters' ends. Domain, session, catalog and revision 0 are
  the invalid identifiers. Proposals are well formed, or wrong in one field.
- *session*: two threads give every pair of overlapping calls; the third can
  overtake both and be refused while they trade the flag. Nothing is bounded: the
  state space is finite.
- *loads*: the placements put the codec at the proxy's base, at the ASI's and at
  its own, an unpinned file and a load at address zero. Fourteen events cover the
  loads, one unload and reload, and the stops of the `codec` goal; the
  `startup_return` goal adds the loads during the ASI call.
- *walk* needs no unloads: the order of stops does not depend on them, and
  `loads` covers them. `guards` leaves refusals out, for an alarm must be
  unreachable also when every read succeeds.
- *walk* and *guards* have up to 160 events, more than the longest line takes, so
  no line is cut short by the limit; `loads` reaches that limit.
- *owned_image*: a drain of 2 ends at its limit, is called again and finds the
  exit; the destructor's own stop is a third. The proofs of section 5 drop these
  bounds.
- *inbox*: sizes lie on both sides of the remaining budget, and 14 and 15 plus
  the charge wrap to 1 and 2, which the wrong comparison would admit.
- *cd_stream*: the blocks and pointers lie on both sides of every boundary the
  layout and range checks have: the bottom and top of memory, the two stacks, each
  other. One stack pointer has the sign bit set and one has not, because flags
  depend on it. Two table entries make each clearing loop run its body twice.
  The runs with tampering keep one value of each (`Usual`), so that any single rewrite, at any of
  the instructions, is tried in a run that would otherwise be verified.
- *world_plan*: three nodes give every shape a wave can meet: chains, joins, a
  cycle beside a free node, a node that waits for a cycle, a self-loop. The list
  of a pair's names covers none, one, two, a repeated, a malformed and a missing
  one; a resource may also take the other's name or an invalid one.
- *launch_context*: sizes let a block end exactly at the limit, one before and one
  past it, in one, two and three entries, so the scan's offset and the list's
  units are compared at their common boundary. Two trees and two ways give the
  child every other directory that could stand at the pinned path.
- *loader_policy*: totals from below to past the budget, reached at the last and
  at an earlier file; a file may shrink to nothing, grow past both limits, change
  content or name.
- *pe_image*: in words below 64, an offset of 60 or 62 plus a length of 60 or 62
  wraps to a small number, which a narrow sum would accept; the header fields run
  one by one through each bound and past it. Sections may touch, overlap by less
  than a page, lie in the file in another order than in the image, and have a
  virtual size of more, less or nothing against their bytes in the file.

Deadlock is checked in every run. What really may stop does so in a named
stuttering step: the injected calls when their run has a reason (`CallsOver`),
the observation loop, the suspended image, the suppression's finished observer.

## 4. Fairness

- `BootstrapSession`: each thread inside an export keeps running (weak fairness
  of its steps). No thread is obliged to call. `FlagReleased` needs no more: no
  step inside the flag waits for another thread.
- `LoaderObservation`: weak fairness of `Begin`, `Continue` and `WaitEnds`, the
  steps of the loop's own thread. `WaitForDebugEvent` is called with the time
  left to the deadline, so a wait ends without the debuggee's help. Nothing is
  assumed of the debuggee: no event need ever come, and one that keeps making
  events runs into `loader_event_limit`.
- `SuspendedImage`: weak fairness of `Code`, the steps of the owner: a
  constructor, `stop` or destructor that was entered goes on, the loop ends
  (that is what `WalkKept` says of it), and the object goes out of scope. The
  calls inside `stop` all have a timeout. The child is not assumed to do anything.
- `CdStreamWatch`: weak fairness of the game's thread and of the observer at a
  stop. The loop continues every event it accepts, and the pinned code between
  two stops has no wait; that the thread is scheduled is the system's part. It is
  assumed of runs without tampering (`tamper = "never"`) only, for a rewritten
  register can send the thread anywhere; there `StopsAreReached` says that no stop
  stands at an address that the thread misses.
- `WorldPlan`: weak fairness of the validator's own steps: it runs in one thread
  and waits for nothing.
- `LaunchContext`, `LoaderPolicy` and `PeImage` claim safety only.
- `LineWalk` promises that a run ends, which its refinement has to show from the
  fairness of the loop. `SessionPromise` and `OwnedChild` are safety only.

## 5. Proofs

| Theorem | Says, for every value of the constants |
|---|---|
| `LoaderObservationProofs!ObservationSafe` | the loop's inductive invariant, `[]ObservationInvariant` |
| `...!ObservationTyped` | `[]TypeOK`: the event, thread, module and byte limits hold on every path |
| `...!TrustedStaysMapped` | `[]MappingsTrusted`: what a later handler relies on is still mapped |
| `...!RecordMatchesLedger` | `[]LedgerInStep`: the module table and the ledger agree |
| `...!ScanIsQuiet` | `[]QuietScan`: nothing is mapped before the stop that waits for it |
| `...!DefencesIdle` | `[]DefensiveUnreachable`: the ledger's defences are never needed |
| `...!AlarmsReal` | `[]AlarmsAreReal`: an alarm about the registers has a cause |
| `...!HandlerOwnsStop` | `[]NextHandlerOwnsStop` |
| `...!RunWalksItsLine` | `Spec => Walk!Init /\ [][Walk!Next]_(Walk!vars)`: the safety part of `WalkKept` |
| `LoaderPartsProofs!LedgerSafe` | `Spec => []LedgerInvariant` |
| `LoaderPartsProofs!HistoryOnlyGrows` | no step rewrites or revives an entry |
| `LoaderPartsProofs!SuppressionMovesOnce`, `SuppressionAppliesOrUndoes`, `SuppressionRoundTrip` | the three properties of the suppression, whatever its port answers |
| `BootstrapProofs!SessionSafe` | `[]SessionInvariant`, for any set of threads |
| `BootstrapProofs!SessionKeepsPromise` | `Spec => PromiseKept`: the session implements `SessionPromise` |
| `BootstrapProofs!SessionNeverAccused` | `[]GenuineAccepted`: the observer never calls this repository's session a mismatch |
| `BootstrapProofs!SessionHeard` | `[]VerifiedIsSessionRun`: what passes is a run some session gives |
| `LaunchContextProofs!StartsInPinnedDirectory` | `[]StartsWherePinned` |
| `LaunchContextProofs!EnvironmentIsExact` | `[]EnvironmentExact` |
| `PreflightProofs!PolicyPinsItsRecipe` | `[]PinsAreRecipe` |
| `PreflightProofs!FileAndMappingAgree` | `[]FileMatchesMapping`, for every header, section table and list of anchors |
| `PlatformProofs!BytesStayTheQueue` | `[]InboxInvariant`: the bytes counted are those queued, without a wrap |
| `PlatformProofs!PopsOnceInOrder` | `[]OnceInOrder` |
| `PlatformProofs!Exact` | `PlanSpec => []DiagnosticsExact`, for every plan: what is reported is what the plan breaks |
| `PlatformProofs!Ordered` | `PlanSpec => []OrderByLongestWait`, for every plan |
| `LeaseAuthorityProofs!AcceptedOnceInOrder` | motions and renewals are strictly ordered by epoch and sequence, and an epoch has one session |
| `LeaseAuthorityProofs!GrantsSound` | `[]GateSound`: types, no grant behind a fence, deadlines exactly one lease after the reading that set them |
| `LeaseAuthorityProofs!AcceptedInTime` | a proposal is applied only within one lease of the latest issue or renewal, on its clock domain (owner and session are the matter of `AcceptedOnceInOrder`) |
| `LeaseAuthorityProofs!EpochsNeverWrap` | after the last epoch no grant is issued again |
| `SuspendedImageProofs!OwnershipSafe` | `[]OwnershipSound`, for every drain limit and any number of stops and events |
| `SuspendedImageProofs!ReadsAreStill` | `[]ReadsStandStill` |
| `SuspendedImageProofs!SuspendedImageOwns` | `Spec => OwnedKept`: every behaviour of the class is one of `OwnedChild` |

The assumptions are the modules' own, and TLC evaluates each in a run:

- `LoaderAssumption`: the limits of `LoaderLimits` (1 to 160 events, 1 to 16
  threads), one to three codecs, the named files among the pins, files and bases
  of loads with a size and an address, mapping limits within the ledger's array.
  The lines of stages are not constants: they are those of the code.
- `LedgerAssumption`, `LeaseAssumption`, `SuspendedAssumption`,
  `SessionAssumption`, `NothingAssumption`: naturals, non-empty leases, and null
  values outside the set of real ones.
- `EnvironmentAssumption`, `PolicyAssumption`: what an entry and a line of a
  recipe consist of, and limits that are numbers. The empty block fits.
- `ImageAssumption`: the fields of a PE file are numbers, and the least alignment
  (512 in the code) is not zero.
- `InboxAssumption`: a budget the constructor admits, sizes within `size_t`.
- `PlanAssumption`: the types of a document that was read
  (`WorldPlanValidator.cs:12-20`), names being numbers. Nothing is assumed of the
  limits, nor of what a plan holds: it may repeat names, refer to missing ones,
  have cycles and be too large.

The arguments.

- *The observation loop.* The inductive invariant has seven parts, and no run's
  property is inductive without others of them.
  - `OnTheLine`: the armed stages are a first part of the goal's line and each
    armed stop is a stop of its stage; which of them were continued follows from
    `started`, `pending` and the loader's breakpoint. It gives every step
    the stage armed last, and so which handler may run. About a sixth of the
    module is the geometry that this needs: ranks grow along every line, the last
    of a set of stages is the one of highest rank (`AtPlace`), and what comes next
    is not armed yet (`NextPlace`).
  - `RegistersKept`: while the debuggee has not written them, the debug registers
    hold the stop armed last. Only with this is a stop that no handler expects the
    debuggee's doing (`AlarmsReal`), and arming sure to be read back.
  - `Counted`: the loop's counters, strict while the run goes on. It is what dates
    loads against stops.
  - `RecordKept`: table and ledger are the same list while the run goes on. The
    end of a run may leave one module without a mapping, which is why the claim
    has two lengths.
  - `FoundLive`: the identifiers that handlers keep are those of live mappings.
  - `LoadsFresh`: what is mapped of a codec or the ASI was mapped after the stop
    that waits for it was armed. An unload that ends the run is what keeps this and
    `FoundLive`.
  - `ReasonMeans`: the reasons a run may end with. It is an invariant, not an
    action property, for reasons stay. The reasons themselves are kept apart by
    lemmas over `StopChecks`, `Preconditions` and `ArmFailures`.
  For the refinement, a step that arms a stop is an `Advance` of the walk, a
  verdict at the last stop of the line is `Verify`, every other end `Refuse`, and
  the rest is stuttering; `HandlerWays` and `HandlerEnds` say which of them a
  handler does.
- *Ledger.* `LedgerInvariant` is inductive as it stands. The only part that is not
  first-order is the counter, `active_ = Cardinality(live entries)`; `AdmitShape`
  and `RetireShape` say that a step adds or removes one index of the
  live set, and the library's facts on cardinality do the rest. `HistoryOnlyGrows`
  is an action property from the same invariant.
- *Suppression.* The three invariants need to know how many writes each phase has
  behind it (`WritesCounted`) and what the flags of each phase mean for the
  context (`PhaseSays`). That is one case for each pair of a step and a
  phase, and no arithmetic.
- *Session.* `SessionInvariant` needs that exactly the owner of the flag is past
  it (`OneOwner`) and that a session still discovered has begun no observation but
  the owner's (`Counted`). For the refinement the abstract status is `settled`:
  `Working` says what the owner's unfinished writes hide of it, and that at
  `Answer` they amount to one of the promise's answers.
- *Lifecycle.* Whatever code answers, the observer's record is a prefix of eight
  replies. `Listened` says what each of those heard so far must be for the
  observer still to go on: the first an initial status, the second an outcome,
  the two after it the same again, the rest that the session stopped.
  `Remembered` says that the genuine session's status is its last reply, so each
  of its answers is one the observer lets pass (`SessionStep`). That a run which
  passes is a session's (`CredibleIsSessionRun`) needs the replies that a session
  gives to the observation's answer, a recursive function of the call: it exists
  because the eight replies heard satisfy its equation, call by call.
- *Launch context.* A directory that is held open cannot be moved away, so what
  a compared path finds is the pin until a way leads elsewhere (`HeldStaysFound`).
  The environment is about sums: the scan counts offsets, the list counts units,
  and that they refuse the same block is an induction over the entries.
- *Loader policy.* What is read is bounded by what was declared. The invariant
  carries the sums of the recipe's lines: `CheckedSoFar` reaches the present line,
  afterwards `ChargedSoFar` says the bytes charged are one of those sums, so the
  present file still fits whatever its size became.
- *PE image.* The parser compares unrounded extents, the system maps whole pages.
  An accepted section begins on a page, and rounding gives the least multiple that
  is not below (`LeastMultiple`), so extents that are apart stay apart when they
  are rounded (`PagesApart`). Hence one section maps an address (`OneLineMaps`),
  and it is the one whose bytes the parser looked up (`AnchorMapped`). The
  invariant adds how far the comparison is (`ComparedSoFar`).
- *Inbox.* The two properties are inductive together. `FitsKeepsBudget` is the
  comparison of `push()`: no sum in it can wrap. `ChargeAdded` and `ChargeTaken`
  say what a command at either end of the queue does to its charge.
- *Plan validator.* The reference is the document alone, so the invariant carries
  each loop's partial result. `PlanInvariant` says what the loops have built: the
  dictionaries hold the definitions taken so far (`KindTaken`, `ServicesTaken`),
  the edges those of the first names in their order (`KindLinked`), the orders so
  many waves (`KindSorted`). `DiagnosticsInvariant` says the same of what was
  reported, code by code; a step touches one or two codes, and the `Says` lemmas
  say which. Three facts about graphs do the rest.
  - *Waves are walks.* `Layers` says that each name of an order waits for one of
    the wave before and for none of its own or a later one, and that what has not
    left waits for something of the last wave or that has not left. So the wave of
    a name is the length of the longest walk from it (`WaveIsDepth`), and within
    a wave the order is by name.
  - *What is left waits for a cycle.* When nothing is ready each name left waits
    for another one left, so there are walks of any length among them
    (`PathAnyLength`), and one as long as the graph is large meets a name twice
    (`PathMeetsCycle`, the pigeonhole). Along a walk from a sorted name the
    waves fall, so it meets no cycle (`PathDescends`).
  - *The closure is what is reached.* `ClosureIs` says that the critical assets
    and all that the closed ones wait for are closed or pending, and that a
    critical asset reaches all of these. With nothing pending the closure is closed
    under edges, and a walk that starts in it stays there (`PathStays`). The
    definition counts walks no longer than the graph is large, and a longer one
    can be shortened (`ReachesSoon`).
- *Lease.* What is wanted (accepted entries increase) is not inductive: it says
  nothing of counters. `LeaseInvariant` adds that no logged entry is ahead of the
  epoch counter, that those of the current epoch are not ahead of the last
  sequence consumed (`Bounded`), and that they came from the session of the held
  grant (`SessionOfGrant`). Every way out of a grant is one lemma (`DropKeeps`),
  every clock sample that keeps it another (`StampKeeps`), every accepted entry a
  third (`AppendKeeps`). The width of the counters and the length of the lease do
  not matter to the argument; `ExtendDeadline` and `IssueGrant` fence before they
  would overflow.
- *Ownership.* `stop()` can return after any failed call and be entered again, so
  the invariant relates the object's memory to the system: which event is
  outstanding for a process in each of its states (`EventOfProcess`), that the
  held event is that one and its kind is known (`HeldEvent`), that a child in its
  job does not outlive the request for its end (`DeadOnceRequested`), and which
  flags each stage of `stop` may rely on (`StopStages`). For the refinement the
  mapping is `Child`: an unassigned child is not owned at all.

The library's induction theorems take a predicate as a parameter, which the
installed provers cannot instantiate. Where a sum over a sequence is needed (the
environment's units, the queue's charge) the induction is made for the set of
numbers at which the one statement holds: the least number outside it, which
exists because `<` is well-founded, leads to a contradiction (`SetInduction`,
`EveryNumber`).

Left to TLC:

- liveness, which the provers do not treat: `FlagReleased`, `ChildDies`,
  `StopsAreReached`, `Answers`, and the fairness of `LineWalk` in `WalkKept`;
- `CdStreamWatch` (`GenuineRunNotRefused`, `HeaderInsideBlock`, `ReportIsTrue`), a
  fixed program over words whose bitwise operators the provers do not know.

## 6. A divergence between a comment and the code

`src/engine/observer/suspended_image.cpp:109-110` says of `stop()`: "Kill always
precedes cleanup continuation, never releasing that phase." The run
`unassigned_child` checks this as `KillPrecedesRelease` and finds it violated.
When `AssignProcessToJobObject` failed in the constructor the job is empty. If
`TerminateProcess` then fails, `stop()` falls back to `TerminateJobObject`, which
succeeds on the empty job; `kill_requested_` is set, and the drain takes the
child's first event and continues it with the child alive. The job's kill on
close does not reach that child either. `AssignedKilledFirst`, the same claim for
a child in its job, holds and is proved.

Two more facts a reader of traces should know, neither a contradiction: the end
of a run because a mapping of the ASI was unloaded (`asi_mapping_retired`) is
decided by the file, so the unload of any second mapping of it ends the run too;
and every reason can be replaced by `loader_exit_unconfirmed`.

## 7. What is not modelled

- *The earlier stage policies' own arithmetic and byte comparisons* (entry,
  startup, CRT, file manager, working directory). Their refusals are inputs of the
  loop. The CD-stream stages show the form their models would take; each needs its
  pinned code as instructions.
- *Module identity and page protection at the CD-stream stops*: what is read is
  taken to be readable and the module the pinned one.
- *Region snapshots* (the 16-byte and page-sized images compared at later stops):
  a drift between two snapshots is an input, like any read.
- *The image reader's walk over memory regions and the reading of the file*: a
  read fails or not. The signatures and machine types of a file are one field.
- *Spelling*: whether a name, a path, an environment entry or a digest has the
  right form is an input of `WorldPlan`, `LaunchContext` and `LoaderPolicy`. So is
  the parsing of a plan's JSON.
- *Fixture codec*: an encoder and a decoder of one envelope, in two languages.
  Planned below.
- *Probe programs, managed inspectors, Python and PowerShell tools*: command
  lines, JSON and files in one pass, with no state that outlives a call.
- *Generated headers*: constants. The modules take the limits they carry
  (`LoaderLimits`, 64 mappings, 64 drained events) as constants.
- *The plugin SDK probe*: compile-time assertions.
- *The multiplayer platform of the docs*: not in the code of this commit.
- *The Windows debug interface*: modelled from the calls the code makes. A held
  event suspends the whole process; a job with kill-on-close kills what was
  assigned to it; a write of a thread's context that reports failure may have
  taken effect in part.

## 8. Plan

Done, in this order: ledger, lease, bootstrap session and its promise, injected
calls, stages and loop with the walk they refine, ownership and its refinement,
inbox, suppression; proofs of ledger, lease, ownership; the CD-stream stops with
the code they watch, the world plan, the launch context, the loader policy, the
image layout; proofs of the session and its refinement, the launch context, the
loader policy, the suppression, the observation loop and its refinement, the
inbox, the image layout, the lifecycle and the plan validator.

Next, most important first:

1. *`RegionSnapshots`*: what a second thread can write between two reads of the
   stages that compare memory, and which drift each later stop notices; composed
   with the import-slot guard, which watches the main thread only.
2. *The file manager and working directory stops* in the form of `CdStreamWatch`.
3. *`FixtureCodec`*: the C++ and the C# decoder as two operators that accept the
   same envelopes.
