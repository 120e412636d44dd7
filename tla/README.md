# A TLA+ development of the CorsixTH Old 3DS port

This directory specifies two halves of the repository as TLA+ modules: the run-time core of
the port (the code that is neither a pixel loop nor a file format), and the Python programs
that build, pack, deploy and verify what runs there.  TLC checks small instances of them and
TLAPS proves theorems about them for all instances.  Paths below are those of the repository;
`ARCHITECTURE.md`, `SD_LAYOUT.md` and so on are documents in its `docs/`.

## 1. The system

CorsixTH (C++ and Lua, SDL2) runs on an Old 3DS: one main thread that simulates, draws
and calls `cth3ds::tick`; an input sampler thread; the APT hook of the system, called at
any moment for HOME, lid and close; background streams that read resources.  Memory is
scarce (a few MiB per pool), the SD card is slow and power can go at any time.

| component | state it keeps | operations | hard behaviour |
|---|---|---|---|
| **Resource manager** `resource_manager.cpp` | entries with refcount, pins, dependents, LRU tick; per-pool ledger bytes; active and blocked group; transition; scratch flag | acquire / acquire_derived / release, pin / unpin, purge, begin / commit / cancel transition, read_stream_range | callbacks with and without the mutex, eviction order, rollback, budget limits, failure half-way |
| **Runtime session** `runtime_session.cpp` | state machine, mount pins, save token, ledger baseline | initialize, enter_menu / enter_level with a prepare callback, begin / finish_save_load, suspend / resume, shutdown | unlocked callbacks, partial shutdown, tokens left open |
| **Atomic save** `atomic_save.cpp` | `slot`, `slot.bak`, `slot.tmp` | commit_atomic_file, atomic_write_file, recover_atomic_file | power loss and failing calls between any two file-system calls |
| **Lifecycle** `lifecycle.cpp`, `runtime_3ds.cpp`, `platform.lua` | controller state, I/O depth, deferred bits, pending APT bits, device flags, paused world | signals, tick, apply_lifecycle_decision, save, suspend / resume of the Lua world | asynchronous, coalesced bits handled in a fixed order; early returns |
| **Input pipeline** `input_collector_3ds.hpp`, `input_queue.hpp`, `input_mapper.cpp`, `tick` | sampler's last reading, bounded queue, cancellation request, mapper's pressed and blocked controls | sample and push, drain, cancel, discard, pause | second thread, full queue, stale snapshots, UI replaced in mid-drain |
| **Resource converter** `th3ds_convert.py`, `th3ds_container.py`; mount in `th3ds.cpp` | records of the sources, the two packages, the staged and the published directory | fingerprint, convert, lay out, seal, inspect, publish; mount | sources edited between two readings, alignment, a taken output, failures and kills |
| **SD package and delta** `validate_sd_tree.py`, `make_sd_delta.py` | scratch tree of hard links, contract, manifest | link, copy, write metadata, validate, select, publish | links share inodes with the baseline; edits between any two steps |
| **Deployment and acceptance** `old3ds_ftp.py`, `old3ds_delta.py`, `old3ds_fetch_log.py`, `v061_acceptance.py` | installed tree, staging, backups, reports, boot log | upload, verify, rename, undo, fetch, judge | refused commands, lost replies and connections, damaged uploads, stale logs |
| **Verifier input bundle** `build_verifier_input_bundle.py`, `verifier_driver.py` | staged copies, binding, worklist of binaries, the output path | identify, bind, copy, patch, publish, verify, open | concurrent builders, edited sources, publication before verification |
| **Host suite** `run_host_python_suite.py` | plan, outcome per test ID, receipt | discover, fixtures, tests, subtests, verdict | several events for one ID, edits during the run |
| **Evidence chain** `verify_runtime_core_v2.py`, `consume_runtime_core_v2.py`, `verifier_driver.py` | policy, artifacts, manifests, facts, fixture, receipt, seal | produce, derive, review, finalize, verify | several sessions, upgrades between commands, damage, cut stages |
| Allocation ledger `allocation_ledger.cpp` | records, per-pool live bytes, windows | allocate, free, close window | overflow checks; a map that grows |
| Simulation clock, schedulers | accumulators, limits | advance, interrupt | catch-up bounds, wrap-around |
| Texture cache, audio mixer, bounded log | LRU list; voices and ring; ring of lines | put / get, mix, append | limits, eviction |
| resource pack, hashes, layout, gestures, codecs, canvas, asset encoders, source patches | none that outlives a call, or none at run time | - | - |

How they interact: `tick` takes the APT bits and asks the lifecycle controller for
decisions; a decision pauses the sampler, the audio and the session and dispatches
actions to Lua; Lua saves the game between `begin_save_load` / `finish_save_load` of the
session and commits the file with `commit_atomic_file`; the session drives the manager's
transitions and pins; clients hold manager leases.  `tick` then drains the input queue
through the mapper into the Lua UI.

Off the device: the converter writes the tree that the runtime mounts; the SD package holds it
with the program and the Lua files; a delta is made of that package against a retained one and
both are deployed over FTP; the boot log comes back and is judged together with the report of
the deployment.  The reviewer's driver opens an input bundle, runs the host suite, and runs
producer, consumer, matrix and finalizer one after the other, each on files the earlier ones
left.

What makes each correct:

- *Resource manager*: what a lease points at is resident and counted; budgets hold, loads
  in progress included; a ledger record has exactly one owner; a texture's sprite outlives
  it; a group is left only without leases; pins hold; rollback is complete; one user of the
  scratch workspace.
- *Session*: its state, the manager's group and its token agree after every failure; a
  closed session left nothing; a mount pin that is left is real.
- *Atomic save*: what was reported saved can be recovered from any instant on.
- *Lifecycle*: a suspended game is quiet, a running one has everything back, a close
  request is answered.
- *Input*: a drag never spans dropped snapshots, nothing held is replayed, a press the UI
  has seen is remembered, a lifted pen is lifted in the UI.
- *Converter*: what its writer finishes its inspector accepts, and what it publishes the
  runtime mounts as one family.
- *Delta, deployment*: the baseline is never written; a published delta gives a valid tree; no
  file that was installed is lost; no partial tree is installed by a full deployment; a refused
  delta is undone; a boot is accepted only for this package and this deployment.
- *Bundle, suite, chain*: a bundle that opens holds the commit its own DAG authorises; what is
  published stays; a runtime's libraries are all inside it; an accepted suite hides no failure
  but one that a late skip replaced; an accepted seal is one session's chain, built as pinned,
  sealed after a complete matrix.

The hazards behind these, each at its line, are listed in `PROJECT.json`.

## 2. The modules and the code

One module per component; `LeaseCache` is the abstract specification of the manager;
`RuntimeSession` is composed with `ResourceManager` (it EXTENDS it, and its actions
conjoin the manager's actions); `ResourceMount` with `ResourceTree` with `ResourceContainer`;
`HostSuite` with `InputBundle`; `Deployment` with `SdDelta`.  `MC*` modules give constants
their values and bound the instances; `*Proofs` modules hold the theorems.  `MainLoopProofs` is
about `Lifecycle` and `InputPipeline`, which share the main thread; it extends both, so their
definitions have names of their own (`Spec`, `pc`; `InputSpec`, `phase`).

### LeaseCache, ResourceManager

The variables are the fields of `CacheEntry` (one function of ids per field), of the
manager (`activeGroup`, `blockedGroup`, `transition`, `scratchBusy`, `leases`) and of the
outside: the lease objects (`leaseOf`), the ledger records per id (`records`), and for each
thread the callbacks it is in (`stack`).

Every public operation locks one recursive mutex for its whole body, so it is one action,
with two exceptions that the model splits:

- `acquire_derived` calls the loader with the mutex held: `BeginLoad`, then `EndLoad`,
  `EndLoadFails` or `AcquireDerivedThrows`.  Meanwhile only the same thread can enter
  (`MayCall`).
- `read_stream_range` releases the mutex while its consumer runs: `BeginStream`,
  `EndStream`, with everything in between.

Eviction is not an action of its own: `Victims(r)` is the prefix of the LRU order the loop
at `resource_manager.cpp:644` takes until the request fits, and the acquiring action evicts
it.  `older` is the order of last releases instead of a tick counter, so the LRU order needs
no bound.  The sweeps of purge, world change and cancel are `Sweep`, `GroupVictims`,
`PurgeVictims` and `CancelVictims` (textures before the sprites they use).  Bytes are
budget units; a pool's use is the sum over its records (`BytesWithout`).

| action | code |
|---|---|
| `AcquireResident`, `AcquireRaw`, `AcquireFails` | `acquire` on a hit, a miss and a refusal |
| `BeginLoad`, `EndLoad`, `EndLoadFails`, `AcquireDerivedThrows` | `acquire_derived` and its exits |
| `BeginStream`, `EndStream` | `read_stream_range` |
| `ReleaseLease`, `Pin`, `Unpin`, `PurgeGroup`, `PurgeZeroReference` | the operations of those names |
| `BeginTransition`, `BeginTransitionRefused`, `CommitTransition`, `CancelTransition` | group changes and save/load transactions |

Group ids: 0 means no group and is rejected at mount (`th3ds.cpp:707`); the menu and the
levels have ids of their own (`runtime_3ds.cpp:101-110`).  At this commit the shipped
program calls the manager through the session only (menu, levels, saves, suspend,
shutdown); `acquire_derived`, `read_stream_range` and prepare callbacks are called by
tests and by the host probe, and are modelled as the public contract they are.

### RuntimeSession

Session fields (`state`, `oldState`, `resumeState`, `saveToken`, `mountPins`) and `passed`,
which marks that shutdown has been through its quiesce callback and its lease check.  A
transition is `Enter` ... `PrepareSucceeds` / `PrepareFails` / `TransitionThrows`;
shutdown is `BeginShutdown`, `ShutdownRefused`, `ShutdownPasses`, `ShutdownUnpins` per pin
and `ShutdownPurges`.  One thread calls the session (it has no lock); clients acquire and
release whenever a callback runs.  A prepare callback acquires, pins, unpins and purges; derived
loads and streams are the subject of the manager's own runs.

### AtomicSave

`disk` maps the three names to a version, to nothing or to a file the validator rejects.
Each file-system call of `atomic_save.cpp` is a step (`OpenTemporary`, `WriteTemporary`,
`SyncTemporary`, `RemoveBackup`, `RotateFinal`, `Install`, `RestoreBackup`, ...) with a
failing twin; `Crash` may come between any two and tears any file that is not synced;
`DamageFinal` is a medium error.  The three callers are `App.save` (the game writes
`slot.tmp`, the port commits it), `atomic_write_file` and `recover_atomic_file`.  Assumed
of the file system, which is not part of this repository: renames and removals are applied
in order and last; contents last once fsynced.  (`runtime_3ds.cpp:2415` passes no
validator to the recovery, which then always refuses; the model is of the function
called with one.)

### Lifecycle

Controller fields, the bits of the APT hook, and the flags a decision sets on devices,
session and Lua world.  The main thread is a sequence of steps (`pc`): `TickBegin` takes
the bits, `HandleSignal` handles them in the order of `process_lifecycle`, `ApplyDevices`,
`SaveBegins` / `SaveNotBegun` / `SaveEnds`, `PauseWorld` / `ResumeWorld`, `RequestExit` and
`Periodic` apply a decision; `AptHook` runs between any two of them.  The player changes
speed, world and saves between ticks.  Saves run to their end inside one call of the main
thread, so a signal is never *handled* within a critical section although it may be *set*
there; the controller's deferral branches are part of the model but this composition does
not reach them.

### InputPipeline

`SamplerRead` and `SamplerPush` are the two halves of a sampler iteration (hardware read
without the lock, push under it); `DrainBegin`, `Pop` / `DrainEnds`, `Dispatch` /
`DispatchFails` and `AfterDispatch` are the drain loop of `tick`, cut where the main thread
takes the queue's lock; `Interrupt` is every pause, resume and discard between ticks.
A control is held or not; pointer positions only matter through snapshots that differ or
do not.  Time is left out: "older than two seconds" and "within 32 ms" are open choices.
The history variables (`seenUp`, `fresh`, `sampleCut`, `pressCut`, `foreign`) are
written and never read by the modelled code; the properties are stated with them.

### ResourceContainer, ResourceTree, ResourceMount

`ResourceContainer` is `build_package` with its two layout loops as steps (`LayMetadata`,
`LayData`, in the order of identifiers), `PlaceRegions` and `Seal`, over the format's own
sizes and alignments, and `inspect_package` as a predicate on the result.  Payloads are
sizes and bodies; a digest is the value it is the digest of.

`ResourceTree` is `build_resource_tree`: `Fingerprint` reads every source, `Convert` reads them
again, both packages are built by the container's steps, then `Bundle`, `_write_verified` and
`Publish`.  `Edit` and `Remove` come between any two of them, `Occupy` takes the output path,
`Fail` is an exception or a kill.  `ResourceMount` states what `open_bundle` asks of the
published tree.  Three things that the code does and the documents do not say:

- the fingerprint and the conversion are two readings that nothing compares
  (`read_stable` can, but its `expected_sha256` is never passed), although
  `TH3DS_PACKER.md` says that conversion rejects changing inputs;
- a core package without images or sprites has an empty group, which the inspector accepts and
  the runtime refuses (`th3ds.cpp:1267`); `PublishedMounts` exempts it by `GroupsPopulated`;
- the writer compares the metadata alone with the metadata budget, the runtime the metadata with
  the descriptors, of 164 bytes each (`th3ds.cpp:1092`); `PublishedMounts` exempts such a catalogue
  by `CatalogFits`.

The budgets that the converter is given (`Budgets`) are what it declares in each manifest
(`DeclaredBudgets`); the runtime has caps of its own (`resource_pool_limit`) and refuses a package
that declares more (`th3ds.cpp:1083`, `BudgetsWithinCaps`).  Nothing on the converter's side looks
at those caps, so `PublishedMounts` is about trees whose declared budgets are within them: with
`--audio-bytes 4194304` a tree is published that the runtime refuses, although `TH3DS_PACKER.md:17-20`
says that options may only tighten the caps.  `Mountable` lists all that is assumed in this way; the
three that remain are the two catalogues together against the metadata pool, a manifest that the
runtime's JSON reader is too small for (`ManifestReadable`) and an empty payload, which may share its offset with the payload after it
while the runtime sorts the intervals by their begin alone (`th3ds.cpp:1236`) and may meet them in
either order.

### SdDelta, Deployment

`SdDelta` reaches files through inodes, since a hard-linked file *is* the baseline's.  A
maker's steps are those of `make_delta`; `Change` edits a replacement, a baseline file, the
candidate or the output between any two.

`Deployment` cuts both deploy functions at every command.  `RefusePublish`, `RefuseDelta` and
`RefuseUndo` are refusals the code answers; `LoseConnection` is a connection or a tool that is
gone, after which the first command of the undoing raises too, so nothing is undone.  A command
whose reply is lost is that command followed by `LoseConnection`.  A damaged upload has the
right size.  A refused delta leaves its `.uploading` files beside the installed ones;
`RefusedDeltaUndone` compares the installed files only.  The full deployment reads everything back; the delta compares sizes only, which is
why `FullPublishesVerified` speaks of the full one.  Where the connection is lost between its two
renames a full deployment leaves no installed tree, and a delta leaves a mix of both packages
although it calls itself transactional; `NothingLost` says that every file can still be found.
A full deployment moves the player's own files into the backup with the rest.
Deployment, device and time of a report and the `acceptance-identity` line of the log are
required by `SD_LAYOUT.md:66-79` and written by no code of the repository: they are the
operator's, and external here.  Rows D03 to D09 and D12 are always NOT_PROVEN, so no assessment
is a PASS.

### InputBundle, HostSuite

`InputBundle` is `create_bundle` role by role, with `patch_macos_runtime`'s worklist
(`PatchOne`, `Rescan`), `Publish` by `os.replace`, the verification that follows it, and the
driver's own guard (`OpenBundle`), for several builders of one output path.  A load command that
begins with `@` or names a library of the system is passed over when a binary is patched and when
it is scanned, and a binary that `otool` does not read is skipped both times (`Listed`); so
`WorklistCloses` says nothing of those.  `HostSuite` is one
invocation of the suite: fixtures and tests in unittest's order, an outcome per test ID
(`Record`), the verdict, the receipt, and the checks of driver and consumer.  unittest itself is
external and modelled by what the runner's suite makes it do: before a test whose class is not
the `current` one it tears that one down (`TearDownDue`) and sets up the module and the test's
class (`SetUpDue`); sorted IDs keep a class together (`TestsAssumption`).  The last event of an ID replaces
the others, so a failure that a later allowed skip replaces is accepted;
`AcceptedSuiteIsClean` names this exception (`excused`).  `EditCheckout` edits tracked files: runner
and driver ask Git with `--untracked-files=no` around the suite, so a file that is merely added
is seen by neither and is not in the model.

### EvidenceChain

Per session: `BuildPolicy`, `Produce` (four commands stand for the policy's list), `Derive`
(reads everything once, in order), `Review`, `Finalize` and `VerifyFinal`.  Facts, receipt and
fixture are command-line arguments and may be another session's.  `Upgrade` changes tools or SDK,
`Damage` one file, `Stop` cuts a stage, each between any two steps.  Nobody gives a file its
old bytes back, and digests are injective: both are assumed.

The last of the four commands, `xbuild-disassembler`, stands for the readers of the ELF.  Derive
judges their text (`elf-text`) and one word of the ELF itself, the heap size
(`consume_runtime_core_v2.py:1331-1414`); the ELF is first hashed when the producer's manifest is
written (`verify_runtime_core_v2.py:1301`).  So an ELF that changes after its readers ran is
recorded, judged by what it was before, and accepted.  The model has this: a damaged output may
still show what is asked of it (`Proves`), and only the integrated tree is compared with something
that is known otherwise (`TreesExpected`).  `BuiltAsPinned` therefore speaks of the files that were
not damaged before the manifest hashed them, and of what the ELF shows only if ELF and text both
are.

`CopyInput` compares each input with the run manifest and then copies it; the sums are taken later
from what lies in the seal (`consume_runtime_core_v2.py:2060`, `2081-2085`), and `verify_final`
compares the seal with its sums, never with the run manifest's inputs.  Damage to a sealed file
(`Marred`) may come from the copy on, and damage that comes before the sums is listed in them and
accepted; `AcceptedAsRecorded` names exactly this exception.

## 3. What the runs check

| run | instance | shows |
|---|---|---|
| `rm_derived` | two sprites, a texture of one, a competing bitmap in the other group; 2 threads, 2 leases, 2 pin owners; caps that force eviction; allocator may throw | leases, budgets, records, dependencies, drained groups, pins, rollback; the cache implements `LeaseCache` |
| `session_all` | menu and one level group, one mount pin, 3 leases | pins, state/group/token agreement, a closed session is empty |
| `save_all` | 3 saves, 2 crashes, 1 damaged file, every call may fail | saves stay recoverable; recovery keeps and restores the backup |
| `lifecycle_all` | one world, three speeds, all signals | quiet when suspended, alive when running, every close request answered |
| `input_all` | pen and a button, queue of 2, 2 snapshots per tick | epochs, replays, remembered presses, the pen's lift arrives |
| `package_all` | one resource of every kind; payloads around 64 and 4096 bytes, an empty one, some over a limit; a catalogue that fills its budget to the byte; 2 edits | writer meets inspector; what is published mounts |
| `release_all` | a delta with 2 edits, then 2 deployments of either kind, 2 packages of 3 files, faults, boots, assessments | baseline kept, delta reconstructs, nothing lost, verified publication, refusals undone, current boots |
| `review_all` | 2 builders of one path, runtimes of up to 4 binaries, 2 edits of sources; then a suite of 3 tests in 2 classes | bundles bound, published bundles stay, the worklist closes, accepted suites are clean |
| `evidence_all` | 2 sessions, one case, 1 upgrade, 1 damage | one chain, built as pinned, sealed after the matrix, accepted as recorded |
| `rm_scratch`, `save_tmp`, `lifecycle_save` | the same modules | three statements of the documents the code does not keep (below) |

Every property of a passing run is broken by at least one mutant of the code: definitions
with a suffix (`Evictable_IgnoresRefcount`, `LayData_InRegion`, `PublishReplaces`,
...), which stand for a dropped guard, a missing reset or a wrong
order, and stand next to the definition they vary.

**Bounds.**  *Manager*: caps of one or two units and as many competing ids make every acquire choose
between hit, fit, eviction and refusal; `s2` costs all of its pool's cap, so the two sprites
never fit together and a request for one has to evict the other, if it may.  `MaxRefcount = 2` stands for 2^32 - 1: the three leases of the session run reach the
overflow refusal.  Two threads are one in a callback and one that meets it.  `MaxDepth` bounds
nested callbacks of a thread: 2 lets a consumer acquire while a loader waits; 0 in the session
run, whose subject is not the callbacks.  `LoaderMayReenter` (a loader that calls the manager back
on its own thread) is FALSE in all runs: nothing in the repository does so.  Two groups are the
old and the new one.  *Input*: capacity 256 and drain limit 64 are 2 and 2: overflow, a full drain
with a rest and an empty queue all occur.  *Saves*: three versions make "older", "newer" and
"newest" differ; a second crash can hit the recovery from the first.

*Converter*: two edits (`MaxChanges`) are one between the fingerprint and the conversion of a file
and one of another file; each payload has, by version, a size below, at and above a 64- or
4096-byte boundary or a limit, and two manifest sizes put the first payload at different
offsets.  *Delta and deployment*: two edits change a file that was linked and one that was
replaced; two deployments are a deployment over another's result, with the stale log and
report of the first; two faults are a refusal and the refusal or loss of its undoing.
*Bundle*: two builders race for the path; two edits move DAG and checkout apart and together
again, or the third DAG version, which is malformed, is reached; the runtimes have a cycle of two
Homebrew libraries, one left out and one foreign.  *Suite*: two tests share a class, so a fixture
that fails takes two of them; one test is a baseline failure.  *Chain*: the second session is the
one whose facts, receipt or fixture are mixed up with the first's; one upgrade or one damage at
any point is what the digests are there for; a command whose output does not show what it is run
for counts as the damage.

Constraints cut interleavings that no step can tell apart.  `Bounded` (bundle) lets one builder
patch only while the other is at one end of its work, since patching reads and writes nothing
that is shared; of the inputs that are merely copied it edits one.  `OneAtATime` (chain) has one
session between its start and its receipt, the other waiting, done or with a receipt of its
own: sessions share only what a finished stage left.  `DeployAfterDelta`, `SuiteLast` and `AssessLast`
run one program after another where the later reads only results of the earlier; `OneBoot` and
`OccupiedLate` drop boots that the next overwrites and early takers of a path that is looked at
late.  Symmetry (leases, threads, builders, sessions) is used in runs without liveness only.

**Deadlock** is not checked: a closed session, a crash budget used up, a game that exited or a
program that has ended may stop.

**Fairness.**  `Lifecycle`: `SF(TickBegin)` and `WF(TickStep)`.  The frame loop calls
`tick` in every frame and no step of it waits, while the player's own actions may fall
between any two ticks.  `InputPipeline`: the same, with `SF(SamplerRead)`,
`WF(SamplerPush)` for the sampler's unconditional loop.  No fairness is put on signals,
the player, failures or successes of actions.  The other modules have no liveness property.

### Disagreements the runs show

- `rm_scratch`: a texture load assigns the scratch flag instead of testing it
  (`resource_manager.cpp:890`), so during another thread's stream it frees the workspace;
  the documents promise `E_SCRATCH_BUSY`.
- `save_tmp`: recovery looks at final and backup only and removes a complete temporary
  file (`atomic_save.cpp:156,170`); `ARCHITECTURE.md` gives the temporary file priority
  over the backup.
- `lifecycle_save`: a suspend or exit decision suspends the session
  (`runtime_3ds.cpp:1642`) before it dispatches the autosave (`1673`), whose
  `begin_save_load` is then refused.

Seen while modelling, of statements with no run of their own: an acquire that is refused, and a
transition the reserve gate refuses, have already evicted idle entries (`resource_manager.cpp:644`,
against "failure is atomic at the public boundary", `RUNTIME_CORE_ACCEPTANCE.md:60`); shutdown
unpins and purges before it compares with the baseline (`runtime_session.cpp:394`, against
"never partial destruction", `RUNTIME_CORE_ACCEPTANCE.md:137`); and those named in section 2 for the
converter, the deployment and the suite.

Two limits of what holds are stated in the properties themselves: a cancellation that fails
at the begin of a tick (`runtime_3ds.cpp:992`) turns input off from the next tick on only
(`PressWithinEpoch`, `NothingReplayed` exempt it), and a tick that has lost its input never
looks at the lifecycle bits again (`ExitIsAnswered` exempts it).  And a snapshot that the sampler
read before a cut and pushed after it (`input_collector_3ds.hpp:70`) counts as one of after it, so
`NothingReplayed` takes what it shows as let go for let go: no property covers this race.

## 4. What is proved

Every safety invariant and action property of the passing runs is also a theorem, so what a run
shows of its small instance holds for every value of the constants.  The assumptions are the `ASSUME`s of the modules and nothing else; each is a
fact about the code (names differ, a class's IDs sort together, an alignment divides) that
TLC evaluates on its instance.

**Manager.**  `ResourceManagerProofs`, for every catalogue, every cap, any number of threads and
any finite set of leases, from `CatalogAssumption` and `ActorAssumption`:

- `TypeCorrect`: `Spec => []TypeOK`; `TypeOK` is inductive.
- `LeasesAlwaysAccounted`: `Spec => []LeasesAccounted`.  Inductive relative to `TypeOK`.
  Entries leave the map in four ways only - LRU victims, purge, group sweep, rollback -
  and each set consists of entries with refcount zero (`VictimsUnheld`, `SweepsUnheld`);
  by the invariant no lease points at those.  Acquire and release move one lease and one
  count, which is where cardinalities of the holders' sets are needed.
- `BudgetsHold`: `Spec => []PoolWithinBudget`.  The bytes of a pool are the cardinality of
  a finite set of units (record, index below its charge).  Every action that adds a record
  has `Fits(V, r)` as a guard for the victims `V` it evicts; the others only remove units.
- `KeepsPromise`: `Spec => Promise!Spec`, the refinement of `LeaseCache` under
  `resident <- entries, holds <- leaseOf`.  With `LeasesAccounted` every action is a
  `Grant`, a `Return`, a `Drop` or a stutter.
- `RecordsAlwaysOwned`: `OwnerInv` adds that no stack is deeper than `MaxDepth`.  A push moves the
  places of its thread by one and adds one, a pop is a push read backwards (`PushCounts`, a
  bijection between places); what an eviction takes is an entry, so it had a record.
- `PinsHold` needs types only: of all sets that are evicted only the rollback's has pinned entries.
- `DependenciesAlwaysResident`, `OldGroupStaysDrained` and `RollbacksRemoveStaged` are stated under
  `~LoaderMayReenter`; the others hold with reentrance too.  `LoaderInv` says that one thread at
  most is in a loader, in no callback within it, and that the id it builds is still open: what
  `acquire_derived` checked stands when it publishes.  On that rests `DependInv`: every set the
  manager evicts is closed under use (`VictimSetsClosed`), because a sweep takes a sprite only if
  all the textures it counts go, and because an LRU victim counts none; what remains is then
  counted by what remains.  The assumption that a texture and its sprite have different pools
  (`derived_plan`) keeps the victims of a texture's load from taking the sprite just found.

**Saves.**  `AtomicSaveProofs` proves `AckedIsRecoverable`, `PreviousIsKept`, `BackupIsKept`
and the type theorem `TypeCorrect` for any number of saves, crashes and damaged
files, from `SaveAssumption`.  None of the properties is inductive.  The invariant `Inv` adds how
far the operation has come (`Stage`: from the write to the rename slot.tmp holds the version being
installed, from the sync on it is not among the unsynced files), what it works for (`Purpose`: a
recovery keeps no backup and installs the backup's version, a save installs the newest) and, on
an undamaged medium, what recovery would find (`Safe`: final is absent from the rotation to
the install or the undo, and what was recoverable still is).

**Session.**  `RuntimeSessionProofs` first proves `UsesManagerCorrectly`, `SessionSpec => Spec`:
every step of a session is a step of the manager or a stutter, so the manager's theorems hold in
every session.  Then, for every catalogue and any clients, `SessionTypesCorrect` and:

- `WorldAlwaysMatches` and `TokenAlwaysMatches` from the inductive `Agreement`, which adds to them
  where a failed transition or shutdown goes back to (`ReturnOK`), which states an open
  transition belongs to (`TokenOK`) and where it leads (`TargetOK`).
- `MountPinsAreReal`: a mount pin's entry is not staged, since the pins are acquired before the
  first transition; so neither an eviction, a sweep nor a rollback takes it (`ManagerKeepsPin`),
  and nothing but the shutdown unpins for "Mount" (`NothingElseUnpins`).
- `ClosedIsEmpty`: a session closes at the baseline only and does nothing afterwards
  (`Emptied`); with `LeasesAccounted`, no lease left in the count is no lease with any client.

**Main loop.**  `MainLoopProofs` proves `SuspendedIsQuiet` and `RunningIsAlive` for any worlds and
speeds and signals in any order.  Between two ticks the devices follow the controller, but within a
tick each step of `apply_lifecycle_decision` changes one of them; `LifecycleInv` says for every step
which part of the decision is already applied and which the rest of the tick still will.

For any queue capacity, drain limit and set of buttons it proves of the input
`PressAlwaysRemembered`, `DragsStayInEpoch` and `HeldIsNotReplayed`, all from `InputInv`, whose
parts are: a snapshot or a press of an older epoch is always met by a cancellation that is still
pending (`CutsCancel`: that is what `push` owes the main thread when it drops snapshots), and every
control is blocked, was remembered by the mapper or has been seen up since (`HeldIsKnown`: so
what a cancellation blocks is enough).  The steps of `Cancelled` and `HalfWay`, with their failing
exits, are lemmas about those operators (`CancelledOutcomes`, `HalfWayOutcomes`).

**Converter and mount.**  `ResourceTreeProofs` proves `ContainersInspect`,
`TreeSpec => []WriterMeetsInspector`, for all payload sizes, budgets, groups and edits.  `LayoutInv`
says of the half-laid package that what has been placed is aligned, ordered, within what has been
laid so far and without overlap, and that the request was acceptable when it was taken; `Seal` then
gives the inspector's conditions one by one.  `PublishedTreesMount`, `TreeSpec =>
[]PublishedMounts`, goes from the writer to the other reader, the runtime.  `MountInv` follows each
package: what `Begin` was asked for is a function of records and conversions that no longer change
(`RequestInv`, `RequestsStay`), the file that comes out says what was asked (`Describes`), the
bundle names the files as they were built, and what is staged was inspected.  Then `CoreAsks` and
`LanguageAsks` say what the two requests ask for, and `PackageMounts` and `FamilyMounts` that this is
what `mount_package` and the check of the family want: ids of different kinds differ, a font map
comes with its atlas, groups are made from the entries they cover.  Budgets above the runtime's caps
are excluded by the hypothesis `Mountable` (section 2).

**Delta and deployment.**  `DeploymentProofs`, over `ReleaseSpec`, for any files, packages, edits and
number of deployments and faults:

- `BaselineIsNeverEdited`: in the scratch tree only replaced files and metadata have inodes of their
  own, and nothing else is written (`ScratchInv`).
- `DeltaIsComplete`: what is selected over the baseline is, byte for byte, the tree that was
  validated (`SelectionInv`), although choosing, copying and checking are different moments.
- `InstalledFilesAreKept`, `FullDeployIsAtomic`, `RefusalIsUndone`: `FullInv` and `DeltaInv` say for
  each command where the trees are; `Undoable` that a delta's list and backup together still give
  back the tree it found; `Kept` that every file ever found is in a backup, or is installed
  and not on the list.
- `AcceptedBoots`: a report vouches for the installed tree until the next deployment begins, and
  a log for the deployments begun before its boot (`ReportsHold`, `LogHolds`).

**Bundle and suite.**  `ReviewProofs` proves of the bundle, for any number of builders, edits and
damages and any load commands, `OpenedIsAuthorized` (`AuthorityInv` carries the pair of DAG and
commit that a builder checked through the rename to the output; the guard ties the bytes
back to it), `WorklistAlwaysCloses` (`WorklistInv`: everything in the tree is rewritten or queued and
what is rewritten loads only what is in the tree) and `PublishedDirectoryStays` (`os.replace` does not
take the place of a directory that is not empty, and what is damaged stays what it was made as).  `ReviewKeepsBundle` carries them to the composition with the
suite.  `AcceptedSuiteHidesNothing`, for any tests, classes and events: `SuiteInv` says that a test
still to run has no event yet, unless a fixture that failed bars it, and that a failure shows in
the outcome or was excused by a later skip; a tear-down finds all tests of its scope over
(`TornDownIsOver`), which is why IDs of a class have to be contiguous.

**Evidence chain.**  `EvidenceChainProofs` proves `SealedIsOneChain`, `AcceptedIsBuiltAsPinned`,
`SealFollowsMatrix` and `AcceptedIsAsRecorded` for any number of sessions, cases, upgrades and
damages.  `ChainInv` is a
conjunction over sessions: a step keeps that of its own session (`SessionStepKeeps`) and, since it
touches no other's documents, those of the others (`SameKeeps`).  What makes the pins hold is `Made`:
the versions an artifact was made with lie between those of the policy and those on disk,
so when `derive` sees the two equal, they are the artifact's (`IdentityPins`); of an artifact that
was damaged it says nothing.  `SealInv` says of each file of a seal that it is what was recorded or
was damaged there; with the sums the verifier compares, `AcceptedIsAsRecorded` follows.

**Model-checked only**: the two liveness properties (`ExitIsAnswered`, `PenLiftArrives`), which are
out of the prover's reach.  `ScratchExclusive`,
`TemporaryBeforeBackup` and `AutosaveCanBegin` do not hold (section 3).
What the unproved text of the model itself says of the code - that an operation is one
step, that a file system keeps renames in order, that digests are injective - is assumed, not
proved.

## 5. What is not modelled

- Within modelled parts: telemetry counters, event rings and error texts; the byte-level
  reserve arithmetic of the memory gate (it refuses or not); bad_alloc inside the
  session's shutdown; the circle pad, D-pad repeat and gesture timing; the bottom panel.
- *Asset encoders* (`th3ds_audio.py`, `th3ds_sprites.py` and so on) and the bytes of a container:
  they turn one payload into another; the model knows sizes and versions of payloads.  *Resource
  pack*, *hashes*, *screen layout*, *action codec*: functions of their input without state; the
  repository tests them with known answers.
- *Source and product patches* (`tools/integration`), the legacy packer and the packed asset
  mode: text in, text out.
- *Rendering, GPU, scaler*: data, not control.  *Build scripts*, CI and
  toolchain installation: other programs in order, with nothing of their own kept.
- *Allocation ledger, schedulers, log, texture cache, audio*: planned, see below.

## 6. Plan

Done, in the order of what a player, then a release, would lose: `ResourceManager` with
`LeaseCache`, `AtomicSave`, `RuntimeSession`, `Lifecycle`, `InputPipeline`; the converter and the
mount; delta and deployment; bundle and suite; the evidence chain; proofs of the safety properties
of all of them.

Models, next:

1. `SimulationClock` and the schedulers: catch-up limits and interruption; integer widths.
2. `AllocationLedger`: states of a record, windows, overflow; the abstract counter that
   `ResourceManager` uses (`records`) as its specification, shown by refinement.
3. `TextureCache`, `BoundedLog`, `AudioRingBuffer`: limits and eviction order.
4. The Lua load path (`platform.lua`) over `AtomicSave` and `RuntimeSession`: a load that fails
   after the session's token was taken.

Theorems, next:

1. Action properties of the session: what a failed transition, a refused save and a refused
   shutdown leave is what they found.
2. Who may write what of the bundle and of the chain, as action properties over all sessions.
3. The refinement of the ledger's counter, once `AllocationLedger` is modelled.
