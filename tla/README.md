# A TLA+ development of purgery

purgery moves files from a client to a server, lets the server import them with
a *transform* (an external program), and deletes the client's copy once the
server has said that the import is done. Everything that makes this hard is
about state that outlives processes: the server has no daemon, only short
invocations over ssh or from a timer that share a work directory and may crash,
overlap or fail at any file operation; the client has a state directory and may
crash as well; the user goes on writing to what is being deleted. This directory
holds TLA+ modules of that machinery, TLC configurations that check them on
small instances, and theorems that TLAPS proves for all instances.

`PROJECT.json` maps every definition to the lines it stands for and lists runs,
mutants, findings, hazards and theorems.

## Inventory

Paths are below `src/crates/`.

| Component | Source | State | Operations | Properties that make it correct |
|---|---|---|---|---|
| Run processor | `purgery-server/src/process.rs`, `recover.rs` | none of its own; run directories, `processor.lock` | `process-run`, `process-once`: claim, recover, import, publish, move, answer | one processor per run; no second import after publication; one placement for all attempts; done only after an import; outcome final; every run ends |
| Phase directories and lock | `phases.rs`, `purgery-core/src/path.rs` | `<nick>/<phase>/<run>/` with `lease.toml`, `run.toml`, `manifest.toml`, `files/`, `work/`, `destination-plan.toml`, `status.toml`, `processor.lock` | flock, publish, rename, finalize, move to failed | a terminal run has its status; one phase at a time |
| Transform runner | `purgery-server/src/transform.rs`, `purgery-core/src/transform.rs` | child process, destination | spawn, wait, expected outputs | what is reported as imported was worked on and has its outputs |
| Destination resolution | `purgery-core/src/path.rs` | none | `resolve_destination` | rsync's decision, stable over retries |
| Intake | `lib.rs`, `phases.rs` | incoming directory, lease | `begin-run`, `prepare-run`, `heartbeat-run`, `finish-run` | what is accepted is whole; retries agree with the first answer |
| Collector | `gc.rs` | times of files | `gc`, also at the start of `process-once` and of each sync | a verdict stays readable for its retention; everything goes in the end; the server's promises survive it |
| run-state | `lib.rs` | a probe of the lock | `run-state`, `read-status` | an answer was true at some moment of the call |
| Client run driver | `purgery-client/src/run.rs` | `runs/<nick>-<run>/state.toml` | sync, resume, cleanup | nothing deleted that was not imported; no run forgotten; every run dealt with |
| Worker supervision | `run.rs`, `runner.rs` | worker process, last poll, progress count | poll, start, judge the worker's exit | every drive ends |
| Cleanup | `cleanup.rs`, `purgery-core/src/cleanup_state.rs` | cleanup file (the ledger), local tree | capture, confirm, delete files, delete directories | only what was delivered and has not changed since |
| Split matching | `split.rs` | none | match, prune, layout; filter rules | roots disjoint, layout kept, exactly what is selected goes |
| Passthrough, classification | `classify.rs`, `run.rs` | none | classify, list, direct rsync | as split and cleanup |
| Versions and formats | `purgery-core/src/{version,config,manifest,status,transform}.rs` | none | parse, compare | all readers of a file agree; foreign state is told from broken state |
| Remote runner | `purgery-client/src/runner.rs` | child, pipes, drainers | spawn, wait, kill, classify | an answer is whole and is taken for what it is; every command ends |
| Command lines | `main.rs` of both | none | parse, discover configuration, print | the server hears what the client meant; refusals arrive as such |

How they interact: the client calls the server's operations over ssh; the
server's invocations interact through the work directory only, by `rename(2)`
between phases, by files renamed into place, and by `flock` on a lock file that
moves with the directory it is in. The transform is a child of the processor and
shares the destination with everything else on the machine. The client's
invocations interact through its state directory, and with the user through the
source tree.

What is hard: a lock file that is opened, moved and then locked; crashes between
any two file operations, with locks released and children still running; errors
of single operations in sequences whose handlers are sequences as well; replay
on a destination the first attempt has changed; state that other versions wrote,
read by a dozen readers; checks that are stale when acted upon (phases, leases,
lock probes, file identities, configurations); a collector that deletes beneath
all the others; retries after lost answers; processes that outlive their
parents. `PROJECT.json` lists each as a hazard at its line.

## The modules

| Modules | Model |
|---|---|
| `Destination`, `WorkDir`, `Processor`, `RunLifecycle` | the processors of the server, and what they promise of a queued run |
| `Intake`, `Collector`, `RunState`, `PurgeryServer`, `ServerContract` | the other handlers; all of the server together; what a client may rely on |
| `Supervision`, `Cleanup`, `ClientRun` (`Operations`) | the drive loop, the ledger, and the client that composes them, against `ServerContract` |
| `Import` | one sync from end to end, by what its parties read and when |
| `Envelopes` | who reads which durable file how |
| `RemoteCall`, `ChildProcess` | a command as text, and the process it is sent through |
| `Split` | `--split` in both modes |
| `MC...` | instances for TLC |
| `ProcessorProofs` | theorems about the processors |
| `ServerProofs` | theorems about the server as a whole |
| `ClientProofs` | theorems about the client |
| `EnvelopeProofs`, `RemoteProofs`, `ImportProofs` | theorems about the files' readers, a remote command, and a sync from end to end |
| `SplitProofs`, `TextLemmas` | theorems about `--split`, and the lemmas on texts and recursive functions they and `RemoteProofs` rest on |

Definitions that no other uses and that stand right before a definition with a
similar name (`ClaimMoveUnlocks` before `ClaimMove`) are deliberate faults:
replacing the second by the first shows that the property they belong to would
notice. `PROJECT.json` lists them as mutants.

### Server

**`WorkDir`** is the shared state. `fs[r][ph]` is the directory of run `r` under
phase `ph`, a record of what the code can tell apart (`exists`, the kind of its
lease, inputs and status, whether the staged entry is there, its plan, its lock
file); `owner[i]` is who holds flock on lock file `i`. A lock file has an
identity of its own: `Rename` carries it along, and a descriptor (`fd`) stays
with the file wherever it goes, as in the kernel.

**`Destination`** is `resolve_destination`: whether an entry replaces the
destination or goes below it, and what is refused.

**`Processor`** has the invocations of `process-run` and `process-once`. A step
is one access to the shared state; `pc[p]` names the next one, in the order of
the code:

| Steps | Code |
|---|---|
| `StartProcessRun`, `StartProcessOnce`, `ListReady`, `NextRecovery`, `NextClaim`, `EndProcessOnce` | `process_run_inner`, `process_once_raw` |
| `Claim`, `ReadReadyInputs`, `ClaimMove` | `claim_ready_run` |
| `OpenLock`, `Flock` | `try_lock_existing_dir` |
| `Recheck`, `FallThrough` | `recheck_state`, the tail of `process_run_inner` |
| `PublishMalformed`, `MoveMalformed` | `handle_malformed_ready` |
| `Recover`, `RecoverStatus` | `recover_processing_run_if_unlocked`, `recover_or_process_processing_run` |
| `StartImport`, `CreateWork`, `CheckStaged`, `LoadPlan`, `Spawn` | `process_processing_run`, `process_manifest_entry`, `load_or_resolve_destination_plan`, `prepare_work_entry` |
| `TransformSucceeds`, `TransformFails`, `WaitFails` | `apply_transform_for_target_with_heartbeat` |
| `PublishStatus`, `Finalize`, `Prune`, `Unlock` | `process_processing_run`, `finalize_processing_run` |
| `HandleError`, `PublishFailure`, `MoveFailure`, `MoveToFailed` | the error handlers, `write_run_failure`, `move_to_failed` |
| `Reply`, `Observe` | `terminal_response`, `verified_terminal_status` |
| `Crash`, `TransformWrites`, `OrphanExits`, `ProbeLock`, `EndProbe` | the world: death of a process, a transform at work, a transform whose processor died, a lock probe |

Every file operation has the outcomes `Works(ok)` and `Fails(ok)`: it works if
its precondition holds and nothing goes wrong, and fails if the precondition
does not hold or an I/O error happens.

**`RunLifecycle`** is what the processors implement: a queued run ends at most
once, with an outcome that never changes, as `done` only after an import.

**`Intake`** adds the handlers `begin-run` (`BeginCreate`, `BeginLease`),
`prepare-run`, `heartbeat-run` (`HeartbeatRead`, `HeartbeatWrite`) and
`finish-run` (`FinishLook`, `FinishLease`, `FinishMove`), each in a caller's
slot and one step per access, and the client's side of the upload. A client may
lose the connection to a handler that goes on working, call `finish-run` again,
or give up: it does when it hears nothing of `begin-run` or `prepare-run`, and
does not for a heartbeat.

**`Collector`** is a GC pass: it lists a phase, decides per directory from age,
lease, status and a probe of the lock, and deletes in steps of its own, item by
item through the directory it opened (`GcOpen`, `GcRemove`) and the emptied
directory by path (`GcRmdir`). `Prune` of a done run likewise removes a part and
may fail. An error ends the pass. Time is not counted: what is young may become
older than its retention at any moment (`LeaseLapses`, `DirAges`,
`StatusAges`), and changes to a directory make it young again.

**`RunState`** is a call of `run-state`, which looks at the phases one after the
other; `truths` collects what was the case while it looked.

**`PurgeryServer`** composes all of them on one work directory.
**`ServerContract`** is the promise: a run moves forward, ends as `done` only
after an import, keeps its outcome, and does not come back once collected. It is
the server the client modules talk to. `PurgeryServer` implements it as long as
no run has two holders at once, and so without a collector, or with one beside a
single processor (proved). With two processors and a collector it does not: a
collection that deletes a lock file under its holder (`DocGcUnderHolder`) lets
the second processor make a new one, recover the run and move it to `failed/`,
where the first one's `create_dir_all` brings `processing/` back.

### Client

**`Supervision`** is `drive_server_until_terminal`: a poll, the read of the
status or a lock probe behind it, the decision to spawn `process-run`, its exit
and the judgement of it by a fresh look. Answers may be lost, workers' processes
may outlive the connection, and other processors and the collector work beside
it. `NoProgressTracker` counts identical observations only and starts again when
one differs; here the count only grows, so that the model gives up no later than
the code.

**`Cleanup`** is the ledger: `Capture` before anything is sent, `Confirm`,
`TryClean` (compare, then `Unlink` by path as a step of its own, then `Mark`),
the directory last. The user writes, removes and adds files at any moment.

**`ClientRun`** is the invocation: it works off ledgers and resumes persisted
runs, refuses new work if a run cannot be settled, and does its own operation,
with `state` for `state.toml`. It may be killed between any two steps.

### End to end

**`Import`** follows one source entry from `normalize_source` over the manifest,
ledger and upload to the processor's verification, the transform and the check
of its outputs, while the user changes the source, an administrator edits the
configuration or installs and removes programs, others touch the destination
and processors die and leave their program running. Locks, publication and the
drive are elsewhere; here a run has one processor at a time.

**`Envelopes`** has each durable file as a value with version, owner, protocol
and shape, and every reader of the code as an operator with its own order of
checks; the handlers that decide from them run one at a time.

**`RemoteCall`** is a command as text: the choice and clean-up of a nickname,
shell escaping and the remote shell's splitting, the server's discovery of its
configuration, its validation and error envelopes, and the client's
classification of exit code and output. **`ChildProcess`** is the process that
carries it, with pipes of bounded capacity, drainers whose reads may fail, `try_wait`, `wait_timeout`
and kill, and descendants that keep the pipes open.

**`Split`** has the matcher of `split.rs` with its loops as recursive functions
over the positions of a pattern, discovery and pruning of roots, the destination
operand of each root, and, for a sync without deletion or transform, the filter
rules and one rsync. `Means` and `Selected` state what a pattern means: each
star is any text, one `*` without slashes, and `**/` may be left out.

## Runs

| Run | Instance | Shows |
|---|---|---|
| `ProcessorSafety` | `process-run` and `process-once` on one run found in any of 15 conditions, a lock probe, 2 crashes, 2 I/O errors | types; one holder of a run (`MutualExclusion`); a terminal run has the right status and is nowhere else (`TerminalPublished`); no import after publication (`NoReplayAfterPublication`); `done` only after an import (`DoneMeansImported`); one placement for all attempts (`OneTarget`); answers stay true (`AnswersStayTrue`); foreign state stays (`ForeignUntouched`); `RunLifecycle` is implemented (`ImplementsLifecycle`) |
| `ProcessorProgress` | fair; one run contended by both, with a crash and an I/O error, or two runs that `process-once` alone works through, one of them hindered, with one fault | runs this version understands end (`QueuedRunsEnd`); no invocation hangs (`InvocationsEnd`) |
| `ServerSafety` | two callers, a retry, a heartbeat and a processor on an upload; or `run-state` beside processor and collector on a run left in `ready/` | accepted runs are whole (`FinishedRunsWhole`); retries agree (`RetriesAgree`); `run-state` tells the truth (`AnswerWasTrue`) |
| `ServerGc` | fair; the collector and the clock beside an upload, or beside a processor with a crash on a run left in `ready/` or `processing/` | the contract is kept (`ImplementsContract`); verdicts stay observable (`VerdictObservable`); everything goes (`EverythingCollected`) |
| `ClientSafety` | a transform sync and a direct one, two files, a crash, a fault, a write | nothing lost (`NothingLost`), nothing forgotten (`NothingForgotten`), no persisted run without its ledger (`SeenHasLedger`) |
| `ClientProgress` | fair; one sync, one file, a crash, a fault, a write | drives end (`DrivesEnd`); persisted runs are resolved (`RunsResolve`); ledgers settle (`LedgersSettle`) |
| `RemoteCommand` | all short names, command lines and states of the server; a child with more output than its pipes and the kept tail hold | `CallsUnderstood`, `OutcomesAreTrue`, `AnswerIsWhole`, `CommandsEnd` |
| `Envelopes` | two arbitrary files among those of a run, or the client's two | readers agree (`StatusReadersAgree`, `LeaseReadersAgree`, `ProgressReadersAgree`); what is prepared can be processed (`AcceptedIsProcessable`); the end of a run is readable (`EndsReadable`); foreign files stay in a mixture of files none of which is broken (`ForeignLeftInPlace`) |
| `Split` | every tree below 8 nodes, 22 patterns, 4 operands, both modes, one failed sync, two changes | `RootsDisjoint`, `LayoutKept`, `OnlySelectedGo`, `NothingSelectedStays` |
| `Import` | 8 configurations, every kind of source, two events of writes, edits, meddling and crashes | only what was listed is worked on (`WorkedAsListed`); imported entries have their outputs (`ImportedHasOutputs`); a refusal has a cause in the world (`RefusalsHaveCauses`) |
| `DocGcUnderHolder` | the smallest that shows it | GC deletes a processing run under a process that has just locked it; docs/operations.md:210 says it never does |
| `DocForeign` | as `Envelopes` | a lease of another version and shape moves its run to `failed/`; docs/protocol.md:401 forbids it |

### Bounds, and why they are enough

*Processors.* One run is enough where a property is about one run: runs share
nothing but the processors' attention, which the second scenario of
`ProcessorProgress` is about. Two crashes allow a crash of the recovery from a
crash; two I/O errors the failure of the handler of a failure. One lock file per
run is enough as a lock file is never removed while its run is queued
(`OneLockFile`, proved); with the collector there are two. The destination is
missing at first, the one case in which an attempt changes what a later plan
would be. A third processor at the lock is covered by the proof.

*Server.* Two callers are a call and its retry. One heartbeat (`MaxBeats`) is
enough to renew a lease after it was read. `MaxStarts` is one: a processor that
meets one that died is in `ProcessorSafety`. `EitherInit` and `ApartInit` keep
scenarios apart that share no race: the collector against an upload or against a
processor (a run being uploaded is not seen by a processor before it is in
`ready/`, where the second scenario starts); retries against a processor, and
questions against processor and collector. One `run-state` call is asked, as it
writes nothing but the lock it probes. All retentions are one `aged` flag per
directory: which is longer is not compared by any code. `ServerSafety` may end,
as no handler need be called again; so it does not ask for progress.

*Client.* One client slot, since nothing in the code keeps two invocations apart
that share a state directory: `SeenHasLedger` holds for one invocation at a time
only, whereas `NothingLost` and `NothingForgotten` are proved for any number. The
second operation of `ClientSafety` is the one an earlier ledger or run stands in
the way of. One crash, one fault
and one write of the user, at any moment; the server's own faults are in
`ServerContract`. A direct operation and a transform one differ in what gives
the authority to delete.

*Commands.* Names of up to 3 characters over a letter, the three characters the
code treats apart and three the shell does; the sanitizer's cases are runs of
these at the start, in the middle and at the end. The pipe holds one chunk, two
are kept, four are written. Call and child process share no state and are
checked in turn. Both end, so that deadlock is not checked.

*Envelopes.* Six versions: this one, other patch, minor and major, and two
strings that are none. No handler depends on more than two files being unusual
at once. *Split.* Names of one and two characters on three levels, patterns of
every documented form; both the call again after a failure and the change of the
tree between two calls happen. A command ends, so that deadlock is not checked.
*Import.* Two events in all, two of them writes at most: a file that changes
back needs two. The sync ends, so that deadlock is not checked.

### Fairness

*Processors:* weak fairness of each processor's `Step` (a process that runs goes
on, and its transform ends, with some result), of starting `process-once` (the
operator runs it from a timer, as docs/operations.md asks) and of the end of a
lock probe. *Server:* weak fairness of each process's own step, of starting a
collection (each sync and each `process-once` does) and of time passing.
*Client:* weak fairness of the invocation going on, or being started again, of
its worker's and of other processors' work on a run. *Child process:* weak
fairness of the child's work and exit, of the drainers and of the wait; a
descendant need never exit, and `CommandsEnd` is only claimed if it does. No
fault is fair, nor is any action of a user, and no strong fairness is assumed.
`Split`, `Import`, `Envelopes` and `RemoteCall` have none.

### What the properties leave out

- `TerminalPublished`, `NoReplayAfterPublication` and `ForeignUntouched` are
  about executions without I/O errors, crashes included. With them the code
  really lets a run end in `failed/` without a status (`move_to_failed` after a
  failed publication), or takes a failed read for malformed input.
- `ForeignUntouched` calls a directory foreign as the processor does: by its
  lease, then its status, then its inputs, and not if the lease is no lease.
- `VerdictObservable` exempts a collection that was at the run before it ended,
  and a status that does not belong in its phase: after an I/O error
  `move_to_failed` can leave "done" in `failed/`, which the collector judges by
  the age of the directory. `RetriesAgree` and `FinishedRunsWhole` exempt a run
  the collector has opened.
- `NothingLost` exempts what the user writes between the comparison and
  `remove_file`: the code cannot close that window.
- `RunsResolve` exempts runs the server has lost or collected: there each sync
  opens with the resume, and ends in its error.
- `LedgersSettle` exempts files the user has changed or added.
- `CallsUnderstood`: a nickname given as `--nickname=-x` is valid to the client
  and an option to the server's parser, which exits with 2 and no envelope.
- `CommandsEnd`: `try_wait` joins the drainers on the assumption that "both pipes
  have EOF'd" (runner.rs:196); a descendant that keeps them open blocks it,
  whatever the deadline of the caller.
- `ForeignLeftInPlace` is about any mixture of files of this and other versions
  of which none is broken (garbled, missing an input, of this version but of
  another run or shape), and not about the lease (`DocForeign`). A run that a
  status of its own has ended may be moved as that says.
- `AnswerIsWhole`: after a failed read of a pipe (`Err(_) => break`,
  runner.rs:167) the drainer gives up what it has, and a command that ends with 0
  is a `Success` with its text cut short, which nothing tells the caller. The
  property only says then that the text is an unbroken stretch from the output,
  the end of a beginning of it. Exits whose output is only shown to the user (a
  lost connection, a signal) are not in it.
- The selection properties of `Split` are about `Plain` patterns: no component is
  empty, at most one `**`, which is a component by itself, no star right before a
  `/` in front of it, and not `**/`. Beyond them the code differs from what the
  documentation's words suggest. Where roots are looked for, `**/b/**`, `*/**/b`
  and `*/**` match nothing (docs/operations.md:104: "`**` matches across
  directory boundaries"), `a**b` does not match inside a component, `x/a**a/c` can match
  `x/a/c`. Where rules are made, `**/` also takes the files at the top, and `a//`
  takes everything below `a` although the matcher selects nothing.
- In the filter mode the reference is the pattern as a rule of rsync: a pattern
  with a slash that is not anchored is matched against the tail of a path there
  (`a/b` takes `x/a/b`), unlike in the other mode, and `a/**/a` does not match
  `a/a`.
- The exception in `LayoutKept`, that the source itself may be placed below the
  operand under its own name, is asked of the client's matcher, not of `Selected`.
- `ImportedHasOutputs` asks for the presence of outputs, as docs/protocol.md:189
  and docs/design/import-semantics.md:46 do: a stale file of an earlier time at
  the place counts. A file name `...a` has the stem `..`, so that
  `{file_stem}` may climb.
- The identity of a symlink in a ledger is its target: a link that is replaced
  by another and then by one with the first target passes for unchanged.

### Other disagreements with the documentation

Seen while modelling; not all have a run of their own.

- A worker's `already_active` ends the client's sync in an error if the next
  `run-state` does not find the run active (run.rs:797), and `claim_in_progress`
  does if the run, still in `ready/`, looks three times in a row as it did the
  time before (`NoProgressTracker`, run.rs:663);
  docs/operations.md:77: "A busy lock is normal concurrency, not an error." The
  answer may come from a mere probe by `run-state` or GC.
- `processor.lock` stays in a terminal directory when the prune fails, and
  `destination-plan.toml` always stays in `done/`; docs/operations.md:77 and :212
  say otherwise.
- A transform that outlived a crashed processor runs beside the one recovery
  starts.
- Readers that deserialize before they look at the version (`try_read_status`,
  `read_run_status`, `read_progress_fields`) call a file of another version and
  shape malformed: `run-state` answers `corrupt`.
- A malformed lease beside a foreign status has the status overwritten; a
  garbled `run.toml` beside a foreign manifest has the run moved to `failed/`; a
  foreign run in `ready/` is collected after `ready_retention_secs`, not after
  the orphan retention (docs/operations.md:212). `write_progress` keeps a foreign
  `progress.toml`. `destination-plan.toml` carries no version at all.
- The contents of a staged directory are not compared with the manifest, which
  lists one entry.

## Proofs

TLAPS proves the following for every value of the constants. The assumptions on
constants only say that bounds are numbers, that sets that are chosen from are
not empty, that collectors and callers of `run-state` are among the observers of
locks, and that names that stand for different things differ
(`NamesAssumption`); `RemoteCallAssumption` says so of letters and separators;
`SplitAssumption` that the tree is finite, parents are directories, names are not
empty, not `.` and without slashes, bracket expressions do not match a slash, and
patterns are cut into tokens with the longest star first, none of which is the
`***` that only the rules of rsync have; `ProcessorAssumption`
also says that arrivals are
directories an upload or an earlier version can leave, `DirectAssumption` that
direct operations are operations, `CurrentAssumption` that this program's version
has its three parts, and `ImportAssumption` what a configuration is.

| Module | Theorem | Statement |
|---|---|---|
| `ProcessorProofs` | `TypeCorrect` | `Spec => []TypeOK` |
| | `RunsAreExclusive` | `Spec => []MutualExclusion` |
| | `DoneIsImported` | `Spec => []DoneMeansImported` |
| | `PlansAreKept` | `Spec => []OneTarget` |
| | `LifecycleKept` | `Spec => ImplementsLifecycle` |
| | `AnswersHold` | `Spec => []AnswersStayTrue` |
| | `TerminalIsPublished` | `Spec => []TerminalPublished` |
| | `NothingIsReplayed` | `Spec => []NoReplayAfterPublication` |
| | `ForeignStays` | `Spec => ForeignUntouched` |
| `ServerProofs` | `ServerTypesCorrect`, `ServerFactsHold` | `ServerSpec => []ServerTypeOK`, `[]ServerFacts` |
| | `AcceptedIsWhole` | `ServerSpec => []FinishedRunsWhole` |
| | `RetriesDoAgree` | `ServerSpec => RetriesAgree` |
| | `DoneIsImportedOnServer` | `ServerSpec => []DoneMeansImported` |
| | `ContractUnderLock` | `ServerSpec /\ []MutualExclusion => ImplementsContract` |
| | `AnswersWereTrue` | `ServerSpec /\ []MutualExclusion => AnswerWasTrue` |
| | `VerdictsAreObservable` | `ServerSpec /\ []MutualExclusion => VerdictObservable` |
| | `ExclusiveOnServer` | `ServerSpec => []MutualExclusion`, without a collector |
| | `ContractKept`, `ReadersAreServed` | the three before it by `ServerSpec` alone, without a collector or with at most one processor |
| `ClientProofs` | `ClientTypesCorrect` | `ClientSpec => []ClientTypeOK` |
| | `NothingIsForgotten` | `ClientSpec => []NothingForgotten` |
| | `NothingIsLost` | `ClientSpec => NothingLost` |
| | `SeenKeepsLedger` | `ClientSpec => []SeenHasLedger`, for one invocation at a time |
| `EnvelopeProofs` | `EnvelopeTypesCorrect` | `Spec => []TypeOK` |
| | `StatusesAreOne`, `LeasesAreOne`, `ProgressIsOne` | `Spec => []StatusReadersAgree`, `[]LeaseReadersAgree`, `[]ProgressReadersAgree` |
| | `AcceptedIsTaken` | `Spec => []AcceptedIsProcessable` |
| | `EndsAreReadable` | `Spec => EndsReadable` |
| | `ForeignFilesStay` | `Spec => ForeignLeftInPlace`, and from any files at all: `TypeOK /\ [][Next]_vars => ForeignLeftInPlace` |
| `RemoteProofs` | `ChildTypesCorrect` | `Spec => []ChildTypeOK` |
| | `AnswersAreWhole` | `Spec => []AnswerIsWhole` |
| | `OutcomesHold` | `RemoteSpec => []OutcomesAreTrue` |
| | `CommandsUnderstood` | `RemoteSpec => []CallsUnderstood` |
| `ImportProofs` | `ImportTypesCorrect` | `Spec => []ImportTypeOK` |
| | `WorkIsListed` | `Spec => []WorkedAsListed` |
| | `ImportsHaveOutputs` | `Spec => []ImportedHasOutputs` |
| | `RefusalsAreCaused` | `Spec => []RefusalsHaveCauses` |
| `SplitProofs` | `RootsAreDisjoint` | `Spec => []RootsDisjoint` |
| | `LayoutIsKept` | `Spec => []LayoutKept` |
| | `MatcherFindsTheMeant` | for a plain pattern, `IsMatch(p, n) <=> Selected(p, n)` |
| | `FiltersTakeTheMatched` | for a plain pattern, the rules made from it take the files it matches as a rule, and those below a directory it matches |
| | `OnlySelectedIsSent` | `Spec => []OnlySelectedGo` |
| | `SelectedDoesNotStay` | `Spec => []NothingSelectedStays` |

The runs check the same properties on their instances. The inductive invariants
stand at the end of the modules they are about, or, for the client, in
`ClientProofs`.

### Processors

*Mutual exclusion* is not inductive: two processors may have different files
open for all it says. `LockInv` adds what the lock protocol rests on. A missing
directory is empty (`AbsentEmpty`); a descriptor is open exactly between open and
the last step, and after flock its owner is the process (`DescriptorsOpen`); all
who have a run's lock open have the *same* file open, and it is the lock file of
the queued directory (`OneLockFile`); and a run is queued in one phase, and in
`processing/` while it is imported (`QueuedOnce`). The third is the point of the
argument: a lock file is created only when no file is there, and removed only
from a terminal directory, by its holder. That also answers the worry about a
lock taken on a file that has moved since it was opened: it is still the file
every other opener has. The collector breaks exactly this (`DocGcUnderHolder`).

*Done means imported* needs `ImportInv`: whoever is about to publish or move with
`out = "done"` has imported. *One target* needs `PlanInv`: a queued run keeps the
plan of all transforms that were started for it, so that only a run without
transforms is planned; that the directory does not change between planning and
spawning is `LockInv` again.

*The refinement* maps `outcome` to what `verified_terminal_status` finds. A step
either moves no run, and then no outcome changes (`OutcomeStays`: statuses are
written in `ready/` and `processing/` only, and what is done in a terminal
directory keeps its status), or moves one run out of a queue phase, and then its
outcome was `queued` since it was in no other phase (`OnePhase`), and is `done`
only after an import (`OutcomeMoves`).

*Answers stay true* by `AnswersInv`: what a `process-run` has answered of the end
of a run is the run's outcome; it answers from a terminal directory only, and
outcomes do not change. *Terminal runs are
published* and *nothing is replayed* are about executions without I/O errors and
rest on `PublishedInv`: what a process knows at each step of its run's directory
(`Sound`), that a status in `ready/` is that of a malformed run (`ReadySound`), and
that what is terminal has the status that belongs there (`TerminalSound`). A crash
leaves a status in `processing/` at most, and `Sound` says that it is the one to be
finalized before anything is imported. `Sound` also says that a processor past the
checks of an import is not at a foreign run, which is the essence of *foreign runs
stay*.

The proofs do not repeat the list of actions for every conjunct. `ProcessorProofs`
first sorts the actions by what they do to the directory (`FsEffect`,
`DirEffect`) and to the locks (`LockEffect`), one step per action; the
invariants are then shown to survive each effect.

### Server

`ServerFacts` is the types and `ServerInv`: which calls can be under way for what
stage of a client (`CallsInv`), that nothing is in a phase past `incoming/` or in
a processor's hands that has not been accepted (`AcceptedInv`), that the
collector removes only what it has opened (`DeletesInv`), that what a client has
brought about is there (`UploadInv`), and that a repeated `finish-run` that is
heard still has the run before it (`RetryInv`), for runs move in the order in
which `finish_run` looks at the phases. The middle ones are what makes *accepted
runs whole*, the last one what makes *retries agree*. Processor steps enter by
what they do to directories that have been accepted.

*Done means imported* holds with the collector as well, and without any lock
(`DeliveredInv`): what a process needs is what it did itself.

*The contract* is proved in two parts. `StepKinds` sorts every step of the server:
it leaves the runs alone, is a step of a processor, or changes the directory of one
run in one of five ways (`Keeps`, `Strips`, `Removes`, `Arrives`, `Readies`).
`PlacesInv`, that a run is in one phase, is out of `incoming/` once accepted, and
is nowhere but in `processing/` while it is imported, survives each as long as
the run has one holder; and with one phase there is one place (`PlacedLemma`), so
that each kind is a step of the contract or none (`ChangesRefine`,
`ProcRefines`). The hypothesis `[]MutualExclusion` is one about behaviours, and
needed: the collector beside two processors violates both it and the contract
(above). Without a collector it is a theorem (`ExclusiveOnServer`): `LockInv`
survives the handlers, which touch no lock file, and `run-state`, which opens
one that is there. With a single processor it is trivial.

*What `run-state` answers* needs to know about a call that it passed phases in vain
(`AsksInv`): the run has not entered since what was looked at, because runs move
the way `run-state` looks (`MovesOn`), or was nowhere at a moment of the call; and
a status that is found missing has gone before its directory. *A verdict stays
observable* by `PassesInv`: a pass that deletes in a terminal phase is in the last
directory of a run that has ended with an old status, and what has ended there
stays ended (`EndedStays`), which is the contract again.

### Client

`ClientInv` holds of any number of invocations on one state directory.
*Nothing is forgotten* by `KeptInv`: `finish-run` is sent of persisted runs only.
*Nothing is lost* by `VouchedInv`: a version in a ledger is the one that was sent,
or is not in the source any more and does not come back, since what the user writes
is new (`VersionsInv`); a ledger is confirmed only after the delivery (`DoneInv`);
and what is removed was seen as it was captured (`TidyInv`). *A run that was seen
keeps its ledger* by `LedgerInv`, with one invocation at a time: of two (TLC finds
this) one can retire the ledger of the run the other is at.

### Files, commands, imports

*Envelopes:* what a form says of a version (`VersionLemma`) decides what each
reader does; and every handler ends a run for a reason, collects it, or leaves it
(`HandlerLemma`). *Child process:* `StreamInv` says that pipe and kept tail hold
successive pieces of what was written, `OutputInv` that a child exits by itself only
when it has written all or a drainer failed, and `JoinInv` that an answer is given
only after both drainers have seen the end or failed. *Remote call:* `CallInv` ties what is on the wire to
what the server did. That *calls are understood* is about every text: the remote
shell is a fold over the characters of the command line, and `ReadingConcat` says
that it reads one piece after the other. So a word that was escaped is read back
as it was (`EscapedIsRead`), blanks between words end them (`EscapesRead`,
`CommandIsUnderstood`), whatever else the names contain; `WordsInv` follows the
words from the client's arguments to the server's validation and to the path that
is written. What the sanitizer leaves of a host name is a valid nickname
(`AutoNicknameGood`). *Import:* what a program works on is what was staged and
verified (`WorkInv`), outputs that were found stay unless others take them away
(`OutputInv`), and what was accepted stays acceptable until the setup
(`SetupInv`) or the source (`SourceInv`) changes.

### Split

The pieces of a text between separators, and the names of a path, are recursive
functions; `PiecesConcat` says what becomes of them when texts are put together,
and with it the path of an operand with its suffix is the path of the operand
followed by the parent of the root, whatever slashes and dots the user has typed
(`PathOf`). What `resolve_destination` makes of the intent those characters carry
then decides between the two places `LayoutKept` allows.

*The matcher* treats what is before and what is behind a `**` apart, and tries
the second only at some places. The reference, `Means`, tries everything (`Leads`:
from where in a text a pattern leads to where), with the pattern and with the
pattern without its `**/` (`Readings`). Without a `**` the two agree (`GlobsLead`).
What is before a `**` ends in a slash, of which a plain pattern can reach one only
(`OneEnd`), and `first_match_len` finds it though it takes the leftmost choice for
each star (`FirstMatchLeads`); the starts it then tries are all places behind a
slash from there on (`SuffixStartsAre`, `DeepMatches`). *The filter rules* are the
pattern and those for what is in a directory it matches. A rule takes the paths it
reaches the end of (`Reaches`, `RuleReaches`); those take a file if the
first reaches a slash of its path (`InsideLeads`, `PayloadTakes`), and what is in
front of a slash is a directory of the tree that the first one takes (`AboveIs`).

`SplitInv` has the queue hold matches, none below another; while the roots are
synced and as long as the user has changed nothing, every match still in the tree
is below a root in the queue (`MatchesQueued`). So when the queue is empty none
is left; and a sync takes what is below a match only. `NothingSelectedStays` is
not inductive without it, as it speaks of the end only.

### How the proofs are made

*Induction over data* is not done with the library's induction theorems, which
take an operator as a parameter. A set of texts that contains the empty one and
`Cons(t, u)` with each `u` contains all (`ByHead` in `TextLemmas`, from the least
length that is missing), and a recursive function over positions exists and is
unique by the same argument on its domain.

*What the provers were given.* The SMT translation of this prover says of
functions that `DOMAIN s = 1..n` whenever `Len(s) = n`, also of those that are no
sequences, which is too much for a function on `0..n`. All proofs were therefore
also run, from nothing, with that axiom weakened to sequences; none depends on
the rest of it.

### Model-checked only

The liveness properties: TLAPS does not reason about `ENABLED`, and so not about
fairness. The two violations of the documentation. Every other property of a
passing run is a theorem.

## Plan

What is left to prove: what the contract keeps with the collector beside several
processors, which is less than `ServerContract`; and what the matcher makes of
patterns that are not `Plain`, for which the code has no reference to agree with.

## Not modelled

- *Processors:* the steps inside an atomic step. A status or plan is written
  beside its place and renamed, so that a reader sees all or nothing. The GC pass
  at the start of `process-once` is the collector's. Two runs with one
  destination.
- *Server:* `collect_unknown` (names that are no run ids), the defaults of the
  retentions, directories that bootstrap makes, validation of the fields of
  `progress.toml`, clock skew.
- *Client:* a crash right between `finish-run` and the persisted phase after it
  is not told from an accepted `finish-run` whose answer is lost, which happens.
  Two invocations with one state directory, which no lock keeps apart, are in
  no run; what is proved of them is above. A source has one level of files in
  `Cleanup`. Confirmation takes all entries or none, since a run has one entry.
  The identity of a file is a version no two writes share: size, mtime and digest
  together.
- *Commands:* `gc`, `check` and the operators' other printing, clap's syntax,
  logging; `parse_destination` splits at the last colon, so that a path with a
  colon is taken apart in the wrong place; `RemoteRunner::Fake`, which the tests
  use.
- *Envelopes:* handlers at once, and the text syntax of TOML; the age of a file
  is one flag.
- *Split:* a source that is a single file. The sync of a root is one step here
  (`ClientRun` has its steps). A name that spells the pattern itself, brackets
  included, which `simple_glob` takes before it looks at tokens.
  Bracket expressions are single tokens. Unreadable directories, which `WalkDir`
  skips silently. Names with characters of more than one byte: the matcher slices
  strings by bytes and panics there. Patterns that begin with `- `, `+ ` or `!`,
  which rsync reads as its own syntax. rsync's matching, `--mkpath` and
  `--prune-empty-dirs` are external and modelled from their use: a transfer
  happens or does not, and directories are recorded by the files in them.
- *Import:* programs write only what their definition names. Leases, locks and
  the terminal move, which are elsewhere.
- Contents and digests beyond equality, messages, ssh itself.
