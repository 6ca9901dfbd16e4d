------------------------------- MODULE Import -------------------------------
(***************************************************************************)
(* One transform sync from end to end, by what its parties read and when:  *)
(* the client describes the source entry in a manifest before it sends it  *)
(* (classify.rs, run.rs), every server command loads the configuration     *)
(* anew (config.rs, server lib.rs), and the processor compares what was    *)
(* staged with the manifest, hands it to the configured program and looks  *)
(* for the outputs it expects (process.rs, server and core transform.rs).  *)
(* Meanwhile the user changes the source, an administrator edits the       *)
(* configuration, others touch the destination and processors crash.       *)
(*                                                                         *)
(* Locks, publication and the drive of the client are the subject of       *)
(* Processor, Supervision and ClientRun: here a run has one processor at a *)
(* time, and its terminal move is one step.                                *)
(***************************************************************************)
EXTENDS Naturals, SequencesExt, Destination

CONSTANTS
    Configs,        \* texts the server's configuration file may have
    Tool,           \* the transform the client asks for
    Programs,       \* programs on the server's PATH when it is set up
    EntryName,      \* the source's name, in parts: the last is the extension
    Intent,         \* of the destination operand
    MaxWrites,      \* bound: changes of the source by the user
    MaxEdits,       \* bound: changes of the server's setup
    MaxMeddling,    \* bound: changes at the destination by others
    MaxCrashes,     \* bound: processors that die
    MaxEvents       \* bound: all of these together

ASSUME ImportAssumption ==
    /\ Intent \in Intents /\ EntryName \in Seq(STRING) \ {<<>>}
    /\ Configs # {}
    /\ \A text \in Configs : \A def \in ToSet(text.transforms) : def.expected \in Seq(Seq(STRING))
    /\ MaxWrites \in Nat /\ MaxEdits \in Nat /\ MaxMeddling \in Nat /\ MaxCrashes \in Nat
    /\ MaxEvents \in Nat

VARIABLES
    source,     \* what is at the source path
    client,     \* the client's step and what it remembers
    config,     \* the text of the server's configuration file
    installed,  \* programs on the server's PATH
    there,      \* what is at the destination when a plan is made
    outputs,    \* output paths that exist at the destination, and as what
    run,        \* the run's directory on the server
    worker,     \* the processor at work on the run
    spawned,    \* programs running, with or without their processor
    counts,     \* of the bounded events
    ghost       \* what happened behind the parties' backs

vars == <<source, client, config, installed, there, outputs, run, worker, spawned, counts, ghost>>

(***************************************************************************)
(* Source entries.  "one" and "two" have one size; "torn" is what a        *)
(* transfer makes of one changing into the other.                          *)
(***************************************************************************)
Files == {"empty", "one", "two"}
Links == {"to_a", "to_b"}
Objects == Files \cup Links \cup {"directory"}
Absent == "absent"
Staged == Objects \cup {"torn"}

Kind(o) ==
    CASE o = "directory" -> "directory"
      [] o \in Links -> "symlink"
      [] o \in Files \cup {"torn"} -> "regular_file"

Size(o) == IF o \in {"one", "two", "torn"} THEN 1 ELSE 0

None == "none"

\* ManifestEntry, as far as the source decides it.
Manifests == [kind : EntryKinds, size : 0..1, sha256 : Staged \cup {None},
              link_target : Links \cup {None}]
NoManifest == [kind |-> "directory", size |-> 0, sha256 |-> None, link_target |-> None]

\* build_manifest: the kind is what normalize_source saw, the rest is read now.
BuildManifest(kind, o) ==
    [kind |-> kind, size |-> Size(o),
     sha256 |-> IF o \in Files THEN o ELSE None,
     link_target |-> IF o \in Links THEN o ELSE None]

\* Manifest::from_toml: fields that do not go with the kind.
ManifestSound(m) ==
    CASE m.kind = "directory" -> m.size = 0 /\ m.sha256 = None /\ m.link_target = None
      [] m.kind = "regular_file" -> m.link_target = None
      [] m.kind = "symlink" -> m.link_target # None /\ m.size = 0 /\ m.sha256 = None

\* Mutant: the digest is not computed again.
VerifiedBySize(m, o) ==
    /\ Kind(o) = m.kind
    /\ m.kind = "regular_file" => Size(o) = m.size
    /\ m.kind = "symlink" => o = m.link_target

\* process_manifest_entry and verify_staged: what was staged against the manifest.
Verified(m, o) ==
    /\ Kind(o) = m.kind
    /\ m.kind = "regular_file" => Size(o) = m.size /\ m.sha256 \in {None, o}
    /\ m.kind = "symlink" => o = m.link_target

(***************************************************************************)
(* The configuration: transform definitions in the order of the file, and  *)
(* the lease's two periods.  A pattern is a sequence of texts and braces.  *)
(***************************************************************************)
\* validate_expected_output_name.
PatternSound(pattern) ==
    /\ pattern \notin {<<>>, <<".">>}
    /\ ".." \notin ToSet(pattern)
    /\ {"{input}", "{parent}"} \cap ToSet(pattern) = {}

\* validate_transform_definition.
DefinitionSound(def) ==
    def.program # "" /\ \A i \in DOMAIN def.expected : PatternSound(def.expected[i])

\* ServerConfig::from_toml: names are unique and every definition is sound.
Loads(text) ==
    LET defs == text.transforms IN
    /\ \A i, j \in DOMAIN defs : defs[i].name = defs[j].name => i = j
    /\ \A i \in DOMAIN defs : DefinitionSound(defs[i])

Defined(text) == {text.transforms[i].name : i \in DOMAIN text.transforms}
Definition(text, name) == CHOOSE def \in ToSet(text.transforms) : def.name = name

\* resolve_executable; Command::new looks in the same places.
Resolves(program) == program \in installed

\* server_check, before the commands that process.
Checks(text) ==
    /\ text.lease > 0 /\ text.heartbeat > 0 /\ text.heartbeat <= text.lease \div 2
    /\ \A def \in ToSet(text.transforms) : DefinitionSound(def) /\ Resolves(def.program)

\* validate_transform_run: of the entry's transform; the rest of the plan is
\* as the client always writes it.
PlanValid(text) == Tool \in Defined(text) /\ DefinitionSound(Definition(text, Tool))

(***************************************************************************)
(* Outputs.                                                                *)
(***************************************************************************)
NoPlan == [placement |-> None, directory |-> <<>>, name |-> <<>>]

\* resolve_destination on "/root/d".
PlanAt(placement) ==
    [placement |-> placement,
     directory |-> IF placement = "exact_target" THEN <<"/root">> ELSE <<"/root", "/", "d">>,
     name |-> IF placement = "exact_target" THEN <<"d">> ELSE EntryName]

Stem(name) == IF Len(name) > 1 THEN Front(name) ELSE name

\* expand_placeholders: one pass, and an unknown brace stands for itself.
Expand(pattern, plan) ==
    LET Value(token) ==
            CASE token = "{file_name}" -> EntryName
              [] token = "{file_stem}" -> Stem(EntryName)
              [] token = "{target_path}" -> plan.directory \o <<"/">> \o plan.name
              [] token = "{target_directory}" -> plan.directory
              [] token = "{target_file_name}" -> plan.name
              [] token = "{target_file_stem}" -> Stem(plan.name)
              [] OTHER -> <<token>>
    IN FlattenSeq([i \in DOMAIN pattern |-> Value(pattern[i])])

\* resolve_expected_outputs_for_target: absolute, or below the target directory.
OutputPath(pattern, plan) ==
    LET text == Expand(pattern, plan) IN
    IF Head(text) = "/root" THEN text ELSE plan.directory \o <<"/">> \o text

ExpectedOutputs(def, plan) ==
    [i \in DOMAIN def.expected |-> OutputPath(def.expected[i], plan)]

\* Without the repetitions.  Their order is left out.
Distinct(paths) == ToSet(paths)

\* Every path any definition names under a plan, and under all plans.
PathsOf(plan) ==
    UNION {UNION {ToSet(ExpectedOutputs(def, plan)) : def \in ToSet(text.transforms)} :
           text \in {t \in Configs : Loads(t)}}

Paths == UNION {PathsOf(PlanAt(placement)) : placement \in Placements}

\* What symlink_metadata finds: a file, directory or link, something else, nothing.
Findings == {"entry", "other", "nothing"}

----------------------------------------------------------------------------

ClientSteps == {"normalize", "manifest", "begin", "prepare", "upload", "sending",
                "finish", "sent", "stopped"}
Phases == {"none", "incoming", "ready", "processing", "done", "failed"}
WorkerSteps == {"off", "loaded", "claimed", "valid", "verified", "planned", "copied",
                "running", "exited"}
Causes == {None, "plan", "staged", "destination", "program", "output"}

NoConfig == CHOOSE text \in Configs : TRUE
Off == [pc |-> "off", config |-> NoConfig, work |-> Absent, checked |-> 0]

ImportTypeOK ==
    /\ source \in Objects \cup {Absent}
    /\ client \in [pc : ClientSteps, kind : EntryKinds, seen : Objects \cup {Absent}]
    /\ config \in Configs
    /\ installed \in {Programs, {}}
    /\ there \in DestinationStates
    /\ outputs \in [Paths -> Findings]
    /\ run \in [phase : Phases, manifest : Manifests, staged : Staged \cup {Absent},
               plan : {NoPlan} \cup {PlanAt(placement) : placement \in Placements},
               cause : Causes, final_paths : SUBSET Paths]
    /\ worker \in [pc : WorkerSteps, config : Configs, work : Staged \cup {Absent}, checked : Nat]
    /\ spawned \in Nat /\ (worker.pc = "running" => spawned > 0)
    /\ ghost \in [moved : BOOLEAN, edited : BOOLEAN, meddled : SUBSET Paths,
                 worked : SUBSET (Staged \cup {Absent})]

\* The manifest is written into the run by the client between begin and prepare.
Init ==
    /\ source \in Objects \cup {Absent}
    /\ client = [pc |-> "normalize", kind |-> "directory", seen |-> Absent]
    /\ config \in Configs
    /\ installed = Programs
    /\ there \in DestinationStates
    /\ outputs \in {[p \in Paths |-> "nothing"], [p \in Paths |-> "entry"]}
    /\ run = [phase |-> "none", manifest |-> NoManifest, staged |-> Absent, plan |-> NoPlan,
              cause |-> None, final_paths |-> {}]
    /\ worker = Off
    /\ spawned = 0
    /\ counts = [writes |-> 0, edits |-> 0, meddling |-> 0, crashes |-> 0]
    /\ ghost = [moved |-> FALSE, edited |-> FALSE, meddled |-> {}, worked |-> {}]

(***************************************************************************)
(* The world around.                                                       *)
(***************************************************************************)
Described == client.pc # "normalize"

\* One more of the bounded events.
Count(event, bound) ==
    /\ counts[event] < bound
    /\ counts.writes + counts.edits + counts.meddling + counts.crashes < MaxEvents
    /\ counts' = [counts EXCEPT ![event] = @ + 1]

\* The user replaces or removes the source.
Change(o) ==
    /\ Count("writes", MaxWrites) /\ o # source
    /\ client.pc \in {"normalize", "manifest", "begin", "prepare", "upload", "sending"}
    /\ source' = o
    /\ ghost' = [ghost EXCEPT !.moved = @ \/ Described]
    /\ UNCHANGED <<client, config, installed, there, outputs, run, worker, spawned>>

\* The administrator edits the file, or removes or brings back the programs.
Edit ==
    /\ Count("edits", MaxEdits)
    /\ \/ config' \in Configs \ {config} /\ UNCHANGED installed
       \/ installed' \in {Programs, {}} \ {installed} /\ UNCHANGED config
    /\ ghost' = [ghost EXCEPT !.edited = TRUE]
    /\ UNCHANGED <<source, client, there, outputs, run, worker, spawned>>

\* Others make, replace or remove what is at an output path.
Meddle(p) ==
    /\ Count("meddling", MaxMeddling)
    /\ \E found \in Findings \ {outputs[p]} : outputs' = [outputs EXCEPT ![p] = found]
    /\ ghost' = [ghost EXCEPT !.meddled = @ \cup {p}]
    /\ UNCHANGED <<source, client, config, installed, there, run, worker, spawned>>

\* A spawned program writes below the target it was given, whether its
\* processor lives or not.
ProgramWrites(p) ==
    /\ spawned > 0 /\ p \in PathsOf(run.plan) /\ outputs[p] # "entry"
    /\ outputs' = [outputs EXCEPT ![p] = "entry"]
    /\ UNCHANGED <<source, client, config, installed, there, run, worker, spawned, counts, ghost>>

\* A program whose processor has died ends unobserved.
OrphanEnds ==
    /\ spawned > IF worker.pc = "running" THEN 1 ELSE 0
    /\ spawned' = spawned - 1
    /\ UNCHANGED <<source, client, config, installed, there, outputs, run, worker, counts, ghost>>

(***************************************************************************)
(* The client: run_sync_with_run_id.                                       *)
(***************************************************************************)
ClientGoes(pc) == client' = [client EXCEPT !.pc = pc]

ClientOnly ==
    UNCHANGED <<source, config, installed, there, outputs, worker, spawned, counts, ghost>>

\* normalize_source.
Normalize ==
    /\ client.pc = "normalize"
    /\ client' = IF source = Absent THEN [client EXCEPT !.pc = "stopped"]
                 ELSE [client EXCEPT !.pc = "manifest", !.kind = Kind(source)]
    /\ UNCHANGED run /\ ClientOnly

\* build_manifest.
Describe ==
    /\ client.pc = "manifest"
    /\ IF source = Absent THEN ClientGoes("stopped") /\ UNCHANGED run
       ELSE /\ ClientGoes("begin")
            /\ run' = [run EXCEPT !.manifest = BuildManifest(client.kind, source)]
    /\ ClientOnly

\* begin_run: the server makes the directory if its configuration loads, and
\* the client writes run.toml and the manifest into it.
Begin ==
    /\ client.pc = "begin"
    /\ IF Loads(config) THEN ClientGoes("prepare") /\ run' = [run EXCEPT !.phase = "incoming"]
       ELSE ClientGoes("stopped") /\ UNCHANGED run
    /\ ClientOnly

\* Mutant: the plan is not validated before the transfer.
PrepareUnvalidated(text) == Loads(text) /\ ManifestSound(run.manifest)

\* What prepare_run accepts.
PrepareAccepts(text) == Loads(text) /\ ManifestSound(run.manifest) /\ PlanValid(text)

Prepare ==
    /\ client.pc = "prepare"
    /\ IF PrepareAccepts(config)
       THEN ClientGoes("upload") /\ ghost' = [ghost EXCEPT !.edited = FALSE]
       ELSE ClientGoes("stopped") /\ UNCHANGED ghost
    /\ UNCHANGED <<source, config, installed, there, outputs, run, worker, spawned, counts>>

\* run_rsync to the run's files/, which reads the source for a while.
UploadBegins ==
    /\ client.pc = "upload"
    /\ client' = IF source = Absent THEN [client EXCEPT !.pc = "stopped"]
                 ELSE [client EXCEPT !.pc = "sending", !.seen = source]
    /\ UNCHANGED run /\ ClientOnly

UploadEnds ==
    /\ client.pc = "sending"
    /\ IF source = Absent /\ Kind(client.seen) # "regular_file"
       THEN ClientGoes("stopped") /\ UNCHANGED run
       ELSE /\ ClientGoes("finish")
            /\ \E o \in ({client.seen, source} \ {Absent})
                        \cup IF {client.seen, source} = {"one", "two"} THEN {"torn"} ELSE {} :
                   run' = [run EXCEPT !.staged = o]
    /\ ClientOnly

\* finish_run.
Finish ==
    /\ client.pc = "finish"
    /\ IF Loads(config) THEN ClientGoes("sent") /\ run' = [run EXCEPT !.phase = "ready"]
       ELSE ClientGoes("stopped") /\ UNCHANGED run
    /\ ClientOnly

(***************************************************************************)
(* The processor.                                                          *)
(***************************************************************************)
WorkerGoes(pc) == worker' = [worker EXCEPT !.pc = pc]

WorkerOnly == UNCHANGED <<source, client, config, installed, there, counts>>

\* write_run_failure, or a failed entry and the terminal move.
Fails(cause) ==
    /\ run' = [run EXCEPT !.phase = "failed", !.cause = cause]
    /\ worker' = Off

\* The main of process-run and process-once: configuration and server_check.
Load ==
    /\ worker.pc = "off" /\ run.phase \in {"ready", "processing"}
    /\ Loads(config) /\ Checks(config)
    /\ worker' = [Off EXCEPT !.pc = "loaded", !.config = config]
    /\ UNCHANGED <<run, outputs, spawned, ghost>> /\ WorkerOnly

Claim ==
    /\ worker.pc = "loaded"
    /\ WorkerGoes("claimed") /\ run' = [run EXCEPT !.phase = "processing"]
    /\ UNCHANGED <<outputs, spawned, ghost>> /\ WorkerOnly

\* read_compatible_run_inputs and validate_transform_run, again.
Validate ==
    /\ worker.pc = "claimed"
    /\ IF ManifestSound(run.manifest) /\ PlanValid(worker.config)
       THEN WorkerGoes("valid") /\ UNCHANGED run
       ELSE Fails("plan")
    /\ UNCHANGED <<outputs, spawned, ghost>> /\ WorkerOnly

Verify ==
    /\ worker.pc = "valid"
    /\ IF Verified(run.manifest, run.staged) THEN WorkerGoes("verified") /\ UNCHANGED run
       ELSE Fails("staged")
    /\ UNCHANGED <<outputs, spawned, ghost>> /\ WorkerOnly

\* load_or_resolve_destination_plan: the first plan is kept.
MakePlan ==
    /\ worker.pc = "verified"
    /\ \E empty \in BOOLEAN :
         LET req == [intent |-> Intent, kind |-> run.manifest.kind, empty |-> empty] IN
         /\ empty => run.manifest.kind = "directory"
         /\ IF run.plan # NoPlan THEN WorkerGoes("planned") /\ UNCHANGED run
            ELSE IF DestinationRefused(req, there) THEN Fails("destination")
            ELSE WorkerGoes("planned") /\ run' = [run EXCEPT !.plan = PlanAt(ResolveDestination(req, there))]
    /\ UNCHANGED <<outputs, spawned, ghost>> /\ WorkerOnly

\* prepare_work_entry: what the program works on is a copy.
Copy ==
    /\ worker.pc = "planned"
    /\ worker' = [worker EXCEPT !.pc = "copied", !.work = run.staged]
    /\ UNCHANGED <<run, outputs, spawned, ghost>> /\ WorkerOnly

\* apply_transform_for_target: the program may have gone since the check.
Spawn ==
    /\ worker.pc = "copied"
    /\ IF Resolves(Definition(worker.config, Tool).program)
       THEN /\ WorkerGoes("running") /\ UNCHANGED run
            /\ spawned' = spawned + 1
            /\ ghost' = [ghost EXCEPT !.worked = @ \cup {worker.work}]
       ELSE Fails("program") /\ UNCHANGED <<spawned, ghost>>
    /\ UNCHANGED outputs /\ WorkerOnly

ProgramEnds ==
    /\ worker.pc = "running"
    /\ spawned' = spawned - 1
    /\ \/ WorkerGoes("exited") /\ UNCHANGED run
       \/ Fails("program")
    /\ UNCHANGED <<outputs, ghost>> /\ WorkerOnly

Expected == ExpectedOutputs(Definition(worker.config, Tool), run.plan)

\* Mutant: the last output is not looked for.
LeftToCheckButLast == worker.checked + 1 < Len(Expected)

LeftToCheck == worker.checked < Len(Expected)

\* symlink_metadata of the next output.
CheckOutput ==
    /\ worker.pc = "exited" /\ LeftToCheck
    /\ IF outputs[Expected[worker.checked + 1]] = "entry"
       THEN worker' = [worker EXCEPT !.checked = @ + 1] /\ UNCHANGED run
       ELSE Fails("output")
    /\ UNCHANGED <<outputs, spawned, ghost>> /\ WorkerOnly

\* The status with its final_paths, and the terminal move.
Publish ==
    /\ worker.pc = "exited" /\ ~LeftToCheck
    /\ run' = [run EXCEPT !.phase = "done", !.final_paths = Distinct(Expected)]
    /\ worker' = Off
    /\ UNCHANGED <<outputs, spawned, ghost>> /\ WorkerOnly

Crash ==
    /\ worker.pc # "off" /\ Count("crashes", MaxCrashes)
    /\ worker' = Off
    /\ UNCHANGED <<source, client, config, installed, there, outputs, run, spawned, ghost>>

Next ==
    \/ \E o \in Objects \cup {Absent} : Change(o)
    \/ Edit
    \/ \E p \in Paths : Meddle(p) \/ ProgramWrites(p)
    \/ OrphanEnds
    \/ Normalize \/ Describe \/ Begin \/ Prepare \/ UploadBegins \/ UploadEnds \/ Finish
    \/ Load \/ Claim \/ Validate \/ Verify \/ MakePlan \/ Copy \/ Spawn
    \/ ProgramEnds \/ CheckOutput \/ Publish \/ Crash

Spec == Init /\ [][Next]_vars

(***************************************************************************)
(* What makes the properties inductive.                                    *)
(***************************************************************************)
\* A processor only works on what the client has sent, and ends with the run.
PhaseInv ==
    /\ run.phase \notin {"none", "incoming"} => client.pc = "sent"
    /\ worker.pc # "off" => run.phase \in {"ready", "processing"}
    /\ run.cause # None => run.phase = "failed"
    /\ ghost.worked # {} => run.phase \notin {"none", "incoming"}

\* Without a digest there is nothing to compute one of.
ManifestInv == run.manifest.sha256 = None => run.manifest.size = 0

\* What a program works on is what was staged and verified.
WorkInv ==
    /\ client.pc \in {"finish", "sent"} => run.staged # Absent
    /\ worker.pc \in {"verified", "planned", "copied", "running", "exited"} =>
            Verified(run.manifest, run.staged)
    /\ worker.pc \in {"copied", "running", "exited"} => worker.work = run.staged
    /\ worker.pc \in {"running", "exited"} => run.staged \in ghost.worked
    /\ \A o \in ghost.worked : o = run.staged /\ Verified(run.manifest, o)

Delivered(p) == outputs[p] = "entry" \/ p \in ghost.meddled

\* Outputs that were found are there unless others have taken them away.
OutputInv ==
    /\ worker.pc # "off" => Loads(worker.config)
    /\ worker.pc \notin {"off", "loaded", "claimed"} => Tool \in Defined(worker.config)
    /\ worker.pc \in {"planned", "copied", "running", "exited"} => run.plan # NoPlan
    /\ worker.pc # "exited" => worker.checked = 0
    /\ worker.pc = "exited" =>
            /\ worker.checked <= Len(Expected)
            /\ \A i \in 1..worker.checked : Delivered(Expected[i])
    /\ run.phase = "done" =>
            run.staged \in ghost.worked /\ \A p \in run.final_paths : Delivered(p)

\* What was accepted stays acceptable until the setup is edited.
SetupInv ==
    /\ client.pc \in {"upload", "sending", "finish", "sent"} =>
            ManifestSound(run.manifest) /\ (ghost.edited \/ PlanValid(config))
    /\ worker.pc # "off" => ghost.edited \/ worker.config = config
    /\ run.cause = "plan" => ghost.edited

\* As long as the source stays as it was, it is what is listed, sent and staged.
SourceInv ==
    /\ ~ghost.moved =>
        /\ client.pc \notin {"normalize", "stopped"} => source # Absent /\ client.kind = Kind(source)
        /\ client.pc \notin {"normalize", "manifest", "stopped"} =>
                run.manifest = BuildManifest(client.kind, source)
        /\ client.pc = "sending" => client.seen = source
        /\ client.pc \in {"finish", "sent"} => run.staged = source
    /\ run.cause = "staged" => ghost.moved

ImportInv == PhaseInv /\ ManifestInv /\ WorkInv /\ OutputInv /\ SetupInv /\ SourceInv
=============================================================================
