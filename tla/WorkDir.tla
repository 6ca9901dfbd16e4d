------------------------------ MODULE WorkDir ------------------------------
(***************************************************************************)
(* The server's work directory: <nickname>/<phase>/<run_id>/ and the files *)
(* inside a run directory, and flock on processor.lock.  Every component   *)
(* of the server (intake, processor, collector) works on this state and    *)
(* shares nothing else.  A directory that does not exist reads like an     *)
(* empty one (every file in it is missing); only `exists' tells them apart.*)
(***************************************************************************)
EXTENDS Naturals, FiniteSets, Destination

CONSTANTS
    Runs,       \* run ids (with their nickname)
    Procs,      \* slots for processor invocations
    Batch,      \* the slots that run process-once; the others run process-run
    Observers,  \* slots for run-state calls
    Inodes,     \* identities of processor.lock files
    NoLock,     \* no such file, or no open descriptor
    Nobody      \* the owner of a lock that is free

ASSUME NamesAssumption ==
    /\ NoLock \notin Inodes
    /\ Batch \subseteq Procs
    /\ Nobody \notin Procs \cup Observers
    /\ Procs \cap Observers = {}

VARIABLES
    fs,     \* fs[r][ph]: the run directory of r under phase ph
    owner   \* owner[i]: who holds flock on lock file i

Phases == {"incoming", "ready", "processing", "done", "failed"}
TerminalPhases == {"done", "failed"}

\* run.toml and manifest.toml: readable, of this version and acceptable to
\* validate_transform_run; not acceptable to it; of an incompatible version;
\* unreadable, unparsable or missing.
InputKinds == {"ok", "unsupported", "old_version", "malformed"}

\* lease.toml: missing, of this protocol and not yet or already expired, of
\* another protocol version, or not a lease at all.
LeaseKinds == {"none", "live", "expired", "old_protocol", "malformed"}

\* What status.toml holds.
PublishedStatus == {"done", "partial", "failed"}
StatusKinds == PublishedStatus \cup {"none", "malformed", "incompatible"}

\* destination-plan.toml.
Plans == Placements \cup {"none"}

Dirs == [exists : BOOLEAN,          \* the directory is there
         lease  : LeaseKinds,
         inputs : InputKinds,
         staged : BOOLEAN,          \* files/ holds the entry the manifest describes
         work   : BOOLEAN,          \* the work/ scratch area is there
         plan   : Plans,
         status : StatusKinds,
         lock   : Inodes \cup {NoLock},
         aged   : BOOLEAN]          \* its mtime is older than the phase's retention

\* The contents of a directory with no file in it.
Contents(present) ==
    [exists |-> present, lease |-> "none", inputs |-> "malformed", staged |-> FALSE,
     work |-> FALSE, plan |-> "none", status |-> "none", lock |-> NoLock, aged |-> FALSE]

NoDir == Contents(FALSE)

Exists(r, ph) == fs[r][ph].exists

\* The run directory becomes d.
Put(r, ph, d) == [fs EXCEPT ![r] = [@ EXCEPT ![ph] = d]]

\* One file of a directory changes: each of these renews the directory's mtime.
WithLock(d, i) == [d EXCEPT !.lock = i, !.aged = FALSE]
WithStatus(d, s) == [d EXCEPT !.status = s, !.aged = FALSE]
WithPlan(d, t) == [d EXCEPT !.plan = t, !.aged = FALSE]
WithoutWork(d) == [d EXCEPT !.work = FALSE, !.aged = FALSE]

\* create_dir_all of work/ makes the run directory too if it is missing.
WithWork(d) == [d EXCEPT !.exists = TRUE, !.work = TRUE, !.aged = FALSE]

\* Mutant: the status is pruned as well.
PrunedBare(d) ==
    [d EXCEPT !.staged = FALSE, !.work = FALSE, !.lease = "none", !.lock = NoLock,
              !.status = "none", !.aged = FALSE]

\* prune_success_terminal removes files/, work/, lease.toml, progress.toml,
\* processor.lock and *.tmp, and nothing else.
Pruned(d) ==
    [d EXCEPT !.staged = FALSE, !.work = FALSE, !.lease = "none", !.lock = NoLock,
              !.aged = FALSE]

\* rename(2) of a run directory: the whole directory, the lock file and its
\* flock included, moves; a directory that is there already is not replaced.
CanRename(r, a, b) == Exists(r, a) /\ ~Exists(r, b)
Rename(r, a, b) == [fs EXCEPT ![r] = [@ EXCEPT ![a] = NoDir, ![b] = fs[r][a]]]

\* Mutant: the lease's protocol version is not looked at.
InputsVerdictNoLease(d) == IF d.inputs = "old_version" THEN "incompatible" ELSE d.inputs

\* What validate_run_lease_protocol and then read_compatible_run_inputs and
\* validate_transform_run make of a directory.  A missing lease is accepted.
InputsVerdict(d) ==
    IF d.lease = "old_protocol" THEN "incompatible"
    ELSE IF d.lease = "malformed" THEN "malformed"
    ELSE IF d.inputs = "old_version" THEN "incompatible"
    ELSE d.inputs

\* The status verified_terminal_status finds: done/ is looked at before failed/.
TerminalStatus(r) ==
    IF Exists(r, "done") THEN fs[r]["done"].status
    ELSE IF Exists(r, "failed") THEN fs[r]["failed"].status
    ELSE "none"

HasTerminalDir(r) == Exists(r, "done") \/ Exists(r, "failed")

Actors == Procs \cup Observers

WorkDirTypeOK ==
    /\ fs \in [Runs -> [Phases -> Dirs]]
    /\ owner \in [Inodes -> Actors \cup {Nobody}]
=============================================================================
