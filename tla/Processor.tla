----------------------------- MODULE Processor -----------------------------
(***************************************************************************)
(* The run processor of purgery-server: claiming a ready run, importing its*)
(* entry with a transform, publishing a status, moving the run to a        *)
(* terminal phase, and recovering a run an earlier process left behind     *)
(* (process.rs, recover.rs, transform.rs and the helpers of phases.rs).    *)
(*                                                                         *)
(* Every invocation is a process of its own.  A step of the model is one   *)
(* access to the shared work directory; any process may crash between two  *)
(* steps, and any access may fail with an I/O error.  The kernel releases  *)
(* a crashed process' flock, but not the transform it had spawned.         *)
(***************************************************************************)
EXTENDS WorkDir

CONSTANTS
    Request,      \* Request[r]: destination intent and entry kind of run r
    Arrivals,     \* run directories the processors may find at the start
    InitialDest,  \* what may be at a destination before the run is planned
    MaxCrashes,   \* bound: processes that crash
    MaxIOErrors   \* bound: file operations that fail

QueuePhases == {"ready", "processing"}

\* A directory is found as intake left it in ready/, or in processing/ as an
\* earlier process (perhaps of another version) left it.
ASSUME ProcessorAssumption ==
    /\ Runs # {}
    /\ Request \in [Runs -> Requests]
    /\ InitialDest \subseteq DestinationStates
    /\ MaxCrashes \in Nat
    /\ MaxIOErrors \in Nat
    /\ \A a \in Arrivals :
          /\ a.phase \in QueuePhases
          /\ a.dir \in Dirs
          /\ a.dir.exists
          /\ a.dir.plan = "none"
          /\ a.dir.lock = NoLock
          /\ a.dir.status \notin {"done", "failed"}
          /\ a.phase = "ready" => a.dir.status = "none"

VARIABLES
    pc,        \* pc[p]: the next step of processor p
    run,       \* run[p]: the run p is working on
    from,      \* from[p]: the phase in which p locked it: claim or recovery
    fd,        \* fd[p]: the lock file p has open
    out,       \* out[p]: the RunState p is about to publish or act upon
    target,    \* target[p]: the placement p passes to the transform
    toRecover, \* toRecover[p], toClaim[p]: the runs process-once has listed in
    toClaim,   \*     processing/ and ready/ and not yet visited
    reply,     \* reply[p]: the answer of the last process-run in slot p
    dest,      \* dest[r]: what is at the destination of run r
    orphans,   \* orphans[r]: transforms of r that outlived their processor
    probe,     \* probe[o]: the lock file run-state is probing
    imported,  \* history: runs with a transform that delivered all outputs
    spawned,   \* history: the placements transforms of r were started with
    crashes,   \* crashes so far
    ioErrors   \* I/O errors so far

lists == <<toRecover, toClaim>>
procVars == <<pc, run, from, fd, out, target, lists, reply>>
worldVars == <<dest, orphans, imported, spawned>>
faultVars == <<crashes, ioErrors>>
vars == <<fs, owner, procVars, worldVars, faultVars, probe>>

Outcomes == {"none", "processed", "already_terminal", "already_active",
             "claim_in_progress", "error"}
NoReply == [outcome |-> "none", state |-> "none"]

\* The steps at which a processor holds the lock it opened ...
Claiming == {"inputs", "claim_move", "mal_status", "mal_move"}
Importing == {"work", "stage", "plan", "spawn", "wait", "publish", "final"}
Failing == {"fail_status", "fail_move", "error", "h_status", "h_move", "to_failed"}
Closing == {"prune", "unlock", "reply"}
Holding == Claiming \cup {"status", "start"} \cup Importing \cup Failing \cup Closing
\* ... and those at which it does not.
Searching == {"idle", "scan", "loop", "claim", "recheck", "recheck_terminal",
              "recheck_ready", "fallthrough", "observe", "recover", "open", "flock"}
Steps == Searching \cup Holding

TypeOK ==
    /\ WorkDirTypeOK
    /\ pc \in [Procs -> Steps]
    /\ run \in [Procs -> Runs]
    /\ from \in [Procs -> QueuePhases]
    /\ fd \in [Procs -> Inodes \cup {NoLock}]
    /\ out \in [Procs -> PublishedStatus]
    /\ target \in [Procs -> Placements]
    /\ toRecover \in [Procs -> SUBSET Runs]
    /\ toClaim \in [Procs -> SUBSET Runs]
    /\ reply \in [Procs -> [outcome : Outcomes, state : PublishedStatus \cup {"none"}]]
    /\ dest \in [Runs -> DestinationStates]
    /\ orphans \in [Runs -> Nat]
    /\ probe \in [Observers -> Inodes \cup {NoLock}]
    /\ imported \in SUBSET Runs
    /\ spawned \in [Runs -> SUBSET Placements]
    /\ crashes \in 0..MaxCrashes
    /\ ioErrors \in 0..MaxIOErrors

----------------------------------------------------------------------------
(* Initial states *)

Found(a) == [ph \in Phases |-> IF ph = a.phase THEN a.dir ELSE NoDir]

\* No invocation has started yet.
Quiescent ==
    /\ owner = [i \in Inodes |-> Nobody]
    /\ pc = [p \in Procs |-> "idle"]
    /\ run = [p \in Procs |-> CHOOSE r \in Runs : TRUE]
    /\ from = [p \in Procs |-> "ready"]
    /\ fd = [p \in Procs |-> NoLock]
    /\ out = [p \in Procs |-> "failed"]
    /\ target = [p \in Procs |-> "exact_target"]
    /\ toRecover = [p \in Procs |-> {}]
    /\ toClaim = [p \in Procs |-> {}]
    /\ reply = [p \in Procs |-> NoReply]
    /\ dest \in [Runs -> InitialDest]
    /\ orphans = [r \in Runs |-> 0]
    /\ probe = [o \in Observers |-> NoLock]
    /\ imported = {}
    /\ spawned = [r \in Runs |-> {}]
    /\ crashes = 0
    /\ ioErrors = 0

Init ==
    /\ fs \in [Runs -> {Found(a) : a \in Arrivals}]
    /\ Quiescent

----------------------------------------------------------------------------
(* Steps *)

Goto(p, step) == pc' = [pc EXCEPT ![p] = step]
Decide(p, state) == out' = [out EXCEPT ![p] = state]

Targeted(p) == p \notin Batch

\* The directory p works on: by path, whatever p's lock says.
Queue(p, ph) == fs[run[p]][ph]

\* A file operation works when its precondition holds and no I/O error
\* happens; it fails when the precondition does not hold, or by an I/O error.
Works(ok) == ok /\ UNCHANGED ioErrors
IOError == ioErrors < MaxIOErrors /\ ioErrors' = ioErrors + 1
Fails(ok) == (~ok /\ UNCHANGED ioErrors) \/ IOError

\* Closing the descriptor, or exiting, releases the flock.
Released(a) == [i \in Inodes |-> IF owner[i] = a THEN Nobody ELSE owner[i]]

Drop(p) ==
    /\ fd' = [fd EXCEPT ![p] = NoLock]
    /\ owner' = Released(p)

\* p is through with its run: process-run prints its answer and exits,
\* process-once logs and goes on to the next run of its list.
Return(p, outcome, state) ==
    /\ Drop(p)
    /\ Goto(p, IF Targeted(p) THEN "idle" ELSE "loop")
    /\ reply' = IF Targeted(p)
                THEN [reply EXCEPT ![p] = [outcome |-> outcome, state |-> state]]
                ELSE reply

ReturnError(p) == Return(p, "error", "none")

\* An outcome that process-run looks into and process-once only logs.
Skip(p, step) == Goto(p, IF Targeted(p) THEN step ELSE "loop")

----------------------------------------------------------------------------
(* Invocations *)

StartProcessRun(p) ==
    /\ pc[p] = "idle" /\ Targeted(p)
    /\ \E r \in Runs : run' = [run EXCEPT ![p] = r]
    /\ reply' = [reply EXCEPT ![p] = NoReply]
    /\ Goto(p, "claim")
    /\ UNCHANGED <<fs, owner, from, fd, out, target, lists, worldVars, faultVars, probe>>

\* Mutant: process-once does not look for runs to recover.
StartWithoutRecovery(p) ==
    /\ pc[p] = "idle" /\ ~Targeted(p)
    /\ toRecover' = [toRecover EXCEPT ![p] = {}]
    /\ Goto(p, "scan")
    /\ UNCHANGED <<fs, owner, run, from, fd, out, target, toClaim, reply, worldVars,
                   faultVars, probe>>

\* process-once lists processing/ ...
StartProcessOnce(p) ==
    /\ pc[p] = "idle" /\ ~Targeted(p)
    /\ toRecover' = [toRecover EXCEPT ![p] = {r \in Runs : Exists(r, "processing")}]
    /\ Goto(p, "scan")
    /\ UNCHANGED <<fs, owner, run, from, fd, out, target, toClaim, reply, worldVars,
                   faultVars, probe>>

\* ... and then ready/: a run claimed in between is in neither list.
ListReady(p) ==
    /\ pc[p] = "scan"
    /\ toClaim' = [toClaim EXCEPT ![p] = {r \in Runs : Exists(r, "ready")}]
    /\ Goto(p, "loop")
    /\ UNCHANGED <<fs, owner, run, from, fd, out, target, toRecover, reply, worldVars,
                   faultVars, probe>>

\* Mutant: a run is tried again until it is gone.
NextRecoveryForever(p) ==
    /\ pc[p] = "loop"
    /\ \E r \in toRecover[p] : run' = [run EXCEPT ![p] = r]
    /\ Goto(p, "recover")
    /\ UNCHANGED <<fs, owner, from, fd, out, target, lists, reply, worldVars, faultVars,
                   probe>>

NextRecovery(p) ==
    /\ pc[p] = "loop"
    /\ \E r \in toRecover[p] :
          /\ run' = [run EXCEPT ![p] = r]
          /\ toRecover' = [toRecover EXCEPT ![p] = @ \ {r}]
    /\ Goto(p, "recover")
    /\ UNCHANGED <<fs, owner, from, fd, out, target, toClaim, reply, worldVars, faultVars,
                   probe>>

NextClaim(p) ==
    /\ pc[p] = "loop" /\ toRecover[p] = {}
    /\ \E r \in toClaim[p] :
          /\ run' = [run EXCEPT ![p] = r]
          /\ toClaim' = [toClaim EXCEPT ![p] = @ \ {r}]
    /\ Goto(p, "claim")
    /\ UNCHANGED <<fs, owner, from, fd, out, target, toRecover, reply, worldVars, faultVars,
                   probe>>

EndProcessOnce(p) ==
    /\ pc[p] = "loop" /\ toRecover[p] = {} /\ toClaim[p] = {}
    /\ Goto(p, "idle")
    /\ UNCHANGED <<fs, owner, run, from, fd, out, target, lists, reply, worldVars,
                   faultVars, probe>>

----------------------------------------------------------------------------
(* Finding the run and locking it *)

\* claim_ready_run looks for the ready directory.
Claim(p) ==
    /\ pc[p] = "claim"
    /\ from' = [from EXCEPT ![p] = "ready"]
    /\ Goto(p, IF Exists(run[p], "ready") THEN "open" ELSE "recheck")
    /\ UNCHANGED <<fs, owner, run, fd, out, target, lists, reply, worldVars, faultVars, probe>>

\* recheck_state looks at processing/, then at the terminal phases, then at
\* ready/, and a run may move in between: AlreadyProcessing, AlreadyTerminal,
\* ClaimFailed or NotFound.
Recheck(p) ==
    /\ \/ /\ pc[p] = "recheck"
          /\ IF Exists(run[p], "processing") THEN Skip(p, "recover")
             ELSE Goto(p, "recheck_terminal")
          /\ UNCHANGED <<owner, fd, reply>>
       \/ /\ pc[p] = "recheck_terminal"
          /\ IF HasTerminalDir(run[p]) THEN Skip(p, "observe") ELSE Goto(p, "recheck_ready")
          /\ UNCHANGED <<owner, fd, reply>>
       \/ /\ pc[p] = "recheck_ready" /\ Exists(run[p], "ready")
          /\ ReturnError(p)
       \/ /\ pc[p] = "recheck_ready" /\ ~Exists(run[p], "ready")
          /\ Skip(p, "fallthrough")
          /\ UNCHANGED <<owner, fd, reply>>
    /\ UNCHANGED <<fs, run, from, out, target, lists, worldVars, faultVars, probe>>

\* process_run_inner after NotFound: processing once more, then terminal.
FallThrough(p) ==
    /\ pc[p] = "fallthrough"
    /\ Goto(p, IF Exists(run[p], "processing") THEN "recover" ELSE "observe")
    /\ UNCHANGED <<fs, owner, run, from, fd, out, target, lists, reply, worldVars,
                   faultVars, probe>>

\* recover_processing_run_if_unlocked looks for the processing directory.
Recover(p) ==
    /\ pc[p] = "recover"
    /\ from' = [from EXCEPT ![p] = "processing"]
    /\ IF Exists(run[p], "processing") THEN Goto(p, "open") ELSE Skip(p, "observe")
    /\ UNCHANGED <<fs, owner, run, fd, out, target, lists, reply, worldVars, faultVars, probe>>

UsedInodes ==
    {fs[r][ph].lock : r \in Runs, ph \in Phases}
        \cup {fd[p] : p \in Procs} \cup {probe[o] : o \in Observers}

\* try_lock_existing_dir: the directory went missing, or open(2) of the lock
\* file, created if it is not there, fails or works.
OpenLock(p) ==
    /\ pc[p] = "open"
    /\ LET d == Queue(p, from[p]) IN
       \/ /\ ~d.exists
          /\ IF from[p] = "ready" THEN Goto(p, "recheck") ELSE Skip(p, "observe")
          /\ UNCHANGED <<fs, owner, fd, reply, ioErrors>>
       \/ /\ Fails(d.exists)
          /\ ReturnError(p)
          /\ UNCHANGED fs
       \/ /\ Works(d.exists /\ d.lock # NoLock)
          /\ fd' = [fd EXCEPT ![p] = d.lock]
          /\ Goto(p, "flock")
          /\ UNCHANGED <<fs, owner, reply>>
       \/ /\ Works(d.exists /\ d.lock = NoLock)
          /\ \E i \in Inodes \ UsedInodes :
                /\ fd' = [fd EXCEPT ![p] = i]
                /\ fs' = Put(run[p], from[p], WithLock(d, i))
          /\ Goto(p, "flock")
          /\ UNCHANGED <<owner, reply>>
    /\ UNCHANGED <<run, from, out, target, lists, worldVars, crashes, probe>>

\* flock(LOCK_EX | LOCK_NB) on the file that was opened, wherever it is now.
Flock(p) ==
    /\ pc[p] = "flock"
    /\ \/ /\ owner[fd[p]] = Nobody
          /\ owner' = [owner EXCEPT ![fd[p]] = p]
          /\ Goto(p, IF from[p] = "ready" THEN "inputs" ELSE "status")
          /\ UNCHANGED <<fd, reply>>
       \/ /\ owner[fd[p]] # Nobody
          /\ Return(p, IF from[p] = "ready" THEN "claim_in_progress" ELSE "already_active",
                    "none")
    /\ UNCHANGED <<fs, run, from, out, target, lists, worldVars, faultVars, probe>>

----------------------------------------------------------------------------
(* Claiming a ready run (claim_ready_run, handle_malformed_ready) *)

ReadReadyInputs(p) ==
    /\ pc[p] = "inputs"
    /\ LET verdict == InputsVerdict(Queue(p, "ready")) IN
       \/ /\ Works(verdict = "incompatible")
          /\ ReturnError(p)
       \/ /\ Fails(verdict # "malformed")
          /\ Goto(p, "mal_status")
          /\ UNCHANGED <<owner, fd, reply>>
       \/ /\ Works(verdict \in {"ok", "unsupported"})
          /\ Goto(p, "claim_move")
          /\ UNCHANGED <<owner, fd, reply>>
    /\ UNCHANGED <<fs, run, from, out, target, lists, worldVars, crashes, probe>>

\* Mutant: the lock is dropped with the claim.
ClaimMoveUnlocks(p) ==
    /\ pc[p] = "claim_move"
    /\ Works(CanRename(run[p], "ready", "processing"))
    /\ fs' = Rename(run[p], "ready", "processing")
    /\ Drop(p)
    /\ Goto(p, "start")
    /\ UNCHANGED <<run, from, out, target, lists, reply, worldVars, crashes, probe>>

\* The rename that claims the run.  If it fails the lock is dropped and the
\* state looked at again; if the parent cannot be made the claim has failed.
ClaimMove(p) ==
    /\ pc[p] = "claim_move"
    /\ LET movable == CanRename(run[p], "ready", "processing") IN
       \/ /\ Works(movable)
          /\ fs' = Rename(run[p], "ready", "processing")
          /\ Goto(p, "start")
          /\ UNCHANGED <<owner, fd, reply>>
       \/ /\ Fails(movable)
          /\ Drop(p)
          /\ Goto(p, "recheck")
          /\ UNCHANGED <<fs, reply>>
       \/ /\ IOError
          /\ ReturnError(p)
          /\ UNCHANGED fs
    /\ UNCHANGED <<run, from, out, target, lists, worldVars, crashes, probe>>

\* A malformed ready run gets its failure status while it is still in ready/ ...
PublishMalformed(p) ==
    /\ pc[p] = "mal_status"
    /\ LET d == Queue(p, "ready") IN
       \/ /\ Works(d.exists)
          /\ fs' = Put(run[p], "ready", WithStatus(d, "failed"))
          /\ Decide(p, "failed")
          /\ Goto(p, "mal_move")
          /\ UNCHANGED <<owner, fd, reply>>
       \/ /\ Fails(d.exists)
          /\ ReturnError(p)
          /\ UNCHANGED <<fs, out>>
    /\ UNCHANGED <<run, from, target, lists, worldVars, crashes, probe>>

\* ... and moves to failed/ with it.  A failed rename takes the status back,
\* a failure to make the parent directory does not.
MoveMalformed(p) ==
    /\ pc[p] = "mal_move"
    /\ LET d == Queue(p, "ready")
           movable == CanRename(run[p], "ready", "failed") IN
       \/ /\ Works(movable)
          /\ fs' = Rename(run[p], "ready", "failed")
          /\ Goto(p, "unlock")
          /\ UNCHANGED <<owner, fd, reply>>
       \/ /\ Fails(movable)
          /\ fs' = IF d.exists THEN Put(run[p], "ready", WithStatus(d, "none"))
                   ELSE fs
          /\ ReturnError(p)
       \/ /\ IOError
          /\ ReturnError(p)
          /\ UNCHANGED fs
    /\ UNCHANGED <<run, from, out, target, lists, worldVars, crashes, probe>>

----------------------------------------------------------------------------
(* Recovering a processing run (recover_or_process_processing_run) *)

\* Mutant: a status that cannot be parsed is acted upon like any other.
RecoverAnyStatus(p) ==
    /\ pc[p] = "status"
    /\ LET d == Queue(p, "processing")
           readable == d.lease # "malformed"
           current == d.lease # "old_protocol" /\ d.status # "incompatible" IN
       \/ /\ Works(readable /\ ~current)
          /\ ReturnError(p)
          /\ UNCHANGED out
       \/ /\ Fails(readable)
          /\ Goto(p, "error")
          /\ UNCHANGED <<owner, fd, reply, out>>
       \/ /\ Works(readable /\ current /\ d.status # "none")
          /\ Decide(p, d.status)
          /\ Goto(p, "final")
          /\ UNCHANGED <<owner, fd, reply>>
       \/ /\ Works(readable /\ current /\ d.status = "none")
          /\ Goto(p, "start")
          /\ UNCHANGED <<owner, fd, reply, out>>
    /\ UNCHANGED <<fs, run, from, target, lists, worldVars, crashes, probe>>

\* Mutant: a partial import is tried again.
RecoverPartialAnew(p) ==
    /\ pc[p] = "status"
    /\ LET d == Queue(p, "processing")
           readable == d.lease # "malformed"
           current == d.lease # "old_protocol" /\ d.status # "incompatible" IN
       \/ /\ Works(readable /\ ~current)
          /\ ReturnError(p)
          /\ UNCHANGED out
       \/ /\ Fails(readable)
          /\ Goto(p, "error")
          /\ UNCHANGED <<owner, fd, reply, out>>
       \/ /\ Works(readable /\ current /\ d.status = "malformed")
          /\ Goto(p, "fail_status")
          /\ UNCHANGED <<owner, fd, reply, out>>
       \/ /\ Works(readable /\ current /\ d.status \in {"done", "failed"})
          /\ Decide(p, d.status)
          /\ Goto(p, "final")
          /\ UNCHANGED <<owner, fd, reply>>
       \/ /\ Works(readable /\ current /\ d.status \in {"none", "partial"})
          /\ Goto(p, "start")
          /\ UNCHANGED <<owner, fd, reply, out>>
    /\ UNCHANGED <<fs, run, from, target, lists, worldVars, crashes, probe>>

\* A published status is acted upon, a malformed one is replaced by a failure,
\* an incompatible one is left alone, and without one the run is replayed.
RecoverStatus(p) ==
    /\ pc[p] = "status"
    /\ LET d == Queue(p, "processing")
           readable == d.lease # "malformed"
           current == d.lease # "old_protocol" /\ d.status # "incompatible" IN
       \/ /\ Works(readable /\ ~current)
          /\ ReturnError(p)
          /\ UNCHANGED out
       \/ /\ Fails(readable)
          /\ Goto(p, "error")
          /\ UNCHANGED <<owner, fd, reply, out>>
       \/ /\ Works(readable /\ current /\ d.status = "malformed")
          /\ Goto(p, "fail_status")
          /\ UNCHANGED <<owner, fd, reply, out>>
       \/ /\ Works(readable /\ current /\ d.status \in PublishedStatus)
          /\ Decide(p, d.status)
          /\ Goto(p, "final")
          /\ UNCHANGED <<owner, fd, reply>>
       \/ /\ Works(readable /\ current /\ d.status = "none")
          /\ Goto(p, "start")
          /\ UNCHANGED <<owner, fd, reply, out>>
    /\ UNCHANGED <<fs, run, from, target, lists, worldVars, crashes, probe>>

----------------------------------------------------------------------------
(* Importing (process_processing_run) *)

\* Inputs that do not allow an import end the run, inputs of another version
\* are an error that process-once, having claimed the run, answers with a move
\* to failed/ and everyone else with leaving it.
StartImport(p) ==
    /\ pc[p] = "start"
    /\ LET verdict == InputsVerdict(Queue(p, "processing")) IN
       \/ /\ Works(verdict = "ok")
          /\ Goto(p, "work")
          /\ UNCHANGED <<owner, fd, reply>>
       \/ /\ Fails(verdict \notin {"malformed", "unsupported"})
          /\ Goto(p, "fail_status")
          /\ UNCHANGED <<owner, fd, reply>>
       \/ /\ Works(verdict = "incompatible" /\ from[p] = "ready" /\ ~Targeted(p))
          /\ Goto(p, "to_failed")
          /\ UNCHANGED <<owner, fd, reply>>
       \/ /\ Works(verdict = "incompatible" /\ (from[p] = "processing" \/ Targeted(p)))
          /\ ReturnError(p)
    /\ UNCHANGED <<fs, run, from, out, target, lists, worldVars, crashes, probe>>

\* The scratch area is made anew; create_dir_all makes missing parents too.
CreateWork(p) ==
    /\ pc[p] = "work"
    /\ \/ /\ UNCHANGED ioErrors
          /\ fs' = Put(run[p], "processing", WithWork(Queue(p, "processing")))
          /\ Goto(p, "stage")
       \/ /\ IOError
          /\ Goto(p, "error")
          /\ UNCHANGED fs
    /\ UNCHANGED <<owner, run, from, fd, out, target, lists, reply, worldVars, crashes, probe>>

\* process_manifest_entry fails the entry, not the run: the failure is the
\* outcome that will be published.
EntryFailed(p) ==
    /\ Decide(p, "failed")
    /\ Goto(p, "publish")

\* Kind, size and digest, or link target, of the staged entry.
CheckStaged(p) ==
    /\ pc[p] = "stage"
    /\ \/ /\ Works(Queue(p, "processing").staged)
          /\ Goto(p, "plan")
          /\ UNCHANGED out
       \/ /\ Fails(Queue(p, "processing").staged)
          /\ EntryFailed(p)
    /\ UNCHANGED <<fs, owner, run, from, fd, target, lists, reply, worldVars, crashes, probe>>

\* Mutant: every attempt makes a plan of its own.
LoadNewPlan(p) ==
    /\ pc[p] = "plan"
    /\ LET d == Queue(p, "processing")
           new == ResolveDestination(Request[run[p]], dest[run[p]]) IN
       /\ Works(d.exists)
       /\ fs' = Put(run[p], "processing", WithPlan(d, new))
       /\ target' = [target EXCEPT ![p] = new]
       /\ Goto(p, "spawn")
    /\ UNCHANGED <<owner, run, from, fd, out, lists, reply, worldVars, crashes, probe>>

\* load_or_resolve_destination_plan: the plan of an earlier attempt, if there
\* is one, else a new one made from what is at the destination now.
LoadPlan(p) ==
    /\ pc[p] = "plan"
    /\ LET d == Queue(p, "processing")
           req == Request[run[p]]
           new == ResolveDestination(req, dest[run[p]])
           plannable == d.plan = "none" /\ ~DestinationRefused(req, dest[run[p]]) /\ d.exists IN
       \/ /\ Works(d.plan # "none")
          /\ target' = [target EXCEPT ![p] = d.plan]
          /\ Goto(p, "spawn")
          /\ UNCHANGED <<fs, out>>
       \/ /\ Works(plannable)
          /\ fs' = Put(run[p], "processing", WithPlan(d, new))
          /\ target' = [target EXCEPT ![p] = new]
          /\ Goto(p, "spawn")
          /\ UNCHANGED out
       \/ /\ Fails(d.plan # "none" \/ plannable)
          /\ EntryFailed(p)
          /\ UNCHANGED <<fs, target>>
    /\ UNCHANGED <<owner, run, from, fd, lists, reply, worldVars, crashes, probe>>

\* The staged entry is copied to the scratch area and the transform started.
\* Either may fail at any time: no space, no such program.
Spawn(p) ==
    /\ pc[p] = "spawn"
    /\ \/ /\ Queue(p, "processing").staged
          /\ spawned' = [spawned EXCEPT ![run[p]] = @ \cup {target[p]}]
          /\ Goto(p, "wait")
          /\ UNCHANGED out
       \/ /\ EntryFailed(p)
          /\ UNCHANGED spawned
    /\ UNCHANGED <<fs, owner, run, from, fd, target, lists, reply, dest, orphans, imported,
                   faultVars, probe>>

\* The transform exits with success and every expected output is there; the
\* scratch area is removed.
TransformSucceeds(p) ==
    /\ pc[p] = "wait"
    /\ dest[run[p]] \in IF target[p] = "exact_target" THEN DestinationStates \ {"missing"}
                                                       ELSE {"directory"}
    /\ imported' = imported \cup {run[p]}
    /\ Decide(p, "done")
    /\ LET d == Queue(p, "processing") IN
           fs' = IF d.exists THEN Put(run[p], "processing", WithoutWork(d))
                 ELSE fs
    /\ Goto(p, "publish")
    /\ UNCHANGED <<owner, run, from, fd, target, lists, reply, dest, orphans, spawned,
                   faultVars, probe>>

\* Mutant: the exit status of the transform is not looked at.
TransformAlwaysSucceeds(p) ==
    /\ pc[p] = "wait"
    /\ Decide(p, "done")
    /\ Goto(p, "publish")
    /\ UNCHANGED <<fs, owner, run, from, fd, target, lists, reply, worldVars, faultVars, probe>>

\* It exits with failure, or an expected output is not there.
TransformFails(p) ==
    /\ pc[p] = "wait"
    /\ EntryFailed(p)
    /\ UNCHANGED <<fs, owner, run, from, fd, target, lists, reply, worldVars, faultVars, probe>>

\* Waiting for it fails: it is given up, but still runs.
WaitFails(p) ==
    /\ pc[p] = "wait"
    /\ IOError
    /\ EntryFailed(p)
    /\ orphans' = [orphans EXCEPT ![run[p]] = @ + 1]
    /\ UNCHANGED <<fs, owner, run, from, fd, target, lists, reply, dest, imported, spawned,
                   crashes, probe>>

----------------------------------------------------------------------------
(* Publishing and the terminal move *)

\* status.toml is written beside its place and renamed into it.
PublishStatus(p) ==
    /\ pc[p] = "publish"
    /\ LET d == Queue(p, "processing") IN
       \/ /\ Works(d.exists)
          /\ fs' = Put(run[p], "processing", WithStatus(d, out[p]))
          /\ Goto(p, "final")
       \/ /\ Fails(d.exists)
          /\ Goto(p, "error")
          /\ UNCHANGED fs
    /\ UNCHANGED <<owner, run, from, fd, out, target, lists, reply, worldVars, crashes, probe>>

\* Mutant: only complete imports count as done.
TerminalPhaseStrict(state) == IF state = "done" THEN "done" ELSE "failed"

TerminalPhase(state) == IF state = "failed" THEN "failed" ELSE "done"

\* finalize_processing_run: the rename ...
Finalize(p) ==
    /\ pc[p] = "final"
    /\ LET movable == CanRename(run[p], "processing", TerminalPhase(out[p])) IN
       \/ /\ Works(movable)
          /\ fs' = Rename(run[p], "processing", TerminalPhase(out[p]))
          /\ Goto(p, IF out[p] = "done" THEN "prune" ELSE "unlock")
       \/ /\ Fails(movable)
          /\ Goto(p, "error")
          /\ UNCHANGED fs
    /\ UNCHANGED <<owner, run, from, fd, out, target, lists, reply, worldVars, crashes, probe>>

\* ... then, for a successful run, the prune; its errors are only logged.
Prune(p) ==
    /\ pc[p] = "prune"
    /\ LET d == Queue(p, "done") IN
       \/ /\ UNCHANGED ioErrors
          /\ fs' = IF d.exists THEN Put(run[p], "done", Pruned(d)) ELSE fs
       \/ IOError /\ UNCHANGED fs
    /\ Goto(p, "reply")
    /\ UNCHANGED <<owner, run, from, fd, out, target, lists, reply, worldVars, crashes, probe>>

\* ... or, for any other, the removal of the lock file, best effort.
Unlock(p) ==
    /\ pc[p] = "unlock"
    /\ LET ph == TerminalPhase(out[p])
           d == Queue(p, ph) IN
       \/ /\ UNCHANGED ioErrors
          /\ fs' = IF d.exists THEN Put(run[p], ph, WithLock(d, NoLock)) ELSE fs
       \/ IOError /\ UNCHANGED fs
    /\ Goto(p, "reply")
    /\ UNCHANGED <<owner, run, from, fd, out, target, lists, reply, worldVars, crashes, probe>>

\* Mutant: the answer is what the processor last decided.
ReplyFromMemory(p) ==
    /\ pc[p] = "reply"
    /\ Return(p, "processed", out[p])
    /\ UNCHANGED <<fs, run, from, out, target, lists, worldVars, faultVars, probe>>

\* terminal_response: the answer is read back from the terminal directory.
Reply(p) ==
    /\ pc[p] = "reply"
    /\ \/ /\ TerminalStatus(run[p]) \in PublishedStatus
          /\ Return(p, "processed", TerminalStatus(run[p]))
       \/ /\ TerminalStatus(run[p]) \notin PublishedStatus
          /\ ReturnError(p)
    /\ UNCHANGED <<fs, run, from, out, target, lists, worldVars, faultVars, probe>>

\* verified_terminal_status for a run someone else brought to its end.
Observe(p) ==
    /\ pc[p] = "observe"
    /\ \/ /\ TerminalStatus(run[p]) \in PublishedStatus
          /\ Return(p, "already_terminal", TerminalStatus(run[p]))
       \/ /\ TerminalStatus(run[p]) \notin PublishedStatus
          /\ ReturnError(p)
    /\ UNCHANGED <<fs, run, from, out, target, lists, worldVars, faultVars, probe>>

----------------------------------------------------------------------------
(* Failure of a run *)

\* write_run_failure, called while importing ("fail") or by the handler of a
\* failed recovery ("h"): the failure status, then the move to failed/.
PublishFailure(p) ==
    /\ pc[p] \in {"fail_status", "h_status"}
    /\ LET d == Queue(p, "processing") IN
       \/ /\ Works(d.exists)
          /\ fs' = Put(run[p], "processing", WithStatus(d, "failed"))
          /\ Decide(p, "failed")
          /\ Goto(p, IF pc[p] = "fail_status" THEN "fail_move" ELSE "h_move")
          /\ UNCHANGED <<owner, fd, reply>>
       \/ /\ Fails(d.exists)
          /\ \/ pc[p] = "fail_status" /\ Goto(p, "error") /\ UNCHANGED <<owner, fd, reply>>
             \/ pc[p] = "h_status" /\ ReturnError(p)
          /\ UNCHANGED <<fs, out>>
    /\ UNCHANGED <<run, from, target, lists, worldVars, crashes, probe>>

MoveFailure(p) ==
    /\ pc[p] \in {"fail_move", "h_move"}
    /\ LET movable == CanRename(run[p], "processing", "failed") IN
       \/ /\ Works(movable)
          /\ fs' = Rename(run[p], "processing", "failed")
          /\ Goto(p, "unlock")
          /\ UNCHANGED <<owner, fd, reply>>
       \/ /\ Fails(movable)
          /\ \/ pc[p] = "fail_move" /\ Goto(p, "error") /\ UNCHANGED <<owner, fd, reply>>
             \/ pc[p] = "h_move" /\ ReturnError(p)
          /\ UNCHANGED fs
    /\ UNCHANGED <<run, from, out, target, lists, worldVars, crashes, probe>>

\* An error of process_processing_run reaches the caller: after a claim it
\* moves the run to failed/, in a recovery it publishes a failure, if the
\* run is still there.
HandleError(p) ==
    /\ pc[p] = "error"
    /\ Goto(p, IF from[p] = "ready" THEN "to_failed"
               ELSE IF Exists(run[p], "processing") THEN "h_status"
               ELSE "reply")
    /\ UNCHANGED <<fs, owner, run, from, fd, out, target, lists, reply, worldVars,
                   faultVars, probe>>

\* move_to_failed: the move, and no status.
MoveToFailed(p) ==
    /\ pc[p] = "to_failed"
    /\ LET movable == CanRename(run[p], "processing", "failed") IN
       \/ /\ ~Exists(run[p], "processing")
          /\ Goto(p, "reply")
          /\ UNCHANGED <<fs, owner, fd, reply, out, ioErrors>>
       \/ /\ Works(movable)
          /\ fs' = Rename(run[p], "processing", "failed")
          /\ Decide(p, "failed")
          /\ Goto(p, "unlock")
          /\ UNCHANGED <<owner, fd, reply>>
       \/ /\ Exists(run[p], "processing") /\ Fails(movable)
          /\ ReturnError(p)
          /\ UNCHANGED <<fs, out>>
    /\ UNCHANGED <<run, from, target, lists, worldVars, crashes, probe>>

----------------------------------------------------------------------------
(* The world around a processor *)

\* A process dies: its flock goes, the transform it waited for stays.
Crash(p) ==
    /\ pc[p] # "idle"
    /\ crashes < MaxCrashes
    /\ crashes' = crashes + 1
    /\ Drop(p)
    /\ Goto(p, "idle")
    /\ orphans' = [orphans EXCEPT ![run[p]] = IF pc[p] = "wait" THEN @ + 1 ELSE @]
    /\ UNCHANGED <<fs, run, from, out, target, lists, reply, dest, imported, spawned,
                   ioErrors, probe>>

\* Any running transform of r may create what the destination was missing.
Transforming(r) == orphans[r] > 0 \/ \E p \in Procs : pc[p] = "wait" /\ run[p] = r

TransformWrites(r) ==
    /\ Transforming(r)
    /\ dest[r] \in {"missing", "dangling_symlink"}
    /\ \E s \in {"directory", "non_directory"} : dest' = [dest EXCEPT ![r] = s]
    /\ UNCHANGED <<fs, owner, procVars, orphans, imported, spawned, faultVars, probe>>

OrphanExits(r) ==
    /\ orphans[r] > 0
    /\ orphans' = [orphans EXCEPT ![r] = @ - 1]
    /\ UNCHANGED <<fs, owner, procVars, dest, imported, spawned, faultVars, probe>>

\* probe_processor_lock_readonly holds the lock it probes for a moment.
ProbeLock(o) ==
    /\ probe[o] = NoLock
    /\ \E r \in Runs :
          LET i == fs[r]["processing"].lock IN
          /\ i # NoLock /\ owner[i] = Nobody
          /\ probe' = [probe EXCEPT ![o] = i]
          /\ owner' = [owner EXCEPT ![i] = o]
    /\ UNCHANGED <<fs, procVars, worldVars, faultVars>>

EndProbe(o) ==
    /\ probe[o] # NoLock
    /\ probe' = [probe EXCEPT ![o] = NoLock]
    /\ owner' = Released(o)
    /\ UNCHANGED <<fs, procVars, worldVars, faultVars>>

----------------------------------------------------------------------------
(* Specification *)

\* A step of an invocation that has started.
Step(p) ==
    \/ ListReady(p) \/ NextRecovery(p) \/ NextClaim(p) \/ EndProcessOnce(p)
    \/ Claim(p) \/ Recheck(p) \/ FallThrough(p) \/ Recover(p) \/ OpenLock(p) \/ Flock(p)
    \/ ReadReadyInputs(p) \/ ClaimMove(p) \/ PublishMalformed(p) \/ MoveMalformed(p)
    \/ RecoverStatus(p) \/ StartImport(p) \/ CreateWork(p) \/ CheckStaged(p) \/ LoadPlan(p)
    \/ Spawn(p) \/ TransformSucceeds(p) \/ TransformFails(p) \/ WaitFails(p)
    \/ PublishStatus(p) \/ Finalize(p) \/ Prune(p) \/ Unlock(p) \/ Reply(p) \/ Observe(p)
    \/ PublishFailure(p) \/ MoveFailure(p) \/ HandleError(p) \/ MoveToFailed(p)

Next ==
    \/ \E p \in Procs : StartProcessRun(p) \/ StartProcessOnce(p) \/ Step(p) \/ Crash(p)
    \/ \E r \in Runs : TransformWrites(r) \/ OrphanExits(r)
    \/ \E o \in Observers : ProbeLock(o) \/ EndProbe(o)

Spec == Init /\ [][Next]_vars

\* A process that runs keeps running, its transform ends, run-state returns,
\* and the operator schedules process-once again and again.
Fairness ==
    /\ \A p \in Procs : WF_vars(Step(p))
    /\ \A p \in Batch : WF_vars(StartProcessOnce(p))
    /\ \A o \in Observers : WF_vars(EndProbe(o))

FairSpec == Spec /\ Fairness

----------------------------------------------------------------------------
(* Properties *)

\* Two processes are never inside the same run at once: whoever got past flock,
\* even on a lock file that has moved since it was opened (claim_ready_run,
\* recover_processing_run_if_unlocked), is alone until it drops the lock.
MutualExclusion ==
    \A p, q \in Procs :
        p # q /\ run[p] = run[q] => ~(pc[p] \in Holding /\ pc[q] \in Holding)

\* A status that says "done", which is what entitles the client to delete its
\* copy, is only ever on disk for a run of which one transform delivered all
\* its outputs (process_manifest_entry), whatever crashed, failed or was
\* replayed on the way.
DoneMeansImported ==
    \A r \in Runs, ph \in Phases : fs[r][ph].status = "done" => r \in imported

\* All attempts at a run place their output alike: a replay does not plan anew
\* from a destination that an earlier attempt has already changed
\* (load_or_resolve_destination_plan).
OneTarget ==
    \A r \in Runs : \A t, u \in spawned[r] : t = u

\* Without I/O errors a run is in one phase at a time, and in done/ or failed/
\* only with the status that belongs there, whatever crashes happen between
\* publication and rename (finalize_processing_run, write_run_failure).
TerminalPublished ==
    ioErrors = 0 =>
        \A r \in Runs, ph \in TerminalPhases :
            Exists(r, ph) =>
                /\ fs[r][ph].status \in PublishedStatus
                /\ fs[r][ph].status = "failed" <=> ph = "failed"
                /\ \A other \in Phases \ {ph} : ~Exists(r, other)

\* Without I/O errors a run whose status is published is never imported again,
\* neither by a recovery nor by a second process-run (recover_or_process_processing_run).
NoReplayAfterPublication ==
    ioErrors = 0 =>
        \A p \in Procs :
            pc[p] \in Importing \ {"final"} =>
                fs[run[p]]["processing"].status \notin PublishedStatus

\* What process-run told its caller about a terminal run stays true: the run
\* is terminal with the state the answer named (terminal_response).
AnswersStayTrue ==
    \A p \in Procs :
        reply[p].outcome \in {"processed", "already_terminal"} =>
            TerminalStatus(run[p]) = reply[p].state

\* What the client may conclude from the phase directories of a run
\* (verified_terminal_status).
Outcome ==
    [r \in Runs |-> IF ~HasTerminalDir(r) THEN "queued"
                    ELSE IF TerminalStatus(r) \in PublishedStatus THEN TerminalStatus(r)
                    ELSE "unpublished"]

Lifecycle == INSTANCE RunLifecycle WITH outcome <- Outcome

\* Whatever crashes, races and I/O errors happen, a run ends at most once, its
\* outcome never changes, and it ends as done only after an import: the
\* processors implement RunLifecycle (finalize_processing_run, move_to_failed).
ImplementsLifecycle == Lifecycle!Spec

\* What a process of this version must not interpret: its protocol, its status or its
\* inputs are of another version.  A lease that is not one at all condemns the run first.
Foreign(d) ==
    \/ d.lease = "old_protocol"
    \/ /\ d.lease # "malformed"
       /\ d.status = "incompatible" \/ (d.inputs = "old_version" /\ d.status = "none")

\* Without I/O errors a queued run of another version is left as it is, lock
\* file apart: no status, no move, no plan (ProcessingError::Incompatible).
ForeignUntouched ==
    [][ioErrors' = 0 =>
        \A r \in Runs, ph \in QueuePhases :
            Exists(r, ph) /\ Foreign(fs[r][ph]) =>
                [fs'[r][ph] EXCEPT !.lock = NoLock, !.aged = FALSE]
                    = [fs[r][ph] EXCEPT !.lock = NoLock, !.aged = FALSE]]_vars

\* A queued run that this version understands reaches done/ or failed/ although
\* processes crash and file operations fail (process_once_raw).
QueuedRunsEnd ==
    \A r \in Runs :
        (\E ph \in QueuePhases :
            /\ Exists(r, ph)
            /\ InputsVerdict(fs[r][ph]) # "incompatible"
            /\ fs[r][ph].status # "incompatible")
        ~> HasTerminalDir(r)

\* No invocation waits for another: each comes to its end (flock is LOCK_NB).
InvocationsEnd ==
    \A p \in Procs : pc[p] # "idle" ~> pc[p] = "idle"

----------------------------------------------------------------------------
(* The inductive invariants behind the safety properties *)

\* A directory that is not there has no contents.
AbsentEmpty == \A r \in Runs, ph \in Phases : Exists(r, ph) \/ fs[r][ph] = NoDir

\* A descriptor is open exactly from open(2) to the end of the holding steps,
\* and past flock the process owns it.
DescriptorsOpen ==
    \A p \in Procs :
        /\ fd[p] # NoLock <=> pc[p] \in Holding \cup {"flock"}
        /\ pc[p] \in Holding => owner[fd[p]] = p

\* All who opened the lock of one run have the same file open, and it is the
\* lock file of the run's directory for as long as the run is queued.
OneLockFile ==
    /\ \A p, q \in Procs :
          run[p] = run[q] /\ fd[p] # NoLock /\ fd[q] # NoLock => fd[p] = fd[q]
    /\ \A p \in Procs, ph \in QueuePhases :
          fd[p] # NoLock /\ Exists(run[p], ph) => fs[run[p]][ph].lock = fd[p]

\* A run is queued in one phase, and in processing/ while it is imported.
QueuedOnce ==
    /\ \A r \in Runs : ~(Exists(r, "ready") /\ Exists(r, "processing"))
    /\ \A p \in Procs : pc[p] \in Importing => Exists(run[p], "processing")

\* A run is in one phase at a time.
OnePhase == \A r \in Runs, a, b \in Phases : Exists(r, a) /\ Exists(r, b) => a = b

LockInv == AbsentEmpty /\ DescriptorsOpen /\ OneLockFile /\ QueuedOnce

\* What is published as done has been imported, and so has what is about to be.
ImportInv ==
    /\ DoneMeansImported
    /\ \A p \in Procs :
          pc[p] \in {"publish", "final"} /\ out[p] = "done" => run[p] \in imported

\* A queued run keeps the plan of the transforms started for it, and the plan
\* of the transform about to start.
PlanInv ==
    /\ OneTarget
    /\ \A r \in Runs, ph \in QueuePhases :
          Exists(r, ph) => \A t \in spawned[r] : fs[r][ph].plan = t
    /\ \A p \in Procs : pc[p] = "spawn" => fs[run[p]]["processing"].plan = target[p]

\* What p may rely on while no I/O error has happened: the inputs it found are the inputs
\* it works on, nothing is published before it publishes, and it moves what it published.
Sound(p) ==
    LET found == fs[run[p]]["ready"]
        claimed == fs[run[p]]["processing"] IN
    /\ pc[p] = "status" => from[p] = "processing"
    /\ pc[p] = "claim_move" => InputsVerdict(found) \in {"ok", "unsupported"}
    /\ pc[p] \in {"mal_status", "mal_move"} => InputsVerdict(found) = "malformed"
    /\ pc[p] = "mal_move" => found.status = "failed"
    /\ pc[p] = "start" /\ from[p] = "ready" => InputsVerdict(claimed) \in {"ok", "unsupported"}
    /\ pc[p] \in {"start"} \cup (Importing \ {"final"}) => claimed.status = "none"
    /\ pc[p] = "final" => claimed.status = out[p]
    /\ pc[p] \in {"fail_move", "h_move"} => claimed.status = "failed"
    /\ pc[p] = "fail_status" /\ from[p] = "ready" => claimed.exists
    /\ pc[p] = "error" => from[p] = "processing"
    /\ pc[p] # "to_failed"
    /\ pc[p] \in Importing \cup (Failing \ {"to_failed"}) => ~Foreign(claimed)

\* Only a malformed run gets a status while it is ready.
ReadySound ==
    \A r \in Runs :
        \/ fs[r]["ready"].status = "none"
        \/ fs[r]["ready"].status = "failed" /\ InputsVerdict(fs[r]["ready"]) = "malformed"

\* What is in a terminal phase has the status that belongs there.
TerminalSound ==
    \A r \in Runs, ph \in TerminalPhases :
        Exists(r, ph) => /\ fs[r][ph].status \in PublishedStatus
                         /\ fs[r][ph].status = "failed" <=> ph = "failed"

PublishedInv == ioErrors = 0 => ReadySound /\ TerminalSound /\ \A p \in Procs : Sound(p)

\* A process-run never enters the loop of process-once, which alone keeps no answer; what
\* a process-run has answered is what the run's terminal directory says.
AnswersInv ==
    \A p \in Procs :
        /\ Targeted(p) => pc[p] \notin {"scan", "loop"}
        /\ ~Targeted(p) => reply[p] = NoReply
        /\ reply[p].outcome \in {"processed", "already_terminal"} =>
              /\ reply[p].state \in PublishedStatus
              /\ Outcome[run[p]] = reply[p].state

=============================================================================
