----------------------------- MODULE Supervision -----------------------------
(***************************************************************************)
(* How a client drives its run to the end (run.rs,                         *)
(* drive_server_until_terminal): it polls run-state, spawns process-run    *)
(* over SSH when nobody is at the run, and judges the exit of process-run  *)
(* by a fresh look at the run.  The server is what ServerContract promises *)
(* of it, with the holder of each run's processor.lock; other processors   *)
(* (process-once from cron, a process-run whose connection was lost) and   *)
(* the collector are at work beside the client.                            *)
(***************************************************************************)
EXTENDS Naturals, Operations

CONSTANTS
    MaxFaults   \* bound: commands lost or failed, processors that die

ASSUME FaultsAssumption == MaxFaults \in Nat

VARIABLES
    place,      \* place[r]: where the run is, or how it has ended
    imported,   \* the runs whose outputs were delivered
    holder,     \* holder[r]: who holds the run's processor.lock
    worker,     \* worker[k]: the process-run client k has spawned
    drive,      \* drive[k]: the drive loop of client k
    faults      \* commands lost and processors died so far

Server == INSTANCE ServerContract

serverSide == <<place, imported, holder>>
driveVars == <<serverSide, worker, drive, faults>>

Working == {"called", "working"}

Exits == {"processed", "already_terminal", "already_active", "claim_in_progress",
          "remote_failure", "transport_failure"}

DriveSteps == {"idle", "poll", "probe", "check", "fresh", "fresh_probe", "judge",
               "terminal", "failed"}

Views == Server!Places \cup {"starting"}

\* MAX_NO_PROGRESS_COUNT
MaxNoProgress == 3

NoDrive == [pc |-> "idle", run |-> CHOOSE r \in Runs : TRUE, phase |-> "starting",
            obs |-> "unclear", outcome |-> "none", attempts |-> 0]

SupervisionTypeOK ==
    /\ place \in [Runs -> Server!Places]
    /\ imported \in SUBSET Runs
    /\ holder \in [Runs -> Clients \cup {"nobody", "other"}]
    /\ worker \in [Clients -> {"none"} \cup Working \cup Exits]
    /\ drive \in [Clients -> [pc : DriveSteps, run : Runs, phase : Views,
                              obs : {"active", "idle", "unclear"},
                              outcome : {"none"} \cup Exits, attempts : 0..MaxNoProgress]]
    /\ faults \in 0..MaxFaults

SupervisionInit ==
    /\ place = [r \in Runs |-> "absent"]
    /\ imported = {}
    /\ holder = [r \in Runs |-> "nobody"]
    /\ worker = [k \in Clients |-> "none"]
    /\ drive = [k \in Clients |-> NoDrive]
    /\ faults = 0

Fault == faults < MaxFaults /\ faults' = faults + 1

\* The run is taken by a processor, from ready/ or, abandoned, in processing/.
Take(r, h) ==
    /\ holder[r] = "nobody"
    /\ holder' = [holder EXCEPT ![r] = h]
    /\ \/ Server!Claim(r)
       \/ place[r] = "processing" /\ UNCHANGED <<place, imported>>

LetGo(r) == holder' = [holder EXCEPT ![r] = "nobody"]

----------------------------------------------------------------------------
(* process-run at the server, on behalf of client k *)

Vanished == {"absent", "incoming", "corrupt", "collected"}

\* process_run_inner: the run is taken, or found taken, ended or gone.
WorkerArrives(k) ==
    LET r == drive[k].run
        Reply(exit) == worker' = [worker EXCEPT ![k] = exit]
        Stays == UNCHANGED serverSide IN
    /\ worker[k] = "called"
    /\ \/ Take(r, k) /\ Reply("working") /\ UNCHANGED faults
       \/ /\ place[r] = "ready" /\ holder[r] = "nobody"
          /\ Server!End(r, "failed") /\ Reply("processed")
          /\ UNCHANGED <<holder, faults>>
       \/ /\ place[r] = "ready" /\ holder[r] # "nobody"
          /\ Reply("claim_in_progress") /\ Stays /\ UNCHANGED faults
       \/ /\ place[r] = "processing" /\ holder[r] # "nobody"
          /\ Reply("already_active") /\ Stays /\ UNCHANGED faults
       \/ /\ place[r] \in Server!Verdicts
          /\ Reply("already_terminal") /\ Stays /\ UNCHANGED faults
       \/ /\ place[r] \in Vanished
          /\ Reply("remote_failure") /\ Stays /\ UNCHANGED faults
    /\ UNCHANGED drive

\* The holder delivers the outputs, and ends the run with a verdict.
Imports(r) ==
    /\ holder[r] # "nobody" /\ r \notin imported
    /\ Server!Import(r)
    /\ UNCHANGED <<holder, worker, drive, faults>>

WorkerEnds(k) ==
    LET r == drive[k].run IN
    /\ worker[k] = "working" /\ holder[r] = k
    /\ \/ /\ \E verdict \in {"done", "failed"} : Server!End(r, verdict)
          /\ worker' = [worker EXCEPT ![k] = "processed"]
          /\ UNCHANGED faults
       \/ /\ \/ place[r] \notin {"ready", "processing"} /\ UNCHANGED faults
             \/ Fault
          /\ worker' = [worker EXCEPT ![k] = "remote_failure"]
          /\ UNCHANGED <<place, imported>>
    /\ LetGo(r)
    /\ UNCHANGED drive

\* What happens to the lock when the SSH connection of k is cut: process-run at
\* the server goes on without anybody listening, or dies with the connection.
Disowned(k) ==
    \E h \in {"other", "nobody"} : holder' = [r \in Runs |-> IF holder[r] = k THEN h ELSE holder[r]]

ConnectionLost(k) ==
    /\ worker[k] \in Working /\ Fault
    /\ worker' = [worker EXCEPT ![k] = "transport_failure"]
    /\ Disowned(k)
    /\ UNCHANGED <<place, imported, drive>>

----------------------------------------------------------------------------
(* Other processors, and the collector *)

\* Of other processors the moment between lock and claim is seen.
OtherLocks(r) ==
    /\ place[r] \in {"ready", "processing"} /\ holder[r] = "nobody"
    /\ holder' = [holder EXCEPT ![r] = "other"]
    /\ UNCHANGED <<place, imported, worker, drive, faults>>

OtherClaims(r) ==
    /\ holder[r] = "other" /\ Server!Claim(r)
    /\ UNCHANGED <<holder, worker, drive, faults>>

OtherEnds(r) ==
    /\ holder[r] = "other"
    /\ \/ \E verdict \in {"done", "failed"} : Server!End(r, verdict)
       \/ place[r] \notin {"ready", "processing"} /\ UNCHANGED <<place, imported>>
    /\ LetGo(r)
    /\ UNCHANGED <<worker, drive, faults>>

OtherDies(r) ==
    /\ holder[r] = "other" /\ Fault
    /\ LetGo(r)
    /\ UNCHANGED <<place, imported, worker, drive>>

Collects(r) ==
    /\ Server!Expire(r) \/ Server!LoseStatus(r) \/ Server!Collect(r)
    /\ UNCHANGED <<holder, worker, drive, faults>>

----------------------------------------------------------------------------
(* The drive loop *)

StartDrive(k, r) == drive' = [drive EXCEPT ![k] = [NoDrive EXCEPT !.pc = "poll", !.run = r]]

DriveGoto(k, step) == drive' = [drive EXCEPT ![k].pc = step]

\* terminate_worker_on_error: the local ssh is killed; what it had started at
\* the server may go on.
Fails(k) ==
    /\ DriveGoto(k, "failed")
    /\ worker' = [worker EXCEPT ![k] = "none"]
    /\ Disowned(k)

\* finish_worker_after_terminal: so it is when the grace period is over.
Returns(k, view) ==
    /\ drive' = [drive EXCEPT ![k] = [view EXCEPT !.pc = "terminal"]]
    /\ worker' = [worker EXCEPT ![k] = "none"]
    /\ Disowned(k)

\* One look at the run: the place, and for a run in processing/ the lock a
\* moment later.
LooksAt(k, probe, then) ==
    LET r == drive[k].run IN
    /\ drive' = [drive EXCEPT ![k].phase = place[r], ![k].obs = "unclear",
                              ![k].pc = IF place[r] = "processing" THEN probe ELSE then]
    /\ UNCHANGED faults

Probes(k, then) ==
    LET r == drive[k].run
        obs == IF place[r] # "processing" THEN "unclear"
               ELSE IF holder[r] = "nobody" THEN "idle" ELSE "active" IN
    drive' = [drive EXCEPT ![k].obs = obs, ![k].pc = then]

\* A lost poll is no matter while a process-run is under way.
Poll(k) ==
    /\ drive[k].pc = "poll"
    /\ \/ LooksAt(k, "probe", "check") /\ UNCHANGED <<serverSide, worker>>
       \/ worker[k] # "none" /\ Fault /\ DriveGoto(k, "check") /\ UNCHANGED <<serverSide, worker>>
       \/ worker[k] = "none" /\ Fault /\ Fails(k) /\ UNCHANGED <<place, imported>>

Probe(k) ==
    /\ drive[k].pc = "probe"
    /\ Probes(k, "check")
    /\ UNCHANGED <<serverSide, worker, faults>>

\* Mutant: an abandoned run is waited for.
SpawnsWhenReady(k, view) == worker[k] = "none" /\ view.phase = "ready"

\* Nobody is at the run, and no process-run of k is under way.
Spawns(k, view) == worker[k] = "none" /\ (view.phase = "ready" \/ view.obs = "idle")

\* Who is at the run cannot be told.
Unclear(k, view) ==
    worker[k] = "none" /\ view.phase = "processing" /\ view.obs = "unclear"

\* Spawn process-run, or wait for who is at the run, or give up.
Decide(k, view) ==
    \/ /\ view.phase \in {"ready", "processing"} /\ ~Unclear(k, view)
       /\ worker' = IF Spawns(k, view) THEN [worker EXCEPT ![k] = "called"] ELSE worker
       /\ drive' = [drive EXCEPT ![k] = [view EXCEPT !.pc = "poll", !.outcome = "none"]]
       /\ UNCHANGED <<holder, faults>>
    \/ /\ view.phase \notin {"ready", "processing"} \/ Unclear(k, view)
       /\ Fails(k)
       /\ UNCHANGED faults
    \/ /\ Spawns(k, view) /\ Fault
       /\ Fails(k)

Terminal(view) == view.phase \in Server!Verdicts

\* The run has ended; or process-run has, which calls for a fresh look; or
\* neither.
Check(k) ==
    /\ drive[k].pc = "check"
    /\ \/ /\ Terminal(drive[k])
          /\ Returns(k, drive[k])
          /\ UNCHANGED faults
       \/ /\ ~Terminal(drive[k]) /\ worker[k] \in Exits
          /\ drive' = [drive EXCEPT ![k].pc = "fresh", ![k].outcome = worker[k]]
          /\ worker' = [worker EXCEPT ![k] = "none"]
          /\ UNCHANGED <<holder, faults>>
       \/ /\ ~Terminal(drive[k]) /\ worker[k] \notin Exits
          /\ Decide(k, drive[k])
    /\ UNCHANGED <<place, imported>>

FreshLook(k) ==
    /\ drive[k].pc = "fresh"
    /\ \/ LooksAt(k, "fresh_probe", "judge") /\ UNCHANGED <<serverSide, worker>>
       \/ Fault /\ Fails(k) /\ UNCHANGED <<place, imported>>

FreshProbe(k) ==
    /\ drive[k].pc = "fresh_probe"
    /\ Probes(k, "judge")
    /\ UNCHANGED <<serverSide, worker, faults>>

SeenActive(view) == view.phase = "processing" /\ view.obs = "active"

\* handle_process_run_success and the arms for the two failures: which exits of
\* process-run end the drive although the run has not ended.
Contradicts(view) ==
    \/ view.outcome \in {"processed", "already_terminal"}
    \/ view.outcome = "already_active" /\ ~SeenActive(view)
    \/ view.outcome = "claim_in_progress" /\ view.phase = "ready"
           /\ view.attempts = MaxNoProgress
    \/ view.outcome = "remote_failure" /\ ~SeenActive(view)

Judge(k) ==
    LET view == drive[k]
        counted == view.outcome = "claim_in_progress" /\ view.phase = "ready" IN
    /\ view.pc = "judge"
    /\ \/ /\ Terminal(view) /\ view.outcome # "already_active"
          /\ Returns(k, view)
          /\ UNCHANGED faults
       \/ /\ ~Terminal(view) \/ view.outcome = "already_active"
          /\ Contradicts(view)
          /\ Fails(k)
          /\ UNCHANGED faults
       \/ /\ ~Terminal(view) /\ ~Contradicts(view)
          /\ Decide(k, IF counted THEN [view EXCEPT !.attempts = @ + 1] ELSE view)
    /\ UNCHANGED <<place, imported>>

DriveStep(k) ==
    \/ Poll(k) \/ Probe(k) \/ Check(k) \/ FreshLook(k) \/ FreshProbe(k) \/ Judge(k)

ServerStep ==
    \/ \E k \in Clients : WorkerArrives(k) \/ WorkerEnds(k) \/ ConnectionLost(k)
    \/ \E r \in Runs :
          Imports(r) \/ OtherLocks(r) \/ OtherClaims(r) \/ OtherEnds(r) \/ OtherDies(r) \/ Collects(r)

=============================================================================
