------------------------------ MODULE ClientRun ------------------------------
(***************************************************************************)
(* An invocation of purgery-client sync (run.rs): it first settles what    *)
(* earlier invocations have left behind, ledgers and persisted runs, and   *)
(* refuses to start anything new if a run cannot be settled; then it does  *)
(* its own operation, persisting how far it is before every step that      *)
(* cannot be repeated.  It may be killed at any moment, and every command  *)
(* it sends may be lost, or its answer.                                    *)
(***************************************************************************)
EXTENDS Supervision, Cleanup

CONSTANTS
    Direct,     \* the operations without a transform: rsync straight to the destination
    MaxCrashes  \* bound: invocations killed

ASSUME DirectAssumption == Direct \subseteq Runs /\ MaxCrashes \in Nat

VARIABLES
    client,     \* client[k]: the invocation in slot k
    state,      \* state[r]: the file runs/<run>/state.toml
    sent,       \* history: sent[r][f], what rsync has transferred
    begun,      \* history: the operations started
    settled,    \* history: the runs whose outcome a client has dealt with
    crashes     \* invocations killed so far

clientVars == <<driveVars, cleanupVars, client, state, sent, begun, settled, crashes>>

Persisted == {"none", "finish_pending", "waiting", "seen", "complete"}

ClientSteps == {"off", "ledgers", "ledger", "runs", "local", "local_tidy", "forget_local", "capture",
                "begin", "send", "pending", "healthy", "finish", "waiting", "driving", "read",
                "seen", "confirm", "tidy", "tidying", "complete", "retire", "forget"}

NoState == [phase |-> "none", verdict |-> "none"]

Off == [pc |-> "off", run |-> CHOOSE r \in Runs : TRUE, todo |-> {}, resumes |-> FALSE,
        refuses |-> FALSE, verdict |-> "none", clean |-> FALSE]

Outcomes == {"none"} \cup Server!Verdicts

ClientTypeOK ==
    /\ SupervisionTypeOK /\ CleanupTypeOK
    /\ client \in [Clients -> [pc : ClientSteps, run : Runs, todo : SUBSET Runs,
                               resumes : BOOLEAN, refuses : BOOLEAN, verdict : Outcomes,
                               clean : BOOLEAN]]
    /\ state \in [Runs -> [phase : Persisted, verdict : Outcomes]]
    /\ sent \in [Runs -> [Files -> {Gone} \cup Versions]]
    /\ begun \in SUBSET Runs /\ settled \in SUBSET Runs
    /\ crashes \in 0..MaxCrashes

ClientInit ==
    /\ SupervisionInit /\ CleanupInit
    /\ client = [k \in Clients |-> Off]
    /\ state = [r \in Runs |-> NoState]
    /\ sent = [r \in Runs |-> [f \in Files |-> Gone]]
    /\ begun = {} /\ settled = {}
    /\ crashes = 0

----------------------------------------------------------------------------

At(k, step) == client[k].pc = step
Goto(k, step) == client' = [client EXCEPT ![k].pc = step]

historyVars == <<sent, begun, settled>>
Local(k) == UNCHANGED <<driveVars, localVars, historyVars, crashes>>
Quiet == UNCHANGED <<driveVars, cleanupVars, state, historyVars, crashes>>

\* An error ends the operation.  In resume_runs the next run is looked at, but
\* the invocation starts nothing new.
Fail(k) ==
    client' = [client EXCEPT ![k] =
        IF client[k].resumes
        THEN [client[k] EXCEPT !.pc = "runs", !.refuses = TRUE, !.resumes = FALSE]
        ELSE Off]

\* The operation is over.
Over(k) ==
    client' = [client EXCEPT ![k] =
        IF client[k].resumes THEN [client[k] EXCEPT !.pc = "runs", !.resumes = FALSE] ELSE Off]

\* A command that is lost on the way, or fails for a reason of its own.
Lost(k) == Fault /\ Fail(k) /\ UNCHANGED <<serverSide, worker, drive>>

\* persist_client_run_state: written beside its place and renamed.
Persist(r, phase, verdict) ==
    state' = [state EXCEPT ![r] = [phase |-> phase, verdict |-> verdict]]

----------------------------------------------------------------------------
(* resume_pending_cleanups *)

Start(k) ==
    /\ At(k, "off")
    /\ client' = [client EXCEPT ![k] = [Off EXCEPT !.pc = "ledgers",
                                                   !.todo = {r \in Runs : ledger[r].written}]]
    /\ Quiet

ResumeLedger(k) ==
    /\ At(k, "ledgers")
    /\ \/ \E r \in client[k].todo :
             /\ client' = [client EXCEPT ![k].todo = @ \ {r}, ![k].run = r,
                              ![k].pc = IF ledger[r].written THEN "ledger" ELSE "ledgers"]
             /\ IF ledger[r].written THEN TidyUp(k, r) ELSE UNCHANGED tidy
       \/ /\ client[k].todo = {}
          /\ client' = [client EXCEPT ![k].pc = "runs",
                                      ![k].todo = {r \in Runs : state[r].phase # "none"}]
          /\ UNCHANGED tidy
    /\ UNCHANGED <<driveVars, localVars, ledger, state, historyVars, crashes>>

TidyIsOver(k) == tidy[k].pc = "over"

\* Mutant: a cleaned ledger is retired although its run is still to be resumed.
LedgerRetiredEarly(k) == Complete(tidy[k].book) /\ ledger[client[k].run].written

\* A ledger all of which is cleaned is retired, unless the run needs it still.
LedgerRetired(k) ==
    /\ Complete(tidy[k].book) /\ ledger[client[k].run].written
    /\ state[client[k].run].phase = "none"

LedgerResumed(k) ==
    /\ At(k, "ledger") /\ TidyIsOver(k)
    /\ tidy' = [tidy EXCEPT ![k] = NoTidy]
    /\ Goto(k, "ledgers")
    /\ IF LedgerRetired(k) THEN Retire(client[k].run) ELSE UNCHANGED ledger
    /\ UNCHANGED <<driveVars, localVars, state, historyVars, crashes>>

----------------------------------------------------------------------------
(* resume_runs, drain_one *)

\* Mutant: a run that was accepted is not driven again.
StepAfterAccept == [finish_pending |-> "finish", waiting |-> "read", seen |-> "confirm"]

StepOf == [finish_pending |-> "finish", waiting |-> "waiting", seen |-> "confirm"]

\* The runs are taken in the order of their names, which says nothing.
ResumeRun(k) ==
    /\ At(k, "runs")
    /\ \/ \E r \in client[k].todo :
             LET c == [client[k] EXCEPT !.todo = @ \ {r}, !.run = r] IN
             client' = [client EXCEPT ![k] =
                 CASE state[r].phase = "none" -> c
                   [] state[r].phase = "complete" -> [c EXCEPT !.pc = "local", !.resumes = TRUE]
                   [] OTHER -> [c EXCEPT !.pc = StepOf[state[r].phase], !.resumes = TRUE,
                                         !.verdict = state[r].verdict]]
       \/ /\ client[k].todo = {} /\ client[k].refuses
          /\ client' = [client EXCEPT ![k] = Off]
       \/ /\ client[k].todo = {} /\ ~client[k].refuses
          /\ Goto(k, "capture")
    /\ Quiet

\* A server that cannot be asked for its version fails the resumption.
ResumeUnanswered(k) ==
    /\ At(k, "runs") /\ Fault
    /\ \E r \in client[k].todo :
          /\ state[r].phase \notin {"none", "complete"}
          /\ client' = [client EXCEPT ![k].todo = @ \ {r}, ![k].refuses = TRUE]
    /\ UNCHANGED <<serverSide, worker, drive, cleanupVars, state, historyVars, crashes>>

\* finish_cleanup_complete_resume: what can be done without the server.
ResumeComplete(k) ==
    LET r == client[k].run IN
    /\ At(k, "local")
    /\ IF ledger[r].written
       THEN TidyUp(k, r) /\ Goto(k, "local_tidy")
       ELSE UNCHANGED tidy /\ Goto(k, "forget_local")
    /\ UNCHANGED <<driveVars, localVars, ledger, state, historyVars, crashes>>

CompleteResumed(k) ==
    /\ At(k, "local_tidy") /\ TidyIsOver(k)
    /\ tidy' = [tidy EXCEPT ![k] = NoTidy]
    /\ Goto(k, "forget_local")
    /\ IF Complete(tidy[k].book) /\ ledger[client[k].run].written
       THEN Retire(client[k].run) ELSE UNCHANGED ledger
    /\ UNCHANGED <<driveVars, localVars, state, historyVars, crashes>>

ForgetLocally(k) ==
    /\ At(k, "forget_local")
    /\ state' = [state EXCEPT ![client[k].run] = NoState]
    /\ settled' = settled \cup {client[k].run}
    /\ Over(k)
    /\ UNCHANGED <<driveVars, cleanupVars, sent, begun, crashes>>

----------------------------------------------------------------------------
(* run_sync: a new operation, up to the upload *)

\* The source must be there; its identity is recorded before anything is sent.
NewOperation(k) ==
    /\ At(k, "capture")
    /\ \/ \E r \in Runs \ begun :
             /\ Capture(r)
             /\ begun' = begun \cup {r}
             /\ client' = [client EXCEPT ![k].run = r,
                                         ![k].pc = IF r \in Direct THEN "send" ELSE "begin"]
       \/ /\ ~sourceDir \/ begun = Runs
          /\ client' = [client EXCEPT ![k] = Off]
          /\ UNCHANGED <<ledger, begun>>
    /\ UNCHANGED <<driveVars, localVars, tidy, state, sent, settled, crashes>>

\* A begin-run whose answer is lost leaves an upload nobody will finish.
Begin(k) ==
    /\ At(k, "begin")
    /\ \/ /\ Server!Upload(client[k].run)
          /\ \/ Goto(k, "send") /\ UNCHANGED faults
             \/ Fault /\ Fail(k)
          /\ UNCHANGED <<holder, worker, drive>>
       \/ Lost(k)
    /\ UNCHANGED <<cleanupVars, state, historyVars, crashes>>

\* Mutant: the identity is recorded after the transfer.
SendThenCapture(k) ==
    LET r == client[k].run IN
    /\ At(k, "send")
    /\ sent' = [sent EXCEPT ![r] = ledger[r].captured]
    /\ ledger' = [ledger EXCEPT ![r].captured = local]
    /\ Goto(k, IF r \in Direct THEN "confirm" ELSE "pending")
    /\ UNCHANGED <<driveVars, localVars, tidy, state, begun, settled, crashes>>

\* run.toml, manifest.toml, prepare-run and rsync, with the heartbeat beside
\* them; rsync takes the files as they are by now.
Send(k) ==
    LET r == client[k].run IN
    /\ At(k, "send")
    /\ \/ /\ sourceDir
          /\ sent' = [sent EXCEPT ![r] = local]
          /\ Goto(k, IF r \in Direct THEN "confirm" ELSE "pending")
          /\ UNCHANGED <<faults>>
       \/ ~sourceDir /\ Fail(k) /\ UNCHANGED <<sent, faults>>
       \/ Fault /\ Fail(k) /\ UNCHANGED sent
    /\ UNCHANGED <<serverSide, worker, drive, cleanupVars, state, begun, settled, crashes>>

----------------------------------------------------------------------------
(* run_sync, drain_one: from the upload to the verdict *)

\* Mutant: nothing is persisted before finish-run is sent.
PendingUnpersisted(k) ==
    /\ At(k, "pending")
    /\ Goto(k, "healthy")
    /\ Quiet

PersistPending(k) ==
    /\ At(k, "pending")
    /\ Persist(client[k].run, "finish_pending", "none")
    /\ Goto(k, "healthy")
    /\ UNCHANGED <<driveVars, cleanupVars, historyVars, crashes>>

\* A failed heartbeat gives the run up before finish-run; it stays persisted.
IsHealthy(k) ==
    /\ At(k, "healthy")
    /\ \/ Goto(k, "finish") /\ UNCHANGED <<serverSide, worker, drive, faults>>
       \/ Lost(k)
    /\ UNCHANGED <<cleanupVars, state, historyVars, crashes>>

\* finish-run, also of a run that has been accepted before.
Finish(k) ==
    LET r == client[k].run IN
    /\ At(k, "finish")
    /\ \/ /\ \/ Server!Accept(r)
             \/ place[r] \in {"ready", "processing"} \cup Server!Verdicts
                   /\ UNCHANGED <<place, imported>>
          /\ \/ Persist(r, "waiting", "none") /\ Goto(k, "waiting") /\ UNCHANGED faults
             \/ Fault /\ Fail(k) /\ UNCHANGED state
          /\ UNCHANGED <<holder, worker, drive>>
       \/ place[r] \in {"absent", "corrupt", "collected"} /\ Fail(k) /\ UNCHANGED <<driveVars, state>>
       \/ Lost(k) /\ UNCHANGED state
    /\ UNCHANGED <<cleanupVars, historyVars, crashes>>

DriveToEnd(k) ==
    /\ At(k, "waiting")
    /\ StartDrive(k, client[k].run)
    /\ Goto(k, "driving")
    /\ UNCHANGED <<serverSide, worker, faults, cleanupVars, state, historyVars, crashes>>

Driven(k) ==
    /\ At(k, "driving")
    /\ \/ drive[k].pc = "terminal" /\ Goto(k, "read")
       \/ drive[k].pc = "failed" /\ Fail(k)
    /\ drive' = [drive EXCEPT ![k] = NoDrive]
    /\ UNCHANGED <<serverSide, worker, faults, cleanupVars, state, historyVars, crashes>>

ReadStatus(k) ==
    LET r == client[k].run IN
    /\ At(k, "read")
    /\ \/ /\ place[r] \in Server!Verdicts
          /\ client' = [client EXCEPT ![k].verdict = place[r], ![k].pc = "seen"]
          /\ UNCHANGED <<serverSide, worker, drive, faults>>
       \/ place[r] \notin Server!Verdicts /\ Fail(k) /\ UNCHANGED <<serverSide, worker, drive, faults>>
       \/ Lost(k)
    /\ UNCHANGED <<cleanupVars, state, historyVars, crashes>>

PersistSeen(k) ==
    /\ At(k, "seen")
    /\ Persist(client[k].run, "seen", client[k].verdict)
    /\ Goto(k, "confirm")
    /\ UNCHANGED <<driveVars, cleanupVars, historyVars, crashes>>

----------------------------------------------------------------------------
(* From the verdict to the end *)

\* What gives the authority to delete: the transfer, or that the entry was
\* imported.
Authority(k) == client[k].run \in Direct \/ client[k].verdict = "done"

\* Without its ledger the operation cannot go on.
ConfirmImports(k) ==
    LET r == client[k].run IN
    /\ At(k, "confirm")
    /\ \/ /\ Confirm(r, Authority(k))
          /\ Goto(k, "tidy")
       \/ /\ ~ledger[r].written
          /\ Fail(k)
          /\ UNCHANGED ledger
    /\ UNCHANGED <<driveVars, localVars, tidy, state, historyVars, crashes>>

\* process_cleanup_state_file reads the ledger anew.
TidyRun(k) ==
    LET r == client[k].run IN
    /\ At(k, "tidy")
    /\ \/ ledger[r].written /\ TidyUp(k, r) /\ Goto(k, "tidying")
       \/ ~ledger[r].written /\ Fail(k) /\ UNCHANGED tidy
    /\ UNCHANGED <<driveVars, localVars, ledger, state, historyVars, crashes>>

\* Something that stays behind, changed or not tracked, is no error; the ledger
\* stays with it.
TidyDone(k) ==
    LET full == Complete(tidy[k].book) IN
    /\ At(k, "tidying") /\ TidyIsOver(k)
    /\ tidy' = [tidy EXCEPT ![k] = NoTidy]
    /\ \/ /\ client[k].run \notin Direct
          /\ client' = [client EXCEPT ![k].pc = "complete", ![k].clean = full]
       \/ /\ client[k].run \in Direct
          /\ client' = [client EXCEPT ![k] = IF full THEN [@ EXCEPT !.pc = "retire"] ELSE Off]
    /\ UNCHANGED <<driveVars, localVars, ledger, state, historyVars, crashes>>

PersistComplete(k) ==
    /\ At(k, "complete")
    /\ Persist(client[k].run, "complete", "none")
    /\ Goto(k, IF client[k].clean THEN "retire" ELSE "forget")
    /\ UNCHANGED <<driveVars, cleanupVars, historyVars, crashes>>

RetireLedger(k) ==
    LET r == client[k].run IN
    /\ At(k, "retire")
    /\ \/ /\ Retire(r)
          /\ IF r \in Direct THEN Over(k) ELSE Goto(k, "forget")
       \/ ~ledger[r].written /\ Fail(k) /\ UNCHANGED ledger
    /\ UNCHANGED <<driveVars, localVars, tidy, state, historyVars, crashes>>

\* remove_client_run_state; an outcome other than done is an error all the same.
Forget(k) ==
    LET r == client[k].run IN
    /\ At(k, "forget")
    /\ state' = [state EXCEPT ![r] = NoState]
    /\ settled' = settled \cup {r}
    /\ IF client[k].verdict = "done" THEN Over(k) ELSE Fail(k)
    /\ UNCHANGED <<driveVars, cleanupVars, sent, begun, crashes>>

----------------------------------------------------------------------------

\* What is volatile is gone; process-run at the server may go on.
Crash(k) ==
    /\ ~At(k, "off") /\ crashes < MaxCrashes
    /\ crashes' = crashes + 1
    /\ client' = [client EXCEPT ![k] = Off]
    /\ tidy' = [tidy EXCEPT ![k] = NoTidy]
    /\ drive' = [drive EXCEPT ![k] = NoDrive]
    /\ worker' = [worker EXCEPT ![k] = "none"]
    /\ Disowned(k)
    /\ UNCHANGED <<place, imported, faults, localVars, ledger, state, historyVars>>

ClientStep(k) ==
    \/ ResumeLedger(k) \/ LedgerResumed(k) \/ ResumeRun(k) \/ ResumeComplete(k)
    \/ CompleteResumed(k) \/ ForgetLocally(k) \/ NewOperation(k) \/ Begin(k) \/ Send(k)
    \/ PersistPending(k) \/ IsHealthy(k) \/ Finish(k) \/ DriveToEnd(k) \/ Driven(k)
    \/ ReadStatus(k) \/ PersistSeen(k) \/ ConfirmImports(k) \/ TidyRun(k) \/ TidyDone(k)
    \/ PersistComplete(k) \/ RetireLedger(k) \/ Forget(k)

RestOfClient == <<client, state, historyVars, crashes>>

Drives(k) == DriveStep(k) /\ UNCHANGED <<cleanupVars, RestOfClient>>
Tidies(k) == TidyStep(k) /\ UNCHANGED <<driveVars, RestOfClient>>
OutOfReach == UNCHANGED <<cleanupVars, RestOfClient>>
ServerActs == ServerStep /\ OutOfReach
UserWrites == (\E f \in Files : Write(f)) /\ UNCHANGED <<driveVars, RestOfClient>>

\* The invocation goes on, in whatever it is at.
Advances(k) == Start(k) \/ ClientStep(k) \/ Drives(k) \/ Tidies(k)

ClientNext ==
    \/ \E k \in Clients : Advances(k) \/ ResumeUnanswered(k) \/ Crash(k)
    \/ ServerActs
    \/ UserWrites

ClientSpec == ClientInit /\ [][ClientNext]_clientVars

\* Clients are started again and again and go on while they run; what processes
\* a run gets somewhere with it.
ClientFairness ==
    /\ \A k \in Clients :
          /\ WF_clientVars(Advances(k))
          /\ WF_clientVars((WorkerArrives(k) \/ WorkerEnds(k)) /\ OutOfReach)
    /\ \A r \in Runs : WF_clientVars(OtherEnds(r) /\ OutOfReach)

FairClientSpec == ClientSpec /\ ClientFairness

----------------------------------------------------------------------------
(* Properties *)

\* A version of a file that is deleted has been delivered: it was sent, and the
\* run it was sent with was imported, or it went straight to the destination.
\* What the user writes between the comparison and the removal is the exception
\* (try_clean_entry).
NothingLost ==
    [][\A k \in Clients, f \in Files :
          tidy[k].pc = "unlink" /\ tidy[k].file = f /\ local[f] # Gone /\ local'[f] = Gone =>
              \/ local[f] # tidy[k].seen
              \/ \E r \in Direct \cup imported : sent[r][f] = local[f]]_clientVars

\* A run the server has accepted is not forgotten, though the client is killed
\* at any moment or hears no answer: it is persisted until somebody has dealt
\* with its outcome (persist_client_run_state).
NothingForgotten ==
    \A r \in begun :
        place[r] \notin {"absent", "incoming"} => state[r].phase # "none" \/ r \in settled

\* A run that is persisted as seen can be resumed: the ledger it needs is there,
\* though ledgers are retired by every invocation (resume_pending_cleanups,
\* retire_cleanup_state_file).
SeenHasLedger == \A r \in Runs : state[r].phase = "seen" => ledger[r].written

\* Nobody waits for a run forever: every drive of a run comes to an end
\* (drive_server_until_terminal).
DrivesEnd == \A k \in Clients : At(k, "driving") ~> ~At(k, "driving")

\* Every persisted run is dealt with in the end, so that new operations can
\* start, unless the server has lost it (resume_runs).
RunsResolve ==
    \A r \in Runs :
        state[r].phase # "none" ~> state[r].phase = "none" \/ place[r] \in {"absent", "corrupt", "collected"}

\* Every ledger with the authority to delete is worked off in the end, but for
\* what the user has changed or added (resume_pending_cleanups).
LedgersSettle ==
    \A r \in Runs :
        ledger[r].confirmed ~>
            \/ ~ledger[r].written
            \/ \E f \in Files : local[f] \notin {Gone, ledger[r].captured[f]}
            \/ \E f \in Files : f \in ledger[r].cleaned /\ local[f] # Gone
=============================================================================
