------------------------------- MODULE Intake -------------------------------
(***************************************************************************)
(* How a run gets to ready/: begin-run, prepare-run, heartbeat-run and     *)
(* finish-run of purgery-server (lib.rs, phases.rs), and the client that   *)
(* calls them while it uploads (run_sync_with_run_id).  A handler is a     *)
(* process of its own, one step for each access to the work directory.     *)
(* The client may lose the connection to a handler that goes on working,   *)
(* call finish-run again, or give up for good at any point.                *)
(***************************************************************************)
EXTENDS Sequences, WorkDir

CONSTANTS
    Callers,    \* slots for handlers at work
    Uploads,    \* bound: the kinds of inputs clients write
    MaxBeats    \* bound: heartbeats that are sent

ASSUME IntakeAssumption ==
    /\ Uploads \subseteq {"ok", "unsupported"}
    /\ MaxBeats \in Nat

VARIABLES
    stage,      \* stage[r]: how far the client of r has come
    call,       \* call[c]: the handler in slot c
    finished,   \* finished[r]: what the client of r last heard from finish-run
    beats       \* heartbeats sent so far

intakeVars == <<stage, call, finished, beats>>

Stages == {"new", "beginning", "begun", "written", "preparing", "prepared", "uploaded", "quit"}

\* The phases past incoming, in the order in which finish_run looks at them.
LaterPhases == <<"ready", "processing", "done", "failed">>

CallSteps == {"none", "create", "lease", "prepare", "hb_read", "hb_write", "fin_look",
              "fin_lease", "fin_move"}

NoCall(r) == [step |-> "none", run |-> r, look |-> 1, heard |-> FALSE]

IntakeTypeOK ==
    /\ stage \in [Runs -> Stages]
    /\ call \in [Callers -> [step : CallSteps, run : Runs, look : 1..Len(LaterPhases),
                             heard : BOOLEAN]]
    /\ finished \in [Runs -> {"none", "ok", "error"}]
    /\ beats \in 0..MaxBeats

IntakeInit ==
    /\ stage \in [Runs -> {"new", "quit"}]
    /\ call = [c \in Callers |-> NoCall(CHOOSE r \in Runs : TRUE)]
    /\ finished = [r \in Runs |-> "none"]
    /\ beats = 0

----------------------------------------------------------------------------

Calling(c, r, step) ==
    /\ call[c].step = "none"
    /\ call' = [call EXCEPT ![c] = [NoCall(r) EXCEPT !.step = step, !.heard = TRUE]]

CallGoto(c, step) == call' = [call EXCEPT ![c].step = step]

EndCall(c) == call' = [call EXCEPT ![c] = NoCall(@.run)]

\* The client of r comes to a stage if it hears the answer; it gives up on an
\* error.
Advance(r, to) == stage' = [stage EXCEPT ![r] = to]
Heard(c, to) == IF call[c].heard THEN Advance(call[c].run, to) ELSE UNCHANGED stage

----------------------------------------------------------------------------
(* begin-run *)

CallBegin(c, r) ==
    /\ stage[r] = "new"
    /\ Calling(c, r, "create")
    /\ Advance(r, "beginning")
    /\ UNCHANGED <<fs, owner, finished, beats>>

\* begin_run: the run id is free in all phases, create_dir makes incoming/
\* and files/; a failure takes back what was made.
BeginCreate(c) ==
    LET r == call[c].run IN
    /\ call[c].step = "create"
    /\ \/ /\ \A ph \in Phases : ~Exists(r, ph)
          /\ fs' = Put(r, "incoming", Contents(TRUE))
          /\ CallGoto(c, "lease")
          /\ UNCHANGED stage
       \/ /\ EndCall(c)
          /\ Heard(c, "quit")
          /\ UNCHANGED fs
    /\ UNCHANGED <<owner, finished, beats>>

\* The lease is written beside its place and renamed; a failure removes the
\* directory.
BeginLease(c) ==
    LET r == call[c].run
        d == fs[r]["incoming"] IN
    /\ call[c].step = "lease"
    /\ EndCall(c)
    /\ \/ /\ d.exists
          /\ fs' = Put(r, "incoming", [d EXCEPT !.lease = "live", !.aged = FALSE])
          /\ Heard(c, "begun")
       \/ /\ fs' = Put(r, "incoming", NoDir)
          /\ Heard(c, "quit")
    /\ UNCHANGED <<owner, finished, beats>>

----------------------------------------------------------------------------
(* Inputs, prepare-run and upload *)

\* The client writes run.toml and manifest.toml through a remote shell, which
\* needs the directory to be there.
WriteInputs(r) ==
    LET d == fs[r]["incoming"] IN
    /\ stage[r] = "begun"
    /\ \/ /\ d.exists
          /\ \E kind \in Uploads :
                fs' = Put(r, "incoming", [d EXCEPT !.inputs = kind, !.aged = FALSE])
          /\ Advance(r, "written")
       \/ /\ Advance(r, "quit")
          /\ UNCHANGED fs
    /\ UNCHANGED <<owner, call, finished, beats>>

CallPrepare(c, r) ==
    /\ stage[r] = "written"
    /\ Calling(c, r, "prepare")
    /\ Advance(r, "preparing")
    /\ UNCHANGED <<fs, owner, finished, beats>>

\* prepare_run: readable, compatible inputs that validate_transform_run accepts.
\* A relative destination is made absolute in run.toml, atomically.
Prepare(c) ==
    LET d == fs[call[c].run]["incoming"] IN
    /\ call[c].step = "prepare"
    /\ EndCall(c)
    /\ \/ /\ d.exists /\ d.inputs = "ok"
          /\ fs' \in {fs, Put(call[c].run, "incoming", [d EXCEPT !.aged = FALSE])}
          /\ Heard(c, "prepared")
       \/ /\ Heard(c, "quit")
          /\ UNCHANGED fs
    /\ UNCHANGED <<owner, finished, beats>>

\* rsync --mkpath into files/: it makes a directory that has gone missing anew.
Upload(r) ==
    LET d == fs[r]["incoming"] IN
    /\ stage[r] = "prepared"
    /\ \/ /\ fs' = Put(r, "incoming", [d EXCEPT !.exists = TRUE, !.staged = TRUE,
                                                !.aged = FALSE])
          /\ Advance(r, "uploaded")
       \/ /\ Advance(r, "quit")
          /\ UNCHANGED fs
    /\ UNCHANGED <<owner, call, finished, beats>>

----------------------------------------------------------------------------
(* heartbeat-run *)

Renewable == {"live", "expired"}

\* The heartbeat thread, from begin-run's answer until finish-run's.
CallHeartbeat(c, r) ==
    /\ stage[r] \in {"begun", "written", "preparing", "prepared", "uploaded"}
    /\ beats < MaxBeats
    /\ beats' = beats + 1
    /\ Calling(c, r, "hb_read")
    /\ UNCHANGED <<fs, owner, stage, finished>>

\* heartbeat_run reads the lease, and does not look at its expiry ...
HeartbeatRead(c) ==
    LET d == fs[call[c].run]["incoming"] IN
    /\ call[c].step = "hb_read"
    /\ IF d.exists /\ d.lease \in Renewable THEN CallGoto(c, "hb_write") ELSE EndCall(c)
    /\ UNCHANGED <<fs, owner, stage, finished, beats>>

\* ... and replaces it, by path.  A client whose heartbeat failed does not go on
\* to finish-run, but does so when it resumes.
HeartbeatWrite(c) ==
    LET r == call[c].run
        d == fs[r]["incoming"] IN
    /\ call[c].step = "hb_write"
    /\ EndCall(c)
    /\ fs' = IF d.exists
             THEN Put(r, "incoming", [d EXCEPT !.lease = "live", !.aged = FALSE])
             ELSE fs
    /\ UNCHANGED <<owner, stage, finished, beats>>

----------------------------------------------------------------------------
(* finish-run *)

\* The client calls finish-run when all is uploaded, and again when it resumes
\* without having heard or recorded the answer.
CallFinish(c, r) ==
    /\ stage[r] = "uploaded"
    /\ \A other \in Callers : call[other].run = r /\ call[other].heard
                                => call[other].step \notin {"fin_look", "fin_lease", "fin_move"}
    /\ Calling(c, r, "fin_look")
    /\ UNCHANGED <<fs, owner, stage, finished, beats>>

FinishAnswers(c, answer) ==
    /\ EndCall(c)
    /\ finished' = IF call[c].heard THEN [finished EXCEPT ![call[c].run] = answer]
                   ELSE finished

\* Mutant: the phases are looked at against the direction runs move in.
FinishLookBackwards(c) ==
    LET look == call[c].look
        ph == LaterPhases[Len(LaterPhases) + 1 - look] IN
    /\ call[c].step = "fin_look"
    /\ \/ /\ Exists(call[c].run, ph)
          /\ FinishAnswers(c, "ok")
       \/ /\ ~Exists(call[c].run, ph)
          /\ call' = [call EXCEPT ![c] = IF look = Len(LaterPhases)
                                         THEN [@ EXCEPT !.step = "fin_lease"]
                                         ELSE [@ EXCEPT !.look = look + 1]]
          /\ UNCHANGED finished
    /\ UNCHANGED <<fs, owner, stage, beats>>

\* finish_run: a run in a later phase has been accepted already.
FinishLook(c) ==
    LET look == call[c].look IN
    /\ call[c].step = "fin_look"
    /\ \/ /\ Exists(call[c].run, LaterPhases[look])
          /\ FinishAnswers(c, "ok")
       \/ /\ ~Exists(call[c].run, LaterPhases[look])
          /\ call' = [call EXCEPT ![c] = IF look = Len(LaterPhases)
                                         THEN [@ EXCEPT !.step = "fin_lease"]
                                         ELSE [@ EXCEPT !.look = look + 1]]
          /\ UNCHANGED finished
    /\ UNCHANGED <<fs, owner, stage, beats>>

\* Otherwise it must be incoming, with a lease of this version that has not
\* expired ...
FinishLease(c) ==
    LET d == fs[call[c].run]["incoming"] IN
    /\ call[c].step = "fin_lease"
    /\ \/ /\ d.exists /\ d.lease = "live"
          /\ CallGoto(c, "fin_move")
          /\ UNCHANGED finished
       \/ FinishAnswers(c, "error")
    /\ UNCHANGED <<fs, owner, stage, beats>>

\* Mutant: the outcome of the rename is not looked at.
FinishMoveUnchecked(c) ==
    LET r == call[c].run IN
    /\ call[c].step = "fin_move"
    /\ fs' \in {fs, IF CanRename(r, "incoming", "ready") THEN Rename(r, "incoming", "ready")
                    ELSE fs}
    /\ FinishAnswers(c, "ok")
    /\ UNCHANGED <<owner, stage, beats>>

\* ... and the rename makes it ready.
FinishMove(c) ==
    LET r == call[c].run IN
    /\ call[c].step = "fin_move"
    /\ \/ /\ CanRename(r, "incoming", "ready")
          /\ fs' = Rename(r, "incoming", "ready")
          /\ FinishAnswers(c, "ok")
       \/ /\ FinishAnswers(c, "error")
          /\ UNCHANGED fs
    /\ UNCHANGED <<owner, stage, beats>>

----------------------------------------------------------------------------
(* The connection and the client *)

\* The client hears nothing of begin-run or prepare-run and gives up.  It does not for a
\* heartbeat, and calls finish-run again.
GivesUp(c) ==
    IF call[c].step \in {"create", "lease", "prepare"} THEN Heard(c, "quit") ELSE UNCHANGED stage

\* The connection is lost: the handler goes on, unheard.
LoseConnection(c) ==
    /\ call[c].step # "none" /\ call[c].heard
    /\ call' = [call EXCEPT ![c].heard = FALSE]
    /\ GivesUp(c)
    /\ UNCHANGED <<fs, owner, finished, beats>>

\* A handler is killed with its work half done.
HandlerDies(c) ==
    /\ call[c].step # "none"
    /\ EndCall(c)
    /\ GivesUp(c)
    /\ UNCHANGED <<fs, owner, finished, beats>>

HandlerStep(c) ==
    \/ BeginCreate(c) \/ BeginLease(c) \/ Prepare(c) \/ HeartbeatRead(c) \/ HeartbeatWrite(c)
    \/ FinishLook(c) \/ FinishLease(c) \/ FinishMove(c)

IntakeNext ==
    \/ \E c \in Callers :
          \/ HandlerStep(c) \/ LoseConnection(c) \/ HandlerDies(c)
          \/ \E r \in Runs :
                CallBegin(c, r) \/ CallPrepare(c, r) \/ CallHeartbeat(c, r) \/ CallFinish(c, r)
    \/ \E r \in Runs : WriteInputs(r) \/ Upload(r)
=============================================================================
