---------------------------- MODULE PurgeryServer ----------------------------
(***************************************************************************)
(* The whole server: handlers, processors, collector and run-state on one  *)
(* work directory, with time passing.  All of them are processes of their  *)
(* own (main.rs starts one for each command) and nothing but processor.lock*)
(* coordinates them.                                                       *)
(***************************************************************************)
EXTENDS Intake, Collector, RunState

CONSTANTS
    MaxStarts   \* bound: invocations of process-run and process-once

ASSUME StartsAssumption == MaxStarts \in Nat

VARIABLES
    starts,     \* invocations so far
    accepted    \* history: the runs that have left incoming/

serverVars == <<vars, intakeVars, gcVars, askVars, starts, accepted>>

ServerTypeOK ==
    /\ TypeOK /\ IntakeTypeOK /\ CollectorTypeOK /\ RunStateTypeOK
    /\ starts \in 0..MaxStarts
    /\ accepted \in SUBSET Runs

\* A run is yet to begin, or has been left in ready/ or processing/.
ServerInit ==
    /\ fs \in [Runs -> {Found(a) : a \in Arrivals} \cup {[ph \in Phases |-> NoDir]}]
    /\ Quiescent
    /\ IntakeInit
    /\ \A r \in Runs : stage[r] = "new" <=> \A ph \in Phases : ~Exists(r, ph)
    /\ CollectorInit
    /\ RunStateInit
    /\ starts \in 0..MaxStarts
    /\ accepted = {r \in Runs : \E ph \in Phases : Exists(r, ph)}

----------------------------------------------------------------------------

Started(p) == starts < MaxStarts /\ starts' = starts + 1

ProcessorActs ==
    /\ \/ \E p \in Procs : (StartProcessRun(p) \/ StartProcessOnce(p)) /\ Started(p)
       \/ /\ \/ \E p \in Procs : Step(p) \/ Crash(p)
             \/ \E r \in Runs : TransformWrites(r) \/ OrphanExits(r)
          /\ UNCHANGED starts
    /\ GcFollows /\ StatusesRenewed
    /\ UNCHANGED <<intakeVars, ask, opened, accepted>>

IntakeActs ==
    /\ IntakeNext
    /\ GcFollows /\ StatusesRenewed
    /\ accepted' = accepted \cup {r \in Runs : fs'[r]["ready"].exists}
    /\ UNCHANGED <<procVars, worldVars, faultVars, probe, ask, opened, starts>>

CollectorActs ==
    /\ \E g \in Collectors : GcStart(g) \/ GcStep(g)
    /\ UNCHANGED <<procVars, worldVars, faultVars, intakeVars, ask, starts, accepted>>

RunStateActs ==
    /\ \E o \in Askers : AskStep(o) \/ \E r \in Runs : AskRunState(o, r)
    /\ UNCHANGED <<fs, procVars, worldVars, faultVars, intakeVars, gcVars, starts, accepted>>

TimePasses(r) ==
    /\ LeaseLapses(r) \/ StatusAges(r) \/ \E ph \in Phases : DirAges(r, ph)
    /\ UNCHANGED <<procVars, worldVars, faultVars, intakeVars, ask, starts, accepted>>

ServerNext ==
    /\ \/ ProcessorActs \/ IntakeActs \/ CollectorActs \/ RunStateActs
       \/ \E r \in Runs : TimePasses(r)
    /\ TruthsNoted

ServerSpec == ServerInit /\ [][ServerNext]_serverVars

\* Processes that run keep running, collections are started again and again,
\* and time passes.
ServerFairness ==
    /\ \A p \in Procs : WF_serverVars(ProcessorActs /\ TruthsNoted /\ Step(p))
    /\ \A c \in Callers : WF_serverVars(IntakeActs /\ TruthsNoted /\ HandlerStep(c))
    /\ \A g \in Collectors : WF_serverVars(CollectorActs /\ TruthsNoted /\ (GcStart(g) \/ GcStep(g)))
    /\ \A r \in Runs :
          /\ WF_serverVars(TimePasses(r) /\ TruthsNoted /\ LeaseLapses(r))
          /\ WF_serverVars(TimePasses(r) /\ TruthsNoted /\ StatusAges(r))
          /\ \A ph \in Phases : WF_serverVars(TimePasses(r) /\ TruthsNoted /\ DirAges(r, ph))

FairServerSpec == ServerSpec /\ ServerFairness

----------------------------------------------------------------------------
(* Properties *)

\* Where a run is, or how it has ended, put together from its directories.  A
\* processor about to make the scratch area of a run that was collected
\* underneath it makes the directory anew: the run is not gone yet.
Place ==
    [r \in Runs |->
        IF \E ph \in {"incoming", "ready", "processing"} : Exists(r, ph)
        THEN Where(r)
        ELSE IF HasTerminalDir(r)
        THEN IF TerminalStatus(r) \in PublishedStatus THEN TerminalStatus(r) ELSE "corrupt"
        ELSE IF \E p \in Procs : run[p] = r /\ pc[p] = "work" THEN "processing"
        ELSE IF r \in accepted THEN "collected"
        ELSE "absent"]

Contract == INSTANCE ServerContract WITH place <- Place

\* Handlers, processors and collector together keep the promises a client relies
\* on, although the collector deletes under the hands of all the others
\* (finish_run, finalize_processing_run, remove_run).
ImplementsContract == Contract!Spec

\* Once a client has heard that its run is accepted, no repeated finish-run
\* denies it, whichever phase the run is moving through meanwhile, unless the
\* run has been collected (finish_run looks at the phases one by one).
RetriesAgree ==
    [][\A r \in Runs :
          finished[r] = "ok" /\ finished'[r] = "error" => r \in opened]_serverVars

\* What finish-run has accepted is whole: the upload and inputs that prepare-run
\* has found acceptable are in ready/, unless the collector has been at them
\* (prepare_run, finish_run).
FinishedRunsWhole ==
    \A r \in Runs :
        finished[r] = "ok" =>
            /\ r \in accepted
            /\ Exists(r, "ready") /\ r \notin opened =>
                   fs[r]["ready"].staged /\ fs[r]["ready"].inputs = "ok"

\* A verdict can be read for as long as the retention of status.toml says:
\* neither the age of the directory nor the prune of a done run shortens that,
\* unless a collection had begun before the run ended (expiry_for_terminal).  A
\* status that does not belong into its phase is not a verdict to the collector.
VerdictObservable ==
    [][\A r \in Runs, ph \in TerminalPhases :
          /\ Exists(r, ph) /\ ValidTerminal(ph, fs[r][ph].status)
          /\ fs'[r][ph].status # fs[r][ph].status
          => \/ r \in statusOld
             \/ \E g \in Collectors : gc[g].run = r /\ GcPhase(g) \notin TerminalPhases]_serverVars

\* What run-state answers was true of the run at some moment of the call, though
\* the run moves on, ends and is collected while it looks (run_state).
AnswerWasTrue ==
    [][\A o \in Askers :
          ask[o].pc # "told" /\ ask'[o].pc = "told" => ask'[o].answer \in truths[o]]_serverVars

\* The work directory is no archive: every run directory goes in the end,
\* whatever state handlers, clients and processors have left it in (run_gc).
EverythingCollected ==
    <>[](\A r \in Runs, ph \in Phases : ~Exists(r, ph))

----------------------------------------------------------------------------
(* The inductive invariants behind the safety properties *)

FinishSteps == {"fin_look", "fin_lease", "fin_move"}

\* begin-run and prepare-run are called once each for a run, by a client that waits for
\* the answer; finish-run, again and again, by one that has uploaded everything.
CallsInv ==
    /\ \A c \in Callers :
          LET at == stage[call[c].run] IN
          /\ call[c].step \in {"create", "lease"} =>
                 at = IF call[c].heard THEN "beginning" ELSE "quit"
          /\ call[c].step = "prepare" => at = IF call[c].heard THEN "preparing" ELSE "quit"
          /\ call[c].step \in FinishSteps => at = "uploaded"
    /\ \A c, d \in Callers :
          /\ c # d /\ call[c].run = call[d].run
          /\ call[c].step \in {"create", "lease", "prepare"}
          => call[d].step \notin {"create", "lease", "prepare"}
    /\ \A r \in Runs : finished[r] # "none" => stage[r] = "uploaded"

\* A run has left incoming/ before it is anywhere else or in anybody's hands, and whoever
\* has heard of that, or nobody, goes on to upload to it.
AcceptedInv ==
    /\ \A r \in Runs, ph \in Phases \ {"incoming"} : Exists(r, ph) => r \in accepted
    /\ \A p \in Procs : pc[p] \in Holding \cup {"flock"} => run[p] \in accepted
    /\ \A r \in accepted : stage[r] \in {"uploaded", "quit"}
    /\ \A r \in Runs : finished[r] = "ok" => r \in accepted

\* A pass deletes in directories it has opened, and only there.
DeletesInv == \A g \in Collectors : gc[g].pc \in {"remove", "rmdir"} => gc[g].run \in opened

\* What the client has brought about is there, as long as the collector has left it alone.
UploadInv ==
    \A r \in Runs \ opened :
        /\ stage[r] \in {"begun", "written", "preparing", "prepared"} => Exists(r, "incoming")
        /\ stage[r] = "prepared" => fs[r]["incoming"].inputs = "ok"
        /\ stage[r] = "uploaded" =>
              \A ph \in {"incoming", "ready"} :
                  Exists(r, ph) => fs[r][ph].staged /\ fs[r][ph].inputs = "ok"

\* An accepted run stays in some phase, and a repeated finish-run, the only one at a time
\* to be heard, has that phase still before it: runs move the way it looks.
RetryInv ==
    /\ \A c, d \in Callers :
          /\ c # d /\ call[c].run = call[d].run
          /\ call[c].heard /\ call[c].step \in FinishSteps
          /\ call[d].heard
          => call[d].step \notin FinishSteps
    /\ \A r \in Runs \ opened :
          finished[r] = "ok" =>
              /\ \E i \in 1..Len(LaterPhases) : Exists(r, LaterPhases[i])
              /\ \A c \in Callers :
                    call[c].run = r /\ call[c].heard /\ call[c].step \in FinishSteps =>
                        /\ call[c].step = "fin_look"
                        /\ \E i \in call[c].look..Len(LaterPhases) : Exists(r, LaterPhases[i])

ServerInv == CallsInv /\ AcceptedInv /\ DeletesInv /\ UploadInv /\ RetryInv

\* A run for which begin-run is still to make the directory has not been accepted.
CreatesInv == \A c \in Callers : call[c].step = "create" => call[c].run \notin accepted

\* As long as a run has one holder at a time: it is in one phase, past incoming/ for good once
\* it is accepted, and nowhere but in processing/ while it is imported, whatever the collector
\* has left of it there.
PlacesInv ==
    /\ AbsentEmpty
    /\ OnePhase
    /\ \A r \in accepted : ~Exists(r, "incoming")
    /\ \A p \in Procs : pc[p] \in Importing =>
          \A ph \in Phases \ {"processing"} : ~Exists(run[p], ph)

\* Where a call of run-state finds the run it has not found in the phases before ph.
Ahead(ph) ==
    IF ph = "ready" THEN Phases \ {"incoming"}
    ELSE IF ph = "processing" THEN {"processing"} \cup TerminalPhases
    ELSE IF ph = "done" THEN TerminalPhases
    ELSE {ph}

\* As long as a run has one holder at a time: what a call has looked at in vain the run has
\* not entered since, or the run was nowhere in between; and a status that is gone was gone
\* before its directory.
AskSound(o) ==
    LET r == ask[o].run
        step == ask[o].pc IN
    step \notin {"idle", "told"} =>
        /\ Where(r) \in truths[o]
        /\ step \in {"ready", "processing", "done", "failed"} =>
               "not_found" \in truths[o] \/ \E ph \in Ahead(step) : Exists(r, ph)
        /\ step \in {"probe", "release"} => "processing" \in truths[o]
        /\ step = "done_status" => Exists(r, "done") \/ "corrupt" \in truths[o]
        /\ step = "failed_status" => Exists(r, "failed") \/ "corrupt" \in truths[o]

AsksInv == \A o \in Askers : AskSound(o)

\* A run that has ended in ph, where a verdict is old, or has been collected there.
Ended(r, ph) ==
    /\ Place[r] \in Contract!Verdicts \cup {"corrupt", "collected"}
    /\ \A x \in Phases \ {ph} : ~Exists(r, x)
    /\ ValidTerminal(ph, fs[r][ph].status) => r \in statusOld

\* As long as a run has one holder at a time: a pass that deletes in a terminal phase stays
\* in the directory it found there, the last of the run.
PassSound(g) ==
    /\ gc[g].pc \in {"probe", "release"} => GcPhase(g) = "processing"
    /\ gc[g].pc \in {"open", "remove", "rmdir"} /\ GcPhase(g) \in TerminalPhases =>
           /\ gc[g].pc \in {"remove", "rmdir"} => gc[g].at = GcPhase(g)
           /\ Ended(gc[g].run, GcPhase(g))

PassesInv == \A g \in Collectors : PassSound(g)
=============================================================================
