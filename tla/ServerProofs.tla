---------------------------- MODULE ServerProofs ----------------------------
(***************************************************************************)
(* What handlers, processors and collector keep together, for every number *)
(* of runs, handlers, processes and passes of the collector: the types of  *)
(* the whole server, that what finish-run accepts is whole, that a repeated*)
(* finish-run agrees with the one that accepted the run, that "done" means *)
(* imported, and, where no run is in two hands, ServerContract, what       *)
(* run-state answers, and how long a verdict stays.                        *)
(***************************************************************************)
EXTENDS PurgeryServer, ProcessorProofs

----------------------------------------------------------------------------
(* The operators of intake and collector *)

Calls == [step : CallSteps, run : Runs, look : 1..Len(LaterPhases), heard : BOOLEAN]
Passes == [pc : GcSteps, phase : 1..Len(GcPhases), todo : SUBSET Runs, run : Runs,
           old : BOOLEAN, at : Phases, left : SUBSET Items]
Asks == [pc : AskSteps, run : Runs, answer : Answers]

\* There is a run for what is not yet about any.
LEMMA SomeRun == (CHOOSE r \in Runs : TRUE) \in Runs
  BY ProcessorAssumption

\* The phases past incoming, one by one.
LEMMA LaterLemma ==
    /\ Len(LaterPhases) = 4
    /\ LaterPhases[1] = "ready" /\ LaterPhases[2] = "processing"
    /\ LaterPhases[3] = "done" /\ LaterPhases[4] = "failed"
    /\ \A i \in 1..4 : LaterPhases[i] \in Phases \ {"incoming"}
    /\ \A ph \in Phases \ {"incoming"} : \E i \in 1..4 : LaterPhases[i] = ph
  BY DEF LaterPhases, Phases

\* The phases a pass visits are the phases.
LEMMA GcPhasesLemma ==
    /\ Len(GcPhases) = 5
    /\ \A i \in 1..5 : GcPhases[i] \in Phases
  BY DEF GcPhases, Phases

\* A slot without a handler, and a handler that has just been called.
LEMMA CallLemma ==
    ASSUME NEW r \in Runs
    PROVE  /\ NoCall(r) \in Calls
           /\ NoCall(r).step = "none" /\ NoCall(r).run = r /\ NoCall(r).heard = FALSE
           /\ \A step \in CallSteps : \E new \in Calls :
                 /\ new = [NoCall(r) EXCEPT !.step = step, !.heard = TRUE]
                 /\ new.step = step /\ new.run = r /\ new.heard /\ new.look = 1
  <1>1. 1 \in 1..Len(LaterPhases)
    BY LaterLemma
  <1>2. "none" \in CallSteps
    BY DEF CallSteps
  <1>3. NoCall(r) = [step |-> "none", run |-> r, look |-> 1, heard |-> FALSE]
    BY DEF NoCall
  <1>4. NoCall(r) \in Calls
    BY <1>1, <1>2, <1>3 DEF Calls
  <1>5. ASSUME NEW d \in Calls, NEW step \in CallSteps
        PROVE  [d EXCEPT !.step = step, !.heard = TRUE] \in Calls
    BY DEF Calls
  <1>6. ASSUME NEW step \in CallSteps
        PROVE  LET new == [NoCall(r) EXCEPT !.step = step, !.heard = TRUE] IN
               new.step = step /\ new.run = r /\ new.heard /\ new.look = 1
    BY <1>3
  <1>7. NoCall(r).step = "none" /\ NoCall(r).run = r /\ NoCall(r).heard = FALSE
    BY <1>3
  <1>8. \A step \in CallSteps : \E new \in Calls :
            /\ new = [NoCall(r) EXCEPT !.step = step, !.heard = TRUE]
            /\ new.step = step /\ new.run = r /\ new.heard /\ new.look = 1
    BY <1>4, <1>5, <1>6, Zenon
  <1> QED BY <1>4, <1>7, <1>8

\* A pass that rests.
LEMMA RestingLemma ==
    /\ Resting \in Passes
    /\ Resting.pc = "idle"
  <1>1. 1 \in 1..Len(GcPhases)
    BY GcPhasesLemma
  <1>2. "idle" \in GcSteps /\ "incoming" \in Phases /\ {} \in SUBSET Runs /\ {} \in SUBSET Items
    BY DEF GcSteps, Phases
  <1>3. ASSUME NEW r \in Runs
        PROVE  [pc |-> "idle", phase |-> 1, todo |-> {}, run |-> r, old |-> FALSE,
                at |-> "incoming", left |-> {}] \in Passes
    BY <1>1, <1>2 DEF Passes
  <1>4. Resting \in Passes
    BY <1>3, SomeRun DEF Resting
  <1>5. Resting.pc = "idle"
    BY DEF Resting
  <1> QED BY <1>4, <1>5

\* The deletion of one file, the prune of a directory and the making young of one give a
\* directory again, which is there if it was.
LEMMA GcEdits ==
    ASSUME NEW d \in Dirs
    PROVE  /\ \A item \in Items : Without(d, item) \in Dirs /\ Without(d, item).exists = d.exists
           /\ Swept(d) \in Dirs /\ Swept(d).exists = d.exists
  <1> DEFINE Edit(s, w, l, i, t, u, k) ==
                 [d EXCEPT !.staged = s, !.work = w, !.lease = l, !.inputs = i, !.plan = t,
                           !.status = u, !.lock = k, !.aged = FALSE]
  <1>1. ASSUME NEW s \in BOOLEAN, NEW w \in BOOLEAN, NEW l \in LeaseKinds, NEW i \in InputKinds,
               NEW t \in Plans, NEW u \in StatusKinds, NEW k \in Inodes \cup {NoLock}
        PROVE  /\ Edit(s, w, l, i, t, u, k) \in Dirs
               /\ Edit(s, w, l, i, t, u, k).exists = d.exists
    BY DEF Dirs
  <1>2. ASSUME NEW item \in Items
        PROVE  Without(d, item) \in Dirs /\ Without(d, item).exists = d.exists
    <2>1. PICK s \in BOOLEAN : s = (d.staged /\ item # "files")
      OBVIOUS
    <2>2. PICK w \in BOOLEAN : w = (d.work /\ item # "scratch")
      OBVIOUS
    <2>3. PICK l \in LeaseKinds : l = IF item = "lease" THEN "none" ELSE d.lease
      BY DEF Dirs, LeaseKinds
    <2>4. PICK i \in InputKinds : i = IF item = "inputs" THEN "malformed" ELSE d.inputs
      BY DEF Dirs, InputKinds
    <2>5. PICK t \in Plans : t = IF item = "scratch" THEN "none" ELSE d.plan
      BY DEF Dirs, Plans
    <2>6. PICK u \in StatusKinds : u = IF item = "status" THEN "none" ELSE d.status
      BY DEF Dirs, StatusKinds
    <2>7. PICK k \in Inodes \cup {NoLock} : k = IF item = "lock" THEN NoLock ELSE d.lock
      BY DEF Dirs
    <2>8. Without(d, item) = Edit(s, w, l, i, t, u, k)
      BY <2>1, <2>2, <2>3, <2>4, <2>5, <2>6, <2>7, Zenon DEF Without
    <2> HIDE DEF Edit
    <2> QED BY <1>1, <2>8
  <1>3. Swept(d) \in Dirs /\ Swept(d).exists = d.exists
    <2>1. LET e == [d EXCEPT !.aged = FALSE] IN e \in Dirs /\ e.exists = d.exists
      BY DEF Dirs
    <2> QED BY <2>1, PrunedLemma DEF Swept
  <1> QED BY <1>2, <1>3

----------------------------------------------------------------------------
(* The steps of handlers and clients *)

\* What the parts of an intake action do to one call and to no other.
LEMMA CallsLemma ==
    ASSUME IntakeTypeOK, NEW c \in Callers
    PROVE  /\ call[c] \in Calls
           /\ EndCall(c) =>
                 /\ call' \in [Callers -> Calls]
                 /\ call'[c].step = "none" /\ call'[c].heard = FALSE
                 /\ call'[c].run = call[c].run
                 /\ \A d \in Callers \ {c} : call'[d] = call[d]
           /\ \A step \in CallSteps : CallGoto(c, step) =>
                 /\ call' \in [Callers -> Calls]
                 /\ call'[c].step = step /\ call'[c].heard = call[c].heard
                 /\ call'[c].run = call[c].run
                 /\ \A d \in Callers \ {c} : call'[d] = call[d]
           /\ \A r \in Runs, step \in CallSteps : Calling(c, r, step) =>
                 /\ call' \in [Callers -> Calls]
                 /\ call'[c].step = step /\ call'[c].heard /\ call'[c].run = r
                 /\ call'[c].look = 1
                 /\ \A d \in Callers \ {c} : call'[d] = call[d]
  <1>1. call \in [Callers -> Calls]
    BY DEF IntakeTypeOK, Calls
  <1>2. call[c] \in Calls /\ call[c].run \in Runs
    BY <1>1 DEF Calls
  <1>3. ASSUME EndCall(c)
        PROVE  /\ call' \in [Callers -> Calls]
               /\ call'[c].step = "none" /\ call'[c].heard = FALSE
               /\ call'[c].run = call[c].run
               /\ \A d \in Callers \ {c} : call'[d] = call[d]
    <2>1. call' = [call EXCEPT ![c] = NoCall(call[c].run)]
      BY <1>3 DEF EndCall
    <2> QED BY <1>1, <1>2, <2>1, CallLemma
  <1>4. ASSUME NEW step \in CallSteps, CallGoto(c, step)
        PROVE  /\ call' \in [Callers -> Calls]
               /\ call'[c].step = step /\ call'[c].heard = call[c].heard
               /\ call'[c].run = call[c].run
               /\ \A d \in Callers \ {c} : call'[d] = call[d]
    BY <1>1, <1>4 DEF CallGoto, Calls
  <1>5. ASSUME NEW r \in Runs, NEW step \in CallSteps, Calling(c, r, step)
        PROVE  /\ call' \in [Callers -> Calls]
               /\ call'[c].step = step /\ call'[c].heard /\ call'[c].run = r
               /\ call'[c].look = 1
               /\ \A d \in Callers \ {c} : call'[d] = call[d]
    <2>1. call' = [call EXCEPT ![c] = [NoCall(r) EXCEPT !.step = step, !.heard = TRUE]]
      BY <1>5 DEF Calling
    <2>2. PICK new \in Calls : /\ new = [NoCall(r) EXCEPT !.step = step, !.heard = TRUE]
                               /\ new.step = step /\ new.run = r /\ new.heard /\ new.look = 1
      BY CallLemma, ZenonT(30)
    <2>3. call' = [call EXCEPT ![c] = new]
      BY <2>1, <2>2
    <2> QED BY <1>1, <2>2, <2>3
  <1> QED BY <1>2, <1>3, <1>4, <1>5

\* What they do to the stage of one client, and to no other's.
LEMMA StagesLemma ==
    ASSUME IntakeTypeOK
    PROVE  /\ \A r \in Runs, to \in Stages : Advance(r, to) =>
                 /\ stage' \in [Runs -> Stages]
                 /\ stage'[r] = to
                 /\ \A q \in Runs \ {r} : stage'[q] = stage[q]
           /\ \A c \in Callers, to \in Stages : Heard(c, to) =>
                 /\ stage' \in [Runs -> Stages]
                 /\ stage'[call[c].run] = IF call[c].heard THEN to ELSE stage[call[c].run]
                 /\ \A q \in Runs \ {call[c].run} : stage'[q] = stage[q]
  <1>1. \A r \in Runs, to \in Stages : Advance(r, to) =>
            /\ stage' \in [Runs -> Stages]
            /\ stage'[r] = to
            /\ \A q \in Runs \ {r} : stage'[q] = stage[q]
    BY DEF IntakeTypeOK, Advance
  <1>2. \A c \in Callers : call[c].run \in Runs
    BY DEF IntakeTypeOK
  <1> QED BY <1>1, <1>2 DEF Heard, IntakeTypeOK

\* What an intake step leaves typed.
IntakeTypes ==
    /\ fs' \in FsType
    /\ stage' \in [Runs -> Stages]
    /\ call' \in [Callers -> Calls]
    /\ finished' \in [Runs -> {"none", "ok", "error"}]
    /\ beats' \in 0..MaxBeats

\* Every stage and step an action names is one.
LEMMA NamesLemma ==
    /\ {"new", "beginning", "begun", "written", "preparing", "prepared", "uploaded", "quit"}
           \subseteq Stages
    /\ {"none", "create", "lease", "prepare", "hb_read", "hb_write", "fin_look", "fin_lease",
        "fin_move"} \subseteq CallSteps
    /\ "incoming" \in Phases /\ "ready" \in Phases
    /\ {"ok", "error"} \subseteq {"none", "ok", "error"}
  BY DEF Stages, CallSteps, Phases

\* What an intake action reads is of its type, and what it writes to incoming/ too.
LEMMA IncomingLemma ==
    ASSUME TypeOK, NEW r \in Runs
    PROVE  /\ fs \in FsType
           /\ fs[r]["incoming"] \in Dirs
           /\ \A d \in Dirs : Put(r, "incoming", d) \in FsType
           /\ Rename(r, "incoming", "ready") \in FsType
  BY LocalsLemma, EditLemma, PutLemma, NamesLemma DEF TypeOK, WorkDirTypeOK, FsType

\* The directory of an upload is put in its place with the contents it had.
Touches(r) ==
    \E d \in Dirs :
        /\ fs' = Put(r, "incoming", d)
        /\ d.exists = Exists(r, "incoming")
        /\ d.inputs = fs[r]["incoming"].inputs /\ d.staged = fs[r]["incoming"].staged

\* What is written to incoming/ by whom, and with what outcome.
LEMMA UploadEffects ==
    ASSUME TypeOK, IntakeTypeOK
    PROVE  /\ \A c \in Callers :
                 /\ BeginCreate(c) =>
                       \/ /\ \A ph \in Phases : ~Exists(call[c].run, ph)
                          /\ \E d \in Dirs : d.exists /\ fs' = Put(call[c].run, "incoming", d)
                          /\ CallGoto(c, "lease") /\ UNCHANGED stage
                       \/ UNCHANGED fs /\ EndCall(c) /\ Heard(c, "quit")
                 /\ BeginLease(c) =>
                       \/ /\ Exists(call[c].run, "incoming") /\ Touches(call[c].run)
                          /\ EndCall(c) /\ Heard(c, "begun")
                       \/ /\ fs' = Put(call[c].run, "incoming", NoDir)
                          /\ EndCall(c) /\ Heard(c, "quit")
                 /\ Prepare(c) =>
                       \/ /\ Exists(call[c].run, "incoming")
                          /\ fs[call[c].run]["incoming"].inputs = "ok"
                          /\ UNCHANGED fs \/ Touches(call[c].run)
                          /\ EndCall(c) /\ Heard(c, "prepared")
                       \/ UNCHANGED fs /\ EndCall(c) /\ Heard(c, "quit")
                 /\ HeartbeatWrite(c) => UNCHANGED fs \/ Touches(call[c].run)
           /\ \A r \in Runs :
                 /\ WriteInputs(r) =>
                       \/ /\ Exists(r, "incoming") /\ Advance(r, "written")
                          /\ \E d \in Dirs : d.exists /\ fs' = Put(r, "incoming", d)
                       \/ Advance(r, "quit") /\ UNCHANGED fs
                 /\ Upload(r) =>
                       \/ /\ Advance(r, "uploaded")
                          /\ \E d \in Dirs :
                                /\ d.exists /\ d.staged
                                /\ d.inputs = fs[r]["incoming"].inputs
                                /\ fs' = Put(r, "incoming", d)
                       \/ Advance(r, "quit") /\ UNCHANGED fs
  <1>1. ASSUME NEW d \in Dirs
        PROVE  /\ [d EXCEPT !.lease = "live", !.aged = FALSE] \in Dirs
               /\ [d EXCEPT !.lease = "live", !.aged = FALSE].exists = d.exists
               /\ [d EXCEPT !.lease = "live", !.aged = FALSE].inputs = d.inputs
               /\ [d EXCEPT !.lease = "live", !.aged = FALSE].staged = d.staged
               /\ [d EXCEPT !.aged = FALSE] \in Dirs
               /\ [d EXCEPT !.aged = FALSE].exists = d.exists
               /\ [d EXCEPT !.aged = FALSE].inputs = d.inputs
               /\ [d EXCEPT !.aged = FALSE].staged = d.staged
    BY DEF Dirs, LeaseKinds
  <1>2. \A c \in Callers : call[c].run \in Runs
    BY DEF IntakeTypeOK
  <1>3. \A r \in Runs : fs[r]["incoming"] \in Dirs
    BY IncomingLemma
  <1>4. ASSUME NEW c \in Callers, BeginCreate(c)
        PROVE  \/ /\ \A ph \in Phases : ~Exists(call[c].run, ph)
                  /\ \E d \in Dirs : d.exists /\ fs' = Put(call[c].run, "incoming", d)
                  /\ CallGoto(c, "lease") /\ UNCHANGED stage
               \/ UNCHANGED fs /\ EndCall(c) /\ Heard(c, "quit")
    <2>1. Contents(TRUE) \in Dirs /\ Contents(TRUE).exists
      BY DEF Contents, Dirs, InputKinds, LeaseKinds, StatusKinds, Plans
    <2> QED BY <1>4, <2>1 DEF BeginCreate
  <1>5. ASSUME NEW c \in Callers, BeginLease(c)
        PROVE  \/ /\ Exists(call[c].run, "incoming") /\ Touches(call[c].run)
                  /\ EndCall(c) /\ Heard(c, "begun")
               \/ /\ fs' = Put(call[c].run, "incoming", NoDir)
                  /\ EndCall(c) /\ Heard(c, "quit")
    BY <1>1, <1>2, <1>3, <1>5 DEF BeginLease, Touches, Exists
  <1>6. ASSUME NEW c \in Callers, Prepare(c)
        PROVE  \/ /\ Exists(call[c].run, "incoming")
                  /\ fs[call[c].run]["incoming"].inputs = "ok"
                  /\ UNCHANGED fs \/ Touches(call[c].run)
                  /\ EndCall(c) /\ Heard(c, "prepared")
               \/ UNCHANGED fs /\ EndCall(c) /\ Heard(c, "quit")
    BY <1>1, <1>2, <1>3, <1>6 DEF Prepare, Touches, Exists
  <1>7. ASSUME NEW c \in Callers, HeartbeatWrite(c)
        PROVE  UNCHANGED fs \/ Touches(call[c].run)
    BY <1>1, <1>2, <1>3, <1>7 DEF HeartbeatWrite, Touches, Exists
  <1>8. ASSUME NEW r \in Runs, WriteInputs(r)
        PROVE  \/ /\ Exists(r, "incoming") /\ Advance(r, "written")
                  /\ \E d \in Dirs : d.exists /\ fs' = Put(r, "incoming", d)
               \/ Advance(r, "quit") /\ UNCHANGED fs
    <2>1. ASSUME NEW kind \in Uploads
          PROVE  LET e == [fs[r]["incoming"] EXCEPT !.inputs = kind, !.aged = FALSE] IN
                 e \in Dirs /\ e.exists = fs[r]["incoming"].exists
      <3>1. kind \in InputKinds
        BY IntakeAssumption DEF InputKinds
      <3> QED BY <1>3, <3>1 DEF Dirs
    <2> QED BY <1>8, <2>1 DEF WriteInputs, Exists
  <1>9. ASSUME NEW r \in Runs, Upload(r)
        PROVE  \/ /\ Advance(r, "uploaded")
                  /\ \E d \in Dirs :
                        /\ d.exists /\ d.staged
                        /\ d.inputs = fs[r]["incoming"].inputs
                        /\ fs' = Put(r, "incoming", d)
               \/ Advance(r, "quit") /\ UNCHANGED fs
    <2>1. LET e == [fs[r]["incoming"] EXCEPT !.exists = TRUE, !.staged = TRUE, !.aged = FALSE] IN
          e \in Dirs /\ e.exists /\ e.staged /\ e.inputs = fs[r]["incoming"].inputs
      BY <1>3 DEF Dirs
    <2> QED BY <1>9, <2>1 DEF Upload
  <1> QED BY <1>4, <1>5, <1>6, <1>7, <1>8, <1>9

\* An answer of finish-run ends the call.
LEMMA AnswersLemma ==
    ASSUME IntakeTypeOK, NEW c \in Callers, NEW answer \in {"ok", "error"}, FinishAnswers(c, answer)
    PROVE  /\ EndCall(c)
           /\ finished' \in [Runs -> {"none", "ok", "error"}]
           /\ call[c].heard => finished'[call[c].run] = answer
           /\ ~call[c].heard => finished' = finished
           /\ \A q \in Runs \ {call[c].run} : finished'[q] = finished[q]
  BY DEF FinishAnswers, IntakeTypeOK

\* The steps of handlers and their clients keep the types.
LEMMA HandlerTypes ==
    ASSUME TypeOK, IntakeTypeOK, NEW c \in Callers,
           HandlerStep(c) \/ LoseConnection(c) \/ HandlerDies(c)
    PROVE  IntakeTypes
  <1>1. /\ stage \in [Runs -> Stages] /\ call \in [Callers -> Calls]
        /\ finished \in [Runs -> {"none", "ok", "error"}] /\ beats \in 0..MaxBeats
        /\ fs \in FsType /\ call[c].run \in Runs
    BY LocalsLemma DEF IntakeTypeOK, TypeOK, WorkDirTypeOK, Calls, FsType
  <1>2. /\ \A d \in Dirs : Put(call[c].run, "incoming", d) \in FsType
        /\ Rename(call[c].run, "incoming", "ready") \in FsType
        /\ Touches(call[c].run) => fs' \in FsType
    BY <1>1, IncomingLemma DEF Touches
  <1>3. CASE BeginCreate(c)
    <2>1. fs' \in FsType /\ stage' \in [Runs -> Stages] /\ call' \in [Callers -> Calls]
      <3>1. \/ /\ \E d \in Dirs : fs' = Put(call[c].run, "incoming", d)
               /\ CallGoto(c, "lease") /\ UNCHANGED stage
            \/ UNCHANGED fs /\ EndCall(c) /\ Heard(c, "quit")
        BY <1>3, UploadEffects
      <3> QED BY <1>1, <1>2, <3>1, CallsLemma, StagesLemma, NamesLemma, ZenonT(60)
    <2> QED BY <1>1, <1>3, <2>1 DEF BeginCreate, IntakeTypes
  <1>4. CASE BeginLease(c)
    <2>1. fs' \in FsType /\ stage' \in [Runs -> Stages] /\ call' \in [Callers -> Calls]
      BY <1>1, <1>2, <1>4, UploadEffects, CallsLemma, StagesLemma, NamesLemma, NoDirLemma, ZenonT(60)
    <2> QED BY <1>1, <1>4, <2>1 DEF BeginLease, IntakeTypes
  <1>5. CASE Prepare(c)
    <2>1. fs' \in FsType /\ stage' \in [Runs -> Stages] /\ call' \in [Callers -> Calls]
      BY <1>1, <1>2, <1>5, UploadEffects, CallsLemma, StagesLemma, NamesLemma
    <2> QED BY <1>1, <1>5, <2>1 DEF Prepare, IntakeTypes
  <1>6. CASE HeartbeatRead(c)
    BY <1>1, <1>6, CallsLemma, NamesLemma DEF HeartbeatRead, IntakeTypes
  <1>7. CASE HeartbeatWrite(c)
    <2>1. fs' \in FsType
      BY <1>1, <1>2, <1>7, UploadEffects
    <2> QED BY <1>1, <1>7, <2>1, CallsLemma DEF HeartbeatWrite, IntakeTypes
  <1>8. CASE FinishLook(c)
    <2>1. CASE FinishAnswers(c, "ok")
      BY <1>1, <1>8, <2>1, CallsLemma, AnswersLemma DEF FinishLook, IntakeTypes
    <2>2. CASE ~FinishAnswers(c, "ok")
      <3>1. /\ call' = [call EXCEPT ![c] = IF call[c].look = Len(LaterPhases)
                                           THEN [call[c] EXCEPT !.step = "fin_lease"]
                                           ELSE [call[c] EXCEPT !.look = call[c].look + 1]]
            /\ UNCHANGED finished
        BY <1>8, <2>2 DEF FinishLook
      <3>2. /\ [call[c] EXCEPT !.step = "fin_lease"] \in Calls
            /\ call[c].look # Len(LaterPhases) => [call[c] EXCEPT !.look = call[c].look + 1] \in Calls
        BY <1>1, NamesLemma, LaterLemma DEF Calls
      <3> QED BY <1>1, <1>8, <3>1, <3>2 DEF FinishLook, IntakeTypes
    <2> QED BY <2>1, <2>2
  <1>9. CASE FinishLease(c)
    BY <1>1, <1>9, CallsLemma, NamesLemma, AnswersLemma DEF FinishLease, IntakeTypes
  <1>10. CASE FinishMove(c)
    BY <1>1, <1>2, <1>10, CallsLemma, NamesLemma, AnswersLemma DEF FinishMove, IntakeTypes
  <1>11. CASE LoseConnection(c)
    <2>1. call' \in [Callers -> Calls]
      BY <1>1, <1>11 DEF LoseConnection, Calls
    <2>2. stage' \in [Runs -> Stages]
      BY <1>1, <1>11, StagesLemma, NamesLemma DEF LoseConnection, GivesUp
    <2> QED BY <1>1, <1>11, <2>1, <2>2 DEF LoseConnection, IntakeTypes
  <1>12. CASE HandlerDies(c)
    <2>1. stage' \in [Runs -> Stages]
      BY <1>1, <1>12, StagesLemma, NamesLemma DEF HandlerDies, GivesUp
    <2> QED BY <1>1, <1>12, <2>1, CallsLemma DEF HandlerDies, IntakeTypes
  <1> QED BY <1>3, <1>4, <1>5, <1>6, <1>7, <1>8, <1>9, <1>10, <1>11, <1>12 DEF HandlerStep

\* What a client does: it calls, writes its inputs and uploads.
CallsOne(c, r) == CallBegin(c, r) \/ CallPrepare(c, r) \/ CallHeartbeat(c, r) \/ CallFinish(c, r)
ClientActs(r) == (\E c \in Callers : CallsOne(c, r)) \/ WriteInputs(r) \/ Upload(r)

\* The steps of clients keep the types.
LEMMA ClientTypes ==
    ASSUME TypeOK, IntakeTypeOK, NEW r \in Runs, ClientActs(r)
    PROVE  IntakeTypes
  <1>1. /\ stage \in [Runs -> Stages] /\ call \in [Callers -> Calls]
        /\ finished \in [Runs -> {"none", "ok", "error"}] /\ beats \in 0..MaxBeats
        /\ fs \in FsType
    BY LocalsLemma DEF IntakeTypeOK, TypeOK, WorkDirTypeOK, Calls, FsType
  <1>2. ASSUME NEW c \in Callers, CallsOne(c, r)
        PROVE  IntakeTypes
    <2>1. CASE CallBegin(c, r)
      BY <1>1, <2>1, CallsLemma, StagesLemma, NamesLemma DEF CallBegin, IntakeTypes
    <2>2. CASE CallPrepare(c, r)
      BY <1>1, <2>2, CallsLemma, StagesLemma, NamesLemma DEF CallPrepare, IntakeTypes
    <2>3. CASE CallHeartbeat(c, r)
      <3>1. beats' \in 0..MaxBeats
        BY <1>1, <2>3, IntakeAssumption DEF CallHeartbeat
      <3> QED BY <1>1, <2>3, <3>1, CallsLemma, NamesLemma DEF CallHeartbeat, IntakeTypes
    <2>4. CASE CallFinish(c, r)
      BY <1>1, <2>4, CallsLemma, NamesLemma DEF CallFinish, IntakeTypes
    <2> QED BY <1>2, <2>1, <2>2, <2>3, <2>4 DEF CallsOne
  <1>3. CASE WriteInputs(r)
    <2>1. fs' \in FsType /\ stage' \in [Runs -> Stages]
      BY <1>1, <1>3, IncomingLemma, UploadEffects, StagesLemma, NamesLemma
    <2> QED BY <1>1, <1>3, <2>1 DEF WriteInputs, IntakeTypes
  <1>4. CASE Upload(r)
    <2>1. fs' \in FsType /\ stage' \in [Runs -> Stages]
      BY <1>1, <1>4, IncomingLemma, UploadEffects, StagesLemma, NamesLemma
    <2> QED BY <1>1, <1>4, <2>1 DEF Upload, IntakeTypes
  <1> QED BY <1>2, <1>3, <1>4 DEF ClientActs

----------------------------------------------------------------------------
(* The steps of the collector *)

\* A step of a pass.
PassStep(g) == GcStart(g) \/ GcStep(g)

\* What a step of a pass does to the run it is at: it prunes a done run, deletes one file, or
\* the directory.
GcEffect(g) ==
    \/ UNCHANGED fs
    \/ \E d \in Dirs :
          /\ d.exists = Exists(gc[g].run, "done")
          /\ fs' = Put(gc[g].run, "done", d)
    \/ /\ gc[g].pc = "remove"
       /\ \E ph \in Phases, d \in Dirs :
             /\ d.exists = Exists(gc[g].run, ph)
             /\ fs' = Put(gc[g].run, ph, d)
    \/ /\ gc[g].pc = "rmdir"
       /\ \E ph \in Phases : fs' = Put(gc[g].run, ph, NoDir)

\* What a pass reads is of its type.
LEMMA PassLemma ==
    ASSUME TypeOK, CollectorTypeOK, NEW g \in Collectors
    PROVE  /\ gc \in [Collectors -> Passes]
           /\ gc[g] \in Passes
           /\ gc[g].run \in Runs /\ gc[g].at \in Phases /\ gc[g].left \subseteq Items
           /\ gc[g].todo \subseteq Runs /\ gc[g].phase \in 1..5
           /\ GcPhase(g) \in Phases
           /\ \A ph \in Phases : fs[gc[g].run][ph] \in Dirs
  <1>1. gc \in [Collectors -> Passes] /\ gc[g] \in Passes
    BY DEF CollectorTypeOK, Passes
  <1>2. /\ gc[g].run \in Runs /\ gc[g].at \in Phases /\ gc[g].left \subseteq Items
        /\ gc[g].todo \subseteq Runs /\ gc[g].phase \in 1..5
    BY <1>1, GcPhasesLemma DEF Passes
  <1>3. GcPhase(g) \in Phases
    BY <1>2, GcPhasesLemma DEF GcPhase
  <1> QED BY <1>1, <1>2, <1>3, EditLemma

\* Every step of a pass has one of these effects.
LEMMA GcEffectLemma ==
    ASSUME TypeOK, CollectorTypeOK, NEW g \in Collectors, PassStep(g)
    PROVE  GcEffect(g)
  <1>1. CASE GcVisit(g)
    <2>1. CASE UNCHANGED fs
      BY <2>1 DEF GcEffect
    <2>2. CASE fs' = Put(gc[g].run, "done", Swept(fs[gc[g].run]["done"]))
      <3>1. "done" \in Phases
        BY DEF Phases
      <3>2. /\ Swept(fs[gc[g].run]["done"]) \in Dirs
            /\ Swept(fs[gc[g].run]["done"]).exists = Exists(gc[g].run, "done")
        BY <3>1, PassLemma, GcEdits DEF Exists
      <3> QED BY <2>2, <3>2 DEF GcEffect
    <2> QED BY <1>1, <2>1, <2>2 DEF GcVisit
  <1>2. CASE GcRemove(g)
    <2>1. CASE UNCHANGED fs
      BY <2>1 DEF GcEffect
    <2>2. CASE \E item \in gc[g].left :
                   fs' = Put(gc[g].run, gc[g].at, Without(fs[gc[g].run][gc[g].at], item))
      <3>1. PICK item \in gc[g].left :
                   fs' = Put(gc[g].run, gc[g].at, Without(fs[gc[g].run][gc[g].at], item))
        BY <2>2
      <3>2. /\ Without(fs[gc[g].run][gc[g].at], item) \in Dirs
            /\ Without(fs[gc[g].run][gc[g].at], item).exists = Exists(gc[g].run, gc[g].at)
        BY PassLemma, GcEdits DEF Exists
      <3>3. gc[g].pc = "remove" /\ gc[g].at \in Phases
        BY <1>2, PassLemma DEF GcRemove
      <3> QED BY <3>1, <3>2, <3>3 DEF GcEffect
    <2> QED BY <1>2, <2>1, <2>2 DEF GcRemove
  <1>3. CASE GcRmdir(g)
    BY <1>3, PassLemma DEF GcRmdir, GcEffect
  <1>4. CASE GcStart(g) \/ GcNext(g) \/ GcVisitProcessing(g) \/ GcProbe(g) \/ GcRelease(g)
             \/ GcOpen(g)
    BY <1>4 DEF GcStart, GcNext, GcVisitProcessing, GcProbe, GcRelease, GcOpen, GcEffect
  <1> QED BY <1>1, <1>2, <1>3, <1>4 DEF PassStep, GcStep

\* What a step of the collector leaves typed.
GcTypes ==
    /\ fs' \in FsType
    /\ owner' \in [Inodes -> Owners]
    /\ probe' \in [Observers -> Lock]
    /\ gc' \in [Collectors -> Passes]
    /\ statusOld' \in SUBSET Runs
    /\ opened' \in SUBSET Runs

\* The pass in one slot comes to a step, with its run if it is deleting.
PassComes(g, steps) ==
    /\ gc' \in [Collectors -> Passes]
    /\ gc'[g].pc \in steps
    /\ gc'[g].pc \in {"remove", "rmdir"} => gc'[g].run = gc[g].run
    /\ \A h \in Collectors \ {g} : gc'[h] = gc[h]

\* The pass in one slot goes on, rests or fails, and no other does.
LEMMA PassesLemma ==
    ASSUME TypeOK, CollectorTypeOK, NEW g \in Collectors
    PROVE  /\ \A step \in GcSteps : GcGoto(g, step) => PassComes(g, {step})
           /\ GcContinues(g) => PassComes(g, {"next"})
           /\ GcFails(g) => PassComes(g, {"idle"})
  <1>1. gc \in [Collectors -> Passes] /\ gc[g] \in Passes
    BY PassLemma
  <1>2. ASSUME NEW step \in GcSteps, GcGoto(g, step)
        PROVE  PassComes(g, {step})
    <2>1. ASSUME NEW d \in Passes
          PROVE  [d EXCEPT !.pc = step] \in Passes /\ [d EXCEPT !.pc = step].pc = step
      BY DEF Passes
    <2>2. gc' = [gc EXCEPT ![g] = [gc[g] EXCEPT !.pc = step]]
      BY <1>2 DEF GcGoto
    <2> QED BY <1>1, <2>1, <2>2 DEF PassComes
  <1>3. GcContinues(g) => PassComes(g, {"next"})
    <2>1. ASSUME NEW d \in Passes, NEW i \in 1..Len(GcPhases), NEW s \in SUBSET Runs
          PROVE  /\ [d EXCEPT !.pc = "next", !.phase = i, !.todo = s] \in Passes
                 /\ [d EXCEPT !.pc = "next", !.phase = i, !.todo = s].pc = "next"
      BY DEF Passes, GcSteps
    <2>2. gc[g].phase \in 1..Len(GcPhases) /\ gc[g].todo \in SUBSET Runs
      BY <1>1 DEF Passes
    <2> DEFINE d == [Resting EXCEPT !.pc = "next", !.phase = gc[g].phase, !.todo = gc[g].todo]
    <2>3. d \in Passes /\ d.pc = "next"
      BY <2>1, <2>2, RestingLemma, ZenonT(60)
    <2>4. GcContinues(g) => gc' = [gc EXCEPT ![g] = d]
      BY DEF GcContinues
    <2> HIDE DEF d
    <2> QED BY <1>1, <2>3, <2>4 DEF PassComes
  <1>4. GcFails(g) => PassComes(g, {"idle"})
    BY <1>1, RestingLemma DEF GcFails, PassComes
  <1> QED BY <1>2, <1>3, <1>4

\* A step of a pass keeps the types, and comes to a deletion only with a run that it opens or
\* has at hand.
LEMMA PassControl ==
    ASSUME TypeOK, CollectorTypeOK, NEW g \in Collectors, PassStep(g)
    PROVE  /\ PassComes(g, GcSteps)
           /\ opened \subseteq opened' /\ opened' \subseteq Runs /\ statusOld' = statusOld
           /\ gc'[g].pc \in {"remove", "rmdir"} =>
                 gc[g].run \in opened' \/ gc[g].pc \in {"remove", "rmdir"}
           /\ owner' \in [Inodes -> Owners]
           /\ probe' \in [Observers -> Lock]
  <1> DEFINE Comes == \E step \in GcSteps \ {"remove", "rmdir"} : PassComes(g, {step})
  <1>1. /\ gc \in [Collectors -> Passes] /\ gc[g] \in Passes
        /\ gc[g].run \in Runs /\ gc[g].at \in Phases /\ gc[g].left \subseteq Items
        /\ gc[g].todo \subseteq Runs /\ gc[g].phase \in 1..5 /\ GcPhase(g) \in Phases
    BY PassLemma
  <1>2. /\ owner \in [Inodes -> Owners] /\ probe \in [Observers -> Lock]
        /\ opened \in SUBSET Runs /\ g \in Observers /\ g \in Owners
    BY CollectorAssumption DEF TypeOK, WorkDirTypeOK, CollectorTypeOK, Lock, Owners, Actors
  <1>3. /\ GcSteps = {"idle", "next", "visit", "probe", "release", "open", "remove", "rmdir"}
        /\ \A ph : Listed(ph) \subseteq Runs
    BY DEF GcSteps, Listed
  <1>4. \A step \in GcSteps : PassComes(g, {step}) => PassComes(g, GcSteps)
    BY DEF PassComes
  <1>5. CASE GcStart(g) \/ GcNext(g) \/ GcVisit(g) \/ GcVisitProcessing(g)
    <2>1. Comes
      <3>1. CASE GcStart(g)
        <4>1. gc' = [gc EXCEPT ![g] = [gc[g] EXCEPT !.pc = "next", !.todo = Listed("incoming")]]
          BY <1>1, <3>1 DEF GcStart
        <4>2. [gc[g] EXCEPT !.pc = "next", !.todo = Listed("incoming")] \in Passes
          BY <1>1, <1>3 DEF Passes
        <4>3. PassComes(g, {"next"})
          BY <1>1, <4>1, <4>2 DEF PassComes, Passes
        <4> QED BY <1>3, <4>3
      <3>2. CASE GcNext(g)
        <4>1. ASSUME NEW r \in gc[g].todo,
                     gc' = [gc EXCEPT ![g].pc = "visit", ![g].run = r, ![g].todo = @ \ {r}]
              PROVE  PassComes(g, {"visit"})
          <5>1. gc' = [gc EXCEPT ![g] = [gc[g] EXCEPT !.pc = "visit", !.run = r,
                                                      !.todo = gc[g].todo \ {r}]]
            BY <1>1, <4>1
          <5>2. [gc[g] EXCEPT !.pc = "visit", !.run = r, !.todo = gc[g].todo \ {r}] \in Passes
            BY <1>1, <1>3 DEF Passes
          <5> QED BY <1>1, <5>1, <5>2 DEF PassComes, Passes
        <4>2. ASSUME gc[g].phase < Len(GcPhases),
                     gc' = [gc EXCEPT ![g].phase = @ + 1,
                                      ![g].todo = Listed(GcPhases[gc[g].phase + 1])]
              PROVE  PassComes(g, {gc[g].pc})
          <5> DEFINE s == Listed(GcPhases[gc[g].phase + 1])
          <5>1. gc' = [gc EXCEPT ![g] = [gc[g] EXCEPT !.phase = gc[g].phase + 1, !.todo = s]]
            BY <1>1, <4>2
          <5>2. s \in SUBSET Runs
            BY <1>3
          <5>3. gc[g].phase + 1 \in 1..Len(GcPhases)
            BY <1>1, <4>2, GcPhasesLemma
          <5> HIDE DEF s
          <5>4. [gc[g] EXCEPT !.phase = gc[g].phase + 1, !.todo = s] \in Passes
            BY <1>1, <5>2, <5>3 DEF Passes
          <5> QED BY <1>1, <5>1, <5>4 DEF PassComes, Passes
        <4>3. gc' = [gc EXCEPT ![g] = Resting] => PassComes(g, {"idle"})
          BY PassesLemma DEF GcFails
        <4> QED BY <1>3, <3>2, <4>1, <4>2, <4>3 DEF GcNext
      <3>3. CASE GcVisit(g)
        BY <1>3, <3>3, PassesLemma DEF GcVisit
      <3>4. CASE GcVisitProcessing(g)
        <4>1. CASE gc' = [gc EXCEPT ![g].pc = "probe", ![g].old = GcDir(g).aged]
          <5>1. GcDir(g).aged \in BOOLEAN
            BY PassLemma DEF GcDir, Dirs
          <5>2. PICK b \in BOOLEAN : b = GcDir(g).aged
            BY <5>1
          <5>3. gc' = [gc EXCEPT ![g] = [gc[g] EXCEPT !.pc = "probe", !.old = b]]
            BY <1>1, <4>1, <5>2
          <5>4. [gc[g] EXCEPT !.pc = "probe", !.old = b] \in Passes
            BY <1>1, <1>3 DEF Passes
          <5>5. PassComes(g, {"probe"})
            BY <1>1, <5>3, <5>4 DEF PassComes, Passes
          <5> QED BY <1>3, <5>5
        <4> QED BY <1>3, <3>4, <4>1, PassesLemma DEF GcVisitProcessing
      <3> QED BY <1>5, <3>1, <3>2, <3>3, <3>4
    <2>2. UNCHANGED <<owner, probe, statusOld, opened>>
      BY <1>5 DEF GcStart, GcNext, GcVisit, GcVisitProcessing, GcLeaves
    <2> QED BY <1>2, <1>4, <2>1, <2>2 DEF PassComes
  <1>6. CASE GcProbe(g) \/ GcRelease(g)
    <2>1. Comes
      BY <1>3, <1>6, PassesLemma DEF GcProbe, GcRelease, Idle
    <2>2. UNCHANGED <<statusOld, opened>>
      BY <1>6 DEF GcProbe, GcRelease, GcLeaves
    <2>3. owner' \in [Inodes -> Owners] /\ probe' \in [Observers -> Lock]
      <3>1. GcDir(g).lock \in Lock
        BY PassLemma DEF GcDir, Dirs, Lock
      <3>2. Nobody \in Owners
        BY DEF Owners
      <3> QED BY <1>2, <1>6, <3>1, <3>2 DEF GcProbe, GcRelease, Released, Lock
    <2> QED BY <1>2, <1>4, <2>1, <2>2, <2>3 DEF PassComes
  <1>7. CASE GcOpen(g)
    <2>1. CASE ~GcDir(g).exists
      <3>1. PassComes(g, {"idle"}) /\ UNCHANGED <<owner, probe, statusOld, opened>>
        BY <1>7, <2>1, PassesLemma DEF GcOpen
      <3> QED BY <1>2, <1>3, <1>4, <3>1 DEF PassComes
    <2>2. CASE GcDir(g).exists
      <3> DEFINE left == {item \in Items : Has(GcDir(g), item)}
      <3>1. /\ gc' = [gc EXCEPT ![g] = [gc[g] EXCEPT !.pc = "remove", !.at = GcPhase(g),
                                                     !.left = left]]
            /\ opened' = opened \cup {gc[g].run}
            /\ UNCHANGED <<owner, probe, statusOld>>
        BY <1>1, <1>7, <2>2 DEF GcOpen
      <3>2. left \in SUBSET Items
        OBVIOUS
      <3> HIDE DEF left
      <3>3. [gc[g] EXCEPT !.pc = "remove", !.at = GcPhase(g), !.left = left] \in Passes
        BY <1>1, <1>3, <3>2 DEF Passes
      <3>4. PassComes(g, GcSteps)
        BY <1>1, <1>3, <3>1, <3>3 DEF PassComes, Passes
      <3> QED BY <1>1, <1>2, <3>1, <3>4
    <2> QED BY <2>1, <2>2
  <1>8. CASE GcRemove(g)
    <2>1. UNCHANGED <<owner, probe, statusOld, opened>> /\ gc[g].pc = "remove"
      BY <1>8 DEF GcRemove, GcLeaves
    <2>2. PassComes(g, GcSteps)
      <3>1. ASSUME NEW item \in gc[g].left, gc' = [gc EXCEPT ![g].left = @ \ {item}]
            PROVE  PassComes(g, GcSteps)
        <4>1. gc' = [gc EXCEPT ![g] = [gc[g] EXCEPT !.left = gc[g].left \ {item}]]
          BY <1>1, <3>1
        <4>2. [gc[g] EXCEPT !.left = gc[g].left \ {item}] \in Passes
          BY <1>1 DEF Passes
        <4> QED BY <1>1, <1>3, <2>1, <4>1, <4>2 DEF PassComes, Passes
      <3> QED BY <1>3, <1>4, <1>8, <3>1, PassesLemma DEF GcRemove
    <2> QED BY <1>2, <2>1, <2>2
  <1>9. CASE GcRmdir(g)
    <2>1. UNCHANGED <<owner, probe, statusOld, opened>> /\ gc[g].pc = "rmdir"
      BY <1>9 DEF GcRmdir, GcLeaves
    <2>2. PassComes(g, GcSteps)
      BY <1>3, <1>4, <1>9, PassesLemma DEF GcRmdir
    <2> QED BY <1>2, <2>1, <2>2
  <1> QED BY <1>5, <1>6, <1>7, <1>8, <1>9 DEF PassStep, GcStep

\* The steps of the collector keep the types.
LEMMA PassTypes ==
    ASSUME TypeOK, CollectorTypeOK, NEW g \in Collectors, PassStep(g)
    PROVE  GcTypes
  <1>1. fs' \in FsType
    <2>1. /\ fs \in FsType /\ gc[g].run \in Runs /\ "done" \in Phases
          /\ \A ph \in Phases, d \in Dirs : Put(gc[g].run, ph, d) \in FsType
      <3>1. fs \in FsType /\ gc[g].run \in Runs
        BY PassLemma DEF TypeOK, WorkDirTypeOK, FsType
      <3> QED BY <3>1, PutLemma DEF Phases
    <2> QED BY <2>1, GcEffectLemma, NoDirLemma DEF GcEffect
  <1> QED BY <1>1, PassControl DEF GcTypes, PassComes, CollectorTypeOK

----------------------------------------------------------------------------
(* What the others do to the collector's state, run-state, and time *)

\* The collector's memory of its passes follows the directories.
LEMMA FollowsLemma ==
    ASSUME CollectorTypeOK, GcFollows
    PROVE  /\ gc' \in [Collectors -> Passes]
           /\ \A g \in Collectors : gc'[g].pc = gc[g].pc /\ gc'[g].run = gc[g].run
  <1>1. gc \in [Collectors -> Passes]
    BY DEF CollectorTypeOK, Passes
  <1>2. ASSUME NEW g \in Collectors
        PROVE  /\ gc'[g] \in Passes
               /\ gc'[g].pc = gc[g].pc /\ gc'[g].run = gc[g].run
    <2> DEFINE here == {ph \in Phases : fs'[gc[g].run][ph].exists /\ ~fs[gc[g].run][ph].exists}
    <2>1. CASE gc'[g] = gc[g]
      BY <1>1, <2>1
    <2>2. CASE here # {} /\ gc'[g] = [gc[g] EXCEPT !.at = CHOOSE ph \in here : TRUE]
      <3>1. (CHOOSE ph \in here : TRUE) \in Phases
        BY <2>2
      <3>2. PICK x \in Phases : x = CHOOSE ph \in here : TRUE
        BY <3>1
      <3>3. gc'[g] = [gc[g] EXCEPT !.at = x]
        BY <2>2, <3>2
      <3> QED BY <1>1, <3>3 DEF Passes
    <2>3. gc'[g] = gc[g] \/ (here # {} /\ gc'[g] = [gc[g] EXCEPT !.at = CHOOSE ph \in here : TRUE])
      BY Zenon DEF GcFollows
    <2> QED BY <2>1, <2>2, <2>3
  <1>3. gc' = [g \in Collectors |-> gc'[g]]
    BY DEF GcFollows
  <1> QED BY <1>2, <1>3

\* The statuses that are old are those of runs.
LEMMA RenewedLemma == CollectorTypeOK /\ StatusesRenewed => statusOld' \in SUBSET Runs
  BY DEF CollectorTypeOK, StatusesRenewed

\* A step of run-state keeps its own types and those of the locks.
LEMMA AskTypes ==
    ASSUME TypeOK, RunStateTypeOK, RunStateActs
    PROVE  /\ ask' \in [Askers -> Asks]
           /\ owner' \in [Inodes -> Owners]
           /\ probe' \in [Observers -> Lock]
  <1>1. /\ ask \in [Askers -> Asks]
        /\ owner \in [Inodes -> Owners] /\ probe \in [Observers -> Lock]
        /\ Askers \subseteq Observers /\ Askers \subseteq Owners /\ Nobody \in Owners
    BY AskerAssumption DEF RunStateTypeOK, Asks, TypeOK, WorkDirTypeOK, Lock, Owners, Actors
  <1>2. AskSteps = {"idle", "incoming", "ready", "processing", "probe", "release", "done",
                    "done_status", "failed", "failed_status", "told"}
    BY DEF AskSteps
  <1>3. /\ {"ready", "processing", "done", "failed"} \subseteq Answers \cap AskSteps
        /\ {"incoming", "corrupt", "not_found"} \subseteq Answers
        /\ NextLook["incoming"] = "ready" /\ NextLook["ready"] = "processing"
        /\ NextLook["processing"] = "done" /\ NextLook["done"] = "failed"
    BY DEF Answers, AskSteps, NextLook
  <1>4. /\ \A o \in Askers, step \in AskSteps : AskGoto(o, step) => ask' \in [Askers -> Asks]
        /\ \A o \in Askers, a \in Answers : Answer(o, a) => ask' \in [Askers -> Asks]
    <2>1. ASSUME NEW o \in Askers, NEW step \in AskSteps, AskGoto(o, step)
          PROVE  ask' \in [Askers -> Asks]
      <3>1. ask' = [ask EXCEPT ![o] = [ask[o] EXCEPT !.pc = step]]
        BY <1>1, <2>1 DEF AskGoto
      <3> QED BY <1>1, <3>1 DEF Asks
    <2>2. ASSUME NEW o \in Askers, NEW a \in Answers, Answer(o, a)
          PROVE  ask' \in [Askers -> Asks]
      <3>1. ask' = [ask EXCEPT ![o] = [ask[o] EXCEPT !.pc = "told", !.answer = a]]
        BY <1>1, <2>2 DEF Answer
      <3> QED BY <1>1, <1>2, <3>1 DEF Asks
    <2> QED BY <2>1, <2>2
  <1>5. ASSUME NEW o \in Askers, NEW r \in Runs, AskRunState(o, r)
        PROVE  ask' \in [Askers -> Asks] /\ UNCHANGED <<owner, probe>>
    <2>1. ask' = [ask EXCEPT ![o] = [ask[o] EXCEPT !.pc = "incoming", !.run = r]]
      BY <1>1, <1>5 DEF AskRunState
    <2>2. [ask[o] EXCEPT !.pc = "incoming", !.run = r] \in Asks
      BY <1>1, <1>2 DEF Asks
    <2> QED BY <1>1, <1>5, <2>1, <2>2 DEF AskRunState
  <1>6. ASSUME NEW o \in Askers, LookQueued(o)
        PROVE  ask' \in [Askers -> Asks] /\ UNCHANGED <<owner, probe>>
    BY <1>2, <1>3, <1>4, <1>6 DEF LookQueued
  <1>7. ASSUME NEW o \in Askers, ProbeProcessor(o)
        PROVE  /\ ask' \in [Askers -> Asks]
               /\ owner' \in [Inodes -> Owners] /\ probe' \in [Observers -> Lock]
    <2>1. ask[o].run \in Runs
      BY <1>1 DEF Asks
    <2>2. fs[ask[o].run]["processing"].lock # NoLock
              => fs[ask[o].run]["processing"].lock \in Inodes
      BY <2>1, ProbedLemma
    <2> QED BY <1>1, <1>2, <1>3, <1>4, <1>7, <2>2 DEF ProbeProcessor, Lock
  <1>8. ASSUME NEW o \in Askers, ProbeReleased(o)
        PROVE  /\ ask' \in [Askers -> Asks]
               /\ owner' \in [Inodes -> Owners] /\ probe' \in [Observers -> Lock]
    BY <1>1, <1>3, <1>4, <1>8 DEF ProbeReleased, EndProbe, Released, Lock
  <1>9. ASSUME NEW o \in Askers, LookTerminal(o)
        PROVE  ask' \in [Askers -> Asks] /\ UNCHANGED <<owner, probe>>
    BY <1>2, <1>3, <1>4, <1>9 DEF LookTerminal, TerminalPhases
  <1>10. ASSUME NEW o \in Askers, ReadStatus(o)
         PROVE  ask' \in [Askers -> Asks] /\ UNCHANGED <<owner, probe>>
    BY <1>2, <1>3, <1>4, <1>10 DEF ReadStatus
  <1> QED BY <1>1, <1>5, <1>6, <1>7, <1>8, <1>9, <1>10 DEF RunStateActs, AskStep

\* What is true of a run is an answer.
LEMMA TruthsLemma == RunStateTypeOK /\ TruthsNoted => truths' \in [Askers -> SUBSET Answers]
  <1> SUFFICES ASSUME RunStateTypeOK, TruthsNoted PROVE truths' \in [Askers -> SUBSET Answers]
    OBVIOUS
  <1>1. \A o \in Askers : Where(ask[o].run)' \in Answers
    BY DEF Where, Answers
  <1> QED BY <1>1 DEF RunStateTypeOK, TruthsNoted

\* A directory of r has grown older, with the contents it had.
Ages(r) ==
    \E ph \in Phases, d \in Dirs :
        /\ fs' = Put(r, ph, d)
        /\ d.exists = Exists(r, ph)
        /\ d.inputs = fs[r][ph].inputs /\ d.staged = fs[r][ph].staged

\* What time does.
LEMMA TimeEffect ==
    ASSUME TypeOK, NEW r \in Runs, TimePasses(r)
    PROVE  /\ UNCHANGED fs \/ Ages(r)
           /\ UNCHANGED <<owner, probe, gc, opened>>
           /\ statusOld' \in SUBSET Runs \/ statusOld' = statusOld \/ statusOld' = statusOld \cup {r}
  <1>1. \A ph \in Phases : fs[r][ph] \in Dirs
    BY EditLemma
  <1>2. fs \in FsType
    BY DEF TypeOK, WorkDirTypeOK, FsType
  <1>3. CASE LeaseLapses(r)
    <2> DEFINE d == [fs[r]["incoming"] EXCEPT !.lease = "expired"]
    <2>1. "incoming" \in Phases
      BY DEF Phases
    <2>2. /\ d \in Dirs
          /\ d.exists = fs[r]["incoming"].exists
          /\ d.inputs = fs[r]["incoming"].inputs /\ d.staged = fs[r]["incoming"].staged
      BY <1>1, <2>1 DEF Dirs, LeaseKinds
    <2>3. fs' = [fs EXCEPT ![r] = [fs[r] EXCEPT !["incoming"] = d]]
      BY <1>2, <1>3, <2>1 DEF LeaseLapses, FsType
    <2> HIDE DEF d
    <2>4. Ages(r)
      BY <2>1, <2>2, <2>3 DEF Ages, Put, Exists
    <2> QED BY <1>3, <2>4 DEF LeaseLapses, gcVars
  <1>4. CASE \E ph \in Phases : DirAges(r, ph)
    <2>1. PICK ph \in Phases : DirAges(r, ph)
      BY <1>4
    <2> DEFINE d == [fs[r][ph] EXCEPT !.aged = TRUE]
    <2>2. /\ d \in Dirs
          /\ d.exists = fs[r][ph].exists
          /\ d.inputs = fs[r][ph].inputs /\ d.staged = fs[r][ph].staged
      BY <1>1, <2>1 DEF Dirs
    <2>3. fs' = [fs EXCEPT ![r] = [fs[r] EXCEPT ![ph] = d]]
      BY <1>2, <2>1 DEF DirAges, FsType
    <2> HIDE DEF d
    <2>4. Ages(r)
      BY <2>1, <2>2, <2>3 DEF Ages, Put, Exists
    <2> QED BY <2>1, <2>4 DEF DirAges, gcVars
  <1>5. CASE StatusAges(r)
    BY <1>5 DEF StatusAges
  <1> QED BY <1>3, <1>4, <1>5 DEF TimePasses

----------------------------------------------------------------------------
(* Type correctness of the server *)

\* Processors take the steps they take on their own.
LEMMA ProcessorsStep ==
    ASSUME ProcessorActs
    PROVE  /\ Next
           /\ fs' = fs \/ \E p \in Procs : ProcStep(p)
  <1>1. CASE \E p \in Procs : (StartProcessRun(p) \/ StartProcessOnce(p)) /\ Started(p)
    BY <1>1 DEF Next, ProcStep
  <1>2. CASE \E p \in Procs : Step(p) \/ Crash(p)
    BY <1>2 DEF Next, ProcStep
  <1>3. CASE \E r \in Runs : TransformWrites(r) \/ OrphanExits(r)
    BY <1>3 DEF Next, TransformWrites, OrphanExits
  <1> QED BY <1>1, <1>2, <1>3 DEF ProcessorActs

\* Initially.
LEMMA ServerTypeInit == ServerInit => ServerTypeOK
  <1> SUFFICES ASSUME ServerInit PROVE ServerTypeOK
    OBVIOUS
  <1>1. TypeOK
    <2>1. fs \in FsType
      <3>1. \A a \in Arrivals : Found(a) \in [Phases -> Dirs]
        BY NoDirLemma, ProcessorAssumption DEF Found
      <3>2. [ph \in Phases |-> NoDir] \in [Phases -> Dirs]
        BY NoDirLemma
      <3> QED BY <3>1, <3>2 DEF ServerInit, FsType
    <2>2. ControlType
      BY StepsLemma DEF ServerInit, Quiescent, ControlType, Owners, Lock, Replies, NoReply, Outcomes,
         Searching, PublishedStatus
    <2>3. crashes \in 0..MaxCrashes /\ ioErrors \in 0..MaxIOErrors
      BY ProcessorAssumption DEF ServerInit, Quiescent
    <2>4. run \in [Procs -> Runs]
      BY SomeRun DEF ServerInit, Quiescent
    <2>5. /\ from \in [Procs -> QueuePhases]
          /\ target \in [Procs -> Placements]
          /\ toRecover \in [Procs -> SUBSET Runs]
          /\ toClaim \in [Procs -> SUBSET Runs]
      BY DEF ServerInit, Quiescent, QueuePhases, Placements
    <2>6. /\ dest \in [Runs -> DestinationStates]
          /\ orphans \in [Runs -> Nat]
          /\ probe \in [Observers -> Lock]
          /\ imported \in SUBSET Runs
          /\ spawned \in [Runs -> SUBSET Placements]
      BY ProcessorAssumption DEF ServerInit, Quiescent, Lock
    <2> QED BY <2>1, <2>2, <2>3, <2>4, <2>5, <2>6 DEF FsType, ControlType, Owners, Lock, Replies,
               TypeOK, WorkDirTypeOK
  <1>2. IntakeTypeOK
    <2>1. call \in [Callers -> Calls]
      BY SomeRun, CallLemma DEF ServerInit, IntakeInit
    <2>2. stage \in [Runs -> Stages] /\ finished \in [Runs -> {"none", "ok", "error"}]
      BY DEF ServerInit, IntakeInit, Stages
    <2>3. beats \in 0..MaxBeats
      BY IntakeAssumption DEF ServerInit, IntakeInit
    <2> QED BY <2>1, <2>2, <2>3 DEF IntakeTypeOK, Calls
  <1>3. CollectorTypeOK
    BY RestingLemma DEF ServerInit, CollectorInit, CollectorTypeOK, Passes
  <1>4. RunStateTypeOK
    <2>1. ASSUME NEW r \in Runs
          PROVE  [pc |-> "idle", run |-> r, answer |-> "not_found"] \in Asks
      BY DEF Asks, AskSteps, Answers
    <2>2. ask \in [Askers -> Asks] /\ truths \in [Askers -> SUBSET Answers]
      BY <2>1, SomeRun DEF ServerInit, RunStateInit
    <2> QED BY <2>2 DEF RunStateTypeOK, Asks
  <1> QED BY <1>1, <1>2, <1>3, <1>4 DEF ServerInit, ServerTypeOK

\* The types of the processors' state where only directories and locks change.
LEMMA QuietTypes ==
    ASSUME TypeOK, fs' \in FsType, owner' \in [Inodes -> Owners], probe' \in [Observers -> Lock],
           UNCHANGED <<procVars, worldVars, faultVars>>
    PROVE  TypeOK'
  BY DEF TypeOK, WorkDirTypeOK, FsType, Owners, Lock, procVars, worldVars, faultVars, lists

\* Every step of the server keeps every type.
LEMMA ServerTypeStep == ServerTypeOK /\ [ServerNext]_serverVars => ServerTypeOK'
  <1> SUFFICES ASSUME ServerTypeOK, [ServerNext]_serverVars PROVE ServerTypeOK'
    OBVIOUS
  <1>1. /\ TypeOK /\ IntakeTypeOK /\ CollectorTypeOK /\ RunStateTypeOK
        /\ starts \in 0..MaxStarts /\ accepted \in SUBSET Runs
    BY DEF ServerTypeOK
  <1>2. CASE UNCHANGED serverVars
    <2>1. UNCHANGED vars /\ UNCHANGED <<intakeVars, gcVars, askVars, starts, accepted>>
      BY <1>2 DEF serverVars
    <2>2. TypeOK'
      BY <1>1, <2>1, TypeStep
    <2> QED BY <1>1, <2>1, <2>2 DEF ServerTypeOK, IntakeTypeOK, CollectorTypeOK, RunStateTypeOK,
            intakeVars, gcVars, askVars
  <1>3. CASE ServerNext
    <2>1. truths' \in [Askers -> SUBSET Answers]
      BY <1>1, <1>3, TruthsLemma DEF ServerNext
    <2>2. CASE ProcessorActs
      <3>1. TypeOK'
        BY <1>1, <2>2, ProcessorsStep, TypeStep
      <3>2. CollectorTypeOK'
        BY <1>1, <2>2, FollowsLemma, RenewedLemma DEF ProcessorActs, CollectorTypeOK, Passes
      <3>3. starts' \in 0..MaxStarts
        BY <1>1, <2>2, StartsAssumption DEF ProcessorActs, Started
      <3>4. UNCHANGED <<intakeVars, ask, accepted>>
        BY <2>2 DEF ProcessorActs
      <3> QED BY <1>1, <2>1, <3>1, <3>2, <3>3, <3>4 DEF ServerTypeOK, IntakeTypeOK,
              RunStateTypeOK, intakeVars
    <2>3. CASE IntakeActs
      <3>1. IntakeTypes
        BY <1>1, <2>3, HandlerTypes, ClientTypes DEF IntakeActs, IntakeNext, ClientActs, CallsOne
      <3>2. UNCHANGED <<procVars, worldVars, faultVars, probe, ask, opened, starts>>
        BY <2>3 DEF IntakeActs
      <3>3. UNCHANGED owner
        BY <2>3 DEF IntakeActs, IntakeNext, HandlerStep, BeginCreate, BeginLease, Prepare,
           HeartbeatRead, HeartbeatWrite, FinishLook, FinishLease, FinishMove, LoseConnection,
           HandlerDies, CallBegin, CallPrepare, CallHeartbeat, CallFinish, WriteInputs, Upload
      <3>4. TypeOK'
        <4>1. owner' \in [Inodes -> Owners] /\ probe' \in [Observers -> Lock]
          BY <1>1, <3>2, <3>3 DEF TypeOK, WorkDirTypeOK, Owners, Lock
        <4> QED BY <1>1, <3>1, <3>2, <4>1, QuietTypes DEF IntakeTypes
      <3>5. IntakeTypeOK'
        BY <3>1 DEF IntakeTypes, IntakeTypeOK, Calls
      <3>6. CollectorTypeOK'
        BY <1>1, <2>3, FollowsLemma, RenewedLemma DEF IntakeActs, CollectorTypeOK, Passes
      <3>7. accepted' \in SUBSET Runs
        BY <1>1, <2>3 DEF IntakeActs
      <3> QED BY <1>1, <2>1, <3>2, <3>4, <3>5, <3>6, <3>7 DEF ServerTypeOK, RunStateTypeOK
    <2>4. CASE CollectorActs
      <3>1. GcTypes
        BY <1>1, <2>4, PassTypes DEF CollectorActs, PassStep
      <3>2. UNCHANGED <<procVars, worldVars, faultVars, intakeVars, ask, starts, accepted>>
        BY <2>4 DEF CollectorActs
      <3>3. TypeOK'
        BY <1>1, <3>1, <3>2, QuietTypes DEF GcTypes
      <3>4. CollectorTypeOK'
        BY <3>1 DEF GcTypes, CollectorTypeOK, Passes
      <3> QED BY <1>1, <2>1, <3>2, <3>3, <3>4 DEF ServerTypeOK, IntakeTypeOK, RunStateTypeOK,
              intakeVars
    <2>5. CASE RunStateActs
      <3>1. /\ ask' \in [Askers -> Asks]
            /\ owner' \in [Inodes -> Owners] /\ probe' \in [Observers -> Lock]
        BY <1>1, <2>5, AskTypes
      <3>2. UNCHANGED <<fs, procVars, worldVars, faultVars, intakeVars, gcVars, starts, accepted>>
        BY <2>5 DEF RunStateActs
      <3>3. TypeOK'
        <4>1. fs' \in FsType
          BY <1>1, <3>2 DEF TypeOK, WorkDirTypeOK, FsType
        <4> QED BY <1>1, <3>1, <3>2, <4>1, QuietTypes
      <3> QED BY <1>1, <2>1, <3>1, <3>2, <3>3 DEF ServerTypeOK, IntakeTypeOK, CollectorTypeOK,
              RunStateTypeOK, Asks, intakeVars, gcVars
    <2>6. CASE \E r \in Runs : TimePasses(r)
      <3>1. PICK r \in Runs : TimePasses(r)
        BY <2>6
      <3>2. UNCHANGED <<procVars, worldVars, faultVars, intakeVars, ask, starts, accepted>>
        BY <3>1 DEF TimePasses
      <3>3. /\ UNCHANGED fs \/ Ages(r)
            /\ UNCHANGED <<owner, probe, gc, opened>>
            /\ statusOld' \in SUBSET Runs
        BY <1>1, <3>1, TimeEffect DEF CollectorTypeOK
      <3>4. TypeOK'
        <4>1. fs \in FsType /\ owner \in [Inodes -> Owners] /\ probe \in [Observers -> Lock]
          BY <1>1 DEF TypeOK, WorkDirTypeOK, FsType, Owners, Lock
        <4>2. fs' \in FsType
          BY <3>3, <4>1, PutLemma DEF Ages
        <4> QED BY <1>1, <3>2, <3>3, <4>1, <4>2, QuietTypes
      <3>5. CollectorTypeOK'
        BY <1>1, <3>3 DEF CollectorTypeOK
      <3> QED BY <1>1, <2>1, <3>2, <3>4, <3>5 DEF ServerTypeOK, IntakeTypeOK, RunStateTypeOK,
              intakeVars
    <2> QED BY <1>3, <2>2, <2>3, <2>4, <2>5, <2>6 DEF ServerNext
  <1> QED BY <1>2, <1>3

\* The state of the whole server keeps its types, for any number of runs, handlers,
\* processes, passes and questions.
THEOREM ServerTypesCorrect == ServerSpec => []ServerTypeOK
  BY ServerTypeInit, ServerTypeStep, PTL DEF ServerSpec

----------------------------------------------------------------------------
(* What others than handlers and clients do to the directories *)

\* The upload in r's directory ph is as it was.
SameUpload(r, ph) ==
    /\ fs'[r][ph].exists = fs[r][ph].exists
    /\ fs'[r][ph].inputs = fs[r][ph].inputs
    /\ fs'[r][ph].staged = fs[r][ph].staged

\* Whatever moves and changes, accepted runs alone are past incoming/, and a run that the
\* collector has not opened keeps its upload and goes through the phases in their order.
Tame ==
    /\ \A r \in Runs, ph \in Phases \ {"incoming"} : fs'[r][ph].exists => r \in accepted
    /\ \A r \in Runs \ opened :
          /\ SameUpload(r, "incoming")
          /\ fs'[r]["ready"].exists => SameUpload(r, "ready")
          /\ \A i \in 1..4 : Exists(r, LaterPhases[i])
                                => \E j \in i..4 : fs'[r][LaterPhases[j]].exists

\* Processors leave incoming/ alone, and in ready/ they write a lock file or a status.
LEMMA ProcUpload ==
    ASSUME TypeOK, NEW p \in Procs, ProcStep(p), NEW r \in Runs
    PROVE  /\ fs'[r]["incoming"] = fs[r]["incoming"]
           /\ fs'[r]["ready"].exists => SameUpload(r, "ready")
  <1>1. /\ fs \in FsType
        /\ run[p] \in Runs
        /\ \A x \in Phases : Queue(p, x) \in Dirs /\ Queue(p, x).exists = Exists(run[p], x)
    BY LocalsLemma, EditLemma DEF Queue, Exists
  <1>2. /\ "incoming" \in Phases /\ "ready" \in Phases
        /\ "incoming" \notin QueuePhases \cup TerminalPhases
        /\ "ready" \notin TerminalPhases \cup {"processing"}
    BY DEF Phases, QueuePhases, TerminalPhases
  <1>3. \A x \in Phases, d \in Dirs : fs' = Put(run[p], x, d) =>
            \A q \in Runs, ph \in Phases :
                fs'[q][ph] = IF q = run[p] /\ ph = x THEN d ELSE fs[q][ph]
    BY <1>1, PutLemma
  <1>4. CASE UNCHANGED fs
    BY <1>4 DEF SameUpload
  <1>5. CASE CreatesLock(p)
    <2>1. PICK x \in QueuePhases, i \in Inodes :
              fs' = Put(run[p], x, WithLock(Queue(p, x), i))
      BY <1>5 DEF CreatesLock
    <2>2. /\ x \in Phases
          /\ WithLock(Queue(p, x), i) \in Dirs
          /\ WithLock(Queue(p, x), i).exists = Queue(p, x).exists
          /\ WithLock(Queue(p, x), i).inputs = Queue(p, x).inputs
          /\ WithLock(Queue(p, x), i).staged = Queue(p, x).staged
      BY <1>1, WithLockLemma, PhasesLemma, ZenonT(60) DEF WithLock, Dirs
    <2> QED BY <1>2, <1>3, <2>1, <2>2 DEF SameUpload, Queue
  <1>6. CASE Moves(p)
    <2>1. PICK a \in QueuePhases, b \in {"processing"} \cup TerminalPhases :
              a # b /\ fs' = Rename(run[p], a, b)
      BY <1>6 DEF Moves
    <2>2. a \in Phases /\ b \in Phases
      BY PhasesLemma
    <2>3. \A q \in Runs, x \in Phases :
              fs'[q][x] = IF q = run[p] /\ x = a THEN NoDir
                          ELSE IF q = run[p] /\ x = b THEN fs[run[p]][a]
                          ELSE fs[q][x]
      BY <1>1, <2>1, <2>2, RenameLemma
    <2>4. a # "incoming" /\ b # "incoming" /\ b # "ready"
      BY <1>2
    <2> QED BY <1>2, <2>3, <2>4, NoDirLemma DEF SameUpload
  <1>7. CASE Publishes(p)
    <2>1. PICK x \in QueuePhases, s \in {"none", "failed", out[p]} :
              fs' = Put(run[p], x, WithStatus(Queue(p, x), s))
      BY <1>7 DEF Publishes
    <2>2. x \in Phases /\ s \in StatusKinds
      BY LocalsLemma, PhasesLemma DEF PublishedStatus
    <2>3. /\ WithStatus(Queue(p, x), s) \in Dirs
          /\ WithStatus(Queue(p, x), s).exists = Queue(p, x).exists
          /\ WithStatus(Queue(p, x), s).inputs = Queue(p, x).inputs
          /\ WithStatus(Queue(p, x), s).staged = Queue(p, x).staged
      BY <1>1, <2>2, WithStatusLemma, ZenonT(60) DEF WithStatus, Dirs
    <2> QED BY <1>2, <1>3, <2>1, <2>2, <2>3 DEF SameUpload, Queue
  <1>8. CASE Cleans(p) \/ Plan(p) \/ Scratch(p)
    <2>1. PICK x \in TerminalPhases \cup {"processing"} : \E d \in Dirs : fs' = Put(run[p], x, d)
      <3>1. \A x \in Phases : /\ WithLock(Queue(p, x), NoLock) \in Dirs
                              /\ Pruned(Queue(p, x)) \in Dirs
                              /\ WithWork(Queue(p, x)) \in Dirs
                              /\ WithoutWork(Queue(p, x)) \in Dirs
                              /\ \A t \in Plans : WithPlan(Queue(p, x), t) \in Dirs
        BY <1>1, WithLockLemma, PrunedLemma, WithWorkLemma, WithoutWorkLemma, WithPlanLemma
      <3> QED BY <1>8, <3>1, PhasesLemma DEF Cleans, Plan, Scratch
    <2>2. x \in Phases /\ x # "incoming" /\ x # "ready"
      BY <1>2, PhasesLemma
    <2> QED BY <1>2, <1>3, <2>1, <2>2 DEF SameUpload
  <1> QED BY <1>4, <1>5, <1>6, <1>7, <1>8, FsEffectLemma DEF FsEffect

\* Processors are tame: what they move has been accepted, and they move it forward.
LEMMA ProcTame ==
    ASSUME TypeOK, AcceptedInv, NEW p \in Procs, ProcStep(p)
    PROVE  Tame
  <1>1. /\ run[p] \in Runs
        /\ OthersUnchanged(p)
        /\ (\A ph \in Phases : Unchanged(run[p], ph)) \/ EditsOne(p) \/ MovesOne(p)
    BY LocalsLemma, DirEffect
  <1>2. ASSUME NEW r \in Runs, NEW ph \in Phases \ {"incoming"}, fs'[r][ph].exists
        PROVE  r \in accepted
    <2>1. CASE Exists(r, ph)
      BY <2>1 DEF AcceptedInv
    <2>2. CASE ~Exists(r, ph)
      <3>1. r = run[p] /\ ~Unchanged(r, ph)
        BY <1>1, <1>2, <2>2 DEF OthersUnchanged, Unchanged, Exists
      <3>2. CASE EditsOne(p)
        <4>1. PICK x \in Phases : /\ Edited(p, x)
                                  /\ \A y \in Phases \ {x} : Unchanged(run[p], y)
          BY <3>2 DEF EditsOne
        <4>2. ph = x
          BY <3>1, <4>1
        <4>3. pc[p] = "work"
          BY <2>2, <3>1, <4>1, <4>2 DEF Edited, Exists
        <4> QED BY <3>1, <4>3 DEF AcceptedInv, Holding, Importing
      <3>3. CASE MovesOne(p)
        <4>1. PICK a, b \in Phases : Moved(p, a, b)
          BY <3>3 DEF MovesOne
        <4> QED BY <1>1, <3>1, <4>1 DEF Moved, AcceptedInv
      <3> QED BY <1>1, <3>1, <3>2, <3>3
    <2> QED BY <2>1, <2>2
  <1>3. ASSUME NEW r \in Runs, NEW i \in 1..4, Exists(r, LaterPhases[i])
        PROVE  \E j \in i..4 : fs'[r][LaterPhases[j]].exists
    <2>1. LaterPhases[i] \in Phases /\ i \in i..4
      BY LaterLemma
    <2>2. CASE fs'[r][LaterPhases[i]].exists
      BY <2>1, <2>2
    <2>3. CASE ~fs'[r][LaterPhases[i]].exists
      <3>1. r = run[p] /\ ~Unchanged(r, LaterPhases[i])
        BY <1>1, <1>3, <2>1, <2>3 DEF OthersUnchanged, Unchanged, Exists
      <3>2. ~EditsOne(p)
        <4> SUFFICES ASSUME EditsOne(p) PROVE FALSE
          OBVIOUS
        <4>1. PICK x \in Phases : /\ Edited(p, x)
                                  /\ \A y \in Phases \ {x} : Unchanged(run[p], y)
          BY DEF EditsOne
        <4>2. LaterPhases[i] = x
          BY <2>1, <3>1, <4>1
        <4> QED BY <2>3, <3>1, <4>1, <4>2 DEF Edited
      <3>3. PICK a, b \in Phases : /\ Moved(p, a, b)
                                   /\ \A y \in Phases \ {a, b} : Unchanged(run[p], y)
        BY <1>1, <2>1, <3>1, <3>2 DEF MovesOne
      <3>4. LaterPhases[i] = a \/ LaterPhases[i] = b
        BY <2>1, <3>1, <3>3
      <3>5. fs'[r][b].exists
        BY <3>1, <3>3 DEF Moved, Exists
      <3>6. LaterPhases[i] = a
        BY <2>3, <3>4, <3>5
      <3>7. PICK j \in 1..4 : LaterPhases[j] = b
        <4>1. b \in Phases \ {"incoming"}
          BY <3>3 DEF Moved, TerminalPhases
        <4> QED BY <4>1, LaterLemma
      <3>8. i < j
        <4>1. a \in {"ready", "processing"} /\ b \in {"processing", "done", "failed"} /\ a # b
          BY <3>3 DEF Moved, QueuePhases, TerminalPhases
        <4>2. i \in 1..2 /\ j \in 2..4 /\ i # j
          BY <3>6, <3>7, <4>1, LaterLemma
        <4> QED BY <4>2
      <3> QED BY <3>5, <3>7, <3>8
    <2> QED BY <2>2, <2>3
  <1> QED BY <1>2, <1>3, ProcUpload DEF Tame, SameUpload

\* The collector is tame: it deletes what it has opened.
LEMMA PassTame ==
    ASSUME TypeOK, CollectorTypeOK, AcceptedInv, DeletesInv, NEW g \in Collectors, PassStep(g)
    PROVE  Tame
  <1>1. /\ fs \in FsType /\ gc[g].run \in Runs
        /\ "done" \in Phases /\ "incoming" \in Phases /\ "ready" \in Phases
        /\ \A i \in 1..4 : LaterPhases[i] \in Phases /\ i \in i..4
    BY PassLemma, LaterLemma DEF TypeOK, WorkDirTypeOK, FsType, Phases
  <1>2. CASE UNCHANGED fs
    BY <1>1, <1>2 DEF Tame, SameUpload, AcceptedInv, Exists
  <1>3. ASSUME NEW ph \in Phases, NEW d \in Dirs, fs' = Put(gc[g].run, ph, d),
               d.exists => Exists(gc[g].run, ph),
               \/ ph = "done" /\ d.exists = Exists(gc[g].run, ph)
               \/ gc[g].run \in opened
        PROVE  Tame
    <2>1. \A q \in Runs, x \in Phases :
              fs'[q][x] = IF q = gc[g].run /\ x = ph THEN d ELSE fs[q][x]
      BY <1>1, <1>3, PutLemma
    <2>2. \A q \in Runs, x \in Phases : fs'[q][x].exists => Exists(q, x)
      BY <1>3, <2>1 DEF Exists
    <2>3. ASSUME NEW r \in Runs \ opened
          PROVE  /\ SameUpload(r, "incoming") /\ SameUpload(r, "ready")
                 /\ \A x \in Phases : fs'[r][x].exists = Exists(r, x)
      BY <1>1, <1>3, <2>1 DEF SameUpload, Exists
    <2> QED BY <1>1, <2>2, <2>3 DEF Tame, AcceptedInv
  <1>4. CASE \E d \in Dirs : /\ d.exists = Exists(gc[g].run, "done")
                             /\ fs' = Put(gc[g].run, "done", d)
    BY <1>1, <1>3, <1>4
  <1>5. CASE /\ gc[g].pc = "remove"
             /\ \E ph \in Phases, d \in Dirs :
                   d.exists = Exists(gc[g].run, ph) /\ fs' = Put(gc[g].run, ph, d)
    BY <1>3, <1>5 DEF DeletesInv
  <1>6. CASE /\ gc[g].pc = "rmdir"
             /\ \E ph \in Phases : fs' = Put(gc[g].run, ph, NoDir)
    BY <1>3, <1>6, NoDirLemma DEF DeletesInv
  <1> QED BY <1>2, <1>4, <1>5, <1>6, GcEffectLemma DEF GcEffect

\* Time is tame.
LEMMA TimeTame ==
    ASSUME TypeOK, AcceptedInv, NEW r \in Runs, Ages(r)
    PROVE  Tame
  <1>1. PICK ph \in Phases, d \in Dirs :
            /\ fs' = Put(r, ph, d)
            /\ d.exists = Exists(r, ph)
            /\ d.inputs = fs[r][ph].inputs /\ d.staged = fs[r][ph].staged
    BY DEF Ages
  <1>2. fs \in FsType
    BY DEF TypeOK, WorkDirTypeOK, FsType
  <1>3. \A q \in Runs, x \in Phases : SameUpload(q, x)
    BY <1>1, <1>2, PutLemma DEF SameUpload, Exists
  <1>4. /\ "incoming" \in Phases /\ "ready" \in Phases
        /\ \A i \in 1..4 : LaterPhases[i] \in Phases /\ i \in i..4
    BY LaterLemma DEF Phases
  <1> QED BY <1>3, <1>4 DEF Tame, SameUpload, AcceptedInv, Exists

----------------------------------------------------------------------------
(* Calls and the stages of the clients *)

Opening == {"create", "lease", "prepare"}

\* The call ends; begin-run and prepare-run take a client that hears them further, or it quits.
Ends(c) ==
    LET r == call[c].run IN
    /\ call'[c].step = "none" /\ ~call'[c].heard
    /\ \/ stage'[r] = stage[r]
       \/ /\ call[c].heard
          /\ \/ call[c].step \in Opening /\ stage'[r] = "quit"
             \/ call[c].step = "lease" /\ stage'[r] = "begun"
             \/ call[c].step = "prepare" /\ stage'[r] = "prepared"
    /\ finished'[r] # finished[r] => call[c].heard /\ call[c].step \in FinishSteps

\* The call goes on.
GoesOn(c) ==
    /\ call'[c].heard = call[c].heard
    /\ UNCHANGED <<stage, finished>>
    /\ \/ call[c].step = "create" /\ call'[c].step = "lease"
       \/ call[c].step \in FinishSteps /\ call'[c].step \in FinishSteps
       \/ call[c].step = "hb_read" /\ call'[c].step = "hb_write"

\* The call is heard no longer.
Fades(c) ==
    LET r == call[c].run IN
    /\ call'[c].step = call[c].step /\ call[c].heard /\ ~call'[c].heard
    /\ stage'[r] = IF call[c].step \in Opening THEN "quit" ELSE stage[r]
    /\ UNCHANGED finished

\* One call, and what it means to its client, changes.
Conduct(c) ==
    /\ call'[c].run = call[c].run
    /\ \A d \in Callers \ {c} : call'[d] = call[d]
    /\ \A q \in Runs \ {call[c].run} : stage'[q] = stage[q] /\ finished'[q] = finished[q]
    /\ Ends(c) \/ GoesOn(c) \/ Fades(c)

\* Every step of a handler conducts one call.
LEMMA ConductLemma ==
    ASSUME TypeOK, IntakeTypeOK, NEW c \in Callers,
           HandlerStep(c) \/ LoseConnection(c) \/ HandlerDies(c)
    PROVE  Conduct(c)
  <1>1. /\ call \in [Callers -> Calls] /\ call[c] \in Calls /\ call[c].run \in Runs
        /\ call[c].heard \in BOOLEAN
    BY DEF IntakeTypeOK, Calls
  <1>11. ASSUME NEW to \in Stages, EndCall(c), Heard(c, to), UNCHANGED finished,
                \/ call[c].step \in Opening /\ to = "quit"
                \/ call[c].step = "lease" /\ to = "begun"
                \/ call[c].step = "prepare" /\ to = "prepared"
         PROVE  Conduct(c)
    <2>1. /\ call'[c].step = "none" /\ ~call'[c].heard /\ call'[c].run = call[c].run
          /\ \A d \in Callers \ {c} : call'[d] = call[d]
      BY <1>11, CallsLemma
    <2>2. /\ stage'[call[c].run] = IF call[c].heard THEN to ELSE stage[call[c].run]
          /\ \A q \in Runs \ {call[c].run} : stage'[q] = stage[q]
      BY <1>11, StagesLemma
    <2>3. Ends(c)
      BY <1>11, <2>1, <2>2 DEF Ends
    <2> QED BY <1>11, <2>1, <2>2, <2>3 DEF Conduct
  <1>2. CASE BeginCreate(c)
    <2>1. \/ CallGoto(c, "lease") /\ UNCHANGED stage
          \/ EndCall(c) /\ Heard(c, "quit")
      BY <1>2 DEF BeginCreate
    <2>2. call[c].step = "create" /\ UNCHANGED finished
      BY <1>2 DEF BeginCreate
    <2>3. CASE CallGoto(c, "lease") /\ UNCHANGED stage
      BY <2>2, <2>3, CallsLemma, NamesLemma DEF Conduct, GoesOn
    <2> QED BY <1>11, <2>1, <2>2, <2>3, NamesLemma DEF Opening
  <1>3. CASE BeginLease(c)
    <2>1. /\ EndCall(c) /\ (Heard(c, "begun") \/ Heard(c, "quit"))
          /\ call[c].step = "lease" /\ UNCHANGED finished
      BY <1>3 DEF BeginLease
    <2> QED BY <1>11, <2>1, NamesLemma DEF Opening
  <1>4. CASE Prepare(c)
    <2>1. /\ EndCall(c) /\ (Heard(c, "prepared") \/ Heard(c, "quit"))
          /\ call[c].step = "prepare" /\ UNCHANGED finished
      BY <1>4 DEF Prepare
    <2> QED BY <1>11, <2>1, NamesLemma DEF Opening
  <1>5. CASE HeartbeatRead(c) \/ HeartbeatWrite(c)
    <2>1. /\ UNCHANGED <<stage, finished>>
          /\ EndCall(c) \/ (CallGoto(c, "hb_write") /\ call[c].step = "hb_read")
      BY <1>5 DEF HeartbeatRead, HeartbeatWrite
    <2> QED BY <1>1, <2>1, CallsLemma, NamesLemma DEF Conduct, Ends, GoesOn
  <1>6. CASE FinishLook(c)
    <2>1. UNCHANGED stage /\ call[c].step = "fin_look" /\ "fin_look" \in FinishSteps
      BY <1>6 DEF FinishLook, FinishSteps
    <2>2. CASE FinishAnswers(c, "ok")
      BY <1>1, <2>1, <2>2, AnswersLemma, CallsLemma DEF Conduct, Ends
    <2>3. CASE ~FinishAnswers(c, "ok")
      <3>1. /\ call' = [call EXCEPT ![c] = IF call[c].look = Len(LaterPhases)
                                           THEN [call[c] EXCEPT !.step = "fin_lease"]
                                           ELSE [call[c] EXCEPT !.look = call[c].look + 1]]
            /\ UNCHANGED finished
        BY <1>6, <2>3 DEF FinishLook
      <3>2. /\ call'[c].run = call[c].run /\ call'[c].heard = call[c].heard
            /\ call'[c].step \in FinishSteps
            /\ \A d \in Callers \ {c} : call'[d] = call[d]
        BY <1>1, <2>1, <3>1 DEF Calls, FinishSteps
      <3> QED BY <2>1, <3>1, <3>2 DEF Conduct, GoesOn
    <2> QED BY <2>2, <2>3
  <1>7. CASE FinishLease(c)
    <2>1. /\ UNCHANGED stage /\ call[c].step \in FinishSteps /\ "fin_move" \in FinishSteps
          /\ (CallGoto(c, "fin_move") /\ UNCHANGED finished) \/ FinishAnswers(c, "error")
      BY <1>7 DEF FinishLease, FinishSteps
    <2> QED BY <1>1, <2>1, AnswersLemma, CallsLemma, NamesLemma, ZenonT(60) DEF Conduct, Ends, GoesOn
  <1>8. CASE FinishMove(c)
    <2>1. /\ UNCHANGED stage /\ call[c].step \in FinishSteps
          /\ FinishAnswers(c, "ok") \/ FinishAnswers(c, "error")
      BY <1>8 DEF FinishMove, FinishSteps
    <2> QED BY <1>1, <2>1, AnswersLemma, CallsLemma DEF Conduct, Ends
  <1>9. CASE LoseConnection(c)
    <2>1. /\ call'[c].run = call[c].run /\ call'[c].step = call[c].step /\ ~call'[c].heard
          /\ \A d \in Callers \ {c} : call'[d] = call[d]
      BY <1>1, <1>9 DEF LoseConnection, Calls
    <2>2. call[c].heard /\ GivesUp(c) /\ UNCHANGED finished
      BY <1>9 DEF LoseConnection
    <2>3. /\ stage'[call[c].run] = IF call[c].step \in Opening THEN "quit" ELSE stage[call[c].run]
          /\ \A q \in Runs \ {call[c].run} : stage'[q] = stage[q]
      BY <1>1, <2>2, StagesLemma, NamesLemma DEF GivesUp, Opening
    <2> QED BY <2>1, <2>2, <2>3 DEF Conduct, Fades
  <1>10. CASE HandlerDies(c)
    <2>1. EndCall(c) /\ GivesUp(c) /\ UNCHANGED finished
      BY <1>10 DEF HandlerDies
    <2>2. /\ \/ stage'[call[c].run] = stage[call[c].run]
             \/ call[c].heard /\ call[c].step \in Opening /\ stage'[call[c].run] = "quit"
          /\ \A q \in Runs \ {call[c].run} : stage'[q] = stage[q]
      BY <1>1, <2>1, StagesLemma, NamesLemma DEF GivesUp, Opening
    <2> QED BY <1>1, <2>1, <2>2, CallsLemma DEF Conduct, Ends
  <1> QED BY <1>2, <1>3, <1>4, <1>5, <1>6, <1>7, <1>8, <1>9, <1>10 DEF HandlerStep

\* What a client does to calls and stages.
Engages(r) ==
    /\ UNCHANGED finished
    /\ \A q \in Runs \ {r} : stage'[q] = stage[q]
    /\ \/ \E c \in Callers :
             /\ call[c].step = "none"
             /\ call'[c].run = r /\ call'[c].heard /\ call'[c].look = 1
             /\ \A d \in Callers \ {c} : call'[d] = call[d]
             /\ \/ stage[r] = "new" /\ stage'[r] = "beginning" /\ call'[c].step = "create"
                \/ stage[r] = "written" /\ stage'[r] = "preparing" /\ call'[c].step = "prepare"
                \/ stage'[r] = stage[r] /\ call'[c].step = "hb_read"
                \/ /\ stage[r] = "uploaded" /\ stage'[r] = "uploaded"
                   /\ call'[c].step = "fin_look"
                   /\ \A other \in Callers : call[other].run = r /\ call[other].heard
                                                => call[other].step \notin FinishSteps
       \/ /\ UNCHANGED call
          /\ \/ stage[r] = "begun" /\ stage'[r] \in {"written", "quit"}
             \/ stage[r] = "prepared" /\ stage'[r] \in {"uploaded", "quit"}

\* Every step of a client does that.
LEMMA EngagesLemma ==
    ASSUME TypeOK, IntakeTypeOK, NEW r \in Runs, ClientActs(r)
    PROVE  Engages(r)
  <1>1. ASSUME NEW c \in Callers, CallsOne(c, r)
        PROVE  Engages(r)
    <2>1. ASSUME NEW step \in CallSteps, Calling(c, r, step)
          PROVE  /\ call[c].step = "none"
                 /\ call'[c].run = r /\ call'[c].heard /\ call'[c].look = 1 /\ call'[c].step = step
                 /\ \A d \in Callers \ {c} : call'[d] = call[d]
      <3>1. call[c].step = "none"
        BY <2>1 DEF Calling
      <3> QED BY <2>1, <3>1, CallsLemma
    <2>2. CASE CallBegin(c, r)
      BY <2>1, <2>2, StagesLemma, NamesLemma DEF CallBegin, Engages
    <2>3. CASE CallPrepare(c, r)
      BY <2>1, <2>3, StagesLemma, NamesLemma DEF CallPrepare, Engages
    <2>4. CASE CallHeartbeat(c, r)
      BY <2>1, <2>4, NamesLemma DEF CallHeartbeat, Engages
    <2>5. CASE CallFinish(c, r)
      BY <2>1, <2>5, NamesLemma DEF CallFinish, Engages, FinishSteps
    <2> QED BY <1>1, <2>2, <2>3, <2>4, <2>5 DEF CallsOne
  <1>2. CASE WriteInputs(r)
    BY <1>2, StagesLemma, NamesLemma DEF WriteInputs, Engages
  <1>3. CASE Upload(r)
    BY <1>3, StagesLemma, NamesLemma DEF Upload, Engages
  <1> QED BY <1>1, <1>2, <1>3 DEF ClientActs

\* The calls a client can have under way.
LEMMA CallsStep ==
    ASSUME TypeOK, IntakeTypeOK, CallsInv, IntakeNext
    PROVE  CallsInv'
  <1>1. /\ \A c \in Callers : call[c].run \in Runs /\ call[c].heard \in BOOLEAN
        /\ Opening \cap FinishSteps = {} /\ "none" \notin Opening \cup FinishSteps
        /\ "hb_read" \notin Opening \cup FinishSteps /\ "hb_write" \notin Opening \cup FinishSteps
        /\ Opening = {"create", "lease", "prepare"} /\ "fin_look" \in FinishSteps
    BY DEF IntakeTypeOK, Opening, FinishSteps
  <1>2. ASSUME NEW c \in Callers, Conduct(c)
        PROVE  CallsInv'
    <2>1. CASE Ends(c)
      BY <1>1, <1>2, <2>1 DEF Conduct, Ends, CallsInv
    <2>2. CASE GoesOn(c)
      BY <1>1, <1>2, <2>2 DEF Conduct, GoesOn, CallsInv
    <2>3. CASE Fades(c)
      BY <1>1, <1>2, <2>3 DEF Conduct, Fades, CallsInv
    <2> QED BY <1>2, <2>1, <2>2, <2>3 DEF Conduct
  <1>3. ASSUME NEW r \in Runs, Engages(r)
        PROVE  CallsInv'
    BY <1>1, <1>3 DEF Engages, CallsInv
  <1> QED BY <1>2, <1>3, ConductLemma, EngagesLemma DEF IntakeNext, ClientActs, CallsOne

\* A client that has uploaded everything, or has given up, stays where it is.
LEMMA StageFinal ==
    ASSUME TypeOK, IntakeTypeOK, CallsInv, IntakeNext, NEW r \in Runs,
           stage[r] \in {"uploaded", "quit"}
    PROVE  stage'[r] = stage[r]
  <1>1. ASSUME NEW c \in Callers, Conduct(c)
        PROVE  stage'[r] = stage[r]
    BY <1>1 DEF Conduct, Ends, GoesOn, Fades, CallsInv, Opening
  <1>2. ASSUME NEW q \in Runs, Engages(q)
        PROVE  stage'[r] = stage[r]
    BY <1>2 DEF Engages
  <1> QED BY <1>1, <1>2, ConductLemma, EngagesLemma DEF IntakeNext, ClientActs, CallsOne

\* Handlers and clients write to incoming/, and finish-run moves one of them on.
LEMMA IntakeFs ==
    ASSUME TypeOK, IntakeTypeOK, IntakeNext, NEW q \in Runs, NEW ph \in Phases \ {"incoming"}
    PROVE  \/ fs'[q][ph] = fs[q][ph]
           \/ /\ ph = "ready" /\ ~Exists(q, "ready") /\ Exists(q, "incoming")
              /\ fs'[q]["ready"] = fs[q]["incoming"]
              /\ \E c \in Callers : call[c].step = "fin_move" /\ call[c].run = q
  <1>1. fs \in FsType /\ "incoming" \in Phases /\ "ready" \in Phases /\ "incoming" # "ready"
    BY NamesLemma DEF TypeOK, WorkDirTypeOK, FsType
  <1>2. \A c \in Callers : call[c].run \in Runs
    BY DEF IntakeTypeOK
  <1>3. ASSUME NEW r \in Runs, \E d \in Dirs : fs' = Put(r, "incoming", d)
        PROVE  fs'[q][ph] = fs[q][ph]
    BY <1>1, <1>3, PutLemma
  <1>4. CASE UNCHANGED fs
    BY <1>4
  <1>5. ASSUME NEW c \in Callers, FinishMove(c), ~UNCHANGED fs
        PROVE  \/ fs'[q][ph] = fs[q][ph]
               \/ /\ ph = "ready" /\ ~Exists(q, "ready") /\ Exists(q, "incoming")
                  /\ fs'[q]["ready"] = fs[q]["incoming"]
                  /\ call[c].step = "fin_move" /\ call[c].run = q
    <2>1. /\ call[c].step = "fin_move" /\ CanRename(call[c].run, "incoming", "ready")
          /\ fs' = Rename(call[c].run, "incoming", "ready")
      BY <1>5 DEF FinishMove
    <2> QED BY <1>1, <1>2, <2>1, RenameLemma DEF CanRename
  <1>6. ASSUME NEW c \in Callers, HandlerStep(c) \/ LoseConnection(c) \/ HandlerDies(c)
        PROVE  \/ UNCHANGED fs
               \/ \E d \in Dirs : fs' = Put(call[c].run, "incoming", d)
               \/ FinishMove(c)
    <2>1. BeginCreate(c) \/ BeginLease(c) \/ Prepare(c) \/ HeartbeatWrite(c) =>
              UNCHANGED fs \/ \E d \in Dirs : fs' = Put(call[c].run, "incoming", d)
      BY UploadEffects, NoDirLemma DEF Touches
    <2>2. HeartbeatRead(c) \/ FinishLook(c) \/ FinishLease(c) \/ LoseConnection(c) \/ HandlerDies(c)
              => UNCHANGED fs
      BY DEF HeartbeatRead, FinishLook, FinishLease, LoseConnection, HandlerDies
    <2> QED BY <1>6, <2>1, <2>2 DEF HandlerStep
  <1>7. ASSUME NEW r \in Runs, ClientActs(r)
        PROVE  UNCHANGED fs \/ \E d \in Dirs : fs' = Put(r, "incoming", d)
    <2>1. WriteInputs(r) \/ Upload(r) =>
              UNCHANGED fs \/ \E d \in Dirs : fs' = Put(r, "incoming", d)
      BY UploadEffects
    <2>2. (\E c \in Callers : CallsOne(c, r)) => UNCHANGED fs
      BY DEF CallsOne, CallBegin, CallPrepare, CallHeartbeat, CallFinish
    <2> QED BY <1>7, <2>1, <2>2 DEF ClientActs
  <1> QED BY <1>2, <1>3, <1>4, <1>5, <1>6, <1>7 DEF IntakeNext, ClientActs, CallsOne

\* A client hears that its run is accepted only when the run is past incoming/, and that it
\* is not only from a handler that has found it nowhere there.
LEMMA HeardLemma ==
    ASSUME TypeOK, IntakeTypeOK, IntakeNext, NEW r \in Runs, finished'[r] # finished[r]
    PROVE  /\ finished'[r] = "ok" =>
                 fs'[r]["ready"].exists \/ \E i \in 1..4 : Exists(r, LaterPhases[i])
           /\ finished'[r] = "error" =>
                 \E c \in Callers : /\ call[c].run = r /\ call[c].heard
                                    /\ call[c].step \in {"fin_lease", "fin_move"}
  <1>1. PICK c \in Callers : HandlerStep(c) \/ LoseConnection(c) \/ HandlerDies(c)
    BY EngagesLemma DEF IntakeNext, ClientActs, CallsOne, Engages
  <1>2. call[c].run = r /\ call[c].heard
    BY <1>1, ConductLemma DEF Conduct, Ends, GoesOn, Fades
  <1>3. FinishLook(c) \/ FinishLease(c) \/ FinishMove(c)
    BY <1>1 DEF HandlerStep, BeginCreate, BeginLease, Prepare, HeartbeatRead, HeartbeatWrite,
       LoseConnection, HandlerDies
  <1>4. CASE FinishLook(c)
    <2>1. Exists(r, LaterPhases[call[c].look]) /\ FinishAnswers(c, "ok")
      BY <1>2, <1>4 DEF FinishLook
    <2>2. call[c].look \in 1..4
      BY LaterLemma DEF IntakeTypeOK
    <2> QED BY <1>2, <2>1, <2>2, AnswersLemma
  <1>5. CASE FinishLease(c)
    <2>1. FinishAnswers(c, "error") /\ call[c].step = "fin_lease"
      BY <1>5 DEF FinishLease
    <2> QED BY <1>2, <2>1, AnswersLemma
  <1>6. CASE FinishMove(c)
    <2>1. CASE FinishAnswers(c, "error")
      BY <1>2, <1>6, <2>1, AnswersLemma DEF FinishMove
    <2>2. CASE /\ CanRename(r, "incoming", "ready")
               /\ fs' = Rename(r, "incoming", "ready") /\ FinishAnswers(c, "ok")
      <3>1. fs'[r]["ready"] = fs[r]["incoming"]
        <4>1. fs \in FsType /\ "incoming" # "ready"
          BY DEF TypeOK, WorkDirTypeOK, FsType
        <4> QED BY <2>2, <4>1, RenameLemma, NamesLemma
      <3> QED BY <1>2, <2>2, <3>1, AnswersLemma DEF CanRename, Exists
    <2> QED BY <1>2, <1>6, <2>1, <2>2 DEF FinishMove
  <1> QED BY <1>3, <1>4, <1>5, <1>6

\* What handlers and clients keep of what is accepted.
LEMMA AcceptedIntake ==
    ASSUME TypeOK, IntakeTypeOK, accepted \subseteq Runs, CallsInv, AcceptedInv, IntakeActs
    PROVE  AcceptedInv'
  <1>1. /\ IntakeNext
        /\ accepted' = accepted \cup {r \in Runs : fs'[r]["ready"].exists}
        /\ pc' = pc /\ run' = run
    BY DEF IntakeActs, procVars
  <1>2. ASSUME NEW r \in Runs, NEW ph \in Phases \ {"incoming"}, fs'[r][ph].exists
        PROVE  r \in accepted'
    BY <1>1, <1>2, IntakeFs DEF AcceptedInv, Exists
  <1>3. ASSUME NEW r \in accepted', r \in Runs
        PROVE  stage'[r] \in {"uploaded", "quit"}
    <2>1. CASE r \in accepted
      BY <1>1, <1>3, <2>1, StageFinal DEF AcceptedInv
    <2>2. CASE r \notin accepted
      <3>1. fs'[r]["ready"].exists /\ ~Exists(r, "ready")
        BY <1>1, <1>3, <2>2, NamesLemma DEF AcceptedInv
      <3>2. PICK c \in Callers : call[c].step = "fin_move" /\ call[c].run = r
        BY <1>1, <1>3, <3>1, IntakeFs, NamesLemma DEF Exists
      <3>3. stage[r] = "uploaded"
        BY <3>2 DEF CallsInv, FinishSteps
      <3> QED BY <1>1, <1>3, <3>3, StageFinal
    <2> QED BY <2>1, <2>2
  <1>4. ASSUME NEW r \in Runs, finished'[r] = "ok"
        PROVE  r \in accepted'
    <2>1. CASE finished[r] = "ok"
      BY <1>1, <2>1 DEF AcceptedInv
    <2>2. CASE finished[r] # "ok"
      BY <1>1, <1>4, <2>2, HeardLemma, LaterLemma DEF AcceptedInv
    <2> QED BY <2>1, <2>2
  <1>5. accepted' \subseteq Runs
    BY <1>1
  <1>6. \A p \in Procs : pc'[p] \in Holding \cup {"flock"} => run'[p] \in accepted'
    BY <1>1 DEF AcceptedInv
  <1> QED BY <1>2, <1>3, <1>4, <1>5, <1>6 DEF AcceptedInv, Exists

\* What the client of r has brought about is there.
Uploaded(r) ==
    /\ stage[r] \in {"begun", "written", "preparing", "prepared"} => Exists(r, "incoming")
    /\ stage[r] = "prepared" => fs[r]["incoming"].inputs = "ok"
    /\ stage[r] = "uploaded" =>
          \A ph \in {"incoming", "ready"} :
              Exists(r, ph) => fs[r][ph].staged /\ fs[r][ph].inputs = "ok"

\* It stays so where nobody touches the upload and the client does not go on.
LEMMA UploadedStays ==
    ASSUME NEW r \in Runs, Uploaded(r),
           stage'[r] \in {stage[r], "quit"}, SameUpload(r, "incoming"),
           fs'[r]["ready"].exists => SameUpload(r, "ready")
    PROVE  Uploaded(r)'
  BY DEF Uploaded, SameUpload, Exists

\* What handlers and clients keep of an upload.
LEMMA UploadedIntake ==
    ASSUME TypeOK, IntakeTypeOK, CallsInv, AcceptedInv, IntakeNext, NEW r \in Runs, Uploaded(r)
    PROVE  Uploaded(r)'
  <1>1. /\ fs \in FsType /\ "incoming" \in Phases /\ "ready" \in Phases /\ "incoming" # "ready"
        /\ \A c \in Callers : call[c].run \in Runs /\ call[c].heard \in BOOLEAN
    BY NamesLemma DEF TypeOK, WorkDirTypeOK, FsType, IntakeTypeOK
  <1>2. ASSUME fs'[r] = fs[r], stage'[r] \in {stage[r], "quit"}
        PROVE  Uploaded(r)'
    BY <1>2, UploadedStays DEF SameUpload
  <1>3. ASSUME NEW q \in Runs, Touches(q)
        PROVE  /\ SameUpload(r, "incoming") /\ SameUpload(r, "ready")
               /\ q = r => fs'[r]["incoming"].exists = Exists(r, "incoming")
    BY <1>1, <1>3, PutLemma DEF Touches, SameUpload, Exists
  <1>4. ASSUME NEW q \in Runs, NEW d \in Dirs, fs' = Put(q, "incoming", d)
        PROVE  /\ q = r => fs'[r]["incoming"] = d /\ fs'[r]["ready"] = fs[r]["ready"]
               /\ q # r => fs'[r]["incoming"] = fs[r]["incoming"] /\ fs'[r]["ready"] = fs[r]["ready"]
    BY <1>1, <1>4, PutLemma
  <1>5. ASSUME NEW q \in Runs \ {r}, UNCHANGED fs \/ (\E d \in Dirs : fs' = Put(q, "incoming", d)),
               stage'[r] = stage[r]
        PROVE  Uploaded(r)'
    BY <1>4, <1>5, UploadedStays DEF SameUpload
  <1>6. ASSUME NEW c \in Callers, HandlerStep(c) \/ LoseConnection(c) \/ HandlerDies(c)
        PROVE  Uploaded(r)'
    <2> DEFINE q == call[c].run
    <2>1. \A x \in Runs \ {q} : stage'[x] = stage[x]
      BY <1>6, ConductLemma DEF Conduct
    <2>2. /\ Heard(c, "quit") => stage'[q] = IF call[c].heard THEN "quit" ELSE stage[q]
          /\ Heard(c, "begun") => stage'[q] = IF call[c].heard THEN "begun" ELSE stage[q]
          /\ Heard(c, "prepared") => stage'[q] = IF call[c].heard THEN "prepared" ELSE stage[q]
      BY StagesLemma, NamesLemma
    <2>3. CASE BeginCreate(c)
      <3>1. CASE UNCHANGED fs /\ Heard(c, "quit")
        BY <1>2, <2>1, <2>2, <3>1
      <3>2. CASE (\E d \in Dirs : fs' = Put(q, "incoming", d)) /\ UNCHANGED stage
        <4>1. CASE q = r
          <5>1. stage[r] \in {"beginning", "quit"}
            BY <2>3, <4>1 DEF BeginCreate, CallsInv
          <5> QED BY <3>2, <5>1 DEF Uploaded
        <4> QED BY <1>1, <1>5, <3>2, <4>1
      <3> QED BY <2>3, <3>1, <3>2, UploadEffects
    <2>4. CASE BeginLease(c)
      <3>1. stage[q] = IF call[c].heard THEN "beginning" ELSE "quit"
        BY <2>4 DEF BeginLease, CallsInv
      <3>2. CASE Exists(q, "incoming") /\ Touches(q) /\ Heard(c, "begun")
        <4>1. CASE q = r
          <5>1. stage'[r] \in {"begun", "quit"} /\ fs'[r]["incoming"].exists
            BY <1>1, <1>3, <2>2, <3>1, <3>2, <4>1
          <5> QED BY <5>1 DEF Uploaded, Exists
        <4>2. CASE q # r
          BY <1>1, <1>3, <2>1, <3>2, <4>2, UploadedStays
        <4> QED BY <4>1, <4>2
      <3>3. CASE fs' = Put(q, "incoming", NoDir) /\ Heard(c, "quit")
        <4>1. CASE q = r
          <5>1. stage'[r] = "quit"
            BY <1>1, <2>2, <3>1, <3>3, <4>1
          <5> QED BY <5>1 DEF Uploaded
        <4> QED BY <1>1, <1>5, <2>1, <3>3, <4>1, NoDirLemma
      <3> QED BY <2>4, <3>2, <3>3, UploadEffects
    <2>5. CASE Prepare(c)
      <3>1. stage[q] = IF call[c].heard THEN "preparing" ELSE "quit"
        BY <2>5 DEF Prepare, CallsInv
      <3>2. CASE UNCHANGED fs /\ Heard(c, "quit")
        BY <1>2, <2>1, <2>2, <3>2
      <3>3. CASE /\ Exists(q, "incoming") /\ fs[q]["incoming"].inputs = "ok"
                 /\ UNCHANGED fs \/ Touches(q)
                 /\ Heard(c, "prepared")
        <4>1. SameUpload(r, "incoming") /\ SameUpload(r, "ready")
          BY <1>1, <1>3, <3>3 DEF SameUpload
        <4>2. CASE q = r
          <5>1. stage'[r] \in {"prepared", "quit"}
            BY <1>1, <2>2, <3>1, <3>3, <4>2
          <5>2. fs'[r]["incoming"].exists /\ fs'[r]["incoming"].inputs = "ok"
            BY <3>3, <4>1, <4>2 DEF SameUpload, Exists
          <5> QED BY <5>1, <5>2 DEF Uploaded, Exists
        <4>3. CASE q # r
          BY <2>1, <4>1, <4>3, UploadedStays
        <4> QED BY <4>2, <4>3
      <3> QED BY <2>5, <3>2, <3>3, UploadEffects
    <2>6. CASE HeartbeatWrite(c)
      <3>1. UNCHANGED stage
        BY <2>6 DEF HeartbeatWrite
      <3> QED BY <1>1, <1>2, <1>3, <2>6, <3>1, UploadEffects, UploadedStays
    <2>7. CASE HeartbeatRead(c) \/ FinishLook(c) \/ FinishLease(c)
      BY <1>2, <2>7 DEF HeartbeatRead, FinishLook, FinishLease
    <2>8. CASE FinishMove(c)
      <3>1. UNCHANGED stage
        BY <2>8 DEF FinishMove
      <3>2. CASE UNCHANGED fs
        BY <1>2, <3>1, <3>2
      <3>3. CASE CanRename(q, "incoming", "ready") /\ fs' = Rename(q, "incoming", "ready")
        <4>1. \A x \in Runs, ph \in Phases :
                  fs'[x][ph] = IF x = q /\ ph = "incoming" THEN NoDir
                               ELSE IF x = q /\ ph = "ready" THEN fs[q]["incoming"]
                               ELSE fs[x][ph]
          BY <1>1, <3>3, RenameLemma
        <4>2. CASE q = r
          <5>1. stage[r] = "uploaded"
            BY <2>8, <4>2 DEF FinishMove, CallsInv, FinishSteps
          <5> QED BY <1>1, <3>1, <3>3, <4>1, <4>2, <5>1, NoDirLemma DEF Uploaded, CanRename, Exists
        <4>3. CASE q # r
          BY <1>1, <3>1, <4>1, <4>3, UploadedStays DEF SameUpload
        <4> QED BY <4>2, <4>3
      <3> QED BY <2>8, <3>2, <3>3 DEF FinishMove
    <2>9. CASE LoseConnection(c) \/ HandlerDies(c)
      <3>1. UNCHANGED fs
        BY <2>9 DEF LoseConnection, HandlerDies
      <3>2. stage'[q] \in {stage[q], "quit"}
        BY <2>2, <2>9 DEF LoseConnection, HandlerDies, GivesUp
      <3> QED BY <1>2, <2>1, <3>1, <3>2
    <2> QED BY <1>6, <2>3, <2>4, <2>5, <2>6, <2>7, <2>8, <2>9 DEF HandlerStep
  <1>7. ASSUME NEW q \in Runs, ClientActs(q)
        PROVE  Uploaded(r)'
    <2>1. \A x \in Runs \ {q} : stage'[x] = stage[x]
      BY <1>7, EngagesLemma DEF Engages
    <2>2. CASE \E c \in Callers : CallsOne(c, q)
      <3>1. UNCHANGED fs
        BY <2>2 DEF CallsOne, CallBegin, CallPrepare, CallHeartbeat, CallFinish
      <3>2. \/ stage'[q] = stage[q]
            \/ stage'[q] = "beginning"
            \/ stage[q] = "written" /\ stage'[q] = "preparing"
        BY <2>2, StagesLemma, NamesLemma
           DEF CallsOne, CallBegin, CallPrepare, CallHeartbeat, CallFinish
      <3>3. CASE q = r
        BY <3>1, <3>2, <3>3 DEF Uploaded, Exists
      <3> QED BY <1>2, <2>1, <3>1, <3>3
    <2>3. CASE WriteInputs(q)
      <3>1. CASE UNCHANGED fs /\ Advance(q, "quit")
        BY <1>2, <2>1, <3>1, StagesLemma, NamesLemma
      <3>2. CASE Advance(q, "written") /\ \E d \in Dirs : d.exists /\ fs' = Put(q, "incoming", d)
        <4>1. CASE q = r
          <5>1. stage'[r] = "written"
            BY <3>2, <4>1, StagesLemma, NamesLemma
          <5>2. fs'[r]["incoming"].exists
            BY <1>4, <3>2, <4>1
          <5> QED BY <5>1, <5>2 DEF Uploaded, Exists
        <4> QED BY <1>5, <2>1, <3>2, <4>1
      <3> QED BY <2>3, <3>1, <3>2, UploadEffects
    <2>4. CASE Upload(q)
      <3>1. CASE UNCHANGED fs /\ Advance(q, "quit")
        BY <1>2, <2>1, <3>1, StagesLemma, NamesLemma
      <3>2. CASE /\ Advance(q, "uploaded")
                 /\ \E d \in Dirs : /\ d.exists /\ d.staged
                                    /\ d.inputs = fs[q]["incoming"].inputs
                                    /\ fs' = Put(q, "incoming", d)
        <4>1. CASE q = r
          <5>1. stage'[r] = "uploaded" /\ stage[r] = "prepared"
            BY <2>4, <3>2, <4>1, StagesLemma, NamesLemma DEF Upload
          <5>2. /\ fs'[r]["incoming"].staged /\ fs'[r]["incoming"].inputs = "ok"
                /\ fs'[r]["ready"] = fs[r]["ready"]
            BY <1>4, <3>2, <4>1, <5>1 DEF Uploaded
          <5>3. ~Exists(r, "ready")
            BY <1>1, <5>1 DEF AcceptedInv
          <5> QED BY <5>1, <5>2, <5>3 DEF Uploaded, Exists
        <4> QED BY <1>5, <2>1, <3>2, <4>1
      <3> QED BY <2>4, <3>1, <3>2, UploadEffects
    <2> QED BY <1>7, <2>2, <2>3, <2>4 DEF ClientActs
  <1> QED BY <1>6, <1>7 DEF IntakeNext, ClientActs, CallsOne

\* An accepted run is somewhere, and whoever finish-run answers finds it.
Findable(r) ==
    finished[r] = "ok" =>
        /\ \E i \in 1..4 : Exists(r, LaterPhases[i])
        /\ \A c \in Callers :
              call[c].run = r /\ call[c].heard /\ call[c].step \in FinishSteps =>
                  /\ call[c].step = "fin_look"
                  /\ \E i \in call[c].look..4 : Exists(r, LaterPhases[i])

\* Only one of the handlers of finish-run is heard.
OneHeard ==
    \A c, d \in Callers :
        /\ c # d /\ call[c].run = call[d].run
        /\ call[c].heard /\ call[c].step \in FinishSteps
        /\ call[d].heard
        => call[d].step \notin FinishSteps

\* The two invariants in these terms.
LEMMA InvParts ==
    /\ UploadInv <=> \A r \in Runs \ opened : Uploaded(r)
    /\ RetryInv <=> OneHeard /\ \A r \in Runs \ opened : Findable(r)
  BY LaterLemma DEF UploadInv, Uploaded, RetryInv, OneHeard, Findable

\* A client waits for an answer before it calls finish-run again.
LEMMA OneHeardStep ==
    ASSUME TypeOK, IntakeTypeOK, OneHeard, IntakeNext
    PROVE  OneHeard'
  <1>1. "none" \notin FinishSteps /\ "create" \notin FinishSteps /\ "prepare" \notin FinishSteps
        /\ "lease" \notin FinishSteps /\ "hb_read" \notin FinishSteps /\ "hb_write" \notin FinishSteps
    BY DEF FinishSteps
  <1>2. ASSUME NEW c \in Callers, Conduct(c)
        PROVE  OneHeard'
    BY <1>1, <1>2 DEF Conduct, Ends, GoesOn, Fades, OneHeard
  <1>3. ASSUME NEW r \in Runs, Engages(r)
        PROVE  OneHeard'
    BY <1>1, <1>3 DEF Engages, OneHeard
  <1> QED BY <1>2, <1>3, ConductLemma, EngagesLemma DEF IntakeNext, ClientActs, CallsOne

\* Handlers and clients leave every run past incoming/ where it is.
LEMMA LaterStays ==
    ASSUME TypeOK, IntakeTypeOK, IntakeNext, NEW r \in Runs, NEW i \in 1..4,
           Exists(r, LaterPhases[i])
    PROVE  fs'[r][LaterPhases[i]].exists
  BY IntakeFs, LaterLemma DEF Exists

\* A handler of finish-run that has not found the run yet looks further.
LEMMA LooksOn ==
    ASSUME TypeOK, IntakeTypeOK, IntakeNext, NEW c \in Callers, NEW i \in call[c].look..4,
           Exists(call[c].run, LaterPhases[i]), call[c].step = "fin_look",
           call'[c].run = call[c].run, call'[c].heard, call'[c].step \in FinishSteps
    PROVE  call'[c].step = "fin_look" /\ i \in call'[c].look..4
  <1>1. /\ call \in [Callers -> Calls] /\ call[c].look \in 1..4
        /\ Len(LaterPhases) = 4 /\ "none" \notin FinishSteps
    BY LaterLemma DEF IntakeTypeOK, Calls, FinishSteps
  <1>2. CASE call'[c] = call[c]
    BY <1>2
  <1>3. CASE FinishLook(c)
    <2>1. ~EndCall(c)
      BY <1>1, CallsLemma
    <2>2. /\ ~Exists(call[c].run, LaterPhases[call[c].look])
          /\ call' = [call EXCEPT ![c] = IF call[c].look = Len(LaterPhases)
                                         THEN [call[c] EXCEPT !.step = "fin_lease"]
                                         ELSE [call[c] EXCEPT !.look = call[c].look + 1]]
      BY <1>3, <2>1 DEF FinishLook, FinishAnswers
    <2>3. call[c].look # i /\ call[c].look < 4
      BY <1>1, <2>2
    <2>4. call'[c] = [call[c] EXCEPT !.look = call[c].look + 1]
      BY <1>1, <2>2, <2>3
    <2>5. call'[c].step = "fin_look" /\ call'[c].look = call[c].look + 1
      BY <1>1, <2>4 DEF Calls
    <2> QED BY <1>1, <2>3, <2>5
  <1>4. CASE LoseConnection(c)
    BY <1>1, <1>4 DEF LoseConnection, Calls
  <1>5. CASE HandlerDies(c)
    BY <1>1, <1>5, CallsLemma DEF HandlerDies
  <1>6. ASSUME NEW d \in Callers, d # c, HandlerStep(d) \/ LoseConnection(d) \/ HandlerDies(d)
        PROVE  call'[c] = call[c]
    BY <1>6, ConductLemma DEF Conduct
  <1>7. HandlerStep(c) => FinishLook(c)
    BY DEF HandlerStep, BeginCreate, BeginLease, Prepare, HeartbeatRead, HeartbeatWrite, FinishLease,
       FinishMove
  <1>8. ASSUME NEW r \in Runs, ClientActs(r)
        PROVE  call'[c] = call[c]
    BY <1>8, EngagesLemma DEF Engages
  <1> QED BY <1>2, <1>3, <1>4, <1>5, <1>6, <1>7, <1>8 DEF IntakeNext, ClientActs, CallsOne

\* What handlers and clients keep of that.
LEMMA FindableIntake ==
    ASSUME TypeOK, IntakeTypeOK, OneHeard, IntakeNext, NEW r \in Runs, Findable(r)
    PROVE  Findable(r)'
  <1> SUFFICES ASSUME finished'[r] = "ok" PROVE Findable(r)'
    BY DEF Findable
  <1>1. /\ "none" \notin FinishSteps /\ "create" \notin FinishSteps /\ "lease" \notin FinishSteps
        /\ "prepare" \notin FinishSteps /\ "hb_read" \notin FinishSteps
        /\ "hb_write" \notin FinishSteps
        /\ \A c \in Callers : call[c].run \in Runs
    BY DEF FinishSteps, IntakeTypeOK
  <1>2. \E i \in 1..4 : Exists(r, LaterPhases[i])'
    <2>1. CASE finished[r] = "ok"
      BY <2>1, LaterStays DEF Findable, Exists
    <2>2. CASE finished[r] # "ok"
      BY <2>2, HeardLemma, LaterStays, LaterLemma DEF Exists
    <2> QED BY <2>1, <2>2
  <1>3. ASSUME NEW c \in Callers, call'[c].run = r, call'[c].heard, call'[c].step \in FinishSteps
        PROVE  /\ call'[c].step = "fin_look"
               /\ \E i \in call'[c].look..4 : Exists(r, LaterPhases[i])'
    <2>1. CASE finished[r] = "ok" /\ call[c].run = r /\ call[c].heard /\ call[c].step \in FinishSteps
      <3>1. call[c].step = "fin_look"
        BY <2>1 DEF Findable
      <3>2. PICK i \in call[c].look..4 : Exists(r, LaterPhases[i])
        BY <2>1 DEF Findable
      <3>3. call'[c].step = "fin_look" /\ i \in call'[c].look..4
        BY <1>3, <2>1, <3>1, <3>2, LooksOn
      <3>4. i \in 1..4
        BY LaterLemma DEF IntakeTypeOK
      <3> QED BY <3>2, <3>3, <3>4, LaterStays DEF Exists
    <2>2. CASE ~(call[c].run = r /\ call[c].heard /\ call[c].step \in FinishSteps)
      <3>1. ASSUME NEW d \in Callers, Conduct(d)
            PROVE  FALSE
        BY <1>1, <1>3, <2>2, <3>1 DEF Conduct, Ends, GoesOn, Fades
      <3>2. ASSUME NEW q \in Runs, Engages(q)
            PROVE  call'[c].step = "fin_look" /\ call'[c].look = 1
        BY <1>1, <1>3, <2>2, <3>2 DEF Engages
      <3>3. call'[c].step = "fin_look" /\ call'[c].look = 1
        BY <3>1, <3>2, ConductLemma, EngagesLemma DEF IntakeNext, ClientActs, CallsOne
      <3> QED BY <1>2, <3>3
    <2>3. CASE finished[r] # "ok" /\ call[c].run = r /\ call[c].heard /\ call[c].step \in FinishSteps
      <3>1. ASSUME NEW d \in Callers, Conduct(d)
            PROVE  FALSE
        <4>1. call[d].run = r /\ call[d].heard /\ call[d].step \in FinishSteps /\ Ends(d)
          BY <2>3, <3>1 DEF Conduct, Ends, GoesOn, Fades
        <4>2. d = c
          BY <2>3, <4>1 DEF OneHeard
        <4> QED BY <1>3, <4>1, <4>2 DEF Ends
      <3>2. ASSUME NEW q \in Runs, Engages(q)
            PROVE  FALSE
        BY <2>3, <3>2 DEF Engages
      <3> QED BY <3>1, <3>2, ConductLemma, EngagesLemma DEF IntakeNext, ClientActs, CallsOne
    <2> QED BY <2>1, <2>2, <2>3
  <1> QED BY <1>2, <1>3 DEF Findable

----------------------------------------------------------------------------
(* The inductive invariant of the server *)

ServerFacts == ServerTypeOK /\ ServerInv

\* Whatever is tame keeps the invariant where handlers and clients do nothing.
LEMMA TameKeeps ==
    ASSUME ServerFacts, Tame, UNCHANGED <<stage, call, finished, accepted>>, opened \subseteq opened',
           \A p \in Procs : pc'[p] \in Holding \cup {"flock"} => run'[p] \in accepted,
           DeletesInv'
    PROVE  ServerInv'
  <1>1. CallsInv'
    BY DEF ServerFacts, ServerInv, CallsInv
  <1>2. AcceptedInv'
    BY DEF ServerFacts, ServerInv, AcceptedInv, Tame, Exists
  <1>3. UploadInv'
    <2>1. ASSUME NEW r \in Runs \ opened'
          PROVE  Uploaded(r)'
      BY InvParts, UploadedStays DEF ServerFacts, ServerInv, Tame
    <2>2. UploadInv' <=> \A r \in Runs \ opened' : Uploaded(r)'
      BY LaterLemma DEF UploadInv, Uploaded
    <2> QED BY <2>1, <2>2
  <1>4. RetryInv'
    <2>1. OneHeard' /\ OneHeard
      BY InvParts DEF ServerFacts, ServerInv, OneHeard
    <2>2. ASSUME NEW r \in Runs \ opened'
          PROVE  Findable(r)'
      <3>1. Findable(r) /\ r \notin opened
        BY InvParts DEF ServerFacts, ServerInv
      <3>2. \A i \in 1..4 : Exists(r, LaterPhases[i]) => \E j \in i..4 : Exists(r, LaterPhases[j])'
        BY <3>1 DEF Tame, Exists
      <3>3. \A c \in Callers : call[c].look \in 1..4
        BY LaterLemma DEF ServerFacts, ServerTypeOK, IntakeTypeOK
      <3>4. (\E i \in 1..4 : Exists(r, LaterPhases[i])) => \E i \in 1..4 : Exists(r, LaterPhases[i])'
        BY <3>2
      <3>5. ASSUME NEW c \in Callers, \E i \in call[c].look..4 : Exists(r, LaterPhases[i])
            PROVE  \E i \in call[c].look..4 : Exists(r, LaterPhases[i])'
        <4>1. PICK i \in call[c].look..4 : Exists(r, LaterPhases[i])
          BY <3>5
        <4>2. i \in 1..4 /\ i..4 \subseteq call[c].look..4
          BY <3>3
        <4> QED BY <3>2, <4>1, <4>2
      <3> QED BY <3>1, <3>4, <3>5 DEF Findable
    <2>3. RetryInv' <=> OneHeard' /\ \A r \in Runs \ opened' : Findable(r)'
      BY LaterLemma DEF RetryInv, OneHeard, Findable
    <2> QED BY <2>1, <2>2, <2>3
  <1> QED BY <1>1, <1>2, <1>3, <1>4 DEF ServerInv, ServerFacts

\* Initially.
LEMMA ServerInvInit == ServerInit => ServerInv
  <1> SUFFICES ASSUME ServerInit PROVE ServerInv
    OBVIOUS
  <1>1. /\ \A c \in Callers : call[c].step = "none"
        /\ \A r \in Runs : finished[r] = "none" /\ stage[r] \in {"new", "quit"}
    BY SomeRun, CallLemma DEF ServerInit, IntakeInit
  <1>2. CallsInv
    BY <1>1 DEF CallsInv, FinishSteps
  <1>3. AcceptedInv
    BY <1>1 DEF ServerInit, AcceptedInv, Quiescent, Holding, Claiming, Importing, Failing, Closing
  <1>4. DeletesInv
    BY RestingLemma DEF ServerInit, CollectorInit, DeletesInv
  <1>5. UploadInv
    BY <1>1 DEF UploadInv
  <1>6. RetryInv
    BY <1>1 DEF RetryInv, FinishSteps
  <1> QED BY <1>2, <1>3, <1>4, <1>5, <1>6 DEF ServerInv

\* A processor that waits for a lock or holds one worked on that run before, or has just
\* found the run in a queue.
LEMMA EntersLemma ==
    ASSUME TypeOK, NEW p \in Procs, ProcStep(p), pc'[p] \in Holding \cup {"flock"}
    PROVE  /\ run' = run
           /\ \/ pc[p] \in Holding \cup {"flock"}
              \/ \E ph \in QueuePhases : Exists(run[p], ph)
  <1>1. CASE StartProcessRun(p)
    BY <1>1, PcLemma, OutsideLemma DEF StartProcessRun, Holding, Claiming, Importing, Failing, Closing,
           Outside, Searching
  <1>2. CASE StartProcessOnce(p)
    BY <1>2, PcLemma, OutsideLemma DEF StartProcessOnce, Holding, Claiming, Importing, Failing, Closing,
           Outside, Searching
  <1>3. CASE ListReady(p)
    BY <1>3, PcLemma, OutsideLemma DEF ListReady, Holding, Claiming, Importing, Failing, Closing,
           Outside, Searching
  <1>4. CASE NextRecovery(p)
    BY <1>4, PcLemma, OutsideLemma DEF NextRecovery, Holding, Claiming, Importing, Failing, Closing,
           Outside, Searching
  <1>5. CASE NextClaim(p)
    BY <1>5, PcLemma, OutsideLemma DEF NextClaim, Holding, Claiming, Importing, Failing, Closing,
           Outside, Searching
  <1>6. CASE EndProcessOnce(p)
    BY <1>6, PcLemma, OutsideLemma DEF EndProcessOnce, Holding, Claiming, Importing, Failing, Closing,
           Outside, Searching
  <1>7. CASE Claim(p)
    BY <1>7, PcLemma, OutsideLemma DEF Claim, Holding, Claiming, Importing, Failing, Closing,
           Outside, Searching
  <1>8. CASE Recheck(p)
    BY <1>8, PcLemma, OutsideLemma DEF Recheck, Holding, Claiming, Importing, Failing, Closing,
           Outside, Searching
  <1>9. CASE FallThrough(p)
    BY <1>9, PcLemma, OutsideLemma DEF FallThrough, Holding, Claiming, Importing, Failing, Closing,
           Outside, Searching
  <1>10. CASE Recover(p)
    BY <1>10, PcLemma, OutsideLemma DEF Recover, Holding, Claiming, Importing, Failing, Closing,
           Outside, Searching
  <1>11. CASE OpenLock(p)
    <2>1. from[p] \in QueuePhases
      BY LocalsLemma, PhasesLemma
    <2>2. CASE ReturnError(p)
      BY <1>11, <2>2, PcLemma, OutsideLemma DEF OpenLock, Outside, Searching
    <2>3. CASE ~Queue(p, from[p]).exists /\ ~ReturnError(p)
      BY <1>11, <2>3, PcLemma, OutsideLemma DEF OpenLock, Works, Outside, Searching
    <2>4. CASE Queue(p, from[p]).exists /\ ~ReturnError(p)
      BY <1>11, <2>1, <2>4, PcLemma DEF OpenLock, Works, Exists, Queue
    <2> QED BY <2>2, <2>3, <2>4
  <1>12. CASE Flock(p)
    BY <1>12, PcLemma, OutsideLemma DEF Flock, Holding, Claiming, Importing, Failing, Closing,
           Outside, Searching
  <1>13. CASE ReadReadyInputs(p)
    BY <1>13, PcLemma, OutsideLemma DEF ReadReadyInputs, Holding, Claiming, Importing, Failing, Closing,
           Outside, Searching
  <1>14. CASE ClaimMove(p)
    BY <1>14, PcLemma, OutsideLemma DEF ClaimMove, Holding, Claiming, Importing, Failing, Closing,
           Outside, Searching
  <1>15. CASE PublishMalformed(p)
    BY <1>15, PcLemma, OutsideLemma DEF PublishMalformed, Holding, Claiming, Importing, Failing, Closing,
           Outside, Searching
  <1>16. CASE MoveMalformed(p)
    BY <1>16, PcLemma, OutsideLemma DEF MoveMalformed, Holding, Claiming, Importing, Failing, Closing,
           Outside, Searching
  <1>17. CASE RecoverStatus(p)
    BY <1>17, PcLemma, OutsideLemma DEF RecoverStatus, Holding, Claiming, Importing, Failing, Closing,
           Outside, Searching
  <1>18. CASE StartImport(p)
    BY <1>18, PcLemma, OutsideLemma DEF StartImport, Holding, Claiming, Importing, Failing, Closing,
           Outside, Searching
  <1>19. CASE CreateWork(p)
    BY <1>19, PcLemma, OutsideLemma DEF CreateWork, Holding, Claiming, Importing, Failing, Closing,
           Outside, Searching
  <1>20. CASE CheckStaged(p)
    BY <1>20, PcLemma, OutsideLemma DEF CheckStaged, Holding, Claiming, Importing, Failing, Closing,
           Outside, Searching
  <1>21. CASE LoadPlan(p)
    BY <1>21, PcLemma, OutsideLemma DEF LoadPlan, Holding, Claiming, Importing, Failing, Closing,
           Outside, Searching
  <1>22. CASE Spawn(p)
    BY <1>22, PcLemma, OutsideLemma DEF Spawn, Holding, Claiming, Importing, Failing, Closing,
           Outside, Searching
  <1>23. CASE TransformSucceeds(p)
    BY <1>23, PcLemma, OutsideLemma DEF TransformSucceeds, Holding, Claiming, Importing, Failing, Closing,
           Outside, Searching
  <1>24. CASE TransformFails(p)
    BY <1>24, PcLemma, OutsideLemma DEF TransformFails, Holding, Claiming, Importing, Failing, Closing,
           Outside, Searching
  <1>25. CASE WaitFails(p)
    BY <1>25, PcLemma, OutsideLemma DEF WaitFails, Holding, Claiming, Importing, Failing, Closing,
           Outside, Searching
  <1>26. CASE PublishStatus(p)
    BY <1>26, PcLemma, OutsideLemma DEF PublishStatus, Holding, Claiming, Importing, Failing, Closing,
           Outside, Searching
  <1>27. CASE Finalize(p)
    BY <1>27, PcLemma, OutsideLemma DEF Finalize, Holding, Claiming, Importing, Failing, Closing,
           Outside, Searching
  <1>28. CASE Prune(p)
    BY <1>28, PcLemma, OutsideLemma DEF Prune, Holding, Claiming, Importing, Failing, Closing,
           Outside, Searching
  <1>29. CASE Unlock(p)
    BY <1>29, PcLemma, OutsideLemma DEF Unlock, Holding, Claiming, Importing, Failing, Closing,
           Outside, Searching
  <1>30. CASE Reply(p)
    BY <1>30, PcLemma, OutsideLemma DEF Reply, Holding, Claiming, Importing, Failing, Closing,
           Outside, Searching
  <1>31. CASE Observe(p)
    BY <1>31, PcLemma, OutsideLemma DEF Observe, Holding, Claiming, Importing, Failing, Closing,
           Outside, Searching
  <1>32. CASE PublishFailure(p)
    BY <1>32, PcLemma, OutsideLemma DEF PublishFailure, Holding, Claiming, Importing, Failing, Closing,
           Outside, Searching
  <1>33. CASE MoveFailure(p)
    BY <1>33, PcLemma, OutsideLemma DEF MoveFailure, Holding, Claiming, Importing, Failing, Closing,
           Outside, Searching
  <1>34. CASE HandleError(p)
    BY <1>34, PcLemma, OutsideLemma DEF HandleError, Holding, Claiming, Importing, Failing, Closing,
           Outside, Searching
  <1>35. CASE MoveToFailed(p)
    BY <1>35, PcLemma, OutsideLemma DEF MoveToFailed, Holding, Claiming, Importing, Failing, Closing,
           Outside, Searching
  <1>36. CASE Crash(p)
    BY <1>36, PcLemma, OutsideLemma DEF Crash, Holding, Claiming, Importing, Failing, Closing,
           Outside, Searching
  <1> QED
    BY <1>1, <1>2, <1>3, <1>4, <1>5, <1>6, <1>7, <1>8, <1>9, <1>10, <1>11, <1>12,
       <1>13, <1>14, <1>15, <1>16, <1>17, <1>18, <1>19, <1>20, <1>21, <1>22, <1>23, <1>24,
       <1>25, <1>26, <1>27, <1>28, <1>29, <1>30, <1>31, <1>32, <1>33, <1>34, <1>35, <1>36
       DEF ProcStep, Step

\* Every step of the server keeps the invariant.
LEMMA ServerInvStep == ServerFacts /\ [ServerNext]_serverVars => ServerInv'
  <1> SUFFICES ASSUME ServerFacts, [ServerNext]_serverVars PROVE ServerInv'
    OBVIOUS
  <1>1. /\ TypeOK /\ IntakeTypeOK /\ CollectorTypeOK /\ accepted \subseteq Runs
        /\ CallsInv /\ AcceptedInv /\ DeletesInv /\ UploadInv /\ RetryInv
    BY DEF ServerFacts, ServerTypeOK, ServerInv
  <1>2. fs' = fs => Tame
    <2>1. /\ "incoming" \in Phases /\ "ready" \in Phases
          /\ \A i \in 1..4 : LaterPhases[i] \in Phases /\ i \in i..4
      BY NamesLemma, LaterLemma
    <2> QED BY <1>1, <2>1 DEF Tame, SameUpload, AcceptedInv, Exists
  <1>3. CASE UNCHANGED serverVars
    <2>1. /\ UNCHANGED <<fs, pc, run, stage, call, finished, accepted, opened, gc>>
      BY <1>3 DEF serverVars, vars, procVars, intakeVars, gcVars
    <2> QED BY <1>1, <1>2, <2>1, TameKeeps DEF AcceptedInv, DeletesInv
  <1>4. CASE ProcessorActs
    <2>1. /\ UNCHANGED <<stage, call, finished, accepted, opened>>
          /\ GcFollows
      BY <1>4 DEF ProcessorActs, intakeVars
    <2>2. DeletesInv'
      BY <1>1, <2>1, FollowsLemma DEF DeletesInv
    <2>3. CASE \E p \in Procs : ProcStep(p)
      <3>1. PICK p \in Procs : ProcStep(p)
        BY <2>3
      <3>2. Tame
        BY <1>1, <3>1, ProcTame
      <3>3. ASSUME NEW q \in Procs, pc'[q] \in Holding \cup {"flock"}
            PROVE  run'[q] \in accepted
        <4>1. CASE q # p
          <5>1. Still(q)
            BY <1>1, <3>1, <4>1, StillLemma
          <5> QED BY <1>1, <3>3, <5>1 DEF Still, AcceptedInv
        <4>2. CASE q = p
          <5>1. /\ run' = run /\ run[p] \in Runs
                /\ QueuePhases \subseteq Phases \ {"incoming"}
            BY <1>1, <3>1, <3>3, <4>2, EntersLemma, LocalsLemma DEF QueuePhases, Phases
          <5>2. CASE pc[p] \in Holding \cup {"flock"}
            BY <1>1, <4>2, <5>1, <5>2 DEF AcceptedInv
          <5>3. CASE \E ph \in QueuePhases : Exists(run[p], ph)
            BY <1>1, <4>2, <5>1, <5>3 DEF AcceptedInv
          <5> QED BY <1>1, <3>1, <3>3, <4>2, <5>2, <5>3, EntersLemma
        <4> QED BY <4>1, <4>2
      <3> QED BY <2>1, <2>2, <3>2, <3>3, TameKeeps
    <2>4. CASE \E r \in Runs : TransformWrites(r) \/ OrphanExits(r)
      <3>1. UNCHANGED <<fs, pc, run>>
        BY <2>4 DEF TransformWrites, OrphanExits, procVars
      <3> QED BY <1>1, <1>2, <2>1, <2>2, <3>1, TameKeeps DEF AcceptedInv
    <2> QED BY <1>4, <2>3, <2>4 DEF ProcessorActs, ProcStep
  <1>5. CASE IntakeActs
    <2>1. IntakeNext /\ GcFollows /\ opened' = opened
      BY <1>5 DEF IntakeActs
    <2>2. CallsInv' /\ AcceptedInv'
      BY <1>1, <1>5, <2>1, CallsStep, AcceptedIntake
    <2>3. DeletesInv'
      BY <1>1, <2>1, FollowsLemma DEF DeletesInv
    <2>4. UploadInv'
      <3>1. \A r \in Runs \ opened : Uploaded(r)'
        BY <1>1, <2>1, InvParts, UploadedIntake
      <3>2. UploadInv' <=> \A r \in Runs \ opened' : Uploaded(r)'
        BY DEF UploadInv, Uploaded
      <3> QED BY <2>1, <3>1, <3>2
    <2>5. RetryInv'
      <3>1. OneHeard' /\ \A r \in Runs \ opened : Findable(r)'
        BY <1>1, <2>1, InvParts, OneHeardStep, FindableIntake
      <3>2. RetryInv' <=> OneHeard' /\ \A r \in Runs \ opened' : Findable(r)'
        BY LaterLemma DEF RetryInv, OneHeard, Findable
      <3> QED BY <2>1, <3>1, <3>2
    <2> QED BY <2>2, <2>3, <2>4, <2>5 DEF ServerInv
  <1>6. CASE CollectorActs
    <2>1. PICK g \in Collectors : PassStep(g)
      BY <1>6 DEF CollectorActs, PassStep
    <2>2. UNCHANGED <<stage, call, finished, accepted, pc, run>>
      BY <1>6 DEF CollectorActs, intakeVars, procVars
    <2>3. Tame
      BY <1>1, <2>1, PassTame
    <2>4. DeletesInv' /\ opened \subseteq opened'
      BY <1>1, <2>1, PassControl DEF PassComes, DeletesInv
    <2> QED BY <1>1, <2>2, <2>3, <2>4, TameKeeps DEF AcceptedInv
  <1>7. CASE RunStateActs
    <2>1. UNCHANGED <<fs, pc, run, stage, call, finished, accepted, opened, gc>>
      BY <1>7 DEF RunStateActs, procVars, intakeVars, gcVars
    <2> QED BY <1>1, <1>2, <2>1, TameKeeps DEF AcceptedInv, DeletesInv
  <1>8. CASE \E r \in Runs : TimePasses(r)
    <2>1. PICK r \in Runs : TimePasses(r)
      BY <1>8
    <2>2. UNCHANGED <<pc, run, stage, call, finished, accepted>>
      BY <2>1 DEF TimePasses, procVars, intakeVars
    <2>3. Tame /\ UNCHANGED <<gc, opened>>
      BY <1>1, <1>2, <2>1, TimeEffect, TimeTame
    <2> QED BY <1>1, <2>2, <2>3, TameKeeps DEF AcceptedInv, DeletesInv
  <1> QED BY <1>3, <1>4, <1>5, <1>6, <1>7, <1>8 DEF ServerNext

\* All of it holds always.
THEOREM ServerFactsHold == ServerSpec => []ServerFacts
  <1>1. ServerInit => ServerFacts
    BY ServerTypeInit, ServerInvInit DEF ServerFacts
  <1>2. ServerFacts /\ [ServerNext]_serverVars => ServerFacts'
    BY ServerTypeStep, ServerInvStep DEF ServerFacts
  <1> QED BY <1>1, <1>2, PTL DEF ServerSpec

\* What finish-run has accepted is whole, with any number of runs, handlers, processors and
\* collections.
THEOREM AcceptedIsWhole == ServerSpec => []FinishedRunsWhole
  <1>1. ServerFacts => FinishedRunsWhole
    <2>1. "ready" \in {"incoming", "ready"}
      OBVIOUS
    <2> QED BY <2>1 DEF ServerFacts, ServerInv, CallsInv, AcceptedInv, UploadInv, FinishedRunsWhole
  <1> QED BY <1>1, ServerFactsHold, PTL

\* A repeated finish-run does not deny what an earlier one has accepted, in whatever phase the
\* run is and moves meanwhile (finish_run).
THEOREM RetriesDoAgree == ServerSpec => RetriesAgree
  <1> DEFINE Agree == \A r \in Runs : finished[r] = "ok" /\ finished'[r] = "error" => r \in opened
  <1>1. ASSUME ServerFacts, [ServerNext]_serverVars
        PROVE  Agree
    <2> SUFFICES ASSUME NEW r \in Runs, finished[r] = "ok", finished'[r] = "error", r \notin opened
                 PROVE  FALSE
      OBVIOUS
    <2>1. IntakeNext
      BY <1>1 DEF serverVars, intakeVars, ServerNext, ProcessorActs, IntakeActs, CollectorActs,
         RunStateActs, TimePasses
    <2>2. /\ TypeOK /\ IntakeTypeOK /\ Findable(r)
      BY <1>1, InvParts DEF ServerFacts, ServerTypeOK, ServerInv
    <2>3. PICK c \in Callers : /\ call[c].run = r /\ call[c].heard
                               /\ call[c].step \in {"fin_lease", "fin_move"}
      BY <2>1, <2>2, HeardLemma
    <2> QED BY <2>2, <2>3 DEF Findable, FinishSteps
  <1>2. ServerFacts /\ [ServerNext]_serverVars => [Agree]_serverVars
    BY <1>1
  <1> QED BY <1>2, ServerFactsHold, PTL DEF ServerSpec, RetriesAgree

----------------------------------------------------------------------------
(* What others than processors do to the directory of one run *)

\* One directory of r that is there is edited, and has a status s then.
Rewrites(r, ph, s) ==
    /\ Exists(r, ph)
    /\ \E d \in Dirs : d.exists /\ d.status = s /\ fs' = Put(r, ph, d)

\* It is edited and keeps its status, or loses it ...
Keeps(r) == \E ph \in Phases : Rewrites(r, ph, fs[r][ph].status)
Strips(r) == \E ph \in Phases : Rewrites(r, ph, "none")

\* ... or it goes, and with it no status of a run that has ended.
Removes(r) ==
    \E ph \in Phases :
        /\ Exists(r, ph)
        /\ ph \in TerminalPhases => fs[r][ph].status = "none"
        /\ fs' = Put(r, ph, NoDir)

\* An upload comes to be, of a run that is nowhere and has not been accepted.
Arrives(r) ==
    /\ \A ph \in Phases : ~Exists(r, ph)
    /\ r \notin accepted
    /\ \E d \in Dirs : d.exists /\ d.status = "none" /\ fs' = Put(r, "incoming", d)

\* finish-run makes it ready.
Readies(r) == CanRename(r, "incoming", "ready") /\ fs' = Rename(r, "incoming", "ready")

\* What the status of a directory is after the edits of the collector.
LEMMA GcStatus ==
    ASSUME NEW d \in Dirs
    PROVE  /\ \A item \in Items : Without(d, item).status \in {d.status, "none"}
           /\ Swept(d).status = d.status
  <1>1. \A item \in Items : Without(d, item).status = IF item = "status" THEN "none" ELSE d.status
    BY DEF Without, Dirs
  <1>2. Swept(d).status = d.status
    BY PrunedLemma DEF Swept
  <1> QED BY <1>1, <1>2

\* Every step of a pass is one of them.
LEMMA GcChanges ==
    ASSUME TypeOK, CollectorTypeOK, NEW g \in Collectors, PassStep(g)
    PROVE  UNCHANGED fs \/ Keeps(gc[g].run) \/ Strips(gc[g].run) \/ Removes(gc[g].run)
  <1>1. CASE GcVisit(g)
    <2>1. CASE /\ Exists(gc[g].run, "done")
               /\ fs' = Put(gc[g].run, "done", Swept(fs[gc[g].run]["done"]))
      <3>1. "done" \in Phases /\ fs[gc[g].run]["done"] \in Dirs
        BY PassLemma DEF Phases
      <3> DEFINE d == Swept(fs[gc[g].run]["done"])
      <3>2. d \in Dirs /\ d.exists /\ d.status = fs[gc[g].run]["done"].status
        BY <2>1, <3>1, GcEdits, GcStatus DEF Exists
      <3> HIDE DEF d
      <3>3. fs' = Put(gc[g].run, "done", d)
        BY <2>1 DEF d
      <3> QED BY <2>1, <3>1, <3>2, <3>3 DEF Keeps, Rewrites
    <2> QED BY <1>1, <2>1 DEF GcVisit
  <1>2. CASE GcRemove(g)
    <2> DEFINE old == fs[gc[g].run][gc[g].at]
    <2>1. CASE \E item \in gc[g].left :
                   old.exists /\ fs' = Put(gc[g].run, gc[g].at, Without(old, item))
      <3>1. PICK item \in gc[g].left :
                   old.exists /\ fs' = Put(gc[g].run, gc[g].at, Without(old, item))
        BY <2>1
      <3>2. gc[g].at \in Phases /\ old \in Dirs /\ item \in Items
        BY PassLemma
      <3>3. /\ Without(old, item) \in Dirs /\ Without(old, item).exists
            /\ Without(old, item).status \in {old.status, "none"}
        BY <3>1, <3>2, GcEdits, GcStatus
      <3> QED BY <3>1, <3>2, <3>3 DEF Keeps, Strips, Rewrites, Exists
    <2> QED BY <1>2, <2>1 DEF GcRemove
  <1>3. CASE GcRmdir(g)
    <2>1. CASE /\ GcDir(g).exists /\ \A item \in Items : ~Has(GcDir(g), item)
               /\ fs' = Put(gc[g].run, GcPhase(g), NoDir)
      <3>1. ~Has(GcDir(g), "status") /\ GcPhase(g) \in Phases
        BY <2>1, PassLemma DEF Items
      <3>2. GcDir(g).status = "none"
        BY <3>1 DEF Has
      <3> QED BY <2>1, <3>1, <3>2 DEF Removes, GcDir, Exists
    <2> QED BY <1>3, <2>1 DEF GcRmdir
  <1>4. CASE GcStart(g) \/ GcNext(g) \/ GcVisitProcessing(g) \/ GcProbe(g) \/ GcRelease(g)
             \/ GcOpen(g)
    BY <1>4 DEF GcStart, GcNext, GcVisitProcessing, GcProbe, GcRelease, GcOpen
  <1> QED BY <1>1, <1>2, <1>3, <1>4 DEF PassStep, GcStep

\* So is what time does.
LEMMA TimeChanges ==
    ASSUME TypeOK, AbsentEmpty, NEW r \in Runs, TimePasses(r)
    PROVE  UNCHANGED fs \/ Keeps(r)
  <1>1. /\ \A ph \in Phases : fs[r][ph] \in Dirs
        /\ fs \in FsType /\ "incoming" \in Phases
    BY EditLemma, NamesLemma DEF TypeOK, WorkDirTypeOK, FsType
  <1>2. CASE LeaseLapses(r)
    <2> DEFINE d == [fs[r]["incoming"] EXCEPT !.lease = "expired"]
    <2>1. fs[r]["incoming"].exists
      BY <1>1, <1>2 DEF LeaseLapses, AbsentEmpty, Exists, NoDir, Contents
    <2>2. d \in Dirs /\ d.exists /\ d.status = fs[r]["incoming"].status
      BY <1>1, <2>1 DEF Dirs, LeaseKinds
    <2>3. fs' = [fs EXCEPT ![r] = [fs[r] EXCEPT !["incoming"] = d]]
      BY <1>1, <1>2 DEF LeaseLapses, FsType
    <2> HIDE DEF d
    <2> QED BY <1>1, <2>1, <2>2, <2>3 DEF Keeps, Rewrites, Put, Exists
  <1>3. CASE \E ph \in Phases : DirAges(r, ph)
    <2>1. PICK ph \in Phases : DirAges(r, ph)
      BY <1>3
    <2> DEFINE d == [fs[r][ph] EXCEPT !.aged = TRUE]
    <2>2. d \in Dirs /\ d.exists = fs[r][ph].exists /\ d.status = fs[r][ph].status
      BY <1>1 DEF Dirs
    <2>3. fs' = [fs EXCEPT ![r] = [fs[r] EXCEPT ![ph] = d]]
      BY <1>1, <2>1 DEF DirAges, FsType
    <2> HIDE DEF d
    <2> QED BY <2>1, <2>2, <2>3 DEF DirAges, Keeps, Rewrites, Put, Exists
  <1>4. CASE StatusAges(r)
    BY <1>4 DEF StatusAges
  <1> QED BY <1>2, <1>3, <1>4 DEF TimePasses

\* And so is what handlers and clients do.
LEMMA IntakeChanges ==
    ASSUME TypeOK, IntakeTypeOK, AbsentEmpty, AcceptedInv, CreatesInv, IntakeNext
    PROVE  \/ UNCHANGED fs
           \/ \E r \in Runs : Keeps(r) \/ Removes(r) \/ Arrives(r) \/ Readies(r)
  <1>1. /\ \A r \in Runs : fs[r]["incoming"] \in Dirs
        /\ fs \in FsType /\ "incoming" \in Phases /\ "incoming" \notin TerminalPhases
        /\ \A c \in Callers : call[c].run \in Runs
    <2>1. fs \in FsType
      BY DEF TypeOK, WorkDirTypeOK, FsType
    <2> QED BY <2>1, IncomingLemma, NamesLemma DEF IntakeTypeOK, TerminalPhases
  <1>2. ASSUME NEW d \in Dirs
        PROVE  /\ [d EXCEPT !.lease = "live", !.aged = FALSE] \in Dirs
               /\ [d EXCEPT !.lease = "live", !.aged = FALSE].exists = d.exists
               /\ [d EXCEPT !.lease = "live", !.aged = FALSE].status = d.status
               /\ [d EXCEPT !.aged = FALSE] \in Dirs
               /\ [d EXCEPT !.aged = FALSE].exists = d.exists
               /\ [d EXCEPT !.aged = FALSE].status = d.status
    BY DEF Dirs, LeaseKinds
  <1>3. ASSUME NEW c \in Callers, BeginCreate(c)
        PROVE  UNCHANGED fs \/ Arrives(call[c].run)
    <2>1. Contents(TRUE) \in Dirs /\ Contents(TRUE).exists /\ Contents(TRUE).status = "none"
      BY DEF Contents, Dirs, InputKinds, LeaseKinds, StatusKinds, Plans
    <2> QED BY <1>3, <2>1 DEF BeginCreate, CreatesInv, Arrives
  <1>4. ASSUME NEW c \in Callers, BeginLease(c)
        PROVE  UNCHANGED fs \/ Keeps(call[c].run) \/ Removes(call[c].run)
    <2>1. CASE fs[call[c].run]["incoming"].exists
      BY <1>1, <1>2, <1>4, <2>1 DEF BeginLease, Keeps, Rewrites, Removes, Exists
    <2>2. CASE ~fs[call[c].run]["incoming"].exists
      <3>1. fs[call[c].run]["incoming"] = NoDir
        BY <1>1, <2>2 DEF AbsentEmpty, Exists
      <3>2. Put(call[c].run, "incoming", NoDir) = fs
        BY <1>1, <3>1 DEF Put, FsType
      <3> QED BY <1>4, <2>2, <3>2 DEF BeginLease
    <2> QED BY <2>1, <2>2
  <1>5. ASSUME NEW c \in Callers, Prepare(c)
        PROVE  UNCHANGED fs \/ Keeps(call[c].run)
    BY <1>1, <1>2, <1>5 DEF Prepare, Keeps, Rewrites, Exists
  <1>6. ASSUME NEW c \in Callers, HeartbeatWrite(c)
        PROVE  UNCHANGED fs \/ Keeps(call[c].run)
    BY <1>1, <1>2, <1>6 DEF HeartbeatWrite, Keeps, Rewrites, Exists
  <1>7. ASSUME NEW c \in Callers, FinishMove(c)
        PROVE  UNCHANGED fs \/ Readies(call[c].run)
    BY <1>7 DEF FinishMove, Readies
  <1>8. ASSUME NEW c \in Callers,
               HeartbeatRead(c) \/ FinishLook(c) \/ FinishLease(c) \/ LoseConnection(c)
                   \/ HandlerDies(c) \/ \E r \in Runs : CallsOne(c, r)
        PROVE  UNCHANGED fs
    BY <1>8 DEF HeartbeatRead, FinishLook, FinishLease, LoseConnection, HandlerDies, CallsOne,
       CallBegin, CallPrepare, CallHeartbeat, CallFinish
  <1>9. ASSUME NEW r \in Runs, WriteInputs(r)
        PROVE  UNCHANGED fs \/ Keeps(r)
    <2>1. ASSUME NEW kind \in Uploads
          PROVE  LET e == [fs[r]["incoming"] EXCEPT !.inputs = kind, !.aged = FALSE] IN
                 /\ e \in Dirs /\ e.exists = fs[r]["incoming"].exists
                 /\ e.status = fs[r]["incoming"].status
      <3>1. kind \in InputKinds
        BY IntakeAssumption DEF InputKinds
      <3>2. \A d \in Dirs :
                LET x == [d EXCEPT !.inputs = kind, !.aged = FALSE] IN
                x \in Dirs /\ x.exists = d.exists /\ x.status = d.status
        BY <3>1 DEF Dirs
      <3> QED BY <1>1, <3>2
    <2> QED BY <1>1, <1>9, <2>1 DEF WriteInputs, Keeps, Rewrites, Exists
  <1>10. ASSUME NEW r \in Runs, Upload(r)
         PROVE  UNCHANGED fs \/ Keeps(r) \/ Arrives(r)
    <2> DEFINE e == [fs[r]["incoming"] EXCEPT !.exists = TRUE, !.staged = TRUE, !.aged = FALSE]
    <2>1. e \in Dirs /\ e.exists /\ e.status = fs[r]["incoming"].status
      <3>1. \A d \in Dirs :
                LET x == [d EXCEPT !.exists = TRUE, !.staged = TRUE, !.aged = FALSE] IN
                x \in Dirs /\ x.exists /\ x.status = d.status
        BY DEF Dirs
      <3> QED BY <1>1, <3>1
    <2>2. UNCHANGED fs \/ fs' = Put(r, "incoming", e)
      BY <1>10 DEF Upload
    <2> HIDE DEF e
    <2>3. CASE Exists(r, "incoming")
      BY <1>1, <2>1, <2>2, <2>3 DEF Keeps, Rewrites
    <2>4. CASE ~Exists(r, "incoming")
      <3>1. r \notin accepted
        BY <1>10 DEF Upload, AcceptedInv
      <3>2. \A ph \in Phases : ~Exists(r, ph)
        BY <2>4, <3>1 DEF AcceptedInv
      <3>3. fs[r]["incoming"].status = "none"
        BY <1>1, <2>4 DEF AbsentEmpty, NoDir, Contents
      <3> QED BY <2>1, <2>2, <3>1, <3>2, <3>3 DEF Arrives
    <2> QED BY <2>3, <2>4
  <1>11. ASSUME NEW c \in Callers, HandlerStep(c) \/ LoseConnection(c) \/ HandlerDies(c)
         PROVE  \/ UNCHANGED fs
                \/ Keeps(call[c].run) \/ Removes(call[c].run) \/ Arrives(call[c].run)
                \/ Readies(call[c].run)
    BY <1>3, <1>4, <1>5, <1>6, <1>7, <1>8, <1>11 DEF HandlerStep
  <1> QED BY <1>1, <1>8, <1>9, <1>10, <1>11 DEF IntakeNext, CallsOne

----------------------------------------------------------------------------
(* Where a run is *)

Working(r) == \E p \in Procs : run[p] = r /\ pc[p] = "work"

Verdict(status) == IF status \in PublishedStatus THEN status ELSE "corrupt"

\* A run in one phase is there, or has ended with the verdict there; a run in none is being
\* imported all the same, or has been collected, or was never accepted.
Placed(r) ==
    /\ \A ph \in {"incoming", "ready", "processing"} : Exists(r, ph) => Place[r] = ph
    /\ \A ph \in TerminalPhases : Exists(r, ph) => Place[r] = Verdict(fs[r][ph].status)
    /\ (\A ph \in Phases : ~Exists(r, ph)) =>
          Place[r] = IF Working(r) THEN "processing"
                     ELSE IF r \in accepted THEN "collected" ELSE "absent"

\* A run that is in one phase at a time has one place.
LEMMA PlacedLemma ==
    ASSUME OnePhase, NEW r \in Runs
    PROVE  Placed(r)
  <1>1. \A a, b \in Phases : Exists(r, a) /\ Exists(r, b) => a = b
    BY DEF OnePhase
  <1>2. Place[r] = IF \E ph \in {"incoming", "ready", "processing"} : Exists(r, ph)
                   THEN Where(r)
                   ELSE IF HasTerminalDir(r) THEN Verdict(TerminalStatus(r))
                   ELSE IF Working(r) THEN "processing"
                   ELSE IF r \in accepted THEN "collected"
                   ELSE "absent"
    BY DEF Place, Verdict, Working
  <1>3. ASSUME NEW ph \in {"incoming", "ready", "processing"}, Exists(r, ph)
        PROVE  Place[r] = ph
    <2> DEFINE found == {x \in Phases : Exists(r, x)
                               /\ ~(x \in TerminalPhases /\ OtherVersion(fs[r][x].status))}
    <2>1. ph \in found /\ \A x \in found : x = ph
      BY <1>1, <1>3 DEF Phases, TerminalPhases
    <2>2. Where(r) = ph
      BY <1>3, <2>1 DEF Where
    <2> QED BY <1>2, <1>3, <2>2
  <1>4. ASSUME NEW ph \in TerminalPhases, Exists(r, ph)
        PROVE  Place[r] = Verdict(fs[r][ph].status)
    <2>1. /\ \A x \in {"incoming", "ready", "processing"} : ~Exists(r, x)
          /\ ph # "done" => ~Exists(r, "done")
          /\ ph \in {"done", "failed"}
      BY <1>1, <1>4 DEF Phases, TerminalPhases
    <2>2. HasTerminalDir(r) /\ TerminalStatus(r) = fs[r][ph].status
      BY <1>4, <2>1 DEF HasTerminalDir, TerminalStatus
    <2> QED BY <1>2, <2>1, <2>2
  <1>5. ASSUME \A ph \in Phases : ~Exists(r, ph)
        PROVE  Place[r] = IF Working(r) THEN "processing"
                          ELSE IF r \in accepted THEN "collected" ELSE "absent"
    <2>1. /\ \A x \in {"incoming", "ready", "processing"} : ~Exists(r, x)
          /\ ~HasTerminalDir(r)
      BY <1>5 DEF HasTerminalDir, Phases
    <2> QED BY <1>2, <2>1
  <1> QED BY <1>3, <1>4, <1>5 DEF Placed

AllPlaced == \A r \in Runs : Placed(r)

\* The same of the state a step leads to.
LEMMA PlacedNext == OnePhase' => AllPlaced'
  <1>1. OnePhase => AllPlaced
    BY PlacedLemma DEF AllPlaced
  <1> QED BY <1>1, PTL

----------------------------------------------------------------------------
(* What they do to the invariant, and to the place *)

\* One run changes, and nothing else: it is accepted when it becomes ready.
Changes(r) ==
    /\ UNCHANGED <<pc, run, out, imported>>
    /\ \/ (Keeps(r) \/ Strips(r) \/ Removes(r) \/ Arrives(r)) /\ accepted' = accepted
       \/ Readies(r) /\ accepted' = accepted \cup {r}

\* All directories but one are as they were.
OnlyAt(r, ph) == \A q \in Runs, x \in Phases : q # r \/ x # ph => fs'[q][x] = fs[q][x]

\* What each change does to the directories of all runs.
LEMMA ChangesLemma ==
    ASSUME TypeOK, NEW r \in Runs
    PROVE  /\ Keeps(r) =>
                 \E ph \in Phases :
                    /\ OnlyAt(r, ph) /\ Exists(r, ph) /\ fs'[r][ph].exists
                    /\ fs'[r][ph].status = fs[r][ph].status
           /\ Strips(r) =>
                 \E ph \in Phases :
                    /\ OnlyAt(r, ph) /\ Exists(r, ph) /\ fs'[r][ph].exists
                    /\ fs'[r][ph].status = "none"
           /\ Removes(r) =>
                 \E ph \in Phases :
                    /\ OnlyAt(r, ph) /\ Exists(r, ph) /\ fs'[r][ph] = NoDir
                    /\ ph \in TerminalPhases => fs[r][ph].status = "none"
           /\ Arrives(r) =>
                 /\ OnlyAt(r, "incoming") /\ fs'[r]["incoming"].exists
                 /\ fs'[r]["incoming"].status = "none"
           /\ Readies(r) =>
                 /\ Exists(r, "incoming") /\ ~Exists(r, "ready")
                 /\ fs'[r]["incoming"] = NoDir /\ fs'[r]["ready"] = fs[r]["incoming"]
                 /\ \A q \in Runs, x \in Phases :
                       q # r \/ x \notin {"incoming", "ready"} => fs'[q][x] = fs[q][x]
  <1>1. fs \in FsType /\ "incoming" \in Phases /\ "ready" \in Phases /\ "incoming" # "ready"
    BY NamesLemma DEF TypeOK, WorkDirTypeOK, FsType
  <1>2. ASSUME NEW ph \in Phases, NEW d \in Dirs, fs' = Put(r, ph, d)
        PROVE  OnlyAt(r, ph) /\ fs'[r][ph] = d
    BY <1>1, <1>2, PutLemma DEF OnlyAt
  <1>3. /\ Keeps(r) =>
              \E ph \in Phases :
                 /\ OnlyAt(r, ph) /\ Exists(r, ph) /\ fs'[r][ph].exists
                 /\ fs'[r][ph].status = fs[r][ph].status
        /\ Strips(r) =>
              \E ph \in Phases :
                 /\ OnlyAt(r, ph) /\ Exists(r, ph) /\ fs'[r][ph].exists
                 /\ fs'[r][ph].status = "none"
    BY <1>2 DEF Keeps, Strips, Rewrites
  <1>4. Removes(r) =>
            \E ph \in Phases :
               /\ OnlyAt(r, ph) /\ Exists(r, ph) /\ fs'[r][ph] = NoDir
               /\ ph \in TerminalPhases => fs[r][ph].status = "none"
    BY <1>2, NoDirLemma DEF Removes
  <1>5. Arrives(r) =>
            /\ OnlyAt(r, "incoming") /\ fs'[r]["incoming"].exists
            /\ fs'[r]["incoming"].status = "none"
    BY <1>1, <1>2 DEF Arrives
  <1>6. Readies(r) =>
            /\ Exists(r, "incoming") /\ ~Exists(r, "ready")
            /\ fs'[r]["incoming"] = NoDir /\ fs'[r]["ready"] = fs[r]["incoming"]
            /\ \A q \in Runs, x \in Phases :
                  q # r \/ x \notin {"incoming", "ready"} => fs'[q][x] = fs[q][x]
    BY <1>1, RenameLemma DEF Readies, CanRename
  <1> QED BY <1>3, <1>4, <1>5, <1>6

\* Such a change keeps the directories as the invariant wants them ...
LEMMA ChangesKeep ==
    ASSUME TypeOK, accepted \subseteq Runs, AcceptedInv, PlacesInv, NEW r \in Runs, Changes(r)
    PROVE  PlacesInv'
  <1>1. /\ \A q \in Runs, x \in Phases : Exists(q, x) \/ fs[q][x] = NoDir
        /\ \A q \in Runs, a, b \in Phases : Exists(q, a) /\ Exists(q, b) => a = b
        /\ \A q \in accepted : ~Exists(q, "incoming")
        /\ \A p \in Procs : pc[p] \in Importing =>
               \A x \in Phases \ {"processing"} : ~Exists(run[p], x)
        /\ \A q \in Runs, x \in Phases \ {"incoming"} : Exists(q, x) => q \in accepted
        /\ \A p \in Procs : pc[p] \in Importing => run[p] \in accepted
        /\ \A p \in Procs : run[p] \in Runs
    BY LocalsLemma, OutsideLemma DEF PlacesInv, AbsentEmpty, OnePhase, AcceptedInv
  <1>2. pc' = pc /\ run' = run /\ "incoming" \in Phases /\ "ready" \in Phases /\ ~NoDir.exists
    BY NamesLemma, NoDirLemma DEF Changes
  \* It is enough that no other directory comes to be.
  <1>3. ASSUME AbsentEmpty', accepted' = accepted,
               \A q \in Runs, x \in Phases : fs'[q][x].exists => Exists(q, x)
        PROVE  PlacesInv'
    <2>1. OnePhase'
      BY <1>1, <1>3 DEF OnePhase, Exists
    <2>2. (\A q \in accepted : ~Exists(q, "incoming"))'
      BY <1>1, <1>2, <1>3 DEF Exists
    <2>3. (\A p \in Procs : pc[p] \in Importing =>
               \A x \in Phases \ {"processing"} : ~Exists(run[p], x))'
      BY <1>1, <1>2, <1>3 DEF Exists
    <2> QED BY <1>3, <2>1, <2>2, <2>3 DEF PlacesInv
  <1>4. CASE (Keeps(r) \/ Strips(r)) /\ accepted' = accepted
    <2>1. PICK ph \in Phases : OnlyAt(r, ph) /\ Exists(r, ph) /\ fs'[r][ph].exists
      BY <1>4, ChangesLemma
    <2>2. \A q \in Runs, x \in Phases : fs'[q][x].exists => Exists(q, x)
      BY <2>1 DEF OnlyAt, Exists
    <2>3. AbsentEmpty'
      BY <1>1, <2>1 DEF OnlyAt, Exists, AbsentEmpty
    <2> QED BY <1>3, <1>4, <2>2, <2>3
  <1>5. CASE Removes(r) /\ accepted' = accepted
    <2>1. PICK ph \in Phases : OnlyAt(r, ph) /\ Exists(r, ph) /\ fs'[r][ph] = NoDir
      BY <1>5, ChangesLemma
    <2>2. \A q \in Runs, x \in Phases : fs'[q][x].exists => Exists(q, x)
      BY <1>2, <2>1 DEF OnlyAt, Exists
    <2>3. AbsentEmpty'
      BY <1>1, <2>1 DEF OnlyAt, Exists, AbsentEmpty
    <2> QED BY <1>3, <1>5, <2>2, <2>3
  <1>6. CASE Arrives(r) /\ accepted' = accepted
    <2>1. /\ OnlyAt(r, "incoming") /\ fs'[r]["incoming"].exists
          /\ \A x \in Phases : ~Exists(r, x)
          /\ r \notin accepted
      BY <1>6, ChangesLemma DEF Arrives
    <2>2. AbsentEmpty'
      BY <1>1, <2>1 DEF OnlyAt, Exists, AbsentEmpty
    <2>3. /\ \A q \in Runs \ {r}, x \in Phases : fs'[q][x].exists => Exists(q, x)
          /\ \A x \in Phases : fs'[r][x].exists => x = "incoming"
      BY <1>2, <2>1 DEF OnlyAt, Exists
    <2>4. OnePhase'
      BY <1>1, <2>3 DEF OnePhase, Exists
    <2>5. (\A q \in accepted : ~Exists(q, "incoming"))'
      BY <1>1, <1>2, <1>6, <2>1, <2>3 DEF Exists
    <2>6. (\A p \in Procs : pc[p] \in Importing =>
               \A x \in Phases \ {"processing"} : ~Exists(run[p], x))'
      BY <1>1, <1>2, <2>1, <2>3 DEF Exists
    <2> QED BY <2>2, <2>4, <2>5, <2>6 DEF PlacesInv
  <1>7. CASE Readies(r) /\ accepted' = accepted \cup {r}
    <2>1. /\ Exists(r, "incoming") /\ ~Exists(r, "ready")
          /\ fs'[r]["incoming"] = NoDir /\ fs'[r]["ready"] = fs[r]["incoming"]
          /\ \A q \in Runs, x \in Phases :
                q # r \/ x \notin {"incoming", "ready"} => fs'[q][x] = fs[q][x]
      BY <1>7, ChangesLemma
    <2>2. AbsentEmpty'
      BY <1>1, <2>1 DEF Exists, AbsentEmpty
    <2>3. r \notin accepted
      BY <1>1, <2>1
    <2>4. /\ \A q \in Runs \ {r}, x \in Phases : fs'[q][x].exists => Exists(q, x)
          /\ \A x \in Phases : fs'[r][x].exists => x = "ready"
      BY <1>1, <1>2, <2>1 DEF Exists
    <2>5. OnePhase'
      BY <1>1, <2>4 DEF OnePhase, Exists
    <2>6. (\A q \in accepted : ~Exists(q, "incoming"))'
      BY <1>1, <1>2, <1>7, <2>4 DEF Exists
    <2>7. (\A p \in Procs : pc[p] \in Importing =>
               \A x \in Phases \ {"processing"} : ~Exists(run[p], x))'
      BY <1>1, <1>2, <2>3, <2>4 DEF Exists
    <2> QED BY <2>2, <2>5, <2>6, <2>7 DEF PlacesInv
  <1> QED BY <1>4, <1>5, <1>6, <1>7 DEF Changes

----------------------------------------------------------------------------
(* Steps of the contract *)

PlaceIsMap == Place = [q \in Runs |-> Place[q]]

\* Place is a function, in the next state as well.
LEMMA PlaceMap == PlaceIsMap /\ PlaceIsMap'
  <1>1. PlaceIsMap
    BY DEF PlaceIsMap, Place
  <1> QED BY <1>1, PTL

\* A run goes from one place to another, or none does.
LEMMA ContractMove ==
    ASSUME NEW r \in Runs, NEW places, NEW to, Place[r] \in places, Place'[r] = to,
           \A q \in Runs \ {r} : Place'[q] = Place[q], imported' = imported
    PROVE  Contract!Move(r, places, to)
  BY PlaceMap DEF PlaceIsMap, Contract!Move

LEMMA ContractStutter ==
    ASSUME \A q \in Runs : Place'[q] = Place[q]
    PROVE  Place' = Place
  BY PlaceMap DEF PlaceIsMap

\* What a place is made of.
SameStanding(q) ==
    /\ \A x \in Phases : /\ fs'[q][x].exists <=> Exists(q, x)
                         /\ Exists(q, x) /\ x \in TerminalPhases =>
                                fs'[q][x].status = fs[q][x].status
    /\ Working(q)' <=> Working(q)
    /\ q \in accepted' <=> q \in accepted

LEMMA SamePlace ==
    ASSUME OnePhase, OnePhase', NEW q \in Runs, SameStanding(q)
    PROVE  Place'[q] = Place[q]
  <1>1. Placed(q) /\ Placed(q)'
    BY PlacedLemma, PlacedNext DEF AllPlaced
  <1>2. ASSUME NEW x \in {"incoming", "ready", "processing"}, Exists(q, x)
        PROVE  Place'[q] = Place[q]
    BY <1>1, <1>2 DEF Placed, SameStanding, Exists, Phases
  <1>3. ASSUME NEW x \in TerminalPhases, Exists(q, x)
        PROVE  Place'[q] = Place[q]
    <2>1. x \in Phases
      BY DEF Phases, TerminalPhases
    <2>2. /\ Place[q] = Verdict(fs[q][x].status)
          /\ Place'[q] = Verdict(fs'[q][x].status)
      BY <1>1, <1>3, <2>1 DEF Placed, SameStanding, Exists
    <2> QED BY <1>3, <2>1, <2>2 DEF SameStanding
  <1>4. ASSUME \A x \in Phases : ~Exists(q, x)
        PROVE  Place'[q] = Place[q]
    BY <1>1, <1>4 DEF Placed, SameStanding, Exists
  <1> QED BY <1>2, <1>3, <1>4 DEF Phases, TerminalPhases

\* Who works on a run has accepted it, and it is nowhere but in processing/.
LEMMA WorkingLemma ==
    ASSUME TypeOK, AcceptedInv, PlacesInv, NEW r \in Runs, Working(r)
    PROVE  r \in accepted /\ \A ph \in Phases \ {"processing"} : ~Exists(r, ph)
  BY DEF Working, AcceptedInv, PlacesInv, Importing, Holding

\* Such a change is a step of the contract, or none.
LEMMA ChangesRefine ==
    ASSUME TypeOK, accepted \subseteq Runs, AcceptedInv, PlacesInv, NEW r \in Runs, Changes(r)
    PROVE  [Contract!Next]_<<Place, imported>>
  <1>1. /\ OnePhase /\ OnePhase'
        /\ Placed(r) /\ Placed(r)'
        /\ imported' = imported
        /\ \A q \in Runs : Working(q)' <=> Working(q)
    BY ChangesKeep, PlacedLemma, PlacedNext DEF PlacesInv, AllPlaced, Changes, Working
  <1>2. \A q \in Runs \ {r} : Place'[q] = Place[q]
    <2> TAKE q \in Runs \ {r}
    <2>1. \A x \in Phases : fs'[q][x] = fs[q][x]
      BY ChangesLemma DEF Changes, OnlyAt
    <2>2. q \in accepted' <=> q \in accepted
      BY DEF Changes
    <2> QED BY <1>1, <2>1, <2>2, SamePlace DEF SameStanding, Exists
  <1>3. ASSUME Place'[r] = Place[r]
        PROVE  UNCHANGED <<Place, imported>>
    BY <1>1, <1>2, <1>3, ContractStutter
  <1>4. /\ "incoming" \in Phases /\ "ready" \in Phases /\ "incoming" \notin TerminalPhases
        /\ TerminalPhases \subseteq Phases /\ PublishedStatus = Contract!Verdicts
        /\ Phases = {"incoming", "ready", "processing"} \cup TerminalPhases
        /\ Verdict("none") = "corrupt" /\ ~NoDir.exists
    BY NamesLemma, NoDirLemma DEF Phases, TerminalPhases, PublishedStatus, Contract!Verdicts, Verdict
  <1>5. CASE Keeps(r) /\ accepted' = accepted
    <2>1. PICK ph \in Phases : /\ OnlyAt(r, ph) /\ Exists(r, ph) /\ fs'[r][ph].exists
                               /\ fs'[r][ph].status = fs[r][ph].status
      BY <1>5, ChangesLemma
    <2>2. SameStanding(r)
      BY <1>1, <1>5, <2>1 DEF OnlyAt, Exists, SameStanding
    <2> QED BY <1>1, <1>3, <2>2, SamePlace
  <1>6. CASE Strips(r) /\ accepted' = accepted
    <2>1. PICK ph \in Phases : /\ OnlyAt(r, ph) /\ Exists(r, ph) /\ fs'[r][ph].exists
                               /\ fs'[r][ph].status = "none"
      BY <1>6, ChangesLemma
    <2>2. CASE ph \in TerminalPhases
      <3>1. Place[r] = Verdict(fs[r][ph].status) /\ Place'[r] = "corrupt"
        BY <1>1, <1>4, <2>1, <2>2 DEF Placed, Exists
      <3>2. CASE Place[r] \in Contract!Verdicts
        BY <1>1, <1>2, <3>1, <3>2, ContractMove DEF Contract!Next, Contract!LoseStatus
      <3>3. CASE Place[r] \notin Contract!Verdicts
        BY <1>3, <1>4, <3>1, <3>3 DEF Verdict
      <3> QED BY <3>2, <3>3
    <2>3. CASE ph \in {"incoming", "ready", "processing"}
      BY <1>1, <1>3, <2>1, <2>3 DEF Placed, Exists
    <2> QED BY <1>4, <2>2, <2>3
  <1>7. CASE Removes(r) /\ accepted' = accepted
    <2>1. PICK ph \in Phases : /\ OnlyAt(r, ph) /\ Exists(r, ph) /\ fs'[r][ph] = NoDir
                               /\ ph \in TerminalPhases => fs[r][ph].status = "none"
      BY <1>7, ChangesLemma
    <2>2. \A x \in Phases : ~fs'[r][x].exists
      BY <1>1, <1>4, <2>1 DEF OnePhase, OnlyAt, Exists
    <2>3. Place'[r] = IF Working(r) THEN "processing"
                      ELSE IF r \in accepted THEN "collected" ELSE "absent"
      BY <1>1, <1>7, <2>2 DEF Placed, Exists
    <2>4. Working(r) => ph = "processing" /\ r \in accepted
      BY <2>1, WorkingLemma
    <2>5. Place[r] = IF ph \in TerminalPhases THEN "corrupt" ELSE ph
      BY <1>1, <1>4, <2>1 DEF Placed
    <2>6. CASE ph = "incoming"
      <3>1. r \notin accepted
        BY <2>1, <2>6 DEF PlacesInv
      <3>2. Contract!Expire(r)
        BY <1>1, <1>2, <1>4, <2>3, <2>4, <2>5, <2>6, <3>1, ContractMove DEF Contract!Expire
      <3> QED BY <3>2 DEF Contract!Next
    <2>7. CASE ph # "incoming" /\ ~Working(r)
      <3>1. r \in accepted
        BY <2>1, <2>7 DEF AcceptedInv
      <3>2. Place[r] \in {"ready", "processing", "corrupt"} /\ Place'[r] = "collected"
        BY <1>4, <2>3, <2>5, <2>7, <3>1
      <3>3. Contract!Collect(r)
        BY <1>1, <1>2, <3>2, ContractMove DEF Contract!Collect
      <3> QED BY <3>3 DEF Contract!Next
    <2>8. CASE Working(r)
      <3>1. ph = "processing" /\ "processing" \notin TerminalPhases
        BY <2>4, <2>8 DEF TerminalPhases
      <3> QED BY <1>3, <2>3, <2>5, <2>8, <3>1
    <2> QED BY <2>4, <2>6, <2>7, <2>8
  <1>8. CASE Arrives(r) /\ accepted' = accepted
    <2>1. fs'[r]["incoming"].exists /\ r \notin accepted /\ \A x \in Phases : ~Exists(r, x)
      BY <1>8, ChangesLemma DEF Arrives
    <2>2. ~Working(r)
      BY <2>1, WorkingLemma
    <2>3. Place[r] \in {"absent"} /\ Place'[r] = "incoming"
      BY <1>1, <2>1, <2>2 DEF Placed, Exists
    <2>4. Contract!Upload(r)
      BY <1>1, <1>2, <2>3, ContractMove DEF Contract!Upload
    <2> QED BY <2>4 DEF Contract!Next
  <1>9. CASE Readies(r)
    <2>1. Exists(r, "incoming") /\ fs'[r]["ready"] = fs[r]["incoming"]
      BY <1>9, ChangesLemma
    <2>2. Place[r] \in {"incoming"} /\ Place'[r] = "ready"
      BY <1>1, <2>1 DEF Placed, Exists
    <2>3. Contract!Accept(r)
      BY <1>1, <1>2, <2>2, ContractMove DEF Contract!Accept
    <2> QED BY <2>3 DEF Contract!Next
  <1> QED BY <1>5, <1>6, <1>7, <1>8, <1>9 DEF Changes

----------------------------------------------------------------------------
(* What processors do to the invariant, and to the place *)

\* A processor is about to make the scratch area after it has found the run in processing/.
LEMMA ToWork ==
    ASSUME TypeOK, AbsentEmpty, NEW p \in Procs, ProcStep(p), pc'[p] = "work"
    PROVE  /\ pc[p] = "start" /\ run' = run /\ fs' = fs
           /\ Exists(run[p], "processing")
  <1>1. ~(StartProcessRun(p) \/ StartProcessOnce(p) \/ ListReady(p) \/
         NextRecovery(p) \/ NextClaim(p) \/ EndProcessOnce(p))
    BY PcLemma DEF StartProcessRun, StartProcessOnce, ListReady, NextRecovery, NextClaim,
           EndProcessOnce
  <1>2. ~(Claim(p) \/ Recheck(p) \/ FallThrough(p) \/ Recover(p) \/ OpenLock(p)
         \/ Flock(p))
    BY PcLemma DEF Claim, Recheck, FallThrough, Recover, OpenLock, Flock
  <1>3. ~(ReadReadyInputs(p) \/ ClaimMove(p) \/ PublishMalformed(p) \/
         MoveMalformed(p) \/ RecoverStatus(p) \/ LoadPlan(p))
    BY PcLemma DEF ReadReadyInputs, ClaimMove, PublishMalformed, MoveMalformed, RecoverStatus,
           LoadPlan, EntryFailed
  <1>4. ~(CreateWork(p) \/ CheckStaged(p) \/ Spawn(p) \/ TransformSucceeds(p) \/
         TransformFails(p) \/ WaitFails(p))
    BY PcLemma DEF CreateWork, CheckStaged, Spawn, TransformSucceeds, TransformFails,
           WaitFails, EntryFailed
  <1>5. ~(PublishStatus(p) \/ Finalize(p) \/ Prune(p) \/ Unlock(p) \/ Reply(p) \/
         Observe(p))
    BY PcLemma DEF PublishStatus, Finalize, Prune, Unlock, Reply, Observe
  <1>6. ~(PublishFailure(p) \/ MoveFailure(p) \/ HandleError(p) \/
         MoveToFailed(p) \/ Crash(p))
    BY PcLemma DEF PublishFailure, MoveFailure, HandleError, MoveToFailed, Crash
  <1>7. StartImport(p)
    BY <1>1, <1>2, <1>3, <1>4, <1>5, <1>6 DEF ProcStep, Step
  <1>8. InputsVerdict(Queue(p, "processing")) = "ok"
    BY <1>7, PcLemma DEF StartImport, Works
  <1> QED BY <1>7, <1>8, PresentLemma, PhasesLemma DEF StartImport

\* Who works on a run after a step did before, or has just found it there.
LEMMA WorkingStep ==
    ASSUME TypeOK, AbsentEmpty, NEW p \in Procs, ProcStep(p), NEW q \in Runs
    PROVE  /\ Working(q)' => Working(q) \/ (/\ q = run[p] /\ pc[p] = "start" /\ fs' = fs
                                            /\ Exists(run[p], "processing"))
           /\ Working(q) => Working(q)' \/ (q = run[p] /\ pc[p] = "work")
  <1>1. \A s \in Procs \ {p} : pc'[s] = pc[s] /\ run'[s] = run[s]
    BY StillLemma DEF Still
  <1>2. pc'[p] = "work" => /\ pc[p] = "start" /\ run'[p] = run[p] /\ fs' = fs
                           /\ Exists(run[p], "processing")
    BY ToWork
  <1>3. Working(q)' <=> \E s \in Procs : run'[s] = q /\ pc'[s] = "work"
    BY DEF Working
  <1> QED BY <1>1, <1>2, <1>3 DEF Working

\* What was not there before is where p moved its run, or the scratch area p has made.
Appears(p, q, x) ==
    /\ q = run[p]
    /\ \/ x = "processing" /\ pc[p] = "work"
       \/ MovesOne(p) /\ x \in {"processing"} \cup TerminalPhases

\* A step of a processor keeps the directories as the invariant wants them ...
LEMMA ProcKeeps ==
    ASSUME TypeOK, accepted \subseteq Runs, AcceptedInv, PlacesInv, MutualExclusion,
           NEW p \in Procs, ProcStep(p), accepted' = accepted
    PROVE  PlacesInv'
  <1>1. /\ OthersUnchanged(p)
        /\ (\A ph \in Phases : Unchanged(run[p], ph)) \/ EditsOne(p) \/ MovesOne(p)
        /\ run[p] \in Runs /\ "incoming" \in Phases
        /\ "incoming" \notin {"processing"} \cup TerminalPhases
        /\ AbsentEmpty /\ OnePhase
    BY DirEffect, LocalsLemma, NamesLemma DEF PlacesInv, TerminalPhases
  <1>2. \A q \in Runs, x \in Phases : fs'[q][x].exists => Exists(q, x) \/ Appears(p, q, x)
    <2> TAKE q \in Runs, x \in Phases
    <2>1. CASE Unchanged(q, x)
      BY <2>1 DEF Unchanged, Exists
    <2>2. CASE q = run[p] /\ EditsOne(p)
      BY <2>1, <2>2 DEF EditsOne, Edited, Appears, Exists
    <2>3. CASE q = run[p] /\ MovesOne(p)
      BY <2>1, <2>3, NoDirLemma DEF MovesOne, Moved, Appears, Exists
    <2> QED BY <1>1, <2>1, <2>2, <2>3 DEF OthersUnchanged
  <1>3. AbsentEmpty'
    BY <1>1, AbsentStep
  <1>4. OnePhase'
    <2> SUFFICES ASSUME NEW q \in Runs, NEW x \in Phases, NEW y \in Phases,
                        fs'[q][x].exists, fs'[q][y].exists
                 PROVE  x = y
      BY DEF OnePhase, Exists
    <2>1. CASE q = run[p] /\ MovesOne(p)
      <3>1. PICK a, b \in Phases :
                /\ Moved(p, a, b)
                /\ \A ph \in Phases \ {a, b} : Unchanged(run[p], ph)
        BY <2>1 DEF MovesOne
      <3>2. fs[q][a].exists /\ ~fs'[q][a].exists
        BY <2>1, <3>1, NoDirLemma DEF Moved, Exists
      <3>3. \A ph \in Phases : fs'[q][ph].exists => ph = b
        BY <1>1, <2>1, <3>1, <3>2 DEF OnePhase, Exists, Unchanged
      <3> QED BY <3>3
    <2>2. CASE q # run[p] \/ ~MovesOne(p)
      <3>1. \A z \in Phases : fs'[q][z].exists =>
                Exists(q, z) \/ (q = run[p] /\ z = "processing" /\ pc[p] = "work")
        BY <1>2, <2>2 DEF Appears
      <3>2. pc[p] = "work" => \A z \in Phases \ {"processing"} : ~Exists(run[p], z)
        BY DEF PlacesInv, Importing
      <3> QED BY <1>1, <3>1, <3>2 DEF OnePhase
    <2> QED BY <2>1, <2>2
  <1>5. (\A r \in accepted : ~Exists(r, "incoming"))'
    <2>1. \A r \in accepted : ~fs'[r]["incoming"].exists
      BY <1>1, <1>2 DEF Appears, PlacesInv
    <2> QED BY <2>1 DEF Exists
  <1>6. (\A q \in Procs : pc[q] \in Importing =>
             \A ph \in Phases \ {"processing"} : ~Exists(run[q], ph))'
    <2> SUFFICES ASSUME NEW q \in Procs, pc'[q] \in Importing,
                        NEW ph \in Phases \ {"processing"}, fs'[run'[q]][ph].exists
                 PROVE  FALSE
      BY DEF Exists
    <2>1. run[q] \in Runs
      BY LocalsLemma
    <2>2. /\ run'[q] = run[q]
          /\ ~Exists(run[q], ph)
          /\ q # p => pc[q] \in Importing
      <3>1. CASE q = p
        <4>1. pc'[p] \in Holding /\ pc'[p] \notin Outside /\ pc'[p] # "flock"
          BY <3>1, OutsideLemma
        <4>2. LockEffect(p)
          BY <1>1, LockEffectLemma
        <4>3. Stays(p)
          BY <3>1, <4>1, <4>2 DEF LockEffect, Searches, Opens, Acquires, Leaves
        <4>4. pc[p] \in Importing \/ Exists(run[p], "processing")
          BY <3>1, <4>3 DEF Stays
        <4> QED BY <1>1, <3>1, <4>3, <4>4, PhasesLemma DEF Stays, PlacesInv, OnePhase
      <3>2. CASE q # p
        BY <3>2, StillLemma DEF Still, PlacesInv
      <3> QED BY <3>1, <3>2
    <2>3. run[q] = run[p] /\ MovesOne(p)
      BY <1>2, <2>1, <2>2 DEF Appears
    <2>4. pc[p] \in Holding /\ pc'[p] \notin Importing
      BY <2>3 DEF MovesOne, Moved
    <2> QED BY <2>2, <2>3, <2>4, OutsideLemma DEF MutualExclusion
  <1> QED BY <1>3, <1>4, <1>5, <1>6 DEF PlacesInv

\* A run whose directories stay, or change only as edits do, keeps its place, unless a processor
\* finds that there is nothing left to work in.
LEMMA EditRefines ==
    ASSUME TypeOK, accepted \subseteq Runs, AcceptedInv, PlacesInv, PlacesInv',
           NEW p \in Procs, ProcStep(p), accepted' = accepted,
           (\A ph \in Phases : Unchanged(run[p], ph)) \/ EditsOne(p),
           NEW r \in Runs, r = run[p]
    PROVE  \/ Place'[r] = Place[r]
           \/ /\ pc[p] = "work" /\ Place[r] = "processing" /\ Place'[r] = "collected"
  <1>1. /\ Placed(r) /\ Placed(r)' /\ OnePhase /\ OnePhase' /\ AbsentEmpty
        /\ "processing" \in Phases /\ "processing" \notin TerminalPhases
    BY PlacedLemma, PlacedNext, PhasesLemma DEF PlacesInv, AllPlaced
  <1>2. CASE \A ph \in Phases : Unchanged(r, ph)
    <2>1. ASSUME NEW ph \in Phases, Exists(r, ph)
          PROVE  Place'[r] = Place[r]
      BY <1>1, <1>2, <2>1 DEF Placed, Unchanged, Exists, Phases, TerminalPhases
    <2>2. ASSUME \A ph \in Phases : ~Exists(r, ph)
          PROVE  \/ Place'[r] = Place[r]
                 \/ pc[p] = "work" /\ Place[r] = "processing" /\ Place'[r] = "collected"
      <3>1. \A ph \in Phases : ~fs'[r][ph].exists
        BY <1>2, <2>2 DEF Unchanged, Exists
      <3>2. Working(r)' => Working(r)
        BY <1>1, <2>2, WorkingStep
      <3>3. Working(r) => Working(r)' \/ pc[p] = "work"
        BY <1>1, WorkingStep
      <3>4. Working(r) => r \in accepted
        BY WorkingLemma
      <3>5. /\ Place[r] = IF Working(r) THEN "processing"
                          ELSE IF r \in accepted THEN "collected" ELSE "absent"
            /\ Place'[r] = IF Working(r)' THEN "processing"
                           ELSE IF r \in accepted THEN "collected" ELSE "absent"
        BY <1>1, <2>2, <3>1 DEF Placed, Exists
      <3> QED BY <3>2, <3>3, <3>4, <3>5
    <2> QED BY <2>1, <2>2
  <1>3. CASE EditsOne(p)
    <2>1. PICK x \in Phases : /\ Edited(p, x)
                              /\ \A ph \in Phases \ {x} : Unchanged(run[p], ph)
      BY <1>3 DEF EditsOne
    <2>2. fs'[r][x].exists
      BY <2>1 DEF Edited
    <2>3. CASE Exists(r, x)
      <3>1. CASE x \in TerminalPhases
        <4>1. fs'[r][x].status = fs[r][x].status
          BY <2>1, <3>1 DEF Edited
        <4> QED BY <1>1, <2>2, <2>3, <3>1, <4>1 DEF Placed, Exists
      <3>2. CASE x \in {"incoming", "ready", "processing"}
        BY <1>1, <2>2, <2>3, <3>2 DEF Placed, Exists
      <3> QED BY <3>1, <3>2 DEF Phases, TerminalPhases
    <2>4. CASE ~Exists(r, x)
      <3>1. pc[p] = "work" /\ x = "processing"
        BY <2>1, <2>4 DEF Edited, Exists
      <3>2. Working(r)
        BY <3>1 DEF Working
      <3>3. \A ph \in Phases : ~Exists(r, ph)
        BY <2>4, <3>1, <3>2, WorkingLemma
      <3>4. Place[r] = "processing"
        BY <1>1, <3>2, <3>3 DEF Placed
      <3>5. Place'[r] = "processing"
        BY <1>1, <2>2, <3>1 DEF Placed, Exists
      <3> QED BY <3>4, <3>5
    <2> QED BY <2>3, <2>4
  <1> QED BY <1>2, <1>3

\* A step of a processor is a step of the contract, or none.
LEMMA ProcRefines ==
    ASSUME TypeOK, accepted \subseteq Runs, AcceptedInv, PlacesInv, MutualExclusion,
           DoneMeansImported, NEW p \in Procs, ProcStep(p), accepted' = accepted
    PROVE  [Contract!Next]_<<Place, imported>>
  <1> DEFINE r == run[p]
  <1>1. /\ OthersUnchanged(p)
        /\ (\A ph \in Phases : Unchanged(run[p], ph)) \/ EditsOne(p) \/ MovesOne(p)
        /\ run[p] \in Runs
    BY DirEffect, LocalsLemma
  <1>2. PlacesInv' /\ OnePhase /\ OnePhase' /\ AbsentEmpty
    BY ProcKeeps DEF PlacesInv
  <1>3. \A q \in Runs \ {run[p]} : Place'[q] = Place[q]
    <2> TAKE q \in Runs \ {run[p]}
    <2>1. \A x \in Phases : fs'[q][x] = fs[q][x]
      BY <1>1 DEF OthersUnchanged, Unchanged
    <2>2. Working(q)' <=> Working(q)
      BY <1>2, WorkingStep
    <2> QED BY <1>2, <2>1, <2>2, SamePlace DEF SameStanding, Exists
  <1>4. imported' = imported \/ /\ pc[p] = "wait" /\ pc'[p] = "publish"
                                /\ imported' = imported \cup {run[p]}
    BY ImportedLemma
  <1>5. CASE ~MovesOne(p)
    <2>1. \/ Place'[r] = Place[r]
          \/ pc[p] = "work" /\ Place[r] = "processing" /\ Place'[r] = "collected"
      BY <1>1, <1>2, <1>5, EditRefines
    <2>2. CASE Place'[r] = Place[r] /\ imported' = imported
      BY <1>3, <2>2, ContractStutter
    <2>3. CASE /\ Place'[r] = Place[r] /\ pc[p] = "wait"
               /\ imported' = imported \cup {run[p]}
      <3>1. /\ Placed(r)
            /\ \A ph \in Phases \ {"processing"} : ~Exists(r, ph)
            /\ r \in accepted
        BY <1>1, <1>2, <2>3, PlacedLemma DEF PlacesInv, AcceptedInv, Importing, Holding
      <3>2. Place[r] \in {"processing", "collected"}
        BY <3>1 DEF Placed
      <3>3. Place' = Place
        BY <1>3, <2>3, ContractStutter
      <3>4. Contract!Import(r)
        BY <2>3, <3>2, <3>3 DEF Contract!Import
      <3> QED BY <1>1, <3>4 DEF Contract!Next
    <2>4. CASE pc[p] = "work" /\ Place[r] = "processing" /\ Place'[r] = "collected"
      <3>1. Contract!Collect(r)
        BY <1>1, <1>3, <1>4, <2>4, ContractMove DEF Contract!Collect
      <3> QED BY <1>1, <3>1 DEF Contract!Next
    <2> QED BY <1>4, <2>1, <2>2, <2>3, <2>4
  <1>6. CASE MovesOne(p)
    <2>1. PICK a, b \in Phases : Moved(p, a, b)
      BY <1>6 DEF MovesOne
    <2>2. /\ a \in {"ready", "processing"} /\ a # b
          /\ b \in {"processing"} \cup TerminalPhases
          /\ imported' = imported
          /\ Exists(r, a) /\ fs'[r][b] = fs[r][a]
      BY <1>4, <2>1 DEF Moved, QueuePhases, Importing
    <2>3. PICK q \in Runs : q = r
      BY <1>1
    <2>4. Placed(q) /\ Placed(q)'
      BY <1>2, PlacedLemma, PlacedNext DEF AllPlaced
    <2>5. Place[q] = a
      BY <2>2, <2>3, <2>4 DEF Placed
    <2>6. CASE b = "processing"
      <3>1. Place'[q] = "processing" /\ a = "ready"
        BY <2>2, <2>3, <2>4, <2>6 DEF Placed, Exists
      <3>2. Contract!Claim(q)
        BY <1>3, <2>2, <2>3, <2>5, <3>1, ContractMove DEF Contract!Claim
      <3> QED BY <3>2 DEF Contract!Next
    <2>7. CASE b \in TerminalPhases
      <3> DEFINE v == Verdict(fs[r][a].status)
      <3>1. Place'[q] = v
        BY <2>2, <2>3, <2>4, <2>7 DEF Placed, Exists
      <3>2. v = "done" => q \in imported
        BY <2>2, <2>3, PhasesLemma DEF DoneMeansImported, Verdict, Phases
      <3>3. v \in Contract!Verdicts \cup {"corrupt"}
        BY DEF Verdict, PublishedStatus, Contract!Verdicts
      <3> HIDE DEF v
      <3>4. Contract!Move(q, {"ready", "processing"}, v)
        BY <1>3, <2>2, <2>3, <2>5, <3>1, ContractMove
      <3>5. Contract!End(q, v)
        BY <3>2, <3>4 DEF Contract!End
      <3> QED BY <3>3, <3>5 DEF Contract!Next
    <2> QED BY <2>2, <2>6, <2>7
  <1> QED BY <1>5, <1>6

----------------------------------------------------------------------------
(* Steps of the server *)

\* Nothing changes that the invariants are about.
Rests == UNCHANGED <<fs, pc, run, out, imported, accepted>>

\* A change by a handler or a client accepts the run that becomes ready, and no other.
LEMMA AcceptsLemma ==
    ASSUME TypeOK, AcceptedInv, IntakeActs,
           fs' = fs \/ \E r \in Runs : Keeps(r) \/ Strips(r) \/ Removes(r) \/ Arrives(r) \/ Readies(r)
    PROVE  Rests \/ \E r \in Runs : Changes(r)
  <1>1. /\ accepted' = accepted \cup {r \in Runs : fs'[r]["ready"].exists}
        /\ UNCHANGED <<pc, run, out, imported>>
        /\ "ready" \in Phases /\ "ready" # "incoming" /\ ~NoDir.exists
    BY NamesLemma, NoDirLemma DEF IntakeActs, procVars, worldVars
  <1>2. \A q \in Runs : Exists(q, "ready") => q \in accepted
    BY <1>1 DEF AcceptedInv
  <1>3. ASSUME \A q \in Runs : fs'[q]["ready"].exists => Exists(q, "ready")
        PROVE  accepted' = accepted
    BY <1>1, <1>2, <1>3
  <1>4. CASE fs' = fs
    BY <1>1, <1>3, <1>4 DEF Exists, Rests
  <1>5. ASSUME NEW r \in Runs, Keeps(r) \/ Strips(r) \/ Removes(r) \/ Arrives(r)
        PROVE  Changes(r)
    <2>1. \A q \in Runs : fs'[q]["ready"].exists => Exists(q, "ready")
      <3>1. CASE Keeps(r)
        BY <1>1, <3>1, ChangesLemma DEF OnlyAt, Exists
      <3>2. CASE Strips(r)
        BY <1>1, <3>2, ChangesLemma DEF OnlyAt, Exists
      <3>3. CASE Removes(r)
        BY <1>1, <3>3, ChangesLemma DEF OnlyAt, Exists
      <3>4. CASE Arrives(r)
        BY <1>1, <3>4, ChangesLemma DEF OnlyAt, Exists
      <3> QED BY <1>5, <3>1, <3>2, <3>3, <3>4
    <2> QED BY <1>1, <1>3, <1>5, <2>1 DEF Changes
  <1>6. ASSUME NEW r \in Runs, Readies(r)
        PROVE  Changes(r)
    <2>1. /\ fs'[r]["ready"] = fs[r]["incoming"] /\ Exists(r, "incoming")
          /\ \A q \in Runs \ {r} : fs'[q]["ready"] = fs[q]["ready"]
      BY <1>1, <1>6, ChangesLemma
    <2>2. accepted' = accepted \cup {r}
      BY <1>1, <1>2, <2>1 DEF Exists
    <2> QED BY <1>1, <1>6, <2>2 DEF Changes
  <1> QED BY <1>4, <1>5, <1>6

\* Every step is a rest, a step of a processor, or a change of one run by somebody else.
LEMMA StepKinds ==
    ASSUME ServerFacts, AbsentEmpty, CreatesInv, [ServerNext]_serverVars
    PROVE  \/ Rests
           \/ \E p \in Procs : ProcStep(p) /\ accepted' = accepted
           \/ \E r \in Runs : Changes(r)
  <1>1. /\ TypeOK /\ IntakeTypeOK /\ CollectorTypeOK /\ AcceptedInv
        /\ \A g \in Collectors : gc[g].run \in Runs
    BY PassLemma DEF ServerFacts, ServerTypeOK, ServerInv
  <1>2. CASE UNCHANGED serverVars
    BY <1>2 DEF serverVars, vars, procVars, worldVars, Rests
  <1>3. CASE ProcessorActs
    <2>1. CASE \E p \in Procs : ProcStep(p)
      BY <1>3, <2>1 DEF ProcessorActs
    <2>2. CASE \E r \in Runs : TransformWrites(r) \/ OrphanExits(r)
      BY <1>3, <2>2 DEF ProcessorActs, TransformWrites, OrphanExits, procVars, Rests
    <2> QED BY <1>3, <2>1, <2>2 DEF ProcessorActs, ProcStep
  <1>4. CASE IntakeActs
    <2>1. \/ UNCHANGED fs
          \/ \E r \in Runs : Keeps(r) \/ Removes(r) \/ Arrives(r) \/ Readies(r)
      BY <1>1, <1>4, IntakeChanges DEF IntakeActs
    <2> QED BY <1>1, <1>4, <2>1, AcceptsLemma
  <1>5. CASE CollectorActs
    <2>1. PICK g \in Collectors : PassStep(g)
      BY <1>5 DEF CollectorActs, PassStep
    <2>2. UNCHANGED <<pc, run, out, imported, accepted>>
      BY <1>5 DEF CollectorActs, procVars, worldVars
    <2> QED BY <1>1, <2>1, <2>2, GcChanges DEF Changes, Rests
  <1>6. CASE RunStateActs
    BY <1>6 DEF RunStateActs, procVars, worldVars, Rests
  <1>7. ASSUME NEW r \in Runs, TimePasses(r)
        PROVE  Rests \/ Changes(r)
    <2>1. UNCHANGED <<pc, run, out, imported, accepted>>
      BY <1>7 DEF TimePasses, procVars, worldVars
    <2> QED BY <1>1, <1>7, <2>1, TimeChanges DEF Changes, Rests
  <1> QED BY <1>2, <1>3, <1>4, <1>5, <1>6, <1>7 DEF ServerNext

\* begin-run is called for a run that has not begun, and none is accepted before the client
\* has heard from begin-run.
LEMMA CreatesStep ==
    ASSUME ServerFacts, AbsentEmpty, CreatesInv, [ServerNext]_serverVars
    PROVE  CreatesInv'
  <1>1. /\ TypeOK /\ IntakeTypeOK /\ CallsInv /\ AcceptedInv
        /\ \A c \in Callers : call[c].run \in Runs
    BY DEF ServerFacts, ServerTypeOK, ServerInv, IntakeTypeOK
  <1>2. CASE UNCHANGED <<call, accepted>>
    BY <1>2 DEF CreatesInv
  <1>3. CASE IntakeActs
    <2>1. \/ accepted' = accepted
          \/ \E r \in Runs, c \in Callers :
                /\ accepted' = accepted \cup {r}
                /\ call[c].step = "fin_move" /\ call[c].run = r
      <3>1. Rests \/ \E r \in Runs : Changes(r)
        BY <1>1, <1>3, IntakeChanges, AcceptsLemma DEF IntakeActs
      <3>2. ASSUME NEW r \in Runs, Readies(r)
            PROVE  \E c \in Callers : call[c].step = "fin_move" /\ call[c].run = r
        <4>1. /\ ~Exists(r, "ready") /\ fs'[r]["ready"] = fs[r]["incoming"]
              /\ Exists(r, "incoming") /\ "ready" \in Phases \ {"incoming"}
          BY <1>1, <3>2, NamesLemma, ChangesLemma
        <4>2. fs'[r]["ready"] # fs[r]["ready"]
          BY <4>1 DEF Exists
        <4> QED BY <1>1, <1>3, <4>1, <4>2, IntakeFs DEF IntakeActs
      <3> QED BY <3>1, <3>2 DEF Rests, Changes
    <2>2. ASSUME NEW d \in Callers, call'[d].step = "create"
          PROVE  /\ call'[d].run \notin accepted
                 /\ stage[call'[d].run] \in {"new", "beginning", "quit"}
      <3>1. ASSUME NEW c \in Callers, Conduct(c)
            PROVE  call[d].step = "create" /\ call'[d].run = call[d].run
        BY <2>2, <3>1 DEF Conduct, Ends, GoesOn, Fades, FinishSteps
      <3>2. ASSUME NEW r \in Runs, Engages(r)
            PROVE  \/ call[d].step = "create" /\ call'[d].run = call[d].run
                   \/ call'[d].run = r /\ stage[r] = "new"
        BY <2>2, <3>2 DEF Engages
      <3>3. \/ call[d].step = "create" /\ call'[d].run = call[d].run
            \/ call'[d].run \in Runs /\ stage[call'[d].run] = "new"
        BY <1>1, <1>3, <3>1, <3>2, ConductLemma, EngagesLemma
           DEF IntakeActs, IntakeNext, ClientActs, CallsOne
      <3> QED BY <1>1, <3>3 DEF CreatesInv, CallsInv, AcceptedInv
    <2>3. \A c \in Callers : call[c].step = "fin_move" => stage[call[c].run] = "uploaded"
      BY <1>1 DEF CallsInv, FinishSteps
    <2> QED BY <2>1, <2>2, <2>3 DEF CreatesInv
  <1> QED BY <1>2, <1>3 DEF serverVars, intakeVars, ServerNext, ProcessorActs, CollectorActs,
                RunStateActs, TimePasses

----------------------------------------------------------------------------
(* Whatever happens: what is published as done has been imported *)

DeliveredInv == AbsentEmpty /\ CreatesInv /\ ImportInv

\* Where somebody else changes one run, no directory that is not there has contents, and no
\* status comes to be that was not there.
LEMMA ChangesPublishNothing ==
    ASSUME TypeOK, AbsentEmpty, NEW r \in Runs, Changes(r)
    PROVE  /\ AbsentEmpty'
           /\ \A q \in Runs, x \in Phases : fs'[q][x].status = "done" =>
                  \E y \in Phases : fs[q][y].status = "done"
  <1>1. /\ \A q \in Runs, x \in Phases : fs[q][x].exists \/ fs[q][x] = NoDir
        /\ NoDir.status = "none" /\ "incoming" \in Phases /\ "ready" \in Phases
    BY NamesLemma DEF AbsentEmpty, Exists, NoDir, Contents
  <1>2. SUFFICES \A q \in Runs, x \in Phases :
                    /\ fs'[q][x].exists \/ fs'[q][x] = NoDir
                    /\ fs'[q][x].status = "done" => \E y \in Phases : fs[q][y].status = "done"
    BY DEF AbsentEmpty, Exists
  <1>3. CASE Keeps(r)
    BY <1>1, <1>3, ChangesLemma DEF OnlyAt
  <1>4. CASE Strips(r)
    BY <1>1, <1>4, ChangesLemma DEF OnlyAt
  <1>5. CASE Removes(r)
    BY <1>1, <1>5, ChangesLemma DEF OnlyAt
  <1>6. CASE Arrives(r)
    BY <1>1, <1>6, ChangesLemma DEF OnlyAt
  <1>7. CASE Readies(r)
    <2>1. /\ fs[r]["incoming"].exists
          /\ fs'[r]["incoming"] = NoDir /\ fs'[r]["ready"] = fs[r]["incoming"]
          /\ \A q \in Runs, x \in Phases :
                q # r \/ x \notin {"incoming", "ready"} => fs'[q][x] = fs[q][x]
      BY <1>7, ChangesLemma DEF Exists
    <2> QED BY <1>1, <2>1
  <1> QED BY <1>3, <1>4, <1>5, <1>6, <1>7 DEF Changes

\* Every step of the server keeps the invariant.
LEMMA DeliveredStep == ServerFacts /\ DeliveredInv /\ [ServerNext]_serverVars => DeliveredInv'
  <1> SUFFICES ASSUME ServerFacts, DeliveredInv, [ServerNext]_serverVars PROVE DeliveredInv'
    OBVIOUS
  <1>1. TypeOK /\ AbsentEmpty /\ CreatesInv /\ ImportInv
    BY DEF ServerFacts, ServerTypeOK, DeliveredInv
  <1>2. CreatesInv'
    BY <1>1, CreatesStep
  <1>3. CASE Rests
    BY <1>1, <1>2, <1>3 DEF Rests, DeliveredInv, AbsentEmpty, Exists, ImportInv, DoneMeansImported
  <1>4. ASSUME NEW p \in Procs, ProcStep(p)
        PROVE  DeliveredInv'
    <2>1. Next
      BY <1>4 DEF Next, ProcStep
    <2> QED BY <1>1, <1>2, <1>4, <2>1, AbsentStep, ImportStep DEF DeliveredInv
  <1>5. ASSUME NEW r \in Runs, Changes(r)
        PROVE  DeliveredInv'
    <2>1. UNCHANGED <<pc, run, out, imported>>
      BY <1>5 DEF Changes
    <2>2. DoneMeansImported'
      BY <1>1, <1>5, <2>1, ChangesPublishNothing DEF ImportInv, DoneMeansImported
    <2>3. ImportInv'
      BY <1>1, <2>1, <2>2 DEF ImportInv
    <2> QED BY <1>1, <1>2, <1>5, <2>3, ChangesPublishNothing DEF DeliveredInv
  <1> QED BY <1>1, <1>3, <1>4, <1>5, StepKinds

\* What the server finds at the start: each run in one queue phase at most.
LEMMA FoundLemma ==
    ASSUME ServerInit
    PROVE  /\ \A r \in Runs, ph \in Phases : Exists(r, ph) \/ fs[r][ph] = NoDir
           /\ \A r \in Runs, ph \in Phases : fs[r][ph].status # "done"
           /\ \A r \in Runs, a, b \in Phases : Exists(r, a) /\ Exists(r, b) => a = b
           /\ \A r \in Runs, ph \in Phases : Exists(r, ph) => ph \in QueuePhases
           /\ \A p \in Procs : pc[p] = "idle" /\ fd[p] = NoLock
           /\ imported = {}
           /\ \A c \in Callers : call[c].step = "none"
  <1>1. ASSUME NEW a \in Arrivals, NEW ph \in Phases
        PROVE  /\ Found(a)[ph].exists \/ Found(a)[ph] = NoDir
               /\ Found(a)[ph].status # "done"
               /\ Found(a)[ph].exists => ph = a.phase /\ ph \in QueuePhases
    BY NoDirLemma, ProcessorAssumption DEF Found, NoDir, Contents
  <1>2. NoDir.status = "none" /\ ~NoDir.exists
    BY NoDirLemma DEF NoDir, Contents
  <1>3. \A r \in Runs : \/ \E a \in Arrivals : fs[r] = Found(a)
                        \/ fs[r] = [ph \in Phases |-> NoDir]
    BY DEF ServerInit
  <1>4. /\ \A r \in Runs, ph \in Phases : fs[r][ph].exists \/ fs[r][ph] = NoDir
        /\ \A r \in Runs, ph \in Phases : fs[r][ph].status # "done"
        /\ \A r \in Runs, ph \in Phases : fs[r][ph].exists => ph \in QueuePhases
        /\ \A r \in Runs, a, b \in Phases : fs[r][a].exists /\ fs[r][b].exists => a = b
    BY <1>1, <1>2, <1>3
  <1>5. /\ \A p \in Procs : pc[p] = "idle" /\ fd[p] = NoLock
        /\ imported = {}
        /\ \A c \in Callers : call[c].step = "none"
    BY SomeRun, CallLemma DEF ServerInit, Quiescent, IntakeInit
  <1> QED BY <1>4, <1>5 DEF Exists

\* A status "done", on which the client deletes its copy, is only ever on disk for a run of
\* which a transform has delivered all outputs: with handlers, run-state and the collector at
\* work too, even where the collector deletes a lock file under its holder.
THEOREM DoneIsImportedOnServer == ServerSpec => []DoneMeansImported
  <1>1. ServerInit => DeliveredInv
    BY FoundLemma DEF DeliveredInv, AbsentEmpty, CreatesInv, ImportInv, DoneMeansImported
  <1>2. DeliveredInv => DoneMeansImported
    BY DEF DeliveredInv, ImportInv
  <1> QED BY <1>1, <1>2, DeliveredStep, ServerFactsHold, PTL DEF ServerSpec

----------------------------------------------------------------------------
(* The server implements ServerContract where a run has one holder at a time *)

\* Every step keeps the invariant, and is a step of the contract or none.
LEMMA ContractStep ==
    ASSUME ServerFacts, DeliveredInv, PlacesInv, MutualExclusion, [ServerNext]_serverVars
    PROVE  PlacesInv' /\ [Contract!Next]_<<Place, imported>>
  <1>1. /\ TypeOK /\ AcceptedInv /\ accepted \subseteq Runs
        /\ AbsentEmpty /\ CreatesInv /\ DoneMeansImported
    BY DEF ServerFacts, ServerTypeOK, ServerInv, DeliveredInv, ImportInv
  <1>2. CASE Rests
    <2>1. PlacesInv' /\ OnePhase /\ OnePhase'
      BY <1>2 DEF Rests, PlacesInv, AbsentEmpty, OnePhase, Exists
    <2>2. ASSUME NEW q \in Runs
          PROVE  Place'[q] = Place[q]
      <3>1. Working(q)' <=> Working(q)
        BY <1>2 DEF Rests, Working
      <3> QED BY <1>2, <2>1, <3>1, SamePlace DEF Rests, SameStanding, Exists
    <2>3. Place' = Place /\ imported' = imported
      BY <1>2, <2>2, ContractStutter DEF Rests
    <2> QED BY <2>1, <2>3
  <1>3. ASSUME NEW p \in Procs, ProcStep(p), accepted' = accepted
        PROVE  PlacesInv' /\ [Contract!Next]_<<Place, imported>>
    BY <1>1, <1>3, ProcKeeps, ProcRefines
  <1>4. ASSUME NEW r \in Runs, Changes(r)
        PROVE  PlacesInv' /\ [Contract!Next]_<<Place, imported>>
    BY <1>1, <1>4, ChangesKeep, ChangesRefine
  <1> QED BY <1>1, <1>2, <1>3, <1>4, StepKinds

\* At the start a run is nowhere, ready or processing.
LEMMA ContractInit == ServerInit => PlacesInv /\ Contract!Init
  <1> SUFFICES ASSUME ServerInit PROVE PlacesInv /\ Contract!Init
    OBVIOUS
  <1>1. PlacesInv
    <2>1. "incoming" \notin QueuePhases /\ "idle" \notin Importing /\ accepted \subseteq Runs
      BY DEF QueuePhases, Importing, ServerInit
    <2> QED BY <2>1, FoundLemma, NamesLemma DEF PlacesInv, AbsentEmpty, OnePhase
  <1>2. ASSUME NEW r \in Runs
        PROVE  Place[r] \in {"absent", "ready", "processing"}
    <2>1. Placed(r) /\ ~Working(r)
      BY <1>1, PlacedLemma, FoundLemma DEF PlacesInv, Working
    <2>2. ASSUME NEW ph \in Phases, Exists(r, ph)
          PROVE  Place[r] \in {"ready", "processing"}
      BY <2>1, <2>2, FoundLemma DEF Placed, QueuePhases
    <2>3. ASSUME \A ph \in Phases : ~Exists(r, ph)
          PROVE  Place[r] = "absent"
      BY <2>1, <2>3 DEF Placed, ServerInit
    <2> QED BY <2>2, <2>3
  <1>3. Place \in [Runs -> {"absent", "ready", "processing"}]
    BY <1>2, PlaceMap DEF PlaceIsMap
  <1> QED BY <1>1, <1>3, FoundLemma DEF Contract!Init

\* Handlers, processors and collector together keep the promises a client relies on, as long
\* as a run is never in the hands of two processors at once.
THEOREM ContractUnderLock == ServerSpec /\ []MutualExclusion => ImplementsContract
  <1>1. ServerInit => DeliveredInv
    BY FoundLemma DEF DeliveredInv, AbsentEmpty, CreatesInv, ImportInv, DoneMeansImported
  <1>2. /\ ServerFacts /\ DeliveredInv /\ PlacesInv /\ MutualExclusion
           /\ [ServerNext]_serverVars => PlacesInv'
        /\ ServerFacts /\ DeliveredInv /\ PlacesInv /\ MutualExclusion
           /\ [ServerNext]_serverVars => [Contract!Next]_<<Place, imported>>
    BY ContractStep
  <1> QED BY <1>1, <1>2, ContractInit, DeliveredStep, ServerFactsHold, PTL
          DEF ServerSpec, ImplementsContract, Contract!Spec

----------------------------------------------------------------------------
(* Without the collector a run has one holder at a time *)

\* No directory changes its lock file as time passes.
LEMMA TimeLocks ==
    ASSUME TypeOK, NEW r \in Runs, TimePasses(r), NEW q \in Runs, NEW ph \in Phases
    PROVE  fs'[q][ph].exists = fs[q][ph].exists /\ fs'[q][ph].lock = fs[q][ph].lock
  <1>1. fs \in FsType /\ fs[q][ph] \in Dirs
    BY EditLemma DEF TypeOK, WorkDirTypeOK, FsType
  <1>2. CASE LeaseLapses(r)
    <2>1. fs'[q][ph] = fs[q][ph] \/ fs'[q][ph] = [fs[q][ph] EXCEPT !.lease = "expired"]
      BY <1>1, <1>2 DEF LeaseLapses, FsType
    <2> QED BY <1>1, <2>1 DEF Dirs
  <1>3. CASE \E x \in Phases : DirAges(r, x)
    <2>1. PICK x \in Phases : DirAges(r, x)
      BY <1>3
    <2>2. fs'[q][ph] = fs[q][ph] \/ fs'[q][ph] = [fs[q][ph] EXCEPT !.aged = TRUE]
      BY <1>1, <2>1 DEF DirAges, FsType
    <2> QED BY <1>1, <2>2 DEF Dirs
  <1>4. CASE StatusAges(r)
    BY <1>4 DEF StatusAges
  <1> QED BY <1>2, <1>3, <1>4 DEF TimePasses

\* run-state takes no lock that is taken, and gives back its own.
LEMMA AskLocks ==
    ASSUME TypeOK, RunStateActs, NEW p \in Procs, NEW i \in Inodes, owner[i] = p
    PROVE  owner'[i] = p
  <1>1. /\ \A o \in Askers : o # p /\ o # Nobody
        /\ p # Nobody /\ owner \in [Inodes -> Owners]
    BY NamesAssumption, AskerAssumption DEF TypeOK, WorkDirTypeOK, Owners
  <1>2. ASSUME NEW o \in Askers, ProbeProcessor(o)
        PROVE  owner'[i] = p
    <2>1. UNCHANGED owner \/ \E j : owner[j] = Nobody /\ owner' = [owner EXCEPT ![j] = o]
      BY <1>2 DEF ProbeProcessor
    <2> QED BY <1>1, <2>1
  <1>3. ASSUME NEW o \in Askers, ProbeReleased(o)
        PROVE  owner'[i] = p
    BY <1>1, <1>3 DEF ProbeReleased, EndProbe, Released
  <1> QED BY <1>2, <1>3 DEF RunStateActs, AskStep, AskRunState, LookQueued, LookTerminal, ReadStatus

HeldInv == ServerFacts /\ DeliveredInv /\ PlacesInv /\ LockInv

\* Every step of a server without collector keeps locks and places as they should be.
LEMMA HeldStep ==
    ASSUME Collectors = {}, HeldInv, [ServerNext]_serverVars
    PROVE  LockInv'
  <1>1. /\ TypeOK /\ IntakeTypeOK /\ AcceptedInv /\ AbsentEmpty /\ AbsentEmpty'
        /\ LockInv /\ PlacesInv /\ PlacesInv'
    BY OneHolder, DeliveredStep, ContractStep
       DEF HeldInv, ServerFacts, ServerTypeOK, ServerInv, DeliveredInv
  \* Nobody but processors has a lock file, and it stays where it is.
  <1>2. ASSUME UNCHANGED <<pc, run, fd>>,
               \A p \in Procs : pc[p] \in Holding => owner'[fd[p]] = p,
               \A q \in accepted, ph \in QueuePhases :
                   /\ Exists(q, ph)' => Exists(q, ph)
                   /\ Exists(q, ph)' => fs'[q][ph].lock = fs[q][ph].lock,
               \A q \in accepted : Exists(q, "processing") => Exists(q, "processing")'
        PROVE  LockInv'
    <2>1. \A p \in Procs : pc[p] \in Holding \cup {"flock"} => run[p] \in accepted
      BY <1>1 DEF AcceptedInv
    <2>2. DescriptorsOpen'
      BY <1>1, <1>2 DEF LockInv, DescriptorsOpen
    <2>3. OneLockFile'
      BY <1>1, <1>2, <2>1 DEF LockInv, DescriptorsOpen, OneLockFile
    <2>4. QueuedOnce'
      <3>1. \A r \in Runs : ~(Exists(r, "ready")' /\ Exists(r, "processing")')
        BY <1>1, PhasesLemma DEF PlacesInv, OnePhase
      <3>2. \A p \in Procs : pc'[p] \in Importing => Exists(run[p], "processing")
        BY <1>1, <1>2 DEF LockInv, QueuedOnce
      <3>3. \A p \in Procs : pc'[p] \in Importing => fs'[run'[p]]["processing"].exists
        BY <1>2, <2>1, <3>2, OutsideLemma DEF Exists
      <3> QED BY <3>1, <3>3 DEF QueuedOnce, Exists
    <2> QED BY <1>1, <2>2, <2>3, <2>4 DEF LockInv
  <1>3. /\ \A p \in Procs : pc[p] \in Holding => owner[fd[p]] = p /\ fd[p] \in Inodes
        /\ accepted \subseteq Runs /\ QueuePhases \subseteq Phases \ {"incoming"}
        /\ "processing" \in QueuePhases
    BY <1>1 DEF LockInv, DescriptorsOpen, TypeOK, HeldInv, ServerFacts, ServerTypeOK,
       QueuePhases, Phases
  <1>4. CASE UNCHANGED <<pc, run, fd, fs, owner>>
    BY <1>1, <1>4 DEF LockInv, AbsentEmpty, DescriptorsOpen, OneLockFile, QueuedOnce, Exists
  <1>5. CASE ProcessorActs
    BY <1>1, <1>5, ProcessorsStep, LockStep
  <1>6. CASE IntakeActs
    <2>1. UNCHANGED <<pc, run, fd, owner>>
      BY <1>6 DEF IntakeActs, procVars, IntakeNext, HandlerStep, BeginCreate, BeginLease, Prepare,
         HeartbeatRead, HeartbeatWrite, FinishLook, FinishLease, FinishMove, LoseConnection,
         HandlerDies, CallBegin, CallPrepare, CallHeartbeat, CallFinish, WriteInputs, Upload
    <2>2. \A q \in accepted, ph \in QueuePhases : fs'[q][ph] = fs[q][ph]
      BY <1>1, <1>3, <1>6, IntakeFs DEF IntakeActs, PlacesInv
    <2> QED BY <1>2, <1>3, <2>1, <2>2 DEF Exists
  <1>7. CASE RunStateActs
    <2>1. UNCHANGED <<pc, run, fd, fs>>
      BY <1>7 DEF RunStateActs, procVars
    <2>2. \A p \in Procs : pc[p] \in Holding => owner'[fd[p]] = p
      BY <1>1, <1>3, <1>7, AskLocks
    <2> QED BY <1>2, <2>1, <2>2 DEF Exists
  <1>8. ASSUME NEW r \in Runs, TimePasses(r)
        PROVE  LockInv'
    <2>1. UNCHANGED <<pc, run, fd, owner>>
      BY <1>1, <1>8, TimeEffect DEF TimePasses, procVars
    <2>2. \A q \in Runs, ph \in Phases :
              fs'[q][ph].exists = fs[q][ph].exists /\ fs'[q][ph].lock = fs[q][ph].lock
      BY <1>1, <1>8, TimeLocks
    <2> QED BY <1>2, <1>3, <2>1, <2>2 DEF Exists
  <1>9. CASE UNCHANGED serverVars
    BY <1>4, <1>9 DEF serverVars, vars, procVars
  <1> QED BY <1>5, <1>6, <1>7, <1>8, <1>9 DEF ServerNext, CollectorActs

\* As long as no collection runs, two processors are never inside the same run at once, with
\* handlers renewing leases and accepting runs and run-state probing locks meanwhile.
THEOREM ExclusiveOnServer ==
    ASSUME Collectors = {}
    PROVE  ServerSpec => []MutualExclusion
  <1>1. ServerInit => HeldInv
    <2> SUFFICES ASSUME ServerInit PROVE HeldInv
      OBVIOUS
    <2>1. ServerFacts /\ PlacesInv
      BY ServerTypeInit, ServerInvInit, ContractInit DEF ServerFacts
    <2>2. DeliveredInv
      BY FoundLemma DEF DeliveredInv, AbsentEmpty, CreatesInv, ImportInv, DoneMeansImported
    <2>3. "idle" \notin Holding \cup {"flock"} /\ "idle" \notin Importing
      BY OutsideLemma
    <2>4. LockInv
      BY <2>3, FoundLemma, PhasesLemma DEF LockInv, AbsentEmpty, DescriptorsOpen, OneLockFile, QueuedOnce
    <2> QED BY <2>1, <2>2, <2>4 DEF HeldInv
  <1>2. HeldInv /\ [ServerNext]_serverVars => HeldInv'
    BY HeldStep, OneHolder, ServerTypeStep, ServerInvStep, DeliveredStep, ContractStep
       DEF HeldInv, ServerFacts
  <1>3. HeldInv => MutualExclusion
    BY OneHolder DEF HeldInv
  <1> QED BY <1>1, <1>2, <1>3, PTL DEF ServerSpec

\* The contract is kept without a collector, and with one where process-run and process-once
\* run one at a time.
THEOREM ContractKept ==
    ASSUME Collectors = {} \/ \A p, q \in Procs : p = q
    PROVE  ServerSpec => ImplementsContract
  <1>1. CASE Collectors = {}
    BY <1>1, ExclusiveOnServer, ContractUnderLock, PTL
  <1>2. CASE \A p, q \in Procs : p = q
    <2>1. MutualExclusion
      BY <1>2 DEF MutualExclusion
    <2> QED BY <2>1, ContractUnderLock, PTL
  <1> QED BY <1>1, <1>2

----------------------------------------------------------------------------
(* What run-state answers *)

\* What a call that looked at everything at once would answer of a run in one phase.
Looked(r) ==
    /\ \A ph \in {"incoming", "ready", "processing"} : Exists(r, ph) => Where(r) = ph
    /\ \A ph \in TerminalPhases :
          Exists(r, ph) => Where(r) = IF OtherVersion(fs[r][ph].status) THEN "not_found"
                                      ELSE IF Readable(fs[r][ph].status) THEN ph ELSE "corrupt"
    /\ (\A ph \in Phases : ~Exists(r, ph)) => Where(r) = "not_found"

LEMMA LookedLemma ==
    ASSUME OnePhase, NEW r \in Runs
    PROVE  Looked(r)
  <1> DEFINE found == {ph \in Phases : Exists(r, ph)
                           /\ ~(ph \in TerminalPhases /\ OtherVersion(fs[r][ph].status))}
  <1>1. \A a, b \in Phases : Exists(r, a) /\ Exists(r, b) => a = b
    BY DEF OnePhase
  <1>2. Where(r) = IF "incoming" \in found THEN "incoming"
                   ELSE IF "ready" \in found THEN "ready"
                   ELSE IF "processing" \in found THEN "processing"
                   ELSE IF found = {} THEN "not_found"
                   ELSE LET ph == IF "done" \in found THEN "done" ELSE "failed" IN
                        IF Readable(fs[r][ph].status) THEN ph ELSE "corrupt"
    BY DEF Where
  <1>3. ASSUME NEW ph \in {"incoming", "ready", "processing"}, Exists(r, ph)
        PROVE  Where(r) = ph
    <2>1. ph \in found /\ \A x \in found : x = ph
      BY <1>1, <1>3 DEF Phases, TerminalPhases
    <2> HIDE DEF found
    <2> QED BY <1>2, <2>1
  <1>4. ASSUME NEW ph \in TerminalPhases, Exists(r, ph)
        PROVE  Where(r) = IF OtherVersion(fs[r][ph].status) THEN "not_found"
                          ELSE IF Readable(fs[r][ph].status) THEN ph ELSE "corrupt"
    <2>1. found = IF OtherVersion(fs[r][ph].status) THEN {} ELSE {ph}
      BY <1>1, <1>4 DEF Phases, TerminalPhases
    <2>2. ph \in {"done", "failed"}
      BY DEF TerminalPhases
    <2> HIDE DEF found
    <2> QED BY <1>2, <2>1, <2>2
  <1>5. ASSUME \A ph \in Phases : ~Exists(r, ph)
        PROVE  Where(r) = "not_found"
    <2>1. found = {}
      BY <1>5
    <2> HIDE DEF found
    <2> QED BY <1>2, <2>1
  <1> HIDE DEF found
  <1> QED BY <1>3, <1>4, <1>5 DEF Looked

AllLooked == \A r \in Runs : Looked(r)

\* The same of the state a step leads to.
LEMMA LookedNext == OnePhase' => AllLooked'
  <1>1. OnePhase => AllLooked
    BY LookedLemma DEF AllLooked
  <1> QED BY <1>1, PTL

\* A run that has left incoming/ moves the way run-state looks, and goes from a terminal phase
\* only after its status.
MovesOn(r) ==
    /\ \A x \in Phases \ {"incoming"} : Exists(r, x) =>
           \/ \E y \in Ahead(x) : fs'[r][y].exists
           \/ \A y \in Phases : ~fs'[r][y].exists
    /\ \A x \in TerminalPhases : Exists(r, x) =>
           fs'[r][x].exists \/ (fs[r][x].status = "none" /\ \A y \in Phases : ~fs'[r][y].exists)

\* The phases ahead of one ahead are ahead.
LEMMA AheadLemma ==
    /\ \A x \in Phases \ {"incoming"} : x \in Ahead(x) /\ Ahead(x) \subseteq Phases \ {"incoming"}
    /\ \A x \in Phases \ {"incoming"} : \A y \in Ahead(x) : Ahead(y) \subseteq Ahead(x)
    /\ Ahead("ready") = {"ready", "processing", "done", "failed"}
    /\ Ahead("processing") = {"processing", "done", "failed"}
    /\ Ahead("done") = {"done", "failed"}
    /\ Ahead("failed") = {"failed"}
  BY DEF Ahead, Phases, TerminalPhases

\* Every step of the server moves runs that way.
LEMMA MovesOnStep ==
    ASSUME ServerFacts, DeliveredInv, PlacesInv, [ServerNext]_serverVars, NEW r \in Runs
    PROVE  MovesOn(r)
  <1>1. /\ TypeOK /\ AbsentEmpty /\ CreatesInv /\ OnePhase
        /\ TerminalPhases \subseteq Phases \ {"incoming"}
    BY DEF ServerFacts, ServerTypeOK, DeliveredInv, PlacesInv, TerminalPhases, Phases
  <1>2. ASSUME NEW x \in Phases \ {"incoming"}, Exists(r, x), fs'[r][x].exists
        PROVE  \E y \in Ahead(x) : fs'[r][y].exists
    BY <1>2, AheadLemma
  <1>3. CASE \A x \in Phases : Exists(r, x) => fs'[r][x].exists
    BY <1>1, <1>2, <1>3 DEF MovesOn
  <1>4. ASSUME NEW p \in Procs, ProcStep(p)
        PROVE  MovesOn(r)
    <2>1. /\ OthersUnchanged(p)
          /\ (\A ph \in Phases : Unchanged(run[p], ph)) \/ EditsOne(p) \/ MovesOne(p)
      BY <1>1, <1>4, DirEffect
    <2>2. CASE r # run[p] \/ \A ph \in Phases : Unchanged(run[p], ph)
      BY <1>3, <2>1, <2>2 DEF OthersUnchanged, Unchanged, Exists
    <2>3. CASE r = run[p] /\ EditsOne(p)
      BY <1>3, <2>3 DEF EditsOne, Edited, Unchanged, Exists
    <2>4. CASE r = run[p] /\ MovesOne(p)
      <3>1. PICK a, b \in Phases : Moved(p, a, b)
        BY <2>4 DEF MovesOne
      <3>2. /\ a \in {"ready", "processing"} /\ a # b
            /\ b \in {"processing"} \cup TerminalPhases
            /\ Exists(r, a) /\ fs'[r][b].exists
        BY <2>4, <3>1 DEF Moved, QueuePhases, Exists
      <3>3. \A x \in Phases : Exists(r, x) => x = a
        BY <1>1, <3>2 DEF OnePhase
      <3>4. b \in Ahead(a)
        BY <3>2, AheadLemma DEF TerminalPhases
      <3>5. a \notin TerminalPhases
        BY <3>2 DEF TerminalPhases
      <3> QED BY <3>2, <3>3, <3>4, <3>5, <1>1 DEF MovesOn
    <2> QED BY <2>1, <2>2, <2>3, <2>4
  <1>5. ASSUME NEW q \in Runs, Changes(q)
        PROVE  MovesOn(r)
    <2>1. CASE Keeps(q) \/ Strips(q)
      BY <1>1, <1>3, <2>1, ChangesLemma DEF OnlyAt, Exists
    <2>2. CASE Removes(q)
      <3>1. PICK ph \in Phases : /\ OnlyAt(q, ph) /\ Exists(q, ph) /\ fs'[q][ph] = NoDir
                                 /\ ph \in TerminalPhases => fs[q][ph].status = "none"
        BY <1>1, <2>2, ChangesLemma
      <3>2. CASE q # r
        BY <1>3, <3>1, <3>2 DEF OnlyAt, Exists
      <3>3. CASE q = r
        <4>1. \A x \in Phases : Exists(r, x) => x = ph
          BY <1>1, <3>1, <3>3 DEF OnePhase
        <4>2. \A x \in Phases : ~fs'[r][x].exists
          BY <3>1, <3>3, <4>1, NoDirLemma DEF OnlyAt, Exists
        <4> QED BY <1>1, <3>1, <3>3, <4>1, <4>2 DEF MovesOn
      <3> QED BY <3>2, <3>3
    <2>3. CASE Arrives(q)
      <3>1. /\ OnlyAt(q, "incoming") /\ \A x \in Phases : ~Exists(q, x)
        BY <1>1, <2>3, ChangesLemma DEF Arrives
      <3> QED BY <1>3, <3>1 DEF OnlyAt, Exists
    <2>4. CASE Readies(q)
      <3>1. /\ ~Exists(q, "ready") /\ Exists(q, "incoming")
            /\ \A s \in Runs, x \in Phases :
                  s # q \/ x \notin {"incoming", "ready"} => fs'[s][x] = fs[s][x]
        BY <1>1, <2>4, ChangesLemma
      <3>2. \A x \in Phases \ {"incoming"} : Exists(r, x) => fs'[r][x].exists
        BY <3>1 DEF Exists
      <3> QED BY <1>1, <1>2, <3>2 DEF MovesOn
    <2> QED BY <1>5, <2>1, <2>2, <2>3, <2>4 DEF Changes
  <1>6. CASE Rests
    BY <1>3, <1>6 DEF Rests, Exists
  <1> QED BY <1>1, <1>4, <1>5, <1>6, StepKinds

\* What is noted of a call under way.
WhereAsked == \A o \in Askers, r \in Runs : ask[o].run = r => Where(ask[o].run) = Where(r)

LEMMA WhereAskedLemma == WhereAsked /\ WhereAsked'
  <1>1. WhereAsked
    BY DEF WhereAsked
  <1> QED BY <1>1, PTL

LEMMA NotedLemma ==
    ASSUME TruthsNoted, NEW o \in Askers, NEW r \in Runs, ask'[o].run = r,
           ask'[o].pc \notin {"idle", "told"}
    PROVE  truths'[o] = truths[o] \cup {Where(r)'}
  <1>1. truths'[o] = truths[o] \cup {Where(ask[o].run)'}
    BY DEF TruthsNoted
  <1>2. Where(ask[o].run)' = Where(r)'
    BY WhereAskedLemma DEF WhereAsked
  <1> QED BY <1>1, <1>2

\* A call that does nothing in a step stays sound.
LEMMA AskWaits ==
    ASSUME OnePhase, OnePhase', NEW o \in Askers, NEW r \in Runs, ask[o].run = r, MovesOn(r),
           AskSound(o), ask'[o] = ask[o], TruthsNoted
    PROVE  AskSound(o)'
  <1> DEFINE step == ask[o].pc
  <1> SUFFICES ASSUME step \notin {"idle", "told"}
               PROVE  /\ Where(r)' \in truths'[o]
                      /\ step \in {"ready", "processing", "done", "failed"} =>
                             \/ "not_found" \in truths'[o]
                             \/ \E ph \in Ahead(step) : fs'[r][ph].exists
                      /\ step \in {"probe", "release"} => "processing" \in truths'[o]
                      /\ step = "done_status" =>
                             fs'[r]["done"].exists \/ "corrupt" \in truths'[o]
                      /\ step = "failed_status" =>
                             fs'[r]["failed"].exists \/ "corrupt" \in truths'[o]
    <2>1. Where(ask[o].run)' = Where(r)'
      BY WhereAskedLemma DEF WhereAsked
    <2> QED BY <2>1 DEF AskSound, Exists
  <1>1. truths'[o] = truths[o] \cup {Where(r)'}
    BY NotedLemma
  <1>2. /\ Where(r) \in truths[o]
        /\ step \in {"ready", "processing", "done", "failed"} =>
               "not_found" \in truths[o] \/ \E ph \in Ahead(step) : Exists(r, ph)
        /\ step \in {"probe", "release"} => "processing" \in truths[o]
        /\ step = "done_status" => Exists(r, "done") \/ "corrupt" \in truths[o]
        /\ step = "failed_status" => Exists(r, "failed") \/ "corrupt" \in truths[o]
    BY DEF AskSound
  <1>3. /\ (\A ph \in Phases : ~fs'[r][ph].exists) => Where(r)' = "not_found"
        /\ \A ph \in TerminalPhases :
              Exists(r, ph) /\ fs[r][ph].status = "none" => Where(r) = "corrupt"
    <2>1. Looked(r) /\ Looked(r)'
      BY LookedLemma, LookedNext DEF AllLooked
    <2>2. ~OtherVersion("none") /\ ~Readable("none")
      BY DEF OtherVersion, Readable, PublishedStatus
    <2> QED BY <2>1, <2>2 DEF Looked, Exists
  <1>4. ASSUME step \in {"ready", "processing", "done", "failed"},
               NEW ph \in Ahead(step), Exists(r, ph)
        PROVE  "not_found" \in truths'[o] \/ \E y \in Ahead(step) : fs'[r][y].exists
    <2>1. step \in Phases \ {"incoming"}
      BY <1>4 DEF Phases
    <2>2. ph \in Phases \ {"incoming"} /\ Ahead(ph) \subseteq Ahead(step)
      BY <1>4, <2>1, AheadLemma
    <2>3. (\E y \in Ahead(ph) : fs'[r][y].exists) \/ \A y \in Phases : ~fs'[r][y].exists
      BY <1>4, <2>2 DEF MovesOn
    <2> QED BY <1>1, <1>3, <2>2, <2>3
  <1>5. ASSUME NEW ph \in TerminalPhases, Exists(r, ph)
        PROVE  fs'[r][ph].exists \/ "corrupt" \in truths'[o]
    BY <1>1, <1>2, <1>3, <1>5 DEF MovesOn
  <1>6. "done" \in TerminalPhases /\ "failed" \in TerminalPhases
    BY DEF TerminalPhases
  <1> QED BY <1>1, <1>2, <1>4, <1>5, <1>6

\* A call that is made, or takes a step, is sound afterwards, and its answer was true.
LEMMA AskActs ==
    ASSUME RunStateTypeOK, AbsentEmpty, OnePhase, NEW o \in Askers, AskSound(o),
           AskStep(o) \/ \E q \in Runs : AskRunState(o, q),
           UNCHANGED fs, TruthsNoted
    PROVE  /\ AskSound(o)'
           /\ ask[o].pc # "told" /\ ask'[o].pc = "told" => ask'[o].answer \in truths[o]
  <1>1. /\ ask \in [Askers -> Asks] /\ ask[o] \in Asks
        /\ ask[o].run \in Runs
    BY DEF RunStateTypeOK, Asks
  <1>2. ASSUME NEW step, AskGoto(o, step)
        PROVE  ask'[o].pc = step /\ ask'[o].run = ask[o].run
    BY <1>1, <1>2 DEF AskGoto, Asks
  <1>3. ASSUME NEW a, Answer(o, a)
        PROVE  ask'[o].pc = "told" /\ ask'[o].answer = a /\ AskSound(o)'
    <2>1. ask'[o].pc = "told" /\ ask'[o].answer = a
      BY <1>1, <1>3 DEF Answer, Asks
    <2> QED BY <2>1 DEF AskSound
  <1>4. PICK r \in Runs : r = ask[o].run
    BY <1>1
  <1>5. \A q \in Runs : Where(q)' = Where(q)
    BY DEF Where, Exists
  <1>6. /\ Looked(r)
        /\ \A ph \in Phases : Exists(r, ph) \/ fs[r][ph].status = "none"
        /\ \A status : Readable(status) => ~OtherVersion(status)
        /\ ~OtherVersion("none") /\ ~Readable("none")
        /\ Phases = {"incoming", "ready", "processing", "done", "failed"}
        /\ TerminalPhases = {"done", "failed"}
    BY LookedLemma, NoDirLemma DEF AbsentEmpty, NoDir, Contents, OtherVersion, Readable,
       PublishedStatus, Phases, TerminalPhases
  \* Where the run is now, and what is known by what the call has done so far.
  <1>7. ask[o].pc \notin {"idle", "told"} =>
            /\ Where(r) \in truths[o]
            /\ ask[o].pc \in {"ready", "processing", "done", "failed"} =>
                   "not_found" \in truths[o] \/ \E ph \in Ahead(ask[o].pc) : Exists(r, ph)
            /\ ask[o].pc \in {"probe", "release"} => "processing" \in truths[o]
            /\ ask[o].pc = "done_status" => Exists(r, "done") \/ "corrupt" \in truths[o]
            /\ ask[o].pc = "failed_status" => Exists(r, "failed") \/ "corrupt" \in truths[o]
    BY <1>4 DEF AskSound
  \* It goes on to a step of which what the invariant asks for is true.
  <1>8. ASSUME NEW step \in AskSteps \ {"idle", "told"}, AskGoto(o, step),
               ask[o].pc \notin {"idle", "told"},
               step \in {"ready", "processing", "done", "failed"} =>
                   "not_found" \in truths[o] \/ \E ph \in Ahead(step) : Exists(r, ph),
               step \in {"probe", "release"} => "processing" \in truths[o],
               step = "done_status" => Exists(r, "done"),
               step = "failed_status" => Exists(r, "failed")
        PROVE  AskSound(o)' /\ ask'[o].pc # "told"
    <2>1. ask'[o].pc = step /\ ask'[o].run = r
      BY <1>2, <1>4, <1>8
    <2>2. truths'[o] = truths[o] \cup {Where(r)}
      BY <1>5, <2>1, NotedLemma
    <2>3. Where(ask[o].run)' = Where(r)
      BY <1>5, <2>1, WhereAskedLemma DEF WhereAsked
    <2>4. \A ph \in Phases : Exists(r, ph)' <=> Exists(r, ph)
      BY DEF Exists
    <2> QED BY <1>8, <2>1, <2>2, <2>3 DEF AskSound, Exists
  <1>9. CASE \E q \in Runs : AskRunState(o, q)
    <2>1. PICK q \in Runs : AskRunState(o, q)
      BY <1>9
    <2>2. ask'[o].pc = "incoming" /\ ask'[o].run = q
      BY <1>1, <2>1 DEF AskRunState, Asks
    <2>3. Where(q)' \in truths'[o]
      BY <2>2, NotedLemma
    <2>4. Where(ask[o].run)' = Where(q)'
      BY <2>2, WhereAskedLemma DEF WhereAsked
    <2> QED BY <2>2, <2>3, <2>4 DEF AskSound
  <1>10. CASE LookQueued(o)
    <2>1. PICK ph \in {"incoming", "ready", "processing"} : ph = ask[o].pc
      BY <1>10 DEF LookQueued
    <2>2. CASE ~Exists(r, ph)
      <3>1. AskGoto(o, NextLook[ph])
        BY <1>4, <1>10, <2>1, <2>2 DEF LookQueued
      <3>2. CASE ph = "incoming"
        <4>1. "not_found" \in truths[o] \/ \E x \in Ahead("ready") : Exists(r, x)
          BY <1>6, <1>7, <2>1, <2>2, <3>2, AheadLemma DEF Looked
        <4>2. AskGoto(o, "ready")
          BY <3>1, <3>2 DEF NextLook
        <4> QED BY <1>8, <2>1, <4>1, <4>2 DEF AskSteps
      <3>3. CASE ph = "ready"
        <4>1. "not_found" \in truths[o] \/ \E x \in Ahead("processing") : Exists(r, x)
          BY <1>7, <2>1, <2>2, <3>3, AheadLemma
        <4>2. AskGoto(o, "processing")
          BY <3>1, <3>3 DEF NextLook
        <4> QED BY <1>8, <2>1, <4>1, <4>2 DEF AskSteps
      <3>4. CASE ph = "processing"
        <4>1. "not_found" \in truths[o] \/ \E x \in Ahead("done") : Exists(r, x)
          BY <1>7, <2>1, <2>2, <3>4, AheadLemma
        <4>2. AskGoto(o, "done")
          BY <3>1, <3>4 DEF NextLook
        <4> QED BY <1>8, <2>1, <4>1, <4>2 DEF AskSteps
      <3> QED BY <3>2, <3>3, <3>4
    <2>3. CASE Exists(r, ph)
      <3>1. ph \in truths[o]
        BY <1>6, <1>7, <2>1, <2>3 DEF Looked
      <3>2. CASE ph = "processing"
        <4>1. AskGoto(o, "probe")
          BY <1>4, <1>10, <2>1, <2>3, <3>2 DEF LookQueued
        <4> QED BY <1>8, <2>1, <3>1, <3>2, <4>1 DEF AskSteps
      <3>3. CASE ph # "processing"
        BY <1>3, <1>4, <1>10, <2>1, <2>3, <3>1, <3>3 DEF LookQueued
      <3> QED BY <3>2, <3>3
    <2> QED BY <2>2, <2>3
  <1>11. CASE ProbeProcessor(o)
    <2>1. "processing" \in truths[o] /\ ask[o].pc = "probe"
      BY <1>7, <1>11 DEF ProbeProcessor
    <2>2. Answer(o, "processing") \/ AskGoto(o, "release")
      BY <1>11 DEF ProbeProcessor
    <2>3. CASE Answer(o, "processing")
      BY <1>3, <2>1, <2>3
    <2>4. CASE AskGoto(o, "release")
      BY <1>8, <2>1, <2>4 DEF AskSteps
    <2> QED BY <2>2, <2>3, <2>4
  <1>12. CASE ProbeReleased(o)
    BY <1>3, <1>7, <1>12 DEF ProbeReleased
  <1>13. CASE LookTerminal(o)
    <2>1. PICK ph \in TerminalPhases : ph = ask[o].pc
      BY <1>13 DEF LookTerminal
    <2>2. CASE Exists(r, ph)
      <3>1. AskGoto(o, IF ph = "done" THEN "done_status" ELSE "failed_status")
        BY <1>4, <1>13, <2>1, <2>2 DEF LookTerminal
      <3>2. CASE ph = "done"
        BY <1>8, <2>1, <2>2, <3>1, <3>2 DEF AskSteps
      <3>3. CASE ph = "failed"
        BY <1>8, <2>1, <2>2, <3>1, <3>3 DEF AskSteps
      <3> QED BY <1>6, <3>2, <3>3
    <2>3. CASE ~Exists(r, ph) /\ ph = "done"
      <3>1. "not_found" \in truths[o] \/ \E x \in Ahead("failed") : Exists(r, x)
        BY <1>7, <2>1, <2>3, AheadLemma
      <3>2. AskGoto(o, "failed")
        BY <1>4, <1>13, <2>1, <2>3 DEF LookTerminal, NextLook
      <3> QED BY <1>8, <2>1, <2>3, <3>1, <3>2 DEF AskSteps
    <2>4. CASE ~Exists(r, ph) /\ ph = "failed"
      <3>1. "not_found" \in truths[o]
        BY <1>7, <2>1, <2>4, AheadLemma
      <3>2. Answer(o, "not_found")
        BY <1>4, <1>13, <2>1, <2>4 DEF LookTerminal
      <3> QED BY <1>3, <3>1, <3>2
    <2> QED BY <1>6, <2>2, <2>3, <2>4
  <1>14. CASE ReadStatus(o)
    <2>1. PICK ph \in TerminalPhases : ask[o].pc = IF ph = "done" THEN "done_status"
                                                   ELSE "failed_status"
      BY <1>6, <1>14 DEF ReadStatus
    <2> DEFINE status == fs[r][ph].status
    <2>2. \/ Readable(status) /\ Answer(o, ph)
          \/ OtherVersion(status) /\ ph = "done" /\ AskGoto(o, "failed")
          \/ OtherVersion(status) /\ ph = "failed" /\ Answer(o, "not_found")
          \/ ~Readable(status) /\ ~OtherVersion(status) /\ Answer(o, "corrupt")
      BY <1>4, <1>6, <1>14, <2>1 DEF ReadStatus, NextLook
    <2>3. CASE Exists(r, ph)
      <3>1. (IF OtherVersion(status) THEN "not_found"
             ELSE IF Readable(status) THEN ph ELSE "corrupt") \in truths[o]
        BY <1>6, <1>7, <2>1, <2>3 DEF Looked
      <3>2. CASE Readable(status) /\ Answer(o, ph)
        BY <1>3, <1>6, <3>1, <3>2
      <3>3. CASE OtherVersion(status) /\ ph = "done" /\ AskGoto(o, "failed")
        BY <1>8, <2>1, <3>1, <3>3 DEF AskSteps
      <3>4. CASE OtherVersion(status) /\ ph = "failed" /\ Answer(o, "not_found")
        BY <1>3, <3>1, <3>4
      <3>5. CASE ~Readable(status) /\ ~OtherVersion(status) /\ Answer(o, "corrupt")
        BY <1>3, <3>1, <3>5
      <3> QED BY <2>2, <3>2, <3>3, <3>4, <3>5
    <2>4. CASE ~Exists(r, ph)
      <3>1. status = "none"
        BY <1>6, <2>4
      <3>2. "corrupt" \in truths[o]
        BY <1>6, <1>7, <2>1, <2>4
      <3> QED BY <1>3, <1>6, <2>2, <3>1, <3>2
    <2> QED BY <2>3, <2>4
  <1> QED BY <1>9, <1>10, <1>11, <1>12, <1>13, <1>14 DEF AskStep

\* Every step keeps all calls sound, and what is answered in it was true.
LEMMA AsksStep ==
    ASSUME ServerFacts, DeliveredInv, PlacesInv, MutualExclusion, AsksInv, [ServerNext]_serverVars
    PROVE  /\ AsksInv'
           /\ \A o \in Askers :
                 ask[o].pc # "told" /\ ask'[o].pc = "told" => ask'[o].answer \in truths[o]
  <1>1. /\ RunStateTypeOK /\ AbsentEmpty /\ OnePhase /\ OnePhase'
        /\ \A o \in Askers : ask[o].run \in Runs
    BY ContractStep DEF ServerFacts, ServerTypeOK, PlacesInv, RunStateTypeOK
  <1>2. SUFFICES ASSUME NEW o \in Askers
                 PROVE  /\ AskSound(o)'
                        /\ ask[o].pc # "told" /\ ask'[o].pc = "told" =>
                               ask'[o].answer \in truths[o]
    BY DEF AsksInv
  <1>3. AskSound(o)
    BY DEF AsksInv
  <1>4. CASE UNCHANGED serverVars
    <2>1. ask' = ask /\ truths' = truths /\ fs' = fs
      BY <1>4 DEF serverVars, askVars, vars
    <2>2. AskSound(o)'
      BY <1>3, <2>1 DEF AskSound, Where, Exists
    <2> QED BY <2>1, <2>2
  <1>5. CASE TruthsNoted /\ ask'[o] = ask[o]
    <2>1. PICK r \in Runs : r = ask[o].run
      BY <1>1
    <2>2. MovesOn(r)
      BY MovesOnStep
    <2> QED BY <1>1, <1>3, <1>5, <2>1, <2>2, AskWaits
  <1>6. CASE TruthsNoted /\ RunStateActs
    <2>1. PICK q \in Askers : AskStep(q) \/ \E r \in Runs : AskRunState(q, r)
      BY <1>6 DEF RunStateActs
    <2>2. q # o => ask'[o] = ask[o]
      BY <1>1, <2>1 DEF AskStep, AskRunState, LookQueued, ProbeProcessor, ProbeReleased,
         LookTerminal, ReadStatus, AskGoto, Answer, RunStateTypeOK
    <2>3. UNCHANGED fs
      BY <1>6 DEF RunStateActs
    <2> QED BY <1>1, <1>3, <1>5, <1>6, <2>1, <2>2, <2>3, AskActs
  <1> QED BY <1>4, <1>5, <1>6 DEF ServerNext, ProcessorActs, IntakeActs, CollectorActs, TimePasses

\* What run-state answers was the case at some moment of the call, with handlers and
\* processors moving the run and any number of collections deleting it meanwhile, as long as
\* the run is never in two hands.
THEOREM AnswersWereTrue == ServerSpec /\ []MutualExclusion => AnswerWasTrue
  <1>1. ServerInit => DeliveredInv /\ PlacesInv /\ AsksInv
    <2> SUFFICES ASSUME ServerInit PROVE DeliveredInv /\ PlacesInv /\ AsksInv
      OBVIOUS
    <2>1. DeliveredInv
      BY FoundLemma DEF DeliveredInv, AbsentEmpty, CreatesInv, ImportInv, DoneMeansImported
    <2>2. \A o \in Askers : ask[o].pc = "idle"
      BY DEF ServerInit, RunStateInit
    <2>3. AsksInv
      BY <2>2 DEF AsksInv, AskSound
    <2> QED BY <2>1, <2>3, ContractInit
  <1>2. ServerFacts /\ DeliveredInv /\ PlacesInv /\ MutualExclusion /\ AsksInv
           /\ [ServerNext]_serverVars => PlacesInv' /\ AsksInv'
    BY AsksStep, ContractStep
  <1>3. ServerFacts /\ DeliveredInv /\ PlacesInv /\ MutualExclusion /\ AsksInv
           /\ [ServerNext]_serverVars =>
        [\A o \in Askers :
            ask[o].pc # "told" /\ ask'[o].pc = "told" => ask'[o].answer \in truths[o]]_serverVars
    BY AsksStep
  <1> QED BY <1>1, <1>2, <1>3, DeliveredStep, ServerFactsHold, PTL DEF ServerSpec, AnswerWasTrue

----------------------------------------------------------------------------
(* How long a verdict stays *)

\* Only collections change a status in a terminal phase, and they only remove it.
LEMMA EndsKeep ==
    ASSUME ServerFacts, AbsentEmpty, [ServerNext]_serverVars,
           NEW r \in Runs, NEW ph \in TerminalPhases, Exists(r, ph)
    PROVE  \/ fs'[r][ph].exists /\ fs'[r][ph].status = fs[r][ph].status
           \/ /\ CollectorActs
              /\ fs'[r][ph].exists => fs'[r][ph].status \in {fs[r][ph].status, "none"}
  <1>1. /\ TypeOK /\ IntakeTypeOK /\ CollectorTypeOK
        /\ ph \in Phases \ {"incoming"} /\ ph \notin QueuePhases /\ ph # "ready"
    BY DEF ServerFacts, ServerTypeOK, TerminalPhases, QueuePhases, Phases
  <1>2. CASE UNCHANGED fs
    BY <1>2 DEF Exists
  <1>3. CASE ProcessorActs
    <2>1. ASSUME NEW p \in Procs, ProcStep(p)
          PROVE  fs'[r][ph].exists /\ fs'[r][ph].status = fs[r][ph].status
      <3>1. /\ OthersUnchanged(p)
            /\ (\A x \in Phases : Unchanged(run[p], x)) \/ EditsOne(p) \/ MovesOne(p)
        BY <1>1, <2>1, DirEffect
      <3>2. CASE Unchanged(r, ph)
        BY <3>2 DEF Unchanged, Exists
      <3>3. CASE r = run[p] /\ EditsOne(p)
        BY <1>1, <3>2, <3>3 DEF EditsOne, Edited
      <3>4. CASE r = run[p] /\ MovesOne(p)
        <4>1. PICK a, b \in Phases : /\ Moved(p, a, b)
                                     /\ \A x \in Phases \ {a, b} : Unchanged(run[p], x)
          BY <3>4 DEF MovesOne
        <4>2. ph # a /\ ph # b
          BY <1>1, <3>4, <4>1 DEF Moved
        <4> QED BY <1>1, <3>2, <3>4, <4>1, <4>2
      <3> QED BY <1>1, <3>1, <3>2, <3>3, <3>4 DEF OthersUnchanged
    <2> QED BY <1>2, <1>3, <2>1, ProcessorsStep
  <1>4. CASE IntakeActs
    <2>1. fs'[r][ph] = fs[r][ph]
      BY <1>1, <1>4, IntakeFs DEF IntakeActs
    <2> QED BY <2>1 DEF Exists
  <1>5. ASSUME NEW q \in Runs, Keeps(q)
        PROVE  fs'[r][ph].exists /\ fs'[r][ph].status = fs[r][ph].status
    BY <1>1, <1>5, ChangesLemma DEF OnlyAt, Exists
  <1>6. CASE CollectorActs
    <2>1. PICK g \in Collectors : PassStep(g)
      BY <1>6 DEF CollectorActs, PassStep
    <2>2. gc[g].run \in Runs
      BY <1>1, PassLemma
    <2>3. UNCHANGED fs \/ Keeps(gc[g].run) \/ Strips(gc[g].run) \/ Removes(gc[g].run)
      BY <1>1, <2>1, GcChanges
    <2>4. PICK q \in Runs : q = gc[g].run
      BY <2>2
    <2>5. CASE Strips(q)
      BY <1>1, <1>6, <2>5, ChangesLemma DEF OnlyAt, Exists
    <2>6. CASE Removes(q)
      BY <1>1, <1>6, <2>6, ChangesLemma, NoDirLemma DEF OnlyAt, Exists
    <2> QED BY <1>2, <1>5, <2>3, <2>4, <2>5, <2>6
  <1>7. CASE RunStateActs
    BY <1>2, <1>7 DEF RunStateActs
  <1>8. ASSUME NEW q \in Runs, TimePasses(q)
        PROVE  fs'[r][ph].exists /\ fs'[r][ph].status = fs[r][ph].status
    BY <1>1, <1>2, <1>5, <1>8, TimeChanges DEF Exists
  <1>9. CASE UNCHANGED serverVars
    BY <1>2, <1>9 DEF serverVars, vars
  <1> QED BY <1>3, <1>4, <1>6, <1>7, <1>8, <1>9 DEF ServerNext

\* A status that is old is so until another one is published.
LEMMA OldStays ==
    ASSUME [ServerNext]_serverVars, NEW r \in Runs, r \in statusOld, ~StatusPublished(r)
    PROVE  r \in statusOld'
  <1>1. CASE StatusesRenewed
    BY <1>1 DEF StatusesRenewed
  <1>2. CASE statusOld' = statusOld
    BY <1>2
  <1>3. CASE CollectorActs
    BY <1>2, <1>3 DEF CollectorActs, GcStart, GcStep, GcNext, GcVisit, GcVisitProcessing, GcProbe,
       GcRelease, GcOpen, GcRemove, GcRmdir, GcLeaves
  <1>4. CASE RunStateActs
    BY <1>2, <1>4 DEF RunStateActs, gcVars
  <1>5. ASSUME NEW q \in Runs, TimePasses(q)
        PROVE  r \in statusOld'
    BY <1>5 DEF TimePasses, LeaseLapses, DirAges, StatusAges, gcVars
  <1>6. CASE UNCHANGED serverVars
    BY <1>2, <1>6 DEF serverVars, gcVars
  <1> QED BY <1>1, <1>3, <1>4, <1>5, <1>6 DEF ServerNext, ProcessorActs, IntakeActs

\* What has ended goes, if it goes, by losing its status and being collected.
LEMMA EndedMoves ==
    ASSUME [Contract!Next]_<<Place, imported>>, NEW r \in Runs
    PROVE  /\ Place[r] = "collected" => Place'[r] = "collected"
           /\ Place[r] \in Contract!Verdicts \cup {"corrupt", "collected"} =>
                  Place'[r] \in Contract!Verdicts \cup {"corrupt", "collected"}
  <1>1. ASSUME NEW q \in Runs, NEW a, NEW b, Contract!Move(q, a, b)
        PROVE  IF q = r THEN Place[r] \in a /\ Place'[r] = b ELSE Place'[r] = Place[r]
    BY <1>1, PlaceMap DEF PlaceIsMap, Contract!Move
  <1>2. CASE Place' = Place
    BY <1>2
  <1>3. ASSUME NEW q \in Runs,
               \/ Contract!Upload(q) \/ Contract!Expire(q) \/ Contract!Accept(q) \/ Contract!Claim(q)
        PROVE  \/ Place'[r] = Place[r]
               \/ Place[r] \notin Contract!Verdicts \cup {"corrupt", "collected"}
    BY <1>1, <1>3 DEF Contract!Upload, Contract!Expire, Contract!Accept, Contract!Claim,
       Contract!Verdicts
  <1>4. ASSUME NEW q \in Runs, Contract!Import(q)
        PROVE  Place' = Place
    BY <1>4 DEF Contract!Import
  <1>5. ASSUME NEW q \in Runs, NEW v \in Contract!Verdicts \cup {"corrupt"}, Contract!End(q, v)
        PROVE  \/ Place'[r] = Place[r]
               \/ Place[r] \notin Contract!Verdicts \cup {"corrupt", "collected"}
    BY <1>1, <1>5 DEF Contract!End, Contract!Verdicts
  <1>6. ASSUME NEW q \in Runs, Contract!LoseStatus(q)
        PROVE  \/ Place'[r] = Place[r]
               \/ Place[r] \in Contract!Verdicts /\ Place'[r] = "corrupt"
    BY <1>1, <1>6 DEF Contract!LoseStatus
  <1>7. ASSUME NEW q \in Runs, Contract!Collect(q)
        PROVE  Place'[r] = Place[r] \/ Place'[r] = "collected"
    BY <1>1, <1>7 DEF Contract!Collect
  <1>8. "collected" \notin Contract!Verdicts
    BY DEF Contract!Verdicts
  <1> QED BY <1>2, <1>3, <1>4, <1>5, <1>6, <1>7, <1>8 DEF Contract!Next

\* So it stays the end of a run, and an old verdict an old verdict.
LEMMA EndedStays ==
    ASSUME ServerFacts, DeliveredInv, PlacesInv, MutualExclusion, [ServerNext]_serverVars,
           NEW r \in Runs, NEW ph \in TerminalPhases, Ended(r, ph)
    PROVE  /\ Ended(r, ph)'
           /\ fs'[r][ph].exists => Exists(r, ph)
           /\ \A x \in Phases \ {ph} : ~fs'[r][x].exists
  <1>1. /\ TypeOK /\ AbsentEmpty /\ OnePhase /\ OnePhase' /\ AbsentEmpty'
        /\ MovesOn(r) /\ [Contract!Next]_<<Place, imported>>
        /\ ph \in Phases
    BY ContractStep, MovesOnStep
       DEF ServerFacts, ServerTypeOK, DeliveredInv, PlacesInv, TerminalPhases, Phases
  <1>2. /\ Place[r] \in Contract!Verdicts \cup {"corrupt", "collected"}
        /\ \A x \in Phases \ {ph} : ~Exists(r, x)
        /\ ValidTerminal(ph, fs[r][ph].status) => r \in statusOld
    BY DEF Ended
  <1>3. Placed(r) /\ Placed(r)'
    BY <1>1, PlacedLemma, PlacedNext DEF AllPlaced
  <1>4. /\ ~ValidTerminal(ph, "none")
        /\ \A s : ValidTerminal(ph, s) => s # "none"
        /\ \A s : Verdict(s) # "collected"
        /\ NoDir.status = "none"
        /\ Phases = {"incoming", "ready", "processing"} \cup TerminalPhases
    BY DEF ValidTerminal, Verdict, PublishedStatus, NoDir, Contents, Phases, TerminalPhases
  <1>5. \/ \A x \in Phases : ~fs'[r][x].exists
        \/ Exists(r, ph) /\ fs'[r][ph].exists
    <2>1. CASE Exists(r, ph)
      BY <1>1, <2>1 DEF MovesOn
    <2>2. CASE ~Exists(r, ph)
      <3>1. \A x \in Phases : ~Exists(r, x)
        BY <1>2, <2>2
      <3>2. Place[r] = "collected"
        BY <1>2, <1>3, <3>1 DEF Placed, Contract!Verdicts
      <3>3. Place'[r] = "collected"
        BY <1>1, <3>2, EndedMoves
      <3>4. \A x \in {"incoming", "ready", "processing"} : ~fs'[r][x].exists
        BY <1>3, <3>3 DEF Placed, Exists
      <3>5. \A x \in TerminalPhases : ~fs'[r][x].exists
        BY <1>3, <1>4, <3>3 DEF Placed, Exists
      <3> QED BY <1>4, <3>4, <3>5
    <2> QED BY <2>1, <2>2
  <1>6. \A x \in Phases \ {ph} : ~fs'[r][x].exists
    BY <1>1, <1>5 DEF OnePhase, Exists
  <1>7. ASSUME ValidTerminal(ph, fs'[r][ph].status)
        PROVE  r \in statusOld'
    <2>1. fs'[r][ph].exists /\ Exists(r, ph)
      BY <1>1, <1>4, <1>5, <1>7 DEF AbsentEmpty, Exists
    <2>2. fs'[r][ph].status \in {fs[r][ph].status, "none"}
      BY <1>1, <2>1, EndsKeep
    <2>3. r \in statusOld
      BY <1>2, <1>4, <1>7, <2>2
    <2>4. ~StatusPublished(r)
      BY <1>2, <2>2 DEF StatusPublished, Exists
    <2> QED BY <2>3, <2>4, OldStays
  <1>8. Place'[r] \in Contract!Verdicts \cup {"corrupt", "collected"}
    BY <1>1, <1>2, EndedMoves
  <1>9. Ended(r, ph)'
    BY <1>6, <1>7, <1>8 DEF Ended, Exists, ValidTerminal, Contract!Verdicts
  <1> QED BY <1>1, <1>5, <1>6, <1>9

\* What a step of a pass makes of the pass itself.
PassTurn(g) ==
    \/ gc'[g].pc \in {"idle", "next", "visit"}
    \/ /\ gc'[g].run = gc[g].run /\ gc'[g].phase = gc[g].phase
       /\ \/ /\ gc'[g].pc \in {"probe", "release"}
             /\ GcPhase(g) = "processing" \/ gc[g].pc \in {"probe", "release"}
          \/ gc'[g].pc = "open" /\ gc[g].pc \in {"probe", "release"}
          \/ /\ gc'[g].pc = "open"
             /\ Exists(gc[g].run, GcPhase(g)) /\ Expired(gc[g].run, GcPhase(g))
          \/ gc'[g].pc = "remove" /\ gc[g].pc = "open" /\ gc'[g].at = GcPhase(g)
          \/ gc'[g].pc \in {"remove", "rmdir"} /\ gc[g].pc = "remove" /\ gc'[g].at = gc[g].at

LEMMA PassTurns ==
    ASSUME TypeOK, CollectorTypeOK, NEW g \in Collectors, PassStep(g)
    PROVE  PassTurn(g)
  <1>1. gc \in [Collectors -> Passes] /\ gc[g] \in Passes /\ gc[g].left \subseteq Items
    BY PassLemma
  <1>2. ASSUME NEW step, GcGoto(g, step)
        PROVE  /\ gc'[g].pc = step /\ gc'[g].run = gc[g].run /\ gc'[g].phase = gc[g].phase
               /\ gc'[g].at = gc[g].at
    BY <1>1, <1>2 DEF GcGoto, Passes
  <1>4. GcContinues(g) \/ GcFails(g) => PassTurn(g)
    BY PassesLemma DEF PassComes, PassTurn
  <1>5. CASE GcStart(g) \/ GcNext(g)
    <2>1. CASE GcStart(g)
      <3>1. gc'[g].pc = "next"
        BY <1>1, <2>1 DEF GcStart, Passes
      <3> QED BY <3>1 DEF PassTurn
    <2>2. CASE GcNext(g)
      <3>1. ASSUME NEW q, NEW s, gc' = [gc EXCEPT ![g].pc = "visit", ![g].run = q, ![g].todo = s]
            PROVE  gc'[g].pc = "visit"
        BY <1>1, <3>1 DEF Passes
      <3>2. ASSUME NEW i, NEW s, gc' = [gc EXCEPT ![g].phase = i, ![g].todo = s],
                   gc[g].pc = "next"
            PROVE  gc'[g].pc = "next"
        BY <1>1, <3>2 DEF Passes
      <3>3. gc' = [gc EXCEPT ![g] = Resting] => gc'[g].pc = "idle"
        BY <1>1, RestingLemma
      <3>4. gc'[g].pc \in {"idle", "next", "visit"}
        BY <1>1, <2>2, <3>1, <3>2, <3>3 DEF GcNext
      <3> QED BY <3>4 DEF PassTurn
    <2> QED BY <1>5, <2>1, <2>2
  <1>6. CASE GcVisit(g)
    <2>1. CASE GcGoto(g, "open") /\ Exists(gc[g].run, GcPhase(g)) /\ Expired(gc[g].run, GcPhase(g))
      BY <1>2, <2>1 DEF PassTurn
    <2> QED BY <1>4, <1>6, <2>1 DEF GcVisit
  <1>7. CASE GcVisitProcessing(g)
    <2>1. CASE gc' = [gc EXCEPT ![g].pc = "probe", ![g].old = GcDir(g).aged]
      <3>1. gc'[g].pc = "probe" /\ gc'[g].run = gc[g].run /\ gc'[g].phase = gc[g].phase
        BY <1>1, <2>1 DEF Passes
      <3> QED BY <1>7, <3>1 DEF PassTurn, GcVisitProcessing
    <2> QED BY <1>4, <1>7, <2>1 DEF GcVisitProcessing
  <1>8. CASE GcProbe(g)
    <2>1. gc[g].pc = "probe" /\ (GcGoto(g, "open") \/ GcGoto(g, "release") \/ GcContinues(g))
      BY <1>8 DEF GcProbe, Idle
    <2>2. CASE GcGoto(g, "open")
      BY <1>2, <2>1, <2>2 DEF PassTurn
    <2>3. CASE GcGoto(g, "release")
      BY <1>2, <2>1, <2>3 DEF PassTurn
    <2> QED BY <1>4, <2>1, <2>2, <2>3
  <1>9. CASE GcRelease(g)
    <2>1. gc[g].pc = "release" /\ (GcGoto(g, "open") \/ GcContinues(g))
      BY <1>9 DEF GcRelease, Idle
    <2>2. CASE GcGoto(g, "open")
      BY <1>2, <2>1, <2>2 DEF PassTurn
    <2> QED BY <1>4, <2>1, <2>2
  <1>10. CASE GcOpen(g)
    <2>1. CASE \E items : gc' = [gc EXCEPT ![g].pc = "remove", ![g].at = GcPhase(g), ![g].left = items]
      <3>1. /\ gc'[g].pc = "remove" /\ gc'[g].run = gc[g].run /\ gc'[g].phase = gc[g].phase
            /\ gc'[g].at = GcPhase(g)
        BY <1>1, <2>1 DEF Passes
      <3> QED BY <1>10, <3>1 DEF PassTurn, GcOpen
    <2> QED BY <1>4, <1>10, <2>1 DEF GcOpen
  <1>11. CASE GcRemove(g)
    <2>1. CASE \E items : gc' = [gc EXCEPT ![g].left = items]
      <3>1. /\ gc'[g].pc = gc[g].pc /\ gc'[g].run = gc[g].run /\ gc'[g].phase = gc[g].phase
            /\ gc'[g].at = gc[g].at
        BY <1>1, <2>1 DEF Passes
      <3> QED BY <1>11, <3>1 DEF PassTurn, GcRemove
    <2>2. CASE GcGoto(g, "rmdir")
      BY <1>2, <1>11, <2>2 DEF PassTurn, GcRemove
    <2> QED BY <1>4, <1>11, <2>1, <2>2 DEF GcRemove
  <1>12. CASE GcRmdir(g)
    BY <1>4, <1>12 DEF GcRmdir
  <1> QED BY <1>5, <1>6, <1>7, <1>8, <1>9, <1>10, <1>11, <1>12 DEF PassStep, GcStep

\* The pass in a slot is left as it is, but for its descriptor, or takes a step.
LEMMA PassKinds ==
    ASSUME ServerFacts, [ServerNext]_serverVars, NEW g \in Collectors
    PROVE  \/ gc'[g] = gc[g]
           \/ PassStep(g) /\ CollectorActs
           \/ /\ gc[g].pc \in {"remove", "rmdir"}
              /\ fs[gc[g].run][gc[g].at].exists /\ ~fs'[gc[g].run][gc[g].at].exists
              /\ \E ph \in Phases : fs'[gc[g].run][ph].exists
              /\ gc'[g].pc = gc[g].pc /\ gc'[g].run = gc[g].run /\ gc'[g].phase = gc[g].phase
  <1>1. /\ TypeOK /\ CollectorTypeOK
        /\ gc \in [Collectors -> Passes] /\ gc[g] \in Passes
    BY PassLemma DEF ServerFacts, ServerTypeOK
  <1>2. CASE GcFollows
    <2> DEFINE here == {ph \in Phases : fs'[gc[g].run][ph].exists /\ ~fs[gc[g].run][ph].exists}
               moves == /\ gc[g].pc \in {"remove", "rmdir"}
                        /\ fs[gc[g].run][gc[g].at].exists /\ ~fs'[gc[g].run][gc[g].at].exists
                        /\ here # {}
    <2>1. gc'[g] = IF moves THEN [gc[g] EXCEPT !.at = CHOOSE ph \in here : TRUE] ELSE gc[g]
      BY <1>2 DEF GcFollows
    <2>2. ASSUME NEW x
          PROVE  /\ [gc[g] EXCEPT !.at = x].pc = gc[g].pc
                 /\ [gc[g] EXCEPT !.at = x].run = gc[g].run
                 /\ [gc[g] EXCEPT !.at = x].phase = gc[g].phase
      BY <1>1 DEF Passes
    <2>3. PICK x : x = CHOOSE ph \in here : TRUE
      OBVIOUS
    <2>4. CASE moves
      <3>1. gc'[g] = [gc[g] EXCEPT !.at = x]
        BY <2>1, <2>3, <2>4
      <3> QED BY <2>2, <2>4, <3>1
    <2> HIDE DEF moves, here
    <2> QED BY <2>1, <2>4
  <1>3. CASE CollectorActs
    <2>1. PICK h \in Collectors : PassStep(h)
      BY <1>3 DEF CollectorActs, PassStep
    <2>2. PassComes(h, GcSteps)
      BY <1>1, <2>1, PassControl
    <2> QED BY <1>3, <2>1, <2>2 DEF PassComes
  <1>4. CASE RunStateActs
    BY <1>4 DEF RunStateActs, gcVars
  <1>5. ASSUME NEW q \in Runs, TimePasses(q)
        PROVE  gc' = gc
    BY <1>5 DEF TimePasses, LeaseLapses, DirAges, StatusAges, gcVars
  <1>6. CASE UNCHANGED serverVars
    BY <1>6 DEF serverVars, gcVars
  <1> QED BY <1>2, <1>3, <1>4, <1>5, <1>6 DEF ServerNext, ProcessorActs, IntakeActs

\* Every step keeps all passes sound.
LEMMA PassesStep ==
    ASSUME ServerFacts, DeliveredInv, PlacesInv, MutualExclusion, PassesInv, [ServerNext]_serverVars
    PROVE  PassesInv'
  <1> SUFFICES ASSUME NEW g \in Collectors PROVE PassSound(g)'
    BY DEF PassesInv
  <1>1. /\ TypeOK /\ CollectorTypeOK /\ AcceptedInv /\ AbsentEmpty /\ OnePhase
        /\ gc[g] \in Passes /\ gc[g].run \in Runs /\ GcPhase(g) \in Phases
        /\ "processing" \notin TerminalPhases
        /\ TerminalPhases \subseteq Phases
    BY PassLemma, PhasesLemma
       DEF ServerFacts, ServerTypeOK, ServerInv, DeliveredInv, PlacesInv, TerminalPhases, Phases
  <1>2. PICK r \in Runs, ph \in Phases : r = gc[g].run /\ ph = GcPhase(g)
    BY <1>1
  <1>3. /\ gc[g].pc \in {"probe", "release"} => ph = "processing"
        /\ gc[g].pc \in {"open", "remove", "rmdir"} /\ ph \in TerminalPhases =>
              (gc[g].pc \in {"remove", "rmdir"} => gc[g].at = ph) /\ Ended(r, ph)
    BY <1>2 DEF PassesInv, PassSound
  <1>4. ph \in TerminalPhases /\ Ended(r, ph) => Ended(r, ph)'
    BY EndedStays
  \* The same run and phase as before, and what is to be shown of them.
  <1>5. ASSUME gc'[g].run = r, GcPhases[gc'[g].phase] = ph,
               gc'[g].pc \in {"probe", "release"} => ph = "processing",
               gc'[g].pc \in {"open", "remove", "rmdir"} /\ ph \in TerminalPhases =>
                   (gc'[g].pc \in {"remove", "rmdir"} => gc'[g].at = ph) /\ Ended(r, ph)
        PROVE  PassSound(g)'
    <2>1. ASSUME gc'[g].pc \in {"open", "remove", "rmdir"}, ph \in TerminalPhases
          PROVE  Ended(gc[g].run, GcPhase(g))'
      <3>1. Ended(r, ph)'
        BY <1>4, <1>5, <2>1
      <3> QED BY <1>5, <3>1 DEF Ended, GcPhase, ValidTerminal, Exists, Contract!Verdicts
    <2> QED BY <1>5, <2>1 DEF PassSound, GcPhase
  <1>6. GcPhases[gc[g].phase] = ph
    BY <1>2 DEF GcPhase
  <1>7. CASE gc'[g] = gc[g]
    BY <1>2, <1>3, <1>5, <1>6, <1>7
  <1>8. ASSUME gc[g].pc \in {"remove", "rmdir"},
               fs[r][gc[g].at].exists, ~fs'[r][gc[g].at].exists,
               \E x \in Phases : fs'[r][x].exists,
               gc'[g].pc = gc[g].pc, gc'[g].run = gc[g].run, gc'[g].phase = gc[g].phase
        PROVE  PassSound(g)'
    <2>1. ph \notin TerminalPhases
      <3> SUFFICES ASSUME ph \in TerminalPhases PROVE FALSE
        OBVIOUS
      <3>1. gc[g].at = ph /\ Ended(r, ph)
        BY <1>3, <1>8
      <3>2. \A x \in Phases \ {ph} : ~fs'[r][x].exists
        BY <3>1, EndedStays
      <3> QED BY <1>8, <3>1, <3>2
    <2> QED BY <1>2, <1>5, <1>6, <1>8, <2>1
  <1>9. CASE PassStep(g) /\ CollectorActs
    <2>1. PassTurn(g)
      BY <1>1, <1>9, PassTurns
    <2>2. CASE gc'[g].pc \in {"idle", "next", "visit"}
      BY <2>2 DEF PassSound
    <2>3. ASSUME Exists(r, ph), Expired(r, ph), ph \in TerminalPhases
          PROVE  Ended(r, ph)
      <3>1. \A x \in Phases \ {ph} : ~Exists(r, x)
        BY <1>1, <2>3 DEF OnePhase
      <3>2. Place[r] = Verdict(fs[r][ph].status)
        BY <1>1, <2>3, PlacedLemma DEF Placed
      <3>3. Verdict(fs[r][ph].status) \in Contract!Verdicts \cup {"corrupt"}
        BY DEF Verdict, PublishedStatus, Contract!Verdicts
      <3>4. ValidTerminal(ph, fs[r][ph].status) => r \in statusOld
        BY <2>3 DEF Expired, TerminalPhases
      <3> QED BY <3>1, <3>2, <3>3, <3>4 DEF Ended
    <2>4. CASE ~(gc'[g].pc \in {"idle", "next", "visit"})
      <3>1. gc'[g].run = r /\ gc'[g].phase = gc[g].phase
        BY <1>2, <2>1, <2>4 DEF PassTurn
      <3>2. gc'[g].pc \in {"probe", "release"} => ph = "processing"
        BY <1>2, <1>3, <2>1, <2>4 DEF PassTurn
      <3>3. gc'[g].pc \in {"open", "remove", "rmdir"} /\ ph \in TerminalPhases =>
                (gc'[g].pc \in {"remove", "rmdir"} => gc'[g].at = ph) /\ Ended(r, ph)
        BY <1>1, <1>2, <1>3, <2>1, <2>3, <2>4 DEF PassTurn
      <3> QED BY <1>5, <1>6, <3>1, <3>2, <3>3
    <2> QED BY <2>2, <2>4
  <1> QED BY <1>2, <1>7, <1>8, <1>9, PassKinds

\* What a step takes from a verdict, a pass takes that may.
LEMMA VerdictStep ==
    ASSUME ServerFacts, DeliveredInv, PlacesInv, MutualExclusion, PassesInv,
           [ServerNext]_serverVars, NEW r \in Runs, NEW ph \in TerminalPhases,
           Exists(r, ph), ValidTerminal(ph, fs[r][ph].status),
           fs'[r][ph].status # fs[r][ph].status
    PROVE  \/ r \in statusOld
           \/ \E g \in Collectors : gc[g].run = r /\ GcPhase(g) \notin TerminalPhases
  <1>1. /\ TypeOK /\ CollectorTypeOK /\ AbsentEmpty
        /\ fs \in FsType /\ ph \in Phases /\ NoDir.status = "none"
        /\ ~ValidTerminal(ph, "none")
    BY DEF ServerFacts, ServerTypeOK, DeliveredInv, TypeOK, WorkDirTypeOK, FsType,
       TerminalPhases, Phases, NoDir, Contents, ValidTerminal
  <1>2. CollectorActs
    BY <1>1, EndsKeep
  <1>3. PICK g \in Collectors : PassStep(g)
    BY <1>2 DEF CollectorActs, PassStep
  <1>4. /\ gc[g].run \in Runs /\ GcPhase(g) \in Phases /\ gc[g].at \in Phases
        /\ gc[g].left \subseteq Items
        /\ \A x \in Phases : fs[gc[g].run][x] \in Dirs
    BY <1>1, PassLemma
  <1>5. ASSUME NEW x \in Phases, NEW d \in Dirs, fs' = Put(gc[g].run, x, d),
               d.status = fs[gc[g].run][x].status
        PROVE  FALSE
    BY <1>1, <1>4, <1>5, PutLemma
  <1>6. CASE GcVisit(g)
    <2>1. CASE fs' = Put(gc[g].run, "done", Swept(fs[gc[g].run]["done"]))
      <3>1. "done" \in Phases
        BY DEF Phases
      <3>2. /\ Swept(fs[gc[g].run]["done"]) \in Dirs
            /\ Swept(fs[gc[g].run]["done"]).status = fs[gc[g].run]["done"].status
        BY <1>4, <3>1, GcEdits, GcStatus
      <3> QED BY <1>5, <2>1, <3>1, <3>2
    <2> QED BY <1>6, <2>1 DEF GcVisit
  <1>7. CASE GcRemove(g)
    <2>1. PICK item \in gc[g].left :
              fs' = Put(gc[g].run, gc[g].at, Without(fs[gc[g].run][gc[g].at], item))
      BY <1>7 DEF GcRemove
    <2>2. Without(fs[gc[g].run][gc[g].at], item) \in Dirs
      BY <1>4, GcEdits
    <2>3. r = gc[g].run /\ ph = gc[g].at
      <3> DEFINE e == Without(fs[gc[g].run][gc[g].at], item)
      <3>1. fs' = Put(gc[g].run, gc[g].at, e) /\ e \in Dirs
        BY <2>1, <2>2
      <3> HIDE DEF e
      <3>2. \A q \in Runs, x \in Phases :
               fs'[q][x] = IF q = gc[g].run /\ x = gc[g].at THEN e ELSE fs[q][x]
        BY <1>1, <1>4, <3>1, PutLemma
      <3>3. fs'[r][ph] = IF r = gc[g].run /\ ph = gc[g].at THEN e ELSE fs[r][ph]
        BY <1>1, <3>2
      <3> QED BY <3>3
    <2>4. CASE GcPhase(g) \in TerminalPhases
      <3>1. gc[g].at = GcPhase(g) /\ Ended(gc[g].run, GcPhase(g))
        BY <1>7, <2>4 DEF PassesInv, PassSound, GcRemove
      <3>2. Ended(r, ph)
        BY <2>3, <3>1
      <3> QED BY <3>2 DEF Ended
    <2> QED BY <2>3, <2>4
  <1>8. CASE GcRmdir(g)
    <2>1. /\ \A item \in Items : ~Has(GcDir(g), item)
          /\ fs' = Put(gc[g].run, GcPhase(g), NoDir)
      BY <1>8 DEF GcRmdir
    <2>2. r = gc[g].run /\ ph = GcPhase(g)
      BY <1>1, <1>4, <2>1, PutLemma, NoDirLemma
    <2>3. fs[r][ph].status = "none"
      BY <2>1, <2>2 DEF Items, Has, GcDir
    <2> QED BY <1>1, <2>3
  <1>9. CASE UNCHANGED fs
    BY <1>9
  <1> QED BY <1>3, <1>6, <1>7, <1>8, <1>9 DEF PassStep, GcStep, GcStart, GcNext, GcVisitProcessing,
             GcProbe, GcRelease, GcOpen

\* A verdict can be read until its status is older than the retention, whatever passes,
\* processors and handlers do, unless a pass was at the run before it ended; as long as a run
\* is never in two hands.
THEOREM VerdictsAreObservable == ServerSpec /\ []MutualExclusion => VerdictObservable
  <1>1. ServerInit => DeliveredInv /\ PlacesInv /\ PassesInv
    <2> SUFFICES ASSUME ServerInit PROVE DeliveredInv /\ PlacesInv /\ PassesInv
      OBVIOUS
    <2>1. DeliveredInv
      BY FoundLemma DEF DeliveredInv, AbsentEmpty, CreatesInv, ImportInv, DoneMeansImported
    <2>2. \A g \in Collectors : gc[g].pc = "idle"
      BY RestingLemma DEF ServerInit, CollectorInit
    <2>3. PassesInv
      BY <2>2 DEF PassesInv, PassSound
    <2> QED BY <2>1, <2>3, ContractInit
  <1>2. ServerFacts /\ DeliveredInv /\ PlacesInv /\ MutualExclusion /\ PassesInv
           /\ [ServerNext]_serverVars => PlacesInv' /\ PassesInv'
    BY PassesStep, ContractStep
  <1>3. ServerFacts /\ DeliveredInv /\ PlacesInv /\ MutualExclusion /\ PassesInv
           /\ [ServerNext]_serverVars =>
        [\A r \in Runs, ph \in TerminalPhases :
            /\ Exists(r, ph) /\ ValidTerminal(ph, fs[r][ph].status)
            /\ fs'[r][ph].status # fs[r][ph].status
            => \/ r \in statusOld
               \/ \E g \in Collectors : gc[g].run = r /\ GcPhase(g) \notin TerminalPhases]_serverVars
    BY VerdictStep
  <1> QED BY <1>1, <1>2, <1>3, DeliveredStep, ServerFactsHold, PTL DEF ServerSpec, VerdictObservable

\* Both hold without a collector, and with one where process-run and process-once run one at a
\* time.
THEOREM ReadersAreServed ==
    ASSUME Collectors = {} \/ \A p, q \in Procs : p = q
    PROVE  ServerSpec => AnswerWasTrue /\ VerdictObservable
  <1>1. CASE Collectors = {}
    BY <1>1, ExclusiveOnServer, AnswersWereTrue, VerdictsAreObservable, PTL
  <1>2. CASE \A p, q \in Procs : p = q
    <2>1. MutualExclusion
      BY <1>2 DEF MutualExclusion
    <2> QED BY <2>1, AnswersWereTrue, VerdictsAreObservable, PTL
  <1> QED BY <1>1, <1>2
=============================================================================
