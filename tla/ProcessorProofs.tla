-------------------------- MODULE ProcessorProofs --------------------------
(***************************************************************************)
(* Theorems about the processors, for every number of runs, processes,     *)
(* crashes and I/O errors: type correctness and the operators of WorkDir   *)
(* and Processor; safety, for which the actions are first sorted by what   *)
(* they do to the work directory (FsEffect) and to the locks (LockEffect), *)
(* the invariants then being proved of the few effects; and what a run     *)
(* ends with and what is said of it, where statuses, replays and foreign   *)
(* runs are proved as long as no I/O error happens.                        *)
(***************************************************************************)
EXTENDS Processor, TLAPS

----------------------------------------------------------------------------
(* Types and operators *)

FsType == [Runs -> [Phases -> Dirs]]

\* Put changes one run directory and nothing else.
LEMMA PutLemma ==
    ASSUME fs \in FsType, NEW r \in Runs, NEW ph \in Phases, NEW d \in Dirs
    PROVE  /\ Put(r, ph, d) \in FsType
           /\ \A q \in Runs, x \in Phases :
                 Put(r, ph, d)[q][x] = IF q = r /\ x = ph THEN d ELSE fs[q][x]
  BY DEF Put, FsType

\* An absent directory is a directory without contents.
LEMMA NoDirLemma == NoDir \in Dirs /\ ~NoDir.exists
  BY DEF NoDir, Contents, Dirs, InputKinds, LeaseKinds, StatusKinds, PublishedStatus,
         Plans, Placements

\* Rename empties the source, fills the target and changes nothing else.
LEMMA RenameLemma ==
    ASSUME fs \in FsType, NEW r \in Runs, NEW a \in Phases, NEW b \in Phases, a # b
    PROVE  /\ Rename(r, a, b) \in FsType
           /\ \A q \in Runs, x \in Phases :
                 Rename(r, a, b)[q][x] =
                     IF q = r /\ x = a THEN NoDir
                     ELSE IF q = r /\ x = b THEN fs[r][a]
                     ELSE fs[q][x]
  BY NoDirLemma DEF Rename, FsType

\* Each change of one file gives a directory again and leaves alone what it is not about.
LEMMA WithLockLemma ==
    ASSUME NEW d \in Dirs, NEW i \in Inodes \cup {NoLock}
    PROVE  /\ WithLock(d, i) \in Dirs
           /\ WithLock(d, i).lock = i
           /\ WithLock(d, i).exists = d.exists
           /\ WithLock(d, i).status = d.status
           /\ WithLock(d, i).plan = d.plan
  BY DEF WithLock, Dirs

\* A status is published ...
LEMMA WithStatusLemma ==
    ASSUME NEW d \in Dirs, NEW s \in StatusKinds
    PROVE  /\ WithStatus(d, s) \in Dirs
           /\ WithStatus(d, s).status = s
           /\ WithStatus(d, s).exists = d.exists
           /\ WithStatus(d, s).lock = d.lock
           /\ WithStatus(d, s).plan = d.plan
  BY DEF WithStatus, Dirs

\* ... a plan is written ...
LEMMA WithPlanLemma ==
    ASSUME NEW d \in Dirs, NEW t \in Plans
    PROVE  /\ WithPlan(d, t) \in Dirs
           /\ WithPlan(d, t).plan = t
           /\ WithPlan(d, t).exists = d.exists
           /\ WithPlan(d, t).lock = d.lock
           /\ WithPlan(d, t).status = d.status
  BY DEF WithPlan, Dirs

\* ... the scratch area is made, and the directory with it ...
LEMMA WithWorkLemma ==
    ASSUME NEW d \in Dirs
    PROVE  /\ WithWork(d) \in Dirs
           /\ WithWork(d).exists
           /\ WithWork(d).lock = d.lock
           /\ WithWork(d).status = d.status
           /\ WithWork(d).plan = d.plan
  BY DEF WithWork, Dirs

\* ... and removed ...
LEMMA WithoutWorkLemma ==
    ASSUME NEW d \in Dirs
    PROVE  /\ WithoutWork(d) \in Dirs
           /\ WithoutWork(d).exists = d.exists
           /\ WithoutWork(d).lock = d.lock
           /\ WithoutWork(d).status = d.status
           /\ WithoutWork(d).plan = d.plan
  BY DEF WithoutWork, Dirs

\* ... and a successful run is pruned.
LEMMA PrunedLemma ==
    ASSUME NEW d \in Dirs
    PROVE  /\ Pruned(d) \in Dirs
           /\ Pruned(d).lock = NoLock
           /\ Pruned(d).exists = d.exists
           /\ Pruned(d).status = d.status
           /\ Pruned(d).plan = d.plan
  BY DEF Pruned, Dirs, LeaseKinds

----------------------------------------------------------------------------
(* What the pieces every action is built from do to the types *)

\* The sets of steps are sets of steps, and a step is searching or holding.
LEMMA StepsLemma ==
    Searching \cup Claiming \cup Importing \cup Failing \cup Closing \cup {"status", "start"}
        \subseteq Steps
  BY DEF Steps, Holding

Lock == Inodes \cup {NoLock}
Owners == Actors \cup {Nobody}
Replies == [outcome : Outcomes, state : PublishedStatus \cup {"none"}]

\* Goto keeps the type of pc.
LEMMA GotoLemma ==
    ASSUME TypeOK, NEW p \in Procs, NEW s \in Steps, Goto(p, s)
    PROVE  pc' \in [Procs -> Steps]
  BY DEF Goto, TypeOK

\* Decide keeps the type of out.
LEMMA DecideLemma ==
    ASSUME TypeOK, NEW p \in Procs, NEW s \in PublishedStatus, Decide(p, s)
    PROVE  out' \in [Procs -> PublishedStatus]
  BY DEF Decide, TypeOK

\* A file operation, whether it works or fails, keeps the I/O error count within its bound.
LEMMA ErrorsLemma ==
    ASSUME TypeOK
    PROVE  /\ \A ok : Works(ok) \/ Fails(ok) => ioErrors' \in 0..MaxIOErrors
           /\ IOError => ioErrors' \in 0..MaxIOErrors
  BY ProcessorAssumption DEF TypeOK, Works, Fails, IOError

\* Dropping the lock keeps the types of fd and owner.
LEMMA DropLemma ==
    ASSUME TypeOK, NEW p \in Procs, Drop(p)
    PROVE  fd' \in [Procs -> Lock] /\ owner' \in [Inodes -> Owners]
  BY DEF Drop, Released, TypeOK, WorkDirTypeOK, Lock, Owners

\* The end of a run's handling keeps the types of all it changes.
LEMMA ReturnLemma ==
    ASSUME TypeOK, NEW p \in Procs, NEW o \in Outcomes, NEW s \in PublishedStatus \cup {"none"},
           Return(p, o, s)
    PROVE  /\ pc' \in [Procs -> Steps]
           /\ fd' \in [Procs -> Lock]
           /\ owner' \in [Inodes -> Owners]
           /\ reply' \in [Procs -> Replies]
  <1>1. pc' \in [Procs -> Steps]
    BY GotoLemma, StepsLemma DEF Return, Searching
  <1>2. reply' \in [Procs -> Replies]
    BY DEF Return, Replies, TypeOK
  <1> QED BY <1>1, <1>2, DropLemma DEF Return

\* Each change an action makes to the work directory keeps its type.
LEMMA EditLemma ==
    ASSUME TypeOK, NEW r \in Runs, NEW ph \in Phases
    PROVE  /\ fs[r][ph] \in Dirs
           /\ \A i \in Lock : Put(r, ph, WithLock(fs[r][ph], i)) \in FsType
           /\ \A s \in StatusKinds : Put(r, ph, WithStatus(fs[r][ph], s)) \in FsType
           /\ \A t \in Plans : Put(r, ph, WithPlan(fs[r][ph], t)) \in FsType
           /\ Put(r, ph, WithWork(fs[r][ph])) \in FsType
           /\ Put(r, ph, WithoutWork(fs[r][ph])) \in FsType
           /\ Put(r, ph, Pruned(fs[r][ph])) \in FsType
           /\ \A to \in Phases \ {ph} : Rename(r, ph, to) \in FsType
  <1>1. fs \in FsType
    BY DEF TypeOK, WorkDirTypeOK, FsType
  <1>2. fs[r][ph] \in Dirs
    BY <1>1 DEF FsType
  <1>3. \A d \in Dirs : Put(r, ph, d) \in FsType
    BY <1>1, PutLemma
  <1>4. \A to \in Phases \ {ph} : Rename(r, ph, to) \in FsType
    BY <1>1, RenameLemma
  <1> QED BY <1>2, <1>3, <1>4, WithLockLemma, WithStatusLemma, WithPlanLemma, WithWorkLemma,
         WithoutWorkLemma, PrunedLemma DEF Lock

\* The phases the actions name are phases.
LEMMA PhasesLemma ==
    /\ QueuePhases \subseteq Phases
    /\ TerminalPhases \subseteq Phases
    /\ PublishedStatus \subseteq StatusKinds
    /\ "none" \in StatusKinds
    /\ Placements \subseteq Plans
    /\ "ready" \in QueuePhases /\ "processing" \in QueuePhases
    /\ \A s \in PublishedStatus : TerminalPhase(s) \in TerminalPhases
    /\ TerminalPhases \cap QueuePhases = {}
    /\ "failed" \in TerminalPhases /\ "done" \in TerminalPhases
    /\ "ready" # "processing"
    /\ \A q \in Requests, s \in DestinationStates : ResolveDestination(q, s) \in Placements
  BY DEF QueuePhases, Phases, TerminalPhases, PublishedStatus, StatusKinds, Plans, Placements,
         TerminalPhase, ResolveDestination

\* What a processor may read is of its type.
LEMMA LocalsLemma ==
    ASSUME TypeOK, NEW p \in Procs
    PROVE  /\ run[p] \in Runs
           /\ from[p] \in QueuePhases
           /\ fd[p] \in Lock
           /\ out[p] \in PublishedStatus
           /\ target[p] \in Placements
           /\ Request[run[p]] \in Requests
           /\ dest[run[p]] \in DestinationStates
           /\ orphans[run[p]] \in Nat
           /\ fs \in FsType
  BY ProcessorAssumption DEF TypeOK, WorkDirTypeOK, Lock, FsType

\* What a run-state probe may lock is a lock file.
LEMMA ProbedLemma ==
    ASSUME TypeOK, NEW r \in Runs, fs[r]["processing"].lock # NoLock
    PROVE  fs[r]["processing"].lock \in Inodes
  BY EditLemma, PhasesLemma DEF Dirs

----------------------------------------------------------------------------
(* Every action keeps the types *)

\* What the control of the processors takes part in.
ControlType ==
    /\ pc \in [Procs -> Steps]
    /\ owner \in [Inodes -> Owners]
    /\ fd \in [Procs -> Lock]
    /\ reply \in [Procs -> Replies]
    /\ out \in [Procs -> PublishedStatus]

\* Every step keeps the types: one step of the proof per action.
LEMMA TypeStep == TypeOK /\ [Next]_vars => TypeOK'
  <1> SUFFICES ASSUME TypeOK, [Next]_vars PROVE TypeOK'
    OBVIOUS
  <1> USE DEF lists, worldVars, faultVars
  <1>1. ASSUME NEW p \in Procs, StartProcessRun(p) PROVE TypeOK'
    BY <1>1, StepsLemma, GotoLemma DEF StartProcessRun, NoReply, Outcomes, Searching, Replies,
           TypeOK, WorkDirTypeOK
  <1>2. ASSUME NEW p \in Procs, StartProcessOnce(p) PROVE TypeOK'
    BY <1>2, StepsLemma, GotoLemma DEF StartProcessOnce, Searching, TypeOK, WorkDirTypeOK
  <1>3. ASSUME NEW p \in Procs, ListReady(p) PROVE TypeOK'
    BY <1>3, StepsLemma, GotoLemma DEF ListReady, Searching, TypeOK, WorkDirTypeOK
  <1>4. ASSUME NEW p \in Procs, NextRecovery(p) PROVE TypeOK'
    BY <1>4, StepsLemma, GotoLemma DEF NextRecovery, Searching, TypeOK, WorkDirTypeOK
  <1>5. ASSUME NEW p \in Procs, NextClaim(p) PROVE TypeOK'
    BY <1>5, StepsLemma, GotoLemma DEF NextClaim, Searching, TypeOK, WorkDirTypeOK
  <1>6. ASSUME NEW p \in Procs, EndProcessOnce(p) PROVE TypeOK'
    BY <1>6, StepsLemma, GotoLemma DEF EndProcessOnce, Searching, TypeOK, WorkDirTypeOK
  <1>7. ASSUME NEW p \in Procs, Claim(p) PROVE TypeOK'
    BY <1>7, StepsLemma, GotoLemma DEF Claim, Searching, QueuePhases, TypeOK, WorkDirTypeOK
  <1>8. ASSUME NEW p \in Procs, Recheck(p) PROVE TypeOK'
    BY <1>8, StepsLemma, GotoLemma, ReturnLemma DEF Recheck, Searching, Skip, ReturnError,
           Outcomes, Lock, Owners, Replies, TypeOK, WorkDirTypeOK
  <1>9. ASSUME NEW p \in Procs, FallThrough(p) PROVE TypeOK'
    BY <1>9, StepsLemma, GotoLemma DEF FallThrough, Searching, TypeOK, WorkDirTypeOK
  <1>10. ASSUME NEW p \in Procs, Recover(p) PROVE TypeOK'
    BY <1>10, StepsLemma, GotoLemma DEF Recover, Searching, QueuePhases, Skip, TypeOK,
           WorkDirTypeOK
  <1>11. ASSUME NEW p \in Procs, OpenLock(p) PROVE TypeOK'
    <2>1. fs' \in FsType
      BY <1>11, LocalsLemma, EditLemma, PhasesLemma DEF OpenLock, Queue, Lock
    <2>2. ControlType'
      <3>1. CASE ReturnError(p) /\ out' = out
        BY <3>1, ReturnLemma DEF ReturnError, ControlType, Outcomes, TypeOK
      <3>2. CASE \E i \in Lock : /\ fd' = [fd EXCEPT ![p] = i]
                                 /\ Goto(p, "flock")
                                 /\ UNCHANGED <<owner, out, reply>>
        BY <3>2, GotoLemma, StepsLemma
           DEF ControlType, Searching, TypeOK, WorkDirTypeOK, Lock, Owners, Replies
      <3>3. CASE /\ Goto(p, "recheck") \/ Goto(p, "observe") \/ Goto(p, "loop")
                 /\ UNCHANGED <<owner, fd, out, reply>>
        BY <3>3, GotoLemma, StepsLemma
           DEF ControlType, Searching, TypeOK, WorkDirTypeOK, Lock, Owners, Replies
      <3>4. Queue(p, from[p]).lock \in Lock
        BY LocalsLemma, EditLemma, PhasesLemma DEF Queue, Dirs, Lock
      <3> QED BY <1>11, <3>1, <3>2, <3>3, <3>4 DEF OpenLock, Skip, Lock
    <2>3. ioErrors' \in 0..MaxIOErrors
      BY <1>11, ErrorsLemma DEF OpenLock, TypeOK
    <2> QED
      BY <1>11, <2>1, <2>2, <2>3
         DEF OpenLock, FsType, ControlType, Lock, Owners, Replies, TypeOK, WorkDirTypeOK
  <1>12. ASSUME NEW p \in Procs, Flock(p) PROVE TypeOK'
    <2>1. ControlType'
      <3>1. CASE \E s \in Outcomes : Return(p, s, "none") /\ out' = out
        BY <3>1, ReturnLemma DEF ControlType, TypeOK
      <3>2. CASE /\ owner' = [owner EXCEPT ![fd[p]] = p]
                 /\ Goto(p, "inputs") \/ Goto(p, "status")
                 /\ UNCHANGED <<fd, out, reply>>
        BY <3>2, GotoLemma, StepsLemma
           DEF ControlType, Claiming, TypeOK, WorkDirTypeOK, Lock, Owners, Replies, Actors
      <3> QED BY <1>12, <3>1, <3>2 DEF Flock, Outcomes
    <2> QED
      BY <1>12, <2>1 DEF Flock, ControlType, Lock, Owners, Replies, TypeOK, WorkDirTypeOK
  <1>13. ASSUME NEW p \in Procs, ReadReadyInputs(p) PROVE TypeOK'
    BY <1>13, StepsLemma, GotoLemma, ErrorsLemma, ReturnLemma DEF ReadReadyInputs, Claiming,
           ReturnError, Outcomes, Lock, Owners, Replies, TypeOK, WorkDirTypeOK
  <1>14. ASSUME NEW p \in Procs, ClaimMove(p) PROVE TypeOK'
    <2>1. fs' \in FsType
      BY <1>14, LocalsLemma, EditLemma, PhasesLemma DEF ClaimMove, Queue
    <2>2. ControlType'
      BY <1>14, StepsLemma, GotoLemma, DropLemma, ReturnLemma DEF ClaimMove, ControlType,
             Lock, Owners, Replies, ReturnError, Outcomes, Searching, Claiming, TypeOK,
             WorkDirTypeOK
    <2>3. ioErrors' \in 0..MaxIOErrors
      BY <1>14, ErrorsLemma DEF ClaimMove, TypeOK
    <2> QED
      BY <1>14, <2>1, <2>2, <2>3 DEF ClaimMove, FsType, ControlType, Lock, Owners, Replies,
             TypeOK, WorkDirTypeOK
  <1>15. ASSUME NEW p \in Procs, PublishMalformed(p) PROVE TypeOK'
    <2>1. fs' \in FsType
      BY <1>15, LocalsLemma, EditLemma, PhasesLemma DEF PublishMalformed, Queue,
             PublishedStatus
    <2>2. ControlType'
      BY <1>15, StepsLemma, GotoLemma, DecideLemma, ReturnLemma DEF PublishMalformed,
             ControlType, Lock, Owners, Replies, PublishedStatus, ReturnError, Outcomes,
             Claiming, TypeOK, WorkDirTypeOK
    <2>3. ioErrors' \in 0..MaxIOErrors
      BY <1>15, ErrorsLemma DEF PublishMalformed, TypeOK
    <2> QED
      BY <1>15, <2>1, <2>2, <2>3 DEF PublishMalformed, FsType, ControlType, Lock, Owners,
             Replies, TypeOK, WorkDirTypeOK
  <1>16. ASSUME NEW p \in Procs, MoveMalformed(p) PROVE TypeOK'
    <2>1. fs' \in FsType
      BY <1>16, LocalsLemma, EditLemma, PhasesLemma DEF MoveMalformed, Queue
    <2>2. ControlType'
      BY <1>16, StepsLemma, GotoLemma, ReturnLemma DEF MoveMalformed, ControlType, Lock,
             Owners, Replies, ReturnError, Outcomes, Claiming, Closing, TypeOK, WorkDirTypeOK
    <2>3. ioErrors' \in 0..MaxIOErrors
      BY <1>16, ErrorsLemma DEF MoveMalformed, TypeOK
    <2> QED
      BY <1>16, <2>1, <2>2, <2>3 DEF MoveMalformed, FsType, ControlType, Lock, Owners,
             Replies, TypeOK, WorkDirTypeOK
  <1>17. ASSUME NEW p \in Procs, RecoverStatus(p) PROVE TypeOK'
    <2>1. ControlType'
      <3>1. CASE ReturnError(p) /\ out' = out
        BY <3>1, ReturnLemma DEF ReturnError, ControlType, Outcomes, TypeOK
      <3>2. CASE \E s \in {"error", "fail_status", "start"} :
                    Goto(p, s) /\ UNCHANGED <<owner, fd, out, reply>>
        BY <3>2, GotoLemma, StepsLemma
           DEF ControlType, Failing, TypeOK, WorkDirTypeOK, Lock, Owners, Replies
      <3>3. CASE \E s \in PublishedStatus :
                    Decide(p, s) /\ Goto(p, "final") /\ UNCHANGED <<owner, fd, reply>>
        BY <3>3, GotoLemma, DecideLemma, StepsLemma
           DEF ControlType, Importing, TypeOK, WorkDirTypeOK, Lock, Owners, Replies
      <3> QED BY <1>17, <3>1, <3>2, <3>3 DEF RecoverStatus, Works
    <2>2. ioErrors' \in 0..MaxIOErrors
      BY <1>17, ErrorsLemma DEF RecoverStatus, TypeOK
    <2> QED
      BY <1>17, <2>1, <2>2
         DEF RecoverStatus, ControlType, Lock, Owners, Replies, TypeOK, WorkDirTypeOK
  <1>18. ASSUME NEW p \in Procs, StartImport(p) PROVE TypeOK'
    BY <1>18, StepsLemma, GotoLemma, ErrorsLemma, ReturnLemma DEF StartImport, Importing,
           Failing, ReturnError, Outcomes, Lock, Owners, Replies, TypeOK, WorkDirTypeOK
  <1>19. ASSUME NEW p \in Procs, CreateWork(p) PROVE TypeOK'
    <2>1. fs' \in FsType
      BY <1>19, LocalsLemma, EditLemma, PhasesLemma DEF CreateWork, Queue
    <2>2. ControlType'
      BY <1>19, StepsLemma, GotoLemma DEF CreateWork, ControlType, Lock, Owners, Replies,
             Importing, Failing, TypeOK, WorkDirTypeOK
    <2>3. ioErrors' \in 0..MaxIOErrors
      BY <1>19, ErrorsLemma DEF CreateWork, TypeOK
    <2> QED
      BY <1>19, <2>1, <2>2, <2>3 DEF CreateWork, FsType, ControlType, Lock, Owners, Replies,
             TypeOK, WorkDirTypeOK
  <1>20. ASSUME NEW p \in Procs, CheckStaged(p) PROVE TypeOK'
    BY <1>20, StepsLemma, GotoLemma, DecideLemma, ErrorsLemma DEF CheckStaged, Importing,
           EntryFailed, PublishedStatus, TypeOK, WorkDirTypeOK
  <1>21. ASSUME NEW p \in Procs, LoadPlan(p) PROVE TypeOK'
    <2>1. fs' \in FsType
      BY <1>21, LocalsLemma, EditLemma, PhasesLemma DEF LoadPlan, Queue
    <2>2. ControlType'
      BY <1>21, StepsLemma, GotoLemma, DecideLemma DEF LoadPlan, ControlType, Lock, Owners,
             Replies, PublishedStatus, EntryFailed, Importing, TypeOK, WorkDirTypeOK
    <2>3. ioErrors' \in 0..MaxIOErrors
      BY <1>21, ErrorsLemma DEF LoadPlan, TypeOK
    <2>4. target' \in [Procs -> Placements]
      <3>1. Queue(p, "processing").plan \in Plans
        BY LocalsLemma, EditLemma, PhasesLemma DEF Queue, Dirs
      <3>2. CASE target' = target
        BY <3>2 DEF TypeOK
      <3>3. CASE \E t \in Placements : target' = [target EXCEPT ![p] = t]
        BY <3>3 DEF TypeOK
      <3> QED BY <1>21, <3>1, <3>2, <3>3, LocalsLemma, PhasesLemma DEF LoadPlan, Plans, Works
    <2> QED
      BY <1>21, <2>1, <2>2, <2>3, <2>4 DEF LoadPlan, FsType, ControlType, Lock, Owners,
             Replies, TypeOK, WorkDirTypeOK
  <1>22. ASSUME NEW p \in Procs, Spawn(p) PROVE TypeOK'
    <2>1. ControlType'
      BY <1>22, StepsLemma, GotoLemma, DecideLemma DEF Spawn, ControlType, Lock, Owners,
         Replies, EntryFailed, PublishedStatus, Importing, TypeOK, WorkDirTypeOK
    <2>2. spawned' \in [Runs -> SUBSET Placements]
      BY <1>22, LocalsLemma, SMTT(30) DEF Spawn, TypeOK
    <2> QED
      BY <1>22, <2>1, <2>2
         DEF Spawn, ControlType, Lock, Owners, Replies, TypeOK, WorkDirTypeOK
  <1>23. ASSUME NEW p \in Procs, TransformSucceeds(p) PROVE TypeOK'
    <2>1. fs' \in FsType
      BY <1>23, LocalsLemma, EditLemma, PhasesLemma DEF TransformSucceeds, Queue
    <2>2. ControlType'
      BY <1>23, StepsLemma, GotoLemma, DecideLemma DEF TransformSucceeds, ControlType, Lock,
             Owners, Replies, PublishedStatus, Importing, TypeOK, WorkDirTypeOK
    <2> QED
      BY <1>23, <2>1, <2>2, LocalsLemma DEF TransformSucceeds, FsType, ControlType, Lock,
             Owners, Replies, TypeOK, WorkDirTypeOK
  <1>24. ASSUME NEW p \in Procs, TransformFails(p) PROVE TypeOK'
    BY <1>24, StepsLemma, GotoLemma, DecideLemma DEF TransformFails, Importing, EntryFailed,
           PublishedStatus, TypeOK, WorkDirTypeOK
  <1>25. ASSUME NEW p \in Procs, WaitFails(p) PROVE TypeOK'
    <2>2. ControlType'
      BY <1>25, StepsLemma, GotoLemma, DecideLemma DEF WaitFails, ControlType, Lock, Owners,
             Replies, PublishedStatus, EntryFailed, Importing, TypeOK, WorkDirTypeOK
    <2>3. ioErrors' \in 0..MaxIOErrors
      BY <1>25, ErrorsLemma DEF WaitFails, TypeOK
    <2> QED
      BY <1>25, <2>2, <2>3, LocalsLemma DEF WaitFails, ControlType, Lock, Owners, Replies,
             TypeOK, WorkDirTypeOK
  <1>26. ASSUME NEW p \in Procs, PublishStatus(p) PROVE TypeOK'
    <2>1. fs' \in FsType
      BY <1>26, LocalsLemma, EditLemma, PhasesLemma DEF PublishStatus, Queue
    <2>2. ControlType'
      BY <1>26, StepsLemma, GotoLemma DEF PublishStatus, ControlType, Lock, Owners, Replies,
             Importing, Failing, TypeOK, WorkDirTypeOK
    <2>3. ioErrors' \in 0..MaxIOErrors
      BY <1>26, ErrorsLemma DEF PublishStatus, TypeOK
    <2> QED
      BY <1>26, <2>1, <2>2, <2>3 DEF PublishStatus, FsType, ControlType, Lock, Owners,
             Replies, TypeOK, WorkDirTypeOK
  <1>27. ASSUME NEW p \in Procs, Finalize(p) PROVE TypeOK'
    <2>1. fs' \in FsType
      BY <1>27, LocalsLemma, EditLemma, PhasesLemma DEF Finalize, Queue
    <2>2. ControlType'
      BY <1>27, StepsLemma, GotoLemma DEF Finalize, ControlType, Lock, Owners, Replies,
             Importing, Failing, Closing, TypeOK, WorkDirTypeOK
    <2>3. ioErrors' \in 0..MaxIOErrors
      BY <1>27, ErrorsLemma DEF Finalize, TypeOK
    <2> QED
      BY <1>27, <2>1, <2>2, <2>3 DEF Finalize, FsType, ControlType, Lock, Owners, Replies,
             TypeOK, WorkDirTypeOK
  <1>28. ASSUME NEW p \in Procs, Prune(p) PROVE TypeOK'
    <2>1. fs' \in FsType
      BY <1>28, LocalsLemma, EditLemma, PhasesLemma DEF Prune, Queue
    <2>2. ControlType'
      BY <1>28, StepsLemma, GotoLemma DEF Prune, ControlType, Lock, Owners, Replies, Closing,
             TypeOK, WorkDirTypeOK
    <2>3. ioErrors' \in 0..MaxIOErrors
      BY <1>28, ErrorsLemma DEF Prune, TypeOK
    <2> QED
      BY <1>28, <2>1, <2>2, <2>3 DEF Prune, FsType, ControlType, Lock, Owners, Replies,
             TypeOK, WorkDirTypeOK
  <1>29. ASSUME NEW p \in Procs, Unlock(p) PROVE TypeOK'
    <2>1. fs' \in FsType
      <3>1. TerminalPhase(out[p]) \in Phases /\ NoLock \in Lock
        BY LocalsLemma, PhasesLemma DEF Lock
      <3> QED BY <1>29, <3>1, LocalsLemma, EditLemma DEF Unlock, Queue
    <2>2. ControlType'
      BY <1>29, StepsLemma, GotoLemma
         DEF Unlock, ControlType, Lock, Owners, Replies, Closing, TypeOK, WorkDirTypeOK
    <2>3. ioErrors' \in 0..MaxIOErrors
      BY <1>29, ErrorsLemma DEF Unlock, TypeOK
    <2> QED
      BY <1>29, <2>1, <2>2, <2>3
         DEF Unlock, FsType, ControlType, Lock, Owners, Replies, TypeOK, WorkDirTypeOK
  <1>30. ASSUME NEW p \in Procs, Reply(p) PROVE TypeOK'
    BY <1>30, ReturnLemma DEF Reply, ReturnError, Outcomes, Lock, Owners, Replies, TypeOK,
           WorkDirTypeOK
  <1>31. ASSUME NEW p \in Procs, Observe(p) PROVE TypeOK'
    BY <1>31, ReturnLemma DEF Observe, ReturnError, Outcomes, Lock, Owners, Replies, TypeOK,
           WorkDirTypeOK
  <1>32. ASSUME NEW p \in Procs, PublishFailure(p) PROVE TypeOK'
    <2>1. fs' \in FsType
      BY <1>32, LocalsLemma, EditLemma, PhasesLemma DEF PublishFailure, Queue, PublishedStatus
    <2>2. ControlType'
      BY <1>32, StepsLemma, GotoLemma, DecideLemma, ReturnLemma DEF PublishFailure,
             ControlType, Lock, Owners, Replies, PublishedStatus, ReturnError, Outcomes,
             Failing, TypeOK, WorkDirTypeOK
    <2>3. ioErrors' \in 0..MaxIOErrors
      BY <1>32, ErrorsLemma DEF PublishFailure, TypeOK
    <2> QED
      BY <1>32, <2>1, <2>2, <2>3 DEF PublishFailure, FsType, ControlType, Lock, Owners,
             Replies, TypeOK, WorkDirTypeOK
  <1>33. ASSUME NEW p \in Procs, MoveFailure(p) PROVE TypeOK'
    <2>1. fs' \in FsType
      BY <1>33, LocalsLemma, EditLemma, PhasesLemma DEF MoveFailure, Queue
    <2>2. ControlType'
      BY <1>33, StepsLemma, GotoLemma, ReturnLemma DEF MoveFailure, ControlType, Lock, Owners,
             Replies, ReturnError, Outcomes, Failing, Closing, TypeOK, WorkDirTypeOK
    <2>3. ioErrors' \in 0..MaxIOErrors
      BY <1>33, ErrorsLemma DEF MoveFailure, TypeOK
    <2> QED
      BY <1>33, <2>1, <2>2, <2>3 DEF MoveFailure, FsType, ControlType, Lock, Owners, Replies,
             TypeOK, WorkDirTypeOK
  <1>34. ASSUME NEW p \in Procs, HandleError(p) PROVE TypeOK'
    BY <1>34, StepsLemma, GotoLemma DEF HandleError, Failing, Closing, TypeOK, WorkDirTypeOK
  <1>35. ASSUME NEW p \in Procs, MoveToFailed(p) PROVE TypeOK'
    <2>1. fs' \in FsType
      BY <1>35, LocalsLemma, EditLemma, PhasesLemma DEF MoveToFailed, Queue
    <2>2. ControlType'
      BY <1>35, StepsLemma, GotoLemma, DecideLemma, ReturnLemma DEF MoveToFailed, ControlType,
             Lock, Owners, Replies, PublishedStatus, ReturnError, Outcomes, Failing, Closing,
             TypeOK, WorkDirTypeOK
    <2>3. ioErrors' \in 0..MaxIOErrors
      BY <1>35, ErrorsLemma DEF MoveToFailed, TypeOK
    <2> QED
      BY <1>35, <2>1, <2>2, <2>3 DEF MoveToFailed, FsType, ControlType, Lock, Owners, Replies,
             TypeOK, WorkDirTypeOK
  <1>36. ASSUME NEW p \in Procs, Crash(p) PROVE TypeOK'
    <2>1. ControlType'
      BY <1>36, StepsLemma, GotoLemma, DropLemma
         DEF Crash, ControlType, Replies, Searching, TypeOK
    <2>2. orphans' \in [Runs -> Nat]
      BY <1>36, LocalsLemma DEF Crash, TypeOK
    <2>3. crashes' \in 0..MaxCrashes
      BY <1>36, ProcessorAssumption DEF Crash, TypeOK
    <2> QED
      BY <1>36, <2>1, <2>2, <2>3
         DEF Crash, ControlType, Lock, Owners, Replies, TypeOK, WorkDirTypeOK
  <1>37. ASSUME NEW r \in Runs, TransformWrites(r) PROVE TypeOK'
    BY <1>37 DEF TransformWrites, DestinationStates, procVars, TypeOK, WorkDirTypeOK
  <1>38. ASSUME NEW r \in Runs, OrphanExits(r) PROVE TypeOK'
    BY <1>38 DEF OrphanExits, procVars, TypeOK, WorkDirTypeOK
  <1>39. ASSUME NEW o \in Observers, ProbeLock(o) PROVE TypeOK'
    BY <1>39, ProbedLemma DEF ProbeLock, procVars, TypeOK, WorkDirTypeOK, Actors
  <1>40. ASSUME NEW o \in Observers, EndProbe(o) PROVE TypeOK'
    BY <1>40 DEF EndProbe, Released, procVars, TypeOK, WorkDirTypeOK
  <1>41. CASE UNCHANGED vars
    BY <1>41 DEF vars, procVars, TypeOK, WorkDirTypeOK
  <1> QED
    BY <1>1, <1>2, <1>3, <1>4, <1>5, <1>6, <1>7, <1>8, <1>9, <1>10, <1>11, <1>12, <1>13,
           <1>14, <1>15, <1>16, <1>17, <1>18, <1>19, <1>20, <1>21, <1>22, <1>23, <1>24, <1>25,
           <1>26, <1>27, <1>28, <1>29, <1>30, <1>31, <1>32, <1>33, <1>34, <1>35, <1>36, <1>37,
           <1>38, <1>39, <1>40, <1>41 DEF Next, Step

\* The initial states are well typed.
LEMMA TypeInit == Init => TypeOK
  <1> SUFFICES ASSUME Init PROVE TypeOK
    OBVIOUS
  <1>1. fs \in FsType
    <2>1. \A a \in Arrivals : Found(a) \in [Phases -> Dirs]
      BY NoDirLemma, ProcessorAssumption DEF Found
    <2> QED BY <2>1 DEF Init, Quiescent, FsType
  <1>2. (CHOOSE r \in Runs : TRUE) \in Runs
    BY ProcessorAssumption
  <1>3. ControlType
    BY StepsLemma DEF Init, Quiescent, ControlType, Owners, Lock, Replies, NoReply, Outcomes, Searching,
       PublishedStatus
  <1>4. crashes \in 0..MaxCrashes /\ ioErrors \in 0..MaxIOErrors
    BY ProcessorAssumption DEF Init, Quiescent
  <1> QED
    <2>1. run \in [Procs -> Runs]
      BY <1>2 DEF Init, Quiescent
    <2>2. /\ from \in [Procs -> QueuePhases]
          /\ target \in [Procs -> Placements]
          /\ toRecover \in [Procs -> SUBSET Runs]
          /\ toClaim \in [Procs -> SUBSET Runs]
      BY DEF Init, Quiescent, QueuePhases, Placements
    <2>3. /\ dest \in [Runs -> DestinationStates]
          /\ orphans \in [Runs -> Nat]
          /\ probe \in [Observers -> Lock]
          /\ imported \in SUBSET Runs
          /\ spawned \in [Runs -> SUBSET Placements]
      BY ProcessorAssumption DEF Init, Quiescent, Lock
    <2> QED BY <1>1, <1>3, <1>4, <2>1, <2>2, <2>3 DEF FsType, ControlType, Owners, Lock,
               Replies, TypeOK, WorkDirTypeOK

\* Every variable keeps its type, for any number of runs and processes.
THEOREM TypeCorrect == Spec => []TypeOK
  BY TypeInit, TypeStep, PTL DEF Spec

----------------------------------------------------------------------------
(* Safety *)

\* A step of processor p, the start of an invocation or its crash included.
ProcStep(p) == StartProcessRun(p) \/ StartProcessOnce(p) \/ Step(p) \/ Crash(p)

\* What p does to pc leaves the other processors where they are.
LEMMA PcLemma ==
    ASSUME TypeOK, NEW p \in Procs
    PROVE  /\ \A s : Goto(p, s) => /\ pc'[p] = s
                                  /\ \A q \in Procs \ {p} : pc'[q] = pc[q]
           /\ \A o, s : Return(p, o, s) => /\ Drop(p)
                                           /\ pc'[p] \in {"idle", "loop"}
                                           /\ \A q \in Procs \ {p} : pc'[q] = pc[q]
           /\ ReturnError(p) => /\ Drop(p)
                                /\ pc'[p] \in {"idle", "loop"}
                                /\ \A q \in Procs \ {p} : pc'[q] = pc[q]
           /\ \A s : Skip(p, s) => /\ pc'[p] \in {"loop", s}
                                   /\ \A q \in Procs \ {p} : pc'[q] = pc[q]
  <1>1. \A s : Goto(p, s) => /\ pc'[p] = s
                             /\ \A q \in Procs \ {p} : pc'[q] = pc[q]
    BY DEF TypeOK, Goto
  <1> QED BY <1>1 DEF Return, ReturnError, Skip

----------------------------------------------------------------------------
(* Effects on the work directory *)

\* p leads its run to processing/ or to a terminal phase, never into an import.
Moves(p) ==
    /\ \E a \in QueuePhases, b \in {"processing"} \cup TerminalPhases :
          /\ a # b
          /\ CanRename(run[p], a, b)
          /\ fs' = Rename(run[p], a, b)
    /\ pc'[p] \notin Importing

Publishes(p) ==
    \E ph \in QueuePhases, s \in {"none", "failed", out[p]} :
        /\ s = "done" => pc[p] = "publish"
        /\ Exists(run[p], ph)
        /\ fs' = Put(run[p], ph, WithStatus(Queue(p, ph), s))

Cleans(p) ==
    \E ph \in TerminalPhases :
        /\ Exists(run[p], ph)
        /\ \/ fs' = Put(run[p], ph, WithLock(Queue(p, ph), NoLock))
           \/ fs' = Put(run[p], ph, Pruned(Queue(p, ph)))

CreatesLock(p) ==
    \E ph \in QueuePhases, i \in Inodes :
        /\ pc[p] = "open"
        /\ Exists(run[p], ph)
        /\ Queue(p, ph).lock = NoLock
        /\ fd' = [fd EXCEPT ![p] = i]
        /\ fs' = Put(run[p], ph, WithLock(Queue(p, ph), i))

Plan(p) ==
    \E t \in Placements :
        /\ pc[p] = "plan"
        /\ Exists(run[p], "processing")
        /\ Queue(p, "processing").plan = "none"
        /\ fs' = Put(run[p], "processing", WithPlan(Queue(p, "processing"), t))

Scratch(p) ==
    \/ /\ pc[p] = "work"
       /\ fs' = Put(run[p], "processing", WithWork(Queue(p, "processing")))
    \/ /\ Exists(run[p], "processing")
       /\ fs' = Put(run[p], "processing", WithoutWork(Queue(p, "processing")))

\* Only the holder of a run's lock changes its directory, but for the lock file.
FsEffect(p) ==
    \/ UNCHANGED fs
    \/ CreatesLock(p)
    \/ pc[p] \in Holding /\ (Moves(p) \/ Publishes(p) \/ Cleans(p) \/ Plan(p) \/ Scratch(p))

\* Every step has one of these effects.
LEMMA FsEffectLemma ==
    ASSUME TypeOK, NEW p \in Procs, ProcStep(p)
    PROVE  FsEffect(p)
  <1>1. CASE StartProcessRun(p) \/ StartProcessOnce(p) \/ ListReady(p) \/ NextRecovery(p) \/
           NextClaim(p) \/ EndProcessOnce(p) \/ Claim(p) \/ Recheck(p) \/ FallThrough(p) \/
           Recover(p) \/ Flock(p) \/ ReadReadyInputs(p) \/ RecoverStatus(p) \/
           StartImport(p) \/ CheckStaged(p) \/ Spawn(p) \/ TransformFails(p) \/
           WaitFails(p) \/ Reply(p) \/ Observe(p) \/ HandleError(p) \/ Crash(p)
    BY <1>1 DEF FsEffect, StartProcessRun, StartProcessOnce, ListReady, NextRecovery,
           NextClaim, EndProcessOnce, Claim, Recheck, FallThrough, Recover, Flock,
           ReadReadyInputs, RecoverStatus, StartImport, CheckStaged, Spawn, TransformFails,
           WaitFails, Reply, Observe, HandleError, Crash
  <1>2. CASE OpenLock(p)
    BY <1>2, LocalsLemma, PhasesLemma DEF OpenLock, FsEffect, CreatesLock, Queue, Exists,
           Works
  <1>3. CASE ClaimMove(p)
    BY <1>3, LocalsLemma, PhasesLemma, PcLemma DEF Importing, ClaimMove, FsEffect, Moves, TerminalPhases,
           QueuePhases, Queue, Exists, Works, Holding, Claiming
  <1>4. CASE PublishMalformed(p)
    BY <1>4, LocalsLemma, PhasesLemma DEF PublishMalformed, FsEffect, Publishes, QueuePhases,
           Queue, Exists, Works, Holding, Claiming
  <1>5. CASE MoveMalformed(p)
    BY <1>5, LocalsLemma, PhasesLemma, PcLemma DEF Importing, MoveMalformed, FsEffect, Moves, TerminalPhases,
           QueuePhases, Publishes, Queue, Exists, Works, Holding, Claiming
  <1>6. CASE CreateWork(p)
    BY <1>6, LocalsLemma, PhasesLemma DEF CreateWork, FsEffect, Scratch, Queue, Exists,
           Holding, Importing
  <1>7. CASE LoadPlan(p)
    BY <1>7, LocalsLemma, PhasesLemma DEF LoadPlan, FsEffect, Plan, Queue, Exists, Works,
           Holding, Importing
  <1>8. CASE TransformSucceeds(p)
    BY <1>8, LocalsLemma, PhasesLemma DEF TransformSucceeds, FsEffect, Scratch, Queue, Exists,
           Holding, Importing
  <1>9. CASE PublishStatus(p)
    BY <1>9, LocalsLemma, PhasesLemma DEF PublishStatus, FsEffect, Publishes, QueuePhases,
           Queue, Exists, Works, Holding, Importing
  <1>10. CASE Finalize(p)
    BY <1>10, LocalsLemma, PhasesLemma, PcLemma DEF Finalize, FsEffect, Moves, TerminalPhases,
           QueuePhases, Queue, Exists, Works, Holding, Importing
  <1>11. CASE Prune(p)
    BY <1>11, LocalsLemma, PhasesLemma DEF Prune, FsEffect, Cleans, TerminalPhases, Queue,
           Exists, Holding, Closing
  <1>12. CASE Unlock(p)
    BY <1>12, LocalsLemma, PhasesLemma DEF Unlock, FsEffect, Cleans, TerminalPhases, Queue,
           Exists, Holding, Closing
  <1>13. CASE PublishFailure(p)
    BY <1>13, LocalsLemma, PhasesLemma DEF PublishFailure, FsEffect, Publishes, QueuePhases,
           Queue, Exists, Works, Holding, Failing
  <1>14. CASE MoveFailure(p)
    BY <1>14, LocalsLemma, PhasesLemma, PcLemma DEF Importing, MoveFailure, FsEffect, Moves, TerminalPhases,
           QueuePhases, Queue, Exists, Works, Holding, Failing
  <1>15. CASE MoveToFailed(p)
    BY <1>15, LocalsLemma, PhasesLemma, PcLemma DEF Importing, MoveToFailed, FsEffect, Moves, TerminalPhases,
           QueuePhases, Queue, Exists, Works, Holding, Failing
  <1> QED
    BY <1>1, <1>2, <1>3, <1>4, <1>5, <1>6, <1>7, <1>8, <1>9, <1>10, <1>11, <1>12, <1>13,
           <1>14, <1>15 DEF ProcStep, Step

----------------------------------------------------------------------------
(* Effects on the locks *)

Outside == Searching \ {"flock"}

\* p looks for work and has no lock.
Searches(p) ==
    /\ pc[p] \in Outside /\ pc'[p] \in Outside
    /\ UNCHANGED <<fd, owner>>

\* p opens the lock file of a queued run, creating it if it is not there.
Opens(p) ==
    \E ph \in QueuePhases, i \in Inodes :
        /\ pc[p] = "open" /\ pc'[p] = "flock"
        /\ Exists(run[p], ph)
        /\ \/ Queue(p, ph).lock = i /\ UNCHANGED fs
           \/ /\ Queue(p, ph).lock = NoLock
              /\ fs' = Put(run[p], ph, WithLock(Queue(p, ph), i))
        /\ fd' = [fd EXCEPT ![p] = i]
        /\ UNCHANGED <<owner, run>>

Acquires(p) ==
    /\ pc[p] = "flock" /\ pc'[p] \in Holding \ Importing
    /\ owner[fd[p]] = Nobody
    /\ owner' = [owner EXCEPT ![fd[p]] = p]
    /\ UNCHANGED <<fd, run, fs>>

\* p works on the run it has locked.
Stays(p) ==
    /\ pc[p] \in Holding /\ pc'[p] \in Holding
    /\ pc'[p] \in Importing => pc[p] \in Importing \/ Exists(run[p], "processing")
    /\ UNCHANGED <<fd, owner, run>>

\* p closes the lock, if it has one, and crashes or goes on to something else.
Leaves(p) ==
    /\ pc'[p] \in Outside
    /\ Drop(p)
    /\ UNCHANGED run

LockEffect(p) == Searches(p) \/ Opens(p) \/ Acquires(p) \/ Stays(p) \/ Leaves(p)

\* The locals of a processor that does not move.
Still(q) ==
    /\ pc'[q] = pc[q]
    /\ run'[q] = run[q]
    /\ fd'[q] = fd[q]
    /\ out'[q] = out[q]
    /\ target'[q] = target[q]

\* A step of p leaves the locals of every other processor alone.
LEMMA StillLemma ==
    ASSUME TypeOK, NEW p \in Procs, ProcStep(p), NEW q \in Procs \ {p}
    PROVE  Still(q)
  <1>1. pc'[q] = pc[q]
    <2>1. CASE StartProcessRun(p)
      BY <2>1, PcLemma DEF StartProcessRun
    <2>2. CASE StartProcessOnce(p)
      BY <2>2, PcLemma DEF StartProcessOnce
    <2>3. CASE ListReady(p)
      BY <2>3, PcLemma DEF ListReady
    <2>4. CASE NextRecovery(p)
      BY <2>4, PcLemma DEF NextRecovery
    <2>5. CASE NextClaim(p)
      BY <2>5, PcLemma DEF NextClaim
    <2>6. CASE EndProcessOnce(p)
      BY <2>6, PcLemma DEF EndProcessOnce
    <2>7. CASE Claim(p)
      BY <2>7, PcLemma DEF Claim
    <2>8. CASE Recheck(p)
      BY <2>8, PcLemma DEF Recheck
    <2>9. CASE FallThrough(p)
      BY <2>9, PcLemma DEF FallThrough
    <2>10. CASE Recover(p)
      BY <2>10, PcLemma DEF Recover
    <2>11. CASE OpenLock(p)
      BY <2>11, PcLemma DEF OpenLock
    <2>12. CASE Flock(p)
      BY <2>12, PcLemma DEF Flock
    <2>13. CASE ReadReadyInputs(p)
      BY <2>13, PcLemma DEF ReadReadyInputs
    <2>14. CASE ClaimMove(p)
      BY <2>14, PcLemma DEF ClaimMove
    <2>15. CASE PublishMalformed(p)
      BY <2>15, PcLemma DEF PublishMalformed
    <2>16. CASE MoveMalformed(p)
      BY <2>16, PcLemma DEF MoveMalformed
    <2>17. CASE RecoverStatus(p)
      BY <2>17, PcLemma DEF RecoverStatus
    <2>18. CASE StartImport(p)
      BY <2>18, PcLemma DEF StartImport
    <2>19. CASE CreateWork(p)
      BY <2>19, PcLemma DEF CreateWork
    <2>20. CASE CheckStaged(p)
      BY <2>20, PcLemma DEF CheckStaged, EntryFailed
    <2>21. CASE LoadPlan(p)
      BY <2>21, PcLemma DEF LoadPlan, EntryFailed
    <2>22. CASE Spawn(p)
      BY <2>22, PcLemma DEF Spawn, EntryFailed
    <2>23. CASE TransformSucceeds(p)
      BY <2>23, PcLemma DEF TransformSucceeds
    <2>24. CASE TransformFails(p)
      BY <2>24, PcLemma DEF TransformFails, EntryFailed
    <2>25. CASE WaitFails(p)
      BY <2>25, PcLemma DEF WaitFails, EntryFailed
    <2>26. CASE PublishStatus(p)
      BY <2>26, PcLemma DEF PublishStatus
    <2>27. CASE Finalize(p)
      BY <2>27, PcLemma DEF Finalize
    <2>28. CASE Prune(p)
      BY <2>28, PcLemma DEF Prune
    <2>29. CASE Unlock(p)
      BY <2>29, PcLemma DEF Unlock
    <2>30. CASE Reply(p)
      BY <2>30, PcLemma DEF Reply
    <2>31. CASE Observe(p)
      BY <2>31, PcLemma DEF Observe
    <2>32. CASE PublishFailure(p)
      BY <2>32, PcLemma DEF PublishFailure
    <2>33. CASE MoveFailure(p)
      BY <2>33, PcLemma DEF MoveFailure
    <2>34. CASE HandleError(p)
      BY <2>34, PcLemma DEF HandleError
    <2>35. CASE MoveToFailed(p)
      BY <2>35, PcLemma DEF MoveToFailed
    <2>36. CASE Crash(p)
      BY <2>36, PcLemma DEF Crash
    <2> QED
      BY <2>1, <2>2, <2>3, <2>4, <2>5, <2>6, <2>7, <2>8, <2>9, <2>10, <2>11, <2>12, <2>13,
             <2>14, <2>15, <2>16, <2>17, <2>18, <2>19, <2>20, <2>21, <2>22, <2>23, <2>24,
             <2>25, <2>26, <2>27, <2>28, <2>29, <2>30, <2>31, <2>32, <2>33, <2>34, <2>35,
             <2>36 DEF ProcStep, Step
  <1>2. run'[q] = run[q]
    <2>1. CASE StartProcessOnce(p) \/ ListReady(p) \/ EndProcessOnce(p) \/ Claim(p) \/
               Recheck(p) \/ FallThrough(p) \/ Recover(p) \/ OpenLock(p) \/ Flock(p) \/
               ReadReadyInputs(p) \/ ClaimMove(p) \/ PublishMalformed(p) \/ MoveMalformed(p) \/
               RecoverStatus(p) \/ StartImport(p) \/ CreateWork(p) \/ CheckStaged(p) \/
               LoadPlan(p) \/ Spawn(p) \/ TransformSucceeds(p) \/ TransformFails(p) \/
               WaitFails(p) \/ PublishStatus(p) \/ Finalize(p) \/ Prune(p) \/ Unlock(p) \/
               Reply(p) \/ Observe(p) \/ PublishFailure(p) \/ MoveFailure(p) \/ HandleError(p)
               \/ MoveToFailed(p) \/ Crash(p)
      BY <2>1 DEF StartProcessOnce, ListReady, EndProcessOnce, Claim, Recheck, FallThrough,
             Recover, OpenLock, Flock, ReadReadyInputs, ClaimMove, PublishMalformed,
             MoveMalformed, RecoverStatus, StartImport, CreateWork, CheckStaged, LoadPlan,
             Spawn, TransformSucceeds, TransformFails, WaitFails, PublishStatus, Finalize,
             Prune, Unlock, Reply, Observe, PublishFailure, MoveFailure, HandleError,
             MoveToFailed, Crash
    <2>2. CASE StartProcessRun(p)
      BY <2>2 DEF StartProcessRun, TypeOK
    <2>3. CASE NextRecovery(p)
      BY <2>3 DEF NextRecovery, TypeOK
    <2>4. CASE NextClaim(p)
      BY <2>4 DEF NextClaim, TypeOK
    <2> QED
      BY <2>1, <2>2, <2>3, <2>4 DEF ProcStep, Step
  <1>3. fd'[q] = fd[q]
    <2>1. CASE StartProcessRun(p) \/ StartProcessOnce(p) \/ ListReady(p) \/ NextRecovery(p) \/
               NextClaim(p) \/ EndProcessOnce(p) \/ Claim(p) \/ FallThrough(p) \/ Recover(p) \/
               CreateWork(p) \/ CheckStaged(p) \/ LoadPlan(p) \/ Spawn(p) \/
               TransformSucceeds(p) \/ TransformFails(p) \/ WaitFails(p) \/ PublishStatus(p) \/
               Finalize(p) \/ Prune(p) \/ Unlock(p) \/ HandleError(p)
      BY <2>1 DEF StartProcessRun, StartProcessOnce, ListReady, NextRecovery, NextClaim,
             EndProcessOnce, Claim, FallThrough, Recover, CreateWork, CheckStaged, LoadPlan,
             Spawn, TransformSucceeds, TransformFails, WaitFails, PublishStatus, Finalize,
             Prune, Unlock, HandleError
    <2>2. CASE Recheck(p)
      BY <2>2 DEF Recheck, Return, ReturnError, Drop, TypeOK
    <2>3. CASE OpenLock(p)
      BY <2>3 DEF OpenLock, Return, ReturnError, Drop, TypeOK
    <2>4. CASE Flock(p)
      BY <2>4 DEF Flock, Return, Drop, TypeOK
    <2>5. CASE ReadReadyInputs(p)
      BY <2>5 DEF ReadReadyInputs, Return, ReturnError, Drop, TypeOK
    <2>6. CASE ClaimMove(p)
      BY <2>6 DEF ClaimMove, Return, ReturnError, Drop, TypeOK
    <2>7. CASE PublishMalformed(p)
      BY <2>7 DEF PublishMalformed, Return, ReturnError, Drop, TypeOK
    <2>8. CASE MoveMalformed(p)
      BY <2>8 DEF MoveMalformed, Return, ReturnError, Drop, TypeOK
    <2>9. CASE RecoverStatus(p)
      BY <2>9 DEF RecoverStatus, Return, ReturnError, Drop, TypeOK
    <2>10. CASE StartImport(p)
      BY <2>10 DEF StartImport, Return, ReturnError, Drop, TypeOK
    <2>11. CASE Reply(p)
      BY <2>11 DEF Reply, Return, ReturnError, Drop, TypeOK
    <2>12. CASE Observe(p)
      BY <2>12 DEF Observe, Return, ReturnError, Drop, TypeOK
    <2>13. CASE PublishFailure(p)
      BY <2>13 DEF PublishFailure, Return, ReturnError, Drop, TypeOK
    <2>14. CASE MoveFailure(p)
      BY <2>14 DEF MoveFailure, Return, ReturnError, Drop, TypeOK
    <2>15. CASE MoveToFailed(p)
      BY <2>15 DEF MoveToFailed, Return, ReturnError, Drop, TypeOK
    <2>16. CASE Crash(p)
      BY <2>16 DEF Crash, Drop, TypeOK
    <2> QED
      BY <2>1, <2>2, <2>3, <2>4, <2>5, <2>6, <2>7, <2>8, <2>9, <2>10, <2>11, <2>12, <2>13,
             <2>14, <2>15, <2>16 DEF ProcStep, Step
  <1>4. out'[q] = out[q]
    <2>1. CASE StartProcessRun(p) \/ StartProcessOnce(p) \/ ListReady(p) \/ NextRecovery(p) \/
               NextClaim(p) \/ EndProcessOnce(p) \/ Claim(p) \/ Recheck(p) \/ FallThrough(p) \/
               Recover(p) \/ OpenLock(p) \/ Flock(p) \/ ReadReadyInputs(p) \/ ClaimMove(p) \/
               MoveMalformed(p) \/ StartImport(p) \/ CreateWork(p) \/ PublishStatus(p) \/
               Finalize(p) \/ Prune(p) \/ Unlock(p) \/ Reply(p) \/ Observe(p) \/ MoveFailure(p)
               \/ HandleError(p) \/ Crash(p)
      BY <2>1 DEF StartProcessRun, StartProcessOnce, ListReady, NextRecovery, NextClaim,
             EndProcessOnce, Claim, Recheck, FallThrough, Recover, OpenLock, Flock,
             ReadReadyInputs, ClaimMove, MoveMalformed, StartImport, CreateWork,
             PublishStatus, Finalize, Prune, Unlock, Reply, Observe, MoveFailure, HandleError,
             Crash
    <2>2. CASE PublishMalformed(p)
      BY <2>2 DEF PublishMalformed, Decide, TypeOK
    <2>3. CASE RecoverStatus(p)
      BY <2>3 DEF RecoverStatus, Decide, TypeOK
    <2>4. CASE CheckStaged(p)
      BY <2>4 DEF CheckStaged, EntryFailed, Decide, TypeOK
    <2>5. CASE LoadPlan(p)
      BY <2>5 DEF LoadPlan, EntryFailed, Decide, TypeOK
    <2>6. CASE Spawn(p)
      BY <2>6 DEF Spawn, EntryFailed, Decide, TypeOK
    <2>7. CASE TransformSucceeds(p)
      BY <2>7 DEF TransformSucceeds, Decide, TypeOK
    <2>8. CASE TransformFails(p)
      BY <2>8 DEF TransformFails, EntryFailed, Decide, TypeOK
    <2>9. CASE WaitFails(p)
      BY <2>9 DEF WaitFails, EntryFailed, Decide, TypeOK
    <2>10. CASE PublishFailure(p)
      BY <2>10 DEF PublishFailure, Decide, TypeOK
    <2>11. CASE MoveToFailed(p)
      BY <2>11 DEF MoveToFailed, Decide, TypeOK
    <2> QED
      BY <2>1, <2>2, <2>3, <2>4, <2>5, <2>6, <2>7, <2>8, <2>9, <2>10, <2>11 DEF ProcStep, Step
  <1>5. target'[q] = target[q]
    <2>1. CASE StartProcessRun(p) \/ StartProcessOnce(p) \/ ListReady(p) \/ NextRecovery(p) \/
               NextClaim(p) \/ EndProcessOnce(p) \/ Claim(p) \/ Recheck(p) \/ FallThrough(p) \/
               Recover(p) \/ OpenLock(p) \/ Flock(p) \/ ReadReadyInputs(p) \/ ClaimMove(p) \/
               PublishMalformed(p) \/ MoveMalformed(p) \/ RecoverStatus(p) \/ StartImport(p) \/
               CreateWork(p) \/ CheckStaged(p) \/ Spawn(p) \/ TransformSucceeds(p) \/
               TransformFails(p) \/ WaitFails(p) \/ PublishStatus(p) \/ Finalize(p) \/ Prune(p)
               \/ Unlock(p) \/ Reply(p) \/ Observe(p) \/ PublishFailure(p) \/ MoveFailure(p) \/
               HandleError(p) \/ MoveToFailed(p) \/ Crash(p)
      BY <2>1 DEF StartProcessRun, StartProcessOnce, ListReady, NextRecovery, NextClaim,
             EndProcessOnce, Claim, Recheck, FallThrough, Recover, OpenLock, Flock,
             ReadReadyInputs, ClaimMove, PublishMalformed, MoveMalformed, RecoverStatus,
             StartImport, CreateWork, CheckStaged, Spawn, TransformSucceeds, TransformFails,
             WaitFails, PublishStatus, Finalize, Prune, Unlock, Reply, Observe,
             PublishFailure, MoveFailure, HandleError, MoveToFailed, Crash
    <2>2. CASE LoadPlan(p)
      BY <2>2 DEF LoadPlan, TypeOK
    <2> QED
      BY <2>1, <2>2 DEF ProcStep, Step
  <1> QED BY <1>1, <1>2, <1>3, <1>4, <1>5 DEF Still

\* A lock that is there is a lock file.
LEMMA OpenedLemma ==
    ASSUME TypeOK, NEW p \in Procs, NEW ph \in Phases, Queue(p, ph).lock # NoLock
    PROVE  Queue(p, ph).lock \in Inodes
  BY LocalsLemma, EditLemma DEF Queue, Dirs

\* Inputs that are understood, or a status, are those of a directory that is there.
LEMMA PresentLemma ==
    ASSUME TypeOK, AbsentEmpty, NEW p \in Procs, NEW ph \in Phases,
           InputsVerdict(Queue(p, ph)) = "ok" \/ Queue(p, ph).status \in PublishedStatus
    PROVE  Exists(run[p], ph)
  BY LocalsLemma DEF AbsentEmpty, InputsVerdict, Queue, NoDir, Contents, PublishedStatus

\* Every step has one of these effects on the locks.
LEMMA LockEffectLemma ==
    ASSUME TypeOK, AbsentEmpty, NEW p \in Procs, ProcStep(p)
    PROVE  LockEffect(p)
  <1>1. CASE StartProcessRun(p)
    BY <1>1, PcLemma DEF StartProcessRun, LockEffect, Searches, Leaves, Outside, Searching
  <1>2. CASE StartProcessOnce(p)
    BY <1>2, PcLemma DEF StartProcessOnce, LockEffect, Searches, Leaves, Outside, Searching
  <1>3. CASE ListReady(p)
    BY <1>3, PcLemma DEF ListReady, LockEffect, Searches, Leaves, Outside, Searching
  <1>4. CASE NextRecovery(p)
    BY <1>4, PcLemma DEF NextRecovery, LockEffect, Searches, Leaves, Outside, Searching
  <1>5. CASE NextClaim(p)
    BY <1>5, PcLemma DEF NextClaim, LockEffect, Searches, Leaves, Outside, Searching
  <1>6. CASE EndProcessOnce(p)
    BY <1>6, PcLemma DEF EndProcessOnce, LockEffect, Searches, Leaves, Outside, Searching
  <1>7. CASE Claim(p)
    BY <1>7, PcLemma DEF Claim, LockEffect, Searches, Leaves, Outside, Searching
  <1>8. CASE Recheck(p)
    BY <1>8, PcLemma DEF Recheck, LockEffect, Searches, Leaves, Outside, Searching
  <1>9. CASE FallThrough(p)
    BY <1>9, PcLemma DEF FallThrough, LockEffect, Searches, Leaves, Outside, Searching
  <1>10. CASE Recover(p)
    BY <1>10, PcLemma DEF Recover, LockEffect, Searches, Leaves, Outside, Searching
  <1>11. CASE OpenLock(p)
    <2>1. from[p] \in QueuePhases /\ from[p] \in Phases
      BY LocalsLemma, PhasesLemma
    <2>2. CASE ReturnError(p)
      BY <1>11, <2>2, PcLemma DEF OpenLock, LockEffect, Leaves, Outside, Searching
    <2>3. CASE ~Queue(p, from[p]).exists /\ ~ReturnError(p)
      BY <1>11, <2>3, PcLemma DEF OpenLock, Works, LockEffect, Searches, Outside, Searching
    <2>4. CASE Queue(p, from[p]).exists /\ ~ReturnError(p)
      <3>1. Exists(run[p], from[p])
        BY <2>4 DEF Exists, Queue
      <3> QED BY <1>11, <2>1, <2>4, <3>1, PcLemma, OpenedLemma
                 DEF OpenLock, Works, LockEffect, Opens
    <2> QED BY <2>2, <2>3, <2>4
  <1>12. CASE Flock(p)
    BY <1>12, PcLemma DEF Flock, LockEffect, Acquires, Leaves, Outside, Searching, Holding,
           Claiming, Importing
  <1>13. CASE ReadReadyInputs(p)
    BY <1>13, PcLemma DEF ReadReadyInputs, LockEffect, Stays, Holding, Claiming, Importing,
           Failing, Closing, Leaves, Outside, Searching
  <1>14. CASE ClaimMove(p)
    BY <1>14, PcLemma DEF ClaimMove, LockEffect, Stays, Holding, Claiming, Importing, Failing,
           Closing, Leaves, Outside, Searching
  <1>15. CASE PublishMalformed(p)
    BY <1>15, PcLemma DEF PublishMalformed, LockEffect, Stays, Holding, Claiming, Importing,
           Failing, Closing, Leaves, Outside, Searching
  <1>16. CASE MoveMalformed(p)
    BY <1>16, PcLemma DEF MoveMalformed, LockEffect, Stays, Holding, Claiming, Importing,
           Failing, Closing, Leaves, Outside, Searching
  <1>17. CASE RecoverStatus(p)
    BY <1>17, PcLemma, PresentLemma, PhasesLemma DEF RecoverStatus, LockEffect, Stays,
           Holding, Claiming, Importing, Failing, Closing, Leaves, Outside, Searching, Works
  <1>18. CASE StartImport(p)
    BY <1>18, PcLemma, PresentLemma, PhasesLemma DEF StartImport, LockEffect, Stays, Holding,
           Claiming, Importing, Failing, Closing, Leaves, Outside, Searching, Works
  <1>19. CASE CreateWork(p)
    BY <1>19, PcLemma DEF CreateWork, LockEffect, Stays, Holding, Claiming, Importing,
           Failing, Closing
  <1>20. CASE CheckStaged(p)
    BY <1>20, PcLemma DEF CheckStaged, LockEffect, Stays, Holding, Claiming, Importing,
           Failing, Closing, EntryFailed
  <1>21. CASE LoadPlan(p)
    BY <1>21, PcLemma DEF LoadPlan, LockEffect, Stays, Holding, Claiming, Importing, Failing,
           Closing, EntryFailed
  <1>22. CASE Spawn(p)
    BY <1>22, PcLemma DEF Spawn, LockEffect, Stays, Holding, Claiming, Importing, Failing,
           Closing, EntryFailed
  <1>23. CASE TransformSucceeds(p)
    BY <1>23, PcLemma DEF TransformSucceeds, LockEffect, Stays, Holding, Claiming, Importing,
           Failing, Closing
  <1>24. CASE TransformFails(p)
    BY <1>24, PcLemma DEF TransformFails, LockEffect, Stays, Holding, Claiming, Importing,
           Failing, Closing, EntryFailed
  <1>25. CASE WaitFails(p)
    BY <1>25, PcLemma DEF WaitFails, LockEffect, Stays, Holding, Claiming, Importing, Failing,
           Closing, EntryFailed
  <1>26. CASE PublishStatus(p)
    BY <1>26, PcLemma DEF PublishStatus, LockEffect, Stays, Holding, Claiming, Importing,
           Failing, Closing
  <1>27. CASE Finalize(p)
    BY <1>27, PcLemma DEF Finalize, LockEffect, Stays, Holding, Claiming, Importing, Failing,
           Closing
  <1>28. CASE Prune(p)
    BY <1>28, PcLemma DEF Prune, LockEffect, Stays, Holding, Claiming, Importing, Failing,
           Closing
  <1>29. CASE Unlock(p)
    BY <1>29, PcLemma DEF Unlock, LockEffect, Stays, Holding, Claiming, Importing, Failing,
           Closing
  <1>30. CASE Reply(p)
    BY <1>30, PcLemma DEF Reply, LockEffect, Stays, Holding, Claiming, Importing, Failing,
           Closing, Leaves, Outside, Searching
  <1>31. CASE Observe(p)
    BY <1>31, PcLemma DEF Observe, LockEffect, Searches, Leaves, Outside, Searching
  <1>32. CASE PublishFailure(p)
    BY <1>32, PcLemma DEF PublishFailure, LockEffect, Stays, Holding, Claiming, Importing,
           Failing, Closing, Leaves, Outside, Searching
  <1>33. CASE MoveFailure(p)
    BY <1>33, PcLemma DEF MoveFailure, LockEffect, Stays, Holding, Claiming, Importing,
           Failing, Closing, Leaves, Outside, Searching
  <1>34. CASE HandleError(p)
    BY <1>34, PcLemma DEF HandleError, LockEffect, Stays, Holding, Claiming, Importing,
           Failing, Closing
  <1>35. CASE MoveToFailed(p)
    BY <1>35, PcLemma DEF MoveToFailed, LockEffect, Stays, Holding, Claiming, Importing,
           Failing, Closing, Leaves, Outside, Searching
  <1>36. CASE Crash(p)
    BY <1>36, PcLemma DEF Crash, LockEffect, Leaves, Outside, Searching
  <1> QED
    BY <1>1, <1>2, <1>3, <1>4, <1>5, <1>6, <1>7, <1>8, <1>9, <1>10, <1>11, <1>12, <1>13,
           <1>14, <1>15, <1>16, <1>17, <1>18, <1>19, <1>20, <1>21, <1>22, <1>23, <1>24, <1>25,
           <1>26, <1>27, <1>28, <1>29, <1>30, <1>31, <1>32, <1>33, <1>34, <1>35, <1>36 DEF
           ProcStep, Step

----------------------------------------------------------------------------
(* Every status "done" stands for an import *)

\* The only step after which a status says "done" that did not is the
\* publication of that outcome.
LEMMA NoNewDone ==
    ASSUME TypeOK, NEW p \in Procs, ProcStep(p),
           NEW r \in Runs, NEW ph \in Phases, fs'[r][ph].status = "done"
    PROVE  \/ \E x \in Phases : fs[r][x].status = "done"
           \/ r = run[p] /\ pc[p] = "publish" /\ out[p] = "done"
  <1>1. fs \in FsType /\ run[p] \in Runs /\ NoLock \in Lock /\ Inodes \subseteq Lock
    BY LocalsLemma DEF Lock
  <1>2. \A x \in Phases : Queue(p, x) \in Dirs
    BY LocalsLemma, EditLemma DEF Queue
  <1>3. NoDir.status = "none"
    BY DEF NoDir, Contents
  <1>4. CASE UNCHANGED fs
    BY <1>4
  <1>5. CASE CreatesLock(p)
    <2>1. PICK x \in QueuePhases, i \in Inodes : fs' = Put(run[p], x, WithLock(Queue(p, x), i))
      BY <1>5 DEF CreatesLock
    <2>2. x \in Phases
      BY PhasesLemma
    <2>3. /\ WithLock(Queue(p, x), i) \in Dirs
          /\ WithLock(Queue(p, x), i).status = Queue(p, x).status
      BY <1>2, <2>2, WithLockLemma
    <2> QED BY <1>1, <2>1, <2>2, <2>3, PutLemma DEF Queue
  <1>6. CASE Moves(p)
    BY <1>1, <1>3, <1>6, RenameLemma, PhasesLemma DEF Moves
  <1>7. CASE Publishes(p)
    <2>1. PICK x \in QueuePhases, s \in {"none", "failed", out[p]} :
              /\ s = "done" => pc[p] = "publish"
              /\ fs' = Put(run[p], x, WithStatus(Queue(p, x), s))
      BY <1>7 DEF Publishes
    <2>2. x \in Phases /\ s \in StatusKinds
      BY LocalsLemma, PhasesLemma DEF PublishedStatus
    <2>3. /\ WithStatus(Queue(p, x), s) \in Dirs
          /\ WithStatus(Queue(p, x), s).status = s
      BY <1>2, <2>2, WithStatusLemma
    <2>4. fs'[r][ph] = IF r = run[p] /\ ph = x THEN WithStatus(Queue(p, x), s) ELSE fs[r][ph]
      BY <1>1, <2>1, <2>2, <2>3, PutLemma
    <2> QED BY <2>1, <2>3, <2>4
  <1>8. CASE Cleans(p)
    <2>1. PICK x \in TerminalPhases :
              \/ fs' = Put(run[p], x, WithLock(Queue(p, x), NoLock))
              \/ fs' = Put(run[p], x, Pruned(Queue(p, x)))
      BY <1>8 DEF Cleans
    <2>2. x \in Phases
      BY PhasesLemma
    <2>3. PICK d \in Dirs : fs' = Put(run[p], x, d) /\ d.status = Queue(p, x).status
      BY <1>1, <1>2, <2>1, <2>2, WithLockLemma, PrunedLemma
    <2> QED BY <1>1, <2>2, <2>3, PutLemma DEF Queue
  <1>9. CASE Plan(p)
    <2>1. PICK t \in Placements :
              fs' = Put(run[p], "processing", WithPlan(Queue(p, "processing"), t))
      BY <1>9 DEF Plan
    <2>2. /\ WithPlan(Queue(p, "processing"), t) \in Dirs
          /\ WithPlan(Queue(p, "processing"), t).status = Queue(p, "processing").status
      BY <1>2, PhasesLemma, WithPlanLemma
    <2> QED BY <1>1, <2>1, <2>2, PhasesLemma, PutLemma DEF Queue
  <1>10. CASE Scratch(p)
    <2>1. PICK d \in Dirs : /\ fs' = Put(run[p], "processing", d)
                            /\ d.status = Queue(p, "processing").status
      BY <1>2, <1>10, WithWorkLemma, WithoutWorkLemma, PhasesLemma DEF Scratch
    <2> QED BY <1>1, <2>1, PutLemma, PhasesLemma DEF Queue
  <1> QED BY <1>4, <1>5, <1>6, <1>7, <1>8, <1>9, <1>10, FsEffectLemma DEF FsEffect

\* An import is never forgotten.
LEMMA ImportedGrows ==
    ASSUME TypeOK, NEW p \in Procs, ProcStep(p)
    PROVE  imported \subseteq imported'
  <1>1. CASE StartProcessRun(p) \/ StartProcessOnce(p) \/ ListReady(p) \/
             NextRecovery(p) \/ NextClaim(p) \/ EndProcessOnce(p) \/ Claim(p) \/
             Recheck(p) \/ FallThrough(p) \/ Recover(p) \/ OpenLock(p) \/
             Flock(p) \/ ReadReadyInputs(p) \/ ClaimMove(p) \/
             PublishMalformed(p) \/ MoveMalformed(p) \/ RecoverStatus(p) \/
             StartImport(p) \/ CreateWork(p) \/ CheckStaged(p) \/ LoadPlan(p) \/
             Spawn(p) \/ TransformFails(p) \/ WaitFails(p) \/ PublishStatus(p)
             \/ Finalize(p) \/ Prune(p) \/ Unlock(p) \/ Reply(p) \/ Observe(p)
             \/ PublishFailure(p) \/ MoveFailure(p) \/ HandleError(p) \/
             MoveToFailed(p) \/ Crash(p)
    BY <1>1 DEF worldVars, StartProcessRun, StartProcessOnce, ListReady, NextRecovery,
           NextClaim, EndProcessOnce, Claim, Recheck, FallThrough, Recover, OpenLock, Flock,
           ReadReadyInputs, ClaimMove, PublishMalformed, MoveMalformed, RecoverStatus,
           StartImport, CreateWork, CheckStaged, LoadPlan, Spawn, TransformFails, WaitFails,
           PublishStatus, Finalize, Prune, Unlock, Reply, Observe, PublishFailure,
           MoveFailure, HandleError, MoveToFailed, Crash
  <1>2. CASE TransformSucceeds(p)
    BY <1>2 DEF TransformSucceeds
  <1> QED BY <1>1, <1>2 DEF ProcStep, Step

\* What a processor is about to publish as done has been imported, or the status
\* it recovers says so already.
LEMMA OutcomeLemma ==
    ASSUME TypeOK, NEW p \in Procs, ProcStep(p),
           pc'[p] \in {"publish", "final"}, out'[p] = "done"
    PROVE  /\ run'[p] = run[p]
           /\ \/ pc[p] = "publish" /\ out[p] = "done"
              \/ fs[run[p]]["processing"].status = "done"
              \/ run[p] \in imported'
  <1>1. \A s : Decide(p, s) => out'[p] = s
    BY DEF Decide, TypeOK
  <1>2. ~EntryFailed(p)
    BY <1>1 DEF EntryFailed
  <1>3. CASE StartProcessRun(p) \/ StartProcessOnce(p) \/ ListReady(p) \/
             NextRecovery(p) \/ NextClaim(p) \/ EndProcessOnce(p) \/ Claim(p) \/
             Recheck(p) \/ FallThrough(p) \/ Recover(p) \/ OpenLock(p) \/
             Flock(p) \/ ReadReadyInputs(p) \/ ClaimMove(p) \/
             PublishMalformed(p) \/ MoveMalformed(p) \/ StartImport(p) \/
             CreateWork(p) \/ Finalize(p) \/ Prune(p) \/ Unlock(p) \/ Reply(p)
             \/ Observe(p) \/ PublishFailure(p) \/ MoveFailure(p) \/
             HandleError(p) \/ MoveToFailed(p) \/ Crash(p)
    BY <1>3, PcLemma DEF StartProcessRun, StartProcessOnce, ListReady, NextRecovery,
           NextClaim, EndProcessOnce, Claim, Recheck, FallThrough, Recover, OpenLock, Flock,
           ReadReadyInputs, ClaimMove, PublishMalformed, MoveMalformed, StartImport,
           CreateWork, Finalize, Prune, Unlock, Reply, Observe, PublishFailure, MoveFailure,
           HandleError, MoveToFailed, Crash
  <1>4. CASE RecoverStatus(p)
    BY <1>4, <1>1, <1>2, PcLemma, LocalsLemma DEF RecoverStatus, Works, Queue
  <1>5. CASE CheckStaged(p)
    BY <1>5, <1>1, <1>2, PcLemma, LocalsLemma DEF CheckStaged
  <1>6. CASE LoadPlan(p)
    BY <1>6, <1>1, <1>2, PcLemma, LocalsLemma DEF LoadPlan
  <1>7. CASE Spawn(p)
    BY <1>7, <1>1, <1>2, PcLemma, LocalsLemma DEF Spawn
  <1>8. CASE TransformSucceeds(p)
    BY <1>8, <1>1, <1>2, PcLemma, LocalsLemma DEF TransformSucceeds
  <1>9. CASE TransformFails(p)
    BY <1>9, <1>1, <1>2, PcLemma, LocalsLemma DEF TransformFails
  <1>10. CASE WaitFails(p)
    BY <1>10, <1>1, <1>2, PcLemma, LocalsLemma DEF WaitFails
  <1>11. CASE PublishStatus(p)
    BY <1>11, <1>1, <1>2, PcLemma, LocalsLemma DEF PublishStatus
  <1> QED
    BY <1>3, <1>4, <1>5, <1>6, <1>7, <1>8, <1>9, <1>10, <1>11 DEF ProcStep, Step

\* Every step keeps the invariant that what is or will be published as done was imported.
LEMMA ImportStep == TypeOK /\ ImportInv /\ [Next]_vars => ImportInv'
  <1> SUFFICES ASSUME TypeOK, ImportInv, [Next]_vars PROVE ImportInv'
    OBVIOUS
  <1>1. ASSUME NEW p \in Procs, ProcStep(p) PROVE ImportInv'
    <2>1. imported \subseteq imported'
      BY <1>1, ImportedGrows
    <2>2. DoneMeansImported'
      BY <1>1, <2>1, NoNewDone DEF ImportInv, DoneMeansImported
    <2>3. ASSUME NEW q \in Procs, pc'[q] \in {"publish", "final"}, out'[q] = "done"
          PROVE  run'[q] \in imported'
      <3>1. CASE q = p
        <4>1. fs[run[p]]["processing"].status = "done" => run[p] \in imported
          BY LocalsLemma, PhasesLemma DEF ImportInv, DoneMeansImported
        <4> QED BY <1>1, <2>1, <2>3, <3>1, <4>1, OutcomeLemma DEF ImportInv
      <3>2. CASE q # p
        BY <1>1, <2>1, <2>3, <3>2, StillLemma DEF Still, ImportInv
      <3> QED BY <3>1, <3>2
    <2> QED BY <2>2, <2>3 DEF ImportInv
  <1>2. CASE UNCHANGED <<fs, procVars, imported>>
    BY <1>2 DEF procVars, ImportInv, DoneMeansImported
  <1>3. CASE \E r \in Runs : TransformWrites(r) \/ OrphanExits(r)
    BY <1>2, <1>3 DEF TransformWrites, OrphanExits
  <1>4. CASE \E o \in Observers : ProbeLock(o) \/ EndProbe(o)
    BY <1>2, <1>4 DEF ProbeLock, EndProbe, worldVars
  <1>5. CASE UNCHANGED vars
    BY <1>2, <1>5 DEF vars, worldVars
  <1> QED BY <1>1, <1>3, <1>4, <1>5 DEF Next, ProcStep

\* No run that is found at the start is published as done.
LEMMA ImportInit == Init => ImportInv
  <1> SUFFICES ASSUME Init PROVE ImportInv
    OBVIOUS
  <1>1. \A a \in Arrivals, ph \in Phases : Found(a)[ph].status # "done"
    BY ProcessorAssumption DEF Found, NoDir, Contents
  <1>2. \A r \in Runs : \E a \in Arrivals : fs[r] = Found(a)
    BY DEF Init, Quiescent
  <1>3. \A p \in Procs : pc[p] = "idle"
    BY DEF Init, Quiescent
  <1> QED BY <1>1, <1>2, <1>3 DEF ImportInv, DoneMeansImported

\* A status "done", on which the client deletes its copy, is only ever on disk
\* for a run of which a transform has delivered all outputs.
THEOREM DoneIsImported == Spec => []DoneMeansImported
  <1>1. ImportInv => DoneMeansImported
    BY DEF ImportInv
  <1> QED BY <1>1, TypeCorrect, ImportInit, ImportStep, PTL DEF Spec

----------------------------------------------------------------------------
(* One holder per run *)

\* One directory of p's run was edited: how its files changed.
Edited(p, x) ==
    LET d == fs[run[p]][x]
        e == fs'[run[p]][x] IN
    /\ e.exists
    /\ d.exists \/ (pc[p] = "work" /\ x = "processing")
    /\ \/ e.lock = d.lock
       \/ x \in TerminalPhases
       \/ pc[p] = "open" /\ d.lock = NoLock /\ fd'[p] = e.lock
    /\ x \in TerminalPhases => e.status = d.status
    /\ e.plan = d.plan \/ (pc[p] = "plan" /\ d.plan = "none")
    /\ pc[p] \in Holding \cup {"open"}

\* p's run went from phase a to phase b.
Moved(p, a, b) ==
    /\ a \in QueuePhases /\ b \in {"processing"} \cup TerminalPhases /\ a # b
    /\ pc[p] \in Holding /\ pc'[p] \notin Importing
    /\ Exists(run[p], a) /\ ~Exists(run[p], b)
    /\ fs'[run[p]][a] = NoDir
    /\ fs'[run[p]][b] = fs[run[p]][a]

Unchanged(r, ph) == fs'[r][ph] = fs[r][ph]

\* d is what an edit may make of directory x of p's run.
EditOf(p, x, d) ==
    LET old == Queue(p, x) IN
    /\ d \in Dirs
    /\ d.exists
    /\ old.exists \/ (pc[p] = "work" /\ x = "processing")
    /\ \/ d.lock = old.lock
       \/ x \in TerminalPhases
       \/ pc[p] = "open" /\ old.lock = NoLock /\ fd'[p] = d.lock
    /\ x \in TerminalPhases => d.status = old.status
    /\ d.plan = old.plan \/ (pc[p] = "plan" /\ old.plan = "none")
    /\ pc[p] \in Holding \cup {"open"}

OthersUnchanged(p) == \A r \in Runs \ {run[p]}, ph \in Phases : Unchanged(r, ph)

EditsOne(p) ==
    \E x \in Phases :
        /\ Edited(p, x)
        /\ \A ph \in Phases \ {x} : Unchanged(run[p], ph)

MovesOne(p) ==
    \E a, b \in Phases :
        /\ Moved(p, a, b)
        /\ \A ph \in Phases \ {a, b} : Unchanged(run[p], ph)

\* Putting an edited directory in its place edits one directory of p's run and no other.
LEMMA PutEdits ==
    ASSUME TypeOK, NEW p \in Procs, NEW x \in Phases, NEW d,
           EditOf(p, x, d), fs' = Put(run[p], x, d)
    PROVE  OthersUnchanged(p) /\ EditsOne(p)
  <1>1. \A r \in Runs, ph \in Phases :
            fs'[r][ph] = IF r = run[p] /\ ph = x THEN d ELSE fs[r][ph]
    BY LocalsLemma, PutLemma DEF EditOf
  <1>2. run[p] \in Runs
    BY LocalsLemma
  <1>3. Edited(p, x)
    BY <1>1, <1>2 DEF Edited, EditOf, Queue
  <1> QED BY <1>1, <1>2, <1>3 DEF OthersUnchanged, EditsOne, Unchanged

\* A step changes the directories of one run only: it edits one, or moves it.
LEMMA DirEffect ==
    ASSUME TypeOK, NEW p \in Procs, ProcStep(p)
    PROVE  /\ OthersUnchanged(p)
           /\ (\A ph \in Phases : Unchanged(run[p], ph)) \/ EditsOne(p) \/ MovesOne(p)
  <1>1. /\ fs \in FsType
        /\ run[p] \in Runs
        /\ \A x \in Phases : Queue(p, x) \in Dirs /\ Queue(p, x).exists = Exists(run[p], x)
    BY LocalsLemma, EditLemma DEF Queue, Exists
  <1>3. CASE UNCHANGED fs
    BY <1>1, <1>3 DEF OthersUnchanged, Unchanged
  <1>4. CASE CreatesLock(p)
    <2>1. PICK x \in QueuePhases, i \in Inodes :
              /\ pc[p] = "open"
              /\ Exists(run[p], x)
              /\ Queue(p, x).lock = NoLock
              /\ fd' = [fd EXCEPT ![p] = i]
              /\ fs' = Put(run[p], x, WithLock(Queue(p, x), i))
      BY <1>4 DEF CreatesLock
    <2>2. x \in Phases /\ fd'[p] = i
      BY <2>1, PhasesLemma DEF TypeOK
    <2>3. /\ WithLock(Queue(p, x), i) \in Dirs
          /\ WithLock(Queue(p, x), i).lock = i
          /\ WithLock(Queue(p, x), i).plan = Queue(p, x).plan
          /\ WithLock(Queue(p, x), i).exists
      BY <1>1, <2>1, <2>2, WithLockLemma DEF Lock
    <2>4. EditOf(p, x, WithLock(Queue(p, x), i))
      BY <1>1, <2>1, <2>2, <2>3, PhasesLemma DEF EditOf
    <2> QED BY <2>1, <2>2, <2>4, PutEdits
  <1>5. CASE pc[p] \in Holding /\ Moves(p)
    <2>1. PICK a \in QueuePhases, b \in {"processing"} \cup TerminalPhases :
              /\ a # b
              /\ CanRename(run[p], a, b)
              /\ fs' = Rename(run[p], a, b)
      BY <1>5 DEF Moves
    <2>2. a \in Phases /\ b \in Phases
      BY PhasesLemma
    <2>3. \A q \in Runs, x \in Phases :
              fs'[q][x] = IF q = run[p] /\ x = a THEN NoDir
                          ELSE IF q = run[p] /\ x = b THEN fs[run[p]][a]
                          ELSE fs[q][x]
      BY <1>1, <2>1, <2>2, RenameLemma
    <2>4. Moved(p, a, b)
      BY <1>1, <1>5, <2>1, <2>2, <2>3 DEF Moves, Moved, CanRename
    <2>5. OthersUnchanged(p)
      BY <2>3 DEF OthersUnchanged, Unchanged
    <2>6. \A ph \in Phases \ {a, b} : Unchanged(run[p], ph)
      BY <1>1, <2>3 DEF Unchanged
    <2> QED BY <2>2, <2>4, <2>5, <2>6 DEF MovesOne
  <1>6. CASE pc[p] \in Holding /\ Publishes(p)
    <2>1. PICK x \in QueuePhases, s \in {"none", "failed", out[p]} :
              /\ Exists(run[p], x)
              /\ fs' = Put(run[p], x, WithStatus(Queue(p, x), s))
      BY <1>6 DEF Publishes
    <2>2. x \in Phases /\ s \in StatusKinds
      BY LocalsLemma, PhasesLemma DEF PublishedStatus
    <2>3. /\ WithStatus(Queue(p, x), s) \in Dirs
          /\ WithStatus(Queue(p, x), s).lock = Queue(p, x).lock
          /\ WithStatus(Queue(p, x), s).plan = Queue(p, x).plan
          /\ WithStatus(Queue(p, x), s).exists
      BY <1>1, <2>1, <2>2, WithStatusLemma
    <2>4. EditOf(p, x, WithStatus(Queue(p, x), s))
      BY <1>1, <1>6, <2>1, <2>2, <2>3, PhasesLemma DEF EditOf
    <2> QED BY <2>1, <2>2, <2>4, PutEdits
  <1>7. CASE pc[p] \in Holding /\ Cleans(p)
    <2>1. PICK x \in TerminalPhases :
              /\ Exists(run[p], x)
              /\ \/ fs' = Put(run[p], x, WithLock(Queue(p, x), NoLock))
                 \/ fs' = Put(run[p], x, Pruned(Queue(p, x)))
      BY <1>7 DEF Cleans
    <2>2. x \in Phases
      BY PhasesLemma
    <2>3. /\ WithLock(Queue(p, x), NoLock) \in Dirs
          /\ WithLock(Queue(p, x), NoLock).status = Queue(p, x).status
          /\ WithLock(Queue(p, x), NoLock).plan = Queue(p, x).plan
          /\ WithLock(Queue(p, x), NoLock).exists
      BY <1>1, <2>1, <2>2, WithLockLemma
    <2>4. /\ Pruned(Queue(p, x)) \in Dirs
          /\ Pruned(Queue(p, x)).status = Queue(p, x).status
          /\ Pruned(Queue(p, x)).plan = Queue(p, x).plan
          /\ Pruned(Queue(p, x)).exists
      BY <1>1, <2>1, <2>2, PrunedLemma
    <2>5. /\ EditOf(p, x, WithLock(Queue(p, x), NoLock))
          /\ EditOf(p, x, Pruned(Queue(p, x)))
      BY <1>1, <1>7, <2>1, <2>2, <2>3, <2>4, PhasesLemma DEF EditOf
    <2> QED BY <2>1, <2>2, <2>5, PutEdits
  <1>8. CASE pc[p] \in Holding /\ Plan(p)
    <2>1. PICK t \in Placements :
              /\ pc[p] = "plan"
              /\ Exists(run[p], "processing")
              /\ Queue(p, "processing").plan = "none"
              /\ fs' = Put(run[p], "processing", WithPlan(Queue(p, "processing"), t))
      BY <1>8 DEF Plan
    <2>2. "processing" \in Phases /\ t \in Plans
      BY PhasesLemma
    <2>3. /\ WithPlan(Queue(p, "processing"), t) \in Dirs
          /\ WithPlan(Queue(p, "processing"), t).lock = Queue(p, "processing").lock
          /\ WithPlan(Queue(p, "processing"), t).exists
      BY <1>1, <2>1, <2>2, WithPlanLemma
    <2>4. EditOf(p, "processing", WithPlan(Queue(p, "processing"), t))
      BY <1>1, <1>8, <2>1, <2>2, <2>3, PhasesLemma DEF EditOf
    <2> QED BY <2>1, <2>2, <2>4, PutEdits
  <1>9. CASE pc[p] \in Holding /\ Scratch(p)
    <2>1. "processing" \in Phases
      BY PhasesLemma
    <2>2. /\ WithWork(Queue(p, "processing")) \in Dirs
          /\ WithWork(Queue(p, "processing")).lock = Queue(p, "processing").lock
          /\ WithWork(Queue(p, "processing")).plan = Queue(p, "processing").plan
          /\ WithWork(Queue(p, "processing")).exists
      BY <1>1, <2>1, WithWorkLemma
    <2>3. /\ WithoutWork(Queue(p, "processing")) \in Dirs
          /\ WithoutWork(Queue(p, "processing")).lock = Queue(p, "processing").lock
          /\ WithoutWork(Queue(p, "processing")).plan = Queue(p, "processing").plan
          /\ WithoutWork(Queue(p, "processing")).exists = Exists(run[p], "processing")
      BY <1>1, <2>1, WithoutWorkLemma
    <2>4. CASE /\ pc[p] = "work"
               /\ fs' = Put(run[p], "processing", WithWork(Queue(p, "processing")))
      <3>1. EditOf(p, "processing", WithWork(Queue(p, "processing")))
        BY <1>1, <1>9, <2>1, <2>2, <2>4, PhasesLemma DEF EditOf
      <3> QED BY <2>1, <2>4, <3>1, PutEdits
    <2>5. CASE /\ Exists(run[p], "processing")
               /\ fs' = Put(run[p], "processing", WithoutWork(Queue(p, "processing")))
      <3>1. EditOf(p, "processing", WithoutWork(Queue(p, "processing")))
        BY <1>1, <1>9, <2>1, <2>3, <2>5, PhasesLemma DEF EditOf
      <3> QED BY <2>1, <2>5, <3>1, PutEdits
    <2> QED BY <1>9, <2>4, <2>5 DEF Scratch
  <1> QED BY <1>3, <1>4, <1>5, <1>6, <1>7, <1>8, <1>9, FsEffectLemma DEF FsEffect

\* Two holders of the same lock file are the same process.
LEMMA OneHolder == LockInv => MutualExclusion
  BY NamesAssumption DEF LockInv, DescriptorsOpen, OneLockFile, MutualExclusion

\* Whoever has no lock open is at a step outside, and the other way round.
LEMMA OutsideLemma ==
    /\ Outside \cap (Holding \cup {"flock"}) = {}
    /\ Importing \subseteq Holding
    /\ "flock" \notin Holding /\ "open" \in Outside
    /\ "idle" \in Outside
  BY DEF Outside, Searching, Holding, Claiming, Importing, Failing, Closing

\* No step leaves contents in a directory that is not there.
LEMMA AbsentStep ==
    ASSUME TypeOK, AbsentEmpty, NEW p \in Procs, ProcStep(p)
    PROVE  AbsentEmpty'
  <1> SUFFICES ASSUME NEW r \in Runs, NEW ph \in Phases
               PROVE  Exists(r, ph)' \/ fs'[r][ph] = NoDir
    BY DEF AbsentEmpty
  <1>1. Exists(r, ph) \/ fs[r][ph] = NoDir
    BY DEF AbsentEmpty
  <1>2. CASE Unchanged(r, ph)
    BY <1>1, <1>2 DEF Unchanged, Exists
  <1>3. CASE r = run[p] /\ EditsOne(p)
    BY <1>2, <1>3 DEF EditsOne, Edited, Exists
  <1>4. CASE r = run[p] /\ MovesOne(p)
    BY <1>2, <1>4 DEF MovesOne, Moved, Exists
  <1> QED BY <1>2, <1>3, <1>4, DirEffect, LocalsLemma DEF OthersUnchanged

\* Every step keeps descriptors and flock owners in line with the steps of the processes.
LEMMA DescriptorsStep ==
    ASSUME TypeOK, LockInv, NEW p \in Procs, ProcStep(p)
    PROVE  DescriptorsOpen'
  <1> SUFFICES ASSUME NEW q \in Procs
               PROVE  /\ fd'[q] # NoLock <=> pc'[q] \in Holding \cup {"flock"}
                      /\ pc'[q] \in Holding => owner'[fd'[q]] = q
    BY DEF DescriptorsOpen
  <1>1. /\ fd[q] # NoLock <=> pc[q] \in Holding \cup {"flock"}
        /\ pc[q] \in Holding => owner[fd[q]] = q
        /\ fd[p] # NoLock <=> pc[p] \in Holding \cup {"flock"}
        /\ pc[p] \in Holding => owner[fd[p]] = p
    BY DEF LockInv, DescriptorsOpen
  <1>2. /\ q # p => pc'[q] = pc[q] /\ fd'[q] = fd[q]
        /\ LockEffect(p)
        /\ fd \in [Procs -> Lock] /\ owner \in [Inodes -> Owners]
    BY StillLemma, LockEffectLemma
       DEF Still, LockInv, TypeOK, WorkDirTypeOK, Lock, Owners
  <1>3. CASE Searches(p)
    BY <1>1, <1>2, <1>3, OutsideLemma DEF Searches
  <1>4. CASE Opens(p)
    BY <1>1, <1>2, <1>4, OutsideLemma, NamesAssumption DEF Opens
  <1>5. CASE Acquires(p)
    <2>1. fd[p] \in Inodes
      BY <1>1, <1>2, <1>5 DEF Acquires, Lock
    <2>2. CASE q = p
      BY <1>1, <1>2, <1>5, <2>1, <2>2 DEF Acquires
    <2>3. CASE q # p
      BY <1>1, <1>2, <1>5, <2>1, <2>3, NamesAssumption DEF Acquires
    <2> QED BY <2>2, <2>3
  <1>6. CASE Stays(p)
    BY <1>1, <1>2, <1>6 DEF Stays
  <1>7. CASE Leaves(p)
    <2>1. fd'[p] = NoLock
      BY <1>2, <1>7 DEF Leaves, Drop
    <2>2. CASE q = p
      BY <1>7, <2>1, <2>2, OutsideLemma DEF Leaves
    <2>3. CASE q # p
      <3>1. pc[q] \in Holding => fd[q] \in Inodes
        BY <1>1, <1>2 DEF Lock
      <3> QED BY <1>1, <1>2, <1>7, <2>3, <3>1 DEF Leaves, Drop, Released
    <2> QED BY <2>2, <2>3
  <1> QED BY <1>2, <1>3, <1>4, <1>5, <1>6, <1>7 DEF LockEffect

\* While a lock is open, the queued directory of its run keeps its lock file.
LEMMA LockFileStays ==
    ASSUME TypeOK, LockInv, NEW p \in Procs, ProcStep(p),
           NEW r \in Runs, NEW ph \in QueuePhases, Exists(r, ph)'
    PROVE  \E x \in QueuePhases :
              /\ Exists(r, x)
              /\ \/ fs'[r][ph].lock = fs[r][x].lock
                 \/ /\ r = run[p] /\ pc[p] = "open"
                    /\ fs[r][x].lock = NoLock /\ fd'[p] = fs'[r][ph].lock
  <1>1. ph \in Phases /\ ph \notin TerminalPhases
    BY PhasesLemma
  <1>2. CASE Unchanged(r, ph)
    BY <1>2 DEF Unchanged, Exists
  <1>3. CASE r = run[p] /\ EditsOne(p)
    <2>1. CASE Edited(p, ph)
      <3>1. Exists(r, ph)
        <4>1. CASE pc[p] = "work"
          <5>1. pc[p] \in Importing
            BY <4>1 DEF Importing
          <5> QED BY <1>3, <2>1, <5>1 DEF LockInv, QueuedOnce, Edited, Exists
        <4> QED BY <1>3, <2>1, <4>1 DEF Edited, Exists
      <3> QED BY <1>1, <1>3, <2>1, <3>1 DEF Edited
    <2> QED BY <1>1, <1>2, <1>3, <2>1 DEF EditsOne
  <1>4. CASE r = run[p] /\ MovesOne(p)
    <2>1. PICK a, b \in Phases :
              /\ Moved(p, a, b)
              /\ \A x \in Phases \ {a, b} : Unchanged(run[p], x)
      BY <1>4 DEF MovesOne
    <2>2. ph # a
      BY <1>4, <2>1, NoDirLemma DEF Moved, Exists
    <2>3. CASE ph = b
      BY <1>4, <2>1, <2>3 DEF Moved
    <2> QED BY <1>1, <1>2, <1>4, <2>1, <2>2, <2>3
  <1> QED BY <1>1, <1>2, <1>3, <1>4, DirEffect DEF OthersUnchanged

\* Every step keeps all openers of a run's lock on the lock file of its queued directory.
LEMMA OneLockFileStep ==
    ASSUME TypeOK, LockInv, NEW p \in Procs, ProcStep(p)
    PROVE  OneLockFile'
  <1>1. /\ LockEffect(p)
        /\ \A q \in Procs \ {p} : Still(q)
        /\ \A q \in Procs : fd[q] # NoLock <=> pc[q] \in Holding \cup {"flock"}
        /\ run[p] \in Runs /\ fd \in [Procs -> Lock]
    BY StillLemma, LockEffectLemma, LocalsLemma
       DEF LockInv, DescriptorsOpen, TypeOK, Lock
  <1>2. \/ fd'[p] = NoLock
        \/ /\ run'[p] = run[p]
           /\ fd'[p] = fd[p]
           /\ pc[p] # "open"
        \/ Opens(p)
    <2>1. CASE Searches(p)
      BY <1>1, <2>1, OutsideLemma DEF Searches
    <2>2. CASE Acquires(p) \/ Stays(p)
      BY <2>2, OutsideLemma DEF Acquires, Stays
    <2>3. CASE Leaves(p)
      BY <1>1, <2>3 DEF Leaves, Drop
    <2> QED BY <1>1, <2>1, <2>2, <2>3 DEF LockEffect
  \* What p opens is the lock file everyone who has opened one has.
  <1>3. ASSUME Opens(p), NEW q \in Procs \ {p}, run[q] = run[p], fd[q] # NoLock
        PROVE  fd'[p] = fd[q]
    <2>1. PICK ph \in QueuePhases, i \in Inodes :
              /\ Exists(run[p], ph)
              /\ Queue(p, ph).lock \in {i, NoLock}
              /\ fd' = [fd EXCEPT ![p] = i]
      BY <1>3 DEF Opens
    <2>2. Queue(p, ph).lock = fd[q]
      BY <1>3, <2>1 DEF LockInv, OneLockFile, Queue
    <2> QED BY <1>1, <1>3, <2>1, <2>2
  <1>4. ASSUME NEW q \in Procs, NEW s \in Procs,
               run'[q] = run'[s], fd'[q] # NoLock, fd'[s] # NoLock
        PROVE  fd'[q] = fd'[s]
    <2>1. Opens(p) => run'[p] = run[p]
      BY DEF Opens
    <2>2. \A u, v \in Procs :
              run[u] = run[v] /\ fd[u] # NoLock /\ fd[v] # NoLock => fd[u] = fd[v]
      BY DEF LockInv, OneLockFile
    <2>3. CASE q # p /\ s # p
      BY <1>1, <1>4, <2>2, <2>3 DEF Still
    <2>4. CASE q = p /\ s # p
      BY <1>1, <1>2, <1>3, <1>4, <2>1, <2>2, <2>4 DEF Still
    <2>5. CASE q # p /\ s = p
      BY <1>1, <1>2, <1>3, <1>4, <2>1, <2>2, <2>5 DEF Still
    <2> QED BY <2>3, <2>4, <2>5
  <1>5. ASSUME NEW q \in Procs, NEW ph \in QueuePhases,
               fd'[q] # NoLock, fs'[run[q]][ph].exists, run'[q] = run[q], fd'[q] = fd[q],
               q # p \/ pc[p] # "open"
        PROVE  fs'[run[q]][ph].lock = fd'[q]
    <2>1. run[q] \in Runs
      BY LocalsLemma
    <2>2. PICK x \in QueuePhases :
              /\ Exists(run[q], x)
              /\ \/ fs'[run[q]][ph].lock = fs[run[q]][x].lock
                 \/ /\ pc[p] = "open"
                    /\ fs[run[q]][x].lock = NoLock
      BY <1>5, <2>1, LockFileStays DEF Exists
    <2>3. fs[run[q]][x].lock = fd[q]
      BY <1>5, <2>2 DEF LockInv, OneLockFile
    <2> QED BY <1>5, <2>2, <2>3
  <1>6. ASSUME Opens(p), NEW ph \in QueuePhases, fs'[run[p]][ph].exists
        PROVE  fs'[run[p]][ph].lock = fd'[p]
    <2>1. PICK x \in QueuePhases, i \in Inodes :
              /\ Exists(run[p], x)
              /\ \/ Queue(p, x).lock = i /\ UNCHANGED fs
                 \/ /\ Queue(p, x).lock = NoLock
                    /\ fs' = Put(run[p], x, WithLock(Queue(p, x), i))
              /\ fd' = [fd EXCEPT ![p] = i]
      BY <1>6 DEF Opens
    <2>2. fd'[p] = i /\ x \in Phases /\ ph \in Phases /\ fs \in FsType
          /\ Queue(p, x) \in Dirs /\ WithLock(Queue(p, x), i) \in Dirs
          /\ WithLock(Queue(p, x), i).lock = i
      BY <1>1, <2>1, LocalsLemma, EditLemma, PhasesLemma, WithLockLemma DEF Queue
    <2>3. Exists(run[p], ph) => ph = x
      BY <1>1, <2>1 DEF LockInv, QueuedOnce, QueuePhases
    <2>4. CASE UNCHANGED fs /\ Queue(p, x).lock = i
      BY <1>6, <2>2, <2>3, <2>4 DEF Exists, Queue
    <2>5. CASE fs' = Put(run[p], x, WithLock(Queue(p, x), i))
      <3>1. fs'[run[p]][ph] = IF ph = x THEN WithLock(Queue(p, x), i) ELSE fs[run[p]][ph]
        BY <1>1, <2>2, <2>5, PutLemma
      <3> QED BY <1>6, <2>2, <2>3, <3>1 DEF Exists
    <2> QED BY <2>1, <2>4, <2>5
  <1>7. ASSUME NEW q \in Procs, NEW ph \in QueuePhases,
               fd'[q] # NoLock, fs'[run'[q]][ph].exists
        PROVE  fs'[run'[q]][ph].lock = fd'[q]
    <2>1. CASE q # p
      BY <1>1, <1>5, <1>7, <2>1 DEF Still
    <2>2. CASE q = p /\ Opens(p)
      <3>1. run'[p] = run[p]
        BY <2>2 DEF Opens
      <3> QED BY <1>6, <1>7, <2>2, <3>1
    <2>3. CASE q = p /\ ~Opens(p)
      BY <1>2, <1>5, <1>7, <2>3
    <2> QED BY <2>1, <2>2, <2>3
  <1> QED BY <1>4, <1>7 DEF OneLockFile, Exists

\* Every step keeps a run in one of the queue phases, and in processing/ while it is imported.
LEMMA QueuedOnceStep ==
    ASSUME TypeOK, LockInv, NEW p \in Procs, ProcStep(p)
    PROVE  QueuedOnce'
  <1>1. ASSUME NEW r \in Runs
        PROVE  ~(fs'[r]["ready"].exists /\ fs'[r]["processing"].exists)
    <2>1. ~(fs[r]["ready"].exists /\ fs[r]["processing"].exists)
      BY DEF LockInv, QueuedOnce, Exists
    <2>2. "ready" \in Phases /\ "processing" \in Phases /\ "ready" # "processing"
      BY PhasesLemma
    <2>3. CASE Unchanged(r, "ready") /\ Unchanged(r, "processing")
      BY <2>1, <2>3 DEF Unchanged
    <2>4. CASE r = run[p] /\ EditsOne(p)
      <3>1. PICK x \in Phases : /\ Edited(p, x)
                                /\ \A ph \in Phases \ {x} : Unchanged(run[p], ph)
        BY <2>4 DEF EditsOne
      <3>2. fs[run[p]][x].exists
        <4>1. pc[p] = "work" => Exists(run[p], "processing")
          BY DEF LockInv, QueuedOnce, Importing
        <4> QED BY <3>1, <4>1 DEF Edited, Exists
      <3> QED BY <2>1, <2>2, <2>4, <3>1, <3>2 DEF Unchanged
    <2>5. CASE r = run[p] /\ MovesOne(p)
      <3>1. PICK a, b \in Phases :
                /\ Moved(p, a, b)
                /\ \A x \in Phases \ {a, b} : Unchanged(run[p], x)
        BY <2>5 DEF MovesOne
      <3>2. ~fs'[r][a].exists /\ a \in QueuePhases /\ fs[r][a].exists
        BY <2>5, <3>1, NoDirLemma DEF Moved, Exists
      <3>3. a = "ready" \/ a = "processing"
        BY <3>2 DEF QueuePhases
      <3> QED BY <3>2, <3>3
    <2> QED BY <2>2, <2>3, <2>4, <2>5, DirEffect DEF OthersUnchanged
  <1>2. ASSUME NEW q \in Procs, pc'[q] \in Importing
        PROVE  fs'[run'[q]]["processing"].exists
    <2>1. \A s \in Procs : pc[s] \in Importing => Exists(run[s], "processing")
      BY DEF LockInv, QueuedOnce
    <2>2. "processing" \in Phases /\ run[p] \in Runs /\ run[q] \in Runs
      BY PhasesLemma, LocalsLemma
    \* An edit keeps the directory, and only a holder moves it.
    <2>3. ASSUME Exists(run[q], "processing"), ~MovesOne(p) \/ run[q] # run[p]
          PROVE  fs'[run[q]]["processing"].exists
      <3>1. CASE Unchanged(run[q], "processing")
        BY <2>3, <3>1 DEF Unchanged, Exists
      <3>2. CASE EditsOne(p) /\ run[q] = run[p]
        BY <2>2, <3>1, <3>2 DEF EditsOne, Edited
      <3> QED BY <2>2, <2>3, <3>1, <3>2, DirEffect DEF OthersUnchanged
    <2>4. CASE q = p
      <3>1. ~MovesOne(p)
        BY <1>2, <2>4 DEF MovesOne, Moved
      <3>2. run'[p] = run[p] /\ Exists(run[p], "processing")
        <4>1. pc'[p] \in Holding /\ pc'[p] \notin Outside /\ pc'[p] # "flock"
          BY <1>2, <2>4, OutsideLemma
        <4>2. LockEffect(p)
          BY LockEffectLemma DEF LockInv
        <4>3. Stays(p)
          BY <1>2, <2>4, <4>1, <4>2
             DEF LockEffect, Searches, Opens, Acquires, Leaves
        <4> QED BY <1>2, <2>1, <2>4, <4>3 DEF Stays
      <3> QED BY <2>3, <2>4, <3>1, <3>2
    <2>5. CASE q # p
      <3>1. run'[q] = run[q] /\ pc[q] \in Importing
        BY <1>2, <2>5, StillLemma DEF Still
      <3>2. MovesOne(p) => run[q] # run[p]
        BY <2>5, <3>1, OneHolder, OutsideLemma DEF MovesOne, Moved, MutualExclusion
      <3> QED BY <2>1, <2>3, <3>1, <3>2
    <2> QED BY <2>4, <2>5
  <1> QED BY <1>1, <1>2 DEF QueuedOnce, Exists

\* Every step keeps the locking invariant.
LEMMA LockStep == TypeOK /\ LockInv /\ [Next]_vars => LockInv'
  <1> SUFFICES ASSUME TypeOK, LockInv, [Next]_vars PROVE LockInv'
    OBVIOUS
  <1>1. ASSUME NEW p \in Procs, ProcStep(p) PROVE LockInv'
    BY <1>1, AbsentStep, DescriptorsStep, OneLockFileStep, QueuedOnceStep DEF LockInv
  <1>2. CASE UNCHANGED <<fs, procVars, owner>>
    BY <1>2 DEF procVars, LockInv, AbsentEmpty, DescriptorsOpen, OneLockFile, QueuedOnce,
                Exists
  <1>3. CASE \E r \in Runs : TransformWrites(r) \/ OrphanExits(r)
    BY <1>2, <1>3 DEF TransformWrites, OrphanExits
  \* A probe takes only a lock that is free and gives back only its own.
  <1>4. ASSUME NEW o \in Observers, ProbeLock(o) \/ EndProbe(o) PROVE LockInv'
    <2>1. UNCHANGED <<fs, pc, run, fd>>
      BY <1>4 DEF ProbeLock, EndProbe, procVars
    <2>2. AbsentEmpty' /\ OneLockFile' /\ QueuedOnce'
      BY <2>1 DEF LockInv, AbsentEmpty, OneLockFile, QueuedOnce, Exists
    <2>3. ASSUME NEW p \in Procs, pc[p] \in Holding PROVE owner'[fd[p]] = p
      <3>1. owner[fd[p]] = p /\ fd[p] \in Inodes
        BY <2>3 DEF LockInv, DescriptorsOpen, TypeOK
      <3>2. CASE ProbeLock(o)
        <4>1. PICK i : owner[i] = Nobody /\ owner' = [owner EXCEPT ![i] = o]
          BY <3>2 DEF ProbeLock
        <4> QED BY <3>1, <4>1, NamesAssumption DEF TypeOK, WorkDirTypeOK
      <3>3. CASE EndProbe(o)
        BY <3>1, <3>3, NamesAssumption DEF EndProbe, Released
      <3> QED BY <1>4, <3>2, <3>3
    <2>4. DescriptorsOpen'
      BY <2>1, <2>3 DEF LockInv, DescriptorsOpen
    <2> QED BY <2>2, <2>4 DEF LockInv
  <1>5. CASE UNCHANGED vars
    BY <1>2, <1>5 DEF vars
  <1> QED BY <1>1, <1>3, <1>4, <1>5 DEF Next, ProcStep

\* The locking invariant holds at the start, when no lock is open.
LEMMA LockInit == Init => LockInv
  <1> SUFFICES ASSUME Init PROVE LockInv
    OBVIOUS
  <1>1. \A r \in Runs : \E a \in Arrivals : fs[r] = Found(a)
    BY DEF Init, Quiescent
  <1>2. \A a \in Arrivals, ph \in Phases : Found(a)[ph].exists => ph = a.phase
    BY NoDirLemma DEF Found
  <1>3. \A a \in Arrivals, ph \in Phases : Found(a)[ph].exists \/ Found(a)[ph] = NoDir
    BY ProcessorAssumption DEF Found
  <1>4. /\ \A p \in Procs : fd[p] = NoLock /\ pc[p] = "idle"
        /\ "idle" \notin Holding \cup {"flock"} /\ "idle" \notin Importing
    BY OutsideLemma DEF Init, Quiescent
  <1>5. AbsentEmpty
    BY <1>1, <1>3 DEF AbsentEmpty, Exists
  <1>6. QueuedOnce
    BY <1>1, <1>2, <1>4, PhasesLemma DEF QueuedOnce, Exists
  <1> QED BY <1>4, <1>5, <1>6 DEF LockInv, DescriptorsOpen, OneLockFile

\* Two processes are never inside the same run at once.
THEOREM RunsAreExclusive == Spec => []MutualExclusion
  BY TypeCorrect, LockInit, LockStep, OneHolder, PTL DEF Spec

----------------------------------------------------------------------------
(* One target per run *)

\* The transform is started only at "spawn", with the target p holds.
LEMMA SpawnedLemma ==
    ASSUME TypeOK, NEW p \in Procs, ProcStep(p)
    PROVE  \/ spawned' = spawned
           \/ /\ pc[p] = "spawn"
              /\ spawned' = [spawned EXCEPT ![run[p]] = @ \cup {target[p]}]
              /\ UNCHANGED fs
  <1>1. CASE StartProcessRun(p) \/ StartProcessOnce(p) \/ ListReady(p) \/
             NextRecovery(p) \/ NextClaim(p) \/ EndProcessOnce(p) \/ Claim(p) \/
             Recheck(p) \/ FallThrough(p) \/ Recover(p) \/ OpenLock(p) \/
             Flock(p) \/ ReadReadyInputs(p) \/ ClaimMove(p) \/
             PublishMalformed(p) \/ MoveMalformed(p) \/ RecoverStatus(p) \/
             StartImport(p) \/ CreateWork(p) \/ CheckStaged(p) \/ LoadPlan(p) \/
             TransformSucceeds(p) \/ TransformFails(p) \/ WaitFails(p) \/
             PublishStatus(p) \/ Finalize(p) \/ Prune(p) \/ Unlock(p) \/
             Reply(p) \/ Observe(p) \/ PublishFailure(p) \/ MoveFailure(p) \/
             HandleError(p) \/ MoveToFailed(p) \/ Crash(p)
    BY <1>1 DEF worldVars, StartProcessRun, StartProcessOnce, ListReady, NextRecovery,
           NextClaim, EndProcessOnce, Claim, Recheck, FallThrough, Recover, OpenLock, Flock,
           ReadReadyInputs, ClaimMove, PublishMalformed, MoveMalformed, RecoverStatus,
           StartImport, CreateWork, CheckStaged, LoadPlan, TransformSucceeds, TransformFails,
           WaitFails, PublishStatus, Finalize, Prune, Unlock, Reply, Observe, PublishFailure,
           MoveFailure, HandleError, MoveToFailed, Crash
  <1>2. CASE Spawn(p)
    BY <1>2 DEF Spawn
  <1> QED BY <1>1, <1>2 DEF ProcStep, Step

\* Whoever gets to "spawn" has just loaded or made the plan of its run.
LEMMA ToSpawn ==
    ASSUME TypeOK, NEW p \in Procs, ProcStep(p), pc'[p] = "spawn"
    PROVE  LoadPlan(p)
  <1>1. ~(StartProcessRun(p) \/ StartProcessOnce(p) \/ ListReady(p) \/
         NextRecovery(p) \/ NextClaim(p) \/ EndProcessOnce(p))
    BY PcLemma DEF StartProcessRun, StartProcessOnce, ListReady, NextRecovery, NextClaim,
           EndProcessOnce
  <1>2. ~(Claim(p) \/ Recheck(p) \/ FallThrough(p) \/ Recover(p) \/ OpenLock(p)
         \/ Flock(p))
    BY PcLemma DEF Claim, Recheck, FallThrough, Recover, OpenLock, Flock
  <1>3. ~(ReadReadyInputs(p) \/ ClaimMove(p) \/ PublishMalformed(p) \/
         MoveMalformed(p) \/ RecoverStatus(p) \/ StartImport(p))
    BY PcLemma DEF ReadReadyInputs, ClaimMove, PublishMalformed, MoveMalformed, RecoverStatus,
           StartImport
  <1>4. ~(CreateWork(p) \/ CheckStaged(p) \/ Spawn(p) \/ TransformSucceeds(p) \/
         TransformFails(p) \/ WaitFails(p))
    BY PcLemma DEF CreateWork, CheckStaged, Spawn, TransformSucceeds, TransformFails,
           WaitFails, EntryFailed
  <1>5. ~(PublishStatus(p) \/ Finalize(p) \/ Prune(p) \/ Unlock(p) \/ Reply(p) \/
         Observe(p))
    BY PcLemma DEF PublishStatus, Finalize, Prune, Unlock, Reply, Observe
  <1>6. ~(PublishFailure(p) \/ MoveFailure(p) \/ HandleError(p) \/
         MoveToFailed(p) \/ Crash(p))
    BY PcLemma DEF PublishFailure, MoveFailure, HandleError, MoveToFailed, Crash
  <1> QED BY <1>1, <1>2, <1>3, <1>4, <1>5, <1>6 DEF ProcStep, Step

\* LoadPlan continues with the plan that is in the directory afterwards.
LEMMA LoadedPlan ==
    ASSUME TypeOK, LockInv, NEW p \in Procs, LoadPlan(p), pc'[p] = "spawn"
    PROVE  run'[p] = run[p] /\ fs'[run[p]]["processing"].plan = target'[p]
  <1>1. /\ fs \in FsType
        /\ run[p] \in Runs /\ "processing" \in Phases
        /\ Queue(p, "processing") \in Dirs
        /\ Queue(p, "processing") = fs[run[p]]["processing"]
    BY LocalsLemma, EditLemma, PhasesLemma DEF Queue
  <1>2. ~EntryFailed(p)
    BY PcLemma DEF EntryFailed
  <1>3. CASE /\ target' = [target EXCEPT ![p] = Queue(p, "processing").plan]
             /\ UNCHANGED <<fs, run>>
    BY <1>1, <1>3 DEF TypeOK
  <1>4. CASE \E t \in Placements :
                /\ fs' = Put(run[p], "processing", WithPlan(Queue(p, "processing"), t))
                /\ target' = [target EXCEPT ![p] = t]
                /\ UNCHANGED run
    <2>1. PICK t \in Placements :
              /\ fs' = Put(run[p], "processing", WithPlan(Queue(p, "processing"), t))
              /\ target' = [target EXCEPT ![p] = t]
              /\ UNCHANGED run
      BY <1>4
    <2>2. /\ WithPlan(Queue(p, "processing"), t) \in Dirs
          /\ WithPlan(Queue(p, "processing"), t).plan = t
      BY <1>1, PhasesLemma, WithPlanLemma
    <2>3. fs'[run[p]]["processing"] = WithPlan(Queue(p, "processing"), t)
      BY <1>1, <2>1, <2>2, PutLemma
    <2> QED BY <2>1, <2>2, <2>3 DEF TypeOK
  <1>5. ResolveDestination(Request[run[p]], dest[run[p]]) \in Placements
    BY LocalsLemma, PhasesLemma
  <1> QED BY <1>2, <1>3, <1>4, <1>5 DEF LoadPlan

\* A queued directory had its plan before, or there was none.
LEMMA PlanStays ==
    ASSUME TypeOK, LockInv, NEW p \in Procs, ProcStep(p),
           NEW r \in Runs, NEW ph \in QueuePhases, fs'[r][ph].exists
    PROVE  \E x \in QueuePhases :
              /\ Exists(r, x)
              /\ fs'[r][ph].plan = fs[r][x].plan \/ fs[r][x].plan = "none"
  <1>1. ph \in Phases
    BY PhasesLemma
  <1>2. CASE Unchanged(r, ph)
    BY <1>2 DEF Unchanged, Exists
  <1>3. CASE r = run[p] /\ EditsOne(p)
    <2>1. CASE Edited(p, ph)
      <3>1. pc[p] = "work" => Exists(run[p], "processing")
        BY DEF LockInv, QueuedOnce, Importing
      <3> QED BY <1>3, <2>1, <3>1 DEF Edited, Exists
    <2> QED BY <1>1, <1>2, <1>3, <2>1 DEF EditsOne
  <1>4. CASE r = run[p] /\ MovesOne(p)
    BY <1>1, <1>2, <1>4, NoDirLemma DEF MovesOne, Moved, Exists
  <1> QED BY <1>1, <1>2, <1>3, <1>4, DirEffect DEF OthersUnchanged

\* Every step keeps the plan of a queued run equal to the plan of its transforms.
LEMMA PlanStep == TypeOK /\ LockInv /\ PlanInv /\ [Next]_vars => PlanInv'
  <1> SUFFICES ASSUME TypeOK, LockInv, PlanInv, [Next]_vars PROVE PlanInv'
    OBVIOUS
  <1>1. /\ \A r \in Runs : \A t, u \in spawned[r] : t = u
        /\ \A r \in Runs, ph \in QueuePhases :
              Exists(r, ph) => \A t \in spawned[r] : fs[r][ph].plan = t
        /\ \A p \in Procs : pc[p] = "spawn" => fs[run[p]]["processing"].plan = target[p]
    BY DEF PlanInv, OneTarget
  <1>2. spawned \in [Runs -> SUBSET Placements] /\ "none" \notin Placements
    BY DEF TypeOK, Placements
  <1>3. ASSUME NEW p \in Procs, ProcStep(p) PROVE PlanInv'
    <2>1. ASSUME NEW r \in Runs
          PROVE  /\ \A t, u \in spawned'[r] : t = u
                 /\ \A ph \in QueuePhases :
                       fs'[r][ph].exists => \A t \in spawned'[r] : fs'[r][ph].plan = t
      <3>1. CASE spawned' = spawned
        <4>1. ASSUME NEW ph \in QueuePhases, fs'[r][ph].exists, NEW t \in spawned[r]
              PROVE  fs'[r][ph].plan = t
          <5>1. PICK x \in QueuePhases :
                    /\ Exists(r, x)
                    /\ fs'[r][ph].plan = fs[r][x].plan \/ fs[r][x].plan = "none"
            BY <1>3, <4>1, PlanStays
          <5> QED BY <1>1, <1>2, <4>1, <5>1
        <4> QED BY <1>1, <3>1, <4>1
      <3>2. CASE /\ pc[p] = "spawn"
                 /\ spawned' = [spawned EXCEPT ![run[p]] = @ \cup {target[p]}]
                 /\ UNCHANGED fs
        <4>1. CASE r # run[p]
          BY <1>1, <1>2, <3>2, <4>1 DEF Exists
        <4>2. CASE r = run[p]
          <5>1. Exists(r, "processing") /\ ~Exists(r, "ready")
            BY <3>2, <4>2 DEF LockInv, QueuedOnce, Importing
          <5>2. fs[r]["processing"].plan = target[p] /\ "processing" \in QueuePhases
            BY <1>1, <3>2, <4>2, PhasesLemma
          <5>3. \A t \in spawned[r] : t = target[p]
            BY <1>1, <5>1, <5>2
          <5>4. spawned'[r] = spawned[r] \cup {target[p]}
            BY <1>2, <3>2, <4>2
          <5>5. \A t \in spawned'[r] : t = target[p]
            BY <5>3, <5>4
          <5>6. \A ph \in QueuePhases : fs'[r][ph].exists => ph = "processing"
            BY <3>2, <5>1 DEF QueuePhases, Exists
          <5> QED BY <3>2, <5>2, <5>5, <5>6
        <4> QED BY <4>1, <4>2
      <3> QED BY <1>3, <3>1, <3>2, SpawnedLemma
    <2>2. ASSUME NEW q \in Procs, pc'[q] = "spawn"
          PROVE  fs'[run'[q]]["processing"].plan = target'[q]
      <3>1. CASE q = p
        BY <1>3, <2>2, <3>1, ToSpawn, LoadedPlan
      <3>2. CASE q # p
        <4>1. /\ pc[q] = "spawn" /\ run'[q] = run[q] /\ target'[q] = target[q]
              /\ run[q] \in Runs /\ "processing" \in Phases
          BY <1>3, <2>2, <3>2, StillLemma, LocalsLemma, PhasesLemma DEF Still
        \* Another processor of this run is not past flock.
        <4>2. run[q] = run[p] => pc[p] \notin Holding
          BY <3>2, <4>1, OneHolder, OutsideLemma DEF MutualExclusion, Importing
        <4>3. CASE Unchanged(run[q], "processing")
          BY <1>1, <4>1, <4>3 DEF Unchanged
        <4>4. CASE run[q] = run[p] /\ EditsOne(p)
          BY <1>1, <4>1, <4>2, <4>3, <4>4, OutsideLemma
             DEF EditsOne, Edited, Importing
        <4>5. CASE run[q] = run[p] /\ MovesOne(p)
          BY <4>2, <4>5 DEF MovesOne, Moved
        <4> QED BY <1>3, <4>1, <4>3, <4>4, <4>5, DirEffect DEF OthersUnchanged
      <3> QED BY <3>1, <3>2
    <2> QED BY <2>1, <2>2 DEF PlanInv, OneTarget, Exists
  <1>4. CASE UNCHANGED <<fs, procVars, spawned>>
    BY <1>4 DEF procVars, PlanInv, OneTarget, Exists
  <1>5. CASE \E r \in Runs : TransformWrites(r) \/ OrphanExits(r)
    BY <1>4, <1>5 DEF TransformWrites, OrphanExits
  <1>6. CASE \E o \in Observers : ProbeLock(o) \/ EndProbe(o)
    BY <1>4, <1>6 DEF ProbeLock, EndProbe, worldVars
  <1>7. CASE UNCHANGED vars
    BY <1>4, <1>7 DEF vars, worldVars
  <1> QED BY <1>3, <1>5, <1>6, <1>7 DEF Next, ProcStep

\* No transform has been started at the start.
LEMMA PlanInit == Init => PlanInv
  BY DEF Init, Quiescent, PlanInv, OneTarget

\* All attempts at a run place their output alike.
THEOREM PlansAreKept == Spec => []OneTarget
  <1>1. PlanInv => OneTarget
    BY DEF PlanInv
  <1> QED BY <1>1, TypeCorrect, LockInit, LockStep, PlanInit, PlanStep, PTL DEF Spec

----------------------------------------------------------------------------
(* The processors implement RunLifecycle *)

\* A step of a processor leaves a run in one phase.
LEMMA OnePhaseStep ==
    ASSUME TypeOK, LockInv, OnePhase, NEW p \in Procs, ProcStep(p)
    PROVE  OnePhase'
  <1> SUFFICES ASSUME NEW r \in Runs, NEW x \in Phases, NEW y \in Phases,
                      fs'[r][x].exists, fs'[r][y].exists
               PROVE  x = y
    BY DEF OnePhase, Exists
  <1>1. fs[r][x].exists /\ fs[r][y].exists => x = y
    BY DEF OnePhase, Exists
  <1>2. CASE \A ph \in Phases : Unchanged(r, ph)
    BY <1>1, <1>2 DEF Unchanged
  <1>3. CASE r = run[p] /\ EditsOne(p)
    <2>1. PICK z \in Phases : /\ Edited(p, z)
                              /\ \A ph \in Phases \ {z} : Unchanged(run[p], ph)
      BY <1>3 DEF EditsOne
    <2>2. fs[run[p]][z].exists
      <3>1. pc[p] = "work" => Exists(run[p], "processing")
        BY DEF LockInv, QueuedOnce, Importing
      <3> QED BY <2>1, <3>1 DEF Edited, Exists
    <2> QED BY <1>1, <1>3, <2>1, <2>2 DEF Unchanged
  <1>4. CASE r = run[p] /\ MovesOne(p)
    <2>1. PICK a, b \in Phases :
              /\ Moved(p, a, b)
              /\ \A ph \in Phases \ {a, b} : Unchanged(run[p], ph)
      BY <1>4 DEF MovesOne
    <2>2. fs[r][a].exists /\ ~fs'[r][a].exists
      BY <1>4, <2>1, NoDirLemma DEF Moved, Exists
    <2>3. \A ph \in Phases : fs'[r][ph].exists => ph = b
      BY <1>4, <2>1, <2>2 DEF OnePhase, Exists, Unchanged
    <2> QED BY <2>3
  <1> QED BY <1>2, <1>3, <1>4, DirEffect DEF OthersUnchanged

\* Every step leaves a run in one phase.
LEMMA OnePhaseNext == TypeOK /\ LockInv /\ OnePhase /\ [Next]_vars => OnePhase'
  <1> SUFFICES ASSUME TypeOK, LockInv, OnePhase, [Next]_vars PROVE OnePhase'
    OBVIOUS
  <1>1. ASSUME NEW p \in Procs, ProcStep(p) PROVE OnePhase'
    BY <1>1, OnePhaseStep
  <1>2. CASE UNCHANGED fs
    BY <1>2 DEF OnePhase, Exists
  <1>3. CASE \E r \in Runs : TransformWrites(r) \/ OrphanExits(r)
    BY <1>2, <1>3 DEF TransformWrites, OrphanExits
  <1>4. CASE \E o \in Observers : ProbeLock(o) \/ EndProbe(o)
    BY <1>2, <1>4 DEF ProbeLock, EndProbe
  <1>5. CASE UNCHANGED vars
    BY <1>2, <1>5 DEF vars
  <1> QED BY <1>1, <1>3, <1>4, <1>5 DEF Next, ProcStep

\* At the start every run is queued, in one phase.
LEMMA QueuedInit == Init => OnePhase /\ Lifecycle!Init
  <1> SUFFICES ASSUME Init PROVE OnePhase /\ Lifecycle!Init
    OBVIOUS
  <1>1. \A r \in Runs : \E a \in Arrivals : fs[r] = Found(a)
    BY DEF Init, Quiescent
  <1>2. \A a \in Arrivals, ph \in Phases : Found(a)[ph].exists => ph = a.phase
    BY NoDirLemma DEF Found
  <1>3. \A a \in Arrivals : a.phase \in QueuePhases
    BY ProcessorAssumption
  <1>4. \A r \in Runs, ph \in TerminalPhases : ~fs[r][ph].exists
    BY <1>1, <1>2, <1>3, PhasesLemma
  <1>5. \A r \in Runs : ~HasTerminalDir(r)
    BY <1>4, PhasesLemma DEF HasTerminalDir, Exists
  <1>6. Outcome = [r \in Runs |-> "queued"]
    BY <1>5 DEF Outcome
  <1>7. OnePhase
    BY <1>1, <1>2 DEF OnePhase, Exists
  <1> QED BY <1>6, <1>7 DEF Lifecycle!Init, Init, Quiescent

\* Only a transform that succeeds adds to the imported runs, and it moves nothing.
LEMMA ImportedLemma ==
    ASSUME TypeOK, NEW p \in Procs, ProcStep(p)
    PROVE  \/ imported' = imported
           \/ /\ pc[p] = "wait" /\ pc'[p] = "publish"
              /\ imported' = imported \cup {run[p]}
  <1>1. CASE StartProcessRun(p) \/ StartProcessOnce(p) \/ ListReady(p) \/
             NextRecovery(p) \/ NextClaim(p) \/ EndProcessOnce(p) \/ Claim(p) \/
             Recheck(p) \/ FallThrough(p) \/ Recover(p) \/ OpenLock(p) \/
             Flock(p) \/ ReadReadyInputs(p) \/ ClaimMove(p) \/
             PublishMalformed(p) \/ MoveMalformed(p) \/ RecoverStatus(p) \/
             StartImport(p) \/ CreateWork(p) \/ CheckStaged(p) \/ LoadPlan(p) \/
             Spawn(p) \/ TransformFails(p) \/ WaitFails(p) \/ PublishStatus(p)
             \/ Finalize(p) \/ Prune(p) \/ Unlock(p) \/ Reply(p) \/ Observe(p)
             \/ PublishFailure(p) \/ MoveFailure(p) \/ HandleError(p) \/
             MoveToFailed(p) \/ Crash(p)
    BY <1>1 DEF worldVars, StartProcessRun, StartProcessOnce, ListReady, NextRecovery,
           NextClaim, EndProcessOnce, Claim, Recheck, FallThrough, Recover, OpenLock, Flock,
           ReadReadyInputs, ClaimMove, PublishMalformed, MoveMalformed, RecoverStatus,
           StartImport, CreateWork, CheckStaged, LoadPlan, Spawn, TransformFails, WaitFails,
           PublishStatus, Finalize, Prune, Unlock, Reply, Observe, PublishFailure,
           MoveFailure, HandleError, MoveToFailed, Crash
  <1>2. CASE TransformSucceeds(p)
    BY <1>2, PcLemma DEF TransformSucceeds
  <1> QED BY <1>1, <1>2 DEF ProcStep, Step

\* The outcome of a run is read off its two terminal directories.
OutcomeOf(done, failed) ==
    IF done.exists
    THEN IF done.status \in PublishedStatus THEN done.status ELSE "unpublished"
    ELSE IF failed.exists
         THEN IF failed.status \in PublishedStatus THEN failed.status ELSE "unpublished"
         ELSE "queued"

\* The outcome of a run depends on its two terminal directories only.
LEMMA OutcomeRead ==
    /\ Outcome = [r \in Runs |-> OutcomeOf(fs[r]["done"], fs[r]["failed"])]
    /\ Outcome' = [r \in Runs |-> OutcomeOf(fs'[r]["done"], fs'[r]["failed"])]
  BY DEF Outcome, OutcomeOf, HasTerminalDir, TerminalStatus, Exists

\* A step that does not move a run leaves every outcome as it is.
LEMMA OutcomeStays ==
    ASSUME TypeOK, LockInv, NEW p \in Procs, ProcStep(p), ~MovesOne(p)
    PROVE  Outcome' = Outcome
  <1> SUFFICES ASSUME NEW r \in Runs
               PROVE  OutcomeOf(fs'[r]["done"], fs'[r]["failed"])
                          = OutcomeOf(fs[r]["done"], fs[r]["failed"])
    BY OutcomeRead
  <1>1. /\ "done" \in Phases /\ "failed" \in Phases
        /\ "done" \in TerminalPhases /\ "failed" \in TerminalPhases
    BY PhasesLemma
  <1>2. CASE Unchanged(r, "done") /\ Unchanged(r, "failed")
    BY <1>2 DEF Unchanged
  <1>3. CASE r = run[p] /\ EditsOne(p)
    <2>1. PICK x \in Phases : /\ Edited(p, x)
                              /\ \A ph \in Phases \ {x} : Unchanged(run[p], ph)
      BY <1>3 DEF EditsOne
    <2>2. CASE x \in TerminalPhases
      <3>1. /\ fs'[r][x].exists /\ fs[r][x].exists
            /\ fs'[r][x].status = fs[r][x].status
        BY <1>3, <2>1, <2>2, PhasesLemma DEF Edited, QueuePhases
      <3>2. x = "done" \/ x = "failed"
        BY <2>2 DEF TerminalPhases
      <3> QED BY <1>1, <1>3, <2>1, <3>1, <3>2 DEF OutcomeOf, Unchanged
    <2> QED BY <1>1, <1>2, <1>3, <2>1, <2>2
  <1> QED BY <1>1, <1>2, <1>3, DirEffect DEF OthersUnchanged

\* A move leaves the outcomes as they are, or ends the run that moves.
LEMMA OutcomeMoves ==
    ASSUME TypeOK, LockInv, OnePhase, DoneMeansImported,
           NEW p \in Procs, ProcStep(p), MovesOne(p)
    PROVE  Outcome' = Outcome \/ Lifecycle!End(run[p])
  <1>1. PICK a, b \in Phases :
            /\ Moved(p, a, b)
            /\ \A ph \in Phases \ {a, b} : Unchanged(run[p], ph)
    BY DEF MovesOne
  <1>2. /\ run[p] \in Runs
        /\ "done" \in Phases /\ "failed" \in Phases /\ "done" # "failed"
        /\ a \notin TerminalPhases /\ a \in QueuePhases
        /\ b \in {"processing"} \cup TerminalPhases
        /\ "done" \in TerminalPhases /\ "failed" \in TerminalPhases
        /\ "processing" \notin TerminalPhases
    BY <1>1, LocalsLemma, PhasesLemma DEF Moved
  <1>3. \A r \in Runs \ {run[p]} :
            OutcomeOf(fs'[r]["done"], fs'[r]["failed"])
                = OutcomeOf(fs[r]["done"], fs[r]["failed"])
    BY <1>2, DirEffect DEF OthersUnchanged, Unchanged
  <1>4. CASE b = "processing"
    <2>1. Unchanged(run[p], "done") /\ Unchanged(run[p], "failed")
      BY <1>1, <1>2, <1>4
    <2> QED BY <1>3, <2>1, OutcomeRead DEF Unchanged
  <1>5. CASE b \in TerminalPhases
    <2>1. ~fs[run[p]]["done"].exists /\ ~fs[run[p]]["failed"].exists
      BY <1>1, <1>2 DEF OnePhase, Moved, Exists
    <2>2. OutcomeOf(fs[run[p]]["done"], fs[run[p]]["failed"]) = "queued"
      BY <2>1 DEF OutcomeOf
    <2> DEFINE o == OutcomeOf(fs'[run[p]]["done"], fs'[run[p]]["failed"])
    <2>3. /\ fs'[run[p]][b] = fs[run[p]][a] /\ fs'[run[p]][b].exists
          /\ \A ph \in TerminalPhases \ {b} : ~fs'[run[p]][ph].exists
      BY <1>1, <1>2, <2>1, PhasesLemma DEF Moved, Exists, Unchanged, TerminalPhases
    <2>4. o = IF fs[run[p]][a].status \in PublishedStatus THEN fs[run[p]][a].status
              ELSE "unpublished"
      <3>1. b = "done" \/ b = "failed"
        BY <1>5 DEF TerminalPhases
      <3> QED BY <1>2, <2>3, <3>1 DEF OutcomeOf
    <2>5. o = "done" => run[p] \in imported
      BY <1>2, <2>4, PhasesLemma DEF DoneMeansImported
    <2>6. o \in Lifecycle!EndOutcomes
      BY <2>4 DEF Lifecycle!EndOutcomes, PublishedStatus
    <2>7. imported' = imported
      BY <1>1, ImportedLemma DEF Moved, Importing
    <2>8. Outcome[run[p]] = "queued" /\ Outcome' = [Outcome EXCEPT ![run[p]] = o]
      BY <1>2, <1>3, <2>2, OutcomeRead
    <2> QED BY <2>5, <2>6, <2>7, <2>8 DEF Lifecycle!End
  <1> QED BY <1>2, <1>4, <1>5

\* Every step is a step of RunLifecycle or leaves its variables alone.
LEMMA LifecycleStep ==
    TypeOK /\ LockInv /\ OnePhase /\ DoneMeansImported /\ [Next]_vars
        => [Lifecycle!Next]_<<Outcome, imported>>
  <1> SUFFICES ASSUME TypeOK, LockInv, OnePhase, DoneMeansImported, [Next]_vars
               PROVE  [Lifecycle!Next]_<<Outcome, imported>>
    OBVIOUS
  <1>1. ASSUME NEW p \in Procs, ProcStep(p)
        PROVE  [Lifecycle!Next]_<<Outcome, imported>>
    <2>1. run[p] \in Runs
      BY LocalsLemma
    <2>2. CASE MovesOne(p)
      <3>1. imported' = imported
        BY <1>1, <2>2, ImportedLemma DEF MovesOne, Moved, Importing
      <3> QED BY <1>1, <2>1, <2>2, <3>1, OutcomeMoves DEF Lifecycle!Next
    <2>3. CASE ~MovesOne(p)
      <3>1. Outcome' = Outcome
        BY <1>1, <2>3, OutcomeStays
      <3>2. CASE pc[p] = "wait" /\ imported' = imported \cup {run[p]}
        <4>1. fs[run[p]]["processing"].exists
          BY <3>2 DEF LockInv, QueuedOnce, Importing, Exists
        <4>2. ~fs[run[p]]["done"].exists /\ ~fs[run[p]]["failed"].exists
          BY <2>1, <4>1 DEF OnePhase, Exists, Phases
        <4>3. Outcome[run[p]] = "queued"
          BY <2>1, <4>2, OutcomeRead DEF OutcomeOf
        <4> QED BY <2>1, <3>1, <3>2, <4>3 DEF Lifecycle!Next, Lifecycle!Import
      <3> QED BY <1>1, <3>1, <3>2, ImportedLemma
    <2> QED BY <2>2, <2>3
  <1>2. CASE UNCHANGED <<fs, imported>>
    BY <1>2, OutcomeRead
  <1>3. CASE \E r \in Runs : TransformWrites(r) \/ OrphanExits(r)
    BY <1>2, <1>3 DEF TransformWrites, OrphanExits
  <1>4. CASE \E o \in Observers : ProbeLock(o) \/ EndProbe(o)
    BY <1>2, <1>4 DEF ProbeLock, EndProbe, worldVars
  <1>5. CASE UNCHANGED vars
    BY <1>2, <1>5 DEF vars, worldVars
  <1> QED BY <1>1, <1>3, <1>4, <1>5 DEF Next, ProcStep

\* Whatever crashes, races and fails: a run ends at most once, its outcome never
\* changes, and it ends as done only after an import.
THEOREM LifecycleKept == Spec => ImplementsLifecycle
  <1>1. ImportInv => DoneMeansImported
    BY DEF ImportInv
  <1> QED
    BY <1>1, TypeCorrect, LockInit, LockStep, QueuedInit, OnePhaseNext, ImportInit,
       ImportStep, LifecycleStep, PTL DEF Spec, ImplementsLifecycle, Lifecycle!Spec

----------------------------------------------------------------------------
(* Answers *)

Answered == {"processed", "already_terminal"}

\* What the ways to return make of the answer.
LEMMA ReplyLemma ==
    ASSUME TypeOK, NEW p \in Procs
    PROVE  /\ \A o, s : Return(p, o, s) =>
                 /\ \A q \in Procs \ {p} : reply'[q] = reply[q]
                 /\ Targeted(p) => /\ pc'[p] = "idle"
                                   /\ reply'[p].outcome = o /\ reply'[p].state = s
                 /\ ~Targeted(p) => reply' = reply
           /\ ReturnError(p) =>
                 /\ \A q \in Procs \ {p} : reply'[q] = reply[q]
                 /\ Targeted(p) => pc'[p] = "idle" /\ reply'[p].outcome = "error"
                 /\ ~Targeted(p) => reply' = reply
           /\ \A s : Skip(p, s) /\ Targeted(p) => pc'[p] = s
  <1>1. ASSUME NEW o, NEW s, Return(p, o, s)
        PROVE  /\ \A q \in Procs \ {p} : reply'[q] = reply[q]
               /\ Targeted(p) => /\ pc'[p] = "idle"
                                 /\ reply'[p].outcome = o /\ reply'[p].state = s
               /\ ~Targeted(p) => reply' = reply
    <2>1. reply \in [Procs -> [outcome : Outcomes, state : PublishedStatus \cup {"none"}]]
      BY DEF TypeOK
    <2>2. CASE Targeted(p)
      <3>1. reply' = [reply EXCEPT ![p] = [outcome |-> o, state |-> s]] /\ Goto(p, "idle")
        BY <1>1, <2>2 DEF Return
      <3> QED BY <2>1, <2>2, <3>1, PcLemma
    <2>3. CASE ~Targeted(p)
      BY <1>1, <2>3 DEF Return
    <2> QED BY <2>2, <2>3
  <1>2. ASSUME ReturnError(p)
        PROVE  /\ \A q \in Procs \ {p} : reply'[q] = reply[q]
               /\ Targeted(p) => pc'[p] = "idle" /\ reply'[p].outcome = "error"
               /\ ~Targeted(p) => reply' = reply
    <2>1. Return(p, "error", "none")
      BY <1>2 DEF ReturnError
    <2> QED BY <1>1, <2>1
  <1>3. \A s : Skip(p, s) /\ Targeted(p) => pc'[p] = s
    BY PcLemma DEF Skip
  <1> QED BY <1>1, <1>2, <1>3

\* What a step of p may do to answers.
ReplyEffect(p) ==
    /\ \A q \in Procs \ {p} : reply'[q] = reply[q]
    /\ ~Targeted(p) => reply'[p] = reply[p]
    /\ Targeted(p) /\ pc[p] \notin {"scan", "loop"} => pc'[p] \notin {"scan", "loop"}
    /\ \/ reply'[p] = reply[p] /\ (run'[p] = run[p] \/ pc[p] = "loop")
       \/ reply'[p].outcome \notin Answered
       \/ /\ UNCHANGED <<fs, run>>
          /\ TerminalStatus(run[p]) \in PublishedStatus
          /\ reply'[p].state = TerminalStatus(run[p])

\* Every step has this effect.
LEMMA ReplyEffectLemma ==
    ASSUME TypeOK, NEW p \in Procs, ProcStep(p)
    PROVE  ReplyEffect(p)
  <1> USE DEF lists
  <1>1. ASSUME UNCHANGED <<run, reply>>, NEW s, Goto(p, s), s \notin {"scan", "loop"}
        PROVE  ReplyEffect(p)
    BY <1>1, PcLemma DEF ReplyEffect
  <1>2. ASSUME UNCHANGED run, ReturnError(p)
        PROVE  ReplyEffect(p)
    BY <1>2, ReplyLemma DEF ReplyEffect, Answered
  <1>3. ASSUME UNCHANGED <<run, reply>>, NEW s, Skip(p, s), s \notin {"scan", "loop"}
        PROVE  ReplyEffect(p)
    BY <1>3, ReplyLemma DEF ReplyEffect
  <1>4. CASE StartProcessRun(p)
    <2>1. reply' = [reply EXCEPT ![p] = NoReply] /\ pc'[p] = "claim" /\ Targeted(p)
      BY <1>4, PcLemma DEF StartProcessRun
    <2>2. reply'[p] = NoReply /\ \A q \in Procs \ {p} : reply'[q] = reply[q]
      BY <2>1 DEF TypeOK
    <2> QED BY <2>1, <2>2 DEF ReplyEffect, NoReply, Answered
  <1>5. CASE StartProcessOnce(p) \/ ListReady(p) \/ NextRecovery(p) \/ NextClaim(p) \/
             EndProcessOnce(p)
    BY <1>5, PcLemma DEF StartProcessOnce, ListReady, NextRecovery, NextClaim, EndProcessOnce,
       ReplyEffect
  <1>6. CASE Claim(p) \/ Recheck(p) \/ FallThrough(p) \/ Recover(p)
    BY <1>1, <1>2, <1>3, <1>6 DEF Claim, Recheck, FallThrough, Recover
  <1>7. CASE OpenLock(p) \/ ReadReadyInputs(p) \/ ClaimMove(p) \/ PublishMalformed(p)
             \/ MoveMalformed(p)
    BY <1>1, <1>2, <1>3, <1>7
       DEF OpenLock, ReadReadyInputs, ClaimMove, PublishMalformed, MoveMalformed
  <1>8. CASE Flock(p)
    <2>1. ASSUME NEW o \in {"claim_in_progress", "already_active"}, Return(p, o, "none"),
                 UNCHANGED run
          PROVE  ReplyEffect(p)
      BY <2>1, ReplyLemma DEF ReplyEffect, Answered
    <2> QED BY <1>1, <1>8, <2>1 DEF Flock
  <1>9. CASE RecoverStatus(p) \/ StartImport(p) \/ CreateWork(p) \/ CheckStaged(p) \/ LoadPlan(p)
             \/ Spawn(p) \/ TransformSucceeds(p) \/ TransformFails(p) \/ WaitFails(p)
             \/ PublishStatus(p) \/ Finalize(p) \/ Prune(p) \/ Unlock(p)
    BY <1>1, <1>2, <1>9
       DEF RecoverStatus, StartImport, CreateWork, CheckStaged, LoadPlan, Spawn,
           TransformSucceeds, TransformFails, WaitFails, PublishStatus, Finalize, Prune, Unlock,
           EntryFailed
  <1>10. CASE PublishFailure(p) \/ MoveFailure(p) \/ HandleError(p) \/ MoveToFailed(p) \/ Crash(p)
    BY <1>1, <1>2, <1>10 DEF PublishFailure, MoveFailure, HandleError, MoveToFailed, Crash
  <1>11. ASSUME NEW o, Return(p, o, TerminalStatus(run[p])), UNCHANGED <<fs, run>>,
                TerminalStatus(run[p]) \in PublishedStatus
         PROVE  ReplyEffect(p)
    BY <1>11, ReplyLemma DEF ReplyEffect
  <1>12. CASE Reply(p) \/ Observe(p)
    BY <1>2, <1>11, <1>12 DEF Reply, Observe
  <1> QED BY <1>4, <1>5, <1>6, <1>7, <1>8, <1>9, <1>10, <1>12 DEF ProcStep, Step

\* What a run has ended with, a step leaves as it is.
LEMMA EndsStay ==
    ASSUME [Lifecycle!Next]_<<Outcome, imported>>, NEW r \in Runs, Outcome[r] \in PublishedStatus
    PROVE  Outcome'[r] = Outcome[r]
  <1>1. CASE UNCHANGED Outcome
    BY <1>1
  <1>2. ASSUME NEW s \in Runs, Lifecycle!End(s) PROVE Outcome'[r] = Outcome[r]
    <2>1. Outcome[s] = "queued" /\ \E o : Outcome' = [Outcome EXCEPT ![s] = o]
      BY <1>2 DEF Lifecycle!End
    <2>2. r # s /\ DOMAIN Outcome = Runs
      BY <2>1 DEF PublishedStatus, Outcome
    <2> QED BY <2>1, <2>2
  <1> QED BY <1>1, <1>2 DEF Lifecycle!Next, Lifecycle!Import

\* Every step keeps the answers true.
LEMMA AnswersStep ==
    ASSUME TypeOK, LockInv, OnePhase, DoneMeansImported, AnswersInv, [Next]_vars
    PROVE  AnswersInv'
  <1>1. [Lifecycle!Next]_<<Outcome, imported>>
    BY LifecycleStep
  <1>2. \A q \in Procs : run[q] \in Runs
    BY DEF TypeOK
  <1>3. ASSUME NEW q \in Procs, reply[q].outcome \in Answered,
               reply'[q] = reply[q], run'[q] = run[q]
        PROVE  reply'[q].state \in PublishedStatus /\ Outcome'[run'[q]] = reply'[q].state
    BY <1>1, <1>2, <1>3, EndsStay DEF AnswersInv, Answered
  <1>4. CASE UNCHANGED <<pc, run, reply>>
    BY <1>3, <1>4 DEF AnswersInv, Answered
  <1>5. ASSUME NEW p \in Procs, ProcStep(p) PROVE AnswersInv'
    <2>1. ReplyEffect(p)
      BY <1>5, ReplyEffectLemma
    <2>2. ASSUME NEW q \in Procs \ {p}
          PROVE  /\ Targeted(q) => pc'[q] \notin {"scan", "loop"}
                 /\ ~Targeted(q) => reply'[q] = NoReply
                 /\ reply'[q].outcome \in Answered =>
                       reply'[q].state \in PublishedStatus /\ Outcome'[run'[q]] = reply'[q].state
      <3>1. reply'[q] = reply[q] /\ pc'[q] = pc[q] /\ run'[q] = run[q]
        BY <1>5, <2>1, StillLemma DEF ReplyEffect, Still
      <3> QED BY <1>3, <3>1 DEF AnswersInv
    <2>3. Targeted(p) => pc'[p] \notin {"scan", "loop"}
      BY <2>1 DEF ReplyEffect, AnswersInv
    <2>4. ~Targeted(p) => reply'[p] = NoReply
      BY <2>1 DEF ReplyEffect, AnswersInv
    <2>5. ASSUME reply'[p].outcome \in Answered
          PROVE  reply'[p].state \in PublishedStatus /\ Outcome'[run'[p]] = reply'[p].state
      <3>1. Targeted(p) /\ pc[p] # "loop"
        BY <2>4, <2>5 DEF NoReply, Answered, AnswersInv
      <3>2. CASE reply'[p] = reply[p] /\ run'[p] = run[p]
        BY <1>3, <2>5, <3>2
      <3>3. CASE /\ UNCHANGED <<fs, run>>
                 /\ TerminalStatus(run[p]) \in PublishedStatus
                 /\ reply'[p].state = TerminalStatus(run[p])
        <4>1. HasTerminalDir(run[p])
          BY <3>3 DEF TerminalStatus, HasTerminalDir, PublishedStatus
        <4>2. Outcome[run[p]] = TerminalStatus(run[p])
          BY <1>2, <3>3, <4>1 DEF Outcome
        <4>3. Outcome' = Outcome
          BY <3>3 DEF Outcome, HasTerminalDir, TerminalStatus, Exists
        <4> QED BY <3>3, <4>2, <4>3
      <3> QED BY <2>1, <2>5, <3>1, <3>2, <3>3 DEF ReplyEffect
    <2> QED BY <2>2, <2>3, <2>4, <2>5 DEF AnswersInv, Answered, Targeted
  <1>6. CASE \E r \in Runs : TransformWrites(r) \/ OrphanExits(r)
    BY <1>4, <1>6 DEF TransformWrites, OrphanExits, procVars
  <1>7. CASE \E o \in Observers : ProbeLock(o) \/ EndProbe(o)
    BY <1>4, <1>7 DEF ProbeLock, EndProbe, procVars
  <1>8. CASE UNCHANGED vars
    BY <1>4, <1>8 DEF vars, procVars
  <1> QED BY <1>5, <1>6, <1>7, <1>8 DEF Next, ProcStep

\* What process-run told its caller about a terminal run (terminal_response,
\* verified_terminal_status) stays true, whatever crashes and fails afterwards.
THEOREM AnswersHold == Spec => []AnswersStayTrue
  <1>1. Init => AnswersInv
    BY DEF Init, Quiescent, AnswersInv, NoReply
  <1>2. TypeOK /\ AnswersInv => AnswersStayTrue
    <2> SUFFICES ASSUME TypeOK, AnswersInv, NEW p \in Procs,
                        reply[p].outcome \in {"processed", "already_terminal"}
                 PROVE  TerminalStatus(run[p]) = reply[p].state
      BY DEF AnswersStayTrue
    <2>1. run[p] \in Runs
      BY DEF TypeOK
    <2> QED BY <2>1 DEF AnswersInv, Outcome, PublishedStatus
  <1>3. TypeOK /\ LockInv /\ OnePhase /\ ImportInv /\ AnswersInv /\ [Next]_vars => AnswersInv'
    BY AnswersStep DEF ImportInv
  <1> QED BY <1>1, <1>2, <1>3, TypeCorrect, LockInit, LockStep, QueuedInit, OnePhaseNext,
             ImportInit, ImportStep, PTL DEF Spec

----------------------------------------------------------------------------
(* What the invariant of publication sees of a directory *)

Look(d) == <<d.exists, d.status, d.lease, d.inputs>>

\* What each change of one file leaves of it.
LEMMA LookLemma ==
    ASSUME NEW d \in Dirs
    PROVE  /\ \A i : Look(WithLock(d, i)) = Look(d)
           /\ \A t : Look(WithPlan(d, t)) = Look(d)
           /\ d.exists => Look(WithWork(d)) = Look(d)
           /\ Look(WithoutWork(d)) = Look(d)
           /\ Pruned(d).exists = d.exists /\ Pruned(d).status = d.status
           /\ \A s : /\ WithStatus(d, s).status = s
                     /\ WithStatus(d, s).exists = d.exists
                     /\ WithStatus(d, s).lease = d.lease
                     /\ WithStatus(d, s).inputs = d.inputs
  BY DEF Look, WithLock, WithPlan, WithWork, WithoutWork, Pruned, WithStatus, Dirs

\* The queued directories of p's run look as before, and so do the ends.
Quiet(p) ==
    /\ \A ph \in QueuePhases : Look(fs'[run[p]][ph]) = Look(fs[run[p]][ph])
    /\ \A ph \in Phases : /\ fs'[run[p]][ph].exists = fs[run[p]][ph].exists
                          /\ fs'[run[p]][ph].status = fs[run[p]][ph].status

\* Most changes of one file are quiet.
LEMMA QuietLemma ==
    ASSUME TypeOK, NEW p \in Procs, NEW ph \in Phases
    PROVE  /\ UNCHANGED fs => Quiet(p)
           /\ \A i \in Lock : fs' = Put(run[p], ph, WithLock(Queue(p, ph), i)) => Quiet(p)
           /\ \A t \in Plans : fs' = Put(run[p], ph, WithPlan(Queue(p, ph), t)) => Quiet(p)
           /\ Exists(run[p], ph) /\ fs' = Put(run[p], ph, WithWork(Queue(p, ph))) => Quiet(p)
           /\ fs' = Put(run[p], ph, WithoutWork(Queue(p, ph))) => Quiet(p)
           /\ ph \in TerminalPhases /\ fs' = Put(run[p], ph, Pruned(Queue(p, ph))) => Quiet(p)
  <1>1. fs \in FsType /\ run[p] \in Runs /\ Queue(p, ph) \in Dirs /\ Queue(p, ph) = fs[run[p]][ph]
        /\ QueuePhases \subseteq Phases /\ TerminalPhases \cap QueuePhases = {}
    BY LocalsLemma, EditLemma, PhasesLemma DEF Queue
  <1>2. ASSUME NEW d \in Dirs, fs' = Put(run[p], ph, d),
               d.exists = Queue(p, ph).exists, d.status = Queue(p, ph).status,
               ph \in TerminalPhases \/ Look(d) = Look(Queue(p, ph))
        PROVE  Quiet(p)
    <2>1. \A x \in Phases : fs'[run[p]][x] = IF x = ph THEN d ELSE fs[run[p]][x]
      BY <1>1, <1>2, PutLemma
    <2> QED BY <1>1, <1>2, <2>1 DEF Quiet
  <1>3. UNCHANGED fs => Quiet(p)
    BY DEF Quiet
  <1>4. ASSUME NEW d \in Dirs, fs' = Put(run[p], ph, d), Look(d) = Look(Queue(p, ph)) PROVE Quiet(p)
    <2>1. d.exists = Queue(p, ph).exists /\ d.status = Queue(p, ph).status
      BY <1>4 DEF Look
    <2> QED BY <1>2, <1>4, <2>1
  <1>5. \A i \in Lock : WithLock(Queue(p, ph), i) \in Dirs
    BY <1>1, WithLockLemma DEF Lock
  <1>6. \A t \in Plans : WithPlan(Queue(p, ph), t) \in Dirs
    BY <1>1, WithPlanLemma
  <1>7. /\ WithWork(Queue(p, ph)) \in Dirs
        /\ WithoutWork(Queue(p, ph)) \in Dirs
        /\ Pruned(Queue(p, ph)) \in Dirs
    BY <1>1, WithWorkLemma, WithoutWorkLemma, PrunedLemma
  <1> QED BY <1>1, <1>2, <1>3, <1>4, <1>5, <1>6, <1>7, LookLemma DEF Exists

\* What decides about a run is what is seen of it.
LEMMA SameLook ==
    ASSUME NEW d, NEW e, Look(d) = Look(e)
    PROVE  /\ d.exists = e.exists /\ d.status = e.status
           /\ Foreign(d) <=> Foreign(e)
           /\ InputsVerdict(d) = InputsVerdict(e)
  BY DEF Look, Foreign, InputsVerdict

\* What a status and a verdict say about a run that is foreign, or not there.
LEMMA VerdictLemma ==
    ASSUME NEW d \in Dirs
    PROVE  /\ InputsVerdict(d) \in {"ok", "unsupported"} =>
                 d # NoDir /\ d.lease # "old_protocol" /\ d.lease # "malformed" /\ d.inputs # "old_version"
           /\ d.lease = "malformed" => ~Foreign(d) /\ InputsVerdict(d) = "malformed"
           /\ d.status \in PublishedStatus \cup {"malformed"} =>
                 d # NoDir /\ (Foreign(d) <=> d.lease = "old_protocol")
           /\ d.status \in {"none", "failed"} /\ InputsVerdict(d) # "incompatible" => ~Foreign(d)
           /\ InputsVerdict(d) \in InputKinds \cup {"incompatible"}
           /\ InputsVerdict(d) # "old_version"
           /\ Foreign(d) => d # NoDir
  BY DEF InputsVerdict, Foreign, NoDir, Contents, PublishedStatus, Dirs, LeaseKinds, InputKinds

----------------------------------------------------------------------------
(* Steps without I/O errors *)

\* Without an I/O error by now there has been none before.
LEMMA NoErrors ==
    ASSUME TypeOK, NEW p \in Procs, ProcStep(p), ioErrors' = 0
    PROVE  ioErrors = 0 /\ ~IOError
  <1>1. ioErrors \in Nat /\ ~IOError
    BY ProcessorAssumption DEF TypeOK, IOError
  <1>2. \A ok : Works(ok) \/ Fails(ok) => UNCHANGED ioErrors
    BY <1>1 DEF Works, Fails
  <1>3. UNCHANGED ioErrors
    BY <1>1, <1>2 DEF ProcStep, Step, faultVars, StartProcessRun, StartProcessOnce, ListReady,
       NextRecovery, NextClaim, EndProcessOnce, Claim, Recheck, FallThrough, Recover, OpenLock,
       Flock, ReadReadyInputs, ClaimMove, PublishMalformed, MoveMalformed, RecoverStatus,
       StartImport, CreateWork, CheckStaged, LoadPlan, Spawn, TransformSucceeds, TransformFails,
       WaitFails, PublishStatus, Finalize, Prune, Unlock, Reply, Observe, PublishFailure,
       MoveFailure, HandleError, MoveToFailed, Crash
  <1> QED BY <1>1, <1>3

\* The phase a processor has locked its run in is its own business.
LEMMA FromLemma ==
    ASSUME TypeOK, NEW p \in Procs, ProcStep(p)
    PROVE  /\ \A q \in Procs \ {p} : from'[q] = from[q]
           /\ pc[p] \notin {"claim", "recover"} => UNCHANGED from
  <1>1. CASE Claim(p) \/ Recover(p)
    BY <1>1 DEF Claim, Recover, TypeOK
  <1>2. CASE ~Claim(p) /\ ~Recover(p)
    BY <1>2 DEF ProcStep, Step, StartProcessRun, StartProcessOnce, ListReady,
       NextRecovery, NextClaim, EndProcessOnce, Recheck, FallThrough, OpenLock,
       Flock, ReadReadyInputs, ClaimMove, PublishMalformed, MoveMalformed, RecoverStatus,
       StartImport, CreateWork, CheckStaged, LoadPlan, Spawn, TransformSucceeds, TransformFails,
       WaitFails, PublishStatus, Finalize, Prune, Unlock, Reply, Observe, PublishFailure,
       MoveFailure, HandleError, MoveToFailed, Crash
  <1> QED BY <1>1, <1>2 DEF Claim, Recover

\* The steps at which a processor relies on something.
Guarded == {"status", "start", "claim_move", "mal_status", "mal_move"} \cup Importing \cup Failing

\* What p's step makes of its run is what a ready run and a run at its end may be.
EndsWell(p) ==
    /\ LET d == fs'[run[p]]["ready"] IN
       d.status = "none" \/ (d.status = "failed" /\ InputsVerdict(d) = "malformed")
    /\ \A ph \in TerminalPhases :
          LET d == fs'[run[p]][ph] IN
          d.exists => d.status \in PublishedStatus /\ (d.status = "failed" <=> ph = "failed")

SoundStep(p) == Sound(p)' /\ (Quiet(p) \/ (pc[p] \in Holding /\ EndsWell(p)))

\* Elsewhere it relies on nothing.
LEMMA Unguarded ==
    ASSUME NEW p \in Procs
    PROVE  /\ pc'[p] \notin Guarded => Sound(p)'
           /\ Guarded \subseteq Holding
  BY DEF Guarded, Sound, Importing, Failing, Holding, Claiming

\* Without I/O errors every step of a processor that looks for a run, or leaves it,
\* is quiet and relies on nothing ...
LEMMA SearchSound ==
    ASSUME TypeOK, NEW p \in Procs, ioErrors' = 0, ~IOError,
           \/ StartProcessRun(p) \/ StartProcessOnce(p) \/ ListReady(p) \/ NextRecovery(p)
           \/ NextClaim(p) \/ EndProcessOnce(p) \/ Claim(p) \/ Recheck(p) \/ FallThrough(p)
           \/ Recover(p) \/ OpenLock(p) \/ Flock(p) \/ Prune(p) \/ Unlock(p) \/ Reply(p)
           \/ Observe(p) \/ Crash(p)
    PROVE  SoundStep(p)
  <1>1. Quiet(p)
    <2>1. CASE OpenLock(p)
      <3>1. from[p] \in Phases
        BY LocalsLemma, PhasesLemma
      <3>2. UNCHANGED fs \/ \E i \in Lock : fs' = Put(run[p], from[p], WithLock(Queue(p, from[p]), i))
        BY <2>1 DEF OpenLock, Lock
      <3> QED BY <3>1, <3>2, QuietLemma
    <2>2. CASE Prune(p)
      <3>1. UNCHANGED fs \/ fs' = Put(run[p], "done", Pruned(Queue(p, "done")))
        BY <2>2 DEF Prune
      <3> QED BY <3>1, QuietLemma, PhasesLemma
    <2>3. CASE Unlock(p)
      <3>1. TerminalPhase(out[p]) \in Phases /\ NoLock \in Lock
        BY LocalsLemma, PhasesLemma DEF Lock
      <3>2. UNCHANGED fs \/ fs' = Put(run[p], TerminalPhase(out[p]),
                                      WithLock(Queue(p, TerminalPhase(out[p])), NoLock))
        BY <2>3 DEF Unlock
      <3> QED BY <3>1, <3>2, QuietLemma
    <2>4. CASE UNCHANGED fs
      BY <2>4, QuietLemma, PhasesLemma
    <2> QED BY <2>1, <2>2, <2>3, <2>4
            DEF StartProcessRun, StartProcessOnce, ListReady, NextRecovery, NextClaim,
                EndProcessOnce, Claim, Recheck, FallThrough, Recover, Flock, Reply, Observe, Crash
  <1>2. Sound(p)'
    <2>1. CASE Flock(p)
      <3>1. CASE pc'[p] = "status"
        <4>1. from'[p] = from[p] /\ (from[p] = "ready" \/ from[p] = "processing")
          BY <2>1, LocalsLemma DEF Flock, QueuePhases
        <4>2. from[p] # "ready"
          BY <2>1, <3>1, PcLemma DEF Flock
        <4> QED BY <3>1, <4>1, <4>2 DEF Sound, Importing, Failing
      <3>2. CASE pc'[p] \in {"inputs", "idle", "loop"}
        BY <3>2, Unguarded DEF Guarded, Importing, Failing
      <3> QED BY <2>1, <3>1, <3>2, PcLemma DEF Flock
    <2>2. CASE pc'[p] \notin Guarded
      BY <2>2, Unguarded
    <2>3. CASE pc'[p] \in Searching \cup Closing
      BY <2>2, <2>3 DEF Guarded, Searching, Closing, Importing, Failing
    <2>4. CASE \/ StartProcessRun(p) \/ StartProcessOnce(p) \/ ListReady(p) \/ NextRecovery(p)
               \/ NextClaim(p) \/ EndProcessOnce(p) \/ Claim(p) \/ Recheck(p) \/ FallThrough(p)
               \/ Recover(p) \/ OpenLock(p) \/ Prune(p) \/ Unlock(p) \/ Reply(p)
               \/ Observe(p) \/ Crash(p)
      BY <2>3, <2>4, PcLemma
         DEF StartProcessRun, StartProcessOnce, ListReady, NextRecovery, NextClaim,
             EndProcessOnce, Claim, Recheck, FallThrough, Recover, OpenLock, Prune, Unlock, Reply,
             Observe, Crash, Searching, Closing
    <2> QED BY <2>1, <2>4
  <1> QED BY <1>1, <1>2 DEF SoundStep

\* How the directories of p's run look after a status or a move.
LEMMA StatusPut ==
    ASSUME TypeOK, NEW p \in Procs, NEW ph \in Phases, NEW s \in StatusKinds,
           fs' = Put(run[p], ph, WithStatus(Queue(p, ph), s))
    PROVE  /\ \A x \in Phases \ {ph} : fs'[run[p]][x] = fs[run[p]][x]
           /\ fs'[run[p]][ph].status = s
           /\ fs'[run[p]][ph].exists = fs[run[p]][ph].exists
           /\ fs'[run[p]][ph].lease = fs[run[p]][ph].lease
           /\ fs'[run[p]][ph].inputs = fs[run[p]][ph].inputs
  <1>1. fs \in FsType /\ run[p] \in Runs /\ Queue(p, ph) \in Dirs /\ Queue(p, ph) = fs[run[p]][ph]
    BY LocalsLemma, EditLemma DEF Queue
  <1>2. WithStatus(Queue(p, ph), s) \in Dirs
    BY <1>1, WithStatusLemma
  <1>3. \A x \in Phases :
            fs'[run[p]][x] = IF x = ph THEN WithStatus(Queue(p, ph), s) ELSE fs[run[p]][x]
    BY <1>1, <1>2, PutLemma
  <1> QED BY <1>1, <1>3, LookLemma

\* A move of p's run to a terminal phase ends well if its status is the one for that phase.
LEMMA MovePut ==
    ASSUME TypeOK, ReadySound, TerminalSound, NEW p \in Procs, NEW a \in QueuePhases,
           NEW b \in TerminalPhases, fs' = Rename(run[p], a, b),
           fs[run[p]][a].status \in PublishedStatus,
           fs[run[p]][a].status = "failed" <=> b = "failed"
    PROVE  EndsWell(p)
  <1>1. /\ fs \in FsType /\ run[p] \in Runs /\ a \in Phases /\ b \in Phases /\ a # b
        /\ TerminalPhases \subseteq Phases /\ "ready" \in Phases
    BY LocalsLemma, PhasesLemma
  <1>2. \A x \in Phases : fs'[run[p]][x] = IF x = a THEN NoDir
                                           ELSE IF x = b THEN fs[run[p]][a] ELSE fs[run[p]][x]
    BY <1>1, RenameLemma
  <1>3. NoDir.status = "none" /\ ~NoDir.exists
    BY DEF NoDir, Contents
  <1>4. "ready" # b
    BY DEF TerminalPhases
  <1> QED BY <1>1, <1>2, <1>3, <1>4 DEF EndsWell, ReadySound, TerminalSound, Exists

\* A status put to the queue of p's run ends well, if it is none or the failure of a ready run.
LEMMA PutEndsWell ==
    ASSUME TypeOK, ReadySound, TerminalSound, NEW p \in Procs, NEW ph \in QueuePhases,
           NEW s \in StatusKinds, fs' = Put(run[p], ph, WithStatus(Queue(p, ph), s)),
           ph = "ready" => s = "failed" /\ InputsVerdict(fs[run[p]]["ready"]) = "malformed"
    PROVE  EndsWell(p)
  <1>1. /\ run[p] \in Runs /\ ph \in Phases /\ "ready" \in Phases
        /\ TerminalPhases \subseteq Phases /\ ph \notin TerminalPhases
    BY LocalsLemma, PhasesLemma
  <1>2. \A x \in TerminalPhases : fs'[run[p]][x] = fs[run[p]][x]
    BY <1>1, StatusPut
  <1>3. CASE ph # "ready"
    <2>1. fs'[run[p]]["ready"] = fs[run[p]]["ready"]
      BY <1>1, <1>3, StatusPut
    <2> QED BY <1>1, <1>2, <2>1 DEF EndsWell, ReadySound, TerminalSound, Exists
  <1>4. CASE ph = "ready"
    <2>1. fs'[run[p]]["ready"].status = "failed"
          /\ InputsVerdict(fs'[run[p]]["ready"]) = InputsVerdict(fs[run[p]]["ready"])
      BY <1>1, <1>4, StatusPut DEF InputsVerdict
    <2> QED BY <1>1, <1>2, <1>4, <2>1 DEF EndsWell, TerminalSound, Exists
  <1> QED BY <1>3, <1>4

\* ... the claim moves only what it has found to be well-formed, and condemns the rest ...
LEMMA ClaimSound ==
    ASSUME TypeOK, LockInv, OnePhase, ReadySound, TerminalSound, NEW p \in Procs, Sound(p),
           ~IOError,
           ReadReadyInputs(p) \/ ClaimMove(p) \/ PublishMalformed(p) \/ MoveMalformed(p)
    PROVE  SoundStep(p)
  <1> DEFINE found == fs[run[p]]["ready"]
  <1>1. /\ fs \in FsType /\ run[p] \in Runs /\ found \in Dirs /\ "ready" \in Phases
        /\ "ready" \in QueuePhases /\ "processing" \in Phases /\ "failed" \in Phases
        /\ "failed" \in TerminalPhases /\ "failed" \in StatusKinds /\ "failed" \in PublishedStatus
        /\ Queue(p, "ready") = found
    BY LocalsLemma, EditLemma, PhasesLemma DEF Queue, PublishedStatus
  <1>2. found # NoDir => Exists(run[p], "ready")
    BY <1>1 DEF LockInv, AbsentEmpty
  <1>3. NoDir.status = "none"
    BY DEF NoDir, Contents
  <1>4. ASSUME ReturnError(p) PROVE Sound(p)'
    BY <1>4, PcLemma, Unguarded DEF Guarded, Importing, Failing
  <1>5. CASE ReadReadyInputs(p)
    <2>1. Quiet(p) /\ run'[p] = run[p] /\ found' = found
      BY <1>1, <1>5, QuietLemma DEF ReadReadyInputs
    <2>2. Sound(p)'
      BY <1>1, <1>4, <1>5, <2>1, PcLemma DEF ReadReadyInputs, Works, Fails, Sound, Importing, Failing
    <2> QED BY <2>1, <2>2 DEF SoundStep
  <1>6. CASE ClaimMove(p)
    <2>1. InputsVerdict(found) \in {"ok", "unsupported"} /\ pc[p] = "claim_move"
      BY <1>6 DEF ClaimMove, Sound
    <2>2. found.status = "none"
      BY <1>1, <2>1 DEF ReadySound
    <2>3. CASE fs' = Rename(run[p], "ready", "processing")
      <3>1. \A x \in Phases : fs'[run[p]][x] = IF x = "ready" THEN NoDir
                                               ELSE IF x = "processing" THEN found ELSE fs[run[p]][x]
        BY <1>1, <2>3, RenameLemma
      <3>2. EndsWell(p)
        BY <1>1, <1>3, <3>1, PhasesLemma DEF EndsWell, TerminalSound, TerminalPhases, Exists
      <3>3. CASE pc'[p] = "start" /\ run'[p] = run[p]
        <4>1. fs'[run'[p]]["processing"] = found
          BY <1>1, <3>1, <3>3
        <4> QED BY <2>1, <2>2, <3>2, <3>3, <4>1
                DEF SoundStep, Sound, Importing, Failing, Holding, Claiming
      <3>4. CASE pc'[p] \in {"recheck", "idle", "loop"}
        BY <2>1, <3>2, <3>4, Unguarded DEF SoundStep, Guarded, Importing, Failing, Holding, Claiming
      <3> QED BY <1>6, <3>3, <3>4, PcLemma DEF ClaimMove
    <2>4. CASE UNCHANGED fs /\ pc'[p] \in {"recheck", "idle", "loop"}
      BY <1>1, <2>4, Unguarded, QuietLemma DEF SoundStep, Guarded, Importing, Failing
    <2> QED BY <1>6, <2>3, <2>4, PcLemma DEF ClaimMove
  <1>7. CASE PublishMalformed(p)
    <2>1. InputsVerdict(found) = "malformed" /\ pc[p] = "mal_status"
      BY <1>7 DEF PublishMalformed, Sound
    <2>2. CASE UNCHANGED fs /\ ReturnError(p)
      BY <1>1, <1>4, <2>2, QuietLemma DEF SoundStep
    <2>3. CASE fs' = Put(run[p], "ready", WithStatus(Queue(p, "ready"), "failed"))
               /\ Goto(p, "mal_move")
      <3>1. EndsWell(p)
        BY <1>1, <2>1, <2>3, PutEndsWell
      <3>2. fs'[run[p]]["ready"].status = "failed"
            /\ InputsVerdict(fs'[run[p]]["ready"]) = "malformed"
        BY <1>1, <2>1, <2>3, StatusPut DEF InputsVerdict
      <3>3. pc'[p] = "mal_move" /\ run'[p] = run[p]
        BY <1>7, <2>3, PcLemma DEF PublishMalformed
      <3> QED BY <2>1, <3>1, <3>2, <3>3 DEF SoundStep, Sound, Importing, Failing, Holding, Claiming
    <2> QED BY <1>7, <2>2, <2>3 DEF PublishMalformed
  <1>8. CASE MoveMalformed(p)
    <2>1. found.status = "failed" /\ pc[p] = "mal_move"
      BY <1>8 DEF MoveMalformed, Sound
    <2>2. CanRename(run[p], "ready", "failed")
      BY <1>1, <1>2, <1>3, <2>1 DEF CanRename, OnePhase
    <2>3. fs' = Rename(run[p], "ready", "failed") /\ pc'[p] = "unlock"
      BY <1>8, <2>2, PcLemma DEF MoveMalformed, Fails
    <2>4. EndsWell(p)
      BY <1>1, <2>1, <2>3, MovePut
    <2> QED BY <2>1, <2>3, <2>4, Unguarded
            DEF SoundStep, Guarded, Importing, Failing, Holding, Claiming
  <1> QED BY <1>5, <1>6, <1>7, <1>8

\* ... a recovery and an import leave the queue as it is, but for the files of the import ...
LEMMA ImportSound ==
    ASSUME TypeOK, LockInv, NEW p \in Procs, Sound(p), ~IOError,
           \/ RecoverStatus(p) \/ StartImport(p) \/ CreateWork(p) \/ CheckStaged(p) \/ LoadPlan(p)
           \/ Spawn(p) \/ TransformSucceeds(p) \/ TransformFails(p) \/ WaitFails(p)
           \/ HandleError(p)
    PROVE  SoundStep(p)
  <1> DEFINE claimed == fs[run[p]]["processing"]
  <1>1. /\ fs \in FsType /\ run[p] \in Runs /\ claimed \in Dirs /\ "processing" \in Phases
        /\ Queue(p, "processing") = claimed /\ from[p] \in {"ready", "processing"}
        /\ Placements \subseteq Plans
        /\ \A q \in Requests, x \in DestinationStates : ResolveDestination(q, x) \in Placements
    BY LocalsLemma, EditLemma, PhasesLemma DEF Queue, QueuePhases
  <1>2. claimed # NoDir => Exists(run[p], "processing")
    BY <1>1 DEF LockInv, AbsentEmpty
  <1>3. pc[p] \in Importing => Exists(run[p], "processing")
    BY DEF LockInv, QueuedOnce
  <1>4. Quiet(p) /\ Look(fs'[run[p]]["processing"]) = Look(claimed)
    <2>1. Quiet(p)
      <3>1. CASE UNCHANGED fs
        BY <1>1, <3>1, QuietLemma
      <3>2. CASE CreateWork(p)
        BY <1>1, <1>3, <3>2, QuietLemma DEF CreateWork, Importing
      <3>3. CASE LoadPlan(p)
        <4>1. UNCHANGED fs \/ \E t \in Plans :
                 fs' = Put(run[p], "processing", WithPlan(Queue(p, "processing"), t))
          BY <1>1, <3>3, LocalsLemma DEF LoadPlan
        <4> QED BY <1>1, <4>1, QuietLemma
      <3>4. CASE TransformSucceeds(p)
        BY <1>1, <3>4, QuietLemma DEF TransformSucceeds
      <3> QED BY <3>1, <3>2, <3>3, <3>4
              DEF RecoverStatus, StartImport, CheckStaged, Spawn, TransformFails, WaitFails,
                  HandleError
    <2> QED BY <1>1, <2>1, PhasesLemma DEF Quiet
  <1> DEFINE after == fs'[run[p]]["processing"]
  <1>5. /\ after.exists = claimed.exists /\ after.status = claimed.status
        /\ Foreign(after) <=> Foreign(claimed)
        /\ InputsVerdict(after) = InputsVerdict(claimed)
    BY <1>4, SameLook
  <1>6. ASSUME ReturnError(p) PROVE Sound(p)'
    BY <1>6, PcLemma, Unguarded DEF Guarded, Importing, Failing
  <1>7. \A x : Decide(p, x) => out'[p] = x
    BY DEF Decide, TypeOK
  <1>8. run'[p] = run[p] /\ from'[p] = from[p]
    BY DEF RecoverStatus, StartImport, CreateWork, CheckStaged, LoadPlan, Spawn,
           TransformSucceeds, TransformFails, WaitFails, HandleError
  <1>9. /\ InputsVerdict(claimed) \in {"ok", "unsupported"} => claimed # NoDir
        /\ claimed.lease = "malformed" => ~Foreign(claimed)
        /\ claimed.status \in PublishedStatus \cup {"malformed"} =>
              claimed # NoDir /\ (Foreign(claimed) <=> claimed.lease = "old_protocol")
        /\ claimed.status = "none" /\ InputsVerdict(claimed) # "incompatible" => ~Foreign(claimed)
        /\ InputsVerdict(claimed) \in InputKinds \cup {"incompatible"}
        /\ InputsVerdict(claimed) # "old_version"
    BY <1>1, VerdictLemma
  <1> HIDE DEF claimed, after
  \* On the way to the publication nothing else changes.
  <1>10. ASSUME pc[p] \in Importing \ {"final"}, pc'[p] \in Importing \ {"final"} PROVE Sound(p)'
    BY <1>5, <1>8, <1>10 DEF Sound, Importing, Failing, claimed, after
  <1>11. CASE RecoverStatus(p)
    <2>1. pc[p] = "status" /\ from[p] = "processing"
      BY <1>11 DEF RecoverStatus, Sound
    <2>2. ASSUME pc'[p] = "error", claimed.lease = "malformed" PROVE Sound(p)'
      BY <1>5, <1>8, <1>9, <2>1, <2>2 DEF Sound, Importing, Failing, after
    <2>3. ASSUME pc'[p] = "fail_status", claimed.lease # "old_protocol",
                 claimed.status = "malformed"
          PROVE  Sound(p)'
      BY <1>5, <1>8, <1>9, <2>1, <2>3 DEF Sound, Importing, Failing, after
    <2>4. ASSUME pc'[p] = "final", claimed.lease # "old_protocol",
                 claimed.status \in PublishedStatus, out'[p] = claimed.status
          PROVE  Sound(p)'
      BY <1>5, <1>8, <1>9, <2>1, <2>4 DEF Sound, Importing, Failing, after
    <2>5. ASSUME pc'[p] = "start", claimed.status = "none" PROVE Sound(p)'
      BY <1>5, <1>8, <2>1, <2>5 DEF Sound, Importing, Failing, after
    <2>6. Sound(p)'
      BY <1>1, <1>6, <1>7, <1>11, <2>2, <2>3, <2>4, <2>5, PcLemma DEF RecoverStatus, Works, Fails
    <2> QED BY <1>4, <2>6 DEF SoundStep
  <1>12. CASE StartImport(p)
    <2>1. /\ pc[p] = "start" /\ claimed.status = "none"
          /\ from[p] = "ready" => InputsVerdict(claimed) \in {"ok", "unsupported"}
      BY <1>12 DEF StartImport, Sound, claimed
    <2>2. ASSUME pc'[p] = "work", InputsVerdict(claimed) = "ok" PROVE Sound(p)'
      BY <1>5, <1>8, <1>9, <2>1, <2>2 DEF Sound, Importing, Failing, after
    <2>3. ASSUME pc'[p] = "fail_status", InputsVerdict(claimed) \in {"malformed", "unsupported"}
          PROVE  Sound(p)'
      <3>1. from[p] = "ready" => claimed.exists
        BY <1>2, <1>9, <2>1 DEF Exists, claimed
      <3> QED BY <1>5, <1>8, <1>9, <2>1, <2>3, <3>1 DEF Sound, Importing, Failing, after
    <2>4. Sound(p)'
      BY <1>1, <1>6, <1>12, <2>1, <2>2, <2>3, PcLemma DEF StartImport, Works, Fails
    <2> QED BY <1>4, <2>4 DEF SoundStep
  <1>13. CASE CreateWork(p) \/ CheckStaged(p) \/ LoadPlan(p) \/ Spawn(p) \/ TransformSucceeds(p)
              \/ TransformFails(p) \/ WaitFails(p)
    <2>1. pc[p] \in Importing \ {"final"} /\ pc'[p] \in Importing \ {"final"}
      BY <1>13, PcLemma DEF CreateWork, CheckStaged, LoadPlan, Spawn, TransformSucceeds,
         TransformFails, WaitFails, EntryFailed, Importing
    <2> QED BY <1>4, <1>10, <2>1 DEF SoundStep
  <1>14. CASE HandleError(p)
    <2>1. pc[p] = "error" /\ from[p] = "processing" /\ ~Foreign(claimed)
      BY <1>14 DEF HandleError, Sound, Importing, Failing, claimed
    <2>2. pc'[p] \in {"h_status", "reply"}
      BY <1>14, <2>1, PcLemma DEF HandleError
    <2>3. Sound(p)'
      BY <1>5, <1>8, <2>1, <2>2 DEF Sound, Importing, Failing, after
    <2> QED BY <1>4, <2>3 DEF SoundStep
  <1> QED BY <1>11, <1>12, <1>13, <1>14

\* ... and a run is moved to the phase of the status that it has by then.
LEMMA EndSound ==
    ASSUME TypeOK, LockInv, OnePhase, ReadySound, TerminalSound, NEW p \in Procs, Sound(p),
           ~IOError,
           \/ PublishStatus(p) \/ Finalize(p) \/ PublishFailure(p) \/ MoveFailure(p)
           \/ MoveToFailed(p)
    PROVE  SoundStep(p)
  <1> DEFINE claimed == fs[run[p]]["processing"]
  <1>1. /\ fs \in FsType /\ run[p] \in Runs /\ claimed \in Dirs /\ "processing" \in Phases
        /\ "processing" \in QueuePhases /\ "failed" \in Phases /\ "failed" \in TerminalPhases
        /\ Queue(p, "processing") = claimed /\ from[p] \in {"ready", "processing"}
        /\ "failed" \in StatusKinds /\ out[p] \in PublishedStatus /\ out[p] \in StatusKinds
        /\ "failed" \in PublishedStatus
        /\ TerminalPhase(out[p]) \in TerminalPhases /\ TerminalPhase(out[p]) \in Phases
    BY LocalsLemma, EditLemma, PhasesLemma DEF Queue, QueuePhases, PublishedStatus
  <1>2. claimed.status \in PublishedStatus => Exists(run[p], "processing")
    BY <1>1 DEF LockInv, AbsentEmpty, NoDir, Contents, PublishedStatus
  <1>3. \A b \in TerminalPhases :
            Exists(run[p], "processing") => CanRename(run[p], "processing", b)
    BY <1>1, PhasesLemma DEF CanRename, OnePhase, TerminalPhases, Phases
  <1>4. ASSUME ReturnError(p) PROVE Sound(p)'
    BY <1>4, PcLemma, Unguarded DEF Guarded, Importing, Failing
  <1>5. run'[p] = run[p] /\ from'[p] = from[p]
    BY DEF PublishStatus, Finalize, PublishFailure, MoveFailure, MoveToFailed
  <1>6. \A x : Decide(p, x) => out'[p] = x
    BY DEF Decide, TypeOK
  <1> DEFINE after == fs'[run[p]]["processing"]
  <1>7. ASSUME NEW s \in PublishedStatus, ~Foreign(claimed),
               fs' = Put(run[p], "processing", WithStatus(Queue(p, "processing"), s))
        PROVE  EndsWell(p) /\ after.status = s /\ ~Foreign(after)
    <2>1. s \in StatusKinds
      BY PhasesLemma
    <2>2. EndsWell(p)
      BY <1>1, <1>7, <2>1, PutEndsWell
    <2>3. after.status = s /\ after.lease = claimed.lease
      BY <1>1, <1>7, <2>1, StatusPut
    <2> QED BY <1>7, <2>2, <2>3 DEF Foreign, PublishedStatus
  <1> HIDE DEF claimed, after
  <1>8. CASE PublishStatus(p)
    <2>1. pc[p] = "publish" /\ ~Foreign(claimed) /\ Exists(run[p], "processing")
      BY <1>8 DEF PublishStatus, Sound, LockInv, QueuedOnce, Importing, Failing, claimed
    <2>2. /\ fs' = Put(run[p], "processing", WithStatus(Queue(p, "processing"), out[p]))
          /\ pc'[p] = "final" /\ out'[p] = out[p]
      BY <1>1, <1>8, <2>1, PcLemma DEF PublishStatus, Fails, Exists, claimed
    <2>3. EndsWell(p) /\ after.status = out[p] /\ ~Foreign(after)
      BY <1>1, <1>7, <2>1, <2>2
    <2>4. Sound(p)'
      BY <1>5, <2>2, <2>3 DEF Sound, Importing, Failing, after
    <2> QED BY <2>1, <2>3, <2>4 DEF SoundStep, Holding, Importing
  <1>9. CASE Finalize(p)
    <2>1. pc[p] = "final" /\ claimed.status = out[p]
      BY <1>9 DEF Finalize, Sound, claimed
    <2>2. /\ fs' = Rename(run[p], "processing", TerminalPhase(out[p]))
          /\ pc'[p] \in {"prune", "unlock"}
      BY <1>1, <1>2, <1>3, <1>9, <2>1, PcLemma DEF Finalize, Fails
    <2>3. out[p] = "failed" <=> TerminalPhase(out[p]) = "failed"
      BY <1>1 DEF TerminalPhase
    <2>4. EndsWell(p)
      BY <1>1, <2>1, <2>2, <2>3, MovePut DEF claimed
    <2> QED BY <2>1, <2>2, <2>4, Unguarded DEF SoundStep, Holding, Importing, Guarded, Failing
  <1>10. CASE PublishFailure(p)
    <2>1. /\ pc[p] \in {"fail_status", "h_status"} /\ ~Foreign(claimed)
          /\ pc[p] = "fail_status" /\ from[p] = "ready" => claimed.exists
      BY <1>10 DEF PublishFailure, Sound, Importing, Failing, claimed
    <2>2. CASE /\ fs' = Put(run[p], "processing", WithStatus(Queue(p, "processing"), "failed"))
               /\ pc'[p] \in {"fail_move", "h_move"}
      <3>1. EndsWell(p) /\ after.status = "failed" /\ ~Foreign(after)
        BY <1>1, <1>7, <2>1, <2>2
      <3>2. Sound(p)'
        BY <1>5, <2>2, <3>1 DEF Sound, Importing, Failing, after
      <3> QED BY <2>1, <3>1, <3>2 DEF SoundStep, Holding, Failing
    <2>3. CASE /\ UNCHANGED fs /\ ~claimed.exists
               /\ ReturnError(p) \/ (pc[p] = "fail_status" /\ pc'[p] = "error")
      <3>1. Quiet(p) /\ after = claimed
        BY <1>1, <2>3, QuietLemma DEF after, claimed
      <3>2. CASE pc[p] = "fail_status" /\ pc'[p] = "error"
        BY <1>1, <1>5, <2>1, <2>3, <3>1, <3>2 DEF SoundStep, Sound, Importing, Failing, after
      <3> QED BY <1>4, <2>3, <3>1, <3>2 DEF SoundStep
    <2> QED BY <1>1, <1>10, <2>2, <2>3, PcLemma DEF PublishFailure, Fails
  <1>11. CASE MoveFailure(p)
    <2>1. pc[p] \in {"fail_move", "h_move"} /\ claimed.status = "failed"
      BY <1>11 DEF MoveFailure, Sound, claimed
    <2>2. fs' = Rename(run[p], "processing", "failed") /\ pc'[p] = "unlock"
      BY <1>1, <1>2, <1>3, <1>11, <2>1, PcLemma DEF MoveFailure, Fails
    <2>3. EndsWell(p)
      BY <1>1, <2>1, <2>2, MovePut DEF claimed
    <2> QED BY <2>1, <2>2, <2>3, Unguarded DEF SoundStep, Holding, Importing, Guarded, Failing
  <1>12. CASE MoveToFailed(p)
    BY <1>12 DEF MoveToFailed, Sound
  <1> QED BY <1>8, <1>9, <1>10, <1>11, <1>12

\* So without I/O errors every step of a processor leaves it with what it relies on.
LEMMA SoundStepLemma ==
    ASSUME TypeOK, LockInv, OnePhase, ReadySound, TerminalSound, NEW p \in Procs, Sound(p),
           ProcStep(p), ioErrors' = 0
    PROVE  SoundStep(p)
  BY NoErrors, SearchSound, ClaimSound, ImportSound, EndSound DEF ProcStep, Step

\* A processor that does not move keeps what it relies on as long as its run looks the same.
LEMMA SoundCarried ==
    ASSUME NEW q \in Procs, Sound(q), pc'[q] = pc[q], run'[q] = run[q], out'[q] = out[q],
           from'[q] = from[q],
           \A ph \in QueuePhases : Look(fs'[run[q]][ph]) = Look(fs[run[q]][ph])
    PROVE  Sound(q)'
  <1> DEFINE found == fs[run[q]]["ready"]
             claimed == fs[run[q]]["processing"]
             found2 == fs'[run[q]]["ready"]
             claimed2 == fs'[run[q]]["processing"]
  <1>1. Look(found2) = Look(found) /\ Look(claimed2) = Look(claimed)
    BY DEF QueuePhases
  <1>2. /\ found2.status = found.status /\ InputsVerdict(found2) = InputsVerdict(found)
        /\ claimed2.exists = claimed.exists /\ claimed2.status = claimed.status
        /\ Foreign(claimed2) <=> Foreign(claimed)
        /\ InputsVerdict(claimed2) = InputsVerdict(claimed)
    BY <1>1, SameLook
  <1> QED BY <1>2 DEF Sound

\* Every step of a processor keeps the invariant of publication.
LEMMA PublishedProcStep ==
    ASSUME TypeOK, LockInv, OnePhase, PublishedInv, NEW p \in Procs, ProcStep(p)
    PROVE  PublishedInv'
  <1> SUFFICES ASSUME ioErrors' = 0
               PROVE  (ReadySound /\ TerminalSound /\ \A q \in Procs : Sound(q))'
    BY DEF PublishedInv
  <1>1. ReadySound /\ TerminalSound /\ \A q \in Procs : Sound(q)
    BY NoErrors DEF PublishedInv
  <1>2. SoundStep(p) /\ OthersUnchanged(p) /\ run[p] \in Runs
    BY <1>1, SoundStepLemma, DirEffect, LocalsLemma
  <1>3. /\ "ready" \in QueuePhases /\ "ready" \in Phases
        /\ QueuePhases \subseteq Phases /\ TerminalPhases \subseteq Phases
    BY PhasesLemma
  \* The ready runs and the ends ...
  <1>4. ASSUME NEW r \in Runs
        PROVE  \/ fs'[r]["ready"].status = "none"
               \/ fs'[r]["ready"].status = "failed" /\ InputsVerdict(fs'[r]["ready"]) = "malformed"
    <2>1. \/ fs[r]["ready"].status = "none"
          \/ fs[r]["ready"].status = "failed" /\ InputsVerdict(fs[r]["ready"]) = "malformed"
      BY <1>1 DEF ReadySound
    <2>2. CASE r # run[p]
      BY <1>2, <1>3, <2>1, <2>2 DEF OthersUnchanged, Unchanged
    <2>3. CASE r = run[p] /\ Quiet(p)
      <3>1. Look(fs'[r]["ready"]) = Look(fs[r]["ready"])
        BY <1>3, <2>3 DEF Quiet
      <3>2. fs'[r]["ready"].status = fs[r]["ready"].status
            /\ InputsVerdict(fs'[r]["ready"]) = InputsVerdict(fs[r]["ready"])
        BY <3>1, SameLook
      <3> QED BY <2>1, <3>2
    <2>4. CASE r = run[p] /\ EndsWell(p)
      BY <2>4 DEF EndsWell
    <2> QED BY <1>2, <2>2, <2>3, <2>4 DEF SoundStep
  <1>5. ASSUME NEW r \in Runs, NEW ph \in TerminalPhases, fs'[r][ph].exists
        PROVE  fs'[r][ph].status \in PublishedStatus /\ (fs'[r][ph].status = "failed" <=> ph = "failed")
    <2>1. fs[r][ph].exists =>
             fs[r][ph].status \in PublishedStatus /\ (fs[r][ph].status = "failed" <=> ph = "failed")
      BY <1>1 DEF TerminalSound, Exists
    <2>2. CASE r # run[p]
      BY <1>2, <1>3, <1>5, <2>1, <2>2 DEF OthersUnchanged, Unchanged
    <2>3. CASE r = run[p] /\ Quiet(p)
      BY <1>3, <1>5, <2>1, <2>3 DEF Quiet
    <2>4. CASE r = run[p] /\ EndsWell(p)
      BY <1>5, <2>4 DEF EndsWell
    <2> QED BY <1>2, <2>2, <2>3, <2>4 DEF SoundStep
  \* ... and the other processors.
  <1>6. ASSUME NEW q \in Procs \ {p} PROVE Sound(q)'
    <2>1. /\ pc'[q] = pc[q] /\ run'[q] = run[q] /\ out'[q] = out[q] /\ from'[q] = from[q]
          /\ run[q] \in Runs /\ Sound(q)
      BY <1>1, StillLemma, FromLemma, LocalsLemma DEF Still
    <2>2. CASE run[q] # run[p]
      <3>1. \A ph \in QueuePhases : Look(fs'[run[q]][ph]) = Look(fs[run[q]][ph])
        BY <1>2, <1>3, <2>1, <2>2 DEF OthersUnchanged, Unchanged
      <3> QED BY <2>1, <3>1, SoundCarried
    <2>3. CASE run[q] = run[p] /\ Quiet(p)
      <3>1. \A ph \in QueuePhases : Look(fs'[run[q]][ph]) = Look(fs[run[q]][ph])
        BY <2>3 DEF Quiet
      <3> QED BY <2>1, <3>1, SoundCarried
    <2>4. CASE run[q] = run[p] /\ pc[p] \in Holding
      <3>1. pc[q] \notin Holding
        BY <2>4, OneHolder DEF MutualExclusion
      <3> QED BY <2>1, <3>1, Unguarded
    <2> QED BY <1>2, <2>2, <2>3, <2>4 DEF SoundStep
  <1>7. ReadySound'
    BY <1>4 DEF ReadySound
  <1>8. TerminalSound'
    BY <1>5 DEF TerminalSound, Exists
  <1>9. \A q \in Procs : Sound(q)'
    BY <1>2, <1>6 DEF SoundStep
  <1> QED BY <1>7, <1>8, <1>9

\* Every step does: the world around the processors touches no directory.
LEMMA PublishedStep == TypeOK /\ LockInv /\ OnePhase /\ PublishedInv /\ [Next]_vars => PublishedInv'
  <1> SUFFICES ASSUME TypeOK, LockInv, OnePhase, PublishedInv, [Next]_vars PROVE PublishedInv'
    OBVIOUS
  <1>1. CASE \E p \in Procs : ProcStep(p)
    BY <1>1, PublishedProcStep
  <1>2. CASE UNCHANGED <<fs, pc, run, out, from, ioErrors>>
    BY <1>2 DEF PublishedInv, ReadySound, TerminalSound, Exists, Sound
  <1>3. CASE \/ \E r \in Runs : TransformWrites(r) \/ OrphanExits(r)
             \/ \E o \in Observers : ProbeLock(o) \/ EndProbe(o)
             \/ UNCHANGED vars
    BY <1>2, <1>3 DEF TransformWrites, OrphanExits, ProbeLock, EndProbe, vars, procVars, faultVars
  <1> QED BY <1>1, <1>3 DEF Next, ProcStep

\* It holds when no invocation has started: no ready run has a status and no run is terminal.
LEMMA PublishedInit == Init => PublishedInv
  <1> SUFFICES ASSUME Init PROVE ReadySound /\ TerminalSound /\ \A p \in Procs : Sound(p)
    BY DEF PublishedInv
  <1>1. NoDir.status = "none" /\ ~NoDir.exists
    BY DEF NoDir, Contents
  <1>2. ASSUME NEW r \in Runs
        PROVE  fs[r]["ready"].status = "none" /\ \A ph \in TerminalPhases : ~fs[r][ph].exists
    <2>1. PICK a \in Arrivals : fs[r] = Found(a)
      BY DEF Init
    <2>2. a.phase \in QueuePhases /\ (a.phase = "ready" => a.dir.status = "none")
      BY ProcessorAssumption
    <2> QED BY <1>1, <2>1, <2>2, PhasesLemma DEF Found
  <1>3. ASSUME NEW p \in Procs PROVE Sound(p)
    BY DEF Init, Quiescent, Sound, Importing, Failing
  <1> QED BY <1>2, <1>3 DEF ReadySound, TerminalSound, Exists

\* All that the proofs about publication rest on.
PublishedFacts == TypeOK /\ LockInv /\ OnePhase /\ PublishedInv

THEOREM PublishedFactsHold == Spec => []PublishedFacts
  BY TypeCorrect, LockInit, LockStep, QueuedInit, OnePhaseNext, PublishedInit, PublishedStep,
     PTL DEF Spec, PublishedFacts

\* Without I/O errors a run in done/ or failed/ is there alone and with the status that
\* belongs there, for every number of crashes (finalize_processing_run, write_run_failure).
THEOREM TerminalIsPublished == Spec => []TerminalPublished
  <1>1. PublishedFacts => TerminalPublished
    BY PhasesLemma DEF PublishedFacts, PublishedInv, TerminalSound, OnePhase, TerminalPublished
  <1> QED BY <1>1, PublishedFactsHold, PTL

\* Without I/O errors no run whose status is published is imported again
\* (recover_or_process_processing_run).
THEOREM NothingIsReplayed == Spec => []NoReplayAfterPublication
  <1>1. PublishedFacts => NoReplayAfterPublication
    BY DEF PublishedFacts, PublishedInv, Sound, NoReplayAfterPublication, PublishedStatus
  <1> QED BY <1>1, PublishedFactsHold, PTL

----------------------------------------------------------------------------
(* Runs of another version *)

\* Two directories are the same, lock file and age apart.
SameButLock(d, e) ==
    [d EXCEPT !.lock = NoLock, !.aged = FALSE] = [e EXCEPT !.lock = NoLock, !.aged = FALSE]

\* p's step leaves directory ph of its run alone, or puts a lock file into it.
LeavesBe(p, ph) == SameButLock(fs'[run[p]][ph], fs[run[p]][ph])

\* The steps of a claim change the ready directory of a run that is not foreign.
LEMMA ClaimLeaves ==
    ASSUME TypeOK, LockInv, ReadySound, NEW p \in Procs, Sound(p), ~IOError,
           ClaimMove(p) \/ PublishMalformed(p) \/ MoveMalformed(p),
           NEW ph \in QueuePhases, Exists(run[p], ph), Foreign(fs[run[p]][ph])
    PROVE  Unchanged(run[p], ph)
  <1> DEFINE found == fs[run[p]]["ready"]
  <1>1. /\ fs \in FsType /\ run[p] \in Runs /\ found \in Dirs /\ "ready" \in Phases
        /\ "processing" \in Phases /\ "failed" \in Phases /\ "failed" \in StatusKinds
        /\ "none" \in StatusKinds /\ Queue(p, "ready") = found
    BY LocalsLemma, EditLemma, PhasesLemma DEF Queue, PublishedStatus
  <1>2. InputsVerdict(found) # "incompatible" /\ ~Foreign(found)
    <2>1. pc[p] \in {"claim_move", "mal_status", "mal_move"}
      BY DEF ClaimMove, PublishMalformed, MoveMalformed
    <2>2. InputsVerdict(found) # "incompatible"
      BY <2>1 DEF Sound
    <2>3. found.status \in {"none", "failed"}
      BY <1>1 DEF ReadySound
    <2> QED BY <1>1, <2>2, <2>3, VerdictLemma
  <1>3. ph = "processing" /\ ~Exists(run[p], "ready")
    BY <1>1, <1>2 DEF QueuePhases, LockInv, QueuedOnce
  <1>4. UNCHANGED fs
    BY <1>1, <1>3
       DEF ClaimMove, PublishMalformed, MoveMalformed, Works, Fails, CanRename, Exists
  <1> QED BY <1>4 DEF Unchanged

\* The steps of an import and of a failure change the claimed directory of a run that is
\* not foreign.
LEMMA ImportLeaves ==
    ASSUME TypeOK, LockInv, NEW p \in Procs, Sound(p), ~IOError,
           \/ CreateWork(p) \/ LoadPlan(p) \/ TransformSucceeds(p) \/ PublishStatus(p)
           \/ Finalize(p) \/ PublishFailure(p) \/ MoveFailure(p) \/ MoveToFailed(p),
           NEW ph \in QueuePhases, Exists(run[p], ph), Foreign(fs[run[p]][ph])
    PROVE  Unchanged(run[p], ph)
  <1> DEFINE claimed == fs[run[p]]["processing"]
  <1>1. /\ fs \in FsType /\ run[p] \in Runs /\ claimed \in Dirs /\ "processing" \in Phases
        /\ Queue(p, "processing") = claimed /\ ph \in Phases
        /\ "failed" \in Phases \ {ph} /\ "failed" \in StatusKinds /\ out[p] \in StatusKinds
        /\ TerminalPhase(out[p]) \in Phases \ {ph} /\ "processing" \notin TerminalPhases
        /\ TerminalPhase(out[p]) # "processing"
        /\ \A q \in Requests, x \in DestinationStates : ResolveDestination(q, x) \in Plans
    BY LocalsLemma, EditLemma, PhasesLemma DEF Queue, PublishedStatus
  <1>2. ~Foreign(claimed)
    BY DEF CreateWork, LoadPlan, TransformSucceeds, PublishStatus, Finalize, PublishFailure,
       MoveFailure, MoveToFailed, Sound, Importing, Failing
  <1>3. ph # "processing"
    BY <1>2
  <1>4. ASSUME NEW d \in Dirs, fs' = Put(run[p], "processing", d) PROVE Unchanged(run[p], ph)
    BY <1>1, <1>3, <1>4, PutLemma DEF Unchanged
  <1>5. ASSUME NEW b \in Phases \ {ph}, b # "processing", fs' = Rename(run[p], "processing", b)
        PROVE  Unchanged(run[p], ph)
    BY <1>1, <1>3, <1>5, RenameLemma DEF Unchanged
  <1>6. /\ WithWork(claimed) \in Dirs /\ WithoutWork(claimed) \in Dirs
        /\ \A t \in Plans : WithPlan(claimed, t) \in Dirs
        /\ \A s \in StatusKinds : WithStatus(claimed, s) \in Dirs
    BY <1>1, WithWorkLemma, WithoutWorkLemma, WithPlanLemma, WithStatusLemma
  <1>7. CASE UNCHANGED fs
    BY <1>7 DEF Unchanged
  <1>8. CASE CreateWork(p) \/ TransformSucceeds(p)
    BY <1>1, <1>4, <1>6, <1>7, <1>8 DEF CreateWork, TransformSucceeds
  <1>9. CASE LoadPlan(p)
    <2>1. Request[run[p]] \in Requests /\ dest[run[p]] \in DestinationStates
      BY LocalsLemma
    <2> QED BY <1>1, <1>4, <1>6, <1>7, <1>9, <2>1 DEF LoadPlan
  <1>10. CASE PublishStatus(p) \/ PublishFailure(p)
    BY <1>1, <1>4, <1>6, <1>7, <1>10 DEF PublishStatus, PublishFailure
  <1>11. CASE Finalize(p) \/ MoveFailure(p) \/ MoveToFailed(p)
    BY <1>1, <1>5, <1>7, <1>11 DEF Finalize, MoveFailure, MoveToFailed
  <1> QED BY <1>8, <1>9, <1>10, <1>11

\* Without I/O errors no step of a processor changes a foreign run, lock file apart.
LEMMA ForeignLeft ==
    ASSUME PublishedFacts, NEW p \in Procs, ProcStep(p), ioErrors' = 0,
           NEW ph \in QueuePhases, Exists(run[p], ph), Foreign(fs[run[p]][ph])
    PROVE  LeavesBe(p, ph)
  <1>1. /\ TypeOK /\ LockInv /\ ReadySound /\ Sound(p) /\ ~IOError
        /\ fs \in FsType /\ run[p] \in Runs /\ ph \in Phases /\ ph \notin TerminalPhases
    BY NoErrors, LocalsLemma, PhasesLemma DEF PublishedFacts, PublishedInv
  <1>2. CASE Unchanged(run[p], ph)
    BY <1>2 DEF Unchanged, LeavesBe, SameButLock
  <1>3. CASE ClaimMove(p) \/ PublishMalformed(p) \/ MoveMalformed(p)
    BY <1>1, <1>2, <1>3, ClaimLeaves
  <1>4. CASE \/ CreateWork(p) \/ LoadPlan(p) \/ TransformSucceeds(p) \/ PublishStatus(p)
             \/ Finalize(p) \/ PublishFailure(p) \/ MoveFailure(p) \/ MoveToFailed(p)
    BY <1>1, <1>2, <1>4, ImportLeaves
  <1>5. ASSUME NEW x \in TerminalPhases, NEW d \in Dirs, fs' = Put(run[p], x, d)
        PROVE  LeavesBe(p, ph)
    <2>1. x \in Phases /\ x # ph
      BY <1>1, PhasesLemma
    <2> QED BY <1>1, <1>2, <1>5, <2>1, PutLemma DEF Unchanged
  <1>6. CASE Prune(p)
    <2>1. Pruned(Queue(p, "done")) \in Dirs
      BY <1>1, EditLemma, PrunedLemma, PhasesLemma DEF Queue
    <2> QED BY <1>2, <1>5, <1>6, <2>1, PhasesLemma DEF Prune, Unchanged
  <1>7. CASE Unlock(p)
    <2>1. TerminalPhase(out[p]) \in TerminalPhases
      BY <1>1, LocalsLemma, PhasesLemma
    <2>2. WithLock(Queue(p, TerminalPhase(out[p])), NoLock) \in Dirs
      BY <1>1, <2>1, EditLemma, WithLockLemma, PhasesLemma DEF Queue
    <2> QED BY <1>2, <1>5, <1>7, <2>1, <2>2 DEF Unlock, Unchanged
  <1>8. CASE OpenLock(p)
    <2>1. /\ from[p] \in Phases /\ Queue(p, from[p]) \in Dirs
          /\ Queue(p, from[p]) = fs[run[p]][from[p]]
      BY <1>1, LocalsLemma, EditLemma, PhasesLemma DEF Queue
    <2>2. CASE \E i \in Inodes : fs' = Put(run[p], from[p], WithLock(Queue(p, from[p]), i))
      <3>1. PICK i \in Inodes : fs' = Put(run[p], from[p], WithLock(Queue(p, from[p]), i))
        BY <2>2
      <3>2. WithLock(Queue(p, from[p]), i) \in Dirs
        BY <2>1, WithLockLemma
      <3>3. fs'[run[p]][ph] = IF ph = from[p] THEN WithLock(Queue(p, from[p]), i)
                              ELSE fs[run[p]][ph]
        BY <1>1, <2>1, <3>1, <3>2, PutLemma
      <3>4. SameButLock(WithLock(Queue(p, from[p]), i), Queue(p, from[p]))
        BY <2>1 DEF SameButLock, WithLock, Dirs
      <3> QED BY <1>2, <2>1, <3>3, <3>4 DEF LeavesBe, Unchanged
    <2>3. CASE UNCHANGED fs
      BY <1>2, <2>3 DEF Unchanged
    <2> QED BY <1>8, <2>2, <2>3 DEF OpenLock
  <1>9. CASE UNCHANGED fs
    BY <1>2, <1>9 DEF Unchanged
  <1>10. CASE \/ StartProcessRun(p) \/ StartProcessOnce(p) \/ ListReady(p) \/ NextRecovery(p)
              \/ NextClaim(p) \/ EndProcessOnce(p) \/ Claim(p) \/ Recheck(p) \/ FallThrough(p)
              \/ Recover(p) \/ Flock(p) \/ ReadReadyInputs(p) \/ RecoverStatus(p)
              \/ StartImport(p) \/ CheckStaged(p) \/ Spawn(p) \/ TransformFails(p)
              \/ WaitFails(p) \/ Reply(p) \/ Observe(p) \/ HandleError(p) \/ Crash(p)
    BY <1>9, <1>10
       DEF StartProcessRun, StartProcessOnce, ListReady, NextRecovery, NextClaim,
           EndProcessOnce, Claim, Recheck, FallThrough, Recover, Flock, ReadReadyInputs,
           RecoverStatus, StartImport, CheckStaged, Spawn, TransformFails, WaitFails, Reply,
           Observe, HandleError, Crash
  <1> QED BY <1>3, <1>4, <1>6, <1>7, <1>8, <1>10 DEF ProcStep, Step

\* Without I/O errors a queued run of another version keeps its status, its plan and its
\* phase, whatever processes crash and race for it (ProcessingError::Incompatible).
THEOREM ForeignStays == Spec => ForeignUntouched
  <1> DEFINE Untouched ==
        ioErrors' = 0 =>
            \A r \in Runs, ph \in QueuePhases :
                Exists(r, ph) /\ Foreign(fs[r][ph]) => SameButLock(fs'[r][ph], fs[r][ph])
  <1>1. PublishedFacts /\ [Next]_vars => Untouched
    <2> SUFFICES ASSUME PublishedFacts, [Next]_vars, ioErrors' = 0, NEW r \in Runs,
                        NEW ph \in QueuePhases, Exists(r, ph), Foreign(fs[r][ph])
                 PROVE  SameButLock(fs'[r][ph], fs[r][ph])
      OBVIOUS
    <2>1. CASE UNCHANGED fs
      BY <2>1 DEF SameButLock
    <2>2. ASSUME NEW p \in Procs, ProcStep(p) PROVE SameButLock(fs'[r][ph], fs[r][ph])
      <3>1. CASE r = run[p]
        BY <2>2, <3>1, ForeignLeft DEF LeavesBe
      <3>2. CASE r # run[p]
        <4>1. fs'[r][ph] = fs[r][ph]
          BY <2>2, <3>2, DirEffect, PhasesLemma DEF PublishedFacts, OthersUnchanged, Unchanged
        <4> QED BY <4>1 DEF SameButLock
      <3> QED BY <3>1, <3>2
    <2>3. CASE \/ \E x \in Runs : TransformWrites(x) \/ OrphanExits(x)
               \/ \E o \in Observers : ProbeLock(o) \/ EndProbe(o)
               \/ UNCHANGED vars
      BY <2>1, <2>3 DEF TransformWrites, OrphanExits, ProbeLock, EndProbe, vars
    <2> QED BY <2>2, <2>3 DEF Next, ProcStep
  <1>2. Untouched =>
          (ioErrors' = 0 =>
              \A r \in Runs, ph \in QueuePhases :
                  Exists(r, ph) /\ Foreign(fs[r][ph]) =>
                      [fs'[r][ph] EXCEPT !.lock = NoLock, !.aged = FALSE]
                          = [fs[r][ph] EXCEPT !.lock = NoLock, !.aged = FALSE])
    BY DEF SameButLock
  <1> HIDE DEF Untouched
  <1> QED BY <1>1, <1>2, PublishedFactsHold, PTL DEF Spec, ForeignUntouched
=============================================================================
