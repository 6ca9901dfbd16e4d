------------------------------ MODULE Collector ------------------------------
(***************************************************************************)
(* Garbage collection of the work directory (gc.rs).  A pass looks at the  *)
(* phases one after the other, decides for each run directory by age and   *)
(* lease, and deletes what has expired with remove_dir_all: file by file,  *)
(* through the descriptor it opened, and the emptied directory by path.    *)
(* Nothing but the lock of a processing run is looked at, and that lock is *)
(* let go before the deletion.                                             *)
(*                                                                         *)
(* Time is not counted: what is young may become older than its retention  *)
(* at any moment, and every change to a directory makes it young again.    *)
(***************************************************************************)
EXTENDS Processor, Sequences

CONSTANTS
    Collectors  \* slots for GC passes; they probe locks like run-state does

ASSUME CollectorAssumption == Collectors \subseteq Observers

VARIABLES
    gc,         \* gc[g]: the pass in slot g
    statusOld,  \* the runs whose status.toml is older than its retention
    opened      \* history: the runs whose directory remove_dir_all has opened

gcVars == <<gc, statusOld, opened>>

GcPhases == <<"incoming", "ready", "processing", "done", "failed">>

GcSteps == {"idle", "next", "visit", "probe", "release", "open", "remove", "rmdir"}

\* What remove_dir_all finds in a run directory.  run.toml and manifest.toml
\* are "inputs", work/ and destination-plan.toml are "scratch".
Items == {"files", "scratch", "lease", "inputs", "status", "lock"}

Resting == [pc |-> "idle", phase |-> 1, todo |-> {}, run |-> CHOOSE r \in Runs : TRUE,
            old |-> FALSE, at |-> "incoming", left |-> {}]

CollectorTypeOK ==
    /\ gc \in [Collectors -> [pc : GcSteps, phase : 1..Len(GcPhases), todo : SUBSET Runs,
                              run : Runs, old : BOOLEAN, at : Phases, left : SUBSET Items]]
    /\ statusOld \in SUBSET Runs
    /\ opened \in SUBSET Runs

CollectorInit ==
    /\ gc = [g \in Collectors |-> Resting]
    /\ statusOld = {}
    /\ opened = {}

----------------------------------------------------------------------------

GcPhase(g) == GcPhases[gc[g].phase]
GcDir(g) == fs[gc[g].run][GcPhase(g)]

GcGoto(g, step) == gc' = [gc EXCEPT ![g].pc = step]

\* The pass goes on with its next run.
GcContinues(g) ==
    gc' = [gc EXCEPT ![g] = [Resting EXCEPT !.pc = "next", !.phase = gc[g].phase,
                                            !.todo = gc[g].todo]]

\* An error ends the pass, whatever it had still to do.
GcFails(g) == gc' = [gc EXCEPT ![g] = Resting]

GcLeaves == UNCHANGED <<statusOld, opened>>

----------------------------------------------------------------------------
(* A pass *)

\* collect_phase lists the directory of a phase ...
Listed(ph) == {r \in Runs : Exists(r, ph)}

GcStart(g) ==
    /\ gc[g].pc = "idle"
    /\ gc' = [gc EXCEPT ![g].pc = "next", ![g].todo = Listed("incoming")]
    /\ GcLeaves /\ UNCHANGED <<fs, owner, probe>>

\* ... and visits what it has listed, in any order; then the next phase.
GcNext(g) ==
    /\ gc[g].pc = "next"
    /\ \/ \E r \in gc[g].todo :
             gc' = [gc EXCEPT ![g].pc = "visit", ![g].run = r, ![g].todo = @ \ {r}]
       \/ /\ gc[g].todo = {}
          /\ gc' = IF gc[g].phase < Len(GcPhases)
                   THEN [gc EXCEPT ![g].phase = @ + 1,
                                   ![g].todo = Listed(GcPhases[gc[g].phase + 1])]
                   ELSE [gc EXCEPT ![g] = Resting]
    /\ GcLeaves /\ UNCHANGED <<fs, owner, probe>>

\* classify_terminal_status: a status that belongs into the phase.
ValidTerminal(ph, status) ==
    \/ ph = "done" /\ status \in {"done", "partial"}
    \/ ph = "failed" /\ status = "failed"

\* Mutant: the age of the directory counts, not that of its status.
ExpiredByDirectory(r, ph) ==
    LET d == fs[r][ph] IN
    IF ph = "incoming" /\ d.lease \in {"live", "expired"} THEN d.lease = "expired"
    ELSE d.aged

\* Mutant: an upload without a lease is waited for.
ExpiredWithLease(r, ph) ==
    LET d == fs[r][ph] IN
    IF ph = "incoming" THEN d.lease = "expired"
    ELSE IF ph \in TerminalPhases /\ ValidTerminal(ph, d.status) THEN r \in statusOld
    ELSE d.aged

\* The retention that applies: the lease of an upload if it can be trusted, the
\* status of a terminal run if it is valid, else the directory's mtime.
Expired(r, ph) ==
    LET d == fs[r][ph] IN
    IF ph = "incoming" /\ d.lease \in {"live", "expired"} THEN d.lease = "expired"
    ELSE IF ph \in TerminalPhases /\ ValidTerminal(ph, d.status) THEN r \in statusOld
    ELSE d.aged

\* Pruning a directory that has been pruned before leaves its mtime alone.
Swept(d) == IF Pruned(d) = [d EXCEPT !.aged = FALSE] THEN d ELSE Pruned(d)

\* collect_incoming, expire_by_mtime, collect_done, collect_failed: a directory
\* that has vanished is skipped, or is an error if it vanishes a moment later.
GcVisit(g) ==
    LET r == gc[g].run
        ph == GcPhase(g) IN
    /\ gc[g].pc = "visit" /\ ph # "processing"
    /\ \/ /\ ~Exists(r, ph)
          /\ GcContinues(g) \/ GcFails(g)
          /\ UNCHANGED fs
       \/ /\ Exists(r, ph) /\ Expired(r, ph)
          /\ GcGoto(g, "open")
          /\ UNCHANGED fs
       \/ /\ Exists(r, ph) /\ ~Expired(r, ph)
          /\ GcContinues(g)
          /\ fs' = IF ph = "done" /\ fs[r][ph].status = "done"
                   THEN Put(r, ph, Swept(fs[r][ph]))
                   ELSE fs
    /\ GcLeaves /\ UNCHANGED <<owner, probe>>

\* collect_processing looks at the age first ...
GcVisitProcessing(g) ==
    /\ gc[g].pc = "visit" /\ GcPhase(g) = "processing"
    /\ \/ /\ ~GcDir(g).exists
          /\ GcContinues(g) \/ GcFails(g)
       \/ /\ GcDir(g).exists
          /\ gc' = [gc EXCEPT ![g].pc = "probe", ![g].old = GcDir(g).aged]
    /\ GcLeaves /\ UNCHANGED <<fs, owner, probe>>

Idle(g) == IF gc[g].old THEN GcGoto(g, "open") ELSE GcContinues(g)

\* ... and then at the lock: the run is kept while somebody holds it, and is
\* fair game without a lock file, or without a directory.
GcProbe(g) ==
    LET i == GcDir(g).lock IN
    /\ gc[g].pc = "probe"
    /\ \/ /\ i = NoLock
          /\ Idle(g)
          /\ UNCHANGED <<owner, probe>>
       \/ /\ i # NoLock /\ owner[i] # Nobody
          /\ GcContinues(g)
          /\ UNCHANGED <<owner, probe>>
       \/ /\ i # NoLock /\ owner[i] = Nobody
          /\ owner' = [owner EXCEPT ![i] = g]
          /\ probe' = [probe EXCEPT ![g] = i]
          /\ GcGoto(g, "release")
    /\ GcLeaves /\ UNCHANGED fs

\* probe_processor_lock_readonly drops the lock when it returns.
GcRelease(g) ==
    /\ gc[g].pc = "release"
    /\ probe' = [probe EXCEPT ![g] = NoLock]
    /\ owner' = Released(g)
    /\ Idle(g)
    /\ GcLeaves /\ UNCHANGED fs

----------------------------------------------------------------------------
(* remove_run *)

Has(d, item) ==
    CASE item = "files" -> d.staged
      [] item = "scratch" -> d.work \/ d.plan # "none"
      [] item = "lease" -> d.lease # "none"
      [] item = "inputs" -> d.inputs # "malformed"
      [] item = "status" -> d.status # "none"
      [] item = "lock" -> d.lock # NoLock

Without(d, item) ==
    [d EXCEPT !.staged = @ /\ item # "files",
              !.work = @ /\ item # "scratch",
              !.lease = IF item = "lease" THEN "none" ELSE @,
              !.inputs = IF item = "inputs" THEN "malformed" ELSE @,
              !.plan = IF item = "scratch" THEN "none" ELSE @,
              !.status = IF item = "status" THEN "none" ELSE @,
              !.lock = IF item = "lock" THEN NoLock ELSE @,
              !.aged = FALSE]

\* remove_dir_all opens the directory that is at the path now.
GcOpen(g) ==
    /\ gc[g].pc = "open"
    /\ \/ /\ GcDir(g).exists
          /\ gc' = [gc EXCEPT ![g].pc = "remove", ![g].at = GcPhase(g),
                              ![g].left = {item \in Items : Has(GcDir(g), item)}]
          /\ opened' = opened \cup {gc[g].run}
       \/ /\ ~GcDir(g).exists
          /\ GcFails(g)
          /\ UNCHANGED opened
    /\ UNCHANGED <<fs, owner, probe, statusOld>>

\* It removes what it found there, in any order and wherever the directory has
\* been moved to meanwhile.  What is gone already is an error or is passed over.
\* The staged source and the work area go as one item each: half of one counts as
\* the whole.
GcRemove(g) ==
    LET r == gc[g].run
        d == fs[r][gc[g].at] IN
    /\ gc[g].pc = "remove"
    /\ \/ \E item \in gc[g].left :
             /\ gc' = [gc EXCEPT ![g].left = @ \ {item}]
             /\ fs' = IF d.exists THEN Put(r, gc[g].at, Without(d, item)) ELSE fs
       \/ /\ \E item \in gc[g].left : ~Has(d, item)
          /\ GcFails(g)
          /\ UNCHANGED fs
       \/ /\ gc[g].left = {}
          /\ GcGoto(g, "rmdir")
          /\ UNCHANGED fs
    /\ GcLeaves /\ UNCHANGED <<owner, probe>>

\* rmdir(2) by path: it must be there, and empty.
GcRmdir(g) ==
    /\ gc[g].pc = "rmdir"
    /\ \/ /\ GcDir(g).exists /\ \A item \in Items : ~Has(GcDir(g), item)
          /\ fs' = Put(gc[g].run, GcPhase(g), NoDir)
          /\ GcContinues(g)
       \/ /\ ~GcDir(g).exists \/ \E item \in Items : Has(GcDir(g), item)
          /\ GcFails(g)
          /\ UNCHANGED fs
    /\ GcLeaves /\ UNCHANGED <<owner, probe>>

GcStep(g) ==
    \/ GcNext(g) \/ GcVisit(g) \/ GcVisitProcessing(g) \/ GcProbe(g)
    \/ GcRelease(g) \/ GcOpen(g) \/ GcRemove(g) \/ GcRmdir(g)

----------------------------------------------------------------------------
(* What others do to what the collector remembers *)

\* The descriptor of remove_dir_all follows its directory when it is renamed.
GcFollows ==
    gc' = [g \in Collectors |->
              LET r == gc[g].run
                  here == {ph \in Phases : fs'[r][ph].exists /\ ~fs[r][ph].exists} IN
              IF gc[g].pc \in {"remove", "rmdir"} /\ fs[r][gc[g].at].exists
                     /\ ~fs'[r][gc[g].at].exists /\ here # {}
              THEN [gc[g] EXCEPT !.at = CHOOSE ph \in here : TRUE]
              ELSE gc[g]]

\* A status published anew is young.
StatusPublished(r) ==
    \E ph \in Phases : /\ fs[r][ph].exists
                       /\ fs'[r][ph].status \notin {"none", fs[r][ph].status}

StatusesRenewed == statusOld' = {r \in statusOld : ~StatusPublished(r)}

\* Time.
LeaseLapses(r) ==
    /\ fs[r]["incoming"].lease = "live"
    /\ fs' = [fs EXCEPT ![r]["incoming"].lease = "expired"]
    /\ UNCHANGED <<owner, probe, gcVars>>

DirAges(r, ph) ==
    /\ Exists(r, ph) /\ ~fs[r][ph].aged
    /\ fs' = [fs EXCEPT ![r][ph].aged = TRUE]
    /\ UNCHANGED <<owner, probe, gcVars>>

StatusAges(r) ==
    /\ r \notin statusOld
    /\ \E ph \in Phases : fs[r][ph].status # "none"
    /\ statusOld' = statusOld \cup {r}
    /\ UNCHANGED <<fs, owner, probe, gc, opened>>
=============================================================================
