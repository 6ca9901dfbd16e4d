------------------------------ MODULE RunState ------------------------------
(***************************************************************************)
(* purgery-server run-state and status (lib.rs): how a client learns where *)
(* its run is.  A call looks at the phase directories one after the other, *)
(* while processors, handlers and the collector move and delete them.      *)
(***************************************************************************)
EXTENDS Processor

CONSTANTS
    Askers      \* calls of run-state (bound: one in each slot)

ASSUME AskerAssumption == Askers \subseteq Observers

VARIABLES
    ask,        \* ask[o]: the call in slot o
    truths      \* history: what was true of the run in the course of the call

askVars == <<ask, truths>>

Answers == {"incoming", "ready", "processing", "done", "failed", "corrupt", "not_found"}

AskSteps == {"idle", "incoming", "ready", "processing", "probe", "release",
             "done", "done_status", "failed", "failed_status", "told"}

RunStateTypeOK ==
    /\ ask \in [Askers -> [pc : AskSteps, run : Runs, answer : Answers]]
    /\ truths \in [Askers -> SUBSET Answers]

RunStateInit ==
    /\ ask = [o \in Askers |->
                 [pc |-> "idle", run |-> CHOOSE r \in Runs : TRUE, answer |-> "not_found"]]
    /\ truths = [o \in Askers |-> {}]

\* try_read_status: a status of this version, one of another, or none that can
\* be read.
Readable(status) == status \in PublishedStatus
OtherVersion(status) == status = "incompatible"

\* What run-state would answer if it looked at everything at once.
Where(r) ==
    LET found == {ph \in Phases :
                    Exists(r, ph) /\ ~(ph \in TerminalPhases /\ OtherVersion(fs[r][ph].status))} IN
    IF "incoming" \in found THEN "incoming"
    ELSE IF "ready" \in found THEN "ready"
    ELSE IF "processing" \in found THEN "processing"
    ELSE IF found = {} THEN "not_found"
    ELSE LET ph == IF "done" \in found THEN "done" ELSE "failed" IN
         IF Readable(fs[r][ph].status) THEN ph ELSE "corrupt"

----------------------------------------------------------------------------

AskGoto(o, step) == ask' = [ask EXCEPT ![o].pc = step]
Answer(o, a) == ask' = [ask EXCEPT ![o].pc = "told", ![o].answer = a]

AskRunState(o, r) ==
    /\ ask[o].pc = "idle"
    /\ ask' = [ask EXCEPT ![o].pc = "incoming", ![o].run = r]
    /\ UNCHANGED <<owner, probe>>

\* Mutant: processing is looked at before ready.
NextLookMixed == [incoming |-> "processing", processing |-> "ready", ready |-> "done",
                  done |-> "failed"]

\* The order in which the phases are looked at.
NextLook == [incoming |-> "ready", ready |-> "processing", processing |-> "done",
             done |-> "failed"]

LookQueued(o) ==
    LET ph == ask[o].pc IN
    /\ ph \in {"incoming", "ready", "processing"}
    /\ IF ~Exists(ask[o].run, ph) THEN AskGoto(o, NextLook[ph])
       ELSE IF ph = "processing" THEN AskGoto(o, "probe")
       ELSE Answer(o, ph)
    /\ UNCHANGED <<owner, probe>>

\* probe_processor_lock_readonly: whatever it finds, the run is processing.
ProbeProcessor(o) ==
    LET i == fs[ask[o].run]["processing"].lock IN
    /\ ask[o].pc = "probe"
    /\ \/ /\ i \in Inodes => owner[i] # Nobody
          /\ Answer(o, "processing")
          /\ UNCHANGED <<owner, probe>>
       \/ /\ i # NoLock /\ owner[i] = Nobody
          /\ owner' = [owner EXCEPT ![i] = o]
          /\ probe' = [probe EXCEPT ![o] = i]
          /\ AskGoto(o, "release")

ProbeReleased(o) ==
    /\ ask[o].pc = "release"
    /\ EndProbe(o)
    /\ Answer(o, "processing")

LookTerminal(o) ==
    LET ph == ask[o].pc IN
    /\ ph \in TerminalPhases
    /\ IF Exists(ask[o].run, ph)
       THEN AskGoto(o, IF ph = "done" THEN "done_status" ELSE "failed_status")
       ELSE IF ph = "done" THEN AskGoto(o, NextLook[ph]) ELSE Answer(o, "not_found")
    /\ UNCHANGED <<owner, probe>>

\* A status of another version does not count, nor does its directory.
ReadStatus(o) ==
    LET ph == IF ask[o].pc = "done_status" THEN "done" ELSE "failed"
        status == fs[ask[o].run][ph].status IN
    /\ ask[o].pc \in {"done_status", "failed_status"}
    /\ \/ Readable(status) /\ Answer(o, ph)
       \/ OtherVersion(status) /\ ph = "done" /\ AskGoto(o, NextLook[ph])
       \/ OtherVersion(status) /\ ph = "failed" /\ Answer(o, "not_found")
       \/ ~Readable(status) /\ ~OtherVersion(status) /\ Answer(o, "corrupt")
    /\ UNCHANGED <<owner, probe>>

AskStep(o) ==
    LookQueued(o) \/ ProbeProcessor(o) \/ ProbeReleased(o) \/ LookTerminal(o) \/ ReadStatus(o)

\* While a call is under way, what is true of its run is noted down.
TruthsNoted ==
    truths' = [o \in Askers |->
                  IF ask'[o].pc \in {"idle", "told"} THEN {} ELSE truths[o] \cup {Where(ask[o].run)'}]
=============================================================================
