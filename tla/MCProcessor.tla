---------------------------- MODULE MCProcessor ----------------------------
(***************************************************************************)
(* Instances of Processor for TLC.                                         *)
(***************************************************************************)
EXTENDS Processor

Arrived(ph, lease, inputs, staged, status) ==
    [phase |-> ph,
     dir |-> [Contents(TRUE) EXCEPT !.lease = lease, !.inputs = inputs,
                                    !.staged = staged, !.status = status]]

Untouched == Arrived("ready", "live", "ok", TRUE, "none")

\* What a client of this version leaves, and its corruptions.
CurrentArrivals ==
    {Untouched,
     Arrived("ready", "live", "ok", FALSE, "none"),
     Arrived("ready", "live", "unsupported", TRUE, "none"),
     Arrived("ready", "live", "malformed", TRUE, "none")}

\* What other versions and interrupted writes leave.
OldArrivals ==
    {Arrived("ready", "live", "old_version", TRUE, "none"),
     Arrived("ready", "old_protocol", "ok", TRUE, "none"),
     Arrived("ready", "malformed", "ok", TRUE, "none"),
     Arrived("processing", "live", "ok", TRUE, "none"),
     Arrived("processing", "live", "ok", TRUE, "partial"),
     Arrived("processing", "live", "ok", TRUE, "malformed"),
     Arrived("processing", "live", "ok", TRUE, "incompatible"),
     Arrived("processing", "live", "old_version", TRUE, "none"),
     Arrived("processing", "live", "old_version", TRUE, "partial"),
     Arrived("processing", "old_protocol", "ok", TRUE, "partial"),
     Arrived("processing", "malformed", "ok", TRUE, "none"),
     Arrived("processing", "malformed", "old_version", TRUE, "none")}

AllArrivals == CurrentArrivals \cup OldArrivals

\* An entry that replaces the destination unless a directory is there: the
\* request whose plan changes when an attempt has run.
FileToExact == [r \in Runs |-> [intent |-> "exact_or_existing", kind |-> "regular_file",
                                empty |-> FALSE]]

MissingDest == {"missing"}

\* Either one run, which process-run and process-once contend for, or two runs
\* that process-once alone works through, one of them as intake leaves it and the
\* other a reason to stop short of it.
Nowhere == [ph \in Phases |-> NoDir]

Hindrances ==
    {Arrived("ready", "live", "malformed", TRUE, "none"),
     Arrived("ready", "old_protocol", "ok", TRUE, "none"),
     Arrived("processing", "live", "ok", TRUE, "none"),
     Arrived("processing", "malformed", "ok", TRUE, "none")}

Alone(r) == \A other \in Runs \ {r} : fs[other] = Nowhere

PairOrBatchInit ==
    /\ Quiescent
    /\ \E r \in {run[p] : p \in Procs}, a \in Arrivals, rest \in {Nowhere, Found(Untouched)} :
          /\ rest # Nowhere => a \in Hindrances
          /\ fs = [other \in Runs |-> IF other = r THEN Found(a) ELSE rest]

PairOrBatchNext ==
    /\ Next
    /\ \/ \A p \in Procs : Alone(run'[p])
       \/ /\ \A p \in Procs \ Batch : pc'[p] = "idle"
          /\ crashes' + ioErrors' <= 1

PairOrBatchSpec == PairOrBatchInit /\ [][PairOrBatchNext]_vars /\ Fairness
=============================================================================
