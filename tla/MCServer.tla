------------------------------ MODULE MCServer ------------------------------
(***************************************************************************)
(* Instances of PurgeryServer for TLC.                                     *)
(***************************************************************************)
EXTENDS PurgeryServer

Left(ph, status, work) ==
    [phase |-> ph,
     dir |-> [Contents(TRUE) EXCEPT !.lease = "live", !.inputs = "ok", !.staged = TRUE,
                                    !.status = status, !.work = work]]

ReadyOnly == {Left("ready", "none", FALSE)}

Abandoned == {Left("processing", "none", TRUE)}

ReadyOrAbandoned == ReadyOnly \cup Abandoned

FileRequest ==
    [r \in Runs |-> [intent |-> "exact_or_existing", kind |-> "regular_file", empty |-> FALSE]]

DirectoryDest == {"directory"}

\* Uploads that no processor gets to see, and processors of what uploads left:
\* the collector against either.
EitherInit == ServerInit /\ \A r \in Runs : stage[r] = "new" => starts = MaxStarts

EitherSpec == EitherInit /\ [][ServerNext]_serverVars

FairEitherSpec == EitherSpec /\ ServerFairness

----------------------------------------------------------------------------
(* What the documentation says of the collector, and the code does not do *)

\* "locked processing is never deleted underneath an active holder"
\* (docs/operations.md:210).  collect_processing lets go of the lock it probed
\* before it deletes.
HolderKeepsRun ==
    \A p \in Procs : pc[p] \in Importing => Exists(run[p], "processing")
=============================================================================
