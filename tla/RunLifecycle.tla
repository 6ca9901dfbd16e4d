---------------------------- MODULE RunLifecycle ----------------------------
(***************************************************************************)
(* What the server promises about a run that is queued: it ends at most    *)
(* once, with an outcome that never changes again, and with "done" only    *)
(* after a transform has delivered its outputs.  The client deletes its    *)
(* copy on the strength of this.                                           *)
(***************************************************************************)
CONSTANT Runs

VARIABLES
    outcome,   \* outcome[r]: "queued", or how r ended
    imported   \* the runs whose outputs were delivered

\* "unpublished": in a terminal phase without a status to be read.
EndOutcomes == {"done", "partial", "failed", "unpublished"}

Init ==
    /\ outcome = [r \in Runs |-> "queued"]
    /\ imported = {}

Import(r) ==
    /\ outcome[r] = "queued"
    /\ imported' = imported \cup {r}
    /\ UNCHANGED outcome

End(r) ==
    /\ outcome[r] = "queued"
    /\ \E o \in EndOutcomes :
          /\ o = "done" => r \in imported
          /\ outcome' = [outcome EXCEPT ![r] = o]
    /\ UNCHANGED imported

Next == \E r \in Runs : Import(r) \/ End(r)

Spec == Init /\ [][Next]_<<outcome, imported>>
=============================================================================
