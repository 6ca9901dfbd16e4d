--------------------------- MODULE ServerContract ---------------------------
(***************************************************************************)
(* What a client may rely on about one run on the server, with processors, *)
(* handlers and the collector all at work: the run moves forward, it ends  *)
(* as done only after an import, the outcome is not replaced by another    *)
(* one, and a run that was accepted and then collected does not come back. *)
(***************************************************************************)
CONSTANT Runs

VARIABLES
    place,      \* place[r]: where the run is, or how it has ended
    imported    \* the runs whose outputs were delivered

Verdicts == {"done", "partial", "failed"}

Places == {"absent", "incoming", "ready", "processing"} \cup Verdicts
            \cup {"corrupt", "collected"}

Move(r, a, b) == place[r] \in a /\ place' = [place EXCEPT ![r] = b] /\ UNCHANGED imported

Init ==
    /\ place \in [Runs -> {"absent", "ready", "processing"}]
    /\ imported = {}

\* An upload may be collected and begun anew, until it is accepted.
Upload(r) == Move(r, {"absent"}, "incoming")
Expire(r) == Move(r, {"incoming"}, "absent")
Accept(r) == Move(r, {"incoming"}, "ready")
Claim(r) == Move(r, {"ready"}, "processing")

\* A transform at work goes on although its run is collected.
Import(r) ==
    /\ place[r] \in {"processing", "collected"}
    /\ imported' = imported \cup {r}
    /\ UNCHANGED place

\* A run may end in ready/ or processing/, with a verdict or, if the collector
\* took its status away, without.
End(r, verdict) ==
    /\ verdict = "done" => r \in imported
    /\ Move(r, {"ready", "processing"}, verdict)

LoseStatus(r) == Move(r, Verdicts, "corrupt")

Collect(r) == Move(r, {"ready", "processing", "corrupt"}, "collected")

Next ==
    \E r \in Runs :
        \/ Upload(r) \/ Expire(r) \/ Accept(r) \/ Claim(r) \/ Import(r)
        \/ \E verdict \in Verdicts \cup {"corrupt"} : End(r, verdict)
        \/ LoseStatus(r) \/ Collect(r)

Spec == Init /\ [][Next]_<<place, imported>>
=============================================================================
