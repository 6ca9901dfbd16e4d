----------------------------- MODULE Envelopes -----------------------------
(***************************************************************************)
(* Who reads which durable file how.  Every file carries the version of    *)
(* its writer, the names of its run and, a lease, the protocol; a dozen    *)
(* readers of the server and the client each check some of it in an order  *)
(* of their own (crates/purgery-core/src/version.rs, server lib.rs,        *)
(* process.rs, recover.rs, phases.rs, gc.rs, client run.rs, cleanup.rs).   *)
(*                                                                         *)
(* One run directory and one client state directory, with files any        *)
(* version may have left, and the handlers that decide from them.  The     *)
(* handlers run one at a time: their interleavings are the subject of the  *)
(* other modules, which take a reader's verdict as one value.              *)
(***************************************************************************)
EXTENDS Naturals, Sequences

CONSTANTS
    Versions,   \* version strings: the numbers between the dots
    Current     \* the version of this program

VARIABLES
    phase,      \* the phase directory the run is in, "gone" once collected
    file        \* what each durable file holds

vars == <<phase, file>>

ASSUME CurrentAssumption == Current \in Versions /\ Len(Current) = 3

(***************************************************************************)
(* Files.  A form that is not "versioned" says nothing else.               *)
(***************************************************************************)
File == [form : {"absent", "garbled", "unversioned", "versioned"},
         version : Versions,
         fits : BOOLEAN,        \* the rest deserializes: no unknown or missing field
         ours : BOOLEAN,        \* nickname and run id are those of the directory
         protocol : BOOLEAN,    \* a lease: of this protocol version
         state : {"done", "partial", "failed"}]  \* a status: the run's state

Sound == [form |-> "versioned", version |-> Current, fits |-> TRUE, ours |-> TRUE,
          protocol |-> TRUE, state |-> "failed"]
Absent == [Sound EXCEPT !.form = "absent"]

Inputs == {"config", "manifest"}
RunFiles == Inputs \cup {"lease", "status", "progress"}
Names == RunFiles \cup {"state", "ledger"}
TerminalPhases == {"done", "failed"}

Present(f) == f.form # "absent"

\* parse_purgery_version and versions_compatible: three numbers, the first
\* two those of this program.
Compatible(v) == Len(v) = 3 /\ v[1] = Current[1] /\ v[2] = Current[2]

\* check_toml_version.
CheckVersion(f) ==
    CASE f.form = "garbled" -> "invalid_toml"
      [] f.form = "versioned" /\ Compatible(f.version) -> "compatible"
      [] OTHER -> "incompatible"

Foreign(f) == Present(f) /\ CheckVersion(f) = "incompatible"

\* Every domain type requires purgery_version and denies unknown fields.
Deserializes(f) == f.form = "versioned" /\ f.fits

(***************************************************************************)
(* Readers of a terminal status.                                           *)
(***************************************************************************)
\* try_read_status and read_run_status, which deserialize before they look
\* at the version: what a file of another version and shape is called.
StatusVerdict(f) ==
    CASE Deserializes(f) /\ ~Compatible(f.version) -> "incompatible"
      [] Deserializes(f) /\ Compatible(f.version) /\ ~f.ours -> "malformed"
      [] Deserializes(f) /\ Compatible(f.version) /\ f.ours -> "valid"
      [] f.form = "unversioned" -> "incompatible"
      [] f.form \in {"absent", "garbled"} \/ (f.form = "versioned" /\ ~f.fits) -> "malformed"

\* The run-state command on a run in a terminal directory.
RunStateAnswer(f) ==
    CASE StatusVerdict(f) = "valid" -> "terminal"
      [] StatusVerdict(f) = "incompatible" -> "not_found"
      [] StatusVerdict(f) = "malformed" -> "corrupt"

\* The status command passes a missing or foreign file by and fails in the end.
StatusServed(f) == StatusVerdict(f) = "valid"

\* verified_terminal_status of the process-run command.
ProcessRunAnswers(f) == Deserializes(f) /\ Compatible(f.version) /\ f.ours

RetainedWhateverVersion(f, ph) ==
    /\ Deserializes(f) /\ f.ours
    /\ f.state \in IF ph = "done" THEN {"done", "partial"} ELSE {"failed"}

\* classify_terminal_status: the clock that retains a terminal directory.
RetainedAsTerminal(f, ph) ==
    /\ Present(f) /\ CheckVersion(f) = "compatible"
    /\ Deserializes(f) /\ f.ours
    /\ f.state \in IF ph = "done" THEN {"done", "partial"} ELSE {"failed"}

(***************************************************************************)
(* Readers of a lease and of the inputs.                                   *)
(***************************************************************************)
\* heartbeat_run and finish_run.
LeaseAccepted(f) ==
    Deserializes(f) /\ Compatible(f.version) /\ f.protocol /\ f.ours

LeaseTrustedUnchecked(f) ==
    /\ Present(f) /\ CheckVersion(f) = "compatible"
    /\ Deserializes(f) /\ f.ours

\* collect_incoming: TRUE when the lease's own expiry decides, not the orphan clock.
LeaseTrusted(f) ==
    /\ Present(f) /\ CheckVersion(f) = "compatible"
    /\ Deserializes(f) /\ f.protocol /\ f.ours

\* validate_run_lease_protocol of the processor: no version, no names.
LeaseVerdict(f) ==
    CASE ~Present(f) -> "ok"
      [] Present(f) /\ ~Deserializes(f) -> "malformed"
      [] Deserializes(f) /\ ~f.protocol -> "incompatible"
      [] Deserializes(f) /\ f.protocol -> "ok"

\* One input of read_compatible_run_inputs: the version before the rest.
InputVerdict(f) ==
    CASE ~Present(f) -> "malformed"
      [] Present(f) /\ CheckVersion(f) = "incompatible" -> "incompatible"
      [] Present(f) /\ CheckVersion(f) = "invalid_toml" -> "malformed"
      [] CheckVersion(f) = "compatible" -> IF Deserializes(f) THEN "ok" ELSE "malformed"

\* read_compatible_run_inputs: the first verdict that is not "ok", then the names.
InputsVerdict(files) ==
    LET verdicts == <<LeaseVerdict(files["lease"]), InputVerdict(files["config"]),
                      InputVerdict(files["manifest"]),
                      IF \A n \in Inputs : files[n].ours THEN "ok" ELSE "malformed">>
        bad == {i \in 1..4 : verdicts[i] # "ok"}
    IN  IF bad = {} THEN "ok"
        ELSE verdicts[CHOOSE i \in bad : \A j \in bad : i <= j]

PrepareAcceptsAnyOwner(files) ==
    \A n \in Inputs : /\ Present(files[n]) /\ CheckVersion(files[n]) = "compatible"
                      /\ Deserializes(files[n])

\* prepare_run, without the plan: the inputs it accepts.
PrepareAccepts(files) ==
    \A n \in Inputs : /\ Present(files[n]) /\ CheckVersion(files[n]) = "compatible"
                      /\ Deserializes(files[n]) /\ files[n].ours

(***************************************************************************)
(* Readers of the progress of a run that is being processed.               *)
(***************************************************************************)
ProgressShownToAnyOwner(f) ==
    CASE ~Present(f) -> "missing"
      [] Deserializes(f) /\ ~Compatible(f.version) -> "incompatible_version"
      [] Deserializes(f) /\ Compatible(f.version) -> "valid"
      [] f.form = "unversioned" -> "incompatible_version"
      [] f.form = "garbled" \/ (f.form = "versioned" /\ ~f.fits) -> "malformed"

\* read_progress_fields, for the run-state command.
ProgressShown(f) ==
    CASE ~Present(f) -> "missing"
      [] Deserializes(f) /\ ~Compatible(f.version) -> "incompatible_version"
      [] Deserializes(f) /\ Compatible(f.version) /\ ~f.ours -> "envelope_mismatch"
      [] Deserializes(f) /\ Compatible(f.version) /\ f.ours -> "valid"
      [] f.form = "unversioned" -> "incompatible_version"
      [] f.form = "garbled" \/ (f.form = "versioned" /\ ~f.fits) -> "malformed"

\* existing_progress_started_at: what write_progress finds before it writes.
ExistingProgress(f) ==
    CASE ~Present(f) -> "missing"
      [] Foreign(f) -> "incompatible"
      [] Present(f) /\ ~Foreign(f) /\ Deserializes(f) /\ f.ours -> "compatible"
      [] Present(f) /\ ~Foreign(f) /\ ~(Deserializes(f) /\ f.ours) -> "malformed"

\* write_progress: progress of another version is not overwritten.
Progressed(f) == IF ExistingProgress(f) = "incompatible" THEN f ELSE Sound

(***************************************************************************)
(* Readers of the client's files.                                          *)
(***************************************************************************)
\* resume_runs: a file of another version is passed by, a broken one is put
\* aside as .corrupt and the sync refused.
ClientVerdict(f) ==
    CASE ~Present(f) \/ Foreign(f) -> "skip"
      [] Present(f) /\ ~Foreign(f) /\ ~Deserializes(f) -> "corrupt"
      [] Deserializes(f) /\ ~Foreign(f) -> "drain"

\* resume_pending_cleanups leaves every file alone that it cannot read.
LedgerUsed(f) == Present(f) /\ ~Foreign(f) /\ Deserializes(f)

(***************************************************************************)
(* The handlers.                                                           *)
(***************************************************************************)
\* The status this program writes.
Written(st) == [Sound EXCEPT !.state = st]

\* handle_malformed_ready and write_run_failure: the failure is published in
\* the run directory, over any status there, and the directory moves to failed/.
Condemn ==
    /\ phase' = "failed"
    /\ file' = [file EXCEPT !["status"] = Written("failed")]

\* finalize_processing_run: to the phase of the status, a done run pruned.
Finalize(status, files) ==
    /\ phase' = IF status.state = "failed" THEN "failed" ELSE "done"
    /\ file' = [n \in Names |->
                  IF n = "status" THEN status
                  ELSE IF n \in {"lease", "progress"} /\ status.state = "done" THEN Absent
                  ELSE files[n]]

\* process_processing_run: the inputs again, then the progress, if it can be
\* written, and any outcome of the entries.
Process ==
    \/ /\ InputsVerdict(file) = "ok"
       /\ \E st \in {"done", "partial", "failed"},
            progress \in {file["progress"], Progressed(file["progress"])} :
             Finalize(Written(st), [file EXCEPT !["progress"] = progress])
    \/ InputsVerdict(file) = "malformed" /\ Condemn
    \/ InputsVerdict(file) = "incompatible" /\ UNCHANGED vars

\* finish_run before the lease runs out: incoming becomes ready.
FinishRun ==
    /\ phase = "incoming" /\ LeaseAccepted(file["lease"])
    /\ phase' = "ready" /\ UNCHANGED file

\* claim_ready_run; what it claims is processed next, by the claimer or by recovery.
ClaimReady ==
    /\ phase = "ready"
    /\ \/ InputsVerdict(file) = "ok" /\ phase' = "processing" /\ UNCHANGED file
       \/ InputsVerdict(file) = "malformed" /\ Condemn
       \/ InputsVerdict(file) = "incompatible" /\ UNCHANGED vars

RecoverForeignStatus(f) ==
    \/ Deserializes(f) /\ f.ours /\ Finalize(f, file)
    \/ ~(Deserializes(f) /\ f.ours) /\ Condemn
RecoverAnyOwner(f) ==
    \/ Foreign(f) /\ UNCHANGED vars
    \/ ~Foreign(f) /\ Deserializes(f) /\ Finalize(f, file)
    \/ ~Foreign(f) /\ ~Deserializes(f) /\ Condemn

\* recover_or_process_processing_run on the status, after the version was probed.
RecoverStatus(f) ==
    \/ Foreign(f) /\ UNCHANGED vars
    \/ ~Foreign(f) /\ Deserializes(f) /\ f.ours /\ Finalize(f, file)
    \/ ~Foreign(f) /\ ~(Deserializes(f) /\ f.ours) /\ Condemn

\* recover_processing_run_if_unlocked with the lock held: the lease, then the
\* status if there is one, else the run is processed.
RecoverProcessing ==
    /\ phase = "processing"
    /\ \/ LeaseVerdict(file["lease"]) = "malformed" /\ Condemn
       \/ LeaseVerdict(file["lease"]) = "incompatible" /\ UNCHANGED vars
       \/ LeaseVerdict(file["lease"]) = "ok" /\ ~Present(file["status"]) /\ Process
       \/ /\ LeaseVerdict(file["lease"]) = "ok" /\ Present(file["status"])
          /\ RecoverStatus(file["status"])

\* collect_done prunes a retained run whose status says done.
Pruned ==
    LET f == file["status"]
    IN  IF /\ phase = "done" /\ Present(f) /\ CheckVersion(f) = "compatible"
           /\ Deserializes(f) /\ f.ours /\ f.state = "done"
        THEN [file EXCEPT !["lease"] = Absent, !["progress"] = Absent]
        ELSE file

\* A GC pass: the clock that LeaseTrusted or RetainedAsTerminal names, the
\* orphan clock or that of the phase has run out, or has not.
Gc ==
    /\ phase # "gone"
    /\ \/ /\ phase' = "gone"
          /\ file' = [n \in Names |-> IF n \in RunFiles THEN Absent ELSE file[n]]
       \/ phase' = phase /\ file' = Pruned

\* The client resumes: drain_one ends the run or leaves it for later.
ResumeRuns ==
    /\ \/ ClientVerdict(file["state"]) = "skip" /\ UNCHANGED file
       \/ /\ ClientVerdict(file["state"]) \in {"corrupt", "drain"}
          /\ file' = [file EXCEPT !["state"] = Absent]
       \/ ClientVerdict(file["state"]) = "drain" /\ UNCHANGED file
    /\ UNCHANGED phase

\* A completed ledger retires once the state of its run is gone.
ResumeCleanups ==
    /\ \/ UNCHANGED file
       \/ /\ LedgerUsed(file["ledger"]) /\ ~Present(file["state"])
          /\ file' = [file EXCEPT !["ledger"] = Absent]
    /\ UNCHANGED phase

Next ==
    \/ FinishRun \/ ClaimReady \/ RecoverProcessing \/ Gc
    \/ ResumeRuns \/ ResumeCleanups

(***************************************************************************)
(* Initially some files are as this program writes them and at most two    *)
(* are anything at all; a run has a status once it was processed.          *)
(***************************************************************************)
Any(n) ==
    {f \in File :
        /\ f.form # "versioned" =>
              f = [Sound EXCEPT !.form = f.form, !.state = Sound.state]
        /\ n # "lease" => f.protocol
        /\ n # "status" => f.state = Sound.state
        /\ n \in {"state", "ledger"} => f.ours}

Usual(n, ph) ==
    IF \/ n = "status" /\ ph \notin TerminalPhases
       \/ n = "progress"
       \/ n = "lease" /\ ph = "done"
    THEN Absent
    ELSE IF n = "status" /\ ph = "done" THEN Written("done") ELSE Sound

Strange(ph) ==
    IF ph \in {"incoming", "ready"} THEN RunFiles \ {"status", "progress"} ELSE RunFiles

Init ==
    /\ phase \in {"incoming", "ready", "processing", "done", "failed"}
    /\ \E pair \in {Strange(phase), {"state", "ledger"}} : \E m, n \in pair :
       \E f \in Any(m), g \in Any(n) :
          file = [[k \in Names |-> Usual(k, phase)] EXCEPT ![m] = f, ![n] = g]

Spec == Init /\ [][Next]_vars

(***************************************************************************)
(* Properties.                                                             *)
(***************************************************************************)
\* The type invariant.
TypeOK ==
    /\ phase \in {"incoming", "ready", "processing", "done", "failed", "gone"}
    /\ file \in [Names -> File]

\* Every command that reports a terminal run gives the same answer: run-state
\* says terminal exactly when status serves it and process-run confirms it,
\* and GC keeps a status as long as these serve it, except one that
\* contradicts its directory.
StatusReadersAgree ==
    phase \in TerminalPhases =>
        LET f == file["status"] IN
        /\ (RunStateAnswer(f) = "terminal") <=> StatusServed(f)
        /\ StatusServed(f) <=> ProcessRunAnswers(f)
        /\ RetainedAsTerminal(f, phase) => StatusServed(f)
        /\ StatusServed(f) /\ (phase = "failed" <=> f.state = "failed")
              => RetainedAsTerminal(f, phase)

\* GC deletes an upload for its expired lease only if the client could have
\* renewed that lease: heartbeat-run, finish-run and GC accept the same leases.
LeaseReadersAgree == LeaseTrusted(file["lease"]) <=> LeaseAccepted(file["lease"])

\* What run-state shows as the progress of a run is what its processor goes on
\* from, and what it shows as another version's is not overwritten.
ProgressReadersAgree ==
    LET f == file["progress"] IN
    /\ (ProgressShown(f) = "valid") <=> (ExistingProgress(f) = "compatible")
    /\ ProgressShown(f) = "incompatible_version" => Progressed(f) = f

\* What prepare-run and finish-run accepted the processor does not refuse for
\* its form: the transfer in between was not in vain.
AcceptedIsProcessable ==
    phase = "incoming" /\ PrepareAccepts(file) /\ LeaseAccepted(file["lease"])
        => InputsVerdict(file) = "ok"

\* A run that reaches a terminal directory has a status there that the client
\* can fetch and GC retains.
EndsReadable ==
    [][phase' \in TerminalPhases /\ phase \notin TerminalPhases =>
          /\ StatusServed(file'["status"])
          /\ RetainedAsTerminal(file'["status"], phase')]_vars

\* What is not of another version is sound: any mixture of files of this and
\* of other versions, with a lease of a shape this program knows.
NoneBroken(n) ==
    /\ \A m \in Inputs \ {n} :
          Foreign(file[m]) \/ (InputVerdict(file[m]) = "ok" /\ file[m].ours)
    /\ n # "lease" => ~Present(file["lease"]) \/ Deserializes(file["lease"])
    /\ LET status == file["status"]
       IN  ~Present(status) \/ Foreign(status) \/ (Deserializes(status) /\ status.ours)

\* The run file of another version stays as it is and its run is not ended for
\* it: the run ends by a status of its own, or GC collects the directory.
LeftInPlace(n) ==
    Foreign(file[n]) /\ NoneBroken(n) =>
        \/ phase' = "gone"
        \/ /\ file'[n] = file[n]
           /\ \/ phase' \in TerminalPhases => phase' = phase
              \/ StatusServed(file["status"]) /\ file'["status"] = file["status"]

\* docs/protocol.md, "Incompatible file policy", for every file but the lease:
\* what another version wrote is not rewritten, renamed or moved to failed/.
\* Progress goes with the run when it is done.
ForeignLeftInPlace ==
    [][/\ \A n \in Inputs \cup {"status"} : LeftInPlace(n)
       /\ \A n \in {"state", "ledger"} : Foreign(file[n]) => file'[n] = file[n]
       /\ Foreign(file["progress"]) /\ phase' \notin {"done", "gone"} =>
             file'["progress"] = file["progress"]]_vars

\* The same policy for the lease of a queued run: its run is not moved to failed/.
ForeignLeaseNotCondemned ==
    [][phase = "ready" /\ Foreign(file["lease"]) /\ NoneBroken("lease") => phase' # "failed"]_vars
=============================================================================
