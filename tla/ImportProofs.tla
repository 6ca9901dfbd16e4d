----------------------------- MODULE ImportProofs -----------------------------
(***************************************************************************)
(* Theorems about a sync from end to end: what a transform is given, what  *)
(* counts as imported and why a run is refused, for every configuration    *)
(* text, every entry name and any number of writes, edits, interferences   *)
(* and crashes.                                                            *)
(***************************************************************************)
EXTENDS MCImport, TLAPS

(***************************************************************************)
(* What the operators return.                                              *)
(***************************************************************************)
LEMMA KindLemma ==
    /\ \A o \in Staged : Kind(o) \in EntryKinds
    /\ \A o \in Objects : Kind(o) = "regular_file" <=> o \in Files
    /\ \A o \in Objects : Kind(o) = "symlink" <=> o \in Links
    /\ \A o \in Staged : Kind(o) = "directory" <=> o = "directory"
    /\ \A o \in Staged : Kind(o) = "regular_file" => o \in Files \cup {"torn"}
    /\ Objects \subseteq Staged /\ Absent \notin Staged
  BY DEF Kind, EntryKinds, Staged, Objects, Files, Links, Absent

LEMMA BuildLemma ==
    \A kind \in EntryKinds, o \in Objects :
        /\ BuildManifest(kind, o) \in Manifests
        /\ BuildManifest(kind, o).sha256 = None => BuildManifest(kind, o).size = 0
  <1> SUFFICES ASSUME NEW kind \in EntryKinds, NEW o \in Objects
               PROVE  /\ BuildManifest(kind, o) \in Manifests
                      /\ BuildManifest(kind, o).sha256 = None => BuildManifest(kind, o).size = 0
    OBVIOUS
  <1>1. /\ Size(o) \in 0..1 /\ (Size(o) = 1 => o \in Files)
        /\ o \in Files => o \in Staged /\ o # None
        /\ o \in Links => o # None
    BY DEF Size, Objects, Files, Links, Staged, None
  <1> QED BY <1>1 DEF BuildManifest, Manifests

\* An object passes the verification against its own manifest.
LEMMA VerifiedLemma ==
    \A o \in Objects : Verified(BuildManifest(Kind(o), o), o)
  BY KindLemma DEF Verified, BuildManifest, Files, Links

\* Verification is as strict as the list.
LEMMA ListedLemma ==
    ASSUME NEW m \in Manifests, m.sha256 = None => m.size = 0, NEW o \in Staged, Verified(m, o)
    PROVE  ListedIn(o, m)
  <1>1. m.kind \in {"directory", "regular_file", "symlink"} /\ Kind(o) = m.kind
    BY DEF Manifests, EntryKinds, Verified
  <1>2. CASE m.kind = "directory"
    BY <1>1, <1>2, KindLemma DEF ListedIn
  <1>3. CASE m.kind = "symlink"
    BY <1>3 DEF ListedIn, Verified
  <1>4. CASE m.kind = "regular_file"
    <2>1. o \in {"empty", "one", "two", "torn"} /\ Size(o) = m.size /\ m.sha256 \in {None, o}
      BY <1>1, <1>4, KindLemma DEF Verified, Files
    <2>2. m.sha256 = None => o = "empty"
      BY <2>1 DEF Size
    <2> QED BY <1>4, <2>1, <2>2 DEF ListedIn
  <1> QED BY <1>1, <1>2, <1>3, <1>4

LEMMA OffLemma ==
    /\ NoConfig \in Configs
    /\ Off.pc = "off" /\ Off.checked = 0
    /\ Off \in [pc : WorkerSteps, config : Configs, work : Staged \cup {Absent}, checked : Nat]
  <1>1. NoConfig \in Configs
    BY ImportAssumption DEF NoConfig
  <1> QED BY <1>1 DEF Off, WorkerSteps

LEMMA PlacedLemma ==
    \A req, state : ResolveDestination(req, state) \in Placements
  BY DEF ResolveDestination, Placements

\* A plan is a plan.
LEMMA PlanLemma == \A placement \in Placements : PlanAt(placement) # NoPlan
  BY DEF PlanAt, NoPlan, None, Placements

\* Every output the processor expects is among the paths of the model.
LEMMA ExpectedLemma ==
    ASSUME ImportTypeOK, Loads(worker.config), Tool \in Defined(worker.config), run.plan # NoPlan
    PROVE  /\ Len(Expected) \in Nat /\ DOMAIN Expected = 1..Len(Expected)
           /\ \A i \in 1..Len(Expected) : Expected[i] \in Paths
           /\ ToSet(Expected) \subseteq Paths
  <1> DEFINE def == Definition(worker.config, Tool)
             plan == run.plan
  <1>1. def \in ToSet(worker.config.transforms)
    BY DEF Defined, Definition, ToSet
  <1>2. worker.config \in Configs
    BY DEF ImportTypeOK
  <1>3. def.expected \in Seq(Seq(STRING))
    BY <1>1, <1>2, ImportAssumption
  <1>4. PICK placement \in Placements : plan = PlanAt(placement)
    BY DEF ImportTypeOK
  <1>5. Expected = ExpectedOutputs(def, plan)
    BY DEF Expected
  <1> HIDE DEF def, plan
  <1>6. /\ DOMAIN Expected = 1..Len(def.expected) /\ Len(def.expected) \in Nat
        /\ Len(Expected) = Len(def.expected)
    BY <1>3, <1>5 DEF ExpectedOutputs
  <1>7. ToSet(Expected) \subseteq PathsOf(plan)
    <2>1. worker.config \in {t \in Configs : Loads(t)}
      BY <1>2
    <2> QED BY <1>1, <1>5, <2>1 DEF PathsOf
  <1>8. PathsOf(plan) \subseteq Paths
    BY <1>4 DEF Paths
  <1>9. \A i \in DOMAIN Expected : Expected[i] \in ToSet(Expected)
    BY DEF ToSet
  <1> QED BY <1>6, <1>7, <1>8, <1>9

\* The worker that Load makes.
LEMMA LoadedLemma ==
    ASSUME NEW text \in Configs, worker' = [Off EXCEPT !.pc = "loaded", !.config = text]
    PROVE  /\ worker' \in [pc : WorkerSteps, config : Configs, work : Staged \cup {Absent},
                           checked : Nat]
           /\ worker'.pc = "loaded" /\ worker'.config = text /\ worker'.checked = 0
  <1>1. \A d \in [pc : WorkerSteps, config : Configs, work : Staged \cup {Absent}, checked : Nat] :
            LET e == [d EXCEPT !.pc = "loaded", !.config = text]
            IN  /\ e \in [pc : WorkerSteps, config : Configs, work : Staged \cup {Absent},
                          checked : Nat]
                /\ e.pc = "loaded" /\ e.config = text /\ e.checked = d.checked
    BY DEF WorkerSteps
  <1> QED BY <1>1, OffLemma

----------------------------------------------------------------------------
(* Types *)

ImportFacts == ImportTypeOK /\ ImportInv

LEMMA ImportTypesInit == Init => ImportTypeOK
  <1> SUFFICES ASSUME Init PROVE ImportTypeOK
    OBVIOUS
  <1>1. outputs \in [Paths -> Findings]
    BY DEF Init, Findings
  <1>2. run \in [phase : Phases, manifest : Manifests, staged : Staged \cup {Absent},
                 plan : {NoPlan} \cup {PlanAt(placement) : placement \in Placements},
                 cause : Causes, final_paths : SUBSET Paths]
    <2>1. NoManifest \in Manifests
      BY DEF NoManifest, Manifests, EntryKinds
    <2> QED BY <2>1 DEF Init, Phases, Causes
  <1>3. worker.pc = "off"
    BY OffLemma DEF Init
  <1> QED BY <1>1, <1>2, <1>3, OffLemma DEF Init, ImportTypeOK, ClientSteps, EntryKinds

LEMMA ImportTypesStep == ImportFacts /\ [Next]_vars => ImportTypeOK'
  <1> SUFFICES ASSUME ImportTypeOK, ImportInv, [Next]_vars PROVE ImportTypeOK'
    BY DEF ImportFacts
  <1> USE DEF ImportTypeOK
  <1>1. ASSUME NEW o \in Objects \cup {Absent}, Change(o)
        PROVE  ImportTypeOK'
    BY <1>1 DEF Change
  <1>2. CASE Edit
    BY <1>2 DEF Edit
  <1>3. ASSUME NEW p \in Paths, Meddle(p) \/ ProgramWrites(p)
        PROVE  ImportTypeOK'
    BY <1>3 DEF Meddle, ProgramWrites, Findings
  <1>4. CASE OrphanEnds
    BY <1>4 DEF OrphanEnds
  <1>5. CASE Normalize
    BY <1>5, KindLemma DEF Normalize, ClientOnly, ClientSteps
  <1>6. CASE Describe
    <2>1. source # Absent => BuildManifest(client.kind, source) \in Manifests
      BY BuildLemma
    <2> QED BY <1>6, <2>1 DEF Describe, ClientOnly, ClientGoes, ClientSteps
  <1>7. CASE Begin
    BY <1>7 DEF Begin, ClientOnly, ClientGoes, ClientSteps, Phases
  <1>8. CASE Prepare
    <2>1. CASE ClientGoes("upload") /\ ghost' = [ghost EXCEPT !.edited = FALSE]
      BY <1>8, <2>1 DEF Prepare, ClientGoes, ClientSteps
    <2>2. CASE ClientGoes("stopped") /\ UNCHANGED ghost
      BY <1>8, <2>2 DEF Prepare, ClientGoes, ClientSteps
    <2> QED BY <1>8, <2>1, <2>2 DEF Prepare
  <1>9. CASE UploadBegins
    BY <1>9 DEF UploadBegins, ClientOnly, ClientSteps
  <1>10. CASE UploadEnds
    <2>1. ({client.seen, source} \ {Absent})
              \cup (IF {client.seen, source} = {"one", "two"} THEN {"torn"} ELSE {})
              \subseteq Staged \cup {Absent}
      BY DEF Staged
    <2> QED BY <1>10, <2>1 DEF UploadEnds, ClientOnly, ClientGoes, ClientSteps
  <1>11. CASE Finish
    BY <1>11 DEF Finish, ClientOnly, ClientGoes, ClientSteps, Phases
  <1>12. ASSUME NEW cause \in Causes, Fails(cause)
         PROVE  /\ run' \in [phase : Phases, manifest : Manifests, staged : Staged \cup {Absent},
                             plan : {NoPlan} \cup {PlanAt(placement) : placement \in Placements},
                             cause : Causes, final_paths : SUBSET Paths]
                /\ worker' \in [pc : WorkerSteps, config : Configs, work : Staged \cup {Absent},
                                checked : Nat]
                /\ worker'.pc = "off"
    BY <1>12, OffLemma DEF Fails, Phases
  <1>13. {"plan", "staged", "destination", "program", "output"} \subseteq Causes
    BY DEF Causes
  <1>14. CASE Load
    BY <1>14, LoadedLemma DEF Load, WorkerOnly
  <1>15. CASE Claim
    BY <1>15 DEF Claim, WorkerOnly, WorkerGoes, WorkerSteps, Phases
  <1>16. CASE Validate
    <2>1. CASE WorkerGoes("valid") /\ UNCHANGED run
      BY <1>16, <2>1 DEF Validate, WorkerOnly, WorkerGoes, WorkerSteps
    <2>2. CASE Fails("plan")
      BY <1>12, <1>13, <1>16, <2>2 DEF Validate, WorkerOnly
    <2> QED BY <1>16, <2>1, <2>2 DEF Validate
  <1>17. CASE Verify
    <2>1. CASE WorkerGoes("verified") /\ UNCHANGED run
      BY <1>17, <2>1 DEF Verify, WorkerOnly, WorkerGoes, WorkerSteps
    <2>2. CASE Fails("staged")
      BY <1>12, <1>13, <1>17, <2>2 DEF Verify, WorkerOnly
    <2> QED BY <1>17, <2>1, <2>2 DEF Verify
  <1>18. CASE MakePlan
    <2>1. CASE WorkerGoes("planned") /\ UNCHANGED run
      BY <1>18, <2>1 DEF MakePlan, WorkerOnly, WorkerGoes, WorkerSteps
    <2>2. CASE Fails("destination")
      BY <1>12, <1>13, <1>18, <2>2 DEF MakePlan, WorkerOnly
    <2>3. ASSUME NEW placement \in Placements, WorkerGoes("planned"),
                 run' = [run EXCEPT !.plan = PlanAt(placement)]
          PROVE  ImportTypeOK'
      <3>1. PlanAt(placement) \in {NoPlan} \cup {PlanAt(x) : x \in Placements}
        OBVIOUS
      <3> QED BY <1>18, <2>3, <3>1 DEF MakePlan, WorkerOnly, WorkerGoes, WorkerSteps
    <2> QED BY <1>18, <2>1, <2>2, <2>3, PlacedLemma DEF MakePlan
  <1>19. CASE Copy
    BY <1>19 DEF Copy, WorkerOnly, WorkerSteps
  <1>20. CASE Spawn
    <2>1. CASE Fails("program") /\ UNCHANGED <<spawned, ghost>>
      BY <1>12, <1>13, <1>20, <2>1 DEF Spawn, WorkerOnly
    <2>2. CASE /\ WorkerGoes("running") /\ UNCHANGED run
               /\ spawned' = spawned + 1
               /\ ghost' = [ghost EXCEPT !.worked = @ \cup {worker.work}]
      BY <1>20, <2>2 DEF Spawn, WorkerOnly, WorkerGoes, WorkerSteps
    <2> QED BY <1>20, <2>1, <2>2 DEF Spawn
  <1>21. CASE ProgramEnds
    <2>1. spawned' \in Nat
      BY <1>21 DEF ProgramEnds
    <2>2. CASE WorkerGoes("exited") /\ UNCHANGED run
      BY <1>21, <2>1, <2>2 DEF ProgramEnds, WorkerOnly, WorkerGoes, WorkerSteps
    <2>3. CASE Fails("program")
      BY <1>12, <1>13, <1>21, <2>1, <2>3 DEF ProgramEnds, WorkerOnly
    <2> QED BY <1>21, <2>2, <2>3 DEF ProgramEnds
  <1>22. CASE CheckOutput
    <2>1. CASE worker' = [worker EXCEPT !.checked = @ + 1] /\ UNCHANGED run
      BY <1>22, <2>1 DEF CheckOutput, WorkerOnly
    <2>2. CASE Fails("output")
      BY <1>12, <1>13, <1>22, <2>2 DEF CheckOutput, WorkerOnly
    <2> QED BY <1>22, <2>1, <2>2 DEF CheckOutput
  <1>23. CASE Publish
    <2>1. ToSet(Expected) \subseteq Paths
      BY <1>23, ExpectedLemma DEF Publish, ImportInv, OutputInv
    <2>2. run' = [run EXCEPT !.phase = "done", !.final_paths = ToSet(Expected)]
      BY <1>23 DEF Publish, Distinct
    <2> QED BY <1>23, <2>1, <2>2, OffLemma DEF Publish, WorkerOnly, Phases
  <1>24. CASE Crash
    BY <1>24, OffLemma DEF Crash
  <1>25. CASE UNCHANGED vars
    BY <1>25 DEF vars
  <1> QED BY <1>1, <1>2, <1>3, <1>4, <1>5, <1>6, <1>7, <1>8, <1>9, <1>10, <1>11, <1>14, <1>15,
             <1>16, <1>17, <1>18, <1>19, <1>20, <1>21, <1>22, <1>23, <1>24, <1>25 DEF Next

----------------------------------------------------------------------------
(* What the parties leave alone *)

WorldActs ==
    \/ \E o \in Objects \cup {Absent} : Change(o)
    \/ Edit
    \/ \E p \in Paths : Meddle(p) \/ ProgramWrites(p)
    \/ OrphanEnds
    \/ UNCHANGED vars

ClientActs ==
    Normalize \/ Describe \/ Begin \/ Prepare \/ UploadBegins \/ UploadEnds \/ Finish

WorkerActs ==
    \/ Load \/ Claim \/ Validate \/ Verify \/ MakePlan \/ Copy \/ Spawn
    \/ ProgramEnds \/ CheckOutput \/ Publish \/ Crash

LEMMA ActsLemma == [Next]_vars => WorldActs \/ ClientActs \/ WorkerActs
  BY DEF Next, WorldActs, ClientActs, WorkerActs

\* The world leaves the parties alone, and what it changes has been noted.
LEMMA WorldEffect ==
    ASSUME ImportTypeOK, WorldActs
    PROVE  /\ UNCHANGED <<client, run, worker>> /\ ghost'.worked = ghost.worked
           /\ \A p \in Paths : Delivered(p) => Delivered(p)'
           /\ (ghost.edited => ghost'.edited) /\ (ghost.moved => ghost'.moved)
           /\ config' = config \/ ghost'.edited
           /\ source' = source \/ client.pc = "normalize" \/ ghost'.moved
  <1> USE DEF ImportTypeOK, Delivered
  <1>1. ASSUME NEW o \in Objects \cup {Absent}, Change(o)
        PROVE  /\ UNCHANGED <<client, run, worker, outputs, config>>
               /\ ghost'.worked = ghost.worked /\ ghost'.meddled = ghost.meddled
               /\ ghost'.edited = ghost.edited /\ (ghost.moved => ghost'.moved)
               /\ client.pc = "normalize" \/ ghost'.moved
    BY <1>1 DEF Change, Described
  <1>2. CASE Edit
    BY <1>2 DEF Edit
  <1>3. ASSUME NEW p \in Paths, Meddle(p)
        PROVE  /\ UNCHANGED <<client, run, worker, config, source>>
               /\ ghost'.worked = ghost.worked /\ ghost'.edited = ghost.edited
               /\ ghost'.moved = ghost.moved
               /\ \A q \in Paths : Delivered(q) => Delivered(q)'
    <2>1. /\ UNCHANGED <<client, run, worker, config, source>>
          /\ ghost'.worked = ghost.worked /\ ghost'.edited = ghost.edited
          /\ ghost'.moved = ghost.moved /\ ghost'.meddled = ghost.meddled \cup {p}
      BY <1>3 DEF Meddle
    <2>2. \A q \in Paths \ {p} : outputs'[q] = outputs[q]
      BY <1>3 DEF Meddle
    <2> QED BY <2>1, <2>2
  <1>4. ASSUME NEW p \in Paths, ProgramWrites(p)
        PROVE  /\ UNCHANGED <<client, run, worker, config, source, ghost>>
               /\ \A q \in Paths : Delivered(q) => Delivered(q)'
    <2>1. /\ UNCHANGED <<client, run, worker, config, source, ghost>>
          /\ \A q \in Paths : outputs'[q] = IF q = p THEN "entry" ELSE outputs[q]
      BY <1>4 DEF ProgramWrites
    <2> QED BY <2>1
  <1>5. CASE OrphanEnds \/ UNCHANGED vars
    BY <1>5 DEF OrphanEnds, vars
  <1> QED BY <1>1, <1>2, <1>3, <1>4, <1>5 DEF WorldActs

\* While the client is at work nothing has been claimed yet.
LEMMA ClientEffect ==
    ASSUME ImportTypeOK, PhaseInv, ClientActs
    PROVE  /\ UNCHANGED <<worker, outputs, source, config>>
           /\ client.pc \notin {"sent", "stopped"}
           /\ worker.pc = "off" /\ run.phase \in {"none", "incoming"}
           /\ ghost.worked = {} /\ run.cause = None
           /\ ghost'.worked = {} /\ ghost'.moved = ghost.moved /\ ghost'.meddled = ghost.meddled
           /\ run'.cause = None /\ run'.plan = run.plan
           /\ run'.phase \in {"none", "incoming"} \/ (client'.pc = "sent" /\ run'.phase = "ready")
  <1>1. client.pc \notin {"sent", "stopped"}
    BY DEF ClientActs, Normalize, Describe, Begin, Prepare, UploadBegins, UploadEnds, Finish
  <1>2. /\ worker.pc = "off" /\ run.phase \in {"none", "incoming"}
        /\ ghost.worked = {} /\ run.cause = None
    BY <1>1 DEF PhaseInv
  <1>3. UNCHANGED <<worker, outputs, source, config>>
    BY DEF ClientActs, Normalize, Describe, Begin, Prepare, UploadBegins, UploadEnds, Finish,
           ClientOnly
  <1>4. CASE Prepare
    BY <1>1, <1>2, <1>3, <1>4 DEF Prepare, ImportTypeOK
  <1>5. ASSUME ~Prepare
        PROVE  /\ ghost' = ghost
               /\ \/ run' = run
                  \/ \E m : run' = [run EXCEPT !.manifest = m]
                  \/ run' = [run EXCEPT !.phase = "incoming"]
                  \/ \E o : run' = [run EXCEPT !.staged = o]
                  \/ run' = [run EXCEPT !.phase = "ready"] /\ ClientGoes("sent")
    BY <1>5 DEF ClientActs, Normalize, Describe, Begin, UploadBegins, UploadEnds, Finish, ClientOnly
  <1>6. CASE ~Prepare
    <2>1. /\ run'.cause = run.cause /\ run'.plan = run.plan
          /\ run'.phase \in {run.phase, "incoming"} \/ (client'.pc = "sent" /\ run'.phase = "ready")
      BY <1>5, <1>6 DEF ClientGoes, ImportTypeOK
    <2> QED BY <1>1, <1>2, <1>3, <1>5, <1>6, <2>1
  <1> QED BY <1>4, <1>6

\* A worker works on a run that was sent, and does not touch what was.
LEMMA WorkerEffect ==
    ASSUME ImportTypeOK, PhaseInv, WorkerActs
    PROVE  /\ UNCHANGED <<source, client, config, outputs>>
           /\ client.pc = "sent" /\ run.phase \in {"ready", "processing"}
           /\ run'.manifest = run.manifest /\ run'.staged = run.staged
           /\ ghost'.moved = ghost.moved /\ ghost'.edited = ghost.edited
           /\ ghost'.meddled = ghost.meddled
           /\ run'.phase \in {"ready", "processing"} \/ (worker'.pc = "off" /\ run'.phase \in {"done", "failed"})
           /\ run'.cause = run.cause \/ run'.phase = "failed"
  <1> USE DEF ImportTypeOK
  <1>1. run.phase \in {"ready", "processing"} /\ client.pc = "sent" /\ run.cause = None
    <2>1. run.phase \in {"ready", "processing"}
      BY DEF PhaseInv, WorkerActs, Load, Claim, Validate, Verify, MakePlan, Copy, Spawn, ProgramEnds,
             CheckOutput, Publish, Crash
    <2> QED BY <2>1 DEF PhaseInv
  <1>2. UNCHANGED <<source, client, config, outputs>>
    BY DEF WorkerActs, WorkerOnly, Load, Claim, Validate, Verify, MakePlan, Copy, Spawn, ProgramEnds,
           CheckOutput, Publish, Crash
  <1>3. ghost' = ghost \/ \E w : ghost' = [ghost EXCEPT !.worked = w]
    BY DEF WorkerActs, WorkerOnly, Load, Claim, Validate, Verify, MakePlan, Copy, Spawn, ProgramEnds,
           CheckOutput, Publish, Crash
  <1>4. \/ run' = run
        \/ run' = [run EXCEPT !.phase = "processing"]
        \/ \E plan : run' = [run EXCEPT !.plan = plan]
        \/ \E cause : Fails(cause)
        \/ worker' = Off /\ run' = [run EXCEPT !.phase = "done", !.final_paths = Distinct(Expected)]
    BY DEF WorkerActs, Load, Claim, Validate, Verify, MakePlan, Copy, Spawn, ProgramEnds,
           CheckOutput, Publish, Crash
  <1>5. /\ ghost'.moved = ghost.moved /\ ghost'.edited = ghost.edited
        /\ ghost'.meddled = ghost.meddled
    BY <1>3
  <1>6. /\ run'.manifest = run.manifest /\ run'.staged = run.staged
        /\ \/ run'.phase \in {run.phase, "processing"} /\ run'.cause = run.cause
           \/ worker' = Off /\ run'.phase = "failed"
           \/ worker' = Off /\ run'.phase = "done" /\ run'.cause = run.cause
    BY <1>4 DEF Fails
  <1> QED BY <1>1, <1>2, <1>5, <1>6, OffLemma

----------------------------------------------------------------------------
(* The invariants *)

LEMMA ImportInvInit == Init => ImportInv
  <1> SUFFICES ASSUME Init PROVE ImportInv
    OBVIOUS
  <1>1. /\ client.pc = "normalize" /\ worker.pc = "off" /\ worker.checked = 0
        /\ run.phase = "none" /\ run.cause = None /\ run.manifest = NoManifest
        /\ ghost.moved = FALSE /\ ghost.worked = {}
    BY OffLemma DEF Init
  <1>2. NoManifest.size = 0 /\ None \notin {"plan", "staged"}
    BY DEF NoManifest, None
  <1> QED BY <1>1, <1>2 DEF ImportInv, PhaseInv, ManifestInv, WorkInv, OutputInv, SetupInv, SourceInv

LEMMA PhaseStep == ImportFacts /\ [Next]_vars => PhaseInv'
  <1> SUFFICES ASSUME ImportTypeOK, PhaseInv, [Next]_vars PROVE PhaseInv'
    BY DEF ImportFacts, ImportInv
  <1>1. CASE WorldActs
    BY <1>1, WorldEffect DEF PhaseInv
  <1>2. CASE ClientActs
    BY <1>2, ClientEffect DEF PhaseInv
  <1>3. CASE WorkerActs
    <2>1. ghost'.worked # {} => run'.phase \notin {"none", "incoming"}
      BY <1>3, WorkerEffect
    <2>2. run'.cause # None => run'.phase = "failed"
      BY <1>3, WorkerEffect DEF PhaseInv
    <2>3. worker'.pc # "off" => run'.phase \in {"ready", "processing"}
      BY <1>3, WorkerEffect
    <2>4. client'.pc = "sent"
      BY <1>3, WorkerEffect
    <2> QED BY <2>1, <2>2, <2>3, <2>4 DEF PhaseInv
  <1> QED BY <1>1, <1>2, <1>3, ActsLemma

LEMMA ManifestStep == ImportFacts /\ [Next]_vars => ManifestInv'
  <1> SUFFICES ASSUME ImportTypeOK, PhaseInv, ManifestInv, [Next]_vars PROVE ManifestInv'
    BY DEF ImportFacts, ImportInv
  <1>1. CASE WorldActs \/ WorkerActs
    BY <1>1, WorldEffect, WorkerEffect DEF ManifestInv
  <1>2. CASE ClientActs
    <2>1. CASE run'.manifest = run.manifest
      BY <2>1 DEF ManifestInv
    <2>2. CASE run'.manifest # run.manifest
      <3>1. /\ source # Absent
            /\ run' = [run EXCEPT !.manifest = BuildManifest(client.kind, source)]
        BY <1>2, <2>2 DEF ClientActs, Normalize, Describe, Begin, Prepare, UploadBegins, UploadEnds,
                          Finish, ImportTypeOK
      <3>2. client.kind \in EntryKinds /\ source \in Objects
        BY <3>1 DEF ImportTypeOK
      <3> QED BY <3>1, <3>2, BuildLemma DEF ManifestInv, ImportTypeOK
    <2> QED BY <2>1, <2>2
  <1> QED BY <1>1, <1>2, ActsLemma

LEMMA WorkStep == ImportFacts /\ [Next]_vars => WorkInv'
  <1> SUFFICES ASSUME ImportTypeOK, PhaseInv, WorkInv, [Next]_vars PROVE WorkInv'
    BY DEF ImportFacts, ImportInv
  <1> USE DEF ImportTypeOK
  <1>1. CASE WorldActs
    BY <1>1, WorldEffect DEF WorkInv
  <1>2. CASE ClientActs
    <2>1. worker'.pc = "off" /\ ghost'.worked = {}
      BY <1>2, ClientEffect
    <2>2. client'.pc \in {"finish", "sent"} => run'.staged # Absent
      <3>1. CASE UploadEnds
        <4>1. client'.pc = "finish" =>
                \E o \in ({client.seen, source} \ {Absent})
                         \cup IF {client.seen, source} = {"one", "two"} THEN {"torn"} ELSE {} :
                    run'.staged = o
          BY <3>1 DEF UploadEnds, ClientGoes
        <4>2. client'.pc \in {"finish", "stopped"}
          BY <3>1 DEF UploadEnds, ClientGoes
        <4> QED BY <4>1, <4>2 DEF Absent
      <3>2. CASE Finish
        BY <3>2 DEF Finish, ClientGoes, WorkInv
      <3>3. CASE ~UploadEnds /\ ~Finish
        <4>1. CASE Normalize \/ UploadBegins
          <5>1. \/ client' = [client EXCEPT !.pc = "stopped"]
                \/ client' = [client EXCEPT !.pc = "manifest", !.kind = Kind(source)]
                \/ client' = [client EXCEPT !.pc = "sending", !.seen = source]
            BY <4>1, Zenon DEF Normalize, UploadBegins
          <5> QED BY <5>1
        <4>2. CASE Describe \/ Begin \/ Prepare
          <5>1. \E pc \in {"begin", "prepare", "upload", "stopped"} : ClientGoes(pc)
            BY <4>2 DEF Describe, Begin, Prepare
          <5> QED BY <5>1 DEF ClientGoes
        <4> QED BY <1>2, <3>3, <4>1, <4>2 DEF ClientActs
      <3> QED BY <3>1, <3>2, <3>3
    <2> QED BY <2>1, <2>2 DEF WorkInv
  <1>3. CASE WorkerActs
    <2>1. client' = client /\ run'.manifest = run.manifest /\ run'.staged = run.staged
      BY <1>3, WorkerEffect
    <2>2. CASE worker'.pc \in {"off", "loaded", "claimed", "valid"} /\ ghost' = ghost
      BY <2>1, <2>2 DEF WorkInv
    <2>3. ASSUME NEW cause, Fails(cause), ghost' = ghost
          PROVE  WorkInv'
      BY <2>1, <2>3, OffLemma DEF Fails, WorkInv
    <2>4. CASE Load \/ Crash \/ Publish
      BY <2>2, <2>4, OffLemma, LoadedLemma DEF Load, Crash, Publish
    <2>5. CASE Claim \/ Validate
      BY <2>2, <2>3, <2>5 DEF Claim, Validate, WorkerGoes
    <2>6. CASE Verify
      <3>1. CASE Verified(run.manifest, run.staged)
        BY <2>1, <2>6, <3>1 DEF Verify, WorkerGoes, WorkInv
      <3>2. CASE ~Verified(run.manifest, run.staged)
        BY <2>3, <2>6, <3>2 DEF Verify
      <3> QED BY <3>1, <3>2
    <2>7. CASE MakePlan
      <3>1. worker.pc = "verified" /\ ghost' = ghost
        BY <2>7 DEF MakePlan
      <3>2. CASE WorkerGoes("planned")
        BY <2>1, <3>1, <3>2 DEF WorkerGoes, WorkInv
      <3> QED BY <2>3, <2>7, <3>1, <3>2 DEF MakePlan
    <2>8. CASE Copy
      BY <2>1, <2>8 DEF Copy, WorkInv
    <2>9. CASE Spawn
      <3>1. CASE Fails("program") /\ ghost' = ghost
        BY <2>3, <3>1
      <3>2. CASE WorkerGoes("running") /\ ghost' = [ghost EXCEPT !.worked = @ \cup {worker.work}]
        BY <2>1, <2>9, <3>2 DEF Spawn, WorkerGoes, WorkInv
      <3> QED BY <2>9, <3>1, <3>2 DEF Spawn
    <2>10. CASE ProgramEnds
      <3>1. CASE WorkerGoes("exited") /\ ghost' = ghost
        BY <2>1, <2>10, <3>1 DEF ProgramEnds, WorkerGoes, WorkInv
      <3> QED BY <2>3, <2>10, <3>1 DEF ProgramEnds
    <2>11. CASE CheckOutput
      <3>1. CASE worker' = [worker EXCEPT !.checked = @ + 1] /\ ghost' = ghost
        BY <2>1, <2>11, <3>1 DEF CheckOutput, WorkInv
      <3> QED BY <2>3, <2>11, <3>1 DEF CheckOutput
    <2> QED BY <1>3, <2>4, <2>5, <2>6, <2>7, <2>8, <2>9, <2>10, <2>11 DEF WorkerActs
  <1> QED BY <1>1, <1>2, <1>3, ActsLemma

LEMMA SetupStep == ImportFacts /\ [Next]_vars => SetupInv'
  <1> SUFFICES ASSUME ImportTypeOK, PhaseInv, SetupInv, [Next]_vars PROVE SetupInv'
    BY DEF ImportFacts, ImportInv
  <1> USE DEF ImportTypeOK
  <1>1. CASE WorldActs
    BY <1>1, WorldEffect DEF SetupInv
  <1>2. CASE ClientActs
    <2>1. /\ worker'.pc = "off" /\ run'.cause = None /\ config' = config
      BY <1>2, ClientEffect
    <2>2. client'.pc \in {"upload", "sending", "finish", "sent"} =>
              ManifestSound(run'.manifest) /\ (ghost'.edited \/ PlanValid(config))
      <3>1. CASE Prepare
        BY <3>1 DEF Prepare, PrepareAccepts, ClientGoes
      <3>2. CASE UploadBegins \/ UploadEnds \/ Finish
        <4>1. client.pc \in {"upload", "sending", "finish"} /\ run'.manifest = run.manifest
              /\ ghost' = ghost
          BY <3>2 DEF UploadBegins, UploadEnds, Finish, ClientOnly
        <4> QED BY <4>1 DEF SetupInv
      <3>3. CASE Normalize \/ Describe \/ Begin
        <4>1. client'.pc \in {"manifest", "begin", "prepare", "stopped"}
          BY <3>3 DEF Normalize, Describe, Begin, ClientGoes
        <4> QED BY <4>1
      <3> QED BY <1>2, <3>1, <3>2, <3>3 DEF ClientActs
    <2>3. None # "plan"
      BY DEF None
    <2> QED BY <2>1, <2>2, <2>3 DEF SetupInv
  <1>3. CASE WorkerActs
    <2>1. /\ UNCHANGED <<client, config>> /\ client.pc = "sent" /\ run'.manifest = run.manifest
          /\ ghost'.edited = ghost.edited
      BY <1>3, WorkerEffect
    <2>2. worker'.pc # "off" => ghost'.edited \/ worker'.config = config'
      <3>1. CASE Load
        BY <2>1, <3>1, LoadedLemma DEF Load
      <3>2. CASE ~Load
        <4>1. CASE Validate \/ Verify \/ MakePlan \/ Spawn \/ ProgramEnds \/ CheckOutput
          <5>1. worker.pc # "off"
            BY <4>1 DEF Validate, Verify, MakePlan, Spawn, ProgramEnds, CheckOutput
          <5>2. \/ \E cause : Fails(cause)
                \/ \E pc : WorkerGoes(pc)
                \/ worker' = [worker EXCEPT !.checked = @ + 1]
            BY <4>1 DEF Validate, Verify, MakePlan, Spawn, ProgramEnds, CheckOutput
          <5>3. worker'.pc = "off" \/ worker'.config = worker.config
            BY <5>2, OffLemma DEF Fails, WorkerGoes
          <5> QED BY <2>1, <5>1, <5>3 DEF SetupInv
        <4>2. CASE Claim \/ Copy
          <5>1. worker.pc # "off" /\ worker'.config = worker.config
            BY <4>2 DEF Claim, Copy, WorkerGoes
          <5> QED BY <2>1, <5>1 DEF SetupInv
        <4>3. CASE Publish \/ Crash
          BY <4>3, OffLemma DEF Publish, Crash
        <4> QED BY <1>3, <3>2, <4>1, <4>2, <4>3 DEF WorkerActs
      <3> QED BY <3>1, <3>2
    <2>3. run'.cause = "plan" => ghost'.edited
      <3>1. CASE Validate
        BY <2>1, <3>1 DEF Validate, SetupInv, Fails
      <3>2. CASE ~Validate
        <4>1. run'.cause \in {run.cause, "staged", "destination", "program", "output"}
          BY <1>3, <3>2 DEF WorkerActs, Load, Claim, Verify, MakePlan, Copy, Spawn, ProgramEnds,
                            CheckOutput, Publish, Crash, Fails
        <4> QED BY <2>1, <4>1 DEF SetupInv
      <3> QED BY <3>1, <3>2
    <2> QED BY <2>1, <2>2, <2>3 DEF SetupInv
  <1> QED BY <1>1, <1>2, <1>3, ActsLemma

LEMMA SourceStep == ImportFacts /\ [Next]_vars => SourceInv'
  <1> SUFFICES ASSUME ImportTypeOK, PhaseInv, WorkInv, SourceInv, [Next]_vars PROVE SourceInv'
    BY DEF ImportFacts, ImportInv
  <1> USE DEF ImportTypeOK
  <1>1. CASE WorldActs
    BY <1>1, WorldEffect DEF SourceInv
  <1>2. CASE ClientActs
    <2>1. /\ source' = source /\ ghost'.moved = ghost.moved
          /\ run'.cause # "staged"
      BY <1>2, ClientEffect DEF None
    <2> SUFFICES ASSUME ~ghost.moved
                 PROVE  /\ client'.pc \notin {"normalize", "stopped"} =>
                               source # Absent /\ client'.kind = Kind(source)
                        /\ client'.pc \notin {"normalize", "manifest", "stopped"} =>
                               run'.manifest = BuildManifest(client'.kind, source)
                        /\ client'.pc = "sending" => client'.seen = source
                        /\ client'.pc \in {"finish", "sent"} => run'.staged = source
      BY <2>1 DEF SourceInv
    <2>2. CASE Normalize
      BY <2>2 DEF Normalize
    <2>3. CASE Describe
      BY <2>3 DEF Describe, ClientGoes, SourceInv
    <2>4. CASE Begin \/ Prepare
      BY <2>4 DEF Begin, Prepare, ClientGoes, SourceInv
    <2>5. CASE UploadBegins
      BY <2>5 DEF UploadBegins, SourceInv
    <2>6. CASE UploadEnds
      <3>1. client.seen = source /\ source \in Objects /\ client.kind = Kind(source)
            /\ run.manifest = BuildManifest(client.kind, source)
        BY <2>6 DEF UploadEnds, SourceInv
      <3>2. {client.seen, source} # {"one", "two"}
        BY <3>1
      <3>3. client'.pc = "finish" => run'.staged = source /\ run'.manifest = run.manifest
        BY <2>6, <3>1, <3>2 DEF UploadEnds, ClientGoes
      <3>4. client'.pc \in {"finish", "stopped"} /\ client'.kind = client.kind
        BY <2>6 DEF UploadEnds, ClientGoes
      <3> QED BY <3>1, <3>3, <3>4 DEF Absent, Objects, Files, Links
    <2>7. CASE Finish
      BY <2>7 DEF Finish, ClientGoes, SourceInv
    <2> QED BY <1>2, <2>2, <2>3, <2>4, <2>5, <2>6, <2>7 DEF ClientActs
  <1>3. CASE WorkerActs
    <2>1. /\ UNCHANGED <<source, client>> /\ client.pc = "sent" /\ ghost'.moved = ghost.moved
          /\ run'.manifest = run.manifest /\ run'.staged = run.staged
      BY <1>3, WorkerEffect
    <2>2. run'.cause = "staged" => ghost'.moved
      <3>1. CASE Verify
        <4>1. CASE ghost.moved
          BY <2>1, <4>1
        <4>2. CASE ~ghost.moved
          <5>1. /\ source \in Objects /\ run.staged = source
                /\ run.manifest = BuildManifest(Kind(source), source)
            BY <2>1, <4>2 DEF SourceInv
          <5>2. Verified(run.manifest, run.staged)
            BY <5>1, VerifiedLemma
          <5> QED BY <2>1, <3>1, <5>2 DEF Verify, SourceInv
        <4> QED BY <4>1, <4>2
      <3>2. CASE ~Verify
        <4>1. run'.cause \in {run.cause, "plan", "destination", "program", "output"}
          BY <1>3, <3>2 DEF WorkerActs, Load, Claim, Validate, MakePlan, Copy, Spawn, ProgramEnds,
                            CheckOutput, Publish, Crash, Fails
        <4> QED BY <2>1, <4>1 DEF SourceInv
      <3> QED BY <3>1, <3>2
    <2> QED BY <2>1, <2>2 DEF SourceInv
  <1> QED BY <1>1, <1>2, <1>3, ActsLemma

\* What is expected depends on the worker's configuration and the run's plan.
LEMMA SameExpected ==
    ASSUME worker'.config = worker.config, run'.plan = run.plan
    PROVE  Expected' = Expected
  BY DEF Expected, ExpectedOutputs, OutputPath, Expand, Definition

LEMMA OutputStep == ImportFacts /\ [Next]_vars => OutputInv'
  <1> SUFFICES ASSUME ImportTypeOK, PhaseInv, WorkInv, OutputInv, [Next]_vars PROVE OutputInv'
    BY DEF ImportFacts, ImportInv
  <1> DEFINE Found ==
                /\ worker.checked <= Len(Expected)
                /\ \A i \in 1..worker.checked : Delivered(Expected[i])
             Published == run.staged \in ghost.worked /\ \A p \in run.final_paths : Delivered(p)
             Setup ==
                /\ worker.pc # "off" => Loads(worker.config)
                /\ worker.pc \notin {"off", "loaded", "claimed"} => Tool \in Defined(worker.config)
                /\ worker.pc \in {"planned", "copied", "running", "exited"} => run.plan # NoPlan
  <1>1. OutputInv <=> /\ Setup
                      /\ worker.pc # "exited" => worker.checked = 0
                      /\ worker.pc = "exited" => Found
                      /\ run.phase = "done" => Published
    BY DEF OutputInv
  <1>2. OutputInv' <=> /\ Setup'
                       /\ worker'.pc # "exited" => worker'.checked = 0
                       /\ worker'.pc = "exited" => Found'
                       /\ run'.phase = "done" => Published'
    BY DEF OutputInv
  <1>3. CASE WorldActs
    <2>1. /\ UNCHANGED <<client, run, worker>> /\ ghost'.worked = ghost.worked
          /\ \A p \in Paths : Delivered(p) => Delivered(p)'
      BY <1>3, WorldEffect
    <2>2. Expected' = Expected
      BY <2>1, SameExpected
    <2>3. worker.pc = "exited" => Found'
      <3> SUFFICES ASSUME worker.pc = "exited" PROVE Found'
        OBVIOUS
      <3>1. Loads(worker.config) /\ Tool \in Defined(worker.config) /\ run.plan # NoPlan /\ Found
        BY <1>1
      <3>2. Len(Expected) \in Nat /\ \A i \in 1..Len(Expected) : Expected[i] \in Paths
        BY <3>1, ExpectedLemma
      <3>3. worker.checked \in Nat
        BY DEF ImportTypeOK
      <3>4. \A i \in 1..worker.checked : Expected[i] \in Paths /\ Delivered(Expected[i])
        BY <3>1, <3>2, <3>3
      <3>5. \A i \in 1..worker.checked : Delivered(Expected[i])'
        BY <2>1, <2>2, <3>4
      <3> QED BY <2>1, <2>2, <3>1, <3>5
    <2>4. run.phase = "done" => Published'
      <3>1. run.final_paths \subseteq Paths
        BY DEF ImportTypeOK
      <3> QED BY <1>1, <2>1, <3>1
    <2> QED BY <1>1, <1>2, <2>1, <2>3, <2>4
  <1>4. CASE ClientActs
    BY <1>1, <1>2, <1>4, ClientEffect
  <1>5. CASE WorkerActs
    <2>1. /\ run.phase \in {"ready", "processing"} /\ UNCHANGED outputs
          /\ run'.staged = run.staged /\ ghost'.meddled = ghost.meddled
          /\ \A p : Delivered(p)' <=> Delivered(p)
      BY <1>5, WorkerEffect DEF Delivered
    <2>2. ASSUME NEW cause, Fails(cause)
          PROVE  OutputInv'
      BY <1>2, <2>2, OffLemma DEF Fails, ImportTypeOK
    <2>3. ASSUME NEW pc \in WorkerSteps \ {"exited"}, worker' = [worker EXCEPT !.pc = pc], Setup',
                 worker.pc # "exited", run'.phase # "done"
          PROVE  OutputInv'
      BY <1>1, <1>2, <2>3 DEF ImportTypeOK
    <2>4. CASE Load
      <3>1. worker'.pc = "loaded" /\ worker'.config = config /\ worker'.checked = 0 /\ run' = run
            /\ Loads(config)
        BY <2>4, LoadedLemma DEF Load, ImportTypeOK
      <3> QED BY <1>2, <2>1, <3>1
    <2>5. CASE Claim
      <3>1. worker.pc = "loaded" /\ worker' = [worker EXCEPT !.pc = "claimed"]
            /\ run' = [run EXCEPT !.phase = "processing"]
        BY <2>5 DEF Claim, WorkerGoes
      <3>2. worker'.config = worker.config /\ worker'.pc = "claimed" /\ run'.phase = "processing"
        BY <3>1 DEF ImportTypeOK
      <3> QED BY <1>1, <2>3, <3>1, <3>2 DEF WorkerSteps
    <2>6. CASE Validate
      <3>1. CASE worker' = [worker EXCEPT !.pc = "valid"] /\ run' = run /\ PlanValid(worker.config)
        <4>1. worker.pc = "claimed"
          BY <2>6 DEF Validate
        <4>2. worker'.config = worker.config /\ worker'.pc = "valid"
          BY <3>1 DEF ImportTypeOK
        <4> QED BY <1>1, <2>1, <2>3, <3>1, <4>1, <4>2 DEF WorkerSteps, PlanValid
      <3> QED BY <2>2, <2>6, <3>1 DEF Validate, WorkerGoes
    <2>7. CASE Verify
      <3>1. CASE worker' = [worker EXCEPT !.pc = "verified"] /\ run' = run
        <4>1. worker.pc = "valid"
          BY <2>7 DEF Verify
        <4>2. worker'.config = worker.config /\ worker'.pc = "verified"
          BY <3>1 DEF ImportTypeOK
        <4> QED BY <1>1, <2>1, <2>3, <3>1, <4>1, <4>2 DEF WorkerSteps
      <3> QED BY <2>2, <2>7, <3>1 DEF Verify, WorkerGoes
    <2>8. CASE MakePlan
      <3>1. CASE /\ worker' = [worker EXCEPT !.pc = "planned"]
                 /\ \/ run' = run /\ run.plan # NoPlan
                    \/ \E placement \in Placements : run' = [run EXCEPT !.plan = PlanAt(placement)]
        <4>1. worker.pc = "verified"
          BY <2>8 DEF MakePlan
        <4>2. worker'.config = worker.config /\ worker'.pc = "planned"
          BY <3>1 DEF ImportTypeOK
        <4>3. run'.plan # NoPlan /\ run'.phase = run.phase
          BY <3>1, PlanLemma DEF ImportTypeOK
        <4> QED BY <1>1, <2>1, <2>3, <3>1, <4>1, <4>2, <4>3 DEF WorkerSteps
      <3> QED BY <2>2, <2>8, <3>1, PlacedLemma DEF MakePlan, WorkerGoes
    <2>9. CASE Copy
      <3>1. /\ worker.pc = "planned" /\ worker'.config = worker.config /\ worker'.pc = "copied"
            /\ worker'.checked = worker.checked /\ run' = run
        BY <2>9 DEF Copy, ImportTypeOK
      <3> QED BY <1>1, <1>2, <2>1, <3>1
    <2>10. CASE Spawn
      <3>1. CASE worker' = [worker EXCEPT !.pc = "running"] /\ run' = run
        <4>1. worker.pc = "copied"
          BY <2>10 DEF Spawn
        <4>2. worker'.config = worker.config /\ worker'.pc = "running"
          BY <3>1 DEF ImportTypeOK
        <4> QED BY <1>1, <2>1, <2>3, <3>1, <4>1, <4>2 DEF WorkerSteps
      <3> QED BY <2>2, <2>10, <3>1 DEF Spawn, WorkerGoes
    <2>11. CASE ProgramEnds
      <3>1. CASE worker' = [worker EXCEPT !.pc = "exited"] /\ run' = run
        <4>1. /\ worker.pc = "running" /\ worker'.config = worker.config /\ worker'.pc = "exited"
              /\ worker'.checked = 0
          BY <1>1, <2>11, <3>1 DEF ProgramEnds, ImportTypeOK
        <4>2. Expected' = Expected
          BY <3>1, <4>1, SameExpected
        <4>3. Len(Expected) \in Nat
          BY <1>1, <4>1, ExpectedLemma
        <4>4. Found'
          BY <4>1, <4>2, <4>3
        <4> QED BY <1>1, <1>2, <2>1, <3>1, <4>1, <4>4
      <3> QED BY <2>2, <2>11, <3>1 DEF ProgramEnds, WorkerGoes
    <2>12. CASE CheckOutput
      <3>1. CASE /\ outputs[Expected[worker.checked + 1]] = "entry"
                 /\ worker' = [worker EXCEPT !.checked = @ + 1] /\ run' = run
        <4>1. /\ worker.pc = "exited" /\ worker'.config = worker.config /\ worker'.pc = "exited"
              /\ worker'.checked = worker.checked + 1 /\ worker.checked \in Nat
              /\ worker.checked < Len(Expected)
          BY <2>12, <3>1 DEF CheckOutput, LeftToCheck, ImportTypeOK
        <4>2. Expected' = Expected
          BY <3>1, <4>1, SameExpected
        <4>3. Len(Expected) \in Nat
          BY <1>1, <4>1, ExpectedLemma
        <4>4. \A i \in 1..(worker.checked + 1) : Delivered(Expected[i])
          <5>1. \A i \in 1..worker.checked : Delivered(Expected[i])
            BY <1>1, <4>1
          <5>2. Delivered(Expected[worker.checked + 1])
            BY <3>1 DEF Delivered
          <5>3. \A i \in 1..(worker.checked + 1) : i \in 1..worker.checked \/ i = worker.checked + 1
            BY <4>1
          <5> QED BY <5>1, <5>2, <5>3
        <4>5. Found'
          BY <2>1, <4>1, <4>2, <4>3, <4>4
        <4> QED BY <1>1, <1>2, <2>1, <3>1, <4>1, <4>5
      <3> QED BY <2>2, <2>12, <3>1 DEF CheckOutput
    <2>13. CASE Publish
      <3>1. /\ worker.pc = "exited" /\ ~LeftToCheck /\ worker' = Off
            /\ run' = [run EXCEPT !.phase = "done", !.final_paths = ToSet(Expected)]
            /\ ghost' = ghost
        BY <2>13 DEF Publish, Distinct
      <3>2. run'.final_paths = ToSet(Expected)
        BY <3>1 DEF ImportTypeOK
      <3>3. /\ Len(Expected) \in Nat /\ DOMAIN Expected = 1..Len(Expected)
            /\ worker.checked \in Nat
        BY <1>1, <3>1, ExpectedLemma DEF ImportTypeOK
      <3>4. worker.checked = Len(Expected)
        BY <1>1, <3>1, <3>3 DEF LeftToCheck
      <3>5. \A p \in ToSet(Expected) : Delivered(p)
        BY <1>1, <3>1, <3>3, <3>4 DEF ToSet
      <3>6. run.staged \in ghost.worked
        BY <3>1 DEF WorkInv
      <3>7. Published'
        BY <2>1, <3>1, <3>2, <3>5, <3>6
      <3> QED BY <1>2, <3>1, <3>7, OffLemma
    <2>14. CASE Crash
      BY <1>2, <2>1, <2>14, OffLemma DEF Crash
    <2> QED BY <1>5, <2>4, <2>5, <2>6, <2>7, <2>8, <2>9, <2>10, <2>11, <2>12, <2>13, <2>14
            DEF WorkerActs
  <1> QED BY <1>3, <1>4, <1>5, ActsLemma

LEMMA ImportFactsHold == Spec => []ImportFacts
  <1>1. Init => ImportFacts
    BY ImportTypesInit, ImportInvInit DEF ImportFacts
  <1>2. ImportFacts /\ [Next]_vars => ImportFacts'
    BY ImportTypesStep, PhaseStep, ManifestStep, WorkStep, OutputStep, SetupStep, SourceStep
       DEF ImportFacts, ImportInv
  <1> QED BY <1>1, <1>2, PTL DEF Spec

----------------------------------------------------------------------------
(* Theorems *)

\* The source, the client, the run's directory and the processor have the
\* values the model gives them, and every output that is expected is a path of
\* the model, after every step of normalize_source, build_manifest, the
\* commands of the server and process_manifest_entry.
THEOREM ImportTypesCorrect == Spec => []ImportTypeOK
  BY ImportFactsHold, PTL DEF ImportFacts

\* Whatever happens to the source while it is described, queued and sent, and
\* however often a processor dies, apply_transform_for_target gives a program
\* only what the manifest lists: verify_staged computes the digest again.
THEOREM WorkIsListed == Spec => []WorkedAsListed
  <1>1. ImportFacts => WorkedAsListed
    <2> SUFFICES ASSUME ImportTypeOK, PhaseInv, ManifestInv, WorkInv, NEW o \in ghost.worked
                 PROVE  ListedIn(o, run.manifest)
      BY DEF ImportFacts, ImportInv, WorkedAsListed
    <2>1. client.pc = "sent"
      BY DEF PhaseInv
    <2>2. o = run.staged /\ o # Absent /\ Verified(run.manifest, o)
      BY <2>1 DEF WorkInv
    <2>3. run.manifest \in Manifests /\ o \in Staged
      BY <2>2 DEF ImportTypeOK
    <2> QED BY <2>2, <2>3, ListedLemma DEF ManifestInv
  <1> QED BY <1>1, ImportFactsHold, PTL

\* A run that is done had its staged entry given to a program, and every path
\* its status names was found after that program, and is there unless others
\* have been at it (the checks before a status says success), whichever texts
\* of the configuration its processors have read.
THEOREM ImportsHaveOutputs == Spec => []ImportedHasOutputs
  <1>1. ImportFacts => ImportedHasOutputs
    BY DEF ImportFacts, ImportInv, OutputInv, Delivered, ImportedHasOutputs
  <1> QED BY <1>1, ImportFactsHold, PTL

\* A plan that prepare_run has accepted is refused after the upload only when
\* the setup was edited since, and what was staged is refused only when the
\* source changed after normalize_source: validate_transform_run and
\* Manifest::from_toml agree with themselves across processes, and
\* build_manifest and verify_staged with each other.
THEOREM RefusalsAreCaused == Spec => []RefusalsHaveCauses
  <1>1. ImportFacts => RefusalsHaveCauses
    BY DEF ImportFacts, ImportInv, SetupInv, SourceInv, RefusalsHaveCauses
  <1> QED BY <1>1, ImportFactsHold, PTL
=============================================================================
