--------------------------- MODULE EnvelopeProofs ---------------------------
(***************************************************************************)
(* The readers of the durable files agree, for every version a file may    *)
(* carry: what one command accepts or shows the next one takes, and what   *)
(* another version wrote stays.                                            *)
(***************************************************************************)
EXTENDS Envelopes, TLAPS

----------------------------------------------------------------------------
(* Types *)

\* What this program writes, and what it removes, are files.
LEMMA WrittenLemma ==
    /\ Sound \in File /\ Absent \in File
    /\ \A st \in {"done", "partial", "failed"} :
          /\ Written(st) \in File
          /\ Written(st).state = st /\ Written(st).form = "versioned"
          /\ Written(st).version = Current /\ Written(st).fits /\ Written(st).ours
  BY CurrentAssumption DEF Sound, Absent, Written, File

\* The names of the files, one by one.
LEMMA NamesLemma ==
    /\ Names = {"config", "manifest", "lease", "status", "progress", "state", "ledger"}
    /\ RunFiles = {"config", "manifest", "lease", "status", "progress"}
    /\ Inputs = {"config", "manifest"}
  BY DEF Names, RunFiles, Inputs

\* What a finished run leaves of the files.
LEMMA FinalizeLemma ==
    ASSUME NEW status \in File, NEW files \in [Names -> File], Finalize(status, files)
    PROVE  /\ phase' \in TerminalPhases
           /\ file' \in [Names -> File]
           /\ file'["status"] = status
           /\ \A n \in Names \ {"status", "lease", "progress"} : file'[n] = files[n]
           /\ phase' = "failed" <=> status.state = "failed"
           /\ phase' # "done" =>
                 file'["lease"] = files["lease"] /\ file'["progress"] = files["progress"]
  BY WrittenLemma, NamesLemma DEF Finalize, TerminalPhases, File

\* What a condemned run leaves of them.
LEMMA CondemnLemma ==
    ASSUME file \in [Names -> File], Condemn
    PROVE  /\ phase' = "failed"
           /\ file' \in [Names -> File]
           /\ file'["status"] = Written("failed")
           /\ \A n \in Names \ {"status"} : file'[n] = file[n]
  BY WrittenLemma, NamesLemma DEF Condemn

\* The processing of a run ends it with a status of this version, condemns it for malformed
\* inputs, or leaves it.
LEMMA ProcessLemma ==
    ASSUME file \in [Names -> File], Process
    PROVE  \/ /\ InputsVerdict(file) = "ok"
              /\ \E st \in {"done", "partial", "failed"} :
                    \E files \in [Names -> File] :
                       /\ \A n \in Names \ {"progress"} : files[n] = file[n]
                       /\ Foreign(file["progress"]) => files["progress"] = file["progress"]
                       /\ Finalize(Written(st), files)
           \/ InputsVerdict(file) = "malformed" /\ Condemn
           \/ InputsVerdict(file) = "incompatible" /\ UNCHANGED vars
  <1>1. CASE InputsVerdict(file) = "ok"
    <2>1. PICK st \in {"done", "partial", "failed"},
               progress \in {file["progress"], Progressed(file["progress"])} :
             Finalize(Written(st), [file EXCEPT !["progress"] = progress])
      BY <1>1 DEF Process
    <2>2. progress \in File /\ (Foreign(file["progress"]) => progress = file["progress"])
      BY WrittenLemma, NamesLemma DEF Progressed, ExistingProgress, Foreign
    <2>3. [file EXCEPT !["progress"] = progress] \in [Names -> File]
      BY <2>2
    <2> DEFINE files == [file EXCEPT !["progress"] = progress]
    <2>4. /\ \A n \in Names \ {"progress"} : files[n] = file[n]
          /\ files["progress"] = progress
      BY NamesLemma
    <2> QED BY <1>1, <2>1, <2>2, <2>3, <2>4
  <1> QED BY <1>1 DEF Process

\* Every step keeps the types.
LEMMA TypesStep == TypeOK /\ [Next]_vars => TypeOK'
  <1> SUFFICES ASSUME TypeOK, [Next]_vars PROVE TypeOK'
    OBVIOUS
  <1>0. file \in [Names -> File]
    BY DEF TypeOK
  <1> USE <1>0
  <1>1. CASE UNCHANGED vars
    BY <1>1 DEF TypeOK, vars
  <1>2. ASSUME Condemn PROVE TypeOK'
    BY <1>2, CondemnLemma DEF TypeOK
  <1>3. ASSUME NEW status \in File, NEW files \in [Names -> File], Finalize(status, files)
        PROVE  TypeOK'
    BY <1>3, FinalizeLemma DEF TypeOK, TerminalPhases
  <1>4. ASSUME Process PROVE TypeOK'
    BY <1>1, <1>2, <1>3, <1>4, ProcessLemma, WrittenLemma
  <1>5. CASE FinishRun
    BY <1>5 DEF FinishRun, TypeOK
  <1>6. CASE ClaimReady
    <2>1. CASE phase' = "processing" /\ UNCHANGED file
      BY <2>1 DEF TypeOK
    <2> QED BY <1>1, <1>2, <1>6, <2>1 DEF ClaimReady
  <1>7. CASE RecoverProcessing
    <2>1. file["status"] \in File
      BY NamesLemma
    <2> QED BY <1>1, <1>2, <1>3, <1>4, <1>7, <2>1 DEF RecoverProcessing, RecoverStatus
  <1>8. CASE Gc
    <2>1. Pruned \in [Names -> File]
      BY WrittenLemma, NamesLemma DEF Pruned
    <2>2. CASE phase' = "gone" /\ file' = [n \in Names |-> IF n \in RunFiles THEN Absent ELSE file[n]]
      BY <2>2, WrittenLemma DEF TypeOK
    <2>3. CASE phase' = phase /\ file' = Pruned
      BY <2>1, <2>3 DEF TypeOK
    <2> QED BY <1>8, <2>2, <2>3 DEF Gc
  <1>9. CASE ResumeRuns
    BY <1>9, WrittenLemma, NamesLemma DEF ResumeRuns, TypeOK
  <1>10. CASE ResumeCleanups
    BY <1>10, WrittenLemma, NamesLemma DEF ResumeCleanups, TypeOK
  <1> QED BY <1>1, <1>5, <1>6, <1>7, <1>8, <1>9, <1>10 DEF Next

\* Whatever was found is files.
LEMMA TypesInit == Init => TypeOK
  <1> SUFFICES ASSUME Init PROVE TypeOK
    OBVIOUS
  <1>1. \A n \in Names : Any(n) \subseteq File
    BY DEF Any
  <1>2. \A n \in Names : Usual(n, phase) \in File
    BY WrittenLemma DEF Usual
  <1>3. PICK pair \in {Strange(phase), {"state", "ledger"}} : \E m, n \in pair :
           \E f \in Any(m), g \in Any(n) :
              file = [[k \in Names |-> Usual(k, phase)] EXCEPT ![m] = f, ![n] = g]
    BY DEF Init
  <1>4. pair \subseteq Names
    BY NamesLemma DEF Strange
  <1>5. PICK m \in pair, n \in pair : \E f \in Any(m), g \in Any(n) :
           file = [[k \in Names |-> Usual(k, phase)] EXCEPT ![m] = f, ![n] = g]
    BY <1>3
  <1>9. PICK f \in Any(m), g \in Any(n) :
           file = [[k \in Names |-> Usual(k, phase)] EXCEPT ![m] = f, ![n] = g]
    BY <1>5
  <1>6. f \in File /\ g \in File /\ m \in Names /\ n \in Names
    BY <1>1, <1>4
  <1>7. [k \in Names |-> Usual(k, phase)] \in [Names -> File]
    BY <1>2
  <1>8. file \in [Names -> File]
    BY <1>6, <1>7, <1>9
  <1> QED BY <1>8 DEF Init, TypeOK

\* Every file keeps its form whatever the handlers do with it.
THEOREM EnvelopeTypesCorrect == Spec => []TypeOK
  BY TypesInit, TypesStep, PTL DEF Spec

----------------------------------------------------------------------------
(* Readers *)

\* The forms a file may have, and what can be said of its version then.
LEMMA VersionLemma ==
    ASSUME NEW f \in File
    PROVE  /\ f.form \in {"absent", "garbled", "unversioned", "versioned"}
           /\ f.fits \in BOOLEAN /\ f.ours \in BOOLEAN /\ f.protocol \in BOOLEAN
           /\ f.state \in {"done", "partial", "failed"}
           /\ CheckVersion(f) = "compatible" <=> f.form = "versioned" /\ Compatible(f.version)
           /\ CheckVersion(f) = "invalid_toml" <=> f.form = "garbled"
           /\ CheckVersion(f) \in {"compatible", "invalid_toml", "incompatible"}
  BY DEF File, CheckVersion

\* Every reader of a status takes the same ones.
LEMMA ServedLemma ==
    ASSUME NEW f \in File
    PROVE  /\ StatusServed(f) <=> Deserializes(f) /\ Compatible(f.version) /\ f.ours
           /\ (RunStateAnswer(f) = "terminal") <=> StatusServed(f)
           /\ \A ph : RetainedAsTerminal(f, ph) <=>
                 StatusServed(f) /\ f.state \in IF ph = "done" THEN {"done", "partial"} ELSE {"failed"}
  <1>1. StatusVerdict(f) \in {"incompatible", "malformed", "valid"}
    BY VersionLemma DEF StatusVerdict, Deserializes
  <1>2. StatusServed(f) <=> Deserializes(f) /\ Compatible(f.version) /\ f.ours
    BY VersionLemma DEF StatusServed, StatusVerdict, Deserializes
  <1>3. (RunStateAnswer(f) = "terminal") <=> StatusServed(f)
    BY <1>1 DEF RunStateAnswer, StatusServed
  <1> QED BY <1>2, <1>3, VersionLemma DEF RetainedAsTerminal, Present, Deserializes

\* The answers of run-state, status, process-run and GC about a terminal run agree, for every
\* version a status may carry (try_read_status, verified_terminal_status,
\* classify_terminal_status).
THEOREM StatusesAreOne == Spec => []StatusReadersAgree
  <1>1. TypeOK => StatusReadersAgree
    <2> SUFFICES ASSUME TypeOK, phase \in TerminalPhases, NEW f \in File, f = file["status"]
                 PROVE  /\ (RunStateAnswer(f) = "terminal") <=> StatusServed(f)
                        /\ StatusServed(f) <=> ProcessRunAnswers(f)
                        /\ RetainedAsTerminal(f, phase) => StatusServed(f)
                        /\ StatusServed(f) /\ (phase = "failed" <=> f.state = "failed")
                              => RetainedAsTerminal(f, phase)
      BY NamesLemma DEF TypeOK, StatusReadersAgree
    <2> QED BY ServedLemma, VersionLemma DEF ProcessRunAnswers, TerminalPhases
  <1> QED BY <1>1, EnvelopeTypesCorrect, PTL

\* heartbeat-run, finish-run and GC accept the same leases (collect_incoming).
THEOREM LeasesAreOne == Spec => []LeaseReadersAgree
  <1>1. TypeOK => LeaseReadersAgree
    BY NamesLemma, VersionLemma
       DEF TypeOK, LeaseReadersAgree, LeaseTrusted, LeaseAccepted, Present, Deserializes
  <1> QED BY <1>1, EnvelopeTypesCorrect, PTL

\* What run-state shows of the progress is what the processor goes on from
\* (read_progress_fields, existing_progress_started_at).
THEOREM ProgressIsOne == Spec => []ProgressReadersAgree
  <1>1. TypeOK => ProgressReadersAgree
    <2> SUFFICES ASSUME NEW f \in File, f = file["progress"]
                 PROVE  /\ (ProgressShown(f) = "valid") <=> (ExistingProgress(f) = "compatible")
                        /\ ProgressShown(f) = "incompatible_version" => Progressed(f) = f
      BY NamesLemma DEF TypeOK, ProgressReadersAgree
    <2> QED BY VersionLemma
            DEF ProgressShown, ExistingProgress, Progressed, Foreign, Present, Deserializes
  <1> QED BY <1>1, EnvelopeTypesCorrect, PTL

\* The verdict on the inputs, in the order of the checks.
LEMMA InputsLemma ==
    ASSUME NEW files \in [Names -> File]
    PROVE  InputsVerdict(files) =
             IF LeaseVerdict(files["lease"]) # "ok" THEN LeaseVerdict(files["lease"])
             ELSE IF InputVerdict(files["config"]) # "ok" THEN InputVerdict(files["config"])
             ELSE IF InputVerdict(files["manifest"]) # "ok" THEN InputVerdict(files["manifest"])
             ELSE IF \A n \in Inputs : files[n].ours THEN "ok" ELSE "malformed"
  <1> DEFINE verdicts == <<LeaseVerdict(files["lease"]), InputVerdict(files["config"]),
                           InputVerdict(files["manifest"]),
                           IF \A n \in Inputs : files[n].ours THEN "ok" ELSE "malformed">>
             bad == {i \in 1..4 : verdicts[i] # "ok"}
             first == CHOOSE i \in bad : \A j \in bad : i <= j
  <1>1. /\ verdicts[1] = LeaseVerdict(files["lease"])
        /\ verdicts[2] = InputVerdict(files["config"])
        /\ verdicts[3] = InputVerdict(files["manifest"])
        /\ verdicts[4] = IF \A n \in Inputs : files[n].ours THEN "ok" ELSE "malformed"
    OBVIOUS
  <1>2. InputsVerdict(files) = IF bad = {} THEN "ok" ELSE verdicts[first]
    BY DEF InputsVerdict
  <1> HIDE DEF verdicts
  <1>3. ASSUME NEW k \in 1..4, verdicts[k] # "ok", \A j \in 1..4 : j < k => verdicts[j] = "ok"
        PROVE  InputsVerdict(files) = verdicts[k]
    <2>1. k \in bad /\ \A j \in bad : k <= j
      BY <1>3
    <2>2. \A i \in bad : (\A j \in bad : i <= j) => i = k
      BY <2>1
    <2>3. first = k
      BY <2>1, <2>2
    <2> QED BY <1>2, <2>1, <2>3
  <1>4. ASSUME \A j \in 1..4 : verdicts[j] = "ok" PROVE InputsVerdict(files) = "ok"
    BY <1>2, <1>4
  <1>5. \A j : j \in 1..4 <=> j = 1 \/ j = 2 \/ j = 3 \/ j = 4
    OBVIOUS
  <1>6. CASE verdicts[1] # "ok"
    BY <1>1, <1>3, <1>5, <1>6
  <1>7. CASE verdicts[1] = "ok" /\ verdicts[2] # "ok"
    BY <1>1, <1>3, <1>5, <1>7
  <1>8. CASE verdicts[1] = "ok" /\ verdicts[2] = "ok" /\ verdicts[3] # "ok"
    BY <1>1, <1>3, <1>5, <1>8
  <1>9. CASE verdicts[1] = "ok" /\ verdicts[2] = "ok" /\ verdicts[3] = "ok"
    BY <1>1, <1>3, <1>4, <1>5, <1>9
  <1> QED BY <1>6, <1>7, <1>8, <1>9

\* What prepare-run and finish-run accepted the processor does not refuse for its form
\* (prepare_run, read_compatible_run_inputs).
THEOREM AcceptedIsTaken == Spec => []AcceptedIsProcessable
  <1>1. TypeOK => AcceptedIsProcessable
    <2> SUFFICES ASSUME TypeOK, PrepareAccepts(file), LeaseAccepted(file["lease"])
                 PROVE  InputsVerdict(file) = "ok"
      BY DEF AcceptedIsProcessable
    <2>1. file \in [Names -> File] /\ \A n \in Names : file[n] \in File
      BY DEF TypeOK
    <2>2. LeaseVerdict(file["lease"]) = "ok"
      BY <2>1, NamesLemma, VersionLemma DEF LeaseVerdict, LeaseAccepted, Present, Deserializes
    <2>3. \A n \in Inputs : InputVerdict(file[n]) = "ok" /\ file[n].ours
      BY <2>1, NamesLemma, VersionLemma DEF PrepareAccepts, InputVerdict
    <2> QED BY <2>1, <2>2, <2>3, InputsLemma, NamesLemma
  <1> QED BY <1>1, EnvelopeTypesCorrect, PTL

----------------------------------------------------------------------------
(* Handlers *)

\* A step that ends no run: what it may still do to the files.
Waits ==
    /\ phase' = phase \/ (phase \in {"incoming", "ready"} /\ phase' \in {"ready", "processing"})
    /\ \A n \in Inputs \cup {"status"} : file'[n] = file[n]
    /\ phase # "done" => file'["lease"] = file["lease"] /\ file'["progress"] = file["progress"]
    /\ \A n \in {"state", "ledger"} : Foreign(file[n]) => file'[n] = file[n]

\* GC takes the run files.
Collected ==
    /\ phase' = "gone"
    /\ \A n \in {"state", "ledger"} : file'[n] = file[n]

\* A run ends with a status that is served.
Ends ==
    /\ phase \in {"ready", "processing"} /\ phase' \in TerminalPhases
    /\ StatusServed(file'["status"])
    /\ phase' = "failed" <=> file'["status"].state = "failed"
    /\ \A n \in Inputs \cup {"state", "ledger"} : file'[n] = file[n]
    /\ Foreign(file["progress"]) /\ phase' # "done" => file'["progress"] = file["progress"]

\* Why a run ends: what its inputs or its status are.
EndsFor ==
    \/ phase = "ready" /\ InputsVerdict(file) = "malformed"
    \/ /\ phase = "processing"
       /\ \/ LeaseVerdict(file["lease"]) = "malformed"
          \/ ~Present(file["status"]) /\ InputsVerdict(file) # "incompatible"
          \/ /\ Present(file["status"]) /\ ~Foreign(file["status"])
             /\ StatusServed(file["status"]) => file'["status"] = file["status"]

\* What this program writes is served.
LEMMA WrittenServed ==
    \A st \in {"done", "partial", "failed"} : StatusServed(Written(st))
  BY WrittenLemma, ServedLemma, CurrentAssumption DEF Deserializes, Compatible

\* A condemned run and a finished one end.
LEMMA EndLemma ==
    ASSUME TypeOK, phase \in {"ready", "processing"}
    PROVE  /\ Condemn => Ends
           /\ \A status \in File :
                 StatusServed(status) /\ Finalize(status, file) => Ends
           /\ Process => (InputsVerdict(file) # "incompatible" /\ Ends) \/ UNCHANGED vars
  <1>0. file \in [Names -> File]
    BY DEF TypeOK
  <1>1. Condemn => Ends
    BY <1>0, CondemnLemma, WrittenLemma, WrittenServed, NamesLemma DEF Ends, TerminalPhases
  <1>2. ASSUME NEW status \in File, NEW files \in [Names -> File], Finalize(status, files),
               StatusServed(status), \A n \in Names \ {"progress"} : files[n] = file[n],
               Foreign(file["progress"]) => files["progress"] = file["progress"]
        PROVE  Ends
    BY <1>0, <1>2, FinalizeLemma, NamesLemma DEF Ends, TerminalPhases
  <1>3. Process => (InputsVerdict(file) # "incompatible" /\ Ends) \/ UNCHANGED vars
    <2>1. CASE InputsVerdict(file) = "malformed" /\ Condemn
      BY <1>1, <2>1
    <2>2. ASSUME NEW st \in {"done", "partial", "failed"}, NEW files \in [Names -> File],
                 \A n \in Names \ {"progress"} : files[n] = file[n],
                 Foreign(file["progress"]) => files["progress"] = file["progress"],
                 Finalize(Written(st), files)
          PROVE  Ends
      <3>1. Written(st) \in File /\ StatusServed(Written(st))
        BY WrittenLemma, WrittenServed
      <3> QED BY <1>2, <2>2, <3>1
    <2> QED BY <1>0, <2>1, <2>2, ProcessLemma
  <1> QED BY <1>0, <1>1, <1>2, <1>3

\* Every step ends a run for a reason, collects it, or waits.
LEMMA HandlerLemma ==
    ASSUME TypeOK, [Next]_vars
    PROVE  Waits \/ Collected \/ (Ends /\ EndsFor)
  <1>0. file \in [Names -> File] /\ \A n \in Names : file[n] \in File
    BY DEF TypeOK
  <1>1. CASE UNCHANGED vars
    BY <1>1 DEF vars, Waits
  <1>2. CASE FinishRun
    BY <1>2 DEF FinishRun, Waits
  <1>3. CASE ClaimReady
    <2>1. CASE phase = "ready" /\ phase' = "processing" /\ UNCHANGED file
      BY <2>1 DEF Waits
    <2>2. CASE InputsVerdict(file) = "malformed" /\ phase = "ready" /\ Condemn
      BY <2>2, EndLemma DEF EndsFor
    <2> QED BY <1>1, <1>3, <2>1, <2>2 DEF ClaimReady
  <1>4. CASE RecoverProcessing
    <2>1. phase = "processing"
      BY <1>4 DEF RecoverProcessing
    <2>2. CASE LeaseVerdict(file["lease"]) = "malformed" /\ Condemn
      BY <2>1, <2>2, EndLemma DEF EndsFor
    <2>3. CASE ~Present(file["status"]) /\ Process
      BY <1>1, <2>1, <2>3, EndLemma DEF EndsFor
    <2>4. CASE Present(file["status"]) /\ RecoverStatus(file["status"])
      <3>0. file["status"] \in File
        BY <1>0, NamesLemma
      <3>1. CASE /\ ~Foreign(file["status"]) /\ Condemn
                 /\ ~(Deserializes(file["status"]) /\ file["status"].ours)
        <4>1. ~StatusServed(file["status"])
          BY <3>0, <3>1, ServedLemma
        <4> QED BY <2>1, <2>4, <3>1, <4>1, EndLemma DEF EndsFor
      <3>2. CASE /\ ~Foreign(file["status"]) /\ Deserializes(file["status"])
                 /\ file["status"].ours /\ Finalize(file["status"], file)
        <4>1. StatusServed(file["status"])
          BY <2>4, <3>0, <3>2, VersionLemma, ServedLemma DEF Foreign, Deserializes
        <4>2. file'["status"] = file["status"]
          BY <1>0, <3>0, <3>2, FinalizeLemma
        <4> QED BY <2>1, <2>4, <3>0, <3>2, <4>1, <4>2, EndLemma DEF EndsFor
      <3> QED BY <1>1, <2>4, <3>1, <3>2 DEF RecoverStatus
    <2> QED BY <1>1, <1>4, <2>2, <2>3, <2>4 DEF RecoverProcessing
  <1>5. CASE Gc
    <2>1. CASE phase' = "gone" /\ file' = [n \in Names |-> IF n \in RunFiles THEN Absent ELSE file[n]]
      BY <2>1, NamesLemma DEF Collected
    <2>2. CASE phase' = phase /\ file' = Pruned
      <3>1. CASE Pruned = file
        BY <2>2, <3>1 DEF Waits
      <3>2. CASE phase = "done" /\ Pruned = [file EXCEPT !["lease"] = Absent, !["progress"] = Absent]
        BY <1>0, <2>2, <3>2, NamesLemma DEF Waits
      <3> QED BY <3>1, <3>2 DEF Pruned
    <2> QED BY <1>5, <2>1, <2>2 DEF Gc
  <1>6. CASE ResumeRuns
    <2>1. Foreign(file["state"]) => ClientVerdict(file["state"]) = "skip"
      BY DEF ClientVerdict
    <2> QED BY <1>0, <1>6, <2>1, NamesLemma DEF ResumeRuns, Waits
  <1>7. CASE ResumeCleanups
    BY <1>0, <1>7, NamesLemma DEF ResumeCleanups, LedgerUsed, Waits
  <1> QED BY <1>1, <1>2, <1>3, <1>4, <1>5, <1>6, <1>7 DEF Next

\* A run that reaches a terminal directory has a status there that the client can fetch and
\* GC retains, whatever any version left behind (write_run_failure, finalize_processing_run).
THEOREM EndsAreReadable == Spec => EndsReadable
  <1> DEFINE Readable ==
        phase' \in TerminalPhases /\ phase \notin TerminalPhases =>
            /\ StatusServed(file'["status"])
            /\ RetainedAsTerminal(file'["status"], phase')
  <1>1. TypeOK /\ TypeOK' /\ [Next]_vars => Readable
    <2> SUFFICES ASSUME TypeOK, TypeOK', [Next]_vars, phase' \in TerminalPhases,
                        phase \notin TerminalPhases
                 PROVE  StatusServed(file'["status"]) /\ RetainedAsTerminal(file'["status"], phase')
      OBVIOUS
    <2>1. file'["status"] \in File
      BY NamesLemma DEF TypeOK
    <2>2. Ends
      BY HandlerLemma DEF Waits, Collected, TerminalPhases
    <2>3. StatusServed(file'["status"]) /\ (phase' = "failed" <=> file'["status"].state = "failed")
      BY <2>2 DEF Ends
    <2> QED BY <2>1, <2>3, ServedLemma, VersionLemma DEF TerminalPhases
  <1> QED BY <1>1, EnvelopeTypesCorrect, PTL DEF Spec, EndsReadable

\* Among files of which none is broken, a run does not end for an input or a
\* status of another version, only by a status that is served.
LEMMA NotForForeign ==
    ASSUME TypeOK, NEW n \in Inputs \cup {"status"}, Foreign(file[n]), NoneBroken(n), EndsFor
    PROVE  /\ n # "status"
           /\ StatusServed(file["status"]) /\ file'["status"] = file["status"]
  <1>0. file \in [Names -> File] /\ \A m \in Names : file[m] \in File
    BY DEF TypeOK
  <1>1. LeaseVerdict(file["lease"]) # "malformed"
    BY NamesLemma DEF NoneBroken, LeaseVerdict
  <1>2. \A m \in Inputs :
           \/ InputVerdict(file[m]) = "incompatible"
           \/ InputVerdict(file[m]) = "ok" /\ file[m].ours
    <2>1. \A m \in Inputs : Foreign(file[m]) => InputVerdict(file[m]) = "incompatible"
      BY DEF Foreign, InputVerdict
    <2> QED BY <2>1 DEF NoneBroken
  <1>3. /\ InputsVerdict(file) # "malformed"
        /\ n \in Inputs => InputsVerdict(file) = "incompatible"
    <2>1. LeaseVerdict(file["lease"]) \in {"ok", "incompatible"}
      BY <1>1 DEF LeaseVerdict, Present, Deserializes
    <2>2. n \in Inputs => InputVerdict(file[n]) = "incompatible"
      BY DEF Foreign, InputVerdict
    <2> QED BY <1>0, <1>2, <2>1, <2>2, InputsLemma, NamesLemma
  <1>4. /\ phase = "processing" /\ Present(file["status"]) /\ ~Foreign(file["status"])
        /\ StatusServed(file["status"]) => file'["status"] = file["status"]
    <2>1. ~Present(file["status"]) => n # "status"
      BY DEF Foreign
    <2> QED BY <1>1, <1>3, <2>1 DEF EndsFor
  <1>5. Deserializes(file["status"]) /\ file["status"].ours
    BY <1>4 DEF NoneBroken
  <1>6. StatusServed(file["status"])
    BY <1>0, <1>4, <1>5, NamesLemma, VersionLemma, ServedLemma DEF Foreign, Deserializes
  <1> QED BY <1>4, <1>6

\* What another version wrote is not rewritten, renamed or moved to failed/, in any mixture of
\* files of this and other versions of which none is broken, for every version string and form
\* of the file, and from any files at all (check_toml_version and the handlers behind it).
THEOREM ForeignFilesStay ==
    /\ Spec => ForeignLeftInPlace
    /\ TypeOK /\ [][Next]_vars => ForeignLeftInPlace
  <1> DEFINE Left ==
        /\ \A n \in Inputs \cup {"status"} : LeftInPlace(n)
        /\ \A n \in {"state", "ledger"} : Foreign(file[n]) => file'[n] = file[n]
        /\ Foreign(file["progress"]) /\ phase' \notin {"done", "gone"} =>
              file'["progress"] = file["progress"]
  <1>1. TypeOK /\ [Next]_vars => Left
    <2> SUFFICES ASSUME TypeOK, [Next]_vars PROVE Left
      OBVIOUS
    <2>1. Waits \/ Collected \/ (Ends /\ EndsFor)
      BY HandlerLemma
    <2>2. ASSUME NEW n \in Inputs \cup {"status"} PROVE LeftInPlace(n)
      <3> SUFFICES ASSUME Foreign(file[n]), NoneBroken(n), phase' # "gone"
                   PROVE  /\ file'[n] = file[n]
                          /\ \/ phase' \in TerminalPhases => phase' = phase
                             \/ StatusServed(file["status"]) /\ file'["status"] = file["status"]
        BY DEF LeftInPlace
      <3>1. CASE Waits
        BY <3>1 DEF Waits, TerminalPhases
      <3>2. CASE Ends /\ EndsFor
        <4>1. n # "status" /\ StatusServed(file["status"]) /\ file'["status"] = file["status"]
          BY <3>2, NotForForeign
        <4> QED BY <3>2, <4>1 DEF Ends
      <3> QED BY <2>1, <3>1, <3>2 DEF Collected
    <2>3. \A n \in {"state", "ledger"} : Foreign(file[n]) => file'[n] = file[n]
      BY <2>1 DEF Waits, Collected, Ends
    <2>4. Foreign(file["progress"]) /\ phase' \notin {"done", "gone"} =>
             file'["progress"] = file["progress"]
      BY <2>1 DEF Waits, Collected, Ends
    <2> QED BY <2>2, <2>3, <2>4
  <1> QED BY <1>1, TypesStep, EnvelopeTypesCorrect, PTL DEF Spec, ForeignLeftInPlace
=============================================================================
