---------------------------- MODULE ClientProofs ----------------------------
(***************************************************************************)
(* What holds of the client for every number of operations, files, writes, *)
(* faults, crashes and invocations: nothing is deleted that was not        *)
(* delivered, no accepted run is forgotten, and, as long as one invocation *)
(* is under way at a time, no persisted run loses its ledger.              *)
(***************************************************************************)
EXTENDS ClientRun, TLAPS

Invocations == [pc : ClientSteps, run : Runs, todo : SUBSET Runs, resumes : BOOLEAN,
                refuses : BOOLEAN, verdict : Outcomes, clean : BOOLEAN]

DriveRecords == [pc : DriveSteps, run : Runs, phase : Views, obs : {"active", "idle", "unclear"},
                 outcome : {"none"} \cup Exits, attempts : 0..MaxNoProgress]

TidyRecords == [pc : TidySteps, run : Runs, book : Ledgers, todo : SUBSET Files,
                file : Files, seen : {Gone} \cup Versions]

Persistents == [phase : Persisted, verdict : Outcomes]

----------------------------------------------------------------------------
(* The types of the pieces the actions are built from *)

\* The server's side of every action keeps its type.
LEMMA MoveLemma ==
    ASSUME place \in [Runs -> Server!Places], NEW r \in Runs, NEW a, NEW b \in Server!Places,
           Server!Move(r, a, b)
    PROVE  place' \in [Runs -> Server!Places] /\ imported' = imported
  BY DEF Server!Move

\* The places named by the contract are places, and may be seen by a client.
LEMMA PlacesLemma ==
    /\ Server!Verdicts \subseteq Server!Places
    /\ {"absent", "incoming", "ready", "processing", "corrupt", "collected"} \subseteq Server!Places
    /\ Server!Places \subseteq Views
    /\ Server!Verdicts \subseteq Outcomes
  BY DEF Server!Verdicts, Server!Places, Views, Outcomes

\* Every step of the contract keeps the types of the server's side.
LEMMA ContractTypes ==
    ASSUME place \in [Runs -> Server!Places], imported \in SUBSET Runs, NEW r \in Runs
    PROVE  /\ Server!Upload(r) \/ Server!Expire(r) \/ Server!Accept(r) \/ Server!Claim(r)
                  \/ Server!Import(r) \/ Server!LoseStatus(r) \/ Server!Collect(r)
                  \/ (\E verdict \in Server!Verdicts : Server!End(r, verdict))
              => place' \in [Runs -> Server!Places] /\ imported' \in SUBSET Runs
  BY MoveLemma, PlacesLemma
     DEF Server!Upload, Server!Expire, Server!Accept, Server!Claim, Server!Import,
         Server!LoseStatus, Server!Collect, Server!End

\* A fault keeps the count of faults within its bound.
LEMMA FaultLemma ==
    ASSUME faults \in 0..MaxFaults, Fault
    PROVE  faults' \in 0..MaxFaults
  BY FaultsAssumption DEF Fault

\* A lock that is disowned has a holder or none.
LEMMA DisownedLemma ==
    ASSUME SupervisionTypeOK, NEW k \in Clients, Disowned(k)
    PROVE  holder' \in [Runs -> Clients \cup {"nobody", "other"}]
  BY DEF SupervisionTypeOK, Disowned

\* What is idle is of its type.
LEMMA IdleLemma ==
    /\ NoDrive \in DriveRecords /\ NoDrive.pc = "idle"
    /\ NoTidy \in TidyRecords /\ NoTidy.pc = "idle" /\ NoTidy.book = NoLedger
    /\ NoLedger \in Ledgers /\ ~NoLedger.confirmed /\ ~NoLedger.written
    /\ \A f \in Files : NoLedger.captured[f] = Gone
    /\ Off \in Invocations /\ Off.pc = "off"
    /\ NoState \in Persistents /\ NoState.phase = "none" /\ NoState.verdict = "none"
  BY RunsAssumption, FilesAssumption
     DEF NoDrive, DriveRecords, DriveSteps, Views, Server!Places, Exits, MaxNoProgress,
         NoTidy, TidyRecords, TidySteps, NoLedger, Ledgers, Off, Invocations, ClientSteps,
         Outcomes, NoState, Persistents, Persisted

----------------------------------------------------------------------------
(* The server's steps, the drive and the deletion keep their types *)

\* What a look at the run, a failure and a return make of the drive and of the worker.
LEMMA DriveLemma ==
    ASSUME SupervisionTypeOK, NEW k \in Clients
    PROVE  /\ drive[k] \in DriveRecords
           /\ \A step \in DriveSteps : DriveGoto(k, step) =>
                 drive' \in [Clients -> DriveRecords]
           /\ \A probe, then \in DriveSteps : LooksAt(k, probe, then) =>
                 drive' \in [Clients -> DriveRecords]
           /\ \A then \in DriveSteps : Probes(k, then) => drive' \in [Clients -> DriveRecords]
           /\ Fails(k) =>
                 /\ drive' \in [Clients -> DriveRecords]
                 /\ worker' \in [Clients -> {"none"} \cup Working \cup Exits]
                 /\ holder' \in [Runs -> Clients \cup {"nobody", "other"}]
           /\ \A view \in DriveRecords : Returns(k, view) =>
                 /\ drive' \in [Clients -> DriveRecords]
                 /\ worker' \in [Clients -> {"none"} \cup Working \cup Exits]
                 /\ holder' \in [Runs -> Clients \cup {"nobody", "other"}]
  <1>1. drive \in [Clients -> DriveRecords] /\ worker \in [Clients -> {"none"} \cup Working \cup Exits]
    BY DEF SupervisionTypeOK, DriveRecords
  <1>2. \A step \in DriveSteps : DriveGoto(k, step) => drive' \in [Clients -> DriveRecords]
    BY <1>1 DEF DriveGoto, DriveRecords
  <1>3. \A probe, then \in DriveSteps : LooksAt(k, probe, then) => drive' \in [Clients -> DriveRecords]
    <2>1. place[drive[k].run] \in Views
      BY <1>1, PlacesLemma DEF SupervisionTypeOK, DriveRecords
    <2> TAKE probe, then \in DriveSteps
    <2>2. \A step \in DriveSteps :
             [drive[k] EXCEPT !.phase = place[drive[k].run], !.obs = "unclear", !.pc = step] \in DriveRecords
      BY <1>1, <2>1 DEF DriveRecords
    <2> QED BY <1>1, <2>2 DEF LooksAt
  <1>4. \A then \in DriveSteps : Probes(k, then) => drive' \in [Clients -> DriveRecords]
    <2>1. \A step \in DriveSteps, obs \in {"active", "idle", "unclear"} :
             [drive[k] EXCEPT !.obs = obs, !.pc = step] \in DriveRecords
      BY <1>1 DEF DriveRecords
    <2> TAKE then \in DriveSteps
    <2> DEFINE seen == IF place[drive[k].run] # "processing" THEN "unclear"
                       ELSE IF holder[drive[k].run] = "nobody" THEN "idle" ELSE "active"
    <2>2. seen \in {"active", "idle", "unclear"}
      OBVIOUS
    <2>3. Probes(k, then) =>
              drive' = [drive EXCEPT ![k] = [drive[k] EXCEPT !.obs = seen, !.pc = then]]
      BY <1>1 DEF Probes
    <2> HIDE DEF seen
    <2> QED BY <1>1, <2>1, <2>2, <2>3
  <1>5. "failed" \in DriveSteps /\ "terminal" \in DriveSteps
    BY DEF DriveSteps
  <1>6. \A view \in DriveRecords : Returns(k, view) => drive' \in [Clients -> DriveRecords]
    BY <1>1, <1>5 DEF Returns, DriveRecords
  <1> QED BY <1>1, <1>2, <1>3, <1>4, <1>5, <1>6, DisownedLemma DEF Fails, Returns

\* Decide keeps the types of the drive, of the worker, of the lock and of the faults.
LEMMA DecideLemma ==
    ASSUME SupervisionTypeOK, NEW k \in Clients, NEW view \in DriveRecords, Decide(k, view)
    PROVE  /\ drive' \in [Clients -> DriveRecords]
           /\ worker' \in [Clients -> {"none"} \cup Working \cup Exits]
           /\ holder' \in [Runs -> Clients \cup {"nobody", "other"}]
           /\ faults' \in 0..MaxFaults
  <1>1. /\ drive \in [Clients -> DriveRecords]
        /\ worker \in [Clients -> {"none"} \cup Working \cup Exits]
        /\ holder \in [Runs -> Clients \cup {"nobody", "other"}]
        /\ faults \in 0..MaxFaults
    BY DEF SupervisionTypeOK, DriveRecords
  <1>2. CASE Fails(k) /\ (UNCHANGED faults \/ Fault)
    BY <1>1, <1>2, DriveLemma, FaultLemma
  <1>3. CASE /\ worker' = IF Spawns(k, view) THEN [worker EXCEPT ![k] = "called"] ELSE worker
             /\ drive' = [drive EXCEPT ![k] = [view EXCEPT !.pc = "poll", !.outcome = "none"]]
             /\ UNCHANGED <<holder, faults>>
    BY <1>1, <1>3 DEF DriveRecords, DriveSteps, Working
  <1> QED BY <1>2, <1>3 DEF Decide

\* The drive loop keeps the types.
LEMMA DriveTypes ==
    ASSUME SupervisionTypeOK, NEW k \in Clients, DriveStep(k)
    PROVE  SupervisionTypeOK'
  <1> DEFINE Rest == /\ drive' \in [Clients -> DriveRecords]
                     /\ worker' \in [Clients -> {"none"} \cup Working \cup Exits]
                     /\ holder' \in [Runs -> Clients \cup {"nobody", "other"}]
                     /\ faults' \in 0..MaxFaults
  <1>1. UNCHANGED <<place, imported>>
    BY DEF DriveStep, Poll, Probe, Check, FreshLook, FreshProbe, Judge, serverSide
  <1> SUFFICES Rest
    BY <1>1 DEF SupervisionTypeOK, DriveRecords
  <1>2. {"probe", "check", "fresh", "fresh_probe", "judge"} \subseteq DriveSteps
    BY DEF DriveSteps
  <1>3. /\ drive \in [Clients -> DriveRecords]
        /\ drive[k] \in DriveRecords
        /\ worker \in [Clients -> {"none"} \cup Working \cup Exits]
        /\ holder \in [Runs -> Clients \cup {"nobody", "other"}]
        /\ faults \in 0..MaxFaults
    BY DEF SupervisionTypeOK, DriveRecords
  <1>4. CASE Poll(k)
    BY <1>2, <1>3, <1>4, DriveLemma, FaultLemma DEF Poll, LooksAt, serverSide
  <1>5. CASE Probe(k)
    BY <1>2, <1>3, <1>5, DriveLemma DEF Probe, serverSide
  <1>6. CASE Check(k)
    <2>1. CASE Returns(k, drive[k]) /\ UNCHANGED faults
      BY <1>3, <2>1, DriveLemma
    <2>2. CASE /\ worker[k] \in Exits
               /\ drive' = [drive EXCEPT ![k].pc = "fresh", ![k].outcome = worker[k]]
               /\ worker' = [worker EXCEPT ![k] = "none"]
               /\ UNCHANGED <<holder, faults>>
      BY <1>2, <1>3, <2>2 DEF DriveRecords
    <2>3. CASE Decide(k, drive[k])
      BY <1>3, <2>3, DecideLemma
    <2> QED BY <1>6, <2>1, <2>2, <2>3 DEF Check
  <1>7. CASE FreshLook(k)
    BY <1>2, <1>3, <1>7, DriveLemma, FaultLemma DEF FreshLook, LooksAt, serverSide
  <1>8. CASE FreshProbe(k)
    BY <1>2, <1>3, <1>8, DriveLemma DEF FreshProbe, serverSide
  <1>9. CASE Judge(k)
    <2>1. CASE Returns(k, drive[k]) /\ UNCHANGED faults
      BY <1>3, <2>1, DriveLemma
    <2>2. CASE Fails(k) /\ UNCHANGED faults
      BY <1>3, <2>2, DriveLemma
    <2>3. CASE /\ ~Contradicts(drive[k])
               /\ Decide(k, IF drive[k].outcome = "claim_in_progress" /\ drive[k].phase = "ready"
                            THEN [drive[k] EXCEPT !.attempts = @ + 1] ELSE drive[k])
      <3>1. drive[k].outcome = "claim_in_progress" /\ drive[k].phase = "ready" =>
                [drive[k] EXCEPT !.attempts = @ + 1] \in DriveRecords
        BY <1>3, <2>3 DEF Contradicts, DriveRecords, MaxNoProgress
      <3> QED BY <1>3, <2>3, <3>1, DecideLemma
    <2> QED BY <1>9, <2>1, <2>2, <2>3 DEF Judge
  <1> QED BY <1>4, <1>5, <1>6, <1>7, <1>8, <1>9 DEF DriveStep

\* The server, its processors and its collector keep the types.
LEMMA ServerTypes ==
    ASSUME SupervisionTypeOK, ServerStep
    PROVE  SupervisionTypeOK' /\ UNCHANGED drive
  <1> USE DEF driveVars, serverSide
  <1>1. \A k \in Clients : drive[k].run \in Runs
    BY DriveLemma DEF DriveRecords
  <1>2. ASSUME NEW k \in Clients, WorkerArrives(k) PROVE SupervisionTypeOK' /\ UNCHANGED drive
    <2> DEFINE r == drive[k].run
    <2>1. /\ worker' \in [Clients -> {"none"} \cup Working \cup Exits]
          /\ UNCHANGED <<drive, faults>>
      BY <1>2 DEF WorkerArrives, SupervisionTypeOK, Working, Exits
    <2>2. /\ place' \in [Runs -> Server!Places] /\ imported' \in SUBSET Runs
          /\ holder' \in [Runs -> Clients \cup {"nobody", "other"}]
      <3>1. CASE Take(r, k)
        BY <1>1, <3>1, ContractTypes DEF Take, SupervisionTypeOK
      <3>2. CASE Server!End(r, "failed") /\ UNCHANGED holder
        BY <1>1, <3>2, ContractTypes DEF SupervisionTypeOK, Server!Verdicts
      <3>3. CASE UNCHANGED serverSide
        BY <3>3 DEF SupervisionTypeOK
      <3> QED BY <1>2, <3>1, <3>2, <3>3 DEF WorkerArrives
    <2> QED BY <2>1, <2>2 DEF SupervisionTypeOK
  <1>3. ASSUME NEW k \in Clients, WorkerEnds(k) PROVE SupervisionTypeOK' /\ UNCHANGED drive
    <2>1. place' \in [Runs -> Server!Places] /\ imported' \in SUBSET Runs
      BY <1>1, <1>3, ContractTypes DEF WorkerEnds, SupervisionTypeOK, Server!Verdicts
    <2>2. faults' \in 0..MaxFaults
      BY <1>3, FaultLemma DEF WorkerEnds, SupervisionTypeOK
    <2> QED BY <1>3, <2>1, <2>2 DEF WorkerEnds, LetGo, SupervisionTypeOK, Exits
  <1>4. ASSUME NEW k \in Clients, ConnectionLost(k) PROVE SupervisionTypeOK' /\ UNCHANGED drive
    BY <1>4, DisownedLemma, FaultLemma DEF ConnectionLost, SupervisionTypeOK, Exits
  <1>5. ASSUME NEW r \in Runs, Imports(r) PROVE SupervisionTypeOK' /\ UNCHANGED drive
    BY <1>5, ContractTypes DEF Imports, SupervisionTypeOK
  <1>6. ASSUME NEW r \in Runs, OtherLocks(r) PROVE SupervisionTypeOK' /\ UNCHANGED drive
    BY <1>6 DEF OtherLocks, SupervisionTypeOK
  <1>7. ASSUME NEW r \in Runs, OtherClaims(r) PROVE SupervisionTypeOK' /\ UNCHANGED drive
    BY <1>7, ContractTypes DEF OtherClaims, SupervisionTypeOK
  <1>8. ASSUME NEW r \in Runs, OtherEnds(r) PROVE SupervisionTypeOK' /\ UNCHANGED drive
    <2>1. place' \in [Runs -> Server!Places] /\ imported' \in SUBSET Runs
      BY <1>8, ContractTypes DEF OtherEnds, SupervisionTypeOK, Server!Verdicts
    <2> QED BY <1>8, <2>1 DEF OtherEnds, LetGo, SupervisionTypeOK
  <1>9. ASSUME NEW r \in Runs, OtherDies(r) PROVE SupervisionTypeOK' /\ UNCHANGED drive
    BY <1>9, FaultLemma DEF OtherDies, LetGo, SupervisionTypeOK
  <1>10. ASSUME NEW r \in Runs, Collects(r) PROVE SupervisionTypeOK' /\ UNCHANGED drive
    BY <1>10, ContractTypes DEF Collects, SupervisionTypeOK
  <1> QED BY <1>2, <1>3, <1>4, <1>5, <1>6, <1>7, <1>8, <1>9, <1>10 DEF ServerStep

\* The deletion and what begins it keep the types of the ledgers.
LEMMA LedgerLemma ==
    ASSUME CleanupTypeOK
    PROVE  /\ \A r \in Runs : Tracked(ledger[r]) \subseteq Files
           /\ \A k \in Clients, r \in Runs : TidyUp(k, r) => tidy' \in [Clients -> TidyRecords]
           /\ \A k \in Clients : tidy' = [tidy EXCEPT ![k] = NoTidy] =>
                 tidy' \in [Clients -> TidyRecords]
           /\ \A r \in Runs : Capture(r) => ledger' \in [Runs -> Ledgers]
           /\ \A r \in Runs, imports \in BOOLEAN : Confirm(r, imports) => ledger' \in [Runs -> Ledgers]
           /\ \A r \in Runs : Retire(r) => ledger' \in [Runs -> Ledgers]
  <1>1. tidy \in [Clients -> TidyRecords] /\ ledger \in [Runs -> Ledgers]
    BY DEF CleanupTypeOK, TidyRecords
  <1>2. \A r \in Runs : Tracked(ledger[r]) \subseteq Files
    BY DEF Tracked
  <1>3. \A k \in Clients, r \in Runs : TidyUp(k, r) => tidy' \in [Clients -> TidyRecords]
    <2> TAKE k \in Clients, r \in Runs
    <2>1. \A step \in TidySteps, book \in Ledgers, todo \in SUBSET Files :
             [NoTidy EXCEPT !.pc = step, !.run = r, !.book = book, !.todo = todo] \in TidyRecords
      BY IdleLemma DEF TidyRecords
    <2>2. {"files", "over"} \subseteq TidySteps
      BY DEF TidySteps
    <2>3. ledger[r] \in Ledgers /\ Tracked(ledger[r]) \ ledger[r].cleaned \in SUBSET Files
      BY <1>1, <1>2
    <2> DEFINE step == IF ledger[r].confirmed THEN "files" ELSE "over"
    <2>4. step \in TidySteps
      BY <2>2
    <2>5. TidyUp(k, r) =>
             tidy' = [tidy EXCEPT ![k] = [NoTidy EXCEPT !.pc = step, !.run = r, !.book = ledger[r],
                                          !.todo = Tracked(ledger[r]) \ ledger[r].cleaned]]
      BY DEF TidyUp
    <2> HIDE DEF step
    <2>6. [NoTidy EXCEPT !.pc = step, !.run = r, !.book = ledger[r],
                         !.todo = Tracked(ledger[r]) \ ledger[r].cleaned] \in TidyRecords
      BY <2>1, <2>3, <2>4
    <2> QED BY <1>1, <2>5, <2>6
  <1>4. \A r \in Runs : Capture(r) => ledger' \in [Runs -> Ledgers]
    <2>1. [NoLedger EXCEPT !.written = TRUE, !.captured = local] \in Ledgers
      BY IdleLemma DEF CleanupTypeOK, Ledgers
    <2> QED BY <1>1, <2>1 DEF Capture
  <1>5. \A r \in Runs, imports \in BOOLEAN : Confirm(r, imports) => ledger' \in [Runs -> Ledgers]
    BY <1>1, SMTT(30) DEF Confirm, Ledgers
  <1>6. \A r \in Runs : Retire(r) => ledger' \in [Runs -> Ledgers]
    BY <1>1, IdleLemma DEF Retire
  <1> QED BY <1>1, <1>2, <1>3, <1>4, <1>5, <1>6, IdleLemma

\* Marking an entry as cleaned keeps the types.
LEMMA MarkedLemma ==
    ASSUME CleanupTypeOK, NEW k \in Clients, NEW item \in Files \cup {Directory},
           NEW step \in TidySteps, Marked(k, item, step)
    PROVE  CleanupTypeOK'
  <1>1. tidy \in [Clients -> TidyRecords] /\ ledger \in [Runs -> Ledgers]
    BY DEF CleanupTypeOK, TidyRecords
  <1> DEFINE book == [tidy[k].book EXCEPT !.cleaned = @ \cup {item}]
  <1>2. book \in Ledgers
    BY <1>1, SMTT(30) DEF TidyRecords, Ledgers
  <1>3. ledger' = [ledger EXCEPT ![tidy[k].run] = book]
        /\ tidy' = [tidy EXCEPT ![k] = [tidy[k] EXCEPT !.book = book, !.pc = step]]
    BY <1>1 DEF Marked, TidyRecords
  <1> HIDE DEF book
  <1>4. ledger' \in [Runs -> Ledgers]
    BY <1>1, <1>2, <1>3
  <1>5. [tidy[k] EXCEPT !.book = book, !.pc = step] \in TidyRecords
    BY <1>1, <1>2 DEF TidyRecords
  <1>6. tidy' \in [Clients -> TidyRecords]
    BY <1>1, <1>3, <1>5
  <1> QED BY <1>4, <1>6 DEF Marked, localVars, CleanupTypeOK, TidyRecords

\* Every step of the deletion keeps the types.
LEMMA TidyTypes ==
    ASSUME CleanupTypeOK, NEW k \in Clients, TidyStep(k)
    PROVE  CleanupTypeOK'
  <1>1. tidy \in [Clients -> TidyRecords] /\ tidy[k] \in TidyRecords
    BY DEF CleanupTypeOK, TidyRecords
  <1>2. {"files", "unlink", "mark", "directory", "mark_directory", "over"} \subseteq TidySteps
    BY DEF TidySteps
  <1>3. CASE TryClean(k)
    <2>1. PICK f \in tidy[k].todo :
             tidy' = [tidy EXCEPT ![k].todo = @ \ {f}, ![k].file = f, ![k].seen = local[f],
                                  ![k].pc = IF local[f] = Gone THEN "mark"
                                            ELSE IF local[f] = tidy[k].book.captured[f] THEN "unlink"
                                            ELSE "files"]
      BY <1>3 DEF TryClean
    <2> DEFINE step == IF local[f] = Gone THEN "mark"
                       ELSE IF local[f] = tidy[k].book.captured[f] THEN "unlink" ELSE "files"
    <2>2. step \in TidySteps
      BY <1>2
    <2>3. tidy' = [tidy EXCEPT ![k] = [tidy[k] EXCEPT !.todo = @ \ {f}, !.file = f,
                                                      !.seen = local[f], !.pc = step]]
      BY <1>1, <2>1
    <2> HIDE DEF step
    <2>4. [tidy[k] EXCEPT !.todo = @ \ {f}, !.file = f, !.seen = local[f], !.pc = step] \in TidyRecords
      BY <1>1, <2>2 DEF CleanupTypeOK, TidyRecords
    <2>5. tidy' \in [Clients -> TidyRecords]
      BY <1>1, <2>3, <2>4
    <2> QED BY <1>3, <2>5 DEF TryClean, localVars, CleanupTypeOK, TidyRecords
  <1>4. CASE Unlink(k)
    <2>1. tidy' \in [Clients -> TidyRecords]
      BY <1>1, <1>2, <1>4 DEF Unlink, TidyGoto, TidyRecords
    <2>2. local' \in [Files -> {Gone} \cup Versions]
      BY <1>4 DEF Unlink, CleanupTypeOK
    <2> QED BY <1>4, <2>1, <2>2 DEF Unlink, CleanupTypeOK, TidyRecords
  <1>5. CASE Mark(k)
    BY <1>1, <1>2, <1>5, MarkedLemma DEF Mark, TidyRecords
  <1>6. CASE TidyDirectory(k)
    <2>1. tidy' \in [Clients -> TidyRecords]
      BY <1>1, <1>2, <1>6 DEF TidyDirectory, TidyGoto, TidyRecords
    <2> QED BY <1>6, <2>1 DEF TidyDirectory, CleanupTypeOK, TidyRecords
  <1>7. CASE MarkDirectory(k)
    BY <1>2, <1>7, MarkedLemma DEF MarkDirectory
  <1> QED BY <1>3, <1>4, <1>5, <1>6, <1>7 DEF TidyStep

\* A write of the user keeps the types.
LEMMA WriteTypes ==
    ASSUME CleanupTypeOK, NEW f \in Files, Write(f)
    PROVE  CleanupTypeOK'
  <1>1. writes + 2 \in Versions /\ writes + 1 \in 0..MaxWrites
    BY WritesAssumption DEF Write, CleanupTypeOK, Versions
  <1> QED BY <1>1 DEF Write, CleanupTypeOK

----------------------------------------------------------------------------
(* The invocation keeps the types *)

InvocationsOK == client \in [Clients -> Invocations]
StatesOK == state \in [Runs -> Persistents]

\* The control of an invocation keeps its type.
LEMMA GotoLemma ==
    ASSUME InvocationsOK, NEW k \in Clients
    PROVE  /\ \A step \in ClientSteps : Goto(k, step) => InvocationsOK'
           /\ Fail(k) => InvocationsOK'
           /\ Over(k) => InvocationsOK'
           /\ \A c \in Invocations : client' = [client EXCEPT ![k] = c] => InvocationsOK'
           /\ client[k] \in Invocations
  <1>1. "runs" \in ClientSteps
    BY DEF ClientSteps
  <1>2. \A step \in ClientSteps : Goto(k, step) => InvocationsOK'
    BY DEF Goto, InvocationsOK, Invocations
  <1>3. [client[k] EXCEPT !.pc = "runs", !.refuses = TRUE, !.resumes = FALSE] \in Invocations
        /\ [client[k] EXCEPT !.pc = "runs", !.resumes = FALSE] \in Invocations
    BY <1>1 DEF InvocationsOK, Invocations
  <1>4. Fail(k) => InvocationsOK'
    BY <1>3, IdleLemma DEF Fail, InvocationsOK
  <1>5. Over(k) => InvocationsOK'
    BY <1>3, IdleLemma DEF Over, InvocationsOK
  <1> QED BY <1>2, <1>4, <1>5 DEF InvocationsOK

\* Persisting keeps the type of what is persisted.
LEMMA PersistLemma ==
    ASSUME StatesOK, NEW r \in Runs
    PROVE  /\ \A phase \in Persisted, verdict \in Outcomes : Persist(r, phase, verdict) => StatesOK'
           /\ state' = [state EXCEPT ![r] = NoState] => StatesOK'
           /\ state[r] \in Persistents
  BY IdleLemma DEF Persist, StatesOK, Persistents

HistoryOK ==
    /\ sent \in [Runs -> [Files -> {Gone} \cup Versions]]
    /\ begun \in SUBSET Runs /\ settled \in SUBSET Runs
    /\ crashes \in 0..MaxCrashes

\* The type invariant in the parts that the steps are about.
LEMMA TypeParts ==
    ClientTypeOK <=>
        SupervisionTypeOK /\ CleanupTypeOK /\ InvocationsOK /\ StatesOK /\ HistoryOK
  BY DEF ClientTypeOK, InvocationsOK, Invocations, StatesOK, Persistents, HistoryOK

\* Parts whose variables do not change keep their type.
LEMMA StayLemma ==
    /\ SupervisionTypeOK /\ UNCHANGED <<place, imported, holder, worker, drive>>
          /\ faults' \in 0..MaxFaults => SupervisionTypeOK'
    /\ CleanupTypeOK /\ UNCHANGED cleanupVars => CleanupTypeOK'
    /\ CleanupTypeOK /\ ledger' \in [Runs -> Ledgers] /\ tidy' \in [Clients -> TidyRecords]
          /\ UNCHANGED localVars => CleanupTypeOK'
    /\ InvocationsOK /\ UNCHANGED client => InvocationsOK'
    /\ StatesOK /\ UNCHANGED state => StatesOK'
    /\ HistoryOK /\ UNCHANGED <<historyVars, crashes>> => HistoryOK'
  BY DEF SupervisionTypeOK, CleanupTypeOK, cleanupVars, localVars, TidyRecords, InvocationsOK,
         StatesOK, HistoryOK, historyVars

\* A command that is lost changes the invocation and the count of faults.
LEMMA LostLemma ==
    ASSUME SupervisionTypeOK, InvocationsOK, NEW k \in Clients, Lost(k)
    PROVE  SupervisionTypeOK' /\ InvocationsOK'
  BY GotoLemma, FaultLemma, StayLemma DEF Lost, serverSide, SupervisionTypeOK

\* Every step of an invocation keeps the types: one step of the proof per action.
LEMMA InvocationTypes ==
    ASSUME ClientTypeOK, NEW k \in Clients,
           Start(k) \/ ClientStep(k) \/ ResumeUnanswered(k) \/ Crash(k)
    PROVE  ClientTypeOK'
  <1> USE DEF driveVars, serverSide, cleanupVars, localVars, historyVars, At, Quiet
  <1>1. /\ SupervisionTypeOK /\ CleanupTypeOK /\ InvocationsOK /\ StatesOK /\ HistoryOK
        /\ client[k] \in Invocations /\ client[k].run \in Runs /\ client[k].todo \in SUBSET Runs
        /\ faults \in 0..MaxFaults
        /\ tidy \in [Clients -> TidyRecords] /\ ledger \in [Runs -> Ledgers]
    BY TypeParts, GotoLemma DEF Invocations, SupervisionTypeOK, CleanupTypeOK, TidyRecords
  <1> DEFINE Parts == SupervisionTypeOK' /\ CleanupTypeOK' /\ InvocationsOK' /\ StatesOK' /\ HistoryOK'
  <1> SUFFICES Parts
    BY DEF Parts, ClientTypeOK, InvocationsOK, Invocations, StatesOK, Persistents, HistoryOK
  <1> HIDE DEF Parts
  <1>2. {"off", "ledgers", "ledger", "runs", "local", "local_tidy", "forget_local", "capture",
         "begin", "send", "pending", "healthy", "finish", "waiting", "driving", "read",
         "seen", "confirm", "tidy", "tidying", "complete", "retire", "forget"} \subseteq ClientSteps
        /\ {"finish_pending", "waiting", "seen", "complete"} \subseteq Persisted
        /\ "none" \in Outcomes
    BY DEF ClientSteps, Persisted, Outcomes
  <1>3. CASE Start(k)
    <2>1. [Off EXCEPT !.pc = "ledgers", !.todo = {r \in Runs : ledger[r].written}] \in Invocations
      BY <1>2, IdleLemma DEF Invocations
    <2> QED BY <1>1, <1>3, <2>1, GotoLemma, StayLemma DEF Start, Parts
  <1>4. CASE ResumeLedger(k)
    <2>1. \A r \in client[k].todo, step \in {"ledger", "ledgers"} :
             [client[k] EXCEPT !.todo = @ \ {r}, !.run = r, !.pc = step] \in Invocations
      BY <1>1, <1>2 DEF Invocations
    <2>2. [client[k] EXCEPT !.pc = "runs", !.todo = {r \in Runs : state[r].phase # "none"}] \in Invocations
      BY <1>1, <1>2 DEF Invocations
    <2>3. InvocationsOK'
      <3>1. CASE \E r \in client[k].todo :
                    client' = [client EXCEPT ![k].todo = @ \ {r}, ![k].run = r,
                                  ![k].pc = IF ledger[r].written THEN "ledger" ELSE "ledgers"]
        <4>1. PICK r \in client[k].todo :
                    client' = [client EXCEPT ![k].todo = @ \ {r}, ![k].run = r,
                                  ![k].pc = IF ledger[r].written THEN "ledger" ELSE "ledgers"]
          BY <3>1
        <4> DEFINE step == IF ledger[r].written THEN "ledger" ELSE "ledgers"
        <4>2. client' = [client EXCEPT ![k] = [client[k] EXCEPT !.todo = @ \ {r}, !.run = r, !.pc = step]]
          BY <1>1, <4>1 DEF InvocationsOK
        <4>3. step \in {"ledger", "ledgers"}
          OBVIOUS
        <4> HIDE DEF step
        <4> QED BY <1>1, <2>1, <4>2, <4>3, GotoLemma
      <3>2. CASE client' = [client EXCEPT ![k].pc = "runs",
                                          ![k].todo = {r \in Runs : state[r].phase # "none"}]
        BY <1>1, <2>2, <3>2 DEF InvocationsOK
      <3> QED BY <1>4, <3>1, <3>2 DEF ResumeLedger
    <2>4. tidy' \in [Clients -> TidyRecords]
      BY <1>1, <1>4, LedgerLemma DEF ResumeLedger
    <2> QED BY <1>1, <1>4, <2>3, <2>4, StayLemma DEF ResumeLedger, Parts
  <1>5. CASE LedgerResumed(k)
    BY <1>1, <1>2, <1>5, GotoLemma, LedgerLemma, StayLemma DEF LedgerResumed, Parts
  <1>6. CASE ResumeRun(k)
    <2> SUFFICES InvocationsOK'
      BY <1>1, <1>6, StayLemma DEF ResumeRun, Parts
    <2>1. CASE \E r \in client[k].todo :
                  LET c == [client[k] EXCEPT !.todo = @ \ {r}, !.run = r] IN
                  client' = [client EXCEPT ![k] =
                      CASE state[r].phase = "none" -> c
                        [] state[r].phase = "complete" -> [c EXCEPT !.pc = "local", !.resumes = TRUE]
                        [] OTHER -> [c EXCEPT !.pc = StepOf[state[r].phase], !.resumes = TRUE,
                                              !.verdict = state[r].verdict]]
      <3> PICK r \in client[k].todo :
                  LET c == [client[k] EXCEPT !.todo = @ \ {r}, !.run = r] IN
                  client' = [client EXCEPT ![k] =
                      CASE state[r].phase = "none" -> c
                        [] state[r].phase = "complete" -> [c EXCEPT !.pc = "local", !.resumes = TRUE]
                        [] OTHER -> [c EXCEPT !.pc = StepOf[state[r].phase], !.resumes = TRUE,
                                              !.verdict = state[r].verdict]]
        BY <2>1
      <3> DEFINE c == [client[k] EXCEPT !.todo = @ \ {r}, !.run = r]
      <3>1. c \in Invocations /\ state[r] \in Persistents
        BY <1>1, PersistLemma DEF Invocations
      <3>2. CASE state[r].phase = "none"
        BY <1>1, <3>1, <3>2, GotoLemma
      <3>3. CASE state[r].phase = "complete"
        <4>1. [c EXCEPT !.pc = "local", !.resumes = TRUE] \in Invocations
          BY <1>2, <3>1 DEF Invocations
        <4> QED BY <1>1, <3>3, <4>1, GotoLemma
      <3>4. CASE state[r].phase \in {"finish_pending", "waiting", "seen"}
        <4>1. StepOf[state[r].phase] \in ClientSteps
          BY <1>2, <3>4 DEF StepOf
        <4>2. [c EXCEPT !.pc = StepOf[state[r].phase], !.resumes = TRUE,
                        !.verdict = state[r].verdict] \in Invocations
          BY <3>1, <4>1 DEF Invocations, Persistents
        <4> QED BY <1>1, <3>4, <4>2, GotoLemma
      <3>5. state[r].phase \in {"none", "complete", "finish_pending", "waiting", "seen"}
        BY <3>1 DEF Persistents, Persisted
      <3> QED BY <3>2, <3>3, <3>4, <3>5
    <2>2. CASE client' = [client EXCEPT ![k] = Off] \/ Goto(k, "capture")
      BY <1>1, <1>2, <2>2, GotoLemma, IdleLemma
    <2> QED BY <1>6, <2>1, <2>2 DEF ResumeRun
  <1>7. CASE ResumeUnanswered(k)
    <2>1. \A r \in client[k].todo :
             [client[k] EXCEPT !.todo = @ \ {r}, !.refuses = TRUE] \in Invocations
      BY <1>1 DEF Invocations
    <2>2. InvocationsOK'
      BY <1>1, <1>7, <2>1 DEF ResumeUnanswered, InvocationsOK
    <2> QED BY <1>1, <1>7, <2>2, FaultLemma, StayLemma DEF ResumeUnanswered, Parts
  <1>8. CASE ResumeComplete(k)
    BY <1>1, <1>2, <1>8, GotoLemma, LedgerLemma, StayLemma DEF ResumeComplete, Parts
  <1>9. CASE CompleteResumed(k)
    BY <1>1, <1>2, <1>9, GotoLemma, LedgerLemma, StayLemma DEF CompleteResumed, Parts
  <1>10. CASE ForgetLocally(k)
    BY <1>1, <1>10, GotoLemma, PersistLemma, StayLemma DEF ForgetLocally, Parts, HistoryOK
  <1>11. CASE NewOperation(k)
    <2>1. \A r \in Runs, step \in {"send", "begin"} :
             [client[k] EXCEPT !.run = r, !.pc = step] \in Invocations
      BY <1>1, <1>2 DEF Invocations
    <2>2. CASE \E r \in Runs \ begun :
             /\ Capture(r)
             /\ begun' = begun \cup {r}
             /\ client' = [client EXCEPT ![k].run = r,
                                         ![k].pc = IF r \in Direct THEN "send" ELSE "begin"]
      <3>1. PICK r \in Runs \ begun :
             /\ Capture(r)
             /\ begun' = begun \cup {r}
             /\ client' = [client EXCEPT ![k].run = r,
                                         ![k].pc = IF r \in Direct THEN "send" ELSE "begin"]
        BY <2>2
      <3> DEFINE step == IF r \in Direct THEN "send" ELSE "begin"
      <3>2. client' = [client EXCEPT ![k] = [client[k] EXCEPT !.run = r, !.pc = step]]
        BY <1>1, <3>1 DEF InvocationsOK
      <3>3. step \in {"send", "begin"}
        OBVIOUS
      <3> HIDE DEF step
      <3>4. InvocationsOK'
        BY <1>1, <2>1, <3>2, <3>3, GotoLemma
      <3> QED BY <1>1, <1>11, <3>1, <3>4, LedgerLemma, StayLemma DEF NewOperation, Parts, HistoryOK
    <2>3. CASE client' = [client EXCEPT ![k] = Off] /\ UNCHANGED <<ledger, begun>>
      BY <1>1, <1>11, <2>3, GotoLemma, IdleLemma, StayLemma DEF NewOperation, Parts
    <2> QED BY <1>11, <2>2, <2>3 DEF NewOperation
  <1>12. CASE Begin(k)
    <2>1. CASE Lost(k)
      BY <1>1, <1>12, <2>1, LostLemma, StayLemma DEF Begin, Parts
    <2>2. CASE /\ Server!Upload(client[k].run)
               /\ \/ Goto(k, "send") /\ UNCHANGED faults
                  \/ Fault /\ Fail(k)
               /\ UNCHANGED <<holder, worker, drive>>
      <3>1. SupervisionTypeOK'
        BY <1>1, <2>2, ContractTypes, FaultLemma DEF SupervisionTypeOK
      <3> QED BY <1>1, <1>2, <1>12, <2>2, <3>1, GotoLemma, StayLemma DEF Begin, Parts
    <2> QED BY <1>12, <2>1, <2>2 DEF Begin
  <1>13. CASE Send(k)
    <2>1. InvocationsOK'
      BY <1>1, <1>2, <1>13, GotoLemma DEF Send
    <2>2. SupervisionTypeOK'
      BY <1>1, <1>13, FaultLemma, StayLemma DEF Send
    <2>3. HistoryOK'
      BY <1>1, <1>13 DEF Send, HistoryOK, CleanupTypeOK
    <2> QED BY <1>1, <1>13, <2>1, <2>2, <2>3, StayLemma DEF Send, Parts
  <1>14. CASE PersistPending(k)
    BY <1>1, <1>2, <1>14, GotoLemma, PersistLemma, StayLemma DEF PersistPending, Parts
  <1>15. CASE IsHealthy(k)
    BY <1>1, <1>2, <1>15, GotoLemma, LostLemma, StayLemma DEF IsHealthy, Parts
  <1>16. CASE Finish(k)
    <2>1. CASE Lost(k) /\ UNCHANGED state
      BY <1>1, <1>16, <2>1, LostLemma, StayLemma DEF Finish, Parts
    <2>2. CASE Fail(k) /\ UNCHANGED <<driveVars, state>>
      BY <1>1, <1>16, <2>2, GotoLemma, StayLemma DEF Finish, Parts
    <2>3. CASE /\ Server!Accept(client[k].run) \/ UNCHANGED <<place, imported>>
               /\ \/ Persist(client[k].run, "waiting", "none") /\ Goto(k, "waiting") /\ UNCHANGED faults
                  \/ Fault /\ Fail(k) /\ UNCHANGED state
               /\ UNCHANGED <<holder, worker, drive>>
      <3>1. SupervisionTypeOK'
        BY <1>1, <2>3, ContractTypes, FaultLemma DEF SupervisionTypeOK
      <3>2. InvocationsOK' /\ StatesOK'
        BY <1>1, <1>2, <2>3, GotoLemma, PersistLemma, StayLemma
      <3> QED BY <1>1, <1>16, <3>1, <3>2, StayLemma DEF Finish, Parts
    <2> QED BY <1>16, <2>1, <2>2, <2>3 DEF Finish
  <1>17. CASE DriveToEnd(k)
    <2>1. [NoDrive EXCEPT !.pc = "poll", !.run = client[k].run] \in DriveRecords
      BY <1>1, IdleLemma DEF DriveRecords, DriveSteps
    <2>2. SupervisionTypeOK'
      BY <1>1, <1>17, <2>1 DEF DriveToEnd, StartDrive, SupervisionTypeOK, DriveRecords
    <2> QED BY <1>1, <1>2, <1>17, <2>2, GotoLemma, StayLemma DEF DriveToEnd, Parts
  <1>18. CASE Driven(k)
    <2>1. SupervisionTypeOK'
      BY <1>1, <1>18, IdleLemma DEF Driven, SupervisionTypeOK, DriveRecords
    <2> QED BY <1>1, <1>2, <1>18, <2>1, GotoLemma, StayLemma DEF Driven, Parts
  <1>19. CASE ReadStatus(k)
    <2>1. CASE Lost(k)
      BY <1>1, <1>19, <2>1, LostLemma, StayLemma DEF ReadStatus, Parts
    <2>2. CASE Fail(k) /\ UNCHANGED <<serverSide, worker, drive, faults>>
      BY <1>1, <1>19, <2>2, GotoLemma, StayLemma DEF ReadStatus, Parts
    <2>3. CASE /\ place[client[k].run] \in Server!Verdicts
               /\ client' = [client EXCEPT ![k].verdict = place[client[k].run], ![k].pc = "seen"]
               /\ UNCHANGED <<serverSide, worker, drive, faults>>
      <3>1. [client[k] EXCEPT !.verdict = place[client[k].run], !.pc = "seen"] \in Invocations
        BY <1>1, <1>2, <2>3, PlacesLemma DEF Invocations
      <3>2. InvocationsOK'
        BY <1>1, <2>3, <3>1 DEF InvocationsOK
      <3> QED BY <1>1, <1>19, <2>3, <3>2, StayLemma DEF ReadStatus, Parts
    <2> QED BY <1>19, <2>1, <2>2, <2>3 DEF ReadStatus
  <1>20. CASE PersistSeen(k)
    BY <1>1, <1>2, <1>20, GotoLemma, PersistLemma, StayLemma
       DEF PersistSeen, Parts, Invocations
  <1>21. CASE ConfirmImports(k)
    BY <1>1, <1>2, <1>21, GotoLemma, LedgerLemma, StayLemma DEF ConfirmImports, Authority, Parts
  <1>22. CASE TidyRun(k)
    BY <1>1, <1>2, <1>22, GotoLemma, LedgerLemma, StayLemma DEF TidyRun, Parts
  <1>23. CASE TidyDone(k)
    <2>1. \A full \in BOOLEAN : [client[k] EXCEPT !.pc = "complete", !.clean = full] \in Invocations
      BY <1>1, <1>2 DEF Invocations
    <2>2. [client[k] EXCEPT !.pc = "retire"] \in Invocations
      BY <1>1, <1>2 DEF Invocations
    <2>3. InvocationsOK'
      BY <1>1, <1>23, <2>1, <2>2, IdleLemma DEF TidyDone, Complete, InvocationsOK
    <2> QED BY <1>1, <1>23, <2>3, LedgerLemma, StayLemma DEF TidyDone, Parts
  <1>24. CASE PersistComplete(k)
    BY <1>1, <1>2, <1>24, GotoLemma, PersistLemma, StayLemma DEF PersistComplete, Parts
  <1>25. CASE RetireLedger(k)
    BY <1>1, <1>2, <1>25, GotoLemma, LedgerLemma, StayLemma DEF RetireLedger, Parts
  <1>26. CASE Forget(k)
    BY <1>1, <1>26, GotoLemma, PersistLemma, StayLemma DEF Forget, Parts, HistoryOK
  <1>27. CASE Crash(k)
    <2>1. SupervisionTypeOK'
      BY <1>1, <1>27, IdleLemma, DisownedLemma DEF Crash, SupervisionTypeOK, DriveRecords
    <2>2. crashes' \in 0..MaxCrashes
      BY <1>1, <1>27, DirectAssumption DEF Crash, HistoryOK
    <2> QED BY <1>1, <1>27, <2>1, <2>2, GotoLemma, IdleLemma, LedgerLemma, StayLemma
            DEF Crash, Parts, HistoryOK
  <1> QED BY <1>3, <1>4, <1>5, <1>6, <1>7, <1>8, <1>9, <1>10, <1>11, <1>12, <1>13, <1>14, <1>15,
            <1>16, <1>17, <1>18, <1>19, <1>20, <1>21, <1>22, <1>23, <1>24, <1>25, <1>26, <1>27
         DEF ClientStep

\* Every step of the client, of the server and of the user keeps the types.
LEMMA ClientTypeStep == ClientTypeOK /\ [ClientNext]_clientVars => ClientTypeOK'
  <1> SUFFICES ASSUME ClientTypeOK, [ClientNext]_clientVars PROVE ClientTypeOK'
    OBVIOUS
  <1> USE DEF driveVars, serverSide, cleanupVars, localVars, historyVars, RestOfClient
  <1>1. SupervisionTypeOK /\ CleanupTypeOK
    BY DEF ClientTypeOK
  <1>2. ASSUME NEW k \in Clients, Advances(k) \/ ResumeUnanswered(k) \/ Crash(k) PROVE ClientTypeOK'
    <2>1. CASE Drives(k)
      BY <1>1, <2>1, DriveTypes DEF Drives, ClientTypeOK, CleanupTypeOK
    <2>2. CASE Tidies(k)
      BY <1>1, <2>2, TidyTypes DEF Tidies, ClientTypeOK, SupervisionTypeOK
    <2> QED BY <1>2, <2>1, <2>2, InvocationTypes DEF Advances
  <1>3. CASE ServerActs
    BY <1>1, <1>3, ServerTypes DEF ServerActs, OutOfReach, ClientTypeOK, CleanupTypeOK
  <1>4. CASE UserWrites
    BY <1>1, <1>4, WriteTypes DEF UserWrites, ClientTypeOK, SupervisionTypeOK
  <1>5. CASE UNCHANGED clientVars
    BY <1>1, <1>5 DEF clientVars, ClientTypeOK, SupervisionTypeOK, CleanupTypeOK
  <1> QED BY <1>2, <1>3, <1>4, <1>5 DEF ClientNext

\* The client starts with the right types.
LEMMA ClientTypeInit == ClientInit => ClientTypeOK
  <1> SUFFICES ASSUME ClientInit PROVE ClientTypeOK
    OBVIOUS
  <1>1. SupervisionTypeOK
    BY IdleLemma, PlacesLemma, FaultsAssumption
       DEF ClientInit, SupervisionInit, SupervisionTypeOK, DriveRecords
  <1>2. CleanupTypeOK
    <2>1. 1 \in Versions /\ 0 \in 0..MaxWrites
      BY WritesAssumption DEF Versions
    <2>2. local \in [Files -> {Gone} \cup Versions]
      BY <2>1 DEF ClientInit, CleanupInit
    <2> QED BY <2>1, <2>2, IdleLemma DEF ClientInit, CleanupInit, CleanupTypeOK, TidyRecords
  <1>3. InvocationsOK /\ StatesOK /\ HistoryOK
    BY IdleLemma, DirectAssumption DEF ClientInit, InvocationsOK, StatesOK, HistoryOK
  <1> QED BY <1>1, <1>2, <1>3, TypeParts

\* Every variable of the client keeps its type in every behaviour.
THEOREM ClientTypesCorrect == ClientSpec => []ClientTypeOK
  BY ClientTypeInit, ClientTypeStep, PTL DEF ClientSpec

----------------------------------------------------------------------------
(* The inductive invariant *)

\* A run the client knows of: persisted, or dealt with.
Kept(r) == state[r].phase # "none" \/ r \in settled

\* The steps of an operation up to the transfer, and from there to its end.
Sending == {"begin", "send"}
Sent == {"pending", "healthy", "finish", "waiting", "driving", "read", "seen", "confirm",
         "tidy", "tidying", "complete"}

\* finish-run is sent of known runs only, so that every accepted run is known.
KeptInv ==
    /\ \A r \in Runs : place[r] \notin {"absent", "incoming"} => Kept(r)
    /\ \A k \in Clients : client[k].pc \in {"healthy", "finish"} => Kept(client[k].run)

\* Nothing is older in a ledger than it will be in the source: what the user
\* writes next is a version nobody has seen.
VersionsInv ==
    /\ \A f \in Files : local[f] <= writes + 1
    /\ \A r \in Runs, f \in Files : ledger[r].captured[f] <= writes + 1
    /\ \A k \in Clients, f \in Files : tidy[k].book.captured[f] <= writes + 1

\* What is persisted or under way has been started, and is started only once.
BegunInv ==
    /\ \A r \in Runs : state[r].phase # "none" => r \in begun
    /\ \A k \in Clients : client[k].pc \in Sending \cup Sent => client[k].run \in begun

\* A verdict of done, wherever it is kept, is one of an imported run.
DoneInv ==
    /\ \A r \in Runs : place[r] = "done" \/ state[r].verdict = "done" => r \in imported
    /\ \A k \in Clients : client[k].verdict = "done" =>
          /\ client[k].pc = "seen" => client[k].run \in imported
          /\ client[k].pc = "confirm" => client[k].run \in Direct \cup imported

\* Each captured version was sent with the run, or is not in the source any more.
Vouched(r, book) ==
    \A f \in Files : book.captured[f] # Gone =>
        sent[r][f] = book.captured[f] \/ local[f] # book.captured[f]

Delivered(r) == r \in Direct \cup imported

\* After the transfer the ledger of a run is vouched for, and confirmed only
\* after the delivery.
VouchedInv ==
    /\ \A r \in Runs : state[r].phase # "none" => Vouched(r, ledger[r])
    /\ \A k \in Clients : client[k].pc \in Sent => Vouched(client[k].run, ledger[client[k].run])
    /\ \A r \in Runs : ledger[r].confirmed => Vouched(r, ledger[r]) /\ Delivered(r)
    /\ \A k \in Clients : tidy[k].book.confirmed =>
          Vouched(tidy[k].run, tidy[k].book) /\ Delivered(tidy[k].run)

\* What is being deleted is confirmed, and was seen as it was captured.
TidyInv ==
    \A k \in Clients :
        /\ tidy[k].pc \notin {"idle", "over"} => tidy[k].book.confirmed
        /\ tidy[k].pc = "unlink" => /\ tidy[k].seen = tidy[k].book.captured[tidy[k].file]
                                    /\ tidy[k].seen # Gone

ClientInv == /\ ClientTypeOK /\ KeptInv /\ VersionsInv /\ BegunInv /\ DoneInv
             /\ VouchedInv /\ TidyInv

----------------------------------------------------------------------------
(* What a step of invocation k may do, in four parts *)

OthersStay(k) == \A j \in Clients \ {k} : client'[j] = client[j] /\ tidy'[j] = tidy[j]

\* Where its control may come into an operation: it starts one, resumes one, or goes on.
ControlEffect(k) ==
    \/ client'[k].pc \notin Sending \cup Sent
    \/ client'[k].run \in begun' \ begun /\ client'[k].pc \in Sending
    \/ /\ state[client'[k].run].phase # "none"
       /\ client'[k].verdict = state[client'[k].run].verdict
       /\ client'[k].pc \notin Sending \cup {"healthy", "seen"}
    \/ /\ client[k].pc \in Sending \cup Sent /\ client'[k].run = client[k].run
       /\ client'[k].pc \in Sent => client[k].pc \in Sent \/ sent'[client[k].run] = local
       /\ client'[k].pc \in {"healthy", "finish"} =>
             client[k].pc = "healthy" \/ state'[client[k].run].phase # "none"
       /\ client'[k].pc = "seen" => client'[k].verdict = place[client[k].run]
       /\ client'[k].pc = "confirm" =>
             \/ client[k].pc = "seen" /\ client'[k].verdict = client[k].verdict
             \/ client[k].run \in Direct

\* What is persisted: nothing new, or that a run is over, or how far k is with it.
StateEffect(k) ==
    \A r \in Runs :
        \/ state'[r] = state[r]
        \/ state'[r] = NoState /\ r \in settled'
        \/ /\ r = client[k].run /\ client[k].pc \in Sent
           /\ state'[r].phase # "none"
           /\ state'[r].verdict = "done" => client[k].pc = "seen" /\ client[k].verdict = "done"

\* The ledgers and the deletion: a ledger is retired, captured or confirmed, and read.
BooksEffect(k) ==
    /\ \A r \in Runs :
          \/ ledger'[r] = ledger[r]
          \/ ledger'[r] = NoLedger
          \/ r \notin begun /\ ledger'[r].captured = local /\ ~ledger'[r].confirmed
          \/ /\ ledger'[r].captured = ledger[r].captured
             /\ ledger'[r].confirmed => /\ r = client[k].run /\ client[k].pc = "confirm"
                                        /\ Authority(k)
    /\ \/ tidy'[k] = tidy[k]
       \/ tidy'[k] = NoTidy
       \/ \E r \in Runs : /\ tidy'[k].run = r /\ tidy'[k].book = ledger[r]
                          /\ \/ tidy'[k].pc = "over"
                             \/ tidy'[k].pc = "files" /\ ledger[r].confirmed

\* The source is left alone, the server gets uploads and finish-run, the histories grow.
WorldEffect(k) ==
    /\ UNCHANGED <<localVars, imported>>
    /\ begun \subseteq begun' /\ settled \subseteq settled'
    /\ \A r \in Runs : sent'[r] = sent[r] \/ sent'[r] = local
    /\ \A r \in Runs :
          \/ place'[r] = place[r]
          \/ place'[r] = "incoming"
          \/ place'[r] = "ready" /\ r = client[k].run /\ client[k].pc = "finish"

Effect(k) == OthersStay(k) /\ ControlEffect(k) /\ StateEffect(k) /\ BooksEffect(k) /\ WorldEffect(k)

\* What the ways of going on make of the invocation.
LEMMA ControlLemma ==
    ASSUME InvocationsOK, NEW k \in Clients
    PROVE  /\ \A step : Goto(k, step) =>
                 /\ client'[k].pc = step /\ client'[k].run = client[k].run
                 /\ client'[k].verdict = client[k].verdict
                 /\ \A j \in Clients \ {k} : client'[j] = client[j]
           /\ Fail(k) \/ Over(k) =>
                 /\ client'[k].pc \in {"off", "runs"}
                 /\ client'[k].pc \notin Sending \cup Sent
                 /\ \A j \in Clients \ {k} : client'[j] = client[j]
  <1>1. \A step : Goto(k, step) =>
           /\ client'[k].pc = step /\ client'[k].run = client[k].run
           /\ client'[k].verdict = client[k].verdict
           /\ \A j \in Clients \ {k} : client'[j] = client[j]
    BY DEF InvocationsOK, Invocations, Goto
  <1>2. Off.pc = "off"
    BY IdleLemma
  <1>3. client[k] \in Invocations
    BY DEF InvocationsOK
  <1>4. ASSUME Fail(k) \/ Over(k)
        PROVE  /\ client'[k].pc \in {"off", "runs"}
               /\ \A j \in Clients \ {k} : client'[j] = client[j]
    <2>1. \/ client' = [client EXCEPT ![k] = Off]
          \/ client' = [client EXCEPT ![k] = [client[k] EXCEPT !.pc = "runs", !.refuses = TRUE,
                                                               !.resumes = FALSE]]
          \/ client' = [client EXCEPT ![k] = [client[k] EXCEPT !.pc = "runs", !.resumes = FALSE]]
      BY <1>4 DEF Fail, Over
    <2>2. [client[k] EXCEPT !.pc = "runs", !.refuses = TRUE, !.resumes = FALSE].pc = "runs"
          /\ [client[k] EXCEPT !.pc = "runs", !.resumes = FALSE].pc = "runs"
      BY <1>3 DEF Invocations
    <2> QED BY <1>2, <2>1, <2>2 DEF InvocationsOK
  <1>5. "off" \notin Sending \cup Sent /\ "runs" \notin Sending \cup Sent
    BY DEF Sending, Sent
  <1> QED BY <1>1, <1>4, <1>5

\* What the operations on ledgers and persisted states make of them.
LEMMA BookLemma ==
    ASSUME CleanupTypeOK, StatesOK, NEW k \in Clients, NEW r \in Runs
    PROVE  /\ Capture(r) \/ Retire(r) \/ (\E imports \in BOOLEAN : Confirm(r, imports)) =>
                 \A q \in Runs \ {r} : ledger'[q] = ledger[q]
           /\ Capture(r) => ledger'[r].captured = local /\ ~ledger'[r].confirmed /\ ledger'[r].written
           /\ Retire(r) => ledger'[r] = NoLedger
           /\ \A imports \in BOOLEAN : Confirm(r, imports) =>
                 /\ ledger'[r].captured = ledger[r].captured /\ ledger'[r].confirmed = imports
                 /\ ledger'[r].written
           /\ TidyUp(k, r) =>
                 /\ \A j \in Clients \ {k} : tidy'[j] = tidy[j]
                 /\ tidy'[k].run = r /\ tidy'[k].book = ledger[r]
                 /\ tidy'[k].pc = IF ledger[r].confirmed THEN "files" ELSE "over"
           /\ \A phase, verdict : Persist(r, phase, verdict) =>
                 /\ \A q \in Runs \ {r} : state'[q] = state[q]
                 /\ state'[r].phase = phase /\ state'[r].verdict = verdict
  <1>1. tidy \in [Clients -> TidyRecords] /\ ledger \in [Runs -> Ledgers]
        /\ local \in [Files -> {Gone} \cup Versions]
    BY DEF CleanupTypeOK, TidyRecords
  <1>2. Capture(r) => ledger'[r].captured = local /\ ~ledger'[r].confirmed /\ ledger'[r].written
    BY <1>1, IdleLemma DEF Capture, Ledgers
  <1>3. \A imports \in BOOLEAN : Confirm(r, imports) =>
            /\ ledger'[r].captured = ledger[r].captured /\ ledger'[r].confirmed = imports
            /\ ledger'[r].written
    BY <1>1 DEF Confirm, Ledgers
  <1>4. TidyUp(k, r) =>
            /\ \A j \in Clients \ {k} : tidy'[j] = tidy[j]
            /\ tidy'[k].run = r /\ tidy'[k].book = ledger[r]
            /\ tidy'[k].pc = IF ledger[r].confirmed THEN "files" ELSE "over"
    BY <1>1, IdleLemma DEF TidyUp, TidyRecords
  <1>5. \A phase, verdict : Persist(r, phase, verdict) =>
            /\ \A q \in Runs \ {r} : state'[q] = state[q]
            /\ state'[r].phase = phase /\ state'[r].verdict = verdict
    BY DEF Persist, StatesOK
  <1>6. Retire(r) => ledger'[r] = NoLedger
    BY <1>1 DEF Retire
  <1>7. Capture(r) \/ Retire(r) \/ (\E imports \in BOOLEAN : Confirm(r, imports)) =>
            \A q \in Runs \ {r} : ledger'[q] = ledger[q]
    BY <1>1 DEF Capture, Retire, Confirm
  <1> QED BY <1>2, <1>3, <1>4, <1>5, <1>6, <1>7

\* Where the steps that choose the next run leave the invocation.
LEMMA ChoiceLemma ==
    ASSUME ClientTypeOK, NEW k \in Clients
    PROVE  /\ Start(k) \/ ResumeLedger(k) \/ ResumeRun(k) \/ ResumeUnanswered(k) \/ NewOperation(k) =>
                 \A j \in Clients \ {k} : client'[j] = client[j]
           /\ Start(k) => client'[k].pc = "ledgers"
           /\ ResumeLedger(k) => client'[k].pc \in {"ledger", "ledgers", "runs"}
           /\ ResumeRun(k) =>
                 \/ client'[k].pc \in {"runs", "off", "capture"}
                 \/ client'[k].pc = "local" /\ state[client'[k].run].phase = "complete"
                 \/ /\ client'[k].pc \in {"finish", "waiting", "confirm"}
                    /\ state[client'[k].run].phase \in {"finish_pending", "waiting", "seen"}
                    /\ client'[k].verdict = state[client'[k].run].verdict
           /\ ResumeUnanswered(k) => client'[k].pc = "runs"
           /\ NewOperation(k) =>
                 \/ client'[k].pc = "off" /\ UNCHANGED <<ledger, begun>>
                 \/ /\ client'[k].run \in Runs \ begun /\ client'[k].pc \in {"send", "begin"}
                    /\ begun' = begun \cup {client'[k].run}
                    /\ Capture(client'[k].run)
  <1>1. InvocationsOK /\ client[k] \in Invocations /\ StatesOK
    BY TypeParts, GotoLemma
  <1> DEFINE Others == \A j \in Clients \ {k} : client'[j] = client[j]
  <1>2. ASSUME Start(k) PROVE Others /\ client'[k].pc = "ledgers"
    BY <1>1, <1>2, IdleLemma DEF Start, InvocationsOK, Invocations
  <1>3. ASSUME ResumeLedger(k) PROVE Others /\ client'[k].pc \in {"ledger", "ledgers", "runs"}
    <2>1. ASSUME NEW r \in client[k].todo, NEW step,
                 client' = [client EXCEPT ![k].todo = @ \ {r}, ![k].run = r, ![k].pc = step]
          PROVE  client'[k].pc = step /\ Others
      BY <1>1, <2>1 DEF InvocationsOK, Invocations
    <2>2. ASSUME NEW todo, client' = [client EXCEPT ![k].pc = "runs", ![k].todo = todo]
          PROVE  client'[k].pc = "runs" /\ Others
      BY <1>1, <2>2 DEF InvocationsOK, Invocations
    <2> QED BY <1>3, <2>1, <2>2 DEF ResumeLedger
  <1>4. ASSUME ResumeRun(k)
        PROVE  /\ Others
               /\ \/ client'[k].pc \in {"runs", "off", "capture"}
                  \/ client'[k].pc = "local" /\ state[client'[k].run].phase = "complete"
                  \/ /\ client'[k].pc \in {"finish", "waiting", "confirm"}
                     /\ state[client'[k].run].phase \in {"finish_pending", "waiting", "seen"}
                     /\ client'[k].verdict = state[client'[k].run].verdict
    <2>1. CASE client' = [client EXCEPT ![k] = Off] \/ Goto(k, "capture")
      BY <1>1, <2>1, ControlLemma, IdleLemma DEF InvocationsOK
    <2>2. CASE \E r \in client[k].todo :
                  LET c == [client[k] EXCEPT !.todo = @ \ {r}, !.run = r] IN
                  client' = [client EXCEPT ![k] =
                      CASE state[r].phase = "none" -> c
                        [] state[r].phase = "complete" -> [c EXCEPT !.pc = "local", !.resumes = TRUE]
                        [] OTHER -> [c EXCEPT !.pc = StepOf[state[r].phase], !.resumes = TRUE,
                                              !.verdict = state[r].verdict]]
      <3> PICK r \in client[k].todo :
                  LET c == [client[k] EXCEPT !.todo = @ \ {r}, !.run = r] IN
                  client' = [client EXCEPT ![k] =
                      CASE state[r].phase = "none" -> c
                        [] state[r].phase = "complete" -> [c EXCEPT !.pc = "local", !.resumes = TRUE]
                        [] OTHER -> [c EXCEPT !.pc = StepOf[state[r].phase], !.resumes = TRUE,
                                              !.verdict = state[r].verdict]]
        BY <2>2
      <3> DEFINE c == [client[k] EXCEPT !.todo = @ \ {r}, !.run = r]
      <3>1. c \in Invocations /\ c.pc = "runs" /\ c.run = r /\ r \in Runs
        BY <1>1, <1>4 DEF ResumeRun, At, Invocations
      <3>2. CASE state[r].phase = "none"
        BY <1>1, <3>1, <3>2 DEF InvocationsOK
      <3>3. CASE state[r].phase = "complete"
        <4>1. [c EXCEPT !.pc = "local", !.resumes = TRUE].pc = "local"
              /\ [c EXCEPT !.pc = "local", !.resumes = TRUE].run = r
          BY <3>1 DEF Invocations
        <4> QED BY <1>1, <3>3, <4>1 DEF InvocationsOK
      <3>4. CASE state[r].phase \in {"finish_pending", "waiting", "seen"}
        <4> DEFINE d == [c EXCEPT !.pc = StepOf[state[r].phase], !.resumes = TRUE,
                                  !.verdict = state[r].verdict]
        <4>1. d.pc = StepOf[state[r].phase] /\ d.run = r /\ d.verdict = state[r].verdict
          BY <3>1 DEF Invocations
        <4>2. StepOf[state[r].phase] \in {"finish", "waiting", "confirm"}
          BY <3>4 DEF StepOf
        <4>3. client'[k] = d /\ Others
          BY <1>1, <3>4 DEF InvocationsOK
        <4> HIDE DEF d, Others
        <4> QED BY <3>4, <4>1, <4>2, <4>3
      <3>5. state[r].phase \in {"none", "complete", "finish_pending", "waiting", "seen"}
        BY <1>1, <3>1 DEF StatesOK, Persistents, Persisted
      <3> HIDE DEF c
      <3> QED BY <3>2, <3>3, <3>4, <3>5
    <2> QED BY <1>4, <2>1, <2>2 DEF ResumeRun
  <1>5. ASSUME ResumeUnanswered(k) PROVE Others /\ client'[k].pc = "runs"
    BY <1>1, <1>5 DEF ResumeUnanswered, At, InvocationsOK, Invocations
  <1>6. ASSUME NewOperation(k)
        PROVE  /\ Others
               /\ \/ client'[k].pc = "off" /\ UNCHANGED <<ledger, begun>>
                  \/ /\ client'[k].run \in Runs \ begun /\ client'[k].pc \in {"send", "begin"}
                     /\ begun' = begun \cup {client'[k].run}
                     /\ Capture(client'[k].run)
    <2>1. ASSUME NEW r \in Runs, NEW step, client' = [client EXCEPT ![k].run = r, ![k].pc = step]
          PROVE  client'[k].run = r /\ client'[k].pc = step /\ Others
      BY <1>1, <2>1 DEF InvocationsOK, Invocations
    <2>2. ASSUME client' = [client EXCEPT ![k] = Off] PROVE client'[k].pc = "off" /\ Others
      BY <1>1, <2>2, IdleLemma DEF InvocationsOK
    <2>3. CASE \E r \in Runs \ begun :
             /\ Capture(r)
             /\ begun' = begun \cup {r}
             /\ client' = [client EXCEPT ![k].run = r,
                                         ![k].pc = IF r \in Direct THEN "send" ELSE "begin"]
      BY <2>1, <2>3
    <2> QED BY <1>6, <2>2, <2>3 DEF NewOperation
  <1> QED BY <1>2, <1>3, <1>4, <1>5, <1>6

\* Every step of an invocation has one of these effects: one step of the proof per action.
LEMMA EffectLemma ==
    ASSUME ClientTypeOK, NEW k \in Clients,
           Start(k) \/ ClientStep(k) \/ ResumeUnanswered(k) \/ Crash(k)
    PROVE  Effect(k)
  <1> USE DEF driveVars, serverSide, cleanupVars, localVars, historyVars, At, Quiet, Lost
  <1>1. /\ InvocationsOK /\ client[k] \in Invocations
        /\ CleanupTypeOK /\ StatesOK /\ HistoryOK
        /\ client[k].run \in Runs
        /\ place \in [Runs -> Server!Places]
        /\ tidy \in [Clients -> TidyRecords] /\ ledger \in [Runs -> Ledgers]
    BY TypeParts, GotoLemma DEF Invocations, SupervisionTypeOK, CleanupTypeOK, TidyRecords
  <1>2. CASE Start(k)
    BY <1>1, <1>2, ChoiceLemma
       DEF Start, Effect, OthersStay, ControlEffect, StateEffect, BooksEffect, WorldEffect,
           Sending, Sent
  <1>3. CASE ResumeLedger(k)
    <2>1. BooksEffect(k) /\ \A j \in Clients \ {k} : tidy'[j] = tidy[j]
      <3>1. CASE tidy' = tidy
        BY <1>3, <3>1 DEF ResumeLedger, BooksEffect
      <3>2. CASE \E r \in client[k].todo : TidyUp(k, r)
        <4>1. PICK r \in Runs : TidyUp(k, r)
          BY <1>1, <3>2 DEF Invocations
        <4>2. \E q \in Runs : /\ tidy'[k].run = q /\ tidy'[k].book = ledger[q]
                              /\ \/ tidy'[k].pc = "over"
                                 \/ tidy'[k].pc = "files" /\ ledger[q].confirmed
          BY <1>1, <4>1, BookLemma
        <4>3. \A j \in Clients \ {k} : tidy'[j] = tidy[j]
          BY <1>1, <4>1, BookLemma
        <4> QED BY <1>3, <4>2, <4>3 DEF ResumeLedger, BooksEffect
      <3> QED BY <1>3, <3>1, <3>2 DEF ResumeLedger
    <2> QED BY <1>1, <1>3, <2>1, ChoiceLemma
            DEF ResumeLedger, Effect, OthersStay, ControlEffect, StateEffect, WorldEffect,
                Sending, Sent
  <1>4. CASE LedgerResumed(k)
    BY <1>1, <1>4, ControlLemma, BookLemma, IdleLemma
       DEF LedgerResumed, Effect, OthersStay, ControlEffect, StateEffect, BooksEffect, WorldEffect,
           Sending, Sent, Invocations, InvocationsOK, StatesOK, Persistents, HistoryOK
  <1>5. CASE ResumeRun(k)
    BY <1>1, <1>5, ChoiceLemma
       DEF ResumeRun, Effect, OthersStay, ControlEffect, StateEffect, BooksEffect, WorldEffect,
           Sending, Sent
  <1>6. CASE ResumeUnanswered(k)
    BY <1>1, <1>6, ChoiceLemma
       DEF ResumeUnanswered, Effect, OthersStay, ControlEffect, StateEffect, BooksEffect, WorldEffect,
           Sending, Sent
  <1>7. CASE ResumeComplete(k)
    BY <1>1, <1>7, ControlLemma, BookLemma, IdleLemma
       DEF ResumeComplete, Effect, OthersStay, ControlEffect, StateEffect, BooksEffect, WorldEffect,
           Sending, Sent, Invocations, InvocationsOK, StatesOK, Persistents, HistoryOK
  <1>8. CASE CompleteResumed(k)
    BY <1>1, <1>8, ControlLemma, BookLemma, IdleLemma
       DEF CompleteResumed, Effect, OthersStay, ControlEffect, StateEffect, BooksEffect, WorldEffect,
           Sending, Sent, Invocations, InvocationsOK, StatesOK, Persistents, HistoryOK
  <1>9. CASE ForgetLocally(k)
    BY <1>1, <1>9, ControlLemma, BookLemma, IdleLemma
       DEF ForgetLocally, Effect, OthersStay, ControlEffect, StateEffect, BooksEffect, WorldEffect,
           Sending, Sent, Invocations, InvocationsOK, StatesOK, Persistents, HistoryOK
  <1>10. CASE NewOperation(k)
    <2>1. CASE client'[k].pc = "off" /\ UNCHANGED <<ledger, begun>>
      BY <1>1, <1>10, <2>1, ChoiceLemma
         DEF NewOperation, Effect, OthersStay, ControlEffect, StateEffect, BooksEffect, WorldEffect,
             Sending, Sent
    <2>2. CASE /\ client'[k].run \in Runs \ begun /\ client'[k].pc \in {"send", "begin"}
               /\ begun' = begun \cup {client'[k].run}
               /\ Capture(client'[k].run)
      <3>1. BooksEffect(k)
        BY <1>1, <1>10, <2>2, BookLemma DEF NewOperation, BooksEffect
      <3>2. ControlEffect(k)
        BY <2>2 DEF ControlEffect, Sending
      <3> QED BY <1>10, <2>2, <3>1, <3>2, ChoiceLemma
              DEF NewOperation, Effect, OthersStay, StateEffect, WorldEffect
    <2> QED BY <1>10, <2>1, <2>2, ChoiceLemma
  <1>11. CASE Begin(k)
    <2>1. place' = place \/ place' = [place EXCEPT ![client[k].run] = "incoming"]
      BY <1>11 DEF Begin, Server!Upload, Server!Move
    <2>2. imported' = imported
      BY <1>11 DEF Begin, Server!Upload, Server!Move
    <2> QED BY <1>1, <1>11, <2>1, <2>2, ControlLemma
            DEF Begin, Effect, OthersStay, ControlEffect, StateEffect, BooksEffect, WorldEffect,
                Sending, Sent
  <1>12. CASE Send(k)
    BY <1>1, <1>12, ControlLemma, BookLemma, IdleLemma
       DEF Send, Effect, OthersStay, ControlEffect, StateEffect, BooksEffect, WorldEffect,
           Sending, Sent, Invocations, InvocationsOK, StatesOK, Persistents, HistoryOK
  <1>13. CASE PersistPending(k)
    BY <1>1, <1>13, ControlLemma, BookLemma, IdleLemma
       DEF PersistPending, Effect, OthersStay, ControlEffect, StateEffect, BooksEffect, WorldEffect,
           Sending, Sent, Invocations, InvocationsOK, StatesOK, Persistents, HistoryOK
  <1>14. CASE IsHealthy(k)
    BY <1>1, <1>14, ControlLemma, BookLemma, IdleLemma
       DEF IsHealthy, Effect, OthersStay, ControlEffect, StateEffect, BooksEffect, WorldEffect,
           Sending, Sent, Invocations, InvocationsOK, StatesOK, Persistents, HistoryOK
  <1>15. CASE Finish(k)
    <2>1. place' = place \/ place' = [place EXCEPT ![client[k].run] = "ready"]
      BY <1>15 DEF Finish, Server!Accept, Server!Move
    <2>2. imported' = imported
      BY <1>15 DEF Finish, Server!Accept, Server!Move
    <2>3. WorldEffect(k)
      BY <1>1, <1>15, <2>1, <2>2 DEF Finish, WorldEffect
    <2> QED BY <1>1, <1>15, <2>3, ControlLemma, BookLemma
            DEF Finish, Effect, OthersStay, ControlEffect, StateEffect, BooksEffect, Sending, Sent
  <1>16. CASE DriveToEnd(k)
    BY <1>1, <1>16, ControlLemma, BookLemma, IdleLemma
       DEF DriveToEnd, Effect, OthersStay, ControlEffect, StateEffect, BooksEffect, WorldEffect,
           Sending, Sent, Invocations, InvocationsOK, StatesOK, Persistents, HistoryOK
  <1>17. CASE Driven(k)
    BY <1>1, <1>17, ControlLemma, BookLemma, IdleLemma
       DEF Driven, Effect, OthersStay, ControlEffect, StateEffect, BooksEffect, WorldEffect,
           Sending, Sent, Invocations, InvocationsOK, StatesOK, Persistents, HistoryOK
  <1>18. CASE ReadStatus(k)
    BY <1>1, <1>18, ControlLemma, BookLemma, IdleLemma
       DEF ReadStatus, Effect, OthersStay, ControlEffect, StateEffect, BooksEffect, WorldEffect,
           Sending, Sent, Invocations, InvocationsOK, StatesOK, Persistents, HistoryOK
  <1>19. CASE PersistSeen(k)
    BY <1>1, <1>19, ControlLemma, BookLemma, IdleLemma
       DEF PersistSeen, Effect, OthersStay, ControlEffect, StateEffect, BooksEffect, WorldEffect,
           Sending, Sent, Invocations, InvocationsOK, StatesOK, Persistents, HistoryOK
  <1>20. CASE ConfirmImports(k)
    <2>1. Authority(k) \in BOOLEAN
      BY DEF Authority
    <2> QED BY <1>1, <1>20, <2>1, ControlLemma, BookLemma
            DEF ConfirmImports, Effect, OthersStay, ControlEffect, StateEffect, BooksEffect, WorldEffect,
                Sending, Sent
  <1>21. CASE TidyRun(k)
    BY <1>1, <1>21, ControlLemma, BookLemma, IdleLemma
       DEF TidyRun, Effect, OthersStay, ControlEffect, StateEffect, BooksEffect, WorldEffect,
           Sending, Sent, Invocations, InvocationsOK, StatesOK, Persistents, HistoryOK
  <1>22. CASE TidyDone(k)
    BY <1>1, <1>22, ControlLemma, BookLemma, IdleLemma
       DEF TidyDone, Effect, OthersStay, ControlEffect, StateEffect, BooksEffect, WorldEffect,
           Sending, Sent, Invocations, InvocationsOK, StatesOK, Persistents, HistoryOK
  <1>23. CASE PersistComplete(k)
    BY <1>1, <1>23, ControlLemma, BookLemma, IdleLemma
       DEF PersistComplete, Effect, OthersStay, ControlEffect, StateEffect, BooksEffect, WorldEffect,
           Sending, Sent, Invocations, InvocationsOK, StatesOK, Persistents, HistoryOK
  <1>24. CASE RetireLedger(k)
    BY <1>1, <1>24, ControlLemma, BookLemma, IdleLemma
       DEF RetireLedger, Effect, OthersStay, ControlEffect, StateEffect, BooksEffect, WorldEffect,
           Sending, Sent, Invocations, InvocationsOK, StatesOK, Persistents, HistoryOK
  <1>25. CASE Forget(k)
    BY <1>1, <1>25, ControlLemma, BookLemma, IdleLemma
       DEF Forget, Effect, OthersStay, ControlEffect, StateEffect, BooksEffect, WorldEffect,
           Sending, Sent, Invocations, InvocationsOK, StatesOK, Persistents, HistoryOK
  <1>26. CASE Crash(k)
    BY <1>1, <1>26, ControlLemma, BookLemma, IdleLemma
       DEF Crash, Effect, OthersStay, ControlEffect, StateEffect, BooksEffect, WorldEffect,
           Sending, Sent, Invocations, InvocationsOK, StatesOK, Persistents, HistoryOK
  <1> QED BY <1>2, <1>3, <1>4, <1>5, <1>6, <1>7, <1>8, <1>9, <1>10, <1>11, <1>12, <1>13, <1>14, <1>15, <1>16, <1>17, <1>18, <1>19, <1>20, <1>21, <1>22, <1>23, <1>24, <1>25, <1>26 DEF ClientStep

\* What a step of the deletion by invocation k may do.
TidyEffect(k) ==
    /\ \A j \in Clients \ {k} : tidy'[j] = tidy[j]
    /\ \A f \in Files : local'[f] = local[f] \/ local'[f] = Gone
    /\ tidy'[k].run = tidy[k].run
    /\ tidy'[k].book.captured = tidy[k].book.captured
    /\ tidy'[k].book.confirmed = tidy[k].book.confirmed
    /\ tidy'[k].book.written = tidy[k].book.written
    /\ tidy[k].pc \notin {"idle", "over"}
    /\ tidy'[k].pc = "unlink" => /\ tidy'[k].seen = tidy[k].book.captured[tidy'[k].file]
                                 /\ tidy'[k].seen # Gone
    /\ \A r \in Runs : ledger'[r] # ledger[r] => r = tidy[k].run /\ ledger'[r] = tidy'[k].book
    /\ UNCHANGED writes

\* Every step of the deletion has this effect.
LEMMA TidyEffectLemma ==
    ASSUME CleanupTypeOK, NEW k \in Clients, TidyStep(k)
    PROVE  TidyEffect(k)
  <1>1. tidy \in [Clients -> TidyRecords] /\ tidy[k] \in TidyRecords /\ ledger \in [Runs -> Ledgers]
        /\ local \in [Files -> {Gone} \cup Versions]
    BY DEF CleanupTypeOK, TidyRecords
  <1>2. CASE TryClean(k)
    <2>1. PICK f \in tidy[k].todo :
             tidy' = [tidy EXCEPT ![k].todo = @ \ {f}, ![k].file = f, ![k].seen = local[f],
                                  ![k].pc = IF local[f] = Gone THEN "mark"
                                            ELSE IF local[f] = tidy[k].book.captured[f] THEN "unlink"
                                            ELSE "files"]
      BY <1>2 DEF TryClean
    <2>2. /\ \A j \in Clients \ {k} : tidy'[j] = tidy[j]
          /\ tidy'[k].run = tidy[k].run /\ tidy'[k].book = tidy[k].book
          /\ tidy'[k].file = f /\ tidy'[k].seen = local[f]
          /\ tidy'[k].pc = "unlink" => local[f] # Gone /\ local[f] = tidy[k].book.captured[f]
      BY <1>1, <2>1 DEF TidyRecords
    <2> QED BY <1>2, <2>2 DEF TryClean, TidyEffect, localVars
  <1>3. ASSUME NEW step, TidyGoto(k, step)
        PROVE  /\ \A j \in Clients \ {k} : tidy'[j] = tidy[j]
               /\ tidy'[k].run = tidy[k].run /\ tidy'[k].book = tidy[k].book /\ tidy'[k].pc = step
    BY <1>1, <1>3 DEF TidyGoto, TidyRecords
  <1>4. CASE Unlink(k)
    BY <1>1, <1>3, <1>4 DEF Unlink, TidyEffect
  <1>5. ASSUME NEW item, NEW step, Marked(k, item, step)
        PROVE  /\ \A j \in Clients \ {k} : tidy'[j] = tidy[j]
               /\ tidy'[k].run = tidy[k].run /\ tidy'[k].pc = step
               /\ tidy'[k].book.captured = tidy[k].book.captured
               /\ tidy'[k].book.confirmed = tidy[k].book.confirmed
               /\ tidy'[k].book.written = tidy[k].book.written
               /\ \A r \in Runs : ledger'[r] # ledger[r] => r = tidy[k].run /\ ledger'[r] = tidy'[k].book
               /\ UNCHANGED localVars
    <2> DEFINE book == [tidy[k].book EXCEPT !.cleaned = @ \cup {item}]
    <2>1. /\ tidy' = [tidy EXCEPT ![k].book = book, ![k].pc = step]
          /\ ledger' = [ledger EXCEPT ![tidy[k].run] = book]
      BY <1>5 DEF Marked
    <2>2. /\ book.captured = tidy[k].book.captured /\ book.confirmed = tidy[k].book.confirmed
          /\ book.written = tidy[k].book.written
      BY <1>1 DEF TidyRecords, Ledgers
    <2> HIDE DEF book
    <2>3. /\ \A j \in Clients \ {k} : tidy'[j] = tidy[j]
          /\ tidy'[k].run = tidy[k].run /\ tidy'[k].pc = step /\ tidy'[k].book = book
      BY <1>1, <2>1 DEF TidyRecords
    <2> QED BY <1>1, <1>5, <2>1, <2>2, <2>3 DEF Marked
  <1>6. CASE Mark(k)
    BY <1>5, <1>6 DEF Mark, TidyEffect, localVars
  <1>7. CASE TidyDirectory(k)
    BY <1>3, <1>7 DEF TidyDirectory, TidyEffect
  <1>8. CASE MarkDirectory(k)
    BY <1>5, <1>8 DEF MarkDirectory, TidyEffect, localVars
  <1> QED BY <1>2, <1>4, <1>6, <1>7, <1>8 DEF TidyStep

\* What the server may do while a client is not looking: it accepts nothing by itself
\* and says of nothing that it is done but after an import.
Onward ==
    /\ imported \subseteq imported'
    /\ \A r \in Runs :
          /\ place'[r] = "done" => place[r] = "done" \/ r \in imported'
          /\ place'[r] \notin {"absent", "incoming"} => place[r] \notin {"absent", "incoming"}

\* The server, its processors, its collector and the drive go onward.
LEMMA OnwardLemma ==
    ASSUME SupervisionTypeOK, ServerStep \/ \E k \in Clients : DriveStep(k)
    PROVE  Onward
  <1> USE DEF serverSide
  <1>1. ASSUME UNCHANGED <<place, imported>> PROVE Onward
    BY <1>1 DEF Onward
  <1>2. CASE \E k \in Clients : DriveStep(k)
    BY <1>1, <1>2 DEF DriveStep, Poll, Probe, Check, FreshLook, FreshProbe, Judge
  <1>3. ASSUME NEW r \in Runs, NEW a, NEW b, Server!Move(r, a, b),
               a \cap {"absent", "incoming"} = {} \/ b \in {"absent", "incoming"},
               b = "done" => r \in imported
        PROVE  Onward
    BY <1>3 DEF Server!Move, Onward, SupervisionTypeOK
  <1>4. ASSUME NEW r \in Runs,
               Server!Claim(r) \/ Server!Expire(r) \/ Server!LoseStatus(r) \/ Server!Collect(r)
        PROVE  Onward
    BY <1>3, <1>4 DEF Server!Claim, Server!Expire, Server!LoseStatus, Server!Collect, Server!Verdicts
  <1>5. ASSUME NEW r \in Runs, NEW verdict, Server!End(r, verdict) PROVE Onward
    BY <1>3, <1>5 DEF Server!End
  <1>6. ASSUME NEW r \in Runs, Server!Import(r) PROVE Onward
    BY <1>6 DEF Server!Import, Onward
  <1>7. \A k \in Clients : drive[k].run \in Runs
    BY DriveLemma DEF DriveRecords
  <1>8. ASSUME NEW k \in Clients, WorkerArrives(k) \/ WorkerEnds(k) \/ ConnectionLost(k) PROVE Onward
    BY <1>1, <1>4, <1>5, <1>7, <1>8 DEF WorkerArrives, WorkerEnds, ConnectionLost, Take
  <1>9. ASSUME NEW r \in Runs, Imports(r) \/ OtherLocks(r) \/ OtherClaims(r) \/ OtherEnds(r)
                                  \/ OtherDies(r) \/ Collects(r)
        PROVE  Onward
    BY <1>1, <1>4, <1>5, <1>6, <1>9
       DEF Imports, OtherLocks, OtherClaims, OtherEnds, OtherDies, Collects
  <1> QED BY <1>2, <1>8, <1>9 DEF ServerStep

ServerKind == Onward /\ UNCHANGED <<cleanupVars, client, state, historyVars>>
UserKind == (\E f \in Files : Write(f)) /\ UNCHANGED <<driveVars, client, state, historyVars>>
TidyKind(k) == TidyEffect(k) /\ UNCHANGED <<driveVars, client, state, historyVars>>

\* The steps of an invocation itself.
Invocation(k) == Start(k) \/ ClientStep(k) \/ ResumeUnanswered(k) \/ Crash(k)

\* Every step is of one of four kinds.
LEMMA KindsLemma ==
    ASSUME ClientTypeOK, [ClientNext]_clientVars
    PROVE  \/ ServerKind \/ UserKind
           \/ \E k \in Clients : TidyKind(k) \/ (Effect(k) /\ Invocation(k))
  <1> USE DEF driveVars, serverSide, cleanupVars, localVars, historyVars, RestOfClient
  <1>1. SupervisionTypeOK /\ CleanupTypeOK
    BY DEF ClientTypeOK
  <1>2. ASSUME NEW k \in Clients, Advances(k) \/ ResumeUnanswered(k) \/ Crash(k)
        PROVE  ServerKind \/ TidyKind(k) \/ (Effect(k) /\ Invocation(k))
    <2>1. CASE Drives(k)
      BY <1>1, <2>1, OnwardLemma DEF Drives, ServerKind
    <2>2. CASE Tidies(k)
      BY <1>1, <2>2, TidyEffectLemma DEF Tidies, TidyKind
    <2> QED BY <1>2, <2>1, <2>2, EffectLemma DEF Advances, Invocation
  <1>3. CASE ServerActs
    BY <1>1, <1>3, OnwardLemma DEF ServerActs, OutOfReach, ServerKind
  <1>4. CASE UserWrites
    BY <1>4 DEF UserWrites, UserKind
  <1>5. CASE UNCHANGED clientVars
    BY <1>5 DEF clientVars, ServerKind, Onward
  <1> QED BY <1>2, <1>3, <1>4, <1>5 DEF ClientNext

----------------------------------------------------------------------------
(* Every kind of step keeps the invariant *)

\* What is known stays known, and finish-run is sent of nothing else.
LEMMA KeptStep ==
    ASSUME ClientTypeOK, ClientTypeOK', KeptInv,
           ServerKind \/ UserKind \/ \E k \in Clients : TidyKind(k) \/ Effect(k)
    PROVE  KeptInv'
  <1>1. CASE ServerKind
    BY <1>1 DEF ServerKind, Onward, KeptInv, Kept, historyVars
  <1>2. CASE UserKind \/ \E k \in Clients : TidyKind(k)
    BY <1>2 DEF UserKind, TidyKind, KeptInv, Kept, historyVars, driveVars, serverSide
  <1>3. ASSUME NEW k \in Clients, Effect(k) PROVE KeptInv'
    <2>1. \A r \in Runs : Kept(r) => Kept(r)'
      BY <1>3 DEF Effect, StateEffect, WorldEffect, Kept
    <2>2. \A j \in Clients : client[j].run \in Runs /\ client'[j].run \in Runs
      BY DEF ClientTypeOK
    <2>3. ASSUME NEW r \in Runs, place'[r] \notin {"absent", "incoming"} PROVE Kept(r)'
      BY <1>3, <2>1, <2>3 DEF Effect, WorldEffect, KeptInv
    <2>4. ASSUME NEW j \in Clients, client'[j].pc \in {"healthy", "finish"} PROVE Kept(client[j].run)'
      <3>1. CASE j # k
        BY <1>3, <2>1, <2>2, <2>4, <3>1 DEF Effect, OthersStay, KeptInv
      <3>2. CASE j = k
        <4>1. CASE state[client'[k].run].phase # "none"
          BY <1>3, <2>1, <2>2, <2>4, <3>2, <4>1 DEF Effect, StateEffect, Kept
        <4>2. CASE /\ client[k].pc \in Sending \cup Sent /\ client'[k].run = client[k].run
                   /\ client[k].pc = "healthy" \/ state'[client[k].run].phase # "none"
          BY <2>1, <2>2, <3>2, <4>2 DEF KeptInv, Kept
        <4> QED BY <1>3, <2>4, <3>2, <4>1, <4>2 DEF Effect, ControlEffect, Sending, Sent
      <3> QED BY <3>1, <3>2
    <2> QED BY <2>3, <2>4 DEF KeptInv
  <1> QED BY <1>1, <1>2, <1>3

\* Nothing older gets newer.
LEMMA VersionsStep ==
    ASSUME ClientTypeOK, VersionsInv,
           ServerKind \/ UserKind \/ \E k \in Clients : TidyKind(k) \/ Effect(k)
    PROVE  VersionsInv'
  <1> USE DEF Gone
  <1>1. /\ writes \in Nat /\ local \in [Files -> {Gone} \cup Versions]
        /\ ledger \in [Runs -> Ledgers] /\ tidy \in [Clients -> TidyRecords]
    BY WritesAssumption DEF ClientTypeOK, CleanupTypeOK, TidyRecords
  <1>2. CASE ServerKind
    BY <1>2 DEF ServerKind, VersionsInv, cleanupVars, localVars
  <1>3. CASE UserKind
    <2>1. PICK f \in Files : Write(f)
      BY <1>3 DEF UserKind
    <2>2. /\ \A r \in Runs, g \in Files : ledger[r].captured[g] \in Nat
          /\ \A k \in Clients, g \in Files : tidy[k].book.captured[g] \in Nat
          /\ \A g \in Files : local[g] \in Nat
      BY <1>1, WritesAssumption DEF Versions, Ledgers, TidyRecords
    <2>3. \A x \in Nat : x <= writes + 1 => x <= writes' + 1
      BY <1>1, <2>1 DEF Write
    <2>4. \A g \in Files : local'[g] <= writes' + 1
      BY <1>1, <2>1, <2>2, <2>3 DEF Write, VersionsInv
    <2> QED BY <2>1, <2>2, <2>3, <2>4 DEF Write, VersionsInv
  <1>4. ASSUME NEW k \in Clients, TidyKind(k) PROVE VersionsInv'
    <2>1. \A f \in Files : local'[f] <= writes' + 1
      BY <1>1, <1>4 DEF TidyKind, TidyEffect, VersionsInv
    <2>2. \A j \in Clients : tidy'[j].book.captured = tidy[j].book.captured
      BY <1>4 DEF TidyKind, TidyEffect
    <2>3. \A r \in Runs : ledger'[r].captured = ledger[r].captured
                          \/ ledger'[r].captured = tidy[k].book.captured
      BY <1>4 DEF TidyKind, TidyEffect
    <2>4. writes' = writes
      BY <1>4 DEF TidyKind, TidyEffect
    <2> QED BY <2>1, <2>2, <2>3, <2>4 DEF VersionsInv
  <1>5. ASSUME NEW k \in Clients, Effect(k) PROVE VersionsInv'
    <2>1. local' = local /\ writes' = writes
      BY <1>5 DEF Effect, WorldEffect, localVars
    <2>2. \A f \in Files : NoLedger.captured[f] <= writes + 1
      BY <1>1, IdleLemma
    <2>3. \A r \in Runs : \/ ledger'[r].captured = ledger[r].captured
                          \/ ledger'[r] = NoLedger
                          \/ ledger'[r].captured = local
      BY <1>5 DEF Effect, BooksEffect
    <2>4. \A j \in Clients : \/ tidy'[j].book = tidy[j].book
                             \/ tidy'[j].book = NoLedger
                             \/ \E r \in Runs : tidy'[j].book = ledger[r]
      BY <1>5, IdleLemma DEF Effect, BooksEffect, OthersStay
    <2> QED BY <2>1, <2>2, <2>3, <2>4 DEF VersionsInv
  <1> QED BY <1>2, <1>3, <1>4, <1>5

\* What has been started stays started.
LEMMA BegunStep ==
    ASSUME ClientTypeOK, ClientTypeOK', BegunInv,
           ServerKind \/ UserKind \/ \E k \in Clients : TidyKind(k) \/ Effect(k)
    PROVE  BegunInv'
  <1>1. CASE ServerKind \/ UserKind \/ \E k \in Clients : TidyKind(k)
    BY <1>1 DEF ServerKind, UserKind, TidyKind, BegunInv, historyVars
  <1>2. ASSUME NEW k \in Clients, Effect(k) PROVE BegunInv'
    <2>1. \A r \in Runs : state'[r].phase # "none" => r \in begun'
      BY <1>2, IdleLemma DEF Effect, StateEffect, WorldEffect, BegunInv
    <2>2. begun \subseteq Runs /\ client'[k].run \in Runs
      BY DEF ClientTypeOK
    <2>3. client'[k].pc \in Sending \cup Sent => client'[k].run \in begun'
      BY <1>2, <2>2 DEF Effect, ControlEffect, WorldEffect, BegunInv
    <2>4. \A j \in Clients \ {k} : client'[j].pc \in Sending \cup Sent => client'[j].run \in begun'
      BY <1>2 DEF Effect, OthersStay, WorldEffect, BegunInv
    <2> QED BY <2>1, <2>3, <2>4 DEF BegunInv
  <1> QED BY <1>1, <1>2

\* A verdict of done is passed on as it is.
LEMMA DoneStep ==
    ASSUME ClientTypeOK, ClientTypeOK', DoneInv,
           ServerKind \/ UserKind \/ \E k \in Clients : TidyKind(k) \/ Effect(k)
    PROVE  DoneInv'
  <1>1. CASE ServerKind
    BY <1>1 DEF ServerKind, Onward, DoneInv, historyVars
  <1>2. CASE UserKind \/ \E k \in Clients : TidyKind(k)
    BY <1>2 DEF UserKind, TidyKind, DoneInv, driveVars, serverSide
  <1>3. ASSUME NEW k \in Clients, Effect(k) PROVE DoneInv'
    <2>1. imported' = imported
      BY <1>3 DEF Effect, WorldEffect
    <2>2. \A j \in Clients : client[j].run \in Runs /\ client'[j].run \in Runs
      BY DEF ClientTypeOK
    <2>3. \A r \in Runs : place'[r] = "done" => r \in imported
      BY <1>3 DEF Effect, WorldEffect, DoneInv
    <2>4. \A r \in Runs : state'[r].verdict = "done" => r \in imported
      BY <1>3, IdleLemma DEF Effect, StateEffect, DoneInv
    <2>5. ASSUME client'[k].verdict = "done", client'[k].pc \in {"seen", "confirm"}
          PROVE  /\ client'[k].pc = "seen" => client'[k].run \in imported
                 /\ client'[k].pc = "confirm" => client'[k].run \in Direct \cup imported
      <3>1. CASE state[client'[k].run].verdict = "done"
        BY <2>2, <3>1 DEF DoneInv
      <3>2. CASE /\ client'[k].run = client[k].run
                 /\ client'[k].pc = "seen" => client'[k].verdict = place[client[k].run]
                 /\ client'[k].pc = "confirm" =>
                       \/ client[k].pc = "seen" /\ client'[k].verdict = client[k].verdict
                       \/ client[k].run \in Direct
        BY <2>2, <2>5, <3>2 DEF DoneInv
      <3> QED BY <1>3, <2>5, <3>1, <3>2 DEF Effect, ControlEffect, Sending, Sent
    <2>6. \A j \in Clients \ {k} : client'[j] = client[j]
      BY <1>3 DEF Effect, OthersStay
    <2> QED BY <2>1, <2>3, <2>4, <2>5, <2>6 DEF DoneInv
  <1> QED BY <1>1, <1>2, <1>3

\* What is being deleted is confirmed, and was seen as it was captured.
LEMMA TidyInvStep ==
    ASSUME TidyInv, ServerKind \/ UserKind \/ \E k \in Clients : TidyKind(k) \/ Effect(k)
    PROVE  TidyInv'
  <1>1. CASE ServerKind \/ UserKind
    BY <1>1 DEF ServerKind, UserKind, Write, TidyInv, cleanupVars
  <1>2. ASSUME NEW k \in Clients, TidyKind(k) PROVE TidyInv'
    BY <1>2 DEF TidyKind, TidyEffect, TidyInv
  <1>3. ASSUME NEW k \in Clients, Effect(k) PROVE TidyInv'
    BY <1>3, IdleLemma DEF Effect, BooksEffect, OthersStay, TidyInv
  <1> QED BY <1>1, <1>2, <1>3

\* What is vouched for stays so, whatever is written, deleted or sent.
LEMMA VouchedLemma ==
    ASSUME ClientTypeOK, VersionsInv, NEW r \in Runs, NEW book,
           \A f \in Files : book.captured[f] \in Nat /\ book.captured[f] <= writes + 1,
           Vouched(r, book),
           \A f \in Files : local'[f] \in {local[f], Gone, writes + 2},
           sent'[r] # sent[r] => sent'[r] = local /\ local' = local
    PROVE  \A f \in Files : book.captured[f] # Gone =>
               sent'[r][f] = book.captured[f] \/ local'[f] # book.captured[f]
  <1>1. writes \in Nat
    BY DEF ClientTypeOK, CleanupTypeOK
  <1>2. \A f \in Files : book.captured[f] # writes + 2
    BY <1>1
  <1> QED BY <1>1, <1>2 DEF Vouched, Gone

\* Ledgers that are vouched for are confirmed, the rest is unconfirmed or gone.
LEMMA VouchedStep ==
    ASSUME ClientTypeOK, ClientTypeOK', VersionsInv, BegunInv, DoneInv, VouchedInv, TidyInv,
           ServerKind \/ UserKind \/ \E k \in Clients : TidyKind(k) \/ Effect(k)
    PROVE  VouchedInv'
  <1> DEFINE After(r, book) ==
                 \A f \in Files : book.captured[f] # Gone =>
                     sent'[r][f] = book.captured[f] \/ local'[f] # book.captured[f]
  <1>1. /\ ledger \in [Runs -> Ledgers] /\ tidy \in [Clients -> TidyRecords]
        /\ local \in [Files -> {Gone} \cup Versions]
        /\ \A j \in Clients : client[j].run \in Runs /\ client'[j].run \in Runs
        /\ \A j \in Clients : tidy[j].run \in Runs /\ tidy'[j].run \in Runs
    BY DEF ClientTypeOK, CleanupTypeOK, TidyRecords
  <1>2. /\ \A r \in Runs, f \in Files : ledger[r].captured[f] \in Nat
        /\ \A j \in Clients, f \in Files : tidy[j].book.captured[f] \in Nat
    <2>1. {Gone} \cup Versions \subseteq Nat
      BY WritesAssumption DEF Versions, Gone
    <2> QED BY <1>1, <2>1 DEF Ledgers, TidyRecords
  <1>3. ASSUME \A f \in Files : local'[f] \in {local[f], Gone, writes + 2},
               \A r \in Runs : sent'[r] # sent[r] => sent'[r] = local /\ local' = local
        PROVE  /\ \A r \in Runs : Vouched(r, ledger[r]) => After(r, ledger[r])
               /\ \A j \in Clients : Vouched(tidy[j].run, tidy[j].book) =>
                     After(tidy[j].run, tidy[j].book)
    BY <1>1, <1>2, <1>3, VouchedLemma, SMTT(30) DEF VersionsInv
  <1>4. VouchedInv' <=>
           /\ \A r \in Runs : state'[r].phase # "none" => After(r, ledger'[r])
           /\ \A k \in Clients : client'[k].pc \in Sent => After(client'[k].run, ledger'[client'[k].run])
           /\ \A r \in Runs : ledger'[r].confirmed => After(r, ledger'[r]) /\ r \in Direct \cup imported'
           /\ \A k \in Clients : tidy'[k].book.confirmed =>
                 After(tidy'[k].run, tidy'[k].book) /\ tidy'[k].run \in Direct \cup imported'
    BY DEF VouchedInv, Vouched, Delivered
  <1> HIDE DEF After
  <1>5. CASE ServerKind
    <2>1. /\ \A f \in Files : local'[f] \in {local[f], Gone, writes + 2}
          /\ \A r \in Runs : sent'[r] # sent[r] => sent'[r] = local /\ local' = local
      BY <1>5 DEF ServerKind, cleanupVars, localVars, historyVars
    <2> QED BY <1>1, <1>3, <1>4, <1>5, <2>1
            DEF ServerKind, Onward, VouchedInv, Delivered, cleanupVars, historyVars
  <1>6. CASE UserKind
    <2>1. /\ \A f \in Files : local'[f] \in {local[f], Gone, writes + 2}
          /\ \A r \in Runs : sent'[r] # sent[r] => sent'[r] = local /\ local' = local
      BY <1>1, <1>6 DEF UserKind, Write, historyVars
    <2> QED BY <1>1, <1>3, <1>4, <1>6, <2>1
            DEF UserKind, Write, VouchedInv, Delivered, driveVars, serverSide, historyVars
  <1>7. ASSUME NEW k \in Clients, TidyKind(k) PROVE VouchedInv'
    <2>1. /\ \A f \in Files : local'[f] \in {local[f], Gone, writes + 2}
          /\ \A r \in Runs : sent'[r] # sent[r] => sent'[r] = local /\ local' = local
      BY <1>7 DEF TidyKind, TidyEffect, historyVars
    <2>2. UNCHANGED <<imported, client, state>>
      BY <1>7 DEF TidyKind, driveVars, serverSide
    <2>3. \A j \in Clients : tidy'[j].run = tidy[j].run
                             /\ tidy'[j].book.captured = tidy[j].book.captured
                             /\ tidy'[j].book.confirmed = tidy[j].book.confirmed
      BY <1>7 DEF TidyKind, TidyEffect
    <2>4. \A j \in Clients : tidy'[j].book.confirmed =>
             After(tidy'[j].run, tidy'[j].book) /\ tidy'[j].run \in Direct \cup imported'
      BY <1>3, <2>1, <2>2, <2>3 DEF VouchedInv, Delivered, After
    <2>5. /\ tidy'[k].book.confirmed
          /\ \A r \in Runs : ledger'[r] # ledger[r] => r = tidy'[k].run /\ ledger'[r] = tidy'[k].book
      BY <1>7, <2>3 DEF TidyKind, TidyEffect, TidyInv
    <2>6. \A r \in Runs : \/ ledger'[r] = ledger[r]
                          \/ After(r, ledger'[r]) /\ r \in Direct \cup imported'
      BY <2>4, <2>5
    <2> QED BY <1>1, <1>3, <1>4, <2>1, <2>2, <2>4, <2>6 DEF VouchedInv, Delivered
  <1>8. ASSUME NEW k \in Clients, Effect(k) PROVE VouchedInv'
    <2>1. /\ \A f \in Files : local'[f] \in {local[f], Gone, writes + 2}
          /\ \A r \in Runs : sent'[r] # sent[r] => sent'[r] = local /\ local' = local
          /\ imported' = imported /\ local' = local
      BY <1>8 DEF Effect, WorldEffect, localVars
    <2>2. \A r \in Runs : After(r, NoLedger)
      BY IdleLemma DEF After
    <2>3. \A r \in Runs : ledger'[r].captured = ledger[r].captured /\ After(r, ledger[r]) =>
             After(r, ledger'[r])
      BY DEF After
    <2>4. \A r \in Runs : r \in begun /\ Vouched(r, ledger[r]) => After(r, ledger'[r])
      BY <1>3, <1>8, <2>1, <2>2, <2>3 DEF Effect, BooksEffect
    <2>5. \A r \in Runs : state'[r].phase # "none" => After(r, ledger'[r])
      <3> SUFFICES ASSUME NEW r \in Runs, state'[r].phase # "none" PROVE After(r, ledger'[r])
        OBVIOUS
      <3>1. CASE state'[r] = state[r]
        BY <2>4, <3>1 DEF BegunInv, VouchedInv
      <3>2. CASE r = client[k].run /\ client[k].pc \in Sent
        BY <2>4, <3>2 DEF BegunInv, VouchedInv
      <3> QED BY <1>8, <3>1, <3>2, IdleLemma DEF Effect, StateEffect
    <2>6. \A j \in Clients : client'[j].pc \in Sent => After(client'[j].run, ledger'[client'[j].run])
      <3> SUFFICES ASSUME NEW j \in Clients, client'[j].pc \in Sent
                   PROVE  After(client'[j].run, ledger'[client'[j].run])
        OBVIOUS
      <3>1. CASE client[j].pc \in Sent /\ client'[j].run = client[j].run
        BY <1>1, <2>4, <3>1 DEF BegunInv, VouchedInv
      <3>2. CASE state[client'[j].run].phase # "none"
        BY <1>1, <2>4, <3>2 DEF BegunInv, VouchedInv
      <3>3. CASE sent'[client'[j].run] = local
        BY <2>1, <3>3 DEF After
      <3>4. Sending \cap Sent = {}
        BY DEF Sending, Sent
      <3>5. CASE j # k
        BY <1>8, <3>1, <3>5 DEF Effect, OthersStay
      <3>6. CASE j = k
        <4>1. ControlEffect(k)
          BY <1>8 DEF Effect
        <4> QED BY <3>1, <3>2, <3>3, <3>4, <3>6, <4>1 DEF ControlEffect
      <3> QED BY <3>5, <3>6
    <2>7. \A r \in Runs : ledger'[r].confirmed => After(r, ledger'[r]) /\ r \in Direct \cup imported'
      <3> SUFFICES ASSUME NEW r \in Runs, ledger'[r].confirmed
                   PROVE  After(r, ledger'[r]) /\ r \in Direct \cup imported'
        OBVIOUS
      <3>1. CASE ledger'[r] = ledger[r]
        BY <1>3, <2>1, <3>1 DEF VouchedInv, Delivered
      <3>2. CASE r = client[k].run /\ client[k].pc = "confirm" /\ Authority(k)
        BY <2>1, <2>4, <3>2 DEF Authority, Sent, BegunInv, DoneInv, VouchedInv
      <3> QED BY <1>8, <3>1, <3>2, IdleLemma DEF Effect, BooksEffect
    <2>8. \A j \in Clients : tidy'[j].book.confirmed =>
             After(tidy'[j].run, tidy'[j].book) /\ tidy'[j].run \in Direct \cup imported'
      <3> SUFFICES ASSUME NEW j \in Clients, tidy'[j].book.confirmed
                   PROVE  After(tidy'[j].run, tidy'[j].book) /\ tidy'[j].run \in Direct \cup imported'
        OBVIOUS
      <3>1. CASE tidy'[j] = tidy[j]
        BY <1>3, <2>1, <3>1 DEF VouchedInv, Delivered
      <3>2. CASE \E r \in Runs : tidy'[j].run = r /\ tidy'[j].book = ledger[r]
        BY <1>3, <2>1, <3>2 DEF VouchedInv, Delivered
      <3> QED BY <1>8, <3>1, <3>2, IdleLemma DEF Effect, OthersStay, BooksEffect
    <2> QED BY <1>4, <2>5, <2>6, <2>7, <2>8
  <1> QED BY <1>5, <1>6, <1>7, <1>8

\* The invariant holds at first.
LEMMA ClientInvInit == ClientInit => ClientInv
  <1> SUFFICES ASSUME ClientInit PROVE ClientInv
    OBVIOUS
  <1>1. ClientTypeOK
    BY ClientTypeInit
  <1>2. /\ \A r \in Runs : place[r] = "absent" /\ state[r] = NoState /\ ledger[r] = NoLedger
        /\ \A k \in Clients : client[k] = Off /\ tidy[k] = NoTidy
        /\ \A f \in Files : local[f] \in {Gone, 1} /\ writes = 0
    BY DEF ClientInit, SupervisionInit, CleanupInit
  <1>3. VersionsInv
    BY <1>2, IdleLemma DEF VersionsInv, Gone
  <1> QED BY <1>1, <1>2, <1>3, IdleLemma
          DEF ClientInv, KeptInv, BegunInv, DoneInv, VouchedInv, TidyInv, Sending, Sent

\* Every step keeps it.
LEMMA ClientInvStep == ClientInv /\ [ClientNext]_clientVars => ClientInv'
  <1> SUFFICES ASSUME ClientInv, [ClientNext]_clientVars PROVE ClientInv'
    OBVIOUS
  <1>1. ClientTypeOK /\ ClientTypeOK'
    BY ClientTypeStep DEF ClientInv
  <1>2. ServerKind \/ UserKind \/ \E k \in Clients : TidyKind(k) \/ Effect(k)
    BY <1>1, KindsLemma
  <1> QED BY <1>1, <1>2, KeptStep, VersionsStep, BegunStep, DoneStep, VouchedStep, TidyInvStep
          DEF ClientInv

\* A run the server has accepted stays persisted until a client has dealt with its outcome
\* (persist_client_run_state before finish-run, remove_client_run_state at the end only),
\* whatever is killed or lost, and with any number of invocations.
THEOREM NothingIsForgotten == ClientSpec => []NothingForgotten
  <1>1. ClientInv => NothingForgotten
    <2> SUFFICES ASSUME ClientInv, NEW r \in begun, place[r] \notin {"absent", "incoming"}
                 PROVE  state[r].phase # "none" \/ r \in settled
      BY DEF NothingForgotten
    <2>1. r \in Runs
      BY DEF ClientInv, ClientTypeOK
    <2> QED BY <2>1 DEF ClientInv, KeptInv, Kept
  <1> QED BY <1>1, ClientInvInit, ClientInvStep, PTL DEF ClientSpec

\* A version of a file that is deleted was delivered (try_clean_entry, confirm_imports_from_status):
\* the ledger is captured before the transfer, so that what is deleted as it was captured is what
\* was sent, and confirmed after the delivery only.
THEOREM NothingIsLost == ClientSpec => NothingLost
  <1> DEFINE Safe ==
        \A k \in Clients, f \in Files :
          tidy[k].pc = "unlink" /\ tidy[k].file = f /\ local[f] # Gone /\ local'[f] = Gone =>
              \/ local[f] # tidy[k].seen
              \/ \E r \in Direct \cup imported : sent[r][f] = local[f]
  <1>1. ClientInv => Safe
    <2> SUFFICES ASSUME ClientInv, NEW k \in Clients, NEW f \in Files,
                        tidy[k].pc = "unlink", tidy[k].file = f, local[f] = tidy[k].seen
                 PROVE  \E r \in Direct \cup imported : sent[r][f] = local[f]
      OBVIOUS
    <2>1. /\ tidy[k].book.confirmed
          /\ local[f] = tidy[k].book.captured[f] /\ local[f] # Gone
      BY DEF ClientInv, TidyInv
    <2>2. tidy[k].run \in Direct \cup imported /\ Vouched(tidy[k].run, tidy[k].book)
      BY <2>1 DEF ClientInv, VouchedInv, Delivered
    <2>3. sent[tidy[k].run][f] = local[f]
      BY <2>1, <2>2 DEF Vouched
    <2> QED BY <2>2, <2>3
  <1>2. ClientInv /\ [ClientNext]_clientVars => [Safe]_clientVars
    BY <1>1
  <1> QED BY <1>2, ClientInvInit, ClientInvStep, PTL DEF ClientSpec, NothingLost

----------------------------------------------------------------------------
(* Ledgers, as long as one invocation is under way at a time *)

\* The steps at which an operation is known to have a transform.
Transformed == Sent \ {"confirm", "tidy", "tidying"}

\* While an operation is under way or persisted its ledger is there, and only what is
\* complete or went straight to the destination is retired.
LedgerInv ==
    /\ \A r \in Runs : state[r].phase \in {"finish_pending", "waiting", "seen"} => ledger[r].written
    /\ \A r \in Runs : state[r].phase # "none" => r \notin Direct
    /\ \A k \in Clients :
          /\ client[k].pc \in Sending \cup Sent => ledger[client[k].run].written
          /\ client[k].pc \in Transformed => client[k].run \notin Direct
          /\ client[k].pc \in {"local", "local_tidy"} => state[client[k].run].phase = "complete"
          /\ client[k].pc = "retire" => state[client[k].run].phase \in {"none", "complete"}
          /\ tidy[k].book.confirmed => tidy[k].book.written
          /\ tidy[k].pc \notin {"idle", "over"} => tidy[k].book.confirmed
    /\ \A r \in Runs : ledger[r].confirmed => ledger[r].written

\* How an invocation comes to a step that needs the ledger, or that may retire it.
LedgerControl(k) ==
    /\ client'[k].pc \in Sending \cup Sent =>
          \/ ledger'[client'[k].run].written
          \/ /\ UNCHANGED ledger
             /\ \/ state[client'[k].run].phase \in {"finish_pending", "waiting", "seen"}
                \/ client[k].pc \in Sending \cup Sent /\ client'[k].run = client[k].run
    /\ client'[k].pc \in Transformed =>
          \/ client'[k].run \notin Direct
          \/ state[client'[k].run].phase # "none"
          \/ client[k].pc \in Transformed /\ client'[k].run = client[k].run
    /\ client'[k].pc \in {"local", "local_tidy"} =>
          /\ UNCHANGED state
          /\ \/ state[client'[k].run].phase = "complete"
             \/ client[k].pc = "local" /\ client'[k].run = client[k].run
    /\ client'[k].pc = "retire" =>
          \/ state'[client'[k].run].phase = "complete"
          \/ client'[k].run \in Direct /\ UNCHANGED state

\* What is persisted is the run of an operation with a transform.
LedgerState(k) ==
    \A r \in Runs :
        \/ state'[r] = state[r]
        \/ state'[r] = NoState
        \/ r = client[k].run /\ client[k].pc \in Transformed /\ UNCHANGED ledger

\* A ledger is confirmed only if it is there, and retired at three places only.
LedgerRetires(k) ==
    \A r \in Runs :
        /\ ledger'[r].confirmed => ledger'[r].written \/ ledger'[r] = ledger[r]
        /\ ledger[r].written /\ ~ledger'[r].written =>
              /\ r = client[k].run /\ UNCHANGED state
              /\ \/ client[k].pc \in {"local_tidy", "retire"}
                 \/ client[k].pc = "ledger" /\ state[r].phase = "none"
              /\ client'[k].pc \notin Sending \cup Sent

LedgerEffect(k) == LedgerControl(k) /\ LedgerState(k) /\ LedgerRetires(k)

\* Every step of an invocation treats ledgers in these ways: one step of the proof per action.
LEMMA LedgerEffectLemma ==
    ASSUME ClientTypeOK, NEW k \in Clients,
           Invocation(k)
    PROVE  LedgerEffect(k)
  <1> USE DEF driveVars, serverSide, cleanupVars, localVars, historyVars, At, Quiet, Lost
  <1>1. /\ InvocationsOK /\ client[k] \in Invocations
        /\ CleanupTypeOK /\ StatesOK
        /\ client[k].run \in Runs
        /\ tidy \in [Clients -> TidyRecords] /\ ledger \in [Runs -> Ledgers]
    BY TypeParts, GotoLemma DEF Invocations, CleanupTypeOK, TidyRecords
  <1>2. /\ UNCHANGED state => LedgerState(k)
        /\ UNCHANGED ledger => LedgerRetires(k)
    BY DEF LedgerState, LedgerRetires
  <1>3. ASSUME client'[k].pc \in {"off", "ledgers", "ledger", "runs", "forget_local", "capture", "forget"}
        PROVE  LedgerControl(k)
    BY <1>3 DEF LedgerControl, Transformed, Sending, Sent
  <1>4. CASE Start(k)
    <2>1. LedgerControl(k)
      BY <1>1, <1>3, <1>4, ChoiceLemma, IdleLemma DEF Start, InvocationsOK
    <2>2. LedgerState(k)
      BY <1>2, <1>4 DEF Start
    <2>3. LedgerRetires(k)
      BY <1>2, <1>4 DEF Start
    <2> QED BY <2>1, <2>2, <2>3 DEF LedgerEffect
  <1>5. CASE ResumeLedger(k)
    <2>1. LedgerControl(k)
      BY <1>1, <1>3, <1>5, ChoiceLemma, IdleLemma DEF ResumeLedger, InvocationsOK
    <2>2. LedgerState(k)
      BY <1>2, <1>5 DEF ResumeLedger
    <2>3. LedgerRetires(k)
      BY <1>2, <1>5 DEF ResumeLedger
    <2> QED BY <2>1, <2>2, <2>3 DEF LedgerEffect
  <1>6. CASE LedgerResumed(k)
    <2>1. LedgerControl(k)
      BY <1>1, <1>3, <1>6, ControlLemma, IdleLemma DEF LedgerResumed, InvocationsOK
    <2>2. LedgerState(k)
      BY <1>2, <1>6 DEF LedgerResumed
    <2>3. LedgerRetires(k)
      BY <1>1, <1>2, <1>6, ControlLemma, BookLemma, IdleLemma
         DEF LedgerResumed, LedgerRetired, LedgerRetires, Sending, Sent
    <2> QED BY <2>1, <2>2, <2>3 DEF LedgerEffect
  <1>7. CASE ResumeRun(k)
    <2>1. LedgerControl(k)
      BY <1>1, <1>3, <1>7, ChoiceLemma, BookLemma
         DEF ResumeRun, LedgerControl, Transformed, Sending, Sent
    <2>2. LedgerState(k)
      BY <1>2, <1>7 DEF ResumeRun
    <2>3. LedgerRetires(k)
      BY <1>2, <1>7 DEF ResumeRun
    <2> QED BY <2>1, <2>2, <2>3 DEF LedgerEffect
  <1>8. CASE ResumeUnanswered(k)
    <2>1. LedgerControl(k)
      BY <1>1, <1>3, <1>8, ChoiceLemma, IdleLemma DEF ResumeUnanswered, InvocationsOK
    <2>2. LedgerState(k)
      BY <1>2, <1>8 DEF ResumeUnanswered
    <2>3. LedgerRetires(k)
      BY <1>2, <1>8 DEF ResumeUnanswered
    <2> QED BY <2>1, <2>2, <2>3 DEF LedgerEffect
  <1>9. CASE ResumeComplete(k)
    <2>1. LedgerControl(k)
      BY <1>1, <1>3, <1>9, ControlLemma, BookLemma
         DEF ResumeComplete, LedgerControl, Transformed, Sending, Sent
    <2>2. LedgerState(k)
      BY <1>2, <1>9 DEF ResumeComplete
    <2>3. LedgerRetires(k)
      BY <1>2, <1>9 DEF ResumeComplete
    <2> QED BY <2>1, <2>2, <2>3 DEF LedgerEffect
  <1>10. CASE CompleteResumed(k)
    <2>1. LedgerControl(k)
      BY <1>1, <1>3, <1>10, ControlLemma, IdleLemma DEF CompleteResumed, InvocationsOK
    <2>2. LedgerState(k)
      BY <1>2, <1>10 DEF CompleteResumed
    <2>3. LedgerRetires(k)
      BY <1>1, <1>2, <1>10, ControlLemma, BookLemma, IdleLemma
         DEF CompleteResumed, LedgerRetired, LedgerRetires, Sending, Sent
    <2> QED BY <2>1, <2>2, <2>3 DEF LedgerEffect
  <1>11. CASE ForgetLocally(k)
    <2>1. LedgerControl(k)
      BY <1>1, <1>3, <1>11, ControlLemma, IdleLemma DEF ForgetLocally, InvocationsOK
    <2>2. LedgerState(k)
      BY <1>1, <1>2, <1>11, BookLemma DEF ForgetLocally, LedgerState, Transformed, Sent, StatesOK
    <2>3. LedgerRetires(k)
      BY <1>2, <1>11 DEF ForgetLocally
    <2> QED BY <2>1, <2>2, <2>3 DEF LedgerEffect
  <1>12. CASE NewOperation(k)
    <2>1. LedgerControl(k)
      BY <1>1, <1>3, <1>12, ChoiceLemma, BookLemma
         DEF NewOperation, LedgerControl, Transformed, Sending, Sent
    <2>2. LedgerState(k)
      BY <1>2, <1>12 DEF NewOperation
    <2>3. LedgerRetires(k)
      <3>1. CASE UNCHANGED ledger
        BY <1>2, <3>1
      <3>2. CASE client'[k].run \in Runs /\ Capture(client'[k].run)
        BY <1>1, <3>2, BookLemma DEF LedgerRetires
      <3> QED BY <1>12, <3>1, <3>2, ChoiceLemma
    <2> QED BY <2>1, <2>2, <2>3 DEF LedgerEffect
  <1>13. CASE Begin(k)
    <2>1. LedgerControl(k)
      BY <1>1, <1>3, <1>13, ControlLemma, BookLemma
         DEF Begin, LedgerControl, Transformed, Sending, Sent
    <2>2. LedgerState(k)
      BY <1>2, <1>13 DEF Begin
    <2>3. LedgerRetires(k)
      BY <1>2, <1>13 DEF Begin
    <2> QED BY <2>1, <2>2, <2>3 DEF LedgerEffect
  <1>14. CASE Send(k)
    <2>1. LedgerControl(k)
      BY <1>1, <1>3, <1>14, ControlLemma, BookLemma
         DEF Send, LedgerControl, Transformed, Sending, Sent
    <2>2. LedgerState(k)
      BY <1>2, <1>14 DEF Send
    <2>3. LedgerRetires(k)
      BY <1>2, <1>14 DEF Send
    <2> QED BY <2>1, <2>2, <2>3 DEF LedgerEffect
  <1>15. CASE PersistPending(k)
    <2>1. LedgerControl(k)
      BY <1>1, <1>3, <1>15, ControlLemma, BookLemma
         DEF PersistPending, LedgerControl, Transformed, Sending, Sent
    <2>2. LedgerState(k)
      BY <1>1, <1>2, <1>15, BookLemma DEF PersistPending, LedgerState, Transformed, Sent, StatesOK
    <2>3. LedgerRetires(k)
      BY <1>2, <1>15 DEF PersistPending
    <2> QED BY <2>1, <2>2, <2>3 DEF LedgerEffect
  <1>16. CASE IsHealthy(k)
    <2>1. LedgerControl(k)
      BY <1>1, <1>3, <1>16, ControlLemma, BookLemma
         DEF IsHealthy, LedgerControl, Transformed, Sending, Sent
    <2>2. LedgerState(k)
      BY <1>2, <1>16 DEF IsHealthy
    <2>3. LedgerRetires(k)
      BY <1>2, <1>16 DEF IsHealthy
    <2> QED BY <2>1, <2>2, <2>3 DEF LedgerEffect
  <1>17. CASE Finish(k)
    <2>1. LedgerControl(k)
      BY <1>1, <1>3, <1>17, ControlLemma, BookLemma
         DEF Finish, LedgerControl, Transformed, Sending, Sent
    <2>2. LedgerState(k)
      BY <1>1, <1>2, <1>17, BookLemma DEF Finish, LedgerState, Transformed, Sent, StatesOK
    <2>3. LedgerRetires(k)
      BY <1>2, <1>17 DEF Finish
    <2> QED BY <2>1, <2>2, <2>3 DEF LedgerEffect
  <1>18. CASE DriveToEnd(k)
    <2>1. LedgerControl(k)
      BY <1>1, <1>3, <1>18, ControlLemma, BookLemma
         DEF DriveToEnd, LedgerControl, Transformed, Sending, Sent
    <2>2. LedgerState(k)
      BY <1>2, <1>18 DEF DriveToEnd
    <2>3. LedgerRetires(k)
      BY <1>2, <1>18 DEF DriveToEnd
    <2> QED BY <2>1, <2>2, <2>3 DEF LedgerEffect
  <1>19. CASE Driven(k)
    <2>1. LedgerControl(k)
      BY <1>1, <1>3, <1>19, ControlLemma, BookLemma
         DEF Driven, LedgerControl, Transformed, Sending, Sent
    <2>2. LedgerState(k)
      BY <1>2, <1>19 DEF Driven
    <2>3. LedgerRetires(k)
      BY <1>2, <1>19 DEF Driven
    <2> QED BY <2>1, <2>2, <2>3 DEF LedgerEffect
  <1>20. CASE ReadStatus(k)
    <2>1. LedgerControl(k)
      <3>1. CASE Fail(k)
        BY <1>1, <1>3, <3>1, ControlLemma
      <3>2. CASE client' = [client EXCEPT ![k].verdict = place[client[k].run], ![k].pc = "seen"]
        <4>1. client'[k].pc = "seen" /\ client'[k].run = client[k].run
          BY <1>1, <3>2 DEF InvocationsOK, Invocations
        <4> QED BY <1>20, <4>1 DEF ReadStatus, LedgerControl, Transformed, Sending, Sent
      <3> QED BY <1>20, <3>1, <3>2 DEF ReadStatus
    <2>2. LedgerState(k)
      BY <1>2, <1>20 DEF ReadStatus
    <2>3. LedgerRetires(k)
      BY <1>2, <1>20 DEF ReadStatus
    <2> QED BY <2>1, <2>2, <2>3 DEF LedgerEffect
  <1>21. CASE PersistSeen(k)
    <2>1. LedgerControl(k)
      BY <1>1, <1>3, <1>21, ControlLemma, BookLemma
         DEF PersistSeen, LedgerControl, Transformed, Sending, Sent
    <2>2. LedgerState(k)
      BY <1>1, <1>2, <1>21, BookLemma DEF PersistSeen, LedgerState, Transformed, Sent, StatesOK
    <2>3. LedgerRetires(k)
      BY <1>2, <1>21 DEF PersistSeen
    <2> QED BY <2>1, <2>2, <2>3 DEF LedgerEffect
  <1>22. CASE ConfirmImports(k)
    <2> Authority(k) \in BOOLEAN
      BY DEF Authority
    <2>1. LedgerControl(k)
      BY <1>1, <1>3, <1>22, ControlLemma, BookLemma
         DEF ConfirmImports, LedgerControl, Transformed, Sending, Sent
    <2>2. LedgerState(k)
      BY <1>2, <1>22 DEF ConfirmImports
    <2>3. LedgerRetires(k)
      BY <1>1, <1>2, <1>22, ControlLemma, BookLemma, IdleLemma
         DEF ConfirmImports, LedgerRetired, LedgerRetires, Sending, Sent
    <2> QED BY <2>1, <2>2, <2>3 DEF LedgerEffect
  <1>23. CASE TidyRun(k)
    <2>1. LedgerControl(k)
      BY <1>1, <1>3, <1>23, ControlLemma, BookLemma
         DEF TidyRun, LedgerControl, Transformed, Sending, Sent
    <2>2. LedgerState(k)
      BY <1>2, <1>23 DEF TidyRun
    <2>3. LedgerRetires(k)
      BY <1>2, <1>23 DEF TidyRun
    <2> QED BY <2>1, <2>2, <2>3 DEF LedgerEffect
  <1>24. CASE TidyDone(k)
    <2>1. LedgerControl(k)
      <3>1. CASE client' = [client EXCEPT ![k] = Off]
        BY <1>1, <1>3, <3>1, IdleLemma DEF InvocationsOK
      <3>2. CASE client[k].run \in Direct /\ client' = [client EXCEPT ![k] = [@ EXCEPT !.pc = "retire"]]
        <4>1. client'[k].pc = "retire" /\ client'[k].run = client[k].run
          BY <1>1, <3>2 DEF InvocationsOK, Invocations
        <4> QED BY <1>24, <3>2, <4>1 DEF TidyDone, LedgerControl, Transformed, Sending, Sent
      <3>3. ASSUME NEW full, client[k].run \notin Direct,
                   client' = [client EXCEPT ![k].pc = "complete", ![k].clean = full]
            PROVE  LedgerControl(k)
        <4>1. client'[k].pc = "complete" /\ client'[k].run = client[k].run
          BY <1>1, <3>3 DEF InvocationsOK, Invocations
        <4> QED BY <1>24, <3>3, <4>1 DEF TidyDone, LedgerControl, Transformed, Sending, Sent
      <3> QED BY <1>24, <3>1, <3>2, <3>3 DEF TidyDone
    <2>2. LedgerState(k)
      BY <1>2, <1>24 DEF TidyDone
    <2>3. LedgerRetires(k)
      BY <1>2, <1>24 DEF TidyDone
    <2> QED BY <2>1, <2>2, <2>3 DEF LedgerEffect
  <1>25. CASE PersistComplete(k)
    <2>1. LedgerControl(k)
      BY <1>1, <1>3, <1>25, ControlLemma, BookLemma
         DEF PersistComplete, LedgerControl, Transformed, Sending, Sent
    <2>2. LedgerState(k)
      BY <1>1, <1>2, <1>25, BookLemma DEF PersistComplete, LedgerState, Transformed, Sent, StatesOK
    <2>3. LedgerRetires(k)
      BY <1>2, <1>25 DEF PersistComplete
    <2> QED BY <2>1, <2>2, <2>3 DEF LedgerEffect
  <1>26. CASE RetireLedger(k)
    <2>1. LedgerControl(k)
      BY <1>1, <1>3, <1>26, ControlLemma, BookLemma
         DEF RetireLedger, LedgerControl, Transformed, Sending, Sent
    <2>2. LedgerState(k)
      BY <1>2, <1>26 DEF RetireLedger
    <2>3. LedgerRetires(k)
      BY <1>1, <1>2, <1>26, ControlLemma, BookLemma, IdleLemma
         DEF RetireLedger, LedgerRetired, LedgerRetires, Sending, Sent
    <2> QED BY <2>1, <2>2, <2>3 DEF LedgerEffect
  <1>27. CASE Forget(k)
    <2>1. LedgerControl(k)
      BY <1>1, <1>3, <1>27, ControlLemma, IdleLemma DEF Forget, InvocationsOK
    <2>2. LedgerState(k)
      BY <1>1, <1>2, <1>27, BookLemma DEF Forget, LedgerState, Transformed, Sent, StatesOK
    <2>3. LedgerRetires(k)
      BY <1>2, <1>27 DEF Forget
    <2> QED BY <2>1, <2>2, <2>3 DEF LedgerEffect
  <1>28. CASE Crash(k)
    <2>1. LedgerControl(k)
      BY <1>1, <1>3, <1>28, ControlLemma, IdleLemma DEF Crash, InvocationsOK
    <2>2. LedgerState(k)
      BY <1>2, <1>28 DEF Crash
    <2>3. LedgerRetires(k)
      BY <1>2, <1>28 DEF Crash
    <2> QED BY <2>1, <2>2, <2>3 DEF LedgerEffect
  <1> QED BY <1>4, <1>5, <1>6, <1>7, <1>8, <1>9, <1>10, <1>11, <1>12, <1>13, <1>14, <1>15, <1>16, <1>17, <1>18, <1>19, <1>20, <1>21, <1>22, <1>23, <1>24, <1>25, <1>26, <1>27, <1>28 DEF Invocation, ClientStep

\* With one invocation, every kind of step keeps the ledgers where they are needed.
LEMMA LedgerStep ==
    ASSUME \A j, k \in Clients : j = k, ClientTypeOK, ClientTypeOK', LedgerInv,
           [ClientNext]_clientVars
    PROVE  LedgerInv'
  <1>1. ASSUME ServerKind \/ UserKind PROVE LedgerInv'
    BY <1>1 DEF ServerKind, UserKind, Write, LedgerInv, cleanupVars
  <1>2. ASSUME NEW k \in Clients, TidyKind(k) PROVE LedgerInv'
    <2>1. tidy[k].book.written /\ tidy[k].book.confirmed
      BY <1>2 DEF TidyKind, TidyEffect, LedgerInv
    <2>2. tidy'[k].book.written
      BY <1>2, <2>1 DEF TidyKind, TidyEffect
    <2>3. \A r \in Runs : ledger'[r] = ledger[r] \/ ledger'[r].written
      BY <1>2, <2>2 DEF TidyKind, TidyEffect
    <2>4. \A r \in Runs : ledger[r].written => ledger'[r].written
      BY <2>3
    <2>5. \A j \in Clients : client[j].run \in Runs
      BY DEF ClientTypeOK
    <2>6. \A j \in Clients : /\ tidy'[j].book.confirmed => tidy'[j].book.written
                             /\ tidy'[j].pc \notin {"idle", "over"} => tidy'[j].book.confirmed
      BY <1>2, <2>1 DEF TidyKind, TidyEffect, LedgerInv
    <2> QED BY <1>2, <2>3, <2>4, <2>5, <2>6 DEF TidyKind, LedgerInv
  <1>3. ASSUME NEW k \in Clients, Effect(k), Invocation(k) PROVE LedgerInv'
    <2>1. LedgerControl(k) /\ LedgerState(k) /\ LedgerRetires(k)
      BY <1>3, LedgerEffectLemma DEF LedgerEffect
    <2>2. client[k].run \in Runs /\ client'[k].run \in Runs
      BY DEF ClientTypeOK
    <2>3. \A r \in Runs : state'[r].phase \in {"finish_pending", "waiting", "seen"} => ledger'[r].written
      <3> SUFFICES ASSUME NEW r \in Runs, ~ledger'[r].written,
                          state'[r].phase \in {"finish_pending", "waiting", "seen"}
                   PROVE  FALSE
        OBVIOUS
      <3>1. ledger[r].written
        BY <2>1, <2>2, IdleLemma DEF LedgerState, LedgerInv, Transformed
      <3> QED BY <2>1, <2>2, <3>1 DEF LedgerRetires, LedgerInv
    <2>4. \A r \in Runs : state'[r].phase # "none" => r \notin Direct
      BY <2>1, <2>2, IdleLemma DEF LedgerState, LedgerInv, Transformed
    <2>5. client'[k].pc \in Sending \cup Sent => ledger'[client'[k].run].written
      BY <2>1, <2>2 DEF LedgerControl, LedgerInv
    <2>6. client'[k].pc \in Transformed => client'[k].run \notin Direct
      BY <2>1, <2>2 DEF LedgerControl, LedgerInv, Transformed
    <2>7. client'[k].pc \in {"local", "local_tidy"} => state'[client'[k].run].phase = "complete"
      BY <2>1, <2>2 DEF LedgerControl, LedgerInv
    <2>8. client'[k].pc = "retire" => state'[client'[k].run].phase \in {"none", "complete"}
      BY <2>1, <2>2 DEF LedgerControl, LedgerInv
    <2>9. /\ tidy'[k].book.confirmed => tidy'[k].book.written
          /\ tidy'[k].pc \notin {"idle", "over"} => tidy'[k].book.confirmed
      BY <1>3, IdleLemma DEF Effect, BooksEffect, LedgerInv
    <2>10. \A r \in Runs : ledger'[r].confirmed => ledger'[r].written
      BY <2>1 DEF LedgerRetires, LedgerInv
    <2> QED BY <2>3, <2>4, <2>5, <2>6, <2>7, <2>8, <2>9, <2>10 DEF LedgerInv, Transformed
  <1> QED BY <1>1, <1>2, <1>3, KindsLemma

\* While one invocation works with a state directory, a run whose outcome was seen, and is yet
\* to be worked off, has its ledger: retire_cleanup_state_file is reached by resume_pending_cleanups
\* for runs that have none persisted, by a complete run and by an operation without a transform.
THEOREM SeenKeepsLedger ==
    ASSUME \A j, k \in Clients : j = k
    PROVE  ClientSpec => []SeenHasLedger
  <1>1. ClientInit => ClientTypeOK /\ LedgerInv
    <2> SUFFICES ASSUME ClientInit PROVE ClientTypeOK /\ LedgerInv
      OBVIOUS
    <2>1. /\ \A r \in Runs : state[r] = NoState /\ ledger[r] = NoLedger
          /\ \A k \in Clients : client[k] = Off /\ tidy[k] = NoTidy
      BY DEF ClientInit, SupervisionInit, CleanupInit
    <2> QED BY <2>1, ClientTypeInit, IdleLemma DEF LedgerInv, Sending, Sent, Transformed
  <1>2. ClientTypeOK /\ LedgerInv /\ [ClientNext]_clientVars => (ClientTypeOK /\ LedgerInv)'
    BY ClientTypeStep, LedgerStep
  <1>3. LedgerInv => SeenHasLedger
    BY DEF LedgerInv, SeenHasLedger
  <1> QED BY <1>1, <1>2, <1>3, PTL DEF ClientSpec
=============================================================================
