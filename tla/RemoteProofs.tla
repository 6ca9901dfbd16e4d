----------------------------- MODULE RemoteProofs -----------------------------
(***************************************************************************)
(* Theorems about a remote command: that the server hears what the client  *)
(* says and what the client takes the answer for, for every choice of      *)
(* characters (RemoteCall), and what reaches it of the output, for all     *)
(* sizes of pipes and buffers (ChildProcess).                              *)
(***************************************************************************)
EXTENDS MCRemote, TextLemmas

(***************************************************************************)
(* Sequences that count on.                                                *)
(***************************************************************************)
LEMMA CountsEmpty == \A n \in Nat : Counts(<<>>, n, n)
  BY DEF Counts

LEMMA CountsAppend ==
    ASSUME NEW seq, NEW from, NEW to, Counts(seq, from, to)
    PROVE  Counts(Append(seq, to + 1), from, to + 1)
  BY DEF Counts

LEMMA CountsConcat ==
    ASSUME NEW a, NEW b, NEW from, NEW mid, NEW to, Counts(a, from, mid), Counts(b, mid, to)
    PROVE  Counts(a \o b, from, to)
  <1>1. /\ a \o b \in Seq(Nat) /\ Len(a \o b) = Len(a) + Len(b)
        /\ Len(a) \in Nat /\ Len(b) \in Nat
    BY DEF Counts
  <1>2. ASSUME NEW i \in 1..Len(a \o b)
        PROVE  (a \o b)[i] = from + i
    <2>1. CASE i <= Len(a)
      <3>1. (a \o b)[i] = a[i] /\ i \in 1..Len(a)
        BY <1>1, <1>2, <2>1 DEF Counts
      <3> QED BY <3>1 DEF Counts
    <2>2. CASE i > Len(a)
      <3>1. (a \o b)[i] = b[i - Len(a)] /\ i - Len(a) \in 1..Len(b)
        BY <1>1, <1>2, <2>2 DEF Counts
      <3> QED BY <1>1, <1>2, <3>1 DEF Counts
    <2> QED BY <1>1, <1>2, <2>1, <2>2
  <1> QED BY <1>1, <1>2 DEF Counts

\* The end of such a sequence counts to the same number.
LEMMA CountsLast ==
    ASSUME NEW seq, NEW from, NEW to, NEW n \in Nat \ {0}, Counts(seq, from, to)
    PROVE  /\ Counts(LastOf(seq, n), to - Len(LastOf(seq, n)), to)
           /\ Len(seq) <= n => LastOf(seq, n) = seq
           /\ Len(seq) > n => Len(LastOf(seq, n)) = n
  <1>1. Len(seq) \in Nat /\ from \in Nat /\ to \in Nat /\ to = from + Len(seq) /\ seq \in Seq(Nat)
    BY DEF Counts
  <1>2. CASE Len(seq) <= n
    BY <1>1, <1>2 DEF LastOf, Counts
  <1>3. CASE Len(seq) > n
    <2> DEFINE k == Len(seq) - n
               last == SubSeq(seq, k + 1, Len(seq))
    <2>1. k \in Nat /\ k + 1 \in 1..Len(seq) /\ k + n = Len(seq)
      BY <1>1, <1>3
    <2>2. LastOf(seq, n) = last
      BY <1>1, <1>3 DEF LastOf
    <2>3. /\ last \in Seq(Nat) /\ Len(last) = n
          /\ \A i \in 1..n : last[i] = seq[k + i]
      <3>1. \A i \in (k + 1)..Len(seq) : seq[i] \in Nat
        BY <1>1, <2>1
      <3>2. /\ last \in Seq(Nat)
            /\ Len(last) = IF k + 1 <= Len(seq) THEN Len(seq) - (k + 1) + 1 ELSE 0
            /\ \A i \in 1..Len(seq) - (k + 1) + 1 : last[i] = seq[(k + 1) + i - 1]
        BY <1>1, <2>1, <3>1, SubSeqProperties, SMTT(30)
      <3> HIDE DEF last
      <3>3. Len(last) = n /\ \A i \in 1..n : last[i] = seq[(k + 1) + i - 1]
        BY <1>1, <2>1, <3>2
      <3>4. \A i \in 1..n : (k + 1) + i - 1 = k + i
        BY <2>1
      <3> QED BY <3>2, <3>3, <3>4
    <2>4. ASSUME NEW i \in 1..n
          PROVE  last[i] = (to - n) + i
      <3>1. k + i \in 1..Len(seq)
        BY <1>1, <2>1
      <3>2. seq[k + i] = from + (k + i)
        BY <3>1 DEF Counts
      <3> HIDE DEF last
      <3> QED BY <1>1, <2>1, <2>3, <3>2
    <2>5. to - n \in Nat
      BY <1>1, <1>3
    <2> HIDE DEF last
    <2> QED BY <1>1, <1>3, <2>2, <2>3, <2>4, <2>5 DEF Counts
  <1> QED BY <1>1, <1>2, <1>3

\* Two of them with the same ends are the same.
LEMMA CountsSame ==
    ASSUME NEW a, NEW b, NEW from, NEW to, Counts(a, from, to), Counts(b, from, to)
    PROVE  a = b
  <1>1. a \in Seq(Nat) /\ b \in Seq(Nat) /\ Len(a) = Len(b)
    BY DEF Counts
  <1>2. \A i \in 1..Len(a) : a[i] = b[i]
    BY <1>1 DEF Counts
  <1> QED BY <1>1, <1>2, SMTT(30)

LEMMA CountsUpTo == \A n \in Nat : Counts([k \in 1..n |-> k], 0, n)
  BY DEF Counts

----------------------------------------------------------------------------
(* The types of the child process *)

LEMMA LastOfType ==
    ASSUME NEW S, NEW seq \in Seq(S), NEW n \in Nat \ {0}
    PROVE  LastOf(seq, n) \in Seq(S) /\ Len(LastOf(seq, n)) <= n
  <1>1. Len(seq) \in Nat /\ \A i \in 1..Len(seq) : seq[i] \in S
    OBVIOUS
  <1>2. CASE Len(seq) <= n
    BY <1>2 DEF LastOf
  <1>3. CASE Len(seq) > n
    <2>1. /\ SubSeq(seq, Len(seq) - n + 1, Len(seq)) \in Seq(S)
          /\ Len(SubSeq(seq, Len(seq) - n + 1, Len(seq))) = n
      BY <1>1, <1>3, SubSeqProperties
    <2> QED BY <1>1, <1>3, <2>1 DEF LastOf
  <1> QED BY <1>1, <1>2, <1>3

LEMMA ChildTypesInit == Init => ChildTypeOK
  <1>1. /\ <<>> \in Chunks /\ Len(<<>>) = 0
        /\ PipeSize \in Nat /\ TailSize \in Nat /\ MaxOutput \in Nat /\ MaxErrors \in Nat
    BY ChildProcessAssumption DEF Chunks
  <1> SUFFICES ASSUME Init PROVE ChildTypeOK
    OBVIOUS
  <1>2. /\ pipe \in [Streams -> Chunks] /\ buf \in [Streams -> Chunks]
        /\ \A s \in Streams : Len(pipe[s]) <= PipeSize /\ Len(buf[s]) <= TailSize
    BY <1>1 DEF Init
  <1>3. /\ written \in [Streams -> 0..MaxOutput] /\ errors \in 0..MaxErrors
        /\ drainer \in [Streams -> {"reading", "ended", "failed"}]
    BY <1>1 DEF Init
  <1> QED BY <1>2, <1>3 DEF Init, ChildTypeOK, Exits

LEMMA ChildTypesStep == ChildTypeOK /\ [Next]_vars => ChildTypeOK'
  <1> SUFFICES ASSUME ChildTypeOK, [Next]_vars PROVE ChildTypeOK'
    OBVIOUS
  <1> USE ChildProcessAssumption
  <1>1. ASSUME NEW s \in Streams, Write(s)
        PROVE  /\ pipe' \in [Streams -> Chunks] /\ written' \in [Streams -> 0..MaxOutput]
               /\ \A x \in Streams : Len(pipe'[x]) <= PipeSize
    <2>1. /\ pipe[s] \in Chunks /\ written[s] + 1 \in 1..MaxOutput
          /\ Len(pipe[s]) + 1 <= PipeSize
      BY <1>1 DEF Write, ChildTypeOK, Chunks
    <2>2. /\ Append(pipe[s], written[s] + 1) \in Chunks
          /\ Len(Append(pipe[s], written[s] + 1)) <= PipeSize
      BY <2>1 DEF Chunks
    <2> QED BY <1>1, <2>1, <2>2 DEF Write, ChildTypeOK
  <1>2. CASE Work \/ Environment
    <2>1. ASSUME NEW s \in Streams, ChildWrites(s) \/ DescendantWrites(s)
          PROVE  ChildTypeOK'
      <3>1. todo' \in [Streams -> 0..MaxOutput]
        <4>1. CASE ChildWrites(s)
          <5>1. todo[s] \in 0..MaxOutput /\ todo[s] > 0 /\ MaxOutput \in Nat
            BY <4>1 DEF ChildTypeOK, ChildWrites
          <5>2. todo[s] - 1 \in 0..MaxOutput
            BY <5>1
          <5> QED BY <4>1, <5>2 DEF ChildTypeOK, ChildWrites
        <4>2. CASE DescendantWrites(s)
          BY <4>2 DEF ChildTypeOK, DescendantWrites
        <4> QED BY <2>1, <4>1, <4>2
      <3>2. Write(s) /\ UNCHANGED <<child, holders, buf, drainer, caller, killed, exit, errors>>
        BY <2>1 DEF ChildWrites, DescendantWrites
      <3>3. /\ pipe' \in [Streams -> Chunks] /\ written' \in [Streams -> 0..MaxOutput]
            /\ \A x \in Streams : Len(pipe'[x]) <= PipeSize
        BY <1>1, <3>2
      <3> QED BY <3>1, <3>2, <3>3 DEF ChildTypeOK
    <2>2. ASSUME NEW d \in Descendants, ChildForks(d) \/ DescendantEnds(d)
          PROVE  ChildTypeOK'
      BY <2>2 DEF ChildTypeOK, ChildForks, DescendantEnds
    <2>3. CASE ChildExits \/ ChildSignalled
      BY <2>3 DEF ChildTypeOK, ChildExits, ChildSignalled, Codes
    <2> QED BY <1>2, <2>1, <2>2, <2>3 DEF Work, Environment
  <1>3. CASE Waiting \/ Kill
    <2>1. Classified \in Exits
      BY DEF Classified, Exits
    <2>2. CASE TryWait
      BY <2>2 DEF ChildTypeOK, TryWait, Exits
    <2>3. CASE JoinStdout
      BY <2>3 DEF ChildTypeOK, JoinStdout
    <2>4. CASE JoinStderr
      BY <2>1, <2>4 DEF ChildTypeOK, JoinStderr
    <2>5. CASE Kill
      BY <2>5 DEF ChildTypeOK, Kill, Codes
    <2> QED BY <1>3, <2>2, <2>3, <2>4, <2>5 DEF Waiting
  <1>4. ASSUME NEW s \in Streams, Drain(s)
        PROVE  ChildTypeOK'
    <2>1. buf[s] \o pipe[s] \in Chunks
      BY <1>4 DEF ChildTypeOK, Chunks
    <2>2. /\ LastOf(buf[s] \o pipe[s], TailSize) \in Chunks
          /\ Len(LastOf(buf[s] \o pipe[s], TailSize)) <= TailSize
      BY <2>1, LastOfType DEF Chunks
    <2>3. <<>> \in Chunks /\ Len(<<>>) <= PipeSize
      BY DEF Chunks
    <2> QED BY <1>4, <2>2, <2>3 DEF ChildTypeOK, Drain
  <1>5. ASSUME NEW s \in Streams, DrainerEnds(s)
        PROVE  ChildTypeOK'
    <2>1. PICK how \in {"ended", "failed"} : drainer' = [drainer EXCEPT ![s] = how]
      BY <1>5 DEF DrainerEnds
    <2>2. errors' \in 0..MaxErrors
      BY <1>5 DEF ChildTypeOK, DrainerEnds
    <2>3. drainer' \in [Streams -> {"reading", "ended", "failed"}]
      BY <2>1 DEF ChildTypeOK
    <2> QED BY <1>5, <2>2, <2>3 DEF ChildTypeOK, DrainerEnds
  <1>6. CASE UNCHANGED vars
    BY <1>6 DEF ChildTypeOK, vars
  <1> QED BY <1>2, <1>3, <1>4, <1>5, <1>6 DEF Next

\* The pipes and the kept output never outgrow their sizes, and nothing else
\* leaves its type either (spawn_drainer).
THEOREM ChildTypesCorrect == Spec => []ChildTypeOK
  BY ChildTypesInit, ChildTypesStep, PTL DEF Spec

----------------------------------------------------------------------------
(* What arrives of the output *)

LEMMA ChildInvInit == Init => ChildInv
  <1> SUFFICES ASSUME Init PROVE ChildInv
    OBVIOUS
  <1>1. StreamInv
    BY ChildProcessAssumption, CountsEmpty DEF Init, StreamInv, Read
  <1> QED BY <1>1 DEF Init, ChildInv, OutputInv, JoinInv, Codes

\* A chunk goes to the end of the pipe.
LEMMA WriteKeeps ==
    ASSUME ChildTypeOK, StreamInv, NEW s \in Streams, Write(s), UNCHANGED buf
    PROVE  StreamInv'
  <1> SUFFICES ASSUME NEW x \in Streams
               PROVE  /\ Counts(pipe[x], Read(x), written[x])'
                      /\ (Read(x) = Read(x)') /\ buf'[x] = buf[x]
    BY DEF StreamInv
  <1>1. /\ pipe[s] \in Seq(1..MaxOutput) /\ written[s] \in Nat
        /\ written'[s] = written[s] + 1 /\ pipe'[s] = Append(pipe[s], written[s] + 1)
        /\ x # s => written'[x] = written[x] /\ pipe'[x] = pipe[x]
    BY DEF ChildTypeOK, Write, Chunks
  <1>2. Counts(pipe[x], Read(x), written[x])
    BY DEF StreamInv
  <1>3. CASE x = s
    <2>1. Len(pipe'[s]) = Len(pipe[s]) + 1 /\ Len(pipe[s]) \in Nat
      BY <1>1
    <2>2. Counts(pipe'[s], Read(s), written[s] + 1)
      BY <1>1, <1>2, <1>3, CountsAppend
    <2>3. Read(s)' = Read(s)
      BY <1>1, <2>1 DEF Read
    <2>4. buf' = buf
      OBVIOUS
    <2> QED BY <1>1, <1>3, <2>2, <2>3, <2>4
  <1>4. CASE x # s
    BY <1>1, <1>2, <1>4 DEF Read
  <1> QED BY <1>3, <1>4

\* What is kept of what was kept before and what is new.
LEMMA DrainedCounts ==
    ASSUME NEW kept, NEW new, NEW mid, NEW to, NEW size \in Nat \ {0},
           Counts(kept, mid - Len(kept), mid), Counts(new, mid, to),
           Len(kept) <= size, Len(kept) < size => mid = Len(kept)
    PROVE  LET last == LastOf(kept \o new, size)
           IN  /\ Counts(last, to - Len(last), to)
               /\ Len(last) <= size
               /\ Len(last) < size => to = Len(last)
  <1> DEFINE all == kept \o new
             last == LastOf(all, size)
  <1>1. /\ kept \in Seq(Nat) /\ new \in Seq(Nat) /\ mid \in Nat /\ to \in Nat
        /\ Len(kept) \in Nat /\ Len(new) \in Nat /\ to = mid + Len(new)
    BY DEF Counts
  <1>2. Len(all) = Len(kept) + Len(new) /\ Len(all) \in Nat
    BY <1>1
  <1>3. PICK from : Counts(all, from, to)
    BY CountsConcat
  <1> HIDE DEF all
  <1>4. /\ Counts(last, to - Len(last), to)
        /\ Len(all) <= size => last = all
        /\ Len(all) > size => Len(last) = size
    BY <1>3, CountsLast
  <1> HIDE DEF last
  <1>5. CASE Len(all) <= size
    <2>1. last = all /\ Len(last) = Len(kept) + Len(new)
      BY <1>2, <1>4, <1>5
    <2>2. Len(last) < size => Len(kept) < size
      BY <1>1, <2>1
    <2> QED BY <1>1, <1>2, <1>4, <1>5, <2>1, <2>2 DEF all, last
  <1>6. CASE ~(Len(all) <= size)
    BY <1>2, <1>4, <1>6 DEF all, last
  <1> QED BY <1>5, <1>6

\* What is read follows what was read before.
LEMMA DrainKeeps ==
    ASSUME ChildTypeOK, StreamInv, NEW s \in Streams, Drain(s)
    PROVE  StreamInv'
  <1> SUFFICES ASSUME NEW x \in Streams
               PROVE  /\ Counts(pipe'[x], Read(x)', written'[x])
                      /\ Counts(buf'[x], Read(x)' - Len(buf'[x]), Read(x)')
                      /\ Len(buf'[x]) <= TailSize
                      /\ Len(buf'[x]) < TailSize => Read(x)' = Len(buf'[x])
    BY DEF StreamInv
  <1>1. /\ written' = written
        /\ pipe'[s] = <<>> /\ buf'[s] = LastOf(buf[s] \o pipe[s], TailSize)
        /\ x # s => pipe'[x] = pipe[x] /\ buf'[x] = buf[x]
        /\ written[s] \in Nat /\ pipe[s] \in Seq(1..MaxOutput) /\ buf[s] \in Seq(1..MaxOutput)
        /\ TailSize \in Nat \ {0}
    BY ChildProcessAssumption DEF ChildTypeOK, Drain, Chunks
  <1>2. /\ Counts(pipe[x], Read(x), written[x])
        /\ Counts(buf[x], Read(x) - Len(buf[x]), Read(x))
        /\ Len(buf[x]) <= TailSize
        /\ Len(buf[x]) < TailSize => Read(x) = Len(buf[x])
    BY DEF StreamInv
  <1>3. CASE x = s
    <2>1. Read(s)' = written[s]
      BY <1>1 DEF Read
    <2>2. /\ Counts(buf'[s], written[s] - Len(buf'[s]), written[s])
          /\ Len(buf'[s]) <= TailSize
          /\ Len(buf'[s]) < TailSize => written[s] = Len(buf'[s])
      BY <1>1, <1>2, <1>3, DrainedCounts, SMTT(30)
    <2> QED BY <1>1, <1>3, <2>1, <2>2, CountsEmpty
  <1>4. CASE x # s
    BY <1>1, <1>2, <1>4 DEF Read
  <1> QED BY <1>3, <1>4

LEMMA ChildInvStep == ChildTypeOK /\ ChildInv /\ [Next]_vars => ChildInv'
  <1> SUFFICES ASSUME ChildTypeOK, ChildInv, [Next]_vars PROVE ChildInv'
    OBVIOUS
  <1>1. StreamInv'
    <2>1. CASE UNCHANGED <<pipe, written, buf>>
      BY <2>1 DEF ChildInv, StreamInv, Read
    <2>2. CASE \E s \in Streams : ChildWrites(s) \/ DescendantWrites(s)
      BY <2>2, WriteKeeps DEF ChildInv, ChildWrites, DescendantWrites
    <2>3. CASE \E s \in Streams : Drain(s)
      BY <2>3, DrainKeeps DEF ChildInv
    <2> QED BY <2>1, <2>2, <2>3
            DEF Next, Work, Environment, Waiting, Kill, ChildExits, ChildSignalled, ChildForks,
                DescendantEnds, TryWait, JoinStdout, JoinStderr, DrainerEnds, vars
  <1>2. OutputInv'
    <2>1. ASSUME NEW s \in Streams, ChildWrites(s)
          PROVE  OutputInv'
      BY <2>1 DEF OutputInv, ChildWrites, Codes
    <2>2. CASE ChildExits
      BY <2>2 DEF OutputInv, ChildExits
    <2>3. CASE Kill \/ ChildSignalled
      BY <2>3 DEF ChildInv, OutputInv, Kill, ChildSignalled
    <2>4. ASSUME NEW s \in Streams, DrainerEnds(s)
          PROVE  OutputInv'
      <3>1. \A x \in Streams : drainer[x] = "failed" => drainer'[x] = "failed"
        BY <2>4 DEF DrainerEnds, ChildTypeOK
      <3> QED BY <2>4, <3>1 DEF ChildInv, OutputInv, DrainerEnds
    <2>5. CASE UNCHANGED <<child, todo, drainer>>
      BY <2>5 DEF ChildInv, OutputInv
    <2> QED BY <2>1, <2>2, <2>3, <2>4, <2>5
            DEF Next, Work, Environment, Waiting, ChildForks, DescendantEnds, DescendantWrites,
                TryWait, JoinStdout, JoinStderr, Drain, vars
  <1>3. JoinInv'
    <2>1. "stdout" \in Streams /\ "stderr" \in Streams /\ Streams = {"stdout", "stderr"}
      BY DEF Streams
    <2>3. JoinInv
      BY DEF ChildInv
    <2>4. ASSUME NEW s \in Streams, ChildWrites(s) \/ DescendantWrites(s) \/ Drain(s)
          PROVE  JoinInv'
      <3>1. drainer[s] = "reading" /\ UNCHANGED <<child, holders, drainer, caller, exit>>
        BY <2>4 DEF ChildWrites, DescendantWrites, Drain
      <3>2. \A x \in Streams \ {s} : pipe'[x] = pipe[x]
        BY <2>4 DEF ChildWrites, DescendantWrites, Drain, Write, ChildTypeOK
      <3> QED BY <2>3, <3>1, <3>2 DEF JoinInv, HasWriter
    <2>5. ASSUME NEW d \in Descendants, ChildForks(d) \/ DescendantEnds(d)
          PROVE  JoinInv'
      BY <2>3, <2>5 DEF JoinInv, HasWriter, ChildForks, DescendantEnds
    <2>6. ASSUME ChildExits \/ ChildSignalled PROVE JoinInv'
      BY <2>3, <2>6 DEF JoinInv, HasWriter, ChildExits, ChildSignalled, Codes
    <2>7. ASSUME Kill PROVE JoinInv'
      BY <2>3, <2>7 DEF JoinInv, HasWriter, Kill
    <2>8. ASSUME TryWait \/ JoinStdout PROVE JoinInv'
      BY <2>1, <2>3, <2>8 DEF JoinInv, HasWriter, TryWait, JoinStdout
    <2>9. ASSUME JoinStderr PROVE JoinInv'
      <3>1. /\ caller = "join_stderr" /\ drainer["stderr"] # "reading"
            /\ caller' = "over" /\ exit' = Classified
            /\ UNCHANGED <<child, holders, pipe, drainer>>
        BY <2>9 DEF JoinStderr
      <3>2. child # "running" /\ \A x \in Streams : drainer[x] # "reading"
        BY <2>1, <2>3, <3>1 DEF JoinInv
      <3>3. exit' \in {"success", "remote"} => child \in Codes \ {"signal"}
        BY <3>1, <3>2 DEF Classified, ChildTypeOK
      <3> QED BY <2>3, <3>1, <3>2, <3>3 DEF JoinInv, HasWriter
    <2>10. ASSUME NEW s \in Streams, DrainerEnds(s)
           PROVE  JoinInv'
      <3>1. /\ drainer[s] = "reading" /\ drainer'[s] # "reading"
            /\ drainer'[s] = "ended" => pipe[s] = <<>> /\ ~HasWriter
            /\ \A x \in Streams \ {s} : drainer'[x] = drainer[x]
            /\ UNCHANGED <<child, holders, pipe, caller, exit>>
        BY <2>10 DEF DrainerEnds, ChildTypeOK
      <3> QED BY <2>1, <2>3, <3>1 DEF JoinInv, HasWriter
    <2>11. ASSUME UNCHANGED vars PROVE JoinInv'
      BY <2>3, <2>11 DEF JoinInv, HasWriter, vars
    <2>12. ASSUME Work PROVE JoinInv'
      BY <2>4, <2>6, <2>12 DEF Work
    <2>13. ASSUME Environment PROVE JoinInv'
      BY <2>4, <2>5, <2>6, <2>13 DEF Environment
    <2>14. ASSUME Waiting PROVE JoinInv'
      BY <2>8, <2>9, <2>14 DEF Waiting
    <2>15. ASSUME NEW s \in Streams, Drain(s)
           PROVE  JoinInv'
      BY <2>4, <2>15
    <2> QED BY <2>7, <2>10, <2>11, <2>12, <2>13, <2>14, <2>15 DEF Next
  <1> QED BY <1>1, <1>2, <1>3 DEF ChildInv

\* What is kept of a stream is the end of what was read of it.
LEMMA KeptLemma ==
    ASSUME ChildTypeOK, StreamInv, NEW s \in Streams
    PROVE  /\ Read(s) \in 0..written[s]
           /\ buf[s] = LastOf([k \in 1..Read(s) |-> k], TailSize)
  <1>1. /\ written[s] \in Nat /\ TailSize \in Nat \ {0}
        /\ Counts(pipe[s], Read(s), written[s])
        /\ Counts(buf[s], Read(s) - Len(buf[s]), Read(s))
        /\ Len(buf[s]) <= TailSize
        /\ Len(buf[s]) < TailSize => Read(s) = Len(buf[s])
    BY ChildProcessAssumption DEF ChildTypeOK, StreamInv
  <1>2. Read(s) \in 0..written[s]
    BY <1>1 DEF Counts
  <1> DEFINE n == Read(s)
             all == [k \in 1..n |-> k]
             last == LastOf(all, TailSize)
  <1>3. n \in Nat
    BY <1>1, <1>2
  <1> HIDE DEF n
  <1>4. Counts(all, 0, n) /\ Len(all) = n
    BY <1>3, CountsUpTo
  <1> HIDE DEF all
  <1>5. /\ Counts(last, n - Len(last), n)
        /\ Len(all) <= TailSize => last = all
        /\ Len(all) > TailSize => Len(last) = TailSize
    BY <1>1, <1>4, CountsLast
  <1> HIDE DEF last
  <1>6. /\ Counts(buf[s], n - Len(buf[s]), n)
        /\ Len(buf[s]) <= TailSize
        /\ Len(buf[s]) < TailSize => n = Len(buf[s])
    BY <1>1 DEF n
  <1>7. Len(buf[s]) = Len(last)
    <2>1. Len(buf[s]) \in Nat /\ Len(buf[s]) <= n
      BY <1>3, <1>6 DEF Counts
    <2> QED BY <1>1, <1>3, <1>4, <1>5, <1>6, <2>1
  <1>8. buf[s] = last
    BY <1>5, <1>6, <1>7, CountsSame
  <1> QED BY <1>2, <1>8 DEF all, last, n

LEMMA WholeInvariant == ChildTypeOK /\ ChildInv => AnswerIsWhole
  <1> SUFFICES ASSUME ChildTypeOK, ChildInv, exit \in {"success", "remote"}
               PROVE  /\ \A s \in Streams :
                            /\ \E n \in 0..written[s] :
                                  buf[s] = LastOf([k \in 1..n |-> k], TailSize)
                            /\ drainer[s] # "failed" =>
                                  buf[s] = LastOf([k \in 1..written[s] |-> k], TailSize)
                      /\ (\A s \in Streams : drainer[s] # "failed") =>
                            todo = [s \in Streams |-> 0]
    BY DEF AnswerIsWhole
  <1>1. child \in Codes \ {"signal"} /\ \A s \in Streams : drainer[s] # "reading"
    BY DEF ChildInv, JoinInv
  <1>2. (\A s \in Streams : drainer[s] # "failed") => todo = [s \in Streams |-> 0]
    BY <1>1 DEF ChildInv, OutputInv
  <1>3. ASSUME NEW s \in Streams
        PROVE  /\ \E n \in 0..written[s] : buf[s] = LastOf([k \in 1..n |-> k], TailSize)
               /\ drainer[s] # "failed" =>
                     buf[s] = LastOf([k \in 1..written[s] |-> k], TailSize)
    <2>1. /\ Read(s) \in 0..written[s]
          /\ buf[s] = LastOf([k \in 1..Read(s) |-> k], TailSize)
      BY KeptLemma DEF ChildInv
    <2>2. drainer[s] # "failed" => Read(s) = written[s]
      <3> SUFFICES ASSUME drainer[s] # "failed" PROVE Read(s) = written[s]
        OBVIOUS
      <3>1. drainer[s] = "ended"
        BY <1>1 DEF ChildTypeOK
      <3>2. pipe[s] = <<>> /\ written[s] \in Nat
        BY <3>1, ChildProcessAssumption DEF ChildInv, JoinInv, ChildTypeOK
      <3> QED BY <3>2 DEF Read
    <2> QED BY <2>1, <2>2
  <1> QED BY <1>2, <1>3

\* A success and a remote failure, whose stdout is read for an answer, come with all that was
\* written, up to the tail that is kept, or, of a pipe whose read failed, with the end of a
\* beginning of it, whatever the sizes, the descendants and their output (try_wait,
\* spawn_drainer).
THEOREM AnswersAreWhole == Spec => []AnswerIsWhole
  <1>1. ChildTypeOK /\ ChildInv /\ [Next]_vars => (ChildTypeOK /\ ChildInv)'
    BY ChildTypesStep, ChildInvStep
  <1> QED BY ChildTypesInit, ChildInvInit, <1>1, WholeInvariant, PTL DEF Spec

----------------------------------------------------------------------------
(* What the client takes an answer for *)

Fields == {"pc", "command", "name", "chosen", "sent", "heard", "server", "done", "refusal",
           "exit", "output", "outcome"}

LEMMA FieldsLemma == DOMAIN Idle = Fields
  BY DEF Idle, Fields

LEMMA CallInvInit == RemoteInit => CallInv
  <1> SUFFICES ASSUME RemoteInit PROVE CallInv
    OBVIOUS
  <1>1. call = Idle \/ call = [Idle EXCEPT !.pc = "over"]
    BY DEF RemoteInit, CallInit, CallAtRest
  <1>2. /\ DOMAIN call = DOMAIN Idle
        /\ call.command = "version" /\ call.server = [protocol |-> TRUE, compatible |-> TRUE]
        /\ call.refusal = None /\ call.done = FALSE /\ call.exit = None
        /\ call.output = NoOutput /\ call.outcome = None
    <2>1. CASE call = Idle
      BY <2>1 DEF Idle
    <2>2. CASE call = [Idle EXCEPT !.pc = "over"]
      BY <2>2 DEF Idle
    <2> QED BY <1>1, <2>1, <2>2
  <1>3. NoOutput.form = "empty" /\ None # "0" /\ "version" \in Commands
    BY DEF NoOutput, None, Commands, Asked
  <1> QED BY <1>2, <1>3 DEF CallInv

\* While the command is under way there is nothing to be said of its end.
UnderWay == call.pc \notin {"exited", "arrived", "over"}

LEMMA UnderWayKeeps ==
    ASSUME CallInv, UnderWay, UnderWay', DOMAIN call' = DOMAIN call,
           call'.command \in Commands, call'.server \in [protocol : BOOLEAN, compatible : BOOLEAN],
           call'.done = call.done, call'.refusal = call.refusal, call'.exit = call.exit,
           call'.output = call.output
    PROVE  CallInv'
  <1>1. NoOutput.form = "empty" /\ None # "0"
    BY DEF NoOutput, None
  <1> QED BY <1>1 DEF CallInv, UnderWay

\* The end of the server's process, or of the remote shell.
LEMMA EndKeeps ==
    ASSUME CallInv, call'.pc \in {"exited", "arrived"}, DOMAIN call' = DOMAIN call,
           call'.command = call.command, call'.server = call.server,
           call'.refusal \in Failures \cup {None}, call'.refusal # None => ~call'.done,
           call'.exit = "0" => call'.done,
           \/ call'.output.form \in {"empty", "noise"}
           \/ call'.output = Response(call.server, call.command) /\ call'.done
           \/ call'.output = Envelope(call.server, call.command, call'.refusal) /\ call'.refusal # None,
           /\ call'.refusal # None /\ call.command \in ProtocolCommands
           /\ ExitClass(call'.exit) = "remote_failure"
           => call'.output.form \in {"envelope", "noise"}
    PROVE  CallInv'
  BY DEF CallInv, Response, Envelope, ExitClass

LEMMA RefusesKeeps ==
    ASSUME CallInv, UnderWay, NEW code \in Failures, NEW output,
           Refuses("1", output, code),
           output = IF call.command \in ProtocolCommands
                    THEN Envelope(call.server, call.command, code) ELSE NoOutput
    PROVE  CallInv'
  <1>1. /\ call'.pc = "exited" /\ DOMAIN call' = DOMAIN call
        /\ call'.command = call.command /\ call'.server = call.server /\ call'.done = call.done
        /\ call'.exit = "1" /\ call'.output = output /\ call'.refusal = code
    BY FieldsLemma DEF CallInv, Refuses, Fields
  <1>2. ~call.done /\ code # None /\ "1" # "0"
    BY DEF CallInv, UnderWay, Failures, None
  <1>3. /\ NoOutput.form = "empty"
        /\ Envelope(call.server, call.command, code).form = "envelope"
    BY DEF NoOutput, Envelope
  <1> QED BY <1>1, <1>2, <1>3, EndKeeps

LEMMA CallInvStep == CallInv /\ CallNext => CallInv'
  <1> SUFFICES ASSUME CallInv, CallNext PROVE CallInv'
    OBVIOUS
  <1>1. /\ DOMAIN call = Fields
        /\ call.command \in Commands /\ call.server \in [protocol : BOOLEAN, compatible : BOOLEAN]
        /\ UnderWay => ~call.done /\ call.refusal = None /\ call.exit = None /\ call.output = NoOutput
    BY FieldsLemma DEF CallInv, UnderWay
  <1>2. NoOutput.form = "empty" /\ None \notin Failures /\ None # "0"
    BY DEF NoOutput, None, Failures
  <1>3. CASE ChooseNickname
    <2>1. PICK command \in Asked :
             \/ \E text \in Texts(NameSize) :
                  call' = IF NicknameSound(text)
                          THEN [call EXCEPT !.pc = "named", !.command = command, !.name = text]
                          ELSE [call EXCEPT !.pc = "over", !.outcome = "refused_locally"]
             \/ \E user, host \in Texts(NameSize - 1) \cup {Unknown} :
                  call' = [call EXCEPT !.pc = "named", !.command = command, !.chosen = TRUE,
                                      !.name = AutoNickname(user, host)]
      BY <1>3 DEF ChooseNickname
    <2>2. UnderWay /\ command \in Commands
      BY <1>3 DEF ChooseNickname, UnderWay, Commands
    <2>3. CASE call' = [call EXCEPT !.pc = "over", !.outcome = "refused_locally"]
      <3>1. /\ DOMAIN call' = DOMAIN call /\ call'.outcome = "refused_locally"
            /\ call'.command = call.command /\ call'.server = call.server
            /\ call'.done = call.done /\ call'.refusal = call.refusal /\ call'.exit = call.exit
            /\ call'.output = call.output
        BY <1>1, <2>3 DEF Fields
      <3> QED BY <1>1, <1>2, <2>2, <3>1 DEF CallInv
    <2>4. ASSUME NEW name, NEW chosen,
                 call' = [call EXCEPT !.pc = "named", !.command = command, !.chosen = chosen,
                                      !.name = name]
          PROVE  CallInv'
      <3>1. /\ DOMAIN call' = DOMAIN call /\ call'.pc = "named"
            /\ call'.command = command /\ call'.server = call.server
            /\ call'.done = call.done /\ call'.refusal = call.refusal /\ call'.exit = call.exit
            /\ call'.output = call.output
        BY <1>1, <2>4 DEF Fields
      <3> QED BY <1>1, <2>2, <3>1, UnderWayKeeps DEF UnderWay
    <2>5. ASSUME NEW name, call' = [call EXCEPT !.pc = "named", !.command = command, !.name = name]
          PROVE  CallInv'
      <3>1. /\ DOMAIN call' = DOMAIN call /\ call'.pc = "named"
            /\ call'.command = command /\ call'.server = call.server
            /\ call'.done = call.done /\ call'.refusal = call.refusal /\ call'.exit = call.exit
            /\ call'.output = call.output
        BY <1>1, <2>5 DEF Fields
      <3> QED BY <1>1, <2>2, <3>1, UnderWayKeeps DEF UnderWay
    <2> QED BY <2>1, <2>3, <2>4, <2>5
  <1>4. CASE Operate \/ Call \/ (Shell /\ call'.pc = "started") \/ (Parse /\ call'.pc = "parsed")
             \/ (LoadConfig /\ call'.pc \in {"loaded", "run"}) \/ (Validate /\ call'.pc = "run")
    <2> SUFFICES /\ DOMAIN call' = DOMAIN call /\ UnderWay /\ UnderWay'
                 /\ call'.done = call.done /\ call'.refusal = call.refusal
                 /\ call'.exit = call.exit /\ call'.output = call.output
                 /\ call'.command \in Commands
                 /\ call'.server \in [protocol : BOOLEAN, compatible : BOOLEAN]
      BY UnderWayKeeps
    <2>0. /\ \A status, text : Replies(status, text) => call'.pc = "exited"
          /\ ConfigFailure => call'.pc = "exited"
      BY <1>1 DEF Replies, ConfigFailure, Refuses, Fields
    <2>1. CASE Operate
      BY <1>1, <2>1 DEF Operate, Fields, UnderWay, Commands
    <2>2. CASE Call
      BY <1>1, <2>2 DEF Call, Fields, UnderWay
    <2>3. CASE Shell /\ call'.pc = "started"
      BY <1>1, <2>3 DEF Shell, Replies, Fields, UnderWay
    <2>4. CASE Parse /\ call'.pc = "parsed"
      <3>1. CallGoes("parsed") /\ UnderWay
        BY <2>0, <2>4 DEF Parse, UnderWay
      <3> QED BY <1>1, <3>1 DEF CallGoes, Fields, UnderWay
    <2>5. CASE LoadConfig /\ call'.pc \in {"loaded", "run"}
      <3>1. \E pc \in {"loaded", "run"} : CallGoes(pc)
        BY <2>0, <2>5 DEF LoadConfig
      <3>2. UnderWay
        BY <2>5 DEF LoadConfig, UnderWay
      <3> QED BY <1>1, <3>1, <3>2 DEF CallGoes, Fields, UnderWay
    <2>6. CASE Validate /\ call'.pc = "run"
      <3>1. CallGoes("run")
        BY <1>1, <2>6 DEF Validate, Refuses, Fields
      <3>2. UnderWay
        BY <2>6 DEF Validate, UnderWay
      <3> QED BY <1>1, <3>1, <3>2 DEF CallGoes, Fields, UnderWay
    <2> QED BY <1>4, <2>1, <2>2, <2>3, <2>4, <2>5, <2>6
  <1>5. CASE UnderWay /\ (Replies("127", NoOutput) \/ Replies("2", NoOutput))
    <2>1. /\ call'.pc = "exited" /\ DOMAIN call' = DOMAIN call
          /\ call'.command = call.command /\ call'.server = call.server
          /\ call'.done = call.done /\ call'.refusal = call.refusal
          /\ call'.exit \in {"127", "2"} /\ call'.output = NoOutput
      BY <1>1, <1>5 DEF Replies, Fields
    <2> QED BY <1>1, <1>2, <1>5, <2>1, EndKeeps
  <1>6. CASE UnderWay /\ ConfigFailure
    BY <1>6, RefusesKeeps DEF ConfigFailure, Failures
  <1>7. CASE Validate /\ call'.pc # "run"
    <2>1. UnderWay
      BY <1>7 DEF Validate, UnderWay
    <2>2. /\ call.command \in ProtocolCommands
          /\ Refuses("1", Envelope(call.server, call.command, "invalid_request"), "invalid_request")
      BY <1>1, <1>7 DEF Validate, CallGoes, Fields
    <2> QED BY <2>1, <2>2, RefusesKeeps DEF Failures
  <1>8. CASE Run
    <2>1. UnderWay
      BY <1>8 DEF Run, UnderWay
    <2>2. CASE call' = [call EXCEPT !.pc = "exited", !.exit = "0", !.done = TRUE,
                                    !.output = Response(call.server, call.command)]
      <3>1. /\ call'.pc = "exited" /\ DOMAIN call' = DOMAIN call
            /\ call'.command = call.command /\ call'.server = call.server
            /\ call'.done = TRUE /\ call'.refusal = call.refusal
            /\ call'.exit = "0" /\ call'.output = Response(call.server, call.command)
        BY <1>1, <2>2 DEF Fields
      <3> QED BY <1>1, <1>2, <2>1, <3>1, EndKeeps
    <2>3. ErrorCode(call.command) \in Failures
      BY DEF ErrorCode, Failures
    <2> QED BY <1>8, <2>1, <2>2, <2>3, RefusesKeeps DEF Run
  <1>9. CASE Dies
    <2>1. PICK done \in BOOLEAN :
              call' = [call EXCEPT !.pc = "exited", !.exit = "255", !.done = done]
      BY <1>9 DEF Dies
    <2>2. UnderWay
      BY <1>9 DEF Dies, UnderWay
    <2>3. /\ call'.pc = "exited" /\ DOMAIN call' = DOMAIN call
          /\ call'.command = call.command /\ call'.server = call.server
          /\ call'.refusal = call.refusal /\ call'.exit = "255" /\ call'.output = call.output
      BY <1>1, <2>1 DEF Fields
    <2> QED BY <1>1, <1>2, <2>2, <2>3, EndKeeps
  <1>10. CASE Disturbed \/ Arrives
    <2>1. /\ call'.pc = "arrived" /\ DOMAIN call' = DOMAIN call
          /\ call'.command = call.command /\ call'.server = call.server
          /\ call'.done = call.done /\ call'.refusal = call.refusal
          /\ \/ call'.exit = "255" /\ call'.output = NoOutput
             \/ call'.exit = "signal" /\ call'.output = call.output
             \/ call'.exit = call.exit /\ call'.output = [NoOutput EXCEPT !.form = "noise"]
             \/ call'.exit = call.exit /\ call'.output = call.output
      <3>1. CASE call' = [call EXCEPT !.pc = "arrived", !.exit = "255", !.output = NoOutput]
        BY <1>1, <3>1 DEF Fields
      <3>2. CASE call' = [call EXCEPT !.pc = "arrived", !.exit = "signal"]
        BY <1>1, <3>2 DEF Fields
      <3>3. CASE call' = [call EXCEPT !.pc = "arrived", !.output = [NoOutput EXCEPT !.form = "noise"]]
        BY <1>1, <3>3 DEF Fields
      <3>4. CASE call' = [call EXCEPT !.pc = "arrived"]
        BY <1>1, <3>4 DEF Fields
      <3> QED BY <1>10, <3>1, <3>2, <3>3, <3>4 DEF Disturbed, Arrives, CallGoes
    <2>2. [NoOutput EXCEPT !.form = "noise"].form = "noise"
      BY DEF NoOutput
    <2>3. ExitClass("255") # "remote_failure" /\ ExitClass("signal") # "remote_failure"
      BY DEF ExitClass
    <2> QED BY <1>2, <2>1, <2>2, <2>3, EndKeeps DEF CallInv
  <1>11. CASE Classify
    <2>1. /\ call'.pc = "over" /\ DOMAIN call' = DOMAIN call
          /\ call'.command = call.command /\ call'.server = call.server
          /\ call'.done = call.done /\ call'.refusal = call.refusal
          /\ call'.exit = call.exit /\ call'.output = call.output
          /\ call'.outcome = Outcome(call.exit, call.output, call.command)
      BY <1>1, <1>11 DEF Fields, Classify
    <2> QED BY <2>1 DEF CallInv
  <1>12. CASE WriteRemoteFile
    BY <1>12 DEF WriteRemoteFile, CallInv
  <1>13. CASE Shell
    <2>1. UnderWay
      BY <1>13 DEF Shell, UnderWay
    <2>2. call'.pc = "started" \/ Replies("127", NoOutput)
      BY <1>1, <1>13 DEF Shell, Fields
    <2> QED BY <1>4, <1>5, <1>13, <2>1, <2>2
  <1>14. CASE Parse
    <2>1. UnderWay
      BY <1>14 DEF Parse, UnderWay
    <2>2. call'.pc = "parsed" \/ Replies("2", NoOutput)
      BY <1>1, <1>14 DEF Parse, CallGoes, Fields
    <2> QED BY <1>4, <1>5, <1>14, <2>1, <2>2
  <1>15. CASE LoadConfig
    <2>1. UnderWay
      BY <1>15 DEF LoadConfig, UnderWay
    <2>2. call'.pc \in {"loaded", "run"} \/ ConfigFailure
      BY <1>1, <1>15 DEF LoadConfig, CallGoes, Fields
    <2> QED BY <1>4, <1>6, <1>15, <2>1, <2>2
  <1> QED
    BY <1>3, <1>4, <1>7, <1>8, <1>9, <1>10, <1>11, <1>12, <1>13, <1>14, <1>15 DEF CallNext

LEMMA OutcomeInvariant == CallInv => OutcomesAreTrue
  <1> SUFFICES ASSUME CallInv, call.pc = "over"
               PROVE  /\ call.outcome = "ok" =>
                            /\ call.done
                            /\ call.command \in VersionedAnswers => call.server.compatible
                            /\ call.command \in ProtocolAnswers => call.server.protocol
                      /\ call.outcome \in Failures => ~call.done /\ call.refusal = call.outcome
                      /\ /\ call.refusal # None /\ call.command \in ProtocolCommands
                         /\ call.server.protocol /\ call.server.compatible
                         /\ ExitClass(call.exit) = "remote_failure" /\ call.output.form # "noise"
                         => call.outcome = call.refusal
    BY DEF OutcomesAreTrue
  <1>1. CASE call.outcome \in {None, "refused_locally"} /\ call.refusal = None
    BY <1>1 DEF None, Failures
  <1>2. CASE call.outcome = Outcome(call.exit, call.output, call.command)
    <2>1. CASE ExitClass(call.exit) = "success"
      <3>1. call.exit = "0" /\ call.done
        BY <2>1 DEF ExitClass, CallInv
      <3>2. call.outcome = IF ResponseAccepted(call.output, call.command) THEN "ok" ELSE "bad_response"
        BY <1>2, <2>1 DEF Outcome
      <3>3. call.output.form = "response" => call.output = Response(call.server, call.command)
        BY DEF CallInv, Envelope
      <3> QED BY <2>1, <3>1, <3>2, <3>3
              DEF ResponseAccepted, Response, Failures, ProtocolAnswers, VersionedAnswers
    <2>2. CASE ExitClass(call.exit) = "remote_failure"
      <3>1. call.outcome = IF EnvelopeAccepted(call.output, call.command) THEN call.output.code
                           ELSE "unclear"
        BY <1>2, <2>2 DEF Outcome
      <3>2. call.output.form = "envelope" =>
                /\ call.output = Envelope(call.server, call.command, call.refusal)
                /\ call.refusal # None
        BY DEF CallInv, Response
      <3> QED BY <2>2, <3>1, <3>2 DEF EnvelopeAccepted, Envelope, Failures, CallInv
    <2>3. CASE ExitClass(call.exit) \in {"transport", "signaled"}
      BY <1>2, <2>3 DEF Outcome, Failures
    <2> QED BY <2>1, <2>2, <2>3 DEF ExitClass
  <1> QED BY <1>1, <1>2 DEF CallInv

\* What the client takes from a call is so, whatever names and characters there
\* are and wherever the call breaks (exit_with_protocol_error,
\* into_protocol_result).
THEOREM OutcomesHold == RemoteSpec => []OutcomesAreTrue
  <1>1. CallInv /\ [RemoteNext]_<<vars, callVars>> => CallInv'
    <2>1. CallInv /\ UNCHANGED call => CallInv'
      BY DEF CallInv
    <2> QED BY CallInvStep, <2>1 DEF RemoteNext, callVars
  <1> QED BY CallInvInit, <1>1, OutcomeInvariant, PTL DEF RemoteSpec

----------------------------------------------------------------------------
(* What a shell makes of a line.  It reads the line as a fold does, which  *)
(* is so one character after the other.                                    *)

\* The states of a reading over all sets of positions, as FoldLeft defines them.
Folding(f, from, line, n) ==
    f = [s \in SUBSET (1..n) |->
            IF s = {} THEN from ELSE ShellReads(f[s \ {Max(s)}], line[Max(s)])]

LEMMA FoldingUnfolded ==
    ASSUME NEW C, NEW from, NEW line \in Seq(C)
    PROVE  FoldLeft(ShellReads, from, line) =
              (CHOOSE f : Folding(f, from, line, Len(line)))[1..Len(line)]
  <1>1. DOMAIN line = 1..Len(line)
    OBVIOUS
  <1>2. FoldLeft(ShellReads, from, line) =
          (CHOOSE f : f = [s \in SUBSET DOMAIN line |->
            IF s = {} THEN from ELSE ShellReads(f[s \ {Max(s)}], line[Max(s)])])[DOMAIN line]
    BY DEF FoldLeft, MapThenFoldSet
  <1> QED BY <1>1, <1>2 DEF Folding

LEMMA FoldingStep ==
    ASSUME NEW from, NEW line, NEW n \in Nat, NEW f, Folding(f, from, line, n)
    PROVE  \E g : Folding(g, from, line, n + 1)
  <1> DEFINE g == [s \in SUBSET (1..(n + 1)) |->
                    IF n + 1 \in s THEN ShellReads(f[s \ {n + 1}], line[n + 1]) ELSE f[s]]
             value(h, s) == IF s = {} THEN from ELSE ShellReads(h[s \ {Max(s)}], line[Max(s)])
  <1>1. \A s \in SUBSET (1..n) : f[s] = value(f, s)
    BY DEF Folding
  <1>2. ASSUME NEW s \in SUBSET (1..(n + 1))
        PROVE  g[s] = value(g, s)
    <2>1. CASE n + 1 \in s
      <3>0. n + 1 \in Nat /\ s # {}
        BY <2>1
      <3>1. Max(s) \in s /\ \A y \in s : Max(s) >= y
        BY <3>0, GreatestOf, Zenon
      <3>2. Max(s) \in 1..(n + 1) /\ Max(s) >= n + 1
        BY <2>1, <3>1
      <3>3. Max(s) = n + 1
        BY <3>2
      <3>4. s \ {n + 1} \in SUBSET (1..(n + 1)) /\ n + 1 \notin s \ {n + 1}
        OBVIOUS
      <3>5. g[s \ {n + 1}] = f[s \ {n + 1}]
        BY <3>4
      <3>6. g[s] = ShellReads(f[s \ {n + 1}], line[n + 1]) /\ s # {}
        BY <2>1
      <3> HIDE DEF g
      <3>7. g[s] = ShellReads(g[s \ {Max(s)}], line[Max(s)])
        BY <3>3, <3>5, <3>6
      <3> QED BY <3>6, <3>7, Zenon
    <2>2. CASE n + 1 \notin s
      <3>1. s \in SUBSET (1..n)
        BY <2>2
      <3>2. g[s] = f[s] /\ f[s] = value(f, s)
        BY <1>1, <2>2, <3>1
      <3>3. CASE s = {}
        BY <3>2, <3>3
      <3>4. CASE s # {}
        <4>1. s \ {Max(s)} \in SUBSET (1..(n + 1)) /\ n + 1 \notin s \ {Max(s)}
          BY <2>2
        <4>2. g[s \ {Max(s)}] = f[s \ {Max(s)}]
          BY <4>1
        <4> HIDE DEF g
        <4> QED BY <3>2, <3>4, <4>2
      <3> QED BY <3>3, <3>4
    <2> QED BY <2>1, <2>2
  <1>3. g = [s \in SUBSET (1..(n + 1)) |-> value(g, s)]
    <2>1. g = [s \in SUBSET (1..(n + 1)) |-> g[s]]
      OBVIOUS
    <2> HIDE DEF g, value
    <2> QED BY <1>2, <2>1
  <1> HIDE DEF g
  <1>4. Folding(g, from, line, n + 1)
    BY <1>3 DEF Folding
  <1> QED BY <1>4

LEMMA FoldingExists ==
    ASSUME NEW from, NEW line, NEW n \in Nat
    PROVE  \E f : Folding(f, from, line, n)
  <1> DEFINE T == {k \in Nat : \E f : Folding(f, from, line, k)}
  <1>1. 0 \in T
    <2> DEFINE f == [s \in SUBSET (1..0) |-> from]
    <2>1. \A s \in SUBSET (1..0) : s = {}
      OBVIOUS
    <2>2. f = [s \in SUBSET (1..0) |->
                 IF s = {} THEN from ELSE ShellReads(f[s \ {Max(s)}], line[Max(s)])]
      BY <2>1
    <2> HIDE DEF f
    <2>3. Folding(f, from, line, 0)
      BY <2>2 DEF Folding
    <2> QED BY <2>3
  <1>2. \A k \in T : k + 1 \in T
    BY FoldingStep
  <1>3. T \in SUBSET Nat
    OBVIOUS
  <1> HIDE DEF T
  <1>4. T = Nat
    BY <1>1, <1>2, <1>3, Counting
  <1> QED BY <1>4 DEF T

\* What a shell makes of a line it reads in some state.
Reading(from, line) == FoldLeft(ShellReads, from, line)

Steps(h, from, line) ==
    /\ h[0] = from
    /\ \A k \in 1..Len(line) : h[k] = ShellReads(h[k - 1], line[k])

LEMMA ReadingExists ==
    ASSUME NEW C, NEW from, NEW line \in Seq(C)
    PROVE  \E h : Steps(h, from, line) /\ Reading(from, line) = h[Len(line)]
  <1> DEFINE f == CHOOSE f : Folding(f, from, line, Len(line))
             h == [k \in 0..Len(line) |-> f[1..k]]
  <1>0. Len(line) \in Nat
    OBVIOUS
  <1>1. Folding(f, from, line, Len(line))
    BY <1>0, FoldingExists
  <1>2. Reading(from, line) = f[1..Len(line)]
    BY FoldingUnfolded DEF Reading
  <1> HIDE DEF f
  <1>3. \A s \in SUBSET (1..Len(line)) :
          f[s] = IF s = {} THEN from ELSE ShellReads(f[s \ {Max(s)}], line[Max(s)])
    BY <1>1 DEF Folding
  <1>4. h[0] = from
    <2>1. 1..0 = {} /\ 1..0 \in SUBSET (1..Len(line)) /\ 0 \in 0..Len(line)
      BY <1>0
    <2>2. f[1..0] = from
      BY <1>3, <2>1, Zenon
    <2> QED BY <2>1, <2>2
  <1>5. ASSUME NEW k \in 1..Len(line)
        PROVE  h[k] = ShellReads(h[k - 1], line[k])
    <2>5. k \in Nat /\ 1 <= k /\ k <= Len(line)
      BY <1>0
    <2>6. k \in 1..k
      BY <2>5
    <2>7. 1..k \in SUBSET (1..Len(line)) /\ k - 1 \in 0..Len(line) /\ k \in 0..Len(line)
      BY <1>0, <2>5
    <2>0. /\ 1..k \in SUBSET (1..Len(line)) /\ 1..k # {} /\ k \in Nat /\ k \in 1..k
          /\ 1..k \in SUBSET (1..k) /\ k - 1 \in 0..Len(line) /\ k \in 0..Len(line)
      BY <2>5, <2>6, <2>7, Zenon
    <2>1. 1..k \in SUBSET (1..Len(line)) /\ k \in 0..Len(line) /\ k - 1 \in 0..Len(line)
          /\ (1..k) \ {k} = 1..(k - 1)
      BY <2>0
    <2>2. Max(1..k) \in 1..k /\ \A y \in 1..k : Max(1..k) >= y
      BY <2>0, GreatestOf, Zenon
    <2>3. Max(1..k) = k
      BY <2>0, <2>2
    <2>4. f[1..k] = ShellReads(f[1..(k - 1)], line[k])
      <3>1. f[1..k] = ShellReads(f[(1..k) \ {Max(1..k)}], line[Max(1..k)])
        BY <1>3, <2>0, Zenon
      <3> QED BY <2>1, <2>3, <3>1
    <2> QED BY <2>1, <2>4
  <1>6. h[Len(line)] = f[1..Len(line)]
    BY <1>0
  <1> HIDE DEF h
  <1> QED BY <1>2, <1>4, <1>5, <1>6 DEF Steps

LEMMA StepsUnique ==
    ASSUME NEW C, NEW from, NEW line \in Seq(C), NEW g, NEW h,
           Steps(g, from, line), Steps(h, from, line)
    PROVE  \A k \in 0..Len(line) : g[k] = h[k]
  <1> DEFINE T == {k \in Nat : k <= Len(line) => g[k] = h[k]}
  <1>1. 0 \in T
    BY DEF Steps
  <1>2. ASSUME NEW k \in T
        PROVE  k + 1 \in T
    <2>1. CASE k + 1 <= Len(line)
      <3>1. k + 1 \in 1..Len(line) /\ (k + 1) - 1 = k /\ k <= Len(line)
        BY <2>1
      <3> QED BY <3>1 DEF Steps
    <2> QED BY <2>1
  <1>3. T \in SUBSET Nat
    OBVIOUS
  <1> HIDE DEF T
  <1>4. T = Nat
    BY <1>1, <1>2, <1>3, Counting
  <1> QED BY <1>4 DEF T

LEMMA ReadingIs ==
    ASSUME NEW C, NEW from, NEW line \in Seq(C), NEW h, Steps(h, from, line)
    PROVE  Reading(from, line) = h[Len(line)]
  <1>1. Len(line) \in 0..Len(line)
    OBVIOUS
  <1>2. PICK g : Steps(g, from, line) /\ Reading(from, line) = g[Len(line)]
    BY ReadingExists, Zenon
  <1>3. \A k \in 0..Len(line) : g[k] = h[k]
    BY <1>2, StepsUnique
  <1> QED BY <1>1, <1>2, <1>3, Zenon

LEMMA ReadingEmpty ==
    \A from : Reading(from, <<>>) = from
  <1> TAKE from
  <1>1. <<>> \in Seq({}) /\ Len(<<>>) = 0
    OBVIOUS
  <1> DEFINE h == [k \in {0} |-> from]
  <1>2. Steps(h, from, <<>>)
    BY <1>1 DEF Steps
  <1>3. h[0] = from
    OBVIOUS
  <1> HIDE DEF h
  <1>4. Reading(from, <<>>) = h[Len(<<>>)]
    BY <1>1, <1>2, ReadingIs, Zenon
  <1> QED BY <1>1, <1>3, <1>4, Zenon

LEMMA ReadingMore ==
    ASSUME NEW C, NEW from, NEW line \in Seq(C), NEW c \in C
    PROVE  Reading(from, Append(line, c)) = ShellReads(Reading(from, line), c)
  <1> DEFINE longer == Append(line, c)
  <1>1. PICK g : Steps(g, from, longer) /\ Reading(from, longer) = g[Len(longer)]
    <2>1. longer \in Seq(C)
      OBVIOUS
    <2> QED BY <2>1, ReadingExists, Zenon
  <1>2. Len(longer) = Len(line) + 1 /\ longer[Len(line) + 1] = c /\ Len(line) \in Nat
    OBVIOUS
  <1>3. \A k \in 1..Len(line) : longer[k] = line[k] /\ k \in 1..Len(longer)
    OBVIOUS
  <1> HIDE DEF longer
  <1>4. Steps(g, from, line)
    BY <1>1, <1>3 DEF Steps
  <1>5. Reading(from, line) = g[Len(line)]
    BY <1>4, ReadingIs
  <1>6. Len(longer) \in 1..Len(longer) /\ Len(longer) - 1 = Len(line)
    BY <1>2
  <1>7. g[Len(longer)] = ShellReads(g[Len(line)], c)
    BY <1>1, <1>2, <1>6 DEF Steps
  <1> QED BY <1>1, <1>5, <1>7 DEF longer

LEMMA ReadingConcat ==
    ASSUME NEW C, NEW from, NEW a \in Seq(C), NEW b \in Seq(C)
    PROVE  Reading(from, a \o b) = Reading(Reading(from, a), b)
  <1> DEFINE line == a \o b
  <1>1. PICK g : Steps(g, from, line) /\ Reading(from, line) = g[Len(line)]
    <2>1. line \in Seq(C)
      OBVIOUS
    <2> QED BY <2>1, ReadingExists, Zenon
  <1>2. /\ Len(line) = Len(a) + Len(b) /\ Len(a) \in Nat /\ Len(b) \in Nat
        /\ \A k \in 1..Len(a) : line[k] = a[k] /\ k \in 1..Len(line)
        /\ \A k \in 1..Len(b) : line[Len(a) + k] = b[k]
    OBVIOUS
  <1> HIDE DEF line
  <1>3. Steps(g, from, a)
    BY <1>1, <1>2 DEF Steps
  <1>4. Reading(from, a) = g[Len(a)]
    BY <1>3, ReadingIs
  <1> DEFINE h == [k \in 0..Len(b) |-> g[Len(a) + k]]
  <1>5. h[0] = g[Len(a)]
    BY <1>2
  <1>6. ASSUME NEW k \in 1..Len(b)
        PROVE  h[k] = ShellReads(h[k - 1], b[k])
    <2>1. /\ Len(a) + k \in 1..Len(line) /\ (Len(a) + k) - 1 = Len(a) + (k - 1)
          /\ k - 1 \in 0..Len(b) /\ k \in 0..Len(b)
      BY <1>2
    <2>2. g[Len(a) + k] = ShellReads(g[Len(a) + (k - 1)], line[Len(a) + k])
      BY <1>1, <2>1 DEF Steps
    <2> QED BY <1>2, <2>1, <2>2
  <1>7. h[Len(b)] = g[Len(line)]
    BY <1>2
  <1> HIDE DEF h
  <1>8. Steps(h, Reading(from, a), b)
    BY <1>4, <1>5, <1>6 DEF Steps
  <1>9. Reading(Reading(from, a), b) = h[Len(b)]
    BY <1>8, ReadingIs
  <1> QED BY <1>1, <1>7, <1>9 DEF line

\* States of a shell: outside of quotes, after a backslash, and inside of quotes.
Outside(words, word, open) == [words |-> words, word |-> word, open |-> open, mode |-> "plain"]
Escaping(words, word) == [words |-> words, word |-> word, open |-> TRUE, mode |-> "escaped"]
Inside(words, word) == [words |-> words, word |-> word, open |-> TRUE, mode |-> "quoted"]

LEMMA BlankDiffers ==
    Blank # "'" /\ Blank # "\\" /\ Blank # "purgery-server" /\ Blank # "cat" /\ Blank # ">"
  BY Zenon DEF Blank

LEMMA StartIsOutside == ShellStart = Outside(<<>>, <<>>, FALSE)
  BY DEF ShellStart, Outside

\* What a shell makes of a character in these states.
LEMMA OutsideReads ==
    ASSUME NEW words, NEW word, NEW open \in BOOLEAN
    PROVE  /\ ShellReads(Outside(words, word, open), "'") = Inside(words, word)
           /\ ShellReads(Outside(words, word, open), "\\") = Escaping(words, word)
  BY BlankDiffers DEF ShellReads, Inside, Outside, Escaping

LEMMA OutsideReadsBlank ==
    ASSUME NEW words, NEW word
    PROVE  ShellReads(Outside(words, word, TRUE), Blank)
             = Outside(Append(words, word), <<>>, FALSE)
  BY BlankDiffers DEF ShellReads, Outside

LEMMA OutsideReadsWord ==
    ASSUME NEW words, NEW open \in BOOLEAN, NEW c \in {"purgery-server", "cat", ">"}
    PROVE  ShellReads(Outside(words, <<>>, open), c) = Outside(words, <<c>>, TRUE)
  <1>1. c # "'" /\ c # "\\" /\ c # Blank
    BY BlankDiffers
  <1>2. ShellReads(Outside(words, <<>>, open), c) = Outside(words, Append(<<>>, c), TRUE)
    BY <1>1 DEF ShellReads, Outside
  <1>3. Append(<<>>, c) = <<c>>
    OBVIOUS
  <1> QED BY <1>2, <1>3

LEMMA OthersRead ==
    ASSUME NEW words, NEW word
    PROVE  /\ ShellReads(Inside(words, word), "'") = Outside(words, word, TRUE)
           /\ \A c : c # "'" => ShellReads(Inside(words, word), c) = Inside(words, Append(word, c))
           /\ \A c : ShellReads(Escaping(words, word), c) = Outside(words, Append(word, c), TRUE)
  BY DEF ShellReads, Inside, Outside, Escaping

\* ReadingMore and ReadingConcat for one set of characters.
Reads(C) ==
    /\ \A from : Reading(from, <<>>) = from
    /\ \A from : \A c \in C : Reading(from, <<c>>) = ShellReads(from, c)
    /\ \A from : \A a \in Seq(C) : \A c \in C :
          Reading(from, Append(a, c)) = ShellReads(Reading(from, a), c)
    /\ \A from : \A a \in Seq(C) : \A b \in Seq(C) :
          Reading(from, a \o b) = Reading(Reading(from, a), b)

LEMMA ReadsAll ==
    ASSUME NEW C
    PROVE  Reads(C)
  <1>1. \A from : Reading(from, <<>>) = from
    BY ReadingEmpty
  <1>2. \A from : \A a \in Seq(C) : \A c \in C :
          Reading(from, Append(a, c)) = ShellReads(Reading(from, a), c)
    BY ReadingMore
  <1>3. \A from : \A a \in Seq(C) : \A b \in Seq(C) :
          Reading(from, a \o b) = Reading(Reading(from, a), b)
    BY ReadingConcat
  <1>4. ASSUME NEW from, NEW c \in C
        PROVE  Reading(from, <<c>>) = ShellReads(from, c)
    <2>1. <<>> \in Seq(C) /\ Append(<<>>, c) = <<c>>
      OBVIOUS
    <2>2. Reading(from, Append(<<>>, c)) = ShellReads(Reading(from, <<>>), c)
      BY <1>2, <2>1, Zenon
    <2> QED BY <1>1, <2>1, <2>2, Zenon
  <1> QED BY <1>1, <1>2, <1>3, <1>4 DEF Reads

\* One character between quotes, as shell_escape writes it.
EscapedAs(c) == IF c = "'" THEN <<"'", "\\", "'", "'">> ELSE <<c>>

LEMMA EscapedIsRead ==
    ASSUME NEW C, "'" \in C, "\\" \in C, NEW c \in C, NEW words, NEW word
    PROVE  Reading(Inside(words, word), EscapedAs(c)) = Inside(words, Append(word, c))
  <1>0. Reads(C)
    BY ReadsAll
  <1>1. CASE c # "'"
    <2>1. ShellReads(Inside(words, word), c) = Inside(words, Append(word, c))
      BY <1>1 DEF ShellReads, Inside
    <2> QED BY <1>1, <1>0, <2>1 DEF EscapedAs, Reads
  <1>2. CASE c = "'"
    <2> DEFINE quote == "'"
               escape == "\\"
               s0 == Inside(words, word)
               s1 == Outside(words, word, TRUE)
               s2 == Escaping(words, word)
               s3 == Outside(words, Append(word, c), TRUE)
               s4 == Inside(words, Append(word, c))
    <2>1. ShellReads(s0, quote) = s1
      BY OthersRead
    <2>2. ShellReads(s1, escape) = s2
      BY OutsideReads
    <2>3. ShellReads(s2, quote) = s3
      BY <1>2, OthersRead
    <2>4. ShellReads(s3, quote) = s4
      BY OutsideReads
    <2> DEFINE t1 == <<quote>>
               t2 == <<quote, escape>>
               t3 == <<quote, escape, quote>>
    <2>5. /\ t1 \in Seq(C) /\ t2 \in Seq(C) /\ t3 \in Seq(C) /\ quote \in C /\ escape \in C
          /\ t2 = Append(t1, escape) /\ t3 = Append(t2, quote)
          /\ EscapedAs(c) = Append(t3, quote)
      BY <1>2 DEF EscapedAs
    <2>6. /\ Reading(s0, t1) = ShellReads(s0, quote)
          /\ \A from : \A a \in Seq(C) : \A x \in C :
                Reading(from, Append(a, x)) = ShellReads(Reading(from, a), x)
      BY <1>0 DEF Reads
    <2> HIDE DEF quote, escape, s0, s1, s2, s3, s4, t1, t2, t3
    <2>7. Reading(s0, t1) = s1
      BY <2>1, <2>6
    <2>8. Reading(s0, t2) = s2
      BY <2>2, <2>5, <2>6, <2>7
    <2>9. Reading(s0, t3) = s3
      BY <2>3, <2>5, <2>6, <2>8
    <2>10. Reading(s0, Append(t3, quote)) = s4
      BY <2>4, <2>5, <2>6, <2>9
    <2>11. Reading(s0, EscapedAs(c)) = s4
      BY <2>5, <2>10, Zenon
    <2> QED BY <2>11 DEF s0, s4
  <1> QED BY <1>1, <1>2

\* A text that is escaped is read as part of one word, as it is.
LEMMA EscapesRead ==
    ASSUME NEW C, "'" \in C, "\\" \in C
    PROVE  \A text \in Seq(C) :
              /\ ShellEscape(text) \in Seq(C)
              /\ \A words : \A word \in Seq(C) : \A open \in BOOLEAN :
                    Reading(Outside(words, word, open), ShellEscape(text))
                      = Outside(words, word \o text, TRUE)
  <1> SUFFICES ASSUME NEW text \in Seq(C), NEW words, NEW word \in Seq(C), NEW open \in BOOLEAN
               PROVE  /\ ShellEscape(text) \in Seq(C)
                      /\ Reading(Outside(words, word, open), ShellEscape(text))
                           = Outside(words, word \o text, TRUE)
    <2>1. TRUE \in BOOLEAN
      OBVIOUS
    <2> QED BY <2>1, Zenon
  <1> DEFINE seqs == [i \in DOMAIN text |-> EscapedAs(text[i])]
             start == Outside(words, word, open)
             quote == "'"
  <1>0. Reads(C) /\ quote \in C
    BY ReadsAll
  <1>cat. \A from : \A a \in Seq(C) : \A b \in Seq(C) :
            Reading(from, a \o b) = Reading(Reading(from, a), b)
    BY <1>0 DEF Reads
  <1>one. \A from : Reading(from, <<quote>>) = ShellReads(from, quote)
    BY <1>0 DEF Reads
  <1>1. /\ Len(text) \in Nat /\ DOMAIN text = 1..Len(text)
        /\ \A i \in 1..Len(text) : text[i] \in C
    OBVIOUS
  <1>2. \A i \in 1..Len(text) : EscapedAs(text[i]) \in Seq(C)
    BY <1>1 DEF EscapedAs
  <1>3. seqs \in Seq(Seq(C)) /\ Len(seqs) = Len(text)
    BY <1>1, <1>2
  <1>4. \A i \in 1..Len(text) : seqs[i] = EscapedAs(text[i])
    BY <1>1
  <1>5. ShellEscape(text) = <<quote>> \o FlattenSeq(seqs) \o <<quote>>
    BY DEF ShellEscape, EscapedAs
  <1> HIDE DEF seqs
  <1>6. PICK h \in [0..Len(text) -> Seq(C)] :
          /\ h[0] = <<>>
          /\ \A i \in 1..Len(text) : h[i] = h[i - 1] \o seqs[i]
          /\ FlattenSeq(seqs) = h[Len(text)]
    <2>1. \E h \in [0..Len(seqs) -> Seq(C)] :
            /\ h[0] = <<>>
            /\ \A i \in 1..Len(seqs) : h[i] = h[i - 1] \o seqs[i]
            /\ FlattenSeq(seqs) = h[Len(seqs)]
      BY <1>3, FlattenSeqSteps, Zenon
    <2> QED BY <1>3, <2>1, Zenon
  <1> DEFINE read(k) == word \o SubSeq(text, 1, k)
             T == {k \in Nat : k <= Len(text) =>
                     Reading(Inside(words, word), h[k]) = Inside(words, read(k))}
  <1>7. 0 \in T
    <2>1. read(0) = word
      BY <1>1
    <2> HIDE DEF read
    <2> QED BY <1>0, <1>6, <2>1 DEF Reads
  <1>8. ASSUME NEW k \in T
        PROVE  k + 1 \in T
    <2>1. CASE k + 1 <= Len(text)
      <3>1. k + 1 \in 1..Len(text) /\ (k + 1) - 1 = k /\ k <= Len(text) /\ k \in 0..Len(text)
        BY <1>1, <2>1
      <3>2. h[k + 1] = h[k] \o EscapedAs(text[k + 1]) /\ h[k] \in Seq(C)
            /\ EscapedAs(text[k + 1]) \in Seq(C)
        BY <1>2, <1>4, <1>6, <3>1
      <3>3. read(k + 1) = Append(read(k), text[k + 1])
        <4>1. /\ SubSeq(text, 1, k + 1) = Append(SubSeq(text, 1, k), text[k + 1])
              /\ SubSeq(text, 1, k) \in Seq(C) /\ text[k + 1] \in C
          BY <1>1, <3>1
        <4> QED BY <4>1
      <3> HIDE DEF read
      <3>4. Reading(Inside(words, word), h[k]) = Inside(words, read(k))
        BY <3>1
      <3>5. Reading(Inside(words, word), h[k + 1])
              = Reading(Inside(words, read(k)), EscapedAs(text[k + 1]))
        BY <1>cat, <3>2, <3>4
      <3>6. Reading(Inside(words, word), h[k + 1]) = Inside(words, read(k + 1))
        BY <1>1, <3>1, <3>3, <3>5, EscapedIsRead
      <3> QED BY <3>6
    <2> QED BY <2>1
  <1>9. T \in SUBSET Nat
    OBVIOUS
  <1> HIDE DEF T
  <1>10. T = Nat
    BY <1>7, <1>8, <1>9, Counting
  <1>11. Reading(Inside(words, word), h[Len(text)]) = Inside(words, read(Len(text)))
    BY <1>1, <1>10 DEF T
  <1>12. read(Len(text)) = word \o text
    BY <1>1
  <1> HIDE DEF read
  <1> DEFINE inner == h[Len(text)]
             q == <<quote>>
             opened == q \o inner
  <1>13. /\ inner \in Seq(C) /\ q \in Seq(C) /\ opened \in Seq(C)
         /\ opened \o q \in Seq(C)
    <2>1. inner \in Seq(C)
      BY <1>1
    <2>2. q \in Seq(C)
      BY <1>0
    <2> HIDE DEF inner, q
    <2> QED BY <2>1, <2>2
  <1>14. ShellEscape(text) = opened \o q
    BY <1>5, <1>6
  <1>15. ShellReads(start, quote) = Inside(words, word)
    BY OutsideReads
  <1>16. ShellReads(Inside(words, word \o text), quote) = Outside(words, word \o text, TRUE)
    BY OthersRead
  <1>17. \A from : Reading(from, q) = ShellReads(from, quote)
    BY <1>one
  <1>18. Reading(Inside(words, word), inner) = Inside(words, word \o text)
    BY <1>11, <1>12
  <1>19. Reading(start, opened) = Reading(Reading(start, q), inner)
    BY <1>cat, <1>13
  <1>20. Reading(start, opened \o q) = Reading(Reading(start, opened), q)
    BY <1>cat, <1>13
  <1> HIDE DEF quote, start, inner, q, opened
  <1>21. Reading(start, opened \o q) = Outside(words, word \o text, TRUE)
    BY <1>15, <1>16, <1>17, <1>18, <1>19, <1>20, Zenon
  <1> QED BY <1>13, <1>14, <1>21, Zenon DEF start

LEMMA WordsAtEnd ==
    ASSUME NEW line, NEW words, NEW word, Reading(ShellStart, line) = Outside(words, word, TRUE)
    PROVE  ShellWords(line) = Append(words, word)
  BY DEF ShellWords, Reading, Outside

\* A sequence grows by its next element.
LEMMA PrefixGrows ==
    ASSUME NEW V, NEW seq \in Seq(V), NEW k \in Nat, k + 1 <= Len(seq)
    PROVE  SubSeq(seq, 1, k + 1) = Append(SubSeq(seq, 1, k), seq[k + 1])
  <1>1. Len(seq) \in Nat /\ k <= Len(seq)
    OBVIOUS
  <1> QED BY <1>1

ShellUses == {"'", "\\", Blank, "purgery-server", "cat", ">"}

\* The words the remote shell finds are those the command line is made from.
LEMMA CommandIsUnderstood ==
    ASSUME NEW C, ShellUses \subseteq C, NEW args \in Seq(Seq(C))
    PROVE  ShellWords(CommandLine(args)) = <<<<"purgery-server">>>> \o args
  <1> DEFINE blank == <<Blank>>
             server == <<"purgery-server">>
             parts == [i \in DOMAIN args |-> blank \o ShellEscape(args[i])]
             full == <<server>> \o args
             words(k) == SubSeq(full, 1, k)
  <1>1. /\ "'" \in C /\ "\\" \in C /\ Blank \in C /\ "purgery-server" \in C
        /\ blank \in Seq(C) /\ server \in Seq(C)
    BY DEF ShellUses
  <1>2. /\ Len(args) \in Nat /\ DOMAIN args = 1..Len(args)
        /\ \A i \in 1..Len(args) : args[i] \in Seq(C)
    OBVIOUS
  <1>3. /\ full \in Seq(Seq(C)) /\ Len(full) = Len(args) + 1 /\ full[1] = server
        /\ \A i \in 1..Len(args) : full[i + 1] = args[i]
    BY <1>1
  <1>4. \A i \in 1..Len(args) : ShellEscape(args[i]) \in Seq(C)
    <2>1. \A text \in Seq(C) : ShellEscape(text) \in Seq(C)
      BY <1>1, EscapesRead
    <2> QED BY <1>2, <2>1, Zenon
  <1>5. parts \in Seq(Seq(C)) /\ Len(parts) = Len(args)
    BY <1>1, <1>2, <1>4
  <1>6. \A i \in 1..Len(args) : parts[i] = blank \o ShellEscape(args[i]) /\ parts[i] \in Seq(C)
    BY <1>1, <1>2, <1>4
  <1>7. CommandLine(args) = server \o FlattenSeq(parts)
    BY DEF CommandLine
  <1>8. /\ \A from : Reading(from, <<>>) = from
        /\ \A from : \A a \in Seq(C) : \A b \in Seq(C) :
             Reading(from, a \o b) = Reading(Reading(from, a), b)
        /\ \A from : Reading(from, blank) = ShellReads(from, Blank)
        /\ Reading(ShellStart, server) = ShellReads(ShellStart, "purgery-server")
    BY <1>1, ReadsAll DEF Reads
  <1>9. ShellReads(ShellStart, "purgery-server") = Outside(<<>>, server, TRUE)
    BY OutsideReadsWord, StartIsOutside
  <1> HIDE DEF parts, full, server, blank
  <1>10. PICK h \in [0..Len(args) -> Seq(C)] :
          /\ h[0] = <<>>
          /\ \A i \in 1..Len(args) : h[i] = h[i - 1] \o parts[i]
          /\ FlattenSeq(parts) = h[Len(args)]
    <2>1. \E h \in [0..Len(parts) -> Seq(C)] :
            /\ h[0] = <<>>
            /\ \A i \in 1..Len(parts) : h[i] = h[i - 1] \o parts[i]
            /\ FlattenSeq(parts) = h[Len(parts)]
      BY <1>5, FlattenSeqSteps, Zenon
    <2> QED BY <1>5, <2>1, Zenon
  <1> DEFINE start == Outside(<<>>, server, TRUE)
             T == {k \in Nat : k <= Len(args) =>
                     Reading(start, h[k]) = Outside(words(k), full[k + 1], TRUE)}
  <1>11. 0 \in T
    <2>1. words(0) = <<>> /\ full[0 + 1] = server
      BY <1>3
    <2>2. Reading(start, h[0]) = start
      BY <1>8, <1>10
    <2> HIDE DEF words
    <2> QED BY <2>1, <2>2
  <1>12. ASSUME NEW k \in T
         PROVE  k + 1 \in T
    <2>1. CASE k + 1 <= Len(args)
      <3> DEFINE word == args[k + 1]
                 text == ShellEscape(word)
                 state == Outside(words(k + 1), <<>>, FALSE)
      <3>1. /\ k + 1 \in 1..Len(args) /\ (k + 1) - 1 = k /\ k <= Len(args) /\ k \in 0..Len(args)
            /\ k \in Nat /\ full[(k + 1) + 1] = word
        BY <1>2, <1>3, <2>1
      <3>2. h[k + 1] = h[k] \o (blank \o text) /\ h[k] \in Seq(C) /\ text \in Seq(C)
            /\ blank \o text \in Seq(C) /\ word \in Seq(C)
        BY <1>2, <1>4, <1>6, <1>10, <3>1
      <3>3. words(k + 1) = Append(words(k), full[k + 1])
        <4>1. k + 1 <= Len(full) /\ k \in Nat
          BY <1>2, <1>3, <3>1
        <4> QED BY <1>3, <4>1, PrefixGrows
      <3>4. <<>> \o word = word /\ <<>> \in Seq(C)
        BY <3>2
      <3>5. Reading(state, text) = Outside(words(k + 1), <<>> \o word, TRUE)
        <4>1. \A w \in Seq(C) : \A u : \A v \in Seq(C) : \A open \in BOOLEAN :
                    Reading(Outside(u, v, open), ShellEscape(w)) = Outside(u, v \o w, TRUE)
          BY <1>1, EscapesRead
        <4>2. FALSE \in BOOLEAN /\ word \in Seq(C) /\ <<>> \in Seq(C)
          BY <3>2, <3>4
        <4> QED BY <4>1, <4>2, Zenon
      <3> HIDE DEF words, text, word
      <3>6. Reading(start, h[k]) = Outside(words(k), full[k + 1], TRUE)
        BY <3>1
      <3>7. ShellReads(Outside(words(k), full[k + 1], TRUE), Blank) = state
        BY <3>3, OutsideReadsBlank
      <3> DEFINE line == blank \o text
      <3> HIDE DEF line, start
      <3>l. line \in Seq(C) /\ h[k] \in Seq(C) /\ h[k + 1] = h[k] \o line
        BY <3>2 DEF line
      <3>8. Reading(start, h[k + 1]) = Reading(Reading(start, h[k]), line)
        <4>1. \A from : \A a \in Seq(C) : \A b \in Seq(C) :
                 Reading(from, a \o b) = Reading(Reading(from, a), b)
          BY <1>8
        <4>2. Reading(start, h[k] \o line) = Reading(Reading(start, h[k]), line)
          BY <3>l, <4>1, Zenon
        <4> QED BY <3>l, <4>2, Zenon
      <3>9. Reading(Reading(start, h[k]), line) = Reading(Reading(Reading(start, h[k]), blank), text)
        BY <1>1, <1>8, <3>2 DEF line
      <3>10. Reading(Reading(start, h[k]), blank) = state
        BY <1>8, <3>6, <3>7
      <3> HIDE DEF state
      <3>11. Reading(start, h[k + 1]) = Outside(words(k + 1), word, TRUE)
        BY <3>4, <3>5, <3>8, <3>9, <3>10, Zenon
      <3>12. Reading(start, h[k + 1]) = Outside(words(k + 1), full[(k + 1) + 1], TRUE)
        BY <3>1, <3>11, Zenon
      <3>13. k + 1 \in Nat
        BY <3>1
      <3> HIDE DEF start
      <3> DEFINE j == k + 1
      <3>14. j \in Nat /\ Reading(start, h[j]) = Outside(words(j), full[j + 1], TRUE)
        BY <3>12, <3>13
      <3> HIDE DEF j
      <3>15. j \in T
        BY <3>14, Zenon
      <3> HIDE DEF T
      <3> QED BY <3>15, Zenon DEF j
    <2>2. CASE ~(k + 1 <= Len(args))
      <3>1. k + 1 \in Nat
        OBVIOUS
      <3> QED BY <2>2, <3>1, Zenon
    <2> QED BY <2>1, <2>2, Zenon
  <1>13. T \in SUBSET Nat
    OBVIOUS
  <1> HIDE DEF T
  <1>14. T = Nat
    BY <1>11, <1>12, <1>13, Counting
  <1>15. Reading(start, h[Len(args)]) = Outside(words(Len(args)), full[Len(args) + 1], TRUE)
    <2>1. Len(args) \in Nat /\ Len(args) <= Len(args)
      BY <1>2
    <2> QED BY <1>14, <2>1, Zenon DEF T
  <1>16. Append(words(Len(args)), full[Len(args) + 1]) = full
    BY <1>2, <1>3
  <1> HIDE DEF words, start
  <1>17. Reading(ShellStart, CommandLine(args)) = Reading(Reading(ShellStart, server), h[Len(args)])
    <2>1. h[Len(args)] \in Seq(C)
      BY <1>2
    <2> QED BY <1>1, <1>7, <1>8, <1>10, <2>1
  <1>18. Reading(ShellStart, CommandLine(args)) = Outside(words(Len(args)), full[Len(args) + 1], TRUE)
    BY <1>8, <1>9, <1>15, <1>17, Zenon DEF start
  <1>19. ShellWords(CommandLine(args)) = full
    BY <1>16, <1>18, WordsAtEnd
  <1> QED BY <1>19 DEF full, server

\* So are those of "cat > PATH", whose third word is the path.
LEMMA CopyIsUnderstood ==
    ASSUME NEW C, ShellUses \subseteq C, NEW path \in Seq(C)
    PROVE  LET words == ShellWords(<<"cat", Blank, ">", Blank>> \o ShellEscape(path))
           IN  Len(words) = 3 /\ words[3] = path
  <1> DEFINE t1 == <<"cat">>
             t2 == <<"cat", Blank>>
             t3 == <<"cat", Blank, ">">>
             t4 == <<"cat", Blank, ">", Blank>>
             text == ShellEscape(path)
             cat == <<"cat">>
             to == <<">">>
             words1 == Append(<<>>, cat)
             words2 == Append(words1, to)
  <1>1. "'" \in C /\ "\\" \in C /\ Blank \in C /\ "cat" \in C /\ ">" \in C
    BY DEF ShellUses
  <1>2. /\ t1 \in Seq(C) /\ t2 = Append(t1, Blank) /\ t2 \in Seq(C)
        /\ t3 = Append(t2, ">") /\ t3 \in Seq(C) /\ t4 = Append(t3, Blank) /\ t4 \in Seq(C)
    BY <1>1
  <1>t1. t1 \in Seq(C)
    BY <1>2
  <1>t2. t2 \in Seq(C)
    BY <1>2
  <1>t3. t3 \in Seq(C)
    BY <1>2
  <1>t4. t4 \in Seq(C)
    BY <1>2
  <1>3. \A from : \A a \in Seq(C) : \A c \in C :
             Reading(from, Append(a, c)) = ShellReads(Reading(from, a), c)
    BY ReadsAll DEF Reads
  <1>one. Reading(ShellStart, t1) = ShellReads(ShellStart, "cat")
    BY <1>1, ReadsAll DEF Reads
  <1>0. \A from : \A a \in Seq(C) : \A b \in Seq(C) :
             Reading(from, a \o b) = Reading(Reading(from, a), b)
    BY ReadsAll DEF Reads
  <1>esc. \A t \in Seq(C) :
              /\ ShellEscape(t) \in Seq(C)
              /\ \A words : \A word \in Seq(C) : \A open \in BOOLEAN :
                    Reading(Outside(words, word, open), ShellEscape(t))
                      = Outside(words, word \o t, TRUE)
    BY <1>1, EscapesRead
  <1>5. Len(Append(words2, path)) = 3 /\ Append(words2, path)[3] = path
    OBVIOUS
  <1>6. text \in Seq(C) /\ <<>> \in Seq(C) /\ <<>> \o path = path
    <2>1. text \in Seq(C)
      BY <1>1, EscapesRead, Zenon
    <2> HIDE DEF text
    <2> QED BY <2>1
  <1>7. Reading(Outside(words2, <<>>, FALSE), text) = Outside(words2, <<>> \o path, TRUE)
    <2>1. <<>> \in Seq(C) /\ FALSE \in BOOLEAN
      OBVIOUS
    <2> HIDE DEF words2
    <2>2. \A words : \A w \in Seq(C) : \A open \in BOOLEAN :
            Reading(Outside(words, w, open), text) = Outside(words, w \o path, TRUE)
      BY <1>esc, Zenon
    <2> QED BY <2>1, <2>2, Zenon
  <1> HIDE DEF t1, t2, t3, t4, words1, words2, text, cat, to
  <1>8. Reading(ShellStart, t1) = Outside(<<>>, cat, TRUE)
    <2>1. ShellReads(Outside(<<>>, <<>>, FALSE), "cat") = Outside(<<>>, cat, TRUE)
      BY OutsideReadsWord DEF cat
    <2> QED BY <1>one, <2>1, StartIsOutside, Zenon
  <1>9. Reading(ShellStart, t2) = Outside(words1, <<>>, FALSE)
    <2>1. ShellReads(Outside(<<>>, cat, TRUE), Blank) = Outside(words1, <<>>, FALSE)
      BY OutsideReadsBlank DEF words1
    <2>2. Reading(ShellStart, Append(t1, Blank)) = ShellReads(Reading(ShellStart, t1), Blank)
      BY <1>1, <1>t1, <1>3
    <2>3. t2 = Append(t1, Blank)
      BY <1>2
    <2> QED BY <1>8, <2>1, <2>2, <2>3, Zenon
  <1>10. Reading(ShellStart, t3) = Outside(words1, to, TRUE)
    <2>1. ShellReads(Outside(words1, <<>>, FALSE), ">") = Outside(words1, to, TRUE)
      BY OutsideReadsWord DEF to
    <2>2. Reading(ShellStart, Append(t2, ">")) = ShellReads(Reading(ShellStart, t2), ">")
      BY <1>1, <1>t2, <1>3
    <2>3. t3 = Append(t2, ">")
      BY <1>2
    <2> QED BY <1>9, <2>1, <2>2, <2>3, Zenon
  <1>11. Reading(ShellStart, t4) = Outside(words2, <<>>, FALSE)
    <2>1. ShellReads(Outside(words1, to, TRUE), Blank) = Outside(words2, <<>>, FALSE)
      BY OutsideReadsBlank DEF words2
    <2>2. Reading(ShellStart, Append(t3, Blank)) = ShellReads(Reading(ShellStart, t3), Blank)
      BY <1>1, <1>t3, <1>3
    <2>3. t4 = Append(t3, Blank)
      BY <1>2
    <2> QED BY <1>10, <2>1, <2>2, <2>3, Zenon
  <1>12. Reading(ShellStart, t4 \o text) = Reading(Reading(ShellStart, t4), text)
    BY <1>0, <1>6, <1>t4
  <1>13. Reading(ShellStart, t4 \o text) = Outside(words2, path, TRUE)
    BY <1>6, <1>7, <1>11, <1>12
  <1>14. ShellWords(t4 \o text) = Append(words2, path)
    BY <1>13, WordsAtEnd
  <1>15. Len(ShellWords(t4 \o text)) = 3 /\ ShellWords(t4 \o text)[3] = path
    BY <1>5, <1>14
  <1> QED BY <1>15 DEF t4, text

----------------------------------------------------------------------------
(* Names *)

NameChars == Alphanumeric \cup Separators

LEMMA SoundNames ==
    ASSUME NEW V, NEW name \in Seq(V)
    PROVE  NicknameSound(name) <=> name \in Seq(NameChars) /\ name # <<>>
  <1>1. ToSet(name) = {name[i] : i \in 1..Len(name)}
    BY DEF ToSet
  <1>2. ASSUME name \in Seq(NameChars)
        PROVE  \A i \in 1..Len(name) : name[i] \in NameChars
    BY <1>2
  <1>3. ASSUME \A i \in 1..Len(name) : name[i] \in NameChars
        PROVE  name \in Seq(NameChars)
    <2>1. Len(name) \in Nat /\ name = [i \in 1..Len(name) |-> name[i]]
      OBVIOUS
    <2> QED BY <1>3, <2>1
  <1> QED BY <1>1, <1>2, <1>3 DEF NicknameSound, NameChars

LEMMA TextsAreSeqs ==
    ASSUME NEW n, NEW text \in Texts(n)
    PROVE  text \in Seq(Characters)
  <1>1. PICK k \in 0..n : text \in [1..k -> Characters]
    BY DEF Texts
  <1>2. k \in Nat
    OBVIOUS
  <1> QED BY <1>1, <1>2

\* What is left of a trimmed text begins with no separator.
LEMMA TrimmedHead ==
    ASSUME NEW V, NEW text \in Seq(V), Trimmed(text) # <<>>
    PROVE  Trimmed(text) \in Seq(V) /\ Head(Trimmed(text)) \notin Separators
  <1> DEFINE inner == {i \in DOMAIN text : text[i] \notin Separators}
  <1>1. Len(text) \in Nat /\ DOMAIN text = 1..Len(text)
    OBVIOUS
  <1>2. inner # {} /\ Trimmed(text) = SubSeq(text, Min(inner), Max(inner))
    BY DEF Trimmed
  <1>3. inner \in SUBSET (1..Len(text)) /\ inner \in SUBSET Nat
    BY <1>1
  <1>4. \A i \in inner : text[i] \notin Separators
    OBVIOUS
  <1> HIDE DEF inner
  <1>5. Min(inner) \in inner /\ Max(inner) \in inner /\ \A y \in inner : Max(inner) >= y
    BY <1>1, <1>2, <1>3, LeastOf, GreatestOf
  <1>6. Min(inner) \in 1..Len(text) /\ Max(inner) \in 1..Len(text) /\ Min(inner) <= Max(inner)
    BY <1>3, <1>5
  <1> DEFINE m == Min(inner)
             n == Max(inner)
  <1>7. text[m] \notin Separators
    BY <1>4, <1>5
  <1> HIDE DEF m, n
  <1>8. m \in 1..Len(text) /\ n \in 1..Len(text) /\ m <= n
    BY <1>6 DEF m, n
  <1>9. SubSeq(text, m, n) \in Seq(V) /\ Head(SubSeq(text, m, n)) = text[m]
    BY <1>1, <1>8
  <1> QED BY <1>2, <1>7, <1>9 DEF m, n

LEMMA DeduplicatedType ==
    ASSUME NEW V, NEW text \in Seq(V)
    PROVE  \E W : Deduplicated(text) \in Seq(W)
  <1> DEFINE kept == {i \in DOMAIN text :
                        text[i] \in Separators /\ i > 1 => text[i - 1] \notin Separators}
             value(k) == text[CHOOSE i \in kept : Cardinality({j \in kept : j <= i}) = k]
             n == Cardinality(kept)
  <1>1. DOMAIN text = 1..Len(text) /\ Len(text) \in Nat
    OBVIOUS
  <1>2. IsFiniteSet(kept)
    <2>1. kept \subseteq 1..Len(text)
      BY <1>1
    <2>2. IsFiniteSet(1..Len(text))
      BY <1>1, FS_Interval
    <2> QED BY <2>1, <2>2, FS_Subset
  <1>3. n \in Nat
    BY <1>2, FS_CardinalityType
  <1>4. Deduplicated(text) = [k \in 1..n |-> value(k)]
    BY DEF Deduplicated
  <1> DEFINE W == {value(k) : k \in 1..n}
  <1>5. \A k \in 1..n : value(k) \in W
    OBVIOUS
  <1> HIDE DEF n, value, W
  <1>6. [k \in 1..n |-> value(k)] \in Seq(W)
    BY <1>3, <1>5
  <1> QED BY <1>4, <1>6

LEMMA SanitizedHead ==
    ASSUME NEW V, NEW raw \in Seq(V), Sanitize(raw) # <<>>
    PROVE  /\ \E W : Sanitize(raw) \in Seq(W)
           /\ Head(Sanitize(raw)) \notin Separators
  <1> DEFINE replaced == Replaced(raw)
             trimmed == Trimmed(Deduplicated(replaced))
  <1>1. \E W : replaced \in Seq(W)
    <2>1. Len(raw) \in Nat /\ DOMAIN raw = 1..Len(raw)
      OBVIOUS
    <2>2. replaced \in Seq({replaced[i] : i \in 1..Len(raw)})
      BY <2>1 DEF Replaced
    <2> QED BY <2>2
  <1>2. \E W : Deduplicated(replaced) \in Seq(W)
    BY <1>1, DeduplicatedType
  <1>3. CASE trimmed = <<>>
    <2>1. Sanitize(raw) = <<"client">>
      BY <1>3 DEF Sanitize, Client
    <2>2. Sanitize(raw) \in Seq({"client"}) /\ Head(Sanitize(raw)) = "client"
      BY <2>1
    <2> QED BY <2>2 DEF Separators
  <1>4. CASE trimmed # <<>>
    <2>1. Sanitize(raw) = trimmed
      BY <1>4 DEF Sanitize
    <2> QED BY <1>2, <1>4, <2>1, TrimmedHead
  <1> QED BY <1>3, <1>4

\* A name made up is sound and begins with no separator.
LEMMA AutoNicknameGood ==
    ASSUME NEW user, NEW host,
           user = Unknown \/ user \in Seq(Characters), host = Unknown \/ host \in Seq(Characters)
    PROVE  GoodName(AutoNickname(user, host), TRUE)
  <1> DEFINE raw == CASE user # Unknown /\ host # Unknown -> user \o <<"-">> \o host
                      [] user = Unknown /\ host # Unknown -> host
                      [] user # Unknown /\ host = Unknown -> user
                      [] OTHER -> Client
             name == Sanitize(raw)
             V == Characters \cup {"client"}
  <1>1. raw \in Seq(V)
    <2>0. "-" \in V /\ "client" \in V
      BY DEF Characters, Separators
    <2>1. <<"-">> \in Seq(V) /\ Client \in Seq(V)
      BY <2>0 DEF Client
    <2>2. user # Unknown => user \in Seq(V)
      OBVIOUS
    <2>3. host # Unknown => host \in Seq(V)
      OBVIOUS
    <2>4. user # Unknown /\ host # Unknown => user \o <<"-">> \o host \in Seq(V)
      BY <2>1, <2>2, <2>3
    <2> QED BY <2>1, <2>2, <2>3, <2>4
  <1>2. AutoNickname(user, host) = IF NicknameSound(name) THEN name ELSE Client
    BY DEF AutoNickname
  <1> HIDE DEF raw
  <1>3. CASE ~NicknameSound(name)
    <2>1. AutoNickname(user, host) = <<"client">>
      BY <1>2, <1>3 DEF Client
    <2>2. "client" \in NameChars /\ "client" \notin Separators
      BY DEF NameChars, Alphanumeric, Separators
    <2>3. <<"client">> \in Seq(NameChars) /\ <<"client">> # <<>> /\ Head(<<"client">>) = "client"
      BY <2>2
    <2> QED BY <2>1, <2>2, <2>3 DEF GoodName, NameChars
  <1>4. CASE NicknameSound(name)
    <2>1. name # <<>>
      BY <1>4 DEF NicknameSound
    <2>2. PICK W : name \in Seq(W)
      BY <1>1, <2>1, SanitizedHead
    <2>3. Head(name) \notin Separators
      BY <1>1, <2>1, SanitizedHead
    <2> HIDE DEF name
    <2>4. name \in Seq(NameChars)
      BY <1>4, <2>2, SoundNames
    <2> QED BY <1>2, <1>4, <2>1, <2>3, <2>4 DEF GoodName, NameChars
  <1> QED BY <1>3, <1>4

----------------------------------------------------------------------------
(* What is said and what is heard *)

\* Characters and words the client's commands are made from.
CallChars == NameChars \cup Letters \cup Commands \cup ShellUses \cup {"--nickname", "--run-id"}

LEMMA ArgumentsType ==
    ASSUME NEW command \in Commands, NEW name \in Seq(NameChars)
    PROVE  /\ Arguments(command, name) \in Seq(Seq(CallChars))
           /\ <<<<command>>>> \in Seq(Seq(CallChars))
  <1>1. /\ command \in CallChars /\ "--nickname" \in CallChars /\ "--run-id" \in CallChars
        /\ NameChars \subseteq CallChars
    BY DEF CallChars
  <1>2. PICK letter \in Letters : SomeRunId = <<letter>> /\ letter \in CallChars
    BY RemoteCallAssumption DEF SomeRunId, CallChars
  <1>3. name \in Seq(CallChars)
    BY <1>1
  <1> HIDE DEF CallChars
  <1>4. /\ <<command>> \in Seq(CallChars) /\ <<"--nickname">> \in Seq(CallChars)
        /\ <<"--run-id">> \in Seq(CallChars) /\ SomeRunId \in Seq(CallChars)
    BY <1>1, <1>2
  <1>5. <<<<command>>>> \in Seq(Seq(CallChars))
    BY <1>4
  <1>6. <<<<command>>, <<"--nickname">>, name, <<"--run-id">>, SomeRunId>> \in Seq(Seq(CallChars))
    BY <1>3, <1>4
  <1> QED BY <1>5, <1>6 DEF Arguments

\* What the remote shell hands to the server.
LEMMA HeardAsSent ==
    ASSUME NEW args \in Seq(Seq(CallChars))
    PROVE  LET words == ShellWords(CommandLine(args))
           IN  words # <<>> /\ Tail(words) = args
  <1> DEFINE server == <<"purgery-server">>
             words == ShellWords(CommandLine(args))
  <1>1. ShellUses \subseteq CallChars
    BY DEF CallChars
  <1>2. words = <<server>> \o args
    BY <1>1, CommandIsUnderstood
  <1>3. server \in Seq(CallChars)
    <2>1. "purgery-server" \in CallChars
      BY DEF CallChars, ShellUses
    <2> QED BY <2>1
  <1> HIDE DEF words, server, CallChars
  <1>4. <<server>> \o args # <<>> /\ Tail(<<server>> \o args) = args
    BY <1>3
  <1>5. words # <<>> /\ Tail(words) = args
    BY <1>2, <1>4
  <1> QED BY <1>5 DEF words

\* The words of a command of the protocol, as the server finds them.
LEMMA ArgumentsAre ==
    ASSUME NEW command, NEW name
    PROVE  /\ command \in ProtocolCommands =>
                /\ DOMAIN Arguments(command, name) = 1..5
                /\ Arguments(command, name)[3] = name
                /\ Arguments(command, name)[5] = SomeRunId
           /\ command \notin ProtocolCommands => DOMAIN Arguments(command, name) = 1..1
           /\ Arguments(command, name) # <<>>
  BY DEF Arguments

LEMMA RunIdIsSound ==
    RunIdSound(SomeRunId) /\ SomeRunId # <<>> /\ Head(SomeRunId) # "-"
  <1>1. PICK letter \in Letters : SomeRunId = <<letter>>
    BY RemoteCallAssumption DEF SomeRunId
  <1>2. letter # "-"
    BY RemoteCallAssumption
  <1>3. ToSet(<<letter>>) = {letter}
    BY DEF ToSet
  <1>4. Head(<<letter>>) = letter /\ <<letter>> # <<>>
    OBVIOUS
  <1> QED BY <1>1, <1>2, <1>3, <1>4 DEF RunIdSound, Alphanumeric

LEMMA WordsInvInit == RemoteInit => WordsInv
  <1> SUFFICES ASSUME RemoteInit PROVE WordsInv
    OBVIOUS
  <1>1. call = Idle \/ call = [Idle EXCEPT !.pc = "over"]
    BY DEF RemoteInit, CallInit, CallAtRest
  <1>2. /\ call.pc \in {"idle", "over"} /\ call.sent = <<>> /\ call.heard = <<>>
        /\ call.refusal = None /\ call.exit = None /\ call.chosen = FALSE
    BY <1>1 DEF Idle
  <1>3. copy.written = copy.told
    BY DEF RemoteInit, CopyInit
  <1>4. None # "invalid_request" /\ None # "2"
    BY DEF None
  <1> QED BY <1>2, <1>3, <1>4 DEF WordsInv, CallsUnderstood

\* Once the words are with the server and it goes on, or is at its end, only
\* its refusal and its exit matter.
LEMMA EndsKeep ==
    ASSUME WordsInv, UNCHANGED copy, call'.pc \in {"run", "exited", "arrived", "over"},
           call'.heard = call.heard, call'.sent = call.sent,
           call'.name = call.name, call'.chosen = call.chosen,
           call'.refusal # "invalid_request",
           call'.exit = "2" => call.exit = "2" \/ (~call.chosen /\ Head(call.name) = "-")
    PROVE  WordsInv'
  BY DEF WordsInv, CallsUnderstood

\* A step under way that leaves names and words as they are.
LEMMA GoingOnKeeps ==
    ASSUME WordsInv, UNCHANGED copy,
           call.pc \in {"started", "parsed", "loaded"}, call'.pc \in {"parsed", "loaded"},
           call'.command = call.command, call'.heard = call.heard, call'.sent = call.sent,
           call'.name = call.name, call'.chosen = call.chosen,
           call'.refusal = call.refusal, call'.exit = call.exit
    PROVE  WordsInv'
  BY DEF WordsInv, CallsUnderstood

LEMMA WordsInvStep == CallInv /\ WordsInv /\ CallNext => WordsInv'
  <1> SUFFICES ASSUME CallInv, WordsInv, CallNext PROVE WordsInv'
    OBVIOUS
  <1>1. DOMAIN call = Fields
    BY FieldsLemma DEF CallInv
  <1>2. call.pc \notin {"exited", "arrived", "over"} => call.refusal = None /\ call.exit = None
    BY DEF CallInv
  <1>3. None # "invalid_request" /\ None # "2"
    BY DEF None
  <1>4. CASE ChooseNickname
    <2>1. PICK command \in Asked :
             \/ \E text \in Texts(NameSize) :
                  call' = IF NicknameSound(text)
                          THEN [call EXCEPT !.pc = "named", !.command = command, !.name = text]
                          ELSE [call EXCEPT !.pc = "over", !.outcome = "refused_locally"]
             \/ \E user, host \in Texts(NameSize - 1) \cup {Unknown} :
                  /\ host # <<>>
                  /\ call' = [call EXCEPT !.pc = "named", !.command = command, !.chosen = TRUE,
                                          !.name = AutoNickname(user, host)]
      BY <1>4 DEF ChooseNickname
    <2>2. call.pc = "idle" /\ call.sent = <<>> /\ call.heard = <<>> /\ UNCHANGED copy
      BY <1>4 DEF ChooseNickname, WordsInv
    <2>3. ASSUME NEW name, NEW chosen, GoodName(name, chosen),
                 call'.pc = "named", call'.command \in Asked, call'.name = name,
                 call'.chosen = chosen, call'.sent = call.sent, call'.heard = call.heard,
                 call'.refusal = call.refusal, call'.exit = call.exit
          PROVE  WordsInv'
      BY <1>2, <1>3, <2>2, <2>3 DEF WordsInv, CallsUnderstood
    <2>4. ASSUME NEW text \in Texts(NameSize),
                 call' = IF NicknameSound(text)
                         THEN [call EXCEPT !.pc = "named", !.command = command, !.name = text]
                         ELSE [call EXCEPT !.pc = "over", !.outcome = "refused_locally"]
          PROVE  WordsInv'
      <3>1. CASE NicknameSound(text)
        <4>1. text \in Seq(Characters)
          BY TextsAreSeqs
        <4>2. GoodName(text, FALSE)
          BY <3>1, <4>1, SoundNames DEF GoodName, NameChars
        <4>3. /\ call'.pc = "named" /\ call'.command = command /\ call'.name = text
              /\ call'.chosen = call.chosen /\ call'.sent = call.sent /\ call'.heard = call.heard
              /\ call'.refusal = call.refusal /\ call'.exit = call.exit
          BY <1>1, <2>4, <3>1 DEF Fields
        <4>4. call.chosen = FALSE
          BY <2>2 DEF WordsInv
        <4> QED BY <2>2, <2>3, <4>2, <4>3, <4>4
      <3>2. CASE ~NicknameSound(text)
        <4>1. /\ call'.pc = "over" /\ call'.heard = call.heard /\ call'.sent = call.sent
              /\ call'.name = call.name /\ call'.chosen = call.chosen
              /\ call'.refusal = call.refusal /\ call'.exit = call.exit
          BY <1>1, <2>4, <3>2 DEF Fields
        <4> QED BY <1>2, <1>3, <2>2, <4>1, EndsKeep
      <3> QED BY <3>1, <3>2
    <2>5. ASSUME NEW user \in Texts(NameSize - 1) \cup {Unknown},
                 NEW host \in Texts(NameSize - 1) \cup {Unknown},
                 call' = [call EXCEPT !.pc = "named", !.command = command, !.chosen = TRUE,
                                      !.name = AutoNickname(user, host)]
          PROVE  WordsInv'
      <3>1. /\ user = Unknown \/ user \in Seq(Characters)
            /\ host = Unknown \/ host \in Seq(Characters)
        BY TextsAreSeqs
      <3>2. GoodName(AutoNickname(user, host), TRUE)
        BY <3>1, AutoNicknameGood
      <3>3. /\ call'.pc = "named" /\ call'.command = command /\ call'.name = AutoNickname(user, host)
            /\ call'.chosen = TRUE /\ call'.sent = call.sent /\ call'.heard = call.heard
            /\ call'.refusal = call.refusal /\ call'.exit = call.exit
        BY <1>1, <2>5 DEF Fields
      <3> QED BY <2>2, <2>3, <3>2, <3>3
    <2> QED BY <2>1, <2>4, <2>5
  <1>5. CASE Operate
    <2>1. PICK command \in Operated :
             call' = [call EXCEPT !.pc = "parsed", !.command = command,
                                  !.sent = <<<<command>>>>, !.heard = <<<<command>>>>]
      BY <1>5 DEF Operate
    <2>2. /\ call'.pc = "parsed" /\ call'.command = command
          /\ call'.sent = <<<<command>>>> /\ call'.heard = <<<<command>>>>
          /\ call'.refusal = call.refusal /\ call'.exit = call.exit
      BY <1>1, <2>1 DEF Fields
    <2>3. call.pc = "idle" /\ UNCHANGED copy
      BY <1>5 DEF Operate
    <2> QED BY <1>2, <1>3, <2>2, <2>3 DEF WordsInv, CallsUnderstood
  <1>6. CASE Call
    <2>1. PICK server \in [protocol : BOOLEAN, compatible : BOOLEAN] :
             call' = [call EXCEPT !.pc = "sent", !.server = server,
                                  !.sent = Arguments(call.command, call.name)]
      BY <1>6 DEF Call
    <2>2. /\ call'.pc = "sent" /\ call'.command = call.command /\ call'.name = call.name
          /\ call'.chosen = call.chosen /\ call'.sent = Arguments(call.command, call.name)
          /\ call'.heard = call.heard /\ call'.refusal = call.refusal /\ call'.exit = call.exit
      BY <1>1, <2>1 DEF Fields
    <2>3. call.pc = "named" /\ UNCHANGED copy
      BY <1>6 DEF Call
    <2> QED BY <1>2, <1>3, <2>2, <2>3 DEF WordsInv, CallsUnderstood
  <1>7. CASE Shell
    <2>0. call.pc = "sent" /\ UNCHANGED copy
      BY <1>7 DEF Shell
    <2>1. CASE Replies("127", NoOutput)
      <3>1. /\ call'.pc = "exited" /\ call'.heard = call.heard /\ call'.sent = call.sent
            /\ call'.name = call.name /\ call'.chosen = call.chosen
            /\ call'.refusal = call.refusal /\ call'.exit = "127"
        BY <1>1, <2>1 DEF Fields, Replies
      <3> QED BY <1>2, <1>3, <2>0, <3>1, EndsKeep
    <2>2. CASE LET words == ShellWords(CommandLine(call.sent)) IN
               call' = [call EXCEPT !.pc = "started",
                                    !.heard = IF words = <<>> THEN <<>> ELSE Tail(words)]
      <3>1. call.sent \in Seq(Seq(CallChars))
        <4>1. \/ /\ call.command \in Asked /\ GoodName(call.name, call.chosen)
                 /\ call.sent = Arguments(call.command, call.name)
              \/ call.command \in Operated /\ call.sent = <<<<call.command>>>>
          BY <2>0 DEF WordsInv
        <4>2. CASE call.command \in Asked /\ GoodName(call.name, call.chosen)
                   /\ call.sent = Arguments(call.command, call.name)
          <5>1. call.name \in Seq(NameChars) /\ call.command \in Commands
            BY <4>2 DEF GoodName, NameChars, Commands
          <5> QED BY <4>2, <5>1, ArgumentsType
        <4>3. CASE call.command \in Operated /\ call.sent = <<<<call.command>>>>
          <5>1. call.command \in Commands /\ <<>> \in Seq(NameChars)
            BY <4>3 DEF Commands
          <5> QED BY <4>3, <5>1, ArgumentsType
        <4> QED BY <4>1, <4>2, <4>3
      <3>2. LET words == ShellWords(CommandLine(call.sent))
            IN  words # <<>> /\ Tail(words) = call.sent
        BY <3>1, HeardAsSent
      <3>3. call' = [call EXCEPT !.pc = "started", !.heard = call.sent]
        BY <2>2, <3>2
      <3>4. /\ call'.pc = "started" /\ call'.heard = call.sent /\ call'.sent = call.sent
            /\ call'.name = call.name /\ call'.chosen = call.chosen /\ call'.command = call.command
            /\ call'.refusal = call.refusal /\ call'.exit = call.exit
        BY <1>1, <3>3 DEF Fields
      <3> QED BY <1>2, <1>3, <2>0, <3>4 DEF WordsInv, CallsUnderstood
    <2> QED BY <1>7, <2>1, <2>2 DEF Shell
  <1>8. CASE Parse
    <2>0. call.pc = "started" /\ UNCHANGED copy /\ call.heard = call.sent
      BY <1>8 DEF Parse, WordsInv
    <2>1. CASE /\ Len(call.heard) = Len(call.sent)
               /\ \A i \in DOMAIN call.heard :
                    i \in {3, 5} =>
                        call.heard[i] \in {<<>>, <<"-">>} \/ Head(call.heard[i]) # "-"
      <3>1. CallGoes("parsed")
        BY <1>8, <2>1 DEF Parse
      <3>2. /\ call'.pc = "parsed" /\ call'.heard = call.heard /\ call'.sent = call.sent
            /\ call'.name = call.name /\ call'.chosen = call.chosen /\ call'.command = call.command
            /\ call'.refusal = call.refusal /\ call'.exit = call.exit
        BY <1>1, <3>1 DEF Fields, CallGoes
      <3> QED BY <2>0, <3>2, GoingOnKeeps
    <2>2. CASE ~(/\ Len(call.heard) = Len(call.sent)
                 /\ \A i \in DOMAIN call.heard :
                      i \in {3, 5} =>
                        call.heard[i] \in {<<>>, <<"-">>} \/ Head(call.heard[i]) # "-")
      <3>1. Replies("2", NoOutput)
        BY <1>8, <2>2 DEF Parse
      <3>2. /\ call'.pc = "exited" /\ call'.heard = call.heard /\ call'.sent = call.sent
            /\ call'.name = call.name /\ call'.chosen = call.chosen
            /\ call'.refusal = call.refusal
        BY <1>1, <3>1 DEF Fields, Replies
      <3>3. PICK i \in DOMAIN call.sent :
              i \in {3, 5} /\ call.sent[i] # <<>> /\ Head(call.sent[i]) = "-"
        BY <2>0, <2>2
      <3>4. /\ call.command \in Asked /\ GoodName(call.name, call.chosen)
            /\ call.sent = Arguments(call.command, call.name)
        <4>1. DOMAIN <<<<call.command>>>> = 1..1
          OBVIOUS
        <4>2. ~(call.command \in Operated /\ call.sent = <<<<call.command>>>>)
          BY <3>3, <4>1
        <4> QED BY <2>0, <4>2 DEF WordsInv
      <3>5. call.command \in ProtocolCommands
        <4>1. ASSUME call.command \notin ProtocolCommands
              PROVE  FALSE
          <5>1. i \in 1..1 /\ i \in {3, 5}
            BY <3>3, <3>4, <4>1, ArgumentsAre
          <5> QED BY <5>1
        <4> QED BY <4>1
      <3>6. call.sent[3] = call.name /\ call.sent[5] = SomeRunId
        BY <3>4, <3>5, ArgumentsAre
      <3>7. i = 3
        BY <3>3, <3>6, RunIdIsSound
      <3>8. Head(call.name) = "-"
        BY <3>3, <3>6, <3>7
      <3>9. ~call.chosen
        BY <3>4, <3>8 DEF GoodName, Separators
      <3> QED BY <1>2, <1>3, <2>0, <3>2, <3>8, <3>9, EndsKeep
    <2> QED BY <2>1, <2>2
  <1>9. CASE LoadConfig
    <2>0. call.pc = "parsed" /\ UNCHANGED copy
      BY <1>9 DEF LoadConfig
    <2>1. CallGoes("run") \/ CallGoes("loaded") \/ ConfigFailure
      BY <1>9 DEF LoadConfig
    <2>2. CASE CallGoes("run")
      <3>1. /\ call'.pc = "run" /\ call'.heard = call.heard /\ call'.sent = call.sent
            /\ call'.name = call.name /\ call'.chosen = call.chosen
            /\ call'.refusal = call.refusal /\ call'.exit = call.exit
        BY <1>1, <2>2 DEF Fields, CallGoes
      <3> QED BY <1>2, <1>3, <2>0, <3>1, EndsKeep
    <2>3. CASE CallGoes("loaded")
      <3>1. /\ call'.pc = "loaded" /\ call'.heard = call.heard /\ call'.sent = call.sent
            /\ call'.name = call.name /\ call'.chosen = call.chosen /\ call'.command = call.command
            /\ call'.refusal = call.refusal /\ call'.exit = call.exit
        BY <1>1, <2>3 DEF Fields, CallGoes
      <3> QED BY <2>0, <3>1, GoingOnKeeps
    <2>4. CASE ConfigFailure
      <3>1. /\ call'.pc = "exited" /\ call'.heard = call.heard /\ call'.sent = call.sent
            /\ call'.name = call.name /\ call'.chosen = call.chosen
            /\ call'.refusal = "server_config_invalid" /\ call'.exit = "1"
        BY <1>1, <2>4 DEF Fields, ConfigFailure, Refuses
      <3> QED BY <2>0, <3>1, EndsKeep
    <2> QED BY <2>1, <2>2, <2>3, <2>4
  <1>10. CASE Validate
    <2>0. call.pc = "loaded" /\ UNCHANGED copy /\ call.heard = call.sent
      BY <1>10 DEF Validate, WordsInv
    <2>1. ASSUME call.command \in ProtocolCommands
          PROVE  NicknameSound(call.heard[3]) /\ RunIdSound(call.heard[5])
      <3>1. call.command \notin Operated
        BY <2>1 DEF ProtocolCommands, Operated
      <3>2. GoodName(call.name, call.chosen) /\ call.sent = Arguments(call.command, call.name)
        BY <2>0, <3>1 DEF WordsInv
      <3>3. call.name \in Seq(NameChars) /\ call.name # <<>>
        BY <3>2 DEF GoodName, NameChars
      <3>4. NicknameSound(call.name)
        BY <3>3, SoundNames
      <3> QED BY <2>0, <2>1, <3>2, <3>4, ArgumentsAre, RunIdIsSound
    <2>2. CallGoes("run")
      BY <1>10, <2>1 DEF Validate
    <2>3. /\ call'.pc = "run" /\ call'.heard = call.heard /\ call'.sent = call.sent
          /\ call'.name = call.name /\ call'.chosen = call.chosen
          /\ call'.refusal = call.refusal /\ call'.exit = call.exit
      BY <1>1, <2>2 DEF Fields, CallGoes
    <2> QED BY <1>2, <1>3, <2>0, <2>3, EndsKeep
  <1>11. CASE Run
    <2>0. call.pc = "run" /\ UNCHANGED copy
      BY <1>11 DEF Run
    <2>1. /\ call'.pc = "exited" /\ call'.heard = call.heard /\ call'.sent = call.sent
          /\ call'.name = call.name /\ call'.chosen = call.chosen
          /\ call'.refusal = call.refusal \/ call'.refusal = ErrorCode(call.command)
          /\ call'.exit \in {"0", "1"}
      BY <1>1, <1>11 DEF Fields, Run, Refuses
    <2>2. ErrorCode(call.command) # "invalid_request"
      BY DEF ErrorCode
    <2> QED BY <1>2, <1>3, <2>0, <2>1, <2>2, EndsKeep
  <1>12. CASE Dies
    <2>1. /\ call'.pc = "exited" /\ call'.heard = call.heard /\ call'.sent = call.sent
          /\ call'.name = call.name /\ call'.chosen = call.chosen
          /\ call'.refusal = call.refusal /\ call'.exit = "255" /\ UNCHANGED copy
      BY <1>1, <1>12 DEF Fields, Dies
    <2> QED BY <2>1, EndsKeep DEF WordsInv, CallsUnderstood
  <1>13. CASE Disturbed
    <2>1. /\ call'.pc = "arrived" /\ call'.heard = call.heard /\ call'.sent = call.sent
          /\ call'.name = call.name /\ call'.chosen = call.chosen
          /\ call'.refusal = call.refusal /\ UNCHANGED copy
          /\ call'.exit \in {"255", "signal", call.exit}
      BY <1>1, <1>13 DEF Fields, Disturbed
    <2>2. call.refusal # "invalid_request"
      BY DEF WordsInv, CallsUnderstood
    <2>3. call'.exit = "2" => call.exit = "2"
      BY <2>1
    <2> QED BY <2>1, <2>2, <2>3, EndsKeep
  <1>14. CASE Arrives \/ Classify
    <2>1. /\ call'.pc \in {"arrived", "over"} /\ call'.heard = call.heard /\ call'.sent = call.sent
          /\ call'.name = call.name /\ call'.chosen = call.chosen
          /\ call'.refusal = call.refusal /\ UNCHANGED copy /\ call'.exit = call.exit
      BY <1>1, <1>14 DEF Fields, Arrives, Classify, CallGoes
    <2> QED BY <2>1, EndsKeep DEF WordsInv, CallsUnderstood
  <1>15. CASE WriteRemoteFile
    <2>1. PICK path \in {<<"/">> \o text : text \in Texts(PathSize)} :
             LET words == ShellWords(<<"cat", Blank, ">", Blank>> \o ShellEscape(path)) IN
             copy' = [told |-> path, written |-> IF Len(words) = 3 THEN words[3] ELSE <<>>]
      BY <1>15 DEF WriteRemoteFile
    <2> DEFINE C == Characters \cup ShellUses \cup {"/"}
               words == ShellWords(<<"cat", Blank, ">", Blank>> \o ShellEscape(path))
    <2>2. path \in Seq(C)
      <3>1. PICK text \in Texts(PathSize) : path = <<"/">> \o text
        OBVIOUS
      <3>2. text \in Seq(Characters)
        BY TextsAreSeqs
      <3>3. text \in Seq(C) /\ "/" \in C
        BY <3>2
      <3> HIDE DEF C
      <3> QED BY <3>1, <3>3
    <2>3. Len(words) = 3 /\ words[3] = path
      <3>1. ShellUses \subseteq C
        OBVIOUS
      <3> HIDE DEF C
      <3> QED BY <2>2, <3>1, CopyIsUnderstood
    <2> HIDE DEF words
    <2>4. copy' = [told |-> path, written |-> path]
      BY <2>1, <2>3 DEF words
    <2>5. copy'.told = copy'.written
      BY <2>4
    <2>6. UNCHANGED call
      BY <1>15 DEF WriteRemoteFile
    <2> QED BY <2>5, <2>6 DEF WordsInv, CallsUnderstood
  <1> QED BY <1>4, <1>5, <1>6, <1>7, <1>8, <1>9, <1>10, <1>11, <1>12, <1>13, <1>14, <1>15
          DEF CallNext

\* The server hears the words the client meant, finds nothing wrong with the
\* names, and a file is written at the path the server told, for whatever
\* characters the names and the path are made of (sanitize_nickname,
\* Nickname::new, shell_escape, Cli::parse, validate_nickname_and_run_id,
\* write_remote_file).
THEOREM CommandsUnderstood == RemoteSpec => []CallsUnderstood
  <1>1. CallInv /\ WordsInv /\ [RemoteNext]_<<vars, callVars>> => CallInv' /\ WordsInv'
    <2>1. CallInv /\ WordsInv /\ UNCHANGED callVars => CallInv' /\ WordsInv'
      BY DEF CallInv, WordsInv, CallsUnderstood, callVars
    <2> QED BY CallInvStep, WordsInvStep, <2>1 DEF RemoteNext, callVars
  <1>2. WordsInv => CallsUnderstood
    BY DEF WordsInv
  <1> QED BY CallInvInit, WordsInvInit, <1>1, <1>2, PTL DEF RemoteSpec
=============================================================================
