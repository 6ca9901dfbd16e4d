---------------------------- MODULE ChildProcess ----------------------------
(***************************************************************************)
(* A spawned command, its two output pipes and the threads that drain them *)
(* (RemoteCommandHandle of the client's runner.rs).  The server runs a     *)
(* transform in the same way (transform.rs), without ever killing it, and  *)
(* only warns of a pipe whose read failed.                                 *)
(*                                                                         *)
(* The command may leave a descendant behind that still has the pipes open *)
(* (a connection master of ssh, a transform that makes itself a daemon).   *)
(* The k-th chunk written to a stream is the number k.                     *)
(***************************************************************************)
EXTENDS Integers, Sequences, FiniteSets

CONSTANTS
    PipeSize,     \* chunks the kernel buffers for a pipe
    TailSize,     \* chunks of a stream that are kept
    MaxOutput,    \* bound: chunks written to a stream
    MaxErrors,    \* bound: waitpid and pipe reads that fail
    Descendants   \* processes the command may leave behind

ASSUME ChildProcessAssumption ==
    {PipeSize, TailSize, MaxOutput} \subseteq Nat \ {0} /\ MaxErrors \in Nat

Streams == {"stdout", "stderr"}
Codes == {"0", "255", "other", "signal"}
Exits == {"none", "success", "transport", "remote"}

VARIABLES
    child,     \* "running", or the code of the zombie
    todo,      \* todo[s]: the chunks the command has yet to write to s
    holders,   \* the descendants that live, with the pipes open
    pipe,      \* pipe[s]: the chunks in the pipe
    written,   \* written[s]: how many chunks were written to s
    buf,       \* buf[s]: what the drainer of s has kept
    drainer,   \* drainer[s]: "reading", or how it "ended" or "failed"
    caller,    \* the step of the thread that waits for the command
    killed,    \* the caller has sent SIGKILL
    exit,      \* what it was told
    errors     \* failed system calls so far

vars == <<child, todo, holders, pipe, written, buf, drainer, caller, killed, exit, errors>>

Chunks == Seq(1..MaxOutput)

ChildTypeOK ==
    /\ child \in {"running"} \cup Codes
    /\ todo \in [Streams -> 0..MaxOutput]
    /\ holders \subseteq Descendants
    /\ pipe \in [Streams -> Chunks] /\ buf \in [Streams -> Chunks]
    /\ \A s \in Streams : Len(pipe[s]) <= PipeSize /\ Len(buf[s]) <= TailSize
    /\ written \in [Streams -> 0..MaxOutput]
    /\ drainer \in [Streams -> {"reading", "ended", "failed"}]
    /\ caller \in {"poll", "join_stdout", "join_stderr", "over"}
    /\ killed \in BOOLEAN
    /\ exit \in Exits
    /\ errors \in 0..MaxErrors

Init ==
    /\ child = "running"
    /\ todo \in [Streams -> 0..MaxOutput]
    /\ holders = {}
    /\ pipe = [s \in Streams |-> <<>>]
    /\ written = [s \in Streams |-> 0]
    /\ buf = [s \in Streams |-> <<>>]
    /\ drainer = [s \in Streams |-> "reading"]
    /\ caller = "poll"
    /\ killed = FALSE
    /\ exit = "none"
    /\ errors = 0

LastOf(seq, n) == IF Len(seq) <= n THEN seq ELSE SubSeq(seq, Len(seq) - n + 1, Len(seq))

HasWriter == child = "running" \/ holders # {}

----------------------------------------------------------------------------
(* The command and what it leaves behind *)

\* A write blocks while the pipe is full.
Write(s) ==
    /\ Len(pipe[s]) < PipeSize /\ written[s] < MaxOutput
    /\ written' = [written EXCEPT ![s] = @ + 1]
    /\ pipe' = [pipe EXCEPT ![s] = Append(@, written[s] + 1)]

ChildWrites(s) ==
    /\ child = "running" /\ todo[s] > 0 /\ drainer[s] = "reading"
    /\ todo' = [todo EXCEPT ![s] = @ - 1]
    /\ Write(s)
    /\ UNCHANGED <<child, holders, buf, drainer, caller, killed, exit, errors>>

ChildForks(d) ==
    /\ child = "running"
    /\ holders' = holders \cup {d}
    /\ UNCHANGED <<child, todo, pipe, written, buf, drainer, caller, killed, exit, errors>>

\* The command ends with its output written.  When the drainer of a stream it
\* writes to has failed, it ends by SIGPIPE or as it likes on a broken pipe.
ChildExits ==
    /\ child = "running"
    /\ \/ todo = [s \in Streams |-> 0] /\ child' \in Codes \ {"signal"}
       \/ \E s \in Streams : drainer[s] = "failed" /\ todo[s] > 0 /\ child' \in Codes
    /\ UNCHANGED <<todo, holders, pipe, written, buf, drainer, caller, killed, exit, errors>>

\* Another's signal ends it at any time.
ChildSignalled ==
    /\ child = "running" /\ child' = "signal"
    /\ UNCHANGED <<todo, holders, pipe, written, buf, drainer, caller, killed, exit, errors>>

DescendantWrites(s) ==
    /\ holders # {} /\ todo[s] + written[s] < MaxOutput /\ drainer[s] = "reading"
    /\ Write(s)
    /\ UNCHANGED <<child, todo, holders, buf, drainer, caller, killed, exit, errors>>

DescendantEnds(d) ==
    /\ d \in holders
    /\ holders' = holders \ {d}
    /\ UNCHANGED <<child, todo, pipe, written, buf, drainer, caller, killed, exit, errors>>

----------------------------------------------------------------------------
(* The drainers *)

\* Mutant: a drainer with all it will keep reads no further.
DrainUntilFull(s) ==
    /\ drainer[s] = "reading" /\ pipe[s] # <<>> /\ Len(buf[s]) < TailSize
    /\ buf' = [buf EXCEPT ![s] = LastOf(@ \o pipe[s], TailSize)]
    /\ pipe' = [pipe EXCEPT ![s] = <<>>]
    /\ UNCHANGED <<child, todo, holders, written, drainer, caller, killed, exit, errors>>

\* What is in the pipe is read, and the excess dropped from the front.
Drain(s) ==
    /\ drainer[s] = "reading" /\ pipe[s] # <<>>
    /\ buf' = [buf EXCEPT ![s] = LastOf(@ \o pipe[s], TailSize)]
    /\ pipe' = [pipe EXCEPT ![s] = <<>>]
    /\ UNCHANGED <<child, todo, holders, written, drainer, caller, killed, exit, errors>>

\* End of file: the pipe is empty and nobody has it open for writing.  A read
\* error stops the drainer too, and closes the pipe.
DrainerEnds(s) ==
    /\ drainer[s] = "reading"
    /\ \/ /\ pipe[s] = <<>> /\ ~HasWriter
          /\ drainer' = [drainer EXCEPT ![s] = "ended"]
          /\ UNCHANGED errors
       \/ /\ errors < MaxErrors /\ errors' = errors + 1
          /\ drainer' = [drainer EXCEPT ![s] = "failed"]
    /\ UNCHANGED <<child, todo, holders, pipe, written, buf, caller, killed, exit>>

----------------------------------------------------------------------------
(* The caller: try_wait, wait, wait_timeout, terminate_and_reap *)

\* The command is found to have ended (an unfinished poll leaves no trace),
\* or waitpid fails and the drainers are left alone.
TryWait ==
    /\ caller = "poll"
    /\ \/ /\ child # "running"
          /\ caller' = "join_stdout"
          /\ UNCHANGED <<exit, errors>>
       \/ /\ errors < MaxErrors
          /\ errors' = errors + 1
          /\ caller' = "over"
          /\ exit' = "transport"
    /\ UNCHANGED <<child, todo, holders, pipe, written, buf, drainer, killed>>

\* kill_raw: SIGKILL to the command, which says nothing to its descendants.
Kill ==
    /\ caller = "poll" /\ ~killed
    /\ killed' = TRUE
    /\ child' = IF child = "running" THEN "signal" ELSE child
    /\ UNCHANGED <<todo, holders, pipe, written, buf, drainer, caller, exit, errors>>

Classified ==
    CASE child = "0" -> "success"
      [] child \in {"255", "signal"} -> "transport"
      [] OTHER -> "remote"

\* Mutant: the buffers are taken as they are when the command has ended.
TakeStdout ==
    /\ caller = "join_stdout"
    /\ caller' = "join_stderr"
    /\ UNCHANGED <<child, todo, holders, pipe, written, buf, drainer, killed, exit, errors>>

JoinStdout ==
    /\ caller = "join_stdout" /\ drainer["stdout"] # "reading"
    /\ caller' = "join_stderr"
    /\ UNCHANGED <<child, todo, holders, pipe, written, buf, drainer, killed, exit, errors>>

JoinStderr ==
    /\ caller = "join_stderr" /\ drainer["stderr"] # "reading"
    /\ caller' = "over"
    /\ exit' = Classified
    /\ UNCHANGED <<child, todo, holders, pipe, written, buf, drainer, killed, errors>>

Work == \/ ChildExits
        \/ \E s \in Streams : ChildWrites(s)
Environment == \/ ChildSignalled
               \/ \E d \in Descendants : ChildForks(d) \/ DescendantEnds(d)
               \/ \E s \in Streams : DescendantWrites(s)
Waiting == TryWait \/ JoinStdout \/ JoinStderr

Next == \/ Work \/ Environment \/ Waiting \/ Kill
        \/ \E s \in Streams : Drain(s) \/ DrainerEnds(s)

Spec == Init /\ [][Next]_vars

\* Threads are scheduled, and the command ends unless it waits for room in a
\* pipe.  Nothing is assumed of what it leaves behind.
FairSpec ==
    /\ Spec
    /\ WF_vars(Work) /\ WF_vars(Waiting)
    /\ \A s \in Streams : WF_vars(Drain(s) \/ DrainerEnds(s))

----------------------------------------------------------------------------
(* Properties *)

\* An exit whose stdout is read for the protocol's answer or its error (success
\* and remote failure, runner.rs:51, run.rs:432) comes with the end of all
\* that was written to each stream: all a finished command had to say and
\* what its descendants added.  Only a pipe whose read failed is cut short,
\* and holds the end of a beginning, with no gap: the drainer breaks off and
\* the exit is told all the same (runner.rs:167).
AnswerIsWhole ==
    exit \in {"success", "remote"} =>
        /\ \A s \in Streams :
              /\ \E n \in 0..written[s] : buf[s] = LastOf([k \in 1..n |-> k], TailSize)
              /\ drainer[s] # "failed" =>
                    buf[s] = LastOf([k \in 1..written[s] |-> k], TailSize)
        /\ (\A s \in Streams : drainer[s] # "failed") => todo = [s \in Streams |-> 0]

(***************************************************************************)
(* What makes AnswerIsWhole inductive.  seq counts on from one number to   *)
(* another; what was read of a stream is what is no longer in its pipe.    *)
(***************************************************************************)
Counts(seq, from, to) ==
    /\ seq \in Seq(Nat) /\ from \in Nat /\ to \in Nat
    /\ to = from + Len(seq)
    /\ \A i \in 1..Len(seq) : seq[i] = from + i

Read(s) == written[s] - Len(pipe[s])

\* The pipe carries on where what was read ends, and the end of that is kept.
StreamInv ==
    \A s \in Streams :
        /\ Counts(pipe[s], Read(s), written[s])
        /\ Counts(buf[s], Read(s) - Len(buf[s]), Read(s))
        /\ Len(buf[s]) <= TailSize
        /\ Len(buf[s]) < TailSize => Read(s) = Len(buf[s])

\* A command that ends of itself has written its output, or a drainer failed.
OutputInv ==
    child \in Codes \ {"signal"} =>
        todo = [s \in Streams |-> 0] \/ \E s \in Streams : drainer[s] = "failed"

\* A drainer ends after the last writer; the caller goes on when the command,
\* then one drainer, then the other has stopped.
JoinInv ==
    /\ \A s \in Streams : drainer[s] = "ended" => pipe[s] = <<>> /\ ~HasWriter
    /\ caller \in {"join_stdout", "join_stderr"} => child # "running"
    /\ caller = "join_stderr" => drainer["stdout"] # "reading"
    /\ exit \in {"success", "remote"} =>
          /\ caller = "over" /\ child \in Codes \ {"signal"}
          /\ \A s \in Streams : drainer[s] # "reading"

ChildInv == StreamInv /\ OutputInv /\ JoinInv

\* A command never waits for ever for room in a pipe, and the caller is told
\* of its end, unless a descendant keeps the pipes open for good: the drainers
\* are joined on the assumption that "both pipes have EOF'd" (runner.rs:196),
\* and neither a deadline nor the kill in terminate_and_reap reaches beyond
\* the command itself.
CommandsEnd == <>[](holders = {}) => <>(caller = "over")
=============================================================================
