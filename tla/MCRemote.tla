------------------------------ MODULE MCRemote ------------------------------
(***************************************************************************)
(* Instance for TLC of the two halves of a remote command: what is said    *)
(* and understood (RemoteCall), and the child process it is said through   *)
(* (ChildProcess).  Each is checked while the other rests, at an end where *)
(* nothing of it can happen.                                               *)
(***************************************************************************)
EXTENDS RemoteCall, ChildProcess

\* Characters a shell takes for its own.
Specials == {" ", "'", "\\"}

CallAtRest == call = [Idle EXCEPT !.pc = "over"]

ChildAtRest ==
    /\ child = "0" /\ caller = "over" /\ holders = {}
    /\ todo = [s \in Streams |-> 0] /\ written = todo
    /\ pipe = [s \in Streams |-> <<>>] /\ buf = pipe
    /\ drainer = [s \in Streams |-> "ended"]
    /\ killed = FALSE /\ exit = "none" /\ errors = 0

RemoteInit ==
    /\ CopyInit
    /\ \/ CallInit /\ ChildAtRest
       \/ CallAtRest /\ Init

RemoteNext ==
    \/ CallNext /\ UNCHANGED vars
    \/ Next /\ UNCHANGED callVars

\* The fairness of ChildProcess; nothing is asked of the call in the end.
RemoteSpec ==
    /\ RemoteInit /\ [][RemoteNext]_<<vars, callVars>>
    /\ WF_vars(Work) /\ WF_vars(Waiting)
    /\ \A s \in Streams : WF_vars(Drain(s) \/ DrainerEnds(s))
=============================================================================
