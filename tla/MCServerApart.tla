---------------------------- MODULE MCServerApart ----------------------------
(***************************************************************************)
(* Uploads and their retries while processors are at work, and questions   *)
(* about a run an earlier process left while processors and the collector  *)
(* are at it.                                                              *)
(***************************************************************************)
EXTENDS MCServer

VARIABLE uploading   \* which of the two

ApartInit ==
    /\ ServerInit
    /\ uploading = (\E r \in Runs : stage[r] = "new")

ApartNext ==
    /\ ServerNext
    /\ uploading => UNCHANGED <<gc, ask>>
    /\ UNCHANGED uploading

ApartSpec == ApartInit /\ [][ApartNext]_<<serverVars, uploading>>
=============================================================================
