----------------------------- MODULE Operations -----------------------------
(***************************************************************************)
(* What the parts of purgery-client share.                                 *)
(***************************************************************************)
CONSTANTS
    Runs,       \* sync operations, each with a run id of its own
    Clients     \* invocations of purgery-client that may be under way at a time

ASSUME RunsAssumption == Runs # {}
=============================================================================
