---------------------------- MODULE Destination ----------------------------
(***************************************************************************)
(* Where a transform places its output (crates/purgery-core/src/path.rs).  *)
(* The server looks at the destination once, when it plans an import, and  *)
(* decides whether the entry replaces the destination itself (an exact     *)
(* target) or goes below it (a directory target).  Paths are abstracted to *)
(* the four facts the decision depends on.                                 *)
(***************************************************************************)

\* The lexical intent of the destination operand: no suffix, "/", "/." or "./".
Intents == {"exact_or_existing", "trailing_slash", "terminal_dot", "terminal_dot_slash"}

\* What is at the destination when the plan is made.
DestinationStates == {"missing", "directory", "non_directory", "dangling_symlink"}

\* The manifest entry: its kind and, for a directory, whether it is empty.
EntryKinds == {"directory", "regular_file", "symlink"}

Requests == [intent : Intents, kind : EntryKinds, empty : BOOLEAN]

Placements == {"exact_target", "directory_target"}

NonEmptyDirectory(req) == req.kind = "directory" /\ ~req.empty

\* resolve_destination refuses the combinations rsync refuses.
DestinationRefused(req, state) ==
    \/ req.intent # "exact_or_existing" /\ state \in {"non_directory", "dangling_symlink"}
    \/ req.kind = "directory" /\ state = "non_directory"
    \/ NonEmptyDirectory(req) /\ state = "dangling_symlink"
    \/ state = "missing" /\ req.intent = "terminal_dot_slash"
    \/ state = "missing" /\ req.intent = "terminal_dot" /\ NonEmptyDirectory(req)

\* The placement of an entry the resolver accepts.
ResolveDestination(req, state) ==
    IF \/ req.intent # "exact_or_existing"
       \/ state = "directory"
       \/ NonEmptyDirectory(req) /\ state # "dangling_symlink"
    THEN "directory_target"
    ELSE "exact_target"
=============================================================================
