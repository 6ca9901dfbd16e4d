------------------------------ MODULE MCImport ------------------------------
(***************************************************************************)
(* Instance of Import for TLC.                                             *)
(***************************************************************************)
EXTENDS Import

Transcode(expected) == [name |-> "transcode", program |-> "ffmpeg", expected |-> expected]

Config(definitions) == [transforms |-> definitions, lease |-> 1800, heartbeat |-> 60]

\* Two outputs, which are one when the entry keeps its name; one named for the
\* entry; none at all.
Two == Config(<<Transcode(<<<<"{target_path}">>, <<"{file_name}">>>>)>>)
Renamed == Config(<<Transcode(<<<<"{target_directory}", "/", "{file_stem}", ".y">>>>)>>)
Deletes == Config(<<Transcode(<<>>)>>)
Empty == Config(<<>>)

\* Texts some command refuses: a second definition of the name, a pattern that
\* climbs, a program that is not there, a heartbeat slower than the lease.
Twice == Config(<<Transcode(<<>>), Transcode(<<>>)>>)
Climbs == Config(<<Transcode(<<<<"..", "/", "{file_name}">>>>)>>)
Absentee == Config(<<[Transcode(<<>>) EXCEPT !.program = "lost"]>>)
Slow == [Deletes EXCEPT !.heartbeat = 1000]

SomeConfigs == {Two, Renamed, Deletes, Empty, Twice, Climbs, Absentee, Slow}

Video == <<"n", ".x">>

(***************************************************************************)
(* Properties.                                                             *)
(***************************************************************************)
ListedIn(o, m) ==
    CASE m.kind = "regular_file" -> o = m.sha256 \/ (m.sha256 = None /\ o = "empty")
      [] m.kind = "symlink" -> o = m.link_target
      [] m.kind = "directory" -> o = "directory"

\* docs/design/import-semantics.md:19.  Whatever the user does to the source
\* while it is described, queued and sent, and however often a processor dies,
\* a program is only ever given what the manifest lists
\* (process_manifest_entry, verify_staged).
WorkedAsListed == \A o \in ghost.worked : ListedIn(o, run.manifest)

\* A run is published as done only after a program had the staged entry, and
\* every path its status names is there, unless others than the programs have
\* been at it (apply_transform_for_target), also when the program of a dead
\* processor and that of its successor follow different definitions.
ImportedHasOutputs ==
    run.phase = "done" =>
        /\ run.staged \in ghost.worked
        /\ \A p \in run.final_paths : outputs[p] = "entry" \/ p \in ghost.meddled

\* A plan that prepare-run has accepted is refused after the upload only if the
\* setup was edited since, and what was staged is refused only if the source
\* changed after the client first looked at it: the second validation agrees
\* with the first (validate_transform_run, Manifest::from_toml, build_manifest).
RefusalsHaveCauses ==
    /\ run.cause = "plan" => ghost.edited
    /\ run.cause = "staged" => ghost.moved
=============================================================================
