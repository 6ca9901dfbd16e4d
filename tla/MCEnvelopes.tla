---------------------------- MODULE MCEnvelopes ----------------------------
(***************************************************************************)
(* Instance of Envelopes for TLC: this program is 0.1.0.                   *)
(***************************************************************************)
EXTENDS Envelopes

This == <<0, 1, 0>>

\* Another patch, minor and major version, and strings that are no version.
SomeVersions == {This, <<0, 1, 7>>, <<0, 2, 0>>, <<1, 1, 0>>, <<0, 1>>, <<>>}
=============================================================================
