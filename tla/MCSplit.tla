------------------------------ MODULE MCSplit ------------------------------
(***************************************************************************)
(* Instance of Split for TLC: names of one and two characters on three     *)
(* levels, and patterns of every form the documentation names.             *)
(***************************************************************************)
EXTENDS Split

a == <<"a">>
b == <<"b">>
ab == <<"a", "b">>

SomeFolders == {<<>>, <<a>>, <<a, b>>, <<ab>>}
SomeNodes == SomeFolders \cup {<<b>>, <<a, ab>>, <<a, b, a>>, <<ab, b>>}

SomeBrackets == "[ab]" :> {"a", "b"} @@ "[!a]" :> {"b", "."}
Bytes == <<".", "/", "a", "b">>
S == <<"a", "a">>

PlainPatterns ==
    {<<"*">>, <<".">>, <<"a">>, <<"/", "a">>, <<"b", "/">>, <<"?", "b">>, <<"*", "b">>,
     <<"[ab]">>, <<"[!a]", "/">>, <<"*", "/", "b">>, <<"/", "*", "/", "*", "b">>,
     <<"**", "/", "b">>, <<"a", "/", "**">>, <<"a", "/", "**", "/", "a">>,
     <<"a", "*", "b", "/", "**">>,
     <<"**", "/", "*", "b", "/">>, <<"**", "/", "b", "/", "a">>}

OtherPatterns ==
    {<<>>, <<"/">>, <<"**", "/", "b", "/", "**">>, <<"a", "**", "b">>, <<"a", "/", "/">>}

\* A new directory, without and with its final dot; the home directory; one that
\* is refused.
SomeOperands == {<<"a">>, <<"a", "/", ".">>, <<".", "/">>, <<".", ".", "/", "a">>}

AllPatterns == PlainPatterns \cup OtherPatterns
=============================================================================
