------------------------------- MODULE Split -------------------------------
(***************************************************************************)
(* sync --split PATTERN (crates/purgery-client/src/split.rs, run_split in  *)
(* run.rs).  With deletion or a transform, the entries below the source    *)
(* that match are found once, those below another match are dropped, and   *)
(* the remaining roots are synced one after the other, each to a           *)
(* destination that keeps its place.  Without either, one rsync is given   *)
(* filter rules made from the pattern.  The first failure ends the         *)
(* command; the user may call it again, and may change the tree while it   *)
(* works.                                                                  *)
(*                                                                         *)
(* A path is a sequence of names, a name a sequence of characters; the     *)
(* source itself is the empty path.  A pattern is a sequence of tokens:    *)
(* characters, "/", "?", "*", "**" and bracket expressions, one token each.*)
(* The destination operand is a sequence of characters, as the user typed  *)
(* it.                                                                     *)
(***************************************************************************)
EXTENDS Naturals, Sequences, SequencesExt, FiniteSetsExt, Destination

CONSTANTS
    Nodes,          \* the paths that may exist, <<>> among them
    Folders,        \* those that are directories
    Patterns,       \* the patterns the user may give
    Operands,       \* the destinations the user may give
    Brackets,       \* the characters each bracket expression matches
    CharOrder,      \* the characters of a path in byte order
    SourceName,     \* the name of the source itself
    MaxFailures,    \* bound: syncs that fail
    MaxChanges      \* bound: changes the user makes to the tree

Characters == Range(CharOrder)
Tokens == Characters \cup DOMAIN Brackets \cup {"?", "*", "**"}
Has(s, c) == \E i \in DOMAIN s : s[i] = c

ASSUME SplitAssumption ==
    /\ IsFiniteSet(Nodes) /\ Nodes \subseteq Seq(Seq(Characters))
    /\ \A n \in Nodes : \A i \in DOMAIN n : n[i] \notin {<<>>, <<".">>} /\ ~Has(n[i], "/")
    /\ <<>> \in Folders /\ Folders \subseteq Nodes
    /\ \A n \in Nodes \ {<<>>} : Front(n) \in Folders
    /\ Operands \subseteq Seq(Characters) /\ SourceName \in Seq(Characters)
    /\ {".", "/"} \subseteq Characters
    /\ Patterns \subseteq Seq(Tokens)
    /\ \A p \in Patterns : \A i \in 1..Len(p) - 1 : p[i] = "*" => p[i + 1] \notin {"*", "**"}
    /\ \A t \in DOMAIN Brackets : "/" \notin Brackets[t]
    /\ DOMAIN Brackets \cap (Characters \cup {"?", "*", "**"}) = {} /\ "***" \notin Tokens
    /\ MaxFailures \in Nat /\ MaxChanges \in Nat

VARIABLES
    pattern, base,  \* the pattern and the destination operand
    passthrough,    \* neither deletion nor a transform is asked for
    tree,           \* the paths that exist
    queue,          \* the roots still to be synced
    pc,             \* "idle", "syncing", "filtering", "done" or "failed"
    placed,         \* at the destination: where, and from which path
    failures, changes

args == <<pattern, base, passthrough>>
vars == <<args, tree, queue, pc, placed, failures, changes>>

(***************************************************************************)
(* The matcher.                                                            *)
(***************************************************************************)
Drop(s, n) == SubSeq(s, n + 1, Len(s))

\* What a star may stand for: nothing between k and j is a slash.
Open(s, k, j) == \A i \in k + 1..j : s[i] # "/"

\* The characters one token that is no star may stand for.
Class(t) ==
    IF t = "?" THEN Characters \ {"/"}
    ELSE IF t \in DOMAIN Brackets THEN Brackets[t] ELSE {t}

\* The positions in s from which one token that is no star leads into rest.
Taken(t, s, rest) == {k \in 0..Len(s) - 1 : s[k + 1] \in Class(t) /\ k + 1 \in rest}

\* The positions from which a piece of s that ends in rest may be left out.
Skipped(s, rest, Piece(_, _)) == {k \in 0..Len(s) : \E j \in k..Len(s) : Piece(k, j) /\ j \in rest}

\* simple_glob: the positions in s from which p, which has no "**", matches all
\* that is left.  A star stops at "/", and one that is followed by more leaves
\* at least one character to it.
Globs(p, s) ==
    LET from[i \in 1..Len(p) + 1] ==
            IF i > Len(p) THEN {Len(s)}
            ELSE IF p[i] # "*" THEN Taken(p[i], s, from[i + 1])
            ELSE Skipped(s, IF i = Len(p) THEN {Len(s)} ELSE from[i + 1] \ {Len(s)}, LAMBDA k, j : Open(s, k, j))
    IN  from[1]

\* first_match_len: where the match of p that begins at a position in s ends, if
\* the leftmost choice is made for every star: at one position or none.
FirstMatch(p, s) ==
    LET Stops(k, rest) == {j \in k..Len(s) - 1 : Open(s, k, j + 1) /\ rest[j] # {}}
        ends[i \in 1..Len(p) + 1] ==
            [k \in 0..Len(s) |->
                IF i > Len(p) THEN {k}
                ELSE IF p[i] # "*"
                     THEN IF k < Len(s) /\ s[k + 1] \in Class(p[i]) THEN ends[i + 1][k + 1] ELSE {}
                ELSE IF i = Len(p) THEN {Max({j \in k..Len(s) : Open(s, k, j)})}
                ELSE IF Stops(k, ends[i + 1]) = {} THEN {} ELSE ends[i + 1][Min(Stops(k, ends[i + 1]))]]
    IN  ends[1]

\* s cut at every c.
Pieces(s, c) ==
    LET behind[i \in 1..Len(s) + 1] ==
            IF i > Len(s) THEN << <<>> >>
            ELSE IF s[i] = c THEN Cons(<<>>, behind[i + 1])
            ELSE Cons(Cons(s[i], Head(behind[i + 1])), Tail(behind[i + 1]))
    IN  behind[1]

\* The parts between the "**"s, without the "/" that follows one.
Parts(p) ==
    LET pieces == Pieces(p, "**")
    IN  [i \in DOMAIN pieces |->
            IF i > 1 /\ pieces[i] # <<>> /\ Head(pieces[i]) = "/" THEN Tail(pieces[i]) ELSE pieces[i]]

SuffixStartLast(s, start) ==
    LET after == {k \in start + 1..Len(s) : s[k] = "/"}
    IN  {IF after = {} THEN start ELSE Max(after)}

\* Where the last part is tried: after the slashes behind start, then once more
\* after the last slash before it.
SuffixStarts(s, start) ==
    LET after == {k \in start + 1..Len(s) : s[k] = "/"}
        before == {k \in 1..start : s[k] = "/"}
    IN  after \cup {IF after = {} \/ before = {} THEN start ELSE Max(before)}

\* The loop of glob_match over the parts that are not empty: the first part at
\* the start, the last at the end, one in between where it matches all that is
\* left of the path.
PartsMatch(parts, s) ==
    LET Ends(i, k) == FirstMatch(parts[i], s)[k]
        Fitting(i, k) == {j \in k..Len(s) : j \in Globs(parts[i], s) /\ Ends(i, j) # {}}
        from[i \in 1..Len(parts) + 1] ==
            IF i > Len(parts) THEN 0..Len(s)
            ELSE IF parts[i] = <<>> THEN from[i + 1]
            ELSE {k \in 0..Len(s) :
                     IF i = 1 THEN Ends(1, 0) \cap from[i + 1] # {}
                     ELSE IF i = Len(parts) THEN SuffixStarts(s, k) \cap Globs(parts[i], s) # {}
                     ELSE /\ Fitting(i, k) # {}
                          /\ Ends(i, Min(Fitting(i, k))) \cap from[i + 1] # {}}
    IN  0 \in from[1]

GlobMatch(p, s) == IF Has(p, "**") THEN PartsMatch(Parts(p), s) ELSE 0 \in Globs(p, s)

\* PatternMatcher: a leading slash anchors, a trailing one wants a directory.
Anchored(p) == p # <<>> /\ Head(p) = "/"
DirOnly(p) == LET q == IF Anchored(p) THEN Tail(p) ELSE p IN q # <<>> /\ Last(q) = "/"
Bare(p) ==
    LET q == IF Anchored(p) THEN Tail(p) ELSE p
    IN  IF DirOnly(p) THEN Front(q) ELSE q

\* The candidate string of a path; the source itself is ".".
Dot == <<".">>
Flat(n) ==
    IF n = <<>> THEN Dot
    ELSE FlattenSeq([i \in DOMAIN n |-> IF i = 1 THEN n[i] ELSE <<"/">> \o n[i]])
Components(n) == IF n = <<>> THEN {Dot} ELSE Range(n)

\* is_match.
IsMatchAnyKind(p, n) ==
    IF Has(Bare(p), "/") \/ Anchored(p)
    THEN GlobMatch(Bare(p), Flat(n))
    ELSE \E c \in Components(n) : GlobMatch(Bare(p), c)

IsMatch(p, n) ==
    /\ DirOnly(p) => n \in Folders /\ n # <<>>
    /\ IF Has(Bare(p), "/") \/ Anchored(p)
       THEN GlobMatch(Bare(p), Flat(n))
       ELSE \E c \in Components(n) : GlobMatch(Bare(p), c)

\* validate_split_pattern.
ValidPattern(p) == p # <<>> /\ \E i \in DOMAIN p : p[i] # "/"

(***************************************************************************)
(* Discovery and layout.                                                   *)
(***************************************************************************)
Below(n, root) == IsPrefix(root, n)

\* Path order, byte by byte.
Rank(c) == CHOOSE i \in DOMAIN CharOrder : CharOrder[i] = c
Before(m, n) ==
    LET s == Flat(m)
        t == Flat(n)
    IN  s # t /\ \/ IsPrefix(s, t)
                 \/ \E i \in 1..Len(s) : /\ i <= Len(t) /\ SubSeq(s, 1, i - 1) = SubSeq(t, 1, i - 1)
                                         /\ Rank(s[i]) < Rank(t[i])

RootsUnpruned(matched) == IF <<>> \in matched THEN {<<>>} ELSE matched

\* The matches a sync is made for: the source alone if it matches, else those
\* with no match above them.
Roots(matched) ==
    IF <<>> \in matched THEN {<<>>}
    ELSE {n \in matched : \A m \in matched : Below(n, m) => m = n}

\* discover_split_entries: the roots in path order.
Discover ==
    LET roots == Roots({n \in tree : IsMatch(pattern, n)})
    IN  {q \in [1..Cardinality(roots) -> roots] :
            \A i, j \in DOMAIN q : i < j => Before(q[i], q[j])}

\* split_target_suffix: what is appended to the operand, "" for the source, "/"
\* for what is right below it, "/parent/" for what is deeper.
SuffixWithoutSlash(root) ==
    IF Len(root) < 2 THEN <<>> ELSE <<"/">> \o Flat(Front(root))
TargetSuffix(root) ==
    CASE root = <<>> -> <<>>
      [] Len(root) = 1 -> <<"/">>
      [] OTHER -> <<"/">> \o Flat(Front(root)) \o <<"/">>

(***************************************************************************)
(* The destination operand (DestinationPath).                              *)
(***************************************************************************)
\* The names between the slashes.
Names(s) == Pieces(s, "/")

\* The path an operand names, below the root or the home directory.
PathOf(s) ==
    FlattenSeq([i \in DOMAIN Names(s) |->
                   IF Names(s)[i] \in {<<>>, Dot} THEN <<>> ELSE <<Names(s)[i]>>])

OperandRefused(s) == s = <<>> \/ <<".", ".">> \in Range(Names(s))

\* The intent its last characters carry.
IntentOf(s) ==
    LET names == SelectSeq(Names(s), LAMBDA name : name # <<>>)
        dot == names # <<>> /\ Last(names) = Dot
        slash == Last(s) = "/"
    IN  CASE slash /\ dot -> "terminal_dot_slash"
          [] slash /\ ~dot -> "trailing_slash"
          [] ~slash /\ dot -> "terminal_dot"
          [] OTHER -> "exact_or_existing"

Operand(root) == base \o TargetSuffix(root)

(***************************************************************************)
(* Filter rules, and what rsync takes them to mean.                        *)
(***************************************************************************)
\* build_dir_payload, build_nested_dir_payload: without its last slashes; "***"
\* is "**", and "/***" takes the directory before it as well.
Payload(p) == SubSeq(p, 1, Max({i \in DOMAIN p : p[i] # "/"})) \o <<"/", "***">>
NestedPayload(p) == <<"**", "/">> \o Payload(p)

\* build_split_filters: all includes, before the exclusion of the rest.
SplitFilters(p) ==
    {<<"*", "/">>, Payload(p), p} \cup (IF Has(p, "/") THEN {} ELSE {NestedPayload(p)})

\* wildmatch: the positions in s from which p leads into goal.
Wild(p, s, goal) ==
    LET from[i \in 1..Len(p) + 1] ==
            IF i > Len(p) THEN goal
            ELSE IF p[i] = "*" THEN Skipped(s, from[i + 1], LAMBDA k, j : Open(s, k, j))
            ELSE IF p[i] \in {"**", "***"} THEN Skipped(s, from[i + 1], LAMBDA k, j : TRUE)
            ELSE Taken(p[i], s, from[i + 1])
    IN  from[1]

WildMatch(p, s) == 0 \in Wild(p, s, {Len(s)})

\* A rule without a slash looks at the last name, one that is not anchored at
\* as many last names as it has itself or, with "**", at any number of them.
RuleMatches(p, n) ==
    LET body == Bare(p)
        whole == IF Last(body) = "***" /\ n \in Folders THEN Append(Flat(n), "/") ELSE Flat(n)
        slashes == Cardinality({i \in DOMAIN body : body[i] = "/"})
    IN  /\ DirOnly(p) => n \in Folders
        /\ IF Anchored(p) THEN WildMatch(body, whole)
           ELSE IF Head(body) = "**" THEN WildMatch(body, <<"/">> \o whole)
           ELSE IF Has(body, "**") \/ Has(body, "***")
                THEN \E k \in Wild(body, whole, {Len(whole)}) : k = 0 \/ whole[k] = "/"
           ELSE Len(n) > slashes /\ WildMatch(body, Flat(Drop(n, Len(n) - slashes - 1)))

\* Of the directories, all of which are looked into, those left empty are pruned.
FilteredFiles == {n \in tree \ Folders : \E p \in SplitFilters(pattern) : RuleMatches(p, n)}

(***************************************************************************)
(* One sync of a root, as a whole (ClientRun has its steps).               *)
(***************************************************************************)
Entries(root) == {n \in tree : Below(n, root)}
RootKind(root) == IF root \in Folders THEN "directory" ELSE "regular_file"

\* What is at a path of the destination; placed is a set of pairs.
RemoteState(at) ==
    IF at = <<>> THEN "directory"
    ELSE IF \E e \in placed : e.at = at /\ e.from \notin Folders THEN "non_directory"
    ELSE IF \E e \in placed : IsPrefix(at, e.at) THEN "directory" ELSE "missing"

Request(root) ==
    [intent |-> IntentOf(Operand(root)), kind |-> RootKind(root),
     empty |-> Entries(root) = {root}]

\* Where the root lands: below the operand or in its place.
Landing(root) ==
    LET dir == PathOf(Operand(root))
        name == IF root = <<>> THEN SourceName ELSE Last(root)
    IN  IF ResolveDestination(Request(root), RemoteState(dir)) = "directory_target"
        THEN Append(dir, name) ELSE dir

Transferred(root) ==
    {[at |-> Landing(root) \o Drop(n, Len(root)), from |-> n] : n \in Entries(root)}

\* What was at the same place is overwritten.
Place(some) == placed' = {e \in placed : \A t \in some : t.at # e.at} \cup some

Transfer(root) == Place(Transferred(root))

Refused(root) ==
    root \notin tree \/ DestinationRefused(Request(root), RemoteState(PathOf(Operand(root))))

Start ==
    /\ pc = "idle" /\ <<>> \in tree
    /\ IF ValidPattern(pattern) /\ ~OperandRefused(base)
       THEN /\ queue' \in IF passthrough THEN {<<>>} ELSE Discover
            /\ pc' = IF passthrough THEN "filtering" ELSE "syncing"
       ELSE queue' = <<>> /\ pc' = "failed"
    /\ UNCHANGED <<args, tree, placed, failures, changes>>

\* run_passthrough_split: the source itself as rsync places it, or what the
\* rules select, below the operand.
Passthrough ==
    IF pattern = Dot THEN Transfer(<<>>)
    ELSE Place({[at |-> PathOf(base) \o n, from |-> n] : n \in FilteredFiles})

PassthroughRefused ==
    IF pattern = Dot THEN Refused(<<>>) ELSE RemoteState(PathOf(base)) = "non_directory"

Filter ==
    /\ pc = "filtering"
    /\ \/ ~PassthroughRefused /\ Passthrough /\ pc' = "done" /\ UNCHANGED failures
       \/ PassthroughRefused /\ pc' = "failed" /\ UNCHANGED <<placed, failures>>
       \/ /\ failures < MaxFailures /\ failures' = failures + 1 /\ pc' = "failed"
          /\ (~PassthroughRefused /\ Passthrough) \/ UNCHANGED placed
    /\ UNCHANGED <<args, tree, queue, changes>>

\* The root is transferred and deleted at the source.
SyncRoot ==
    /\ pc = "syncing" /\ queue # <<>> /\ ~Refused(Head(queue))
    /\ Transfer(Head(queue))
    /\ tree' = tree \ Entries(Head(queue))
    /\ queue' = Tail(queue)
    /\ UNCHANGED <<args, pc, failures, changes>>

\* The sync fails, before or after the transfer, and with it the command.
FailRoot ==
    /\ pc = "syncing" /\ queue # <<>>
    /\ \/ Refused(Head(queue)) /\ UNCHANGED <<placed, failures>>
       \/ /\ ~Refused(Head(queue)) /\ failures < MaxFailures /\ failures' = failures + 1
          /\ Transfer(Head(queue)) \/ UNCHANGED placed
    /\ pc' = "failed" /\ queue' = <<>>
    /\ UNCHANGED <<args, tree, changes>>

Finish ==
    /\ pc = "syncing" /\ queue = <<>> /\ pc' = "done"
    /\ UNCHANGED <<args, tree, queue, placed, failures, changes>>

\* The user calls again after a failure.
Again ==
    /\ pc = "failed" /\ ValidPattern(pattern) /\ ~OperandRefused(base) /\ pc' = "idle"
    /\ UNCHANGED <<args, tree, queue, placed, failures, changes>>

\* Meanwhile the user adds a path or removes a leaf.
UserAdds ==
    /\ changes < MaxChanges /\ changes' = changes + 1
    /\ \E n \in Nodes \ tree : n # <<>> /\ Front(n) \in tree /\ tree' = tree \cup {n}
    /\ UNCHANGED <<args, queue, pc, placed, failures>>

UserRemoves ==
    /\ changes < MaxChanges /\ changes' = changes + 1
    /\ \E n \in tree \ {<<>>} : Entries(n) = {n} /\ tree' = tree \ {n}
    /\ UNCHANGED <<args, queue, pc, placed, failures>>

Init ==
    /\ pattern \in Patterns /\ base \in Operands /\ passthrough \in BOOLEAN
    /\ tree \in {t \in SUBSET Nodes : <<>> \in t /\ \A n \in t \ {<<>>} : Front(n) \in t}
    /\ queue = <<>> /\ pc = "idle" /\ placed = {} /\ failures = 0 /\ changes = 0

Next ==
    \/ Start \/ Filter \/ SyncRoot \/ FailRoot \/ Finish \/ Again
    \/ UserAdds \/ UserRemoves

Spec == Init /\ [][Next]_vars

(***************************************************************************)
(* What a pattern means (docs/operations.md, "Pattern syntax"): a star any *)
(* characters but "/", and "**" any characters.  That "**/" may also stand *)
(* for no directory at all, so that the pattern is read without it as      *)
(* well, is the tests' (split.rs:754).                                     *)
(***************************************************************************)
Readings(p) ==
    {p} \cup {SubSeq(p, 1, i - 1) \o SubSeq(p, i + 2, Len(p)) :
                 i \in {j \in 1..Len(p) - 1 : p[j] = "**" /\ p[j + 1] = "/"}}

Means(p, s) == \E q \in Readings(p) : WildMatch(q, s)

Selected(p, n) ==
    /\ DirOnly(p) => n \in Folders /\ n # <<>>
    /\ IF Has(Bare(p), "/") \/ Anchored(p) THEN Means(Bare(p), Flat(n))
       ELSE \E c \in Components(n) : Means(Bare(p), c)

\* The patterns glob_match and the filter rules were written for: no component
\* is empty, one at most is "**" and it is so as a whole, none before it ends in
\* a star, at whose "/" first_match_len gives up; and not "**/", which as a rule
\* for what is in directories takes every file.
Plain(p) ==
    /\ \A i \in 1..Len(p) - 1 : p[i] = "/" => p[i + 1] # "/"
    /\ Cardinality({i \in DOMAIN p : p[i] = "**"}) <= 1
    /\ \A i \in DOMAIN p : p[i] = "**" =>
           /\ i > 1 => p[i - 1] = "/"
           /\ i < Len(p) => p[i + 1] = "/"
           /\ \A j \in 1..i - 1 : p[j] = "*" => p[j + 1] # "/"
    /\ p # <<"**", "/">>

(***************************************************************************)
(* Properties.                                                             *)
(***************************************************************************)
\* The roots of one pass do not overlap, so that no sync deletes what a later
\* one was to send (discover_split_entries).
RootsDisjoint ==
    \A i, j \in DOMAIN queue : Below(queue[i], queue[j]) => i = j

\* Whatever the user removes in between, however often a pass fails and however
\* the destination is spelled, an entry lies below the destination where it lay
\* below the source; only a sync of the whole source adds the name of the source
\* or takes its place (split_target_suffix, resolve_destination).
LayoutKept ==
    \A e \in placed :
        \/ e.at = PathOf(base) \o e.from
        \/ IsMatch(pattern, <<>>) /\ e.at = PathOf(base) \o <<SourceName>> \o e.from

\* What the user asked for: the entries the pattern selects, or for rsync those
\* the pattern as a rule would match.
Wanted(n) ==
    IF passthrough /\ pattern # Dot THEN n # <<>> /\ RuleMatches(pattern, n)
    ELSE Selected(pattern, n)

\* Only what is wanted, or lies below it, is sent, and deleted if it is to be
\* (is_match, build_split_filters).
OnlySelectedGo ==
    Plain(pattern) =>
        \A e \in placed : \E n \in Nodes : Below(e.from, n) /\ Wanted(n)

\* A pass that ends well leaves nothing wanted behind but what was added
\* meanwhile: moved away, or where nothing is deleted, every file wanted or below
\* a directory that is has a copy (run_split, run_passthrough_split).
NothingSelectedStays ==
    Plain(pattern) /\ pc = "done" /\ changes = 0 =>
        IF passthrough
        THEN \A n \in tree \ Folders :
                (\E m \in Nodes : Below(n, m) /\ Wanted(m)) => \E e \in placed : e.from = n
        ELSE \A n \in tree : ~Wanted(n)
=============================================================================
