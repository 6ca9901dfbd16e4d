---------------------------- MODULE SplitProofs ----------------------------
(***************************************************************************)
(* What a split takes and where it puts it, for every tree, pattern and    *)
(* destination.  The matcher finds what a plain pattern means; the filter  *)
(* rules made from one take what it matches as a rule and what lies below; *)
(* the roots do not lie in one another; an operand with a suffix names the *)
(* path of the operand followed by the parent of the root.  On these rests *)
(* the invariant of a pass, that every match is below a root still queued  *)
(* and what was sent was asked for.                                        *)
(***************************************************************************)
EXTENDS Split, TextLemmas

----------------------------------------------------------------------------
(* Texts cut into pieces. *)

PiecesStep(s, c, i, rest) ==
    IF s[i] = c THEN Cons(<<>>, rest) ELSE Cons(Cons(s[i], Head(rest)), Tail(rest))

PiecesSteps(C, s, c) == [i \in 1..Len(s) |-> [rest \in Seq(Seq(C)) \ {<<>>} |-> PiecesStep(s, c, i, rest)]]

LEMMA PiecesRows ==
    ASSUME NEW C, NEW s \in Seq(C), NEW c
    PROVE  /\ PiecesSteps(C, s, c) \in RowFunctions(Len(s), Seq(Seq(C)) \ {<<>>})
           /\ Pieces(s, c) = RowsOf(Len(s), Seq(Seq(C)) \ {<<>>}, << <<>> >>, PiecesSteps(C, s, c))
           /\ Pieces(s, c) \in Seq(Seq(C)) \ {<<>>}
  <1> DEFINE D == Seq(Seq(C)) \ {<<>>}
             n == Len(s)
             G == PiecesSteps(C, s, c)
             IsRow(f) == f = [i \in 1..Len(s) + 1 |->
                                 IF i > Len(s) THEN << <<>> >>
                                 ELSE IF s[i] = c THEN Cons(<<>>, f[i + 1])
                                 ELSE Cons(Cons(s[i], Head(f[i + 1])), Tail(f[i + 1]))]
  <1>1. n \in Nat /\ << <<>> >> \in D
    OBVIOUS
  <1>2. ASSUME NEW i \in 1..n, NEW rest \in D
        PROVE  PiecesStep(s, c, i, rest) \in D
    <2>1. s[i] \in C /\ Head(rest) \in Seq(C) /\ Tail(rest) \in Seq(Seq(C)) /\ <<>> \in Seq(C)
      OBVIOUS
    <2>2. Cons(s[i], Head(rest)) \in Seq(C)
      BY <2>1, ConsFacts
    <2>3. Cons(<<>>, rest) \in D
      BY <2>1 DEF Cons
    <2>4. Cons(Cons(s[i], Head(rest)), Tail(rest)) \in D
      BY <2>1, <2>2 DEF Cons
    <2> QED BY <2>3, <2>4 DEF PiecesStep
  <1>3. G \in RowFunctions(n, D)
    BY <1>2 DEF RowFunctions, PiecesSteps
  <1>4. \A i \in 1..n, rest \in D : G[i][rest] = PiecesStep(s, c, i, rest)
    BY DEF PiecesSteps
  <1>5. PICK f : Solves(f, n, D, << <<>> >>, G)
    <2> HIDE DEF D, G, n
    <2> QED BY <1>1, <1>3, RowsExist
  <1>6. IsRow(f)
    <2>1. /\ f = [i \in 1..n + 1 |-> f[i]] /\ f[n + 1] = << <<>> >>
          /\ \A i \in 1..n : f[i] = PiecesStep(s, c, i, f[i + 1])
      <3> HIDE DEF D, G
      <3> QED BY <1>1, <1>4, <1>5 DEF Solves
    <2>2. \A i \in 1..n + 1 : (~(i > n) <=> i \in 1..n) /\ (i > n => i = n + 1)
      BY <1>1
    <2> HIDE DEF D, G
    <2> QED BY <2>1, <2>2 DEF PiecesStep
  <1>7. PICK g : IsRow(g) /\ Pieces(s, c) = g[1]
    <2>1. Pieces(s, c) = (CHOOSE g : IsRow(g))[1]
      BY DEF Pieces
    <2> HIDE DEF IsRow
    <2> QED BY <1>6, <2>1
  <1>8. Follows(g, n, D, << <<>> >>, G)
    <2>1. n + 1 \in 1..n + 1 /\ n + 1 > n /\ \A i \in 1..n : i \in 1..n + 1 /\ ~(i > n)
      BY <1>1
    <2>2. \A i \in 1..n + 1 : g[i] = IF i > n THEN << <<>> >> ELSE PiecesStep(s, c, i, g[i + 1])
      <3> HIDE DEF D, G
      <3> QED BY <1>7 DEF PiecesStep
    <2> HIDE DEF IsRow, n, G, D
    <2> QED BY <1>4, <2>1, <2>2 DEF Follows
  <1> HIDE DEF IsRow, n, G, D
  <1>9. g[1] = RowsOf(n, D, << <<>> >>, G) /\ RowsOf(n, D, << <<>> >>, G) \in D
    BY <1>1, <1>3, <1>8, RowsAre
  <1> QED BY <1>3, <1>7, <1>9 DEF n, G, D

LEMMA PiecesEmpty ==
    ASSUME NEW c
    PROVE  Pieces(<<>>, c) = << <<>> >>
  <1> DEFINE D == Seq(Seq({})) \ {<<>>}
             G == PiecesSteps({}, <<>>, c)
  <1>1. <<>> \in Seq({}) /\ Len(<<>>) = 0 /\ << <<>> >> \in D
    OBVIOUS
  <1>2. G \in RowFunctions(Len(<<>>), D) /\ Pieces(<<>>, c) = RowsOf(Len(<<>>), D, << <<>> >>, G)
    BY <1>1, PiecesRows
  <1> HIDE DEF D, G
  <1>3. G \in RowFunctions(0, D) /\ Pieces(<<>>, c) = RowsOf(0, D, << <<>> >>, G)
    BY <1>1, <1>2, Zenon
  <1> QED BY <1>1, <1>3, RowsNone

LEMMA PiecesCons ==
    ASSUME NEW C, NEW t \in C, NEW s \in Seq(C), NEW c
    PROVE  Pieces(Cons(t, s), c) = PiecesStep(Cons(t, s), c, 1, Pieces(s, c))
  <1> DEFINE D == Seq(Seq(C)) \ {<<>>}
             longer == Cons(t, s)
             n == Len(s)
             G == PiecesSteps(C, longer, c)
             H == PiecesSteps(C, s, c)
  <1>1. longer \in Seq(C) /\ Len(longer) = n + 1 /\ n \in Nat /\ \A i \in 1..n : longer[i + 1] = s[i]
    BY DEF Cons
  <1> HIDE DEF longer
  <1>2. ASSUME NEW i \in 1..n
        PROVE  H[i] = G[i + 1]
    <2>1. i + 1 \in 1..Len(longer) /\ i + 1 > 1
      BY <1>1
    <2>2. \A rest \in D : PiecesStep(longer, c, i + 1, rest) = PiecesStep(s, c, i, rest)
      BY <1>1, <2>1 DEF PiecesStep
    <2> QED BY <2>1, <2>2 DEF PiecesSteps
  <1>3. G \in RowFunctions(n + 1, D) /\ Pieces(longer, c) = RowsOf(n + 1, D, << <<>> >>, G)
    BY <1>1, PiecesRows
  <1>4. H \in RowFunctions(n, D) /\ Pieces(s, c) = RowsOf(n, D, << <<>> >>, H) /\ Pieces(s, c) \in D
    BY PiecesRows
  <1>5. << <<>> >> \in D
    OBVIOUS
  <1>6. \A rest \in D : G[1][rest] = PiecesStep(longer, c, 1, rest)
    BY <1>1 DEF PiecesSteps
  <1> HIDE DEF D, n, G, H
  <1>7. RowsOf(n + 1, D, << <<>> >>, G) = G[1][RowsOf(n, D, << <<>> >>, H)]
    BY <1>1, <1>2, <1>3, <1>4, <1>5, RowsExtend
  <1> QED BY <1>3, <1>4, <1>6, <1>7 DEF longer

\* The pieces from the head of the text on.
LEMMA PiecesHead ==
    ASSUME NEW C, NEW t \in C, NEW s \in Seq(C), NEW c
    PROVE  Pieces(Cons(t, s), c) =
              IF t = c THEN Cons(<<>>, Pieces(s, c))
              ELSE Cons(Cons(t, Head(Pieces(s, c))), Tail(Pieces(s, c)))
  <1>1. Cons(t, s)[1] = t
    BY DEF Cons
  <1> QED BY <1>1, PiecesCons DEF PiecesStep

\* A cut at one place.
LEMMA PiecesConcat ==
    ASSUME NEW C, NEW c \in C, NEW a \in Seq(C), NEW b \in Seq(C)
    PROVE  Pieces(a \o <<c>> \o b, c) = Pieces(a, c) \o Pieces(b, c)
  <1> DEFINE T == {s \in Seq(C) : Pieces(s \o <<c>> \o b, c) = Pieces(s, c) \o Pieces(b, c)}
             B == Pieces(b, c)
  <1>0. B \in Seq(Seq(C))
    BY PiecesRows
  <1>1. <<>> \in T
    <2>1. <<>> \o <<c>> \o b = Cons(c, b)
      BY DEF Cons
    <2>2. Pieces(Cons(c, b), c) = Cons(<<>>, B)
      BY PiecesHead
    <2> HIDE DEF B
    <2>3. Cons(<<>>, B) = << <<>> >> \o B
      BY DEF Cons
    <2>4. Pieces(<<>> \o <<c>> \o b, c) = Pieces(<<>>, c) \o B
      BY <2>1, <2>2, <2>3, PiecesEmpty
    <2>5. <<>> \in Seq(C)
      OBVIOUS
    <2> QED BY <2>4, <2>5 DEF B
  <1>2. ASSUME NEW t \in C, NEW s \in Seq(C), s \in T
        PROVE  Cons(t, s) \in T
    <2> DEFINE tail == s \o <<c>> \o b
               P == Pieces(s, c)
    <2>1. Cons(t, s) \o <<c>> \o b = Cons(t, tail) /\ tail \in Seq(C) /\ Cons(t, s) \in Seq(C)
      BY DEF Cons
    <2>2. P \in Seq(Seq(C)) \ {<<>>}
      BY PiecesRows
    <2>3. Pieces(tail, c) = P \o B
      BY <1>2
    <2>4. Pieces(Cons(t, tail), c) = IF t = c THEN Cons(<<>>, P \o B)
                                     ELSE Cons(Cons(t, Head(P \o B)), Tail(P \o B))
      <3> HIDE DEF tail, P, B
      <3>1. Pieces(Cons(t, tail), c) = IF t = c THEN Cons(<<>>, Pieces(tail, c))
                ELSE Cons(Cons(t, Head(Pieces(tail, c))), Tail(Pieces(tail, c)))
        BY <2>1, PiecesHead
      <3> QED BY <2>3, <3>1
    <2>5. Pieces(Cons(t, s), c) = IF t = c THEN Cons(<<>>, P) ELSE Cons(Cons(t, Head(P)), Tail(P))
      BY PiecesHead
    <2> HIDE DEF P, B
    <2>6. Head(P \o B) = Head(P) /\ Tail(P \o B) = Tail(P) \o B /\ Head(P) \in Seq(C) /\ Tail(P) \in Seq(Seq(C))
      BY <1>0, <2>2
    <2>7. \A x \in Seq(C), y \in Seq(Seq(C)) : Cons(x, y \o B) = Cons(x, y) \o B
      <3>1. \A u, v, w \in Seq(Seq(C)) : (u \o v) \o w = u \o (v \o w)
        <4> DEFINE D == Seq(C)
        <4> HIDE DEF D
        <4>1. \A u \in Seq(D) : \A v \in Seq(D) : \A w \in Seq(D) : (u \o v) \o w = u \o (v \o w)
          BY ConcatAssociates
        <4> QED BY <4>1, Zenon DEF D
      <3>2. ASSUME NEW x \in Seq(C), NEW y \in Seq(Seq(C))
            PROVE  Cons(x, y \o B) = Cons(x, y) \o B
        <4>1. <<x>> \in Seq(Seq(C))
          OBVIOUS
        <4>2. <<x>> \o (y \o B) = (<<x>> \o y) \o B
          BY <1>0, <3>1, <4>1, Zenon
        <4> QED BY <4>2, Zenon DEF Cons
      <3> QED BY <3>2, Zenon
    <2>8. <<>> \in Seq(C) /\ Cons(t, Head(P)) \in Seq(C)
      BY <2>6 DEF Cons
    <2>9. Pieces(Cons(t, tail), c) = Pieces(Cons(t, s), c) \o B
      BY <2>2, <2>4, <2>5, <2>6, <2>7, <2>8
    <2> QED BY <2>1, <2>9 DEF B
  <1> HIDE DEF T
  <1>3. a \in T
    BY <1>1, <1>2, ByHead
  <1> QED BY <1>3 DEF T

\* Nothing to cut.
LEMMA PiecesWhole ==
    ASSUME NEW C, NEW s \in Seq(C), NEW c, ~Has(s, c)
    PROVE  Pieces(s, c) = <<s>>
  <1> DEFINE T == {x \in Seq(C) : (\A i \in 1..Len(x) : x[i] # c) => Pieces(x, c) = <<x>>}
  <1>1. <<>> \in T
    BY PiecesEmpty
  <1>2. ASSUME NEW t \in C, NEW x \in Seq(C), x \in T
        PROVE  Cons(t, x) \in T
    <2> SUFFICES ASSUME \A i \in 1..Len(Cons(t, x)) : Cons(t, x)[i] # c
                 PROVE  Pieces(Cons(t, x), c) = <<Cons(t, x)>>
      BY ConsFacts
    <2>1. t # c /\ \A i \in 1..Len(x) : x[i] # c
      <3>1. Len(Cons(t, x)) = Len(x) + 1 /\ Len(x) \in Nat /\ Cons(t, x)[1] = t
            /\ \A i \in 1..Len(x) : Cons(t, x)[i + 1] = x[i]
        BY DEF Cons
      <3>2. \A i \in 1..Len(x) : i + 1 \in 1..Len(x) + 1
        OBVIOUS
      <3>3. 1 \in 1..Len(Cons(t, x))
        BY <3>1
      <3> QED BY <3>1, <3>2, <3>3
    <2>2. Pieces(x, c) = <<x>>
      BY <1>2, <2>1
    <2>3. Pieces(Cons(t, x), c) = Cons(Cons(t, x), <<>>)
      <3>1. Head(<<x>>) = x /\ Tail(<<x>>) = <<>>
        OBVIOUS
      <3>2. Pieces(Cons(t, x), c) = IF t = c THEN Cons(<<>>, Pieces(x, c))
                ELSE Cons(Cons(t, Head(Pieces(x, c))), Tail(Pieces(x, c)))
        BY PiecesHead
      <3> QED BY <2>1, <2>2, <3>1, <3>2
    <2>4. Cons(Cons(t, x), <<>>) = <<Cons(t, x)>>
      BY ConsFacts DEF Cons
    <2> QED BY <2>3, <2>4
  <1> HIDE DEF T
  <1>3. s \in T
    BY <1>1, <1>2, ByHead
  <1> QED BY <1>3 DEF T, Has

----------------------------------------------------------------------------
(* The recursions of the matcher. *)

GlobsStep(p, s, i, rest) ==
    IF p[i] # "*" THEN Taken(p[i], s, rest)
    ELSE Skipped(s, IF i = Len(p) THEN {Len(s)} ELSE rest \ {Len(s)}, LAMBDA k, j : Open(s, k, j))

GlobsSteps(p, s) == [i \in 1..Len(p) |-> [rest \in SUBSET (0..Len(s)) |-> GlobsStep(p, s, i, rest)]]

LEMMA GlobsRows ==
    ASSUME NEW C, NEW p \in Seq(C), NEW s, Len(s) \in Nat
    PROVE  /\ GlobsSteps(p, s) \in RowFunctions(Len(p), SUBSET (0..Len(s)))
           /\ Globs(p, s) = RowsOf(Len(p), SUBSET (0..Len(s)), {Len(s)}, GlobsSteps(p, s))
           /\ Globs(p, s) \in SUBSET (0..Len(s))
  <1> DEFINE D == SUBSET (0..Len(s))
             n == Len(p)
             G == GlobsSteps(p, s)
             IsRow(f) == f = [i \in 1..Len(p) + 1 |->
                                 IF i > Len(p) THEN {Len(s)}
                                 ELSE IF p[i] # "*" THEN Taken(p[i], s, f[i + 1])
                                 ELSE Skipped(s, IF i = Len(p) THEN {Len(s)} ELSE f[i + 1] \ {Len(s)},
                                              LAMBDA k, j : Open(s, k, j))]
  <1>1. n \in Nat /\ {Len(s)} \in D
    OBVIOUS
  <1>2. ASSUME NEW i \in 1..n, NEW rest \in D
        PROVE  GlobsStep(p, s, i, rest) \in D
    BY DEF GlobsStep, Taken, Skipped
  <1>3. G \in RowFunctions(n, D)
    BY <1>2 DEF RowFunctions, GlobsSteps
  <1>4. \A i \in 1..n, rest \in D : G[i][rest] = GlobsStep(p, s, i, rest)
    BY DEF GlobsSteps
  <1>5. PICK f : Solves(f, n, D, {Len(s)}, G)
    <2> HIDE DEF D, G, n
    <2> QED BY <1>1, <1>3, RowsExist
  <1>6. IsRow(f)
    <2>1. /\ f = [i \in 1..n + 1 |-> f[i]] /\ f[n + 1] = {Len(s)}
          /\ \A i \in 1..n : f[i] = GlobsStep(p, s, i, f[i + 1])
      <3> HIDE DEF D, G
      <3> QED BY <1>1, <1>4, <1>5 DEF Solves
    <2>2. \A i \in 1..n + 1 : (~(i > n) <=> i \in 1..n) /\ (i > n => i = n + 1)
      BY <1>1
    <2> HIDE DEF D, G
    <2> QED BY <2>1, <2>2 DEF GlobsStep
  <1>7. PICK g : IsRow(g) /\ Globs(p, s) = g[1]
    <2>1. Globs(p, s) = (CHOOSE g : IsRow(g))[1]
      BY DEF Globs
    <2> HIDE DEF IsRow
    <2> QED BY <1>6, <2>1
  <1>8. Follows(g, n, D, {Len(s)}, G)
    <2>1. n + 1 \in 1..n + 1 /\ n + 1 > n /\ \A i \in 1..n : i \in 1..n + 1 /\ ~(i > n)
      BY <1>1
    <2>2. \A i \in 1..n + 1 : g[i] = IF i > n THEN {Len(s)} ELSE GlobsStep(p, s, i, g[i + 1])
      <3> HIDE DEF D, G
      <3> QED BY <1>7 DEF GlobsStep
    <2> HIDE DEF IsRow, n, G, D
    <2> QED BY <1>4, <2>1, <2>2 DEF Follows
  <1> HIDE DEF IsRow, n, G, D
  <1>9. g[1] = RowsOf(n, D, {Len(s)}, G) /\ RowsOf(n, D, {Len(s)}, G) \in D
    BY <1>1, <1>3, <1>8, RowsAre
  <1> QED BY <1>3, <1>7, <1>9 DEF n, G, D

LEMMA GlobsEmpty ==
    ASSUME NEW s, Len(s) \in Nat
    PROVE  Globs(<<>>, s) = {Len(s)}
  <1> DEFINE D == SUBSET (0..Len(s))
             G == GlobsSteps(<<>>, s)
  <1>1. <<>> \in Seq({}) /\ Len(<<>>) = 0 /\ {Len(s)} \in D
    OBVIOUS
  <1>2. G \in RowFunctions(Len(<<>>), D) /\ Globs(<<>>, s) = RowsOf(Len(<<>>), D, {Len(s)}, G)
    BY <1>1, GlobsRows
  <1> HIDE DEF D, G
  <1>3. G \in RowFunctions(0, D) /\ Globs(<<>>, s) = RowsOf(0, D, {Len(s)}, G)
    BY <1>1, <1>2, Zenon
  <1> QED BY <1>1, <1>3, RowsNone

LEMMA GlobsCons ==
    ASSUME NEW C, NEW t \in C, NEW p \in Seq(C), NEW s, Len(s) \in Nat
    PROVE  Globs(Cons(t, p), s) = GlobsStep(Cons(t, p), s, 1, Globs(p, s))
  <1> DEFINE D == SUBSET (0..Len(s))
             longer == Cons(t, p)
             n == Len(p)
             G == GlobsSteps(longer, s)
             H == GlobsSteps(p, s)
  <1>1. longer \in Seq(C) /\ Len(longer) = n + 1 /\ n \in Nat /\ \A i \in 1..n : longer[i + 1] = p[i]
    BY DEF Cons
  <1> HIDE DEF longer
  <1>2. ASSUME NEW i \in 1..n
        PROVE  H[i] = G[i + 1]
    <2>1. i + 1 \in 1..Len(longer) /\ i + 1 > 1
      BY <1>1
    <2>2. \A rest \in D : GlobsStep(longer, s, i + 1, rest) = GlobsStep(p, s, i, rest)
      <3>1. i + 1 = Len(longer) <=> i = Len(p)
        BY <1>1
      <3> QED BY <1>1, <2>1, <3>1 DEF GlobsStep
    <2> QED BY <2>1, <2>2 DEF GlobsSteps
  <1>3. G \in RowFunctions(n + 1, D) /\ Globs(longer, s) = RowsOf(n + 1, D, {Len(s)}, G)
    BY <1>1, GlobsRows
  <1>4. H \in RowFunctions(n, D) /\ Globs(p, s) = RowsOf(n, D, {Len(s)}, H) /\ Globs(p, s) \in D
    BY GlobsRows
  <1>5. {Len(s)} \in D
    OBVIOUS
  <1>6. \A rest \in D : G[1][rest] = GlobsStep(longer, s, 1, rest)
    BY <1>1 DEF GlobsSteps
  <1> HIDE DEF D, n, G, H
  <1>7. RowsOf(n + 1, D, {Len(s)}, G) = G[1][RowsOf(n, D, {Len(s)}, H)]
    BY <1>1, <1>2, <1>3, <1>4, <1>5, RowsExtend
  <1> QED BY <1>3, <1>4, <1>6, <1>7 DEF longer

Stops(s, k, rest) == {j \in k..Len(s) - 1 : Open(s, k, j + 1) /\ rest[j] # {}}

FirstMatchStep(p, s, i, rest) ==
    [k \in 0..Len(s) |->
        IF p[i] # "*"
        THEN IF k < Len(s) /\ s[k + 1] \in Class(p[i]) THEN rest[k + 1] ELSE {}
        ELSE IF i = Len(p) THEN {Max({j \in k..Len(s) : Open(s, k, j)})}
        ELSE IF Stops(s, k, rest) = {} THEN {} ELSE rest[Min(Stops(s, k, rest))]]

FirstMatchSteps(p, s) == [i \in 1..Len(p) |-> [rest \in [0..Len(s) -> SUBSET (0..Len(s))] |-> FirstMatchStep(p, s, i, rest)]]

LEMMA FirstMatchRows ==
    ASSUME NEW C, NEW p \in Seq(C), NEW s, Len(s) \in Nat
    PROVE  /\ FirstMatchSteps(p, s) \in RowFunctions(Len(p), [0..Len(s) -> SUBSET (0..Len(s))])
           /\ FirstMatch(p, s) = RowsOf(Len(p), [0..Len(s) -> SUBSET (0..Len(s))], [k \in 0..Len(s) |-> {k}], FirstMatchSteps(p, s))
           /\ FirstMatch(p, s) \in [0..Len(s) -> SUBSET (0..Len(s))]
  <1> DEFINE D == [0..Len(s) -> SUBSET (0..Len(s))]
             n == Len(p)
             G == FirstMatchSteps(p, s)
             IsRow(f) == f = [i \in 1..Len(p) + 1 |->
                            [k \in 0..Len(s) |->
                                IF i > Len(p) THEN {k}
                                ELSE IF p[i] # "*"
                                     THEN IF k < Len(s) /\ s[k + 1] \in Class(p[i]) THEN f[i + 1][k + 1] ELSE {}
                                ELSE IF i = Len(p) THEN {Max({j \in k..Len(s) : Open(s, k, j)})}
                                ELSE IF Stops(s, k, f[i + 1]) = {} THEN {} ELSE f[i + 1][Min(Stops(s, k, f[i + 1]))]]]
  <1>1. n \in Nat /\ [k \in 0..Len(s) |-> {k}] \in D
    OBVIOUS
  <1>2. ASSUME NEW i \in 1..n, NEW rest \in D
        PROVE  FirstMatchStep(p, s, i, rest) \in D
    <2> DEFINE row == FirstMatchStep(p, s, i, rest)
    <2>1. ASSUME NEW k \in 0..Len(s)
          PROVE  row[k] \in SUBSET (0..Len(s))
      <3> DEFINE T == {j \in k..Len(s) : Open(s, k, j)}
                 S == Stops(s, k, rest)
      <3>1. k < Len(s) => rest[k + 1] \in SUBSET (0..Len(s))
        OBVIOUS
      <3>2. Max(T) \in 0..Len(s)
        <4>1. T \in SUBSET (0..Len(s)) /\ k \in T
          BY DEF Open
        <4> HIDE DEF T
        <4>2. Max(T) \in T
          BY <4>1, GreatestUpTo
        <4> QED BY <4>1, <4>2
      <3>3. S # {} => rest[Min(S)] \in SUBSET (0..Len(s))
        <4>1. S \in SUBSET (0..Len(s)) /\ S \in SUBSET Nat
          BY DEF Stops
        <4> HIDE DEF S
        <4>2. S # {} => Min(S) \in 0..Len(s)
          BY <4>1, LeastOf
        <4> QED BY <4>2
      <3> HIDE DEF T, S
      <3> QED BY <3>1, <3>2, <3>3 DEF FirstMatchStep, S, T
    <2>2. row = [k \in 0..Len(s) |-> row[k]]
      BY DEF FirstMatchStep
    <2> HIDE DEF row
    <2> QED BY <2>1, <2>2 DEF row
  <1>3. G \in RowFunctions(n, D)
    BY <1>2 DEF RowFunctions, FirstMatchSteps
  <1>4. \A i \in 1..n, rest \in D : G[i][rest] = FirstMatchStep(p, s, i, rest)
    BY DEF FirstMatchSteps
  <1>5. PICK f : Solves(f, n, D, [k \in 0..Len(s) |-> {k}], G)
    <2> HIDE DEF D, G, n
    <2> QED BY <1>1, <1>3, RowsExist
  <1>6. IsRow(f)
    <2>1. /\ f = [i \in 1..n + 1 |-> f[i]] /\ f[n + 1] = [k \in 0..Len(s) |-> {k}]
          /\ \A i \in 1..n : f[i] = FirstMatchStep(p, s, i, f[i + 1])
      <3> HIDE DEF D, G
      <3> QED BY <1>1, <1>4, <1>5 DEF Solves
    <2>2. \A i \in 1..n + 1 : (~(i > n) <=> i \in 1..n) /\ (i > n => i = n + 1)
      BY <1>1
    <2> DEFINE row(i) == [k \in 0..Len(s) |->
                                IF i > Len(p) THEN {k}
                                ELSE IF p[i] # "*"
                                     THEN IF k < Len(s) /\ s[k + 1] \in Class(p[i]) THEN f[i + 1][k + 1] ELSE {}
                                ELSE IF i = Len(p) THEN {Max({j \in k..Len(s) : Open(s, k, j)})}
                                ELSE IF Stops(s, k, f[i + 1]) = {} THEN {} ELSE f[i + 1][Min(Stops(s, k, f[i + 1]))]]
    <2> HIDE DEF D, G
    <2>3. \A i \in 1..n + 1 : i > n => row(i) = f[i]
      BY <2>1, <2>2
    <2>4. \A i \in 1..n + 1 : ~(i > n) => row(i) = FirstMatchStep(p, s, i, f[i + 1])
      BY DEF FirstMatchStep
    <2>5. \A i \in 1..n + 1 : row(i) = f[i]
      <3> HIDE DEF row
      <3> QED BY <2>1, <2>2, <2>3, <2>4
    <2>6. f = [i \in 1..n + 1 |-> row(i)]
      <3> HIDE DEF row
      <3> QED BY <2>1, <2>5
    <2> QED BY <2>6
  <1>7. PICK g : IsRow(g) /\ FirstMatch(p, s) = g[1]
    <2>1. FirstMatch(p, s) = (CHOOSE g : IsRow(g))[1]
      BY DEF FirstMatch, Stops
    <2> HIDE DEF IsRow
    <2> QED BY <1>6, <2>1
  <1>8. Follows(g, n, D, [k \in 0..Len(s) |-> {k}], G)
    <2>1. n + 1 \in 1..n + 1 /\ n + 1 > n /\ \A i \in 1..n : i \in 1..n + 1 /\ ~(i > n)
      BY <1>1
    <2>2. \A i \in 1..n + 1 : g[i] = IF i > n THEN [k \in 0..Len(s) |-> {k}] ELSE FirstMatchStep(p, s, i, g[i + 1])
      <3> HIDE DEF D, G
      <3> QED BY <1>7 DEF FirstMatchStep
    <2> HIDE DEF IsRow, n, G, D
    <2> QED BY <1>4, <2>1, <2>2 DEF Follows
  <1> HIDE DEF IsRow, n, G, D
  <1>9. g[1] = RowsOf(n, D, [k \in 0..Len(s) |-> {k}], G) /\ RowsOf(n, D, [k \in 0..Len(s) |-> {k}], G) \in D
    BY <1>1, <1>3, <1>8, RowsAre
  <1> QED BY <1>3, <1>7, <1>9 DEF n, G, D

LEMMA FirstMatchEmpty ==
    ASSUME NEW s, Len(s) \in Nat
    PROVE  FirstMatch(<<>>, s) = [k \in 0..Len(s) |-> {k}]
  <1> DEFINE D == [0..Len(s) -> SUBSET (0..Len(s))]
             G == FirstMatchSteps(<<>>, s)
  <1>1. <<>> \in Seq({}) /\ Len(<<>>) = 0 /\ [k \in 0..Len(s) |-> {k}] \in D
    OBVIOUS
  <1>2. G \in RowFunctions(Len(<<>>), D) /\ FirstMatch(<<>>, s) = RowsOf(Len(<<>>), D, [k \in 0..Len(s) |-> {k}], G)
    BY <1>1, FirstMatchRows
  <1> HIDE DEF D, G
  <1>3. G \in RowFunctions(0, D) /\ FirstMatch(<<>>, s) = RowsOf(0, D, [k \in 0..Len(s) |-> {k}], G)
    BY <1>1, <1>2, Zenon
  <1> QED BY <1>1, <1>3, RowsNone

LEMMA FirstMatchCons ==
    ASSUME NEW C, NEW t \in C, NEW p \in Seq(C), NEW s, Len(s) \in Nat
    PROVE  FirstMatch(Cons(t, p), s) = FirstMatchStep(Cons(t, p), s, 1, FirstMatch(p, s))
  <1> DEFINE D == [0..Len(s) -> SUBSET (0..Len(s))]
             longer == Cons(t, p)
             n == Len(p)
             G == FirstMatchSteps(longer, s)
             H == FirstMatchSteps(p, s)
  <1>1. longer \in Seq(C) /\ Len(longer) = n + 1 /\ n \in Nat /\ \A i \in 1..n : longer[i + 1] = p[i]
    BY DEF Cons
  <1> HIDE DEF longer
  <1>2. ASSUME NEW i \in 1..n
        PROVE  H[i] = G[i + 1]
    <2>1. i + 1 \in 1..Len(longer) /\ i + 1 > 1
      BY <1>1
    <2>2. \A rest \in D : FirstMatchStep(longer, s, i + 1, rest) = FirstMatchStep(p, s, i, rest)
      <3>1. i + 1 = Len(longer) <=> i = Len(p)
        BY <1>1
      <3> QED BY <1>1, <2>1, <3>1 DEF FirstMatchStep
    <2> QED BY <2>1, <2>2 DEF FirstMatchSteps
  <1>3. G \in RowFunctions(n + 1, D) /\ FirstMatch(longer, s) = RowsOf(n + 1, D, [k \in 0..Len(s) |-> {k}], G)
    BY <1>1, FirstMatchRows
  <1>4. H \in RowFunctions(n, D) /\ FirstMatch(p, s) = RowsOf(n, D, [k \in 0..Len(s) |-> {k}], H) /\ FirstMatch(p, s) \in D
    BY FirstMatchRows
  <1>5. [k \in 0..Len(s) |-> {k}] \in D
    OBVIOUS
  <1>6. \A rest \in D : G[1][rest] = FirstMatchStep(longer, s, 1, rest)
    BY <1>1 DEF FirstMatchSteps
  <1> HIDE DEF D, n, G, H
  <1>7. RowsOf(n + 1, D, [k \in 0..Len(s) |-> {k}], G) = G[1][RowsOf(n, D, [k \in 0..Len(s) |-> {k}], H)]
    BY <1>1, <1>2, <1>3, <1>4, <1>5, RowsExtend
  <1> QED BY <1>3, <1>4, <1>6, <1>7 DEF longer

\* Positions in s.
Places(s) == SUBSET (0..Len(s))

WildStep(p, s, i, rest) ==
    IF p[i] = "*" THEN Skipped(s, rest, LAMBDA k, j : Open(s, k, j))
    ELSE IF p[i] \in {"**", "***"} THEN Skipped(s, rest, LAMBDA k, j : TRUE)
    ELSE Taken(p[i], s, rest)

WildSteps(p, s) == [i \in 1..Len(p) |-> [rest \in Places(s) |-> WildStep(p, s, i, rest)]]

LEMMA WildRows ==
    ASSUME NEW C, NEW p \in Seq(C), NEW s, NEW goal, Len(s) \in Nat, goal \in Places(s)
    PROVE  /\ WildSteps(p, s) \in RowFunctions(Len(p), Places(s))
           /\ Wild(p, s, goal) = RowsOf(Len(p), Places(s), goal, WildSteps(p, s))
           /\ Wild(p, s, goal) \in Places(s)
  <1> DEFINE D == Places(s)
             n == Len(p)
             G == WildSteps(p, s)
             IsRow(f) == f = [i \in 1..Len(p) + 1 |->
                                 IF i > Len(p) THEN goal
                                 ELSE IF p[i] = "*" THEN Skipped(s, f[i + 1], LAMBDA k, j : Open(s, k, j))
                                 ELSE IF p[i] \in {"**", "***"} THEN Skipped(s, f[i + 1], LAMBDA k, j : TRUE)
                                 ELSE Taken(p[i], s, f[i + 1])]
  <1>1. n \in Nat /\ goal \in D
    OBVIOUS
  <1>2. ASSUME NEW i \in 1..n, NEW rest \in D
        PROVE  WildStep(p, s, i, rest) \in D
    BY DEF WildStep, Taken, Skipped, Places
  <1>3. G \in RowFunctions(n, D)
    BY <1>2 DEF RowFunctions, WildSteps
  <1>4. \A i \in 1..n, rest \in D : G[i][rest] = WildStep(p, s, i, rest)
    BY DEF WildSteps
  <1>5. PICK f : Solves(f, n, D, goal, G)
    <2> HIDE DEF D, G, n
    <2> QED BY <1>1, <1>3, RowsExist
  <1>6. IsRow(f)
    <2>1. /\ f = [i \in 1..n + 1 |-> f[i]] /\ f[n + 1] = goal
          /\ \A i \in 1..n : f[i] = WildStep(p, s, i, f[i + 1])
      <3> HIDE DEF D, G
      <3> QED BY <1>1, <1>4, <1>5 DEF Solves
    <2>2. \A i \in 1..n + 1 : (~(i > n) <=> i \in 1..n) /\ (i > n => i = n + 1)
      BY <1>1
    <2> HIDE DEF D, G
    <2> QED BY <2>1, <2>2 DEF WildStep
  <1>7. PICK g : IsRow(g) /\ Wild(p, s, goal) = g[1]
    <2>1. Wild(p, s, goal) = (CHOOSE g : IsRow(g))[1]
      BY DEF Wild
    <2> HIDE DEF IsRow
    <2> QED BY <1>6, <2>1
  <1>8. Follows(g, n, D, goal, G)
    <2>1. n + 1 \in 1..n + 1 /\ n + 1 > n /\ \A i \in 1..n : i \in 1..n + 1 /\ ~(i > n)
      BY <1>1
    <2>2. \A i \in 1..n + 1 : g[i] = IF i > n THEN goal ELSE WildStep(p, s, i, g[i + 1])
      <3> HIDE DEF D, G
      <3> QED BY <1>7 DEF WildStep
    <2> HIDE DEF IsRow, n, G, D
    <2> QED BY <1>4, <2>1, <2>2 DEF Follows
  <1> HIDE DEF IsRow, n, G, D
  <1>9. g[1] = RowsOf(n, D, goal, G) /\ RowsOf(n, D, goal, G) \in D
    BY <1>1, <1>3, <1>8, RowsAre
  <1> QED BY <1>3, <1>7, <1>9 DEF n, G, D

LEMMA WildEmpty ==
    ASSUME NEW s, NEW goal, Len(s) \in Nat, goal \in Places(s)
    PROVE  Wild(<<>>, s, goal) = goal
  <1> DEFINE D == Places(s)
             G == WildSteps(<<>>, s)
  <1>1. <<>> \in Seq({}) /\ Len(<<>>) = 0 /\ goal \in D
    OBVIOUS
  <1>2. G \in RowFunctions(Len(<<>>), D) /\ Wild(<<>>, s, goal) = RowsOf(Len(<<>>), D, goal, G)
    BY <1>1, WildRows
  <1> HIDE DEF D, G
  <1>3. G \in RowFunctions(0, D) /\ Wild(<<>>, s, goal) = RowsOf(0, D, goal, G)
    BY <1>1, <1>2, Zenon
  <1> QED BY <1>1, <1>3, RowsNone

LEMMA WildCons ==
    ASSUME NEW C, NEW t \in C, NEW p \in Seq(C), NEW s, NEW goal, Len(s) \in Nat, goal \in Places(s)
    PROVE  Wild(Cons(t, p), s, goal) = WildStep(Cons(t, p), s, 1, Wild(p, s, goal))
  <1> DEFINE D == Places(s)
             longer == Cons(t, p)
             n == Len(p)
             G == WildSteps(longer, s)
             H == WildSteps(p, s)
  <1>1. longer \in Seq(C) /\ Len(longer) = n + 1 /\ n \in Nat /\ \A i \in 1..n : longer[i + 1] = p[i]
    BY DEF Cons
  <1> HIDE DEF longer
  <1>2. ASSUME NEW i \in 1..n
        PROVE  H[i] = G[i + 1]
    <2>1. i + 1 \in 1..Len(longer) /\ i + 1 > 1
      BY <1>1
    <2>2. \A rest \in D : WildStep(longer, s, i + 1, rest) = WildStep(p, s, i, rest)
      BY <1>1, <2>1 DEF WildStep
    <2> QED BY <2>1, <2>2 DEF WildSteps
  <1>3. G \in RowFunctions(n + 1, D) /\ Wild(longer, s, goal) = RowsOf(n + 1, D, goal, G)
    BY <1>1, WildRows
  <1>4. H \in RowFunctions(n, D) /\ Wild(p, s, goal) = RowsOf(n, D, goal, H) /\ Wild(p, s, goal) \in D
    BY WildRows
  <1>5. goal \in D
    OBVIOUS
  <1>6. \A rest \in D : G[1][rest] = WildStep(longer, s, 1, rest)
    BY <1>1 DEF WildSteps
  <1> HIDE DEF D, n, G, H
  <1>7. RowsOf(n + 1, D, goal, G) = G[1][RowsOf(n, D, goal, H)]
    BY <1>1, <1>2, <1>3, <1>4, <1>5, RowsExtend
  <1> QED BY <1>3, <1>4, <1>6, <1>7 DEF longer

----------------------------------------------------------------------------
(* What a pattern leads to. *)

\* What token t may stand for in s: the piece between k and i.
Stands(t, s, k, i) ==
    IF t = "*" THEN Open(s, k, i)
    ELSE IF t \in {"**", "***"} THEN TRUE
    ELSE i = k + 1 /\ s[i] \in Class(t)

\* Pattern p leads from k to j in s.
Leads(p, s, k, j) == k \in Wild(p, s, {j})

LEMMA WildHead ==
    ASSUME NEW C, NEW t \in C, NEW p \in Seq(C), NEW s, NEW goal,
           Len(s) \in Nat, goal \in Places(s), NEW k
    PROVE  k \in Wild(Cons(t, p), s, goal) <=>
              /\ k \in 0..Len(s)
              /\ \E i \in k..Len(s) : Stands(t, s, k, i) /\ i \in Wild(p, s, goal)
  <1> DEFINE W == Wild(p, s, goal)
             longer == Cons(t, p)
  <1>1. W \in SUBSET (0..Len(s))
    BY WildRows DEF Places
  <1>2. Wild(longer, s, goal) = WildStep(longer, s, 1, W)
    BY WildCons
  <1>3. longer[1] = t
    BY ConsFacts
  <1> HIDE DEF longer, W
  <1>4. CASE t = "*"
    <2>1. WildStep(longer, s, 1, W) = Skipped(s, W, LAMBDA a, b : Open(s, a, b))
      BY <1>3, <1>4 DEF WildStep
    <2> QED BY <1>2, <1>4, <2>1 DEF Skipped, Stands, longer, W
  <1>5. CASE t \in {"**", "***"}
    <2>1. WildStep(longer, s, 1, W) = Skipped(s, W, LAMBDA a, b : TRUE)
      BY <1>3, <1>5 DEF WildStep
    <2> QED BY <1>2, <1>5, <2>1 DEF Skipped, Stands, longer, W
  <1>6. CASE t \notin {"*", "**", "***"}
    <2>1. WildStep(longer, s, 1, W) = Taken(t, s, W)
      BY <1>3, <1>6 DEF WildStep
    <2>2. k \in Taken(t, s, W) <=> k \in 0..Len(s) - 1 /\ s[k + 1] \in Class(t) /\ k + 1 \in W
      BY DEF Taken
    <2>3. (\E i \in k..Len(s) : Stands(t, s, k, i) /\ i \in W) <=>
          k + 1 \in k..Len(s) /\ s[k + 1] \in Class(t) /\ k + 1 \in W
      BY <1>6 DEF Stands
    <2>4. k \in 0..Len(s) => (k + 1 \in k..Len(s) <=> k \in 0..Len(s) - 1)
      OBVIOUS
    <2>5. k \in 0..Len(s) - 1 => k \in 0..Len(s)
      OBVIOUS
    <2> QED BY <1>2, <2>1, <2>2, <2>3, <2>4, <2>5 DEF longer, W
  <1> QED BY <1>4, <1>5, <1>6

LEMMA LeadsType ==
    ASSUME NEW C, NEW p \in Seq(C), NEW s, Len(s) \in Nat, NEW j \in 0..Len(s), NEW k, Leads(p, s, k, j)
    PROVE  k \in 0..Len(s)
  <1>1. {j} \in Places(s)
    BY DEF Places
  <1>2. Wild(p, s, {j}) \in SUBSET (0..Len(s))
    BY <1>1, WildRows DEF Places
  <1> QED BY <1>2 DEF Leads

LEMMA LeadsEmpty ==
    ASSUME NEW s, Len(s) \in Nat, NEW j \in 0..Len(s), NEW k
    PROVE  Leads(<<>>, s, k, j) <=> k = j
  <1>1. {j} \in Places(s)
    BY DEF Places
  <1>2. Wild(<<>>, s, {j}) = {j}
    BY <1>1, WildEmpty
  <1> QED BY <1>2 DEF Leads

LEMMA LeadsHead ==
    ASSUME NEW C, NEW t \in C, NEW p \in Seq(C), NEW s, Len(s) \in Nat, NEW j \in 0..Len(s), NEW k
    PROVE  Leads(Cons(t, p), s, k, j) <=>
              k \in 0..Len(s) /\ \E i \in k..Len(s) : Stands(t, s, k, i) /\ Leads(p, s, i, j)
  <1>1. {j} \in Places(s)
    BY DEF Places
  <1> QED BY <1>1, WildHead DEF Leads

\* Several ends are as good as one of them.
LEMMA LeadsToOne ==
    ASSUME NEW C, NEW p \in Seq(C), NEW s, Len(s) \in Nat, NEW goal \in Places(s), NEW k
    PROVE  k \in Wild(p, s, goal) <=> \E j \in goal : Leads(p, s, k, j)
  <1> DEFINE T == {q \in Seq(C) : \A i : i \in Wild(q, s, goal) <=> \E j \in goal : Leads(q, s, i, j)}
  <1>0. goal \in SUBSET (0..Len(s))
    BY DEF Places
  <1>1. <<>> \in T
    <2>1. Wild(<<>>, s, goal) = goal
      BY WildEmpty
    <2>2. \A i : \A j \in goal : Leads(<<>>, s, i, j) <=> i = j
      BY <1>0, LeadsEmpty
    <2>3. <<>> \in Seq(C)
      OBVIOUS
    <2> QED BY <2>1, <2>2, <2>3, Zenon
  <1>2. ASSUME NEW t \in C, NEW q \in Seq(C), q \in T
        PROVE  Cons(t, q) \in T
    <2>1. ASSUME NEW i
          PROVE  i \in Wild(Cons(t, q), s, goal) <=> \E j \in goal : Leads(Cons(t, q), s, i, j)
      <3>1. i \in Wild(Cons(t, q), s, goal) <=>
               i \in 0..Len(s) /\ \E m \in i..Len(s) : Stands(t, s, i, m) /\ m \in Wild(q, s, goal)
        BY WildHead
      <3>2. \A m : m \in Wild(q, s, goal) <=> \E j \in goal : Leads(q, s, m, j)
        BY <1>2
      <3>3. \A j \in goal : Leads(Cons(t, q), s, i, j) <=>
               i \in 0..Len(s) /\ \E m \in i..Len(s) : Stands(t, s, i, m) /\ Leads(q, s, m, j)
        BY <1>0, LeadsHead
      <3> QED BY <3>1, <3>2, <3>3, Zenon
    <2>2. Cons(t, q) \in Seq(C)
      BY ConsFacts
    <2> QED BY <2>1, <2>2
  <1> HIDE DEF T
  <1>3. p \in T
    BY <1>1, <1>2, ByHead
  <1> QED BY <1>3 DEF T

LEMMA LeadsForward ==
    ASSUME NEW C, NEW p \in Seq(C), NEW s, Len(s) \in Nat, NEW j \in 0..Len(s), NEW k, Leads(p, s, k, j)
    PROVE  k \in 0..j
  <1> DEFINE T == {q \in Seq(C) : \A i : Leads(q, s, i, j) => i \in 0..j}
  <1>1. <<>> \in T
    BY LeadsEmpty
  <1>2. ASSUME NEW t \in C, NEW q \in Seq(C), q \in T
        PROVE  Cons(t, q) \in T
    <2>1. ASSUME NEW i, Leads(Cons(t, q), s, i, j)
          PROVE  i \in 0..j
      <3>1. i \in 0..Len(s) /\ \E m \in i..Len(s) : Stands(t, s, i, m) /\ Leads(q, s, m, j)
        BY <2>1, LeadsHead
      <3>2. PICK m \in i..Len(s) : m \in 0..j
        BY <1>2, <3>1
      <3> QED BY <3>1, <3>2
    <2>2. Cons(t, q) \in Seq(C)
      BY ConsFacts
    <2> QED BY <2>1, <2>2
  <1> HIDE DEF T
  <1>3. p \in T
    BY <1>1, <1>2, ByHead
  <1> QED BY <1>3 DEF T

\* One pattern after the other.
LEMMA LeadsConcat ==
    ASSUME NEW C, NEW a \in Seq(C), NEW b \in Seq(C), NEW s, Len(s) \in Nat, NEW j \in 0..Len(s), NEW k
    PROVE  Leads(a \o b, s, k, j) <=> \E m \in 0..Len(s) : Leads(a, s, k, m) /\ Leads(b, s, m, j)
  <1> DEFINE L == 0..Len(s)
             T == {q \in Seq(C) : \A i : Leads(q \o b, s, i, j) <=>
                                    \E m \in L : Leads(q, s, i, m) /\ Leads(b, s, m, j)}
  <1>1. <<>> \in T
    <2>1. <<>> \o b = b /\ <<>> \in Seq(C)
      OBVIOUS
    <2>2. \A i : \A m \in L : Leads(<<>>, s, i, m) <=> i = m
      BY LeadsEmpty
    <2>3. \A i : Leads(b, s, i, j) => i \in L
      BY LeadsType
    <2> HIDE DEF L
    <2> QED BY <2>1, <2>2, <2>3
  <1>2. ASSUME NEW t \in C, NEW q \in Seq(C), q \in T
        PROVE  Cons(t, q) \in T
    <2>1. Cons(t, q) \in Seq(C) /\ q \o b \in Seq(C) /\ Cons(t, q) \o b = Cons(t, q \o b)
      BY DEF Cons
    <2>2. ASSUME NEW i
          PROVE  Leads(Cons(t, q) \o b, s, i, j) <=>
                    \E m \in L : Leads(Cons(t, q), s, i, m) /\ Leads(b, s, m, j)
      <3>1. Leads(Cons(t, q) \o b, s, i, j) <=>
               i \in L /\ \E x \in i..Len(s) : Stands(t, s, i, x) /\ Leads(q \o b, s, x, j)
        BY <2>1, LeadsHead
      <3>2. \A x : Leads(q \o b, s, x, j) <=> \E m \in L : Leads(q, s, x, m) /\ Leads(b, s, m, j)
        BY <1>2
      <3>3. \A m \in L : Leads(Cons(t, q), s, i, m) <=>
               i \in L /\ \E x \in i..Len(s) : Stands(t, s, i, x) /\ Leads(q, s, x, m)
        BY LeadsHead
      <3> HIDE DEF L
      <3> QED BY <3>1, <3>2, <3>3, Zenon
    <2> QED BY <2>1, <2>2
  <1> HIDE DEF T
  <1>3. a \in T
    BY <1>1, <1>2, ByHead
  <1> QED BY <1>3 DEF T

----------------------------------------------------------------------------
(* Patterns without "**". *)

LEMMA ClassFacts ==
    Class("/") = {"/"} /\ \A t : t # "/" => "/" \notin Class(t)
  <1>1. "/" \in Characters /\ "/" \notin DOMAIN Brackets
    BY SplitAssumption
  <1>2. Class("/") = {"/"}
    BY <1>1 DEF Class
  <1>3. ASSUME NEW t, t # "/"
        PROVE  "/" \notin Class(t)
    <2>1. CASE t = "?"
      BY <2>1 DEF Class
    <2>2. CASE t # "?" /\ t \in DOMAIN Brackets
      BY <2>2, SplitAssumption DEF Class
    <2>3. CASE t # "?" /\ t \notin DOMAIN Brackets
      BY <1>3, <2>3 DEF Class
    <2> QED BY <2>1, <2>2, <2>3
  <1> QED BY <1>2, <1>3

\* No slash between k and m, whichever is the first.
Near(s, k, m) == Open(s, k, m) /\ Open(s, m, k)

LEMMA NearKept ==
    ASSUME NEW t, t \notin {"**", "***"}, NEW s,
           NEW k \in Nat, NEW m \in Nat, NEW i \in Nat, NEW l \in Nat, k <= i, m <= l,
           Near(s, k, m), Stands(t, s, k, i), Stands(t, s, m, l)
    PROVE  Near(s, i, l) /\ (t = "/" => i = l)
  <1>1. CASE t = "*"
    <2>1. Open(s, k, i) /\ Open(s, m, l) /\ Open(s, k, m) /\ Open(s, m, k)
      BY <1>1 DEF Stands, Near
    <2>2. \A x \in i + 1..l : x \in k + 1..m \/ x \in m + 1..l
      OBVIOUS
    <2>3. \A x \in l + 1..i : x \in m + 1..k \/ x \in k + 1..i
      OBVIOUS
    <2> QED BY <1>1, <2>1, <2>2, <2>3 DEF Open, Near
  <1>2. CASE t # "*"
    <2>1. i = k + 1 /\ s[i] \in Class(t) /\ l = m + 1 /\ s[l] \in Class(t)
      BY <1>2 DEF Stands
    <2>2. \A x \in k + 1..m : s[x] # "/"
      BY DEF Near, Open
    <2>3. \A x \in m + 1..k : s[x] # "/"
      BY DEF Near, Open
    <2>4. CASE t = "/"
      <3>1. s[i] = "/" /\ s[l] = "/"
        BY <2>1, <2>4, ClassFacts
      <3>2. ~(i \in k + 1..m) /\ ~(l \in m + 1..k)
        BY <2>2, <2>3, <3>1
      <3>3. i = l
        BY <2>1, <3>2
      <3>4. \A x \in i + 1..l : FALSE
        BY <3>3
      <3>5. \A x \in l + 1..i : FALSE
        BY <3>3
      <3> QED BY <3>3, <3>4, <3>5 DEF Near, Open
    <2>5. CASE t # "/"
      <3>1. s[i] # "/" /\ s[l] # "/"
        BY <2>1, <2>5, ClassFacts
      <3>2. \A x \in i + 1..l : x \in k + 1..m \/ x = l
        BY <2>1
      <3>3. \A x \in l + 1..i : x \in m + 1..k \/ x = i
        BY <2>1
      <3> QED BY <2>2, <2>3, <2>5, <3>1, <3>2, <3>3 DEF Near, Open
    <2> QED BY <2>4, <2>5
  <1> QED BY <1>1, <1>2

\* A pattern that ends in a slash ends at one place, wherever it begins in front
\* of the next slash.
LEMMA OneEnd ==
    ASSUME NEW C, "**" \notin C, "***" \notin C, "/" \in C, NEW r \in Seq(C), NEW s, Len(s) \in Nat
    PROVE  \A k, m, j, l \in 0..Len(s) :
              /\ Near(s, k, m)
              /\ Leads(r \o <<"/">>, s, k, j) /\ Leads(r \o <<"/">>, s, m, l)
              => j = l
  <1> DEFINE L == 0..Len(s)
             End == <<"/">>
             T == {q \in Seq(C) : \A k, m, j, l \in L :
                      Near(s, k, m) /\ Leads(q \o End, s, k, j) /\ Leads(q \o End, s, m, l) => j = l}
  <1>0. End \in Seq(C) /\ End = Cons("/", <<>>) /\ <<>> \in Seq(C)
    BY DEF Cons
  <1>1. <<>> \in T
    <2>1. <<>> \o End = End
      OBVIOUS
    <2>2. ASSUME NEW k \in L, NEW m \in L, NEW j \in L, NEW l \in L,
                 Near(s, k, m), Leads(End, s, k, j), Leads(End, s, m, l)
          PROVE  j = l
      <3> HIDE DEF End
      <3>1. PICK i \in k..Len(s) : Stands("/", s, k, i) /\ Leads(<<>>, s, i, j)
        BY <1>0, <2>2, LeadsHead
      <3>2. PICK x \in m..Len(s) : Stands("/", s, m, x) /\ Leads(<<>>, s, x, l)
        BY <1>0, <2>2, LeadsHead
      <3>3. i = j /\ x = l
        BY <3>1, <3>2, LeadsEmpty
      <3>4. i \in Nat /\ x \in Nat /\ k \in Nat /\ m \in Nat /\ k <= i /\ m <= x
        OBVIOUS
      <3>5. i = x
        BY <2>2, <3>1, <3>2, <3>4, NearKept
      <3> QED BY <3>3, <3>5
    <2> HIDE DEF L, End
    <2> QED BY <1>0, <2>1, <2>2
  <1>2. ASSUME NEW t \in C, NEW q \in Seq(C), q \in T
        PROVE  Cons(t, q) \in T
    <2>1. Cons(t, q) \in Seq(C) /\ q \o End \in Seq(C) /\ Cons(t, q) \o End = Cons(t, q \o End)
      BY <1>0 DEF Cons
    <2> HIDE DEF End
    <2>2. ASSUME NEW k \in L, NEW m \in L, NEW j \in L, NEW l \in L,
                 Near(s, k, m), Leads(Cons(t, q \o End), s, k, j), Leads(Cons(t, q \o End), s, m, l)
          PROVE  j = l
      <3>1. PICK i \in k..Len(s) : Stands(t, s, k, i) /\ Leads(q \o End, s, i, j)
        BY <2>1, <2>2, LeadsHead
      <3>2. PICK x \in m..Len(s) : Stands(t, s, m, x) /\ Leads(q \o End, s, x, l)
        BY <2>1, <2>2, LeadsHead
      <3>3. i \in Nat /\ x \in Nat /\ k \in Nat /\ m \in Nat /\ k <= i /\ m <= x /\ i \in L /\ x \in L
        OBVIOUS
      <3>4. t \notin {"**", "***"}
        OBVIOUS
      <3>5. Near(s, i, x)
        BY <2>2, <3>1, <3>2, <3>3, <3>4, NearKept
      <3> HIDE DEF L
      <3> QED BY <1>2, <3>1, <3>2, <3>3, <3>5
    <2> HIDE DEF L
    <2> QED BY <2>1, <2>2
  <1> HIDE DEF T
  <1>3. r \in T
    BY <1>1, <1>2, ByHead
  <1> QED BY <1>3 DEF T

\* No star is followed by another.
Separated(p) == \A i \in 1..Len(p) - 1 : p[i] = "*" => p[i + 1] # "*"

LEMMA BehindHead ==
    ASSUME NEW C, NEW t \in C, NEW q \in Seq(C)
    PROVE  /\ Len(Cons(t, q)) = Len(q) + 1 /\ Cons(t, q)[1] = t
           /\ \A i \in 1..Len(q) : Cons(t, q)[i + 1] = q[i]
  BY ConsFacts

LEMMA SeparatedHead ==
    ASSUME NEW C, NEW t \in C, NEW q \in Seq(C), Separated(Cons(t, q))
    PROVE  Separated(q) /\ (t = "*" /\ q # <<>> => Head(q) # "*")
  <1> DEFINE p == Cons(t, q)
  <1>1. Len(p) = Len(q) + 1 /\ p[1] = t /\ \A i \in 1..Len(q) : p[i + 1] = q[i]
    BY BehindHead
  <1>2. \A i \in 1..Len(p) - 1 : p[i] = "*" => p[i + 1] # "*"
    BY DEF Separated
  <1> HIDE DEF p
  <1>3. ASSUME NEW i \in 1..Len(q) - 1, q[i] = "*"
        PROVE  q[i + 1] # "*"
    <2>1. i + 1 \in 1..Len(p) - 1 /\ i \in 1..Len(q) /\ i + 1 \in 1..Len(q)
      BY <1>1
    <2>2. p[i + 1] = q[i] /\ p[(i + 1) + 1] = q[i + 1]
      BY <1>1, <2>1
    <2> QED BY <1>2, <1>3, <2>1, <2>2
  <1>4. ASSUME t = "*", q # <<>>
        PROVE  Head(q) # "*"
    <2>1. 1 \in 1..Len(p) - 1 /\ 1 \in 1..Len(q) /\ Head(q) = q[1]
      BY <1>1, <1>4
    <2>2. p[1 + 1] = q[1]
      BY <1>1, <2>1
    <2> QED BY <1>1, <1>2, <1>4, <2>1, <2>2
  <1> QED BY <1>3, <1>4 DEF Separated

LEMMA GlobsHead ==
    ASSUME NEW C, NEW t \in C, t \notin {"**", "***"}, NEW q \in Seq(C), NEW s, Len(s) \in Nat, NEW k
    PROVE  k \in Globs(Cons(t, q), s) <=>
              /\ k \in 0..Len(s)
              /\ \E i \in k..Len(s) : /\ Stands(t, s, k, i)
                                      /\ i \in IF q = <<>> THEN {Len(s)} ELSE Globs(q, s)
                                      /\ t = "*" /\ q # <<>> => i # Len(s)
  <1> DEFINE longer == Cons(t, q)
             W == Globs(q, s)
  <1>1. Globs(longer, s) = GlobsStep(longer, s, 1, W)
    BY GlobsCons
  <1>2. longer[1] = t /\ (1 = Len(longer) <=> q = <<>>)
    <2>1. longer[1] = t /\ Len(longer) = Len(q) + 1
      BY BehindHead
    <2>2. Len(q) \in Nat /\ (Len(q) = 0 <=> q = <<>>)
      OBVIOUS
    <2> HIDE DEF longer
    <2> QED BY <2>1, <2>2
  <1>3. q = <<>> => W = {Len(s)}
    BY GlobsEmpty
  <1> HIDE DEF longer, W
  <1>4. CASE t = "*"
    <2>1. GlobsStep(longer, s, 1, W) =
             Skipped(s, IF q = <<>> THEN {Len(s)} ELSE W \ {Len(s)}, LAMBDA a, b : Open(s, a, b))
      BY <1>2, <1>4 DEF GlobsStep
    <2> QED BY <1>1, <1>4, <2>1 DEF Skipped, Stands, longer, W
  <1>5. CASE t # "*"
    <2>1. GlobsStep(longer, s, 1, W) = Taken(t, s, W)
      BY <1>2, <1>5 DEF GlobsStep
    <2>2. k \in Taken(t, s, W) <=> k \in 0..Len(s) - 1 /\ s[k + 1] \in Class(t) /\ k + 1 \in W
      BY DEF Taken
    <2>3. (\E i \in k..Len(s) : Stands(t, s, k, i) /\ i \in W) <=>
          k + 1 \in k..Len(s) /\ s[k + 1] \in Class(t) /\ k + 1 \in W
      BY <1>5 DEF Stands
    <2>4. k \in 0..Len(s) => (k + 1 \in k..Len(s) <=> k \in 0..Len(s) - 1)
      OBVIOUS
    <2>5. k \in 0..Len(s) - 1 => k \in 0..Len(s)
      OBVIOUS
    <2> QED BY <1>1, <1>3, <1>5, <2>1, <2>2, <2>3, <2>4, <2>5 DEF longer, W
  <1> QED BY <1>4, <1>5

\* simple_glob finds what the pattern leads to.
LEMMA GlobsLead ==
    ASSUME NEW C, "**" \notin C, "***" \notin C, NEW p \in Seq(C), Separated(p), NEW s, Len(s) \in Nat, NEW k
    PROVE  k \in Globs(p, s) <=> Leads(p, s, k, Len(s))
  <1> DEFINE n == Len(s)
             T == {q \in Seq(C) : Separated(q) => \A i : i \in Globs(q, s) <=> Leads(q, s, i, n)}
  <1>0. n \in 0..Len(s) /\ n \in Nat /\ <<>> \in Seq(C)
    OBVIOUS
  <1>1. <<>> \in T
    <2>1. Globs(<<>>, s) = {n}
      BY GlobsEmpty
    <2>2. \A i : Leads(<<>>, s, i, n) <=> i = n
      BY <1>0, LeadsEmpty
    <2> QED BY <1>0, <2>1, <2>2
  <1>2. ASSUME NEW t \in C, NEW q \in Seq(C), q \in T
        PROVE  Cons(t, q) \in T
    <2>0. Cons(t, q) \in Seq(C) /\ t \notin {"**", "***"}
      BY ConsFacts
    <2> SUFFICES ASSUME Separated(Cons(t, q)), NEW i
                 PROVE  i \in Globs(Cons(t, q), s) <=> Leads(Cons(t, q), s, i, n)
      BY <2>0
    <2>1. Separated(q) /\ (t = "*" /\ q # <<>> => Head(q) # "*")
      BY SeparatedHead
    <2>2. i \in Globs(Cons(t, q), s) <=>
              /\ i \in 0..Len(s)
              /\ \E x \in i..Len(s) : /\ Stands(t, s, i, x)
                                      /\ x \in IF q = <<>> THEN {Len(s)} ELSE Globs(q, s)
                                      /\ t = "*" /\ q # <<>> => x # Len(s)
      BY <2>0, GlobsHead
    <2>3. \A x : x \in Globs(q, s) <=> Leads(q, s, x, n)
      BY <1>2, <2>1
    <2>4. Leads(Cons(t, q), s, i, n) <=>
              i \in 0..Len(s) /\ \E x \in i..Len(s) : Stands(t, s, i, x) /\ Leads(q, s, x, n)
      BY <1>0, LeadsHead
    <2>5. CASE q = <<>>
      <3>1. \A x : Leads(q, s, x, n) <=> x = n
        BY <1>0, <2>5, LeadsEmpty
      <3> HIDE DEF n
      <3> QED BY <2>2, <2>4, <2>5, <3>1 DEF n
    <2>6. CASE q # <<>>
      <3>1. t = "*" => ~Leads(q, s, n, n)
        <4> SUFFICES ASSUME t = "*", Leads(q, s, n, n)
                     PROVE  FALSE
          OBVIOUS
        <4>1. Head(q) \in C /\ Tail(q) \in Seq(C) /\ q = Cons(Head(q), Tail(q)) /\ Head(q) # "*"
          BY <2>1, <2>6 DEF Cons
        <4>2. PICK x \in n..Len(s) : Stands(Head(q), s, n, x)
          <5>1. Leads(Cons(Head(q), Tail(q)), s, n, n)
            BY <4>1, Zenon
          <5> HIDE DEF n
          <5> QED BY <1>0, <4>1, <5>1, LeadsHead
        <4>3. x = n + 1
          BY <4>1, <4>2 DEF Stands
        <4> QED BY <1>0, <4>3
      <3> HIDE DEF n
      <3> QED BY <2>2, <2>3, <2>4, <2>6, <3>1 DEF n
    <2> QED BY <2>5, <2>6
  <1> HIDE DEF T
  <1>3. p \in T
    BY <1>1, <1>2, ByHead
  <1> QED BY <1>3 DEF T

LEMMA FirstMatchHead ==
    ASSUME NEW C, NEW t \in C, NEW q \in Seq(C), NEW s, Len(s) \in Nat, NEW k \in 0..Len(s)
    PROVE  /\ t # "*" =>
              FirstMatch(Cons(t, q), s)[k] =
                 IF k < Len(s) /\ s[k + 1] \in Class(t) THEN FirstMatch(q, s)[k + 1] ELSE {}
           /\ t = "*" /\ q # <<>> =>
              FirstMatch(Cons(t, q), s)[k] =
                 IF Stops(s, k, FirstMatch(q, s)) = {} THEN {}
                 ELSE FirstMatch(q, s)[Min(Stops(s, k, FirstMatch(q, s)))]
  <1> DEFINE longer == Cons(t, q)
             F == FirstMatch(q, s)
  <1>1. FirstMatch(longer, s) = FirstMatchStep(longer, s, 1, F)
    BY FirstMatchCons
  <1>2. longer[1] = t /\ (q # <<>> => 1 # Len(longer))
    <2>1. longer[1] = t /\ Len(longer) = Len(q) + 1
      BY BehindHead
    <2>2. Len(q) \in Nat /\ (Len(q) = 0 <=> q = <<>>)
      OBVIOUS
    <2> HIDE DEF longer
    <2> QED BY <2>1, <2>2
  <1> HIDE DEF longer, F
  <1>3. FirstMatchStep(longer, s, 1, F)[k] =
           IF longer[1] # "*"
           THEN IF k < Len(s) /\ s[k + 1] \in Class(longer[1]) THEN F[k + 1] ELSE {}
           ELSE IF 1 = Len(longer) THEN {Max({j \in k..Len(s) : Open(s, k, j)})}
           ELSE IF Stops(s, k, F) = {} THEN {} ELSE F[Min(Stops(s, k, F))]
    BY DEF FirstMatchStep
  <1> QED BY <1>1, <1>2, <1>3 DEF longer, F

\* No star is followed by another or by a slash.
Calm(p) == \A i \in 1..Len(p) - 1 : p[i] = "*" => p[i + 1] \notin {"*", "/"}

LEMMA CalmHead ==
    ASSUME NEW C, NEW t \in C, NEW q \in Seq(C), Calm(Cons(t, q))
    PROVE  Calm(q) /\ (t = "*" /\ q # <<>> => Head(q) \notin {"*", "/"})
  <1> DEFINE p == Cons(t, q)
  <1>1. Len(p) = Len(q) + 1 /\ p[1] = t /\ \A i \in 1..Len(q) : p[i + 1] = q[i]
    BY BehindHead
  <1>2. \A i \in 1..Len(p) - 1 : p[i] = "*" => p[i + 1] \notin {"*", "/"}
    BY DEF Calm
  <1> HIDE DEF p
  <1>3. ASSUME NEW i \in 1..Len(q) - 1, q[i] = "*"
        PROVE  q[i + 1] \notin {"*", "/"}
    <2>1. i + 1 \in 1..Len(p) - 1 /\ i \in 1..Len(q) /\ i + 1 \in 1..Len(q)
      BY <1>1
    <2>2. p[i + 1] = q[i] /\ p[(i + 1) + 1] = q[i + 1]
      BY <1>1, <2>1
    <2> QED BY <1>2, <1>3, <2>1, <2>2
  <1>4. ASSUME t = "*", q # <<>>
        PROVE  Head(q) \notin {"*", "/"}
    <2>1. 1 \in 1..Len(p) - 1 /\ 1 \in 1..Len(q) /\ Head(q) = q[1]
      BY <1>1, <1>4
    <2>2. p[1 + 1] = q[1]
      BY <1>1, <2>1
    <2> QED BY <1>1, <1>2, <1>4, <2>1, <2>2
  <1> QED BY <1>3, <1>4 DEF Calm

\* first_match_len finds where a pattern that ends in a slash ends, though it
\* makes the leftmost choice for each star.
LEMMA FirstMatchLeads ==
    ASSUME NEW C, "**" \notin C, "***" \notin C, "/" \in C,
           NEW r \in Seq(C), Calm(r \o <<"/">>), NEW s, Len(s) \in Nat
    PROVE  \A k, j \in 0..Len(s) :
              j \in FirstMatch(r \o <<"/">>, s)[k] <=> Leads(r \o <<"/">>, s, k, j)
  <1> DEFINE L == 0..Len(s)
             End == <<"/">>
             Finds(q) == \A k, j \in L : j \in FirstMatch(q, s)[k] <=> Leads(q, s, k, j)
             T == {q \in Seq(C) : Calm(q \o End) => Finds(q \o End)}
  <1>0. End \in Seq(C) /\ End = Cons("/", <<>>) /\ <<>> \in Seq(C) /\ End # <<>> /\ "/" # "*"
    BY DEF Cons
  <1>a. ASSUME NEW t \in C, t # "*", NEW q \in Seq(C), Finds(q)
        PROVE  Finds(Cons(t, q))
    <2> SUFFICES ASSUME NEW k \in L, NEW j \in L
                 PROVE  j \in FirstMatch(Cons(t, q), s)[k] <=> Leads(Cons(t, q), s, k, j)
      OBVIOUS
    <2>1. FirstMatch(Cons(t, q), s)[k] =
             IF k < Len(s) /\ s[k + 1] \in Class(t) THEN FirstMatch(q, s)[k + 1] ELSE {}
      BY <1>a, FirstMatchHead
    <2>2. Leads(Cons(t, q), s, k, j) <=>
             k \in 0..Len(s) /\ \E i \in k..Len(s) : Stands(t, s, k, i) /\ Leads(q, s, i, j)
      BY LeadsHead
    <2>3. \A i : Stands(t, s, k, i) <=> i = k + 1 /\ s[i] \in Class(t)
      BY <1>a DEF Stands
    <2>4. k < Len(s) <=> k + 1 \in k..Len(s)
      OBVIOUS
    <2>5. k < Len(s) => (j \in FirstMatch(q, s)[k + 1] <=> Leads(q, s, k + 1, j))
      <3>1. k < Len(s) => k + 1 \in L
        OBVIOUS
      <3> QED BY <1>a, <3>1
    <2>6. k \in 0..Len(s)
      OBVIOUS
    <2> HIDE DEF L, Finds
    <2>7. CASE k < Len(s) /\ s[k + 1] \in Class(t)
      <3>1. Stands(t, s, k, k + 1) /\ k + 1 \in k..Len(s)
        BY <2>3, <2>4, <2>7
      <3>2. Leads(Cons(t, q), s, k, j) <=> Leads(q, s, k + 1, j)
        BY <2>2, <2>3, <2>6, <3>1, Zenon
      <3> QED BY <2>1, <2>5, <2>7, <3>2
    <2>8. CASE ~(k < Len(s) /\ s[k + 1] \in Class(t))
      <3>1. ~Leads(Cons(t, q), s, k, j)
        BY <2>2, <2>3, <2>4, <2>8
      <3> QED BY <2>1, <2>8, <3>1
    <2> QED BY <2>7, <2>8
  <1>b. Finds(<<>>)
    <2>1. FirstMatch(<<>>, s) = [k \in 0..Len(s) |-> {k}]
      BY FirstMatchEmpty
    <2>2. \A k, j \in L : Leads(<<>>, s, k, j) <=> k = j
      BY LeadsEmpty
    <2> QED BY <2>1, <2>2
  <1>1. <<>> \in T
    <2>1. <<>> \o End = End
      OBVIOUS
    <2>2. Finds(End)
      <3> HIDE DEF End, Finds
      <3> QED BY <1>0, <1>a, <1>b
    <2> HIDE DEF Finds, End
    <2> QED BY <1>0, <2>1, <2>2
  <1>2. ASSUME NEW t \in C, NEW q \in Seq(C), q \in T
        PROVE  Cons(t, q) \in T
    <2> DEFINE p == q \o End
    <2>1. Cons(t, q) \in Seq(C) /\ p \in Seq(C) /\ p # <<>> /\ Cons(t, q) \o End = Cons(t, p)
      BY <1>0 DEF Cons
    <2> HIDE DEF Finds
    <2>2. ASSUME Calm(Cons(t, p))
          PROVE  Finds(Cons(t, p))
      <3>1. Calm(p) /\ (t = "*" => Head(p) \notin {"*", "/"})
        <4> HIDE DEF p
        <4> QED BY <2>1, <2>2, CalmHead
      <3>2. Finds(p)
        <4> HIDE DEF End
        <4> QED BY <1>2, <3>1
      <3>3. CASE t # "*"
        <4> HIDE DEF p
        <4> QED BY <1>a, <2>1, <3>2, <3>3
      <3>4. CASE t = "*"
        <4>1. \A k, m, j, l \in L : Near(s, k, m) /\ Leads(p, s, k, j) /\ Leads(p, s, m, l) => j = l
          BY OneEnd
        <4> DEFINE F == FirstMatch(p, s)
        <4> HIDE DEF p, End
        <4>2. \A i, j \in L : j \in F[i] <=> Leads(p, s, i, j)
          BY <3>2 DEF Finds
        <4> SUFFICES ASSUME NEW k \in L, NEW j \in L
                     PROVE  j \in FirstMatch(Cons(t, p), s)[k] <=> Leads(Cons(t, p), s, k, j)
          BY DEF Finds
        <4>3. FirstMatch(Cons(t, p), s)[k] =
                 IF Stops(s, k, F) = {} THEN {} ELSE F[Min(Stops(s, k, F))]
          BY <2>1, <3>4, FirstMatchHead
        <4>4. Leads(Cons(t, p), s, k, j) <=> \E i \in k..Len(s) : Open(s, k, i) /\ Leads(p, s, i, j)
          BY <2>1, <3>4, LeadsHead DEF Stands
        <4>5. \A i \in k..Len(s) - 1 : \A x \in F[i] : x \in L
          <5>1. F \in [0..Len(s) -> SUBSET (0..Len(s))]
            BY <2>1, FirstMatchRows
          <5>2. \A i \in k..Len(s) - 1 : i \in 0..Len(s)
            OBVIOUS
          <5>3. \A i \in 0..Len(s) : F[i] \in SUBSET (0..Len(s))
            BY <5>1
          <5> QED BY <5>2, <5>3
        <4>6. ASSUME NEW i \in k..Len(s), Leads(p, s, i, j), Open(s, k, i)
              PROVE  i \in Stops(s, k, F)
          <5>1. Head(p) \in C /\ Tail(p) \in Seq(C) /\ p = Cons(Head(p), Tail(p)) /\ Head(p) # "/"
            BY <2>1, <3>1, <3>4 DEF Cons
          <5>2. PICK x \in i..Len(s) : Stands(Head(p), s, i, x)
            <6>1. Leads(Cons(Head(p), Tail(p)), s, i, j)
              BY <4>6, <5>1, Zenon
            <6> QED BY <5>1, <6>1, LeadsHead
          <5>3. x = i + 1 /\ s[x] \in Class(Head(p)) /\ s[x] # "/"
            <6>1. Head(p) \notin {"*", "**", "***"}
              BY <3>1, <3>4, <5>1
            <6> QED BY <5>1, <5>2, <6>1, ClassFacts DEF Stands
          <5>4. i \in k..Len(s) - 1 /\ i \in L
            BY <5>3
          <5>5. Open(s, k, i + 1)
            <6>1. \A y \in k + 1..i + 1 : y \in k + 1..i \/ y = i + 1
              OBVIOUS
            <6> QED BY <4>6, <5>3, <6>1 DEF Open
          <5>6. F[i] # {}
            BY <4>2, <4>6, <5>4
          <5> QED BY <5>4, <5>5, <5>6 DEF Stops
        <4> DEFINE m == Min(Stops(s, k, F))
        <4>7. Stops(s, k, F) # {} => m \in k..Len(s) - 1 /\ m \in L /\ Open(s, k, m) /\ F[m] # {}
          <5> DEFINE S == Stops(s, k, F)
          <5>1. S \in SUBSET Nat /\ \A i \in S : i \in k..Len(s) - 1 /\ Open(s, k, i + 1) /\ F[i] # {}
            BY DEF Stops
          <5> HIDE DEF S
          <5>2. S # {} => Min(S) \in S
            BY <5>1, LeastOf
          <5>3. \A i \in k..Len(s) - 1 : i \in L /\ \A y \in k + 1..i : y \in k + 1..i + 1
            OBVIOUS
          <5> QED BY <5>1, <5>2, <5>3 DEF Open, S
        <4>8. ASSUME NEW i \in k..Len(s), Open(s, k, i), NEW y \in k..Len(s), Open(s, k, y)
              PROVE  Near(s, i, y)
          <5>1. \A x \in i + 1..y : x \in k + 1..y
            OBVIOUS
          <5>2. \A x \in y + 1..i : x \in k + 1..i
            OBVIOUS
          <5> QED BY <4>8, <5>1, <5>2 DEF Near, Open
        <4>9. ASSUME j \in FirstMatch(Cons(t, p), s)[k]
              PROVE  Leads(Cons(t, p), s, k, j)
          <5>1. Stops(s, k, F) # {} /\ j \in F[m]
            BY <4>3, <4>9
          <5>2. m \in k..Len(s) /\ Open(s, k, m) /\ m \in L
            BY <4>7, <5>1
          <5> HIDE DEF m, F
          <5> QED BY <4>2, <4>4, <5>1, <5>2
        <4>10. ASSUME Leads(Cons(t, p), s, k, j)
               PROVE  j \in FirstMatch(Cons(t, p), s)[k]
          <5>1. PICK i \in k..Len(s) : Open(s, k, i) /\ Leads(p, s, i, j)
            BY <4>4, <4>10
          <5>2. Stops(s, k, F) # {}
            BY <4>6, <5>1
          <5>3. m \in k..Len(s) - 1 /\ m \in k..Len(s) /\ m \in L /\ Open(s, k, m) /\ F[m] # {} /\ i \in L
            BY <4>7, <5>2
          <5> HIDE DEF m, F
          <5>4. PICK x \in F[m] : x \in L
            BY <4>5, <5>3
          <5>5. Leads(p, s, m, x)
            BY <4>2, <5>3, <5>4
          <5>6. Near(s, m, i)
            BY <4>8, <5>1, <5>3
          <5>7. x = j
            BY <4>1, <5>1, <5>3, <5>4, <5>5, <5>6
          <5> QED BY <4>3, <5>2, <5>4, <5>7 DEF m
        <4> QED BY <4>9, <4>10
      <3> QED BY <3>3, <3>4
    <2> HIDE DEF p, End
    <2>3. Calm(Cons(t, q) \o End) => Finds(Cons(t, q) \o End)
      BY <2>1, <2>2
    <2> QED BY <2>1, <2>3
  <1> HIDE DEF T
  <1>3. r \in T
    BY <1>1, <1>2, ByHead
  <1> QED BY <1>3 DEF T

----------------------------------------------------------------------------
(* Paths and the texts that name them. *)

LEMMA FlattenSingle ==
    ASSUME NEW C, NEW x \in Seq(C)
    PROVE  FlattenSeq(<<x>>) = x
  <1>1. <<>> \in Seq(Seq(C)) /\ Append(<<>>, x) = <<x>> /\ <<>> \o x = x
    OBVIOUS
  <1>2. FlattenSeq(Append(<<>>, x)) = FlattenSeq(<<>>) \o x
    BY <1>1, FlattenAppend
  <1> QED BY <1>1, <1>2, FlattenEmpty

\* What each name adds to a path.
Step(x) == IF x \in {<<>>, Dot} THEN <<>> ELSE <<x>>
Steps(names) == [i \in DOMAIN names |-> Step(names[i])]

LEMMA StepsFacts ==
    ASSUME NEW C, NEW m \in Seq(C), NEW n \in Seq(C)
    PROVE  /\ Steps(m) \in Seq(Seq(C))
           /\ Steps(m \o n) = Steps(m) \o Steps(n)
  <1>1. \A x \in C : Step(x) \in Seq(C)
    BY DEF Step
  <1>2. Steps(m) \in Seq(Seq(C)) /\ Steps(n) \in Seq(Seq(C)) /\ Steps(m \o n) \in Seq(Seq(C))
    <2>1. ASSUME NEW q \in Seq(C)
          PROVE  Steps(q) \in Seq(Seq(C))
      <3>1. Steps(q) = [i \in 1..Len(q) |-> Step(q[i])] /\ Len(q) \in Nat
        BY DEF Steps
      <3>2. \A i \in 1..Len(q) : Step(q[i]) \in Seq(C)
        BY <1>1
      <3>3. Steps(q) \in [1..Len(q) -> Seq(C)]
        BY <3>1, <3>2
      <3> QED BY <3>1, <3>3
    <2>2. m \o n \in Seq(C)
      OBVIOUS
    <2> QED BY <2>1, <2>2
  <1>3. Len(Steps(m)) = Len(m) /\ Len(Steps(n)) = Len(n) /\ Len(Steps(m \o n)) = Len(m) + Len(n)
    BY DEF Steps
  <1>4. ASSUME NEW i \in 1..Len(m) + Len(n)
        PROVE  Steps(m \o n)[i] = (Steps(m) \o Steps(n))[i]
    <2>1. i \in 1..Len(m \o n) /\ Len(m) \in Nat /\ Len(n) \in Nat
      OBVIOUS
    <2>2. Steps(m \o n)[i] = Step((m \o n)[i])
      BY <2>1 DEF Steps
    <2>3. (m \o n)[i] = IF i <= Len(m) THEN m[i] ELSE n[i - Len(m)]
      BY <2>1
    <2>4. (Steps(m) \o Steps(n))[i] = IF i <= Len(m) THEN Steps(m)[i] ELSE Steps(n)[i - Len(m)]
      <3> DEFINE a == Steps(m)
                 b == Steps(n)
      <3>1. a \in Seq(Seq(C)) /\ b \in Seq(Seq(C)) /\ Len(a) = Len(m)
            /\ i \in 1..Len(a) + Len(b)
        BY <1>2, <1>3, <2>1
      <3> HIDE DEF a, b
      <3>2. \A k \in 1..Len(a) + Len(b) : (a \o b)[k] = IF k <= Len(a) THEN a[k] ELSE b[k - Len(a)]
        BY <3>1, ConcatProperties, Zenon
      <3> QED BY <3>1, <3>2 DEF a, b
    <2>5. i <= Len(m) => Steps(m)[i] = Step(m[i])
      BY <2>1 DEF Steps
    <2>6. ~(i <= Len(m)) => Steps(n)[i - Len(m)] = Step(n[i - Len(m)])
      <3>1. ~(i <= Len(m)) => i - Len(m) \in DOMAIN n
        BY <2>1
      <3> QED BY <3>1 DEF Steps
    <2> QED BY <2>2, <2>3, <2>4, <2>5, <2>6
  <1>5. Steps(m) \o Steps(n) \in Seq(Seq(C)) /\ Len(Steps(m) \o Steps(n)) = Len(m) + Len(n)
    <2>1. /\ Steps(m) \o Steps(n) \in Seq(Seq(C))
          /\ Len(Steps(m) \o Steps(n)) = Len(Steps(m)) + Len(Steps(n))
      BY <1>2, <1>3, ConcatProperties, Zenon
    <2> QED BY <1>2, <1>3, <2>1, Zenon
  <1> QED BY <1>2, <1>3, <1>4, <1>5, SeqEqual

LEMMA PathOfIs == \A s : PathOf(s) = FlattenSeq(Steps(Names(s)))
  BY DEF PathOf, Steps, Step

LEMMA PathOfConcat ==
    ASSUME NEW C, "/" \in C, NEW a \in Seq(C), NEW b \in Seq(C)
    PROVE  PathOf(a \o <<"/">> \o b) = PathOf(a) \o PathOf(b)
  <1> DEFINE S == Seq(C)
  <1>1. Names(a) \in Seq(S) /\ Names(b) \in Seq(S)
    BY PiecesRows DEF Names
  <1>2. Names(a \o <<"/">> \o b) = Names(a) \o Names(b)
    BY PiecesConcat DEF Names
  <1>3. /\ Steps(Names(a)) \in Seq(Seq(S)) /\ Steps(Names(b)) \in Seq(Seq(S))
        /\ Steps(Names(a) \o Names(b)) = Steps(Names(a)) \o Steps(Names(b))
    <2> HIDE DEF S
    <2> QED BY <1>1, StepsFacts
  <1>4. FlattenSeq(Steps(Names(a)) \o Steps(Names(b)))
           = FlattenSeq(Steps(Names(a))) \o FlattenSeq(Steps(Names(b)))
    BY <1>3, FlattenConcat
  <1> QED BY <1>2, <1>3, <1>4, PathOfIs

LEMMA PathOfType ==
    ASSUME NEW C, NEW s \in Seq(C)
    PROVE  PathOf(s) \in Seq(Seq(C))
  <1> DEFINE S == Seq(C)
  <1>1. Names(s) \in Seq(S)
    BY PiecesRows DEF Names
  <1>2. Steps(Names(s)) \in Seq(Seq(S))
    BY <1>1, StepsFacts
  <1>3. FlattenSeq(Steps(Names(s))) \in Seq(S)
    BY <1>2, FlattenType
  <1> QED BY <1>3, PathOfIs

\* One name without a slash.
LEMMA PathOfName ==
    ASSUME NEW C, NEW x \in Seq(C), ~Has(x, "/")
    PROVE  PathOf(x) = Step(x)
  <1>1. Names(x) = <<x>>
    BY PiecesWhole DEF Names
  <1>2. Steps(<<x>>) = <<Step(x)>>
    BY DEF Steps
  <1>3. Step(x) \in Seq(Seq(C))
    BY DEF Step
  <1>4. FlattenSeq(<<Step(x)>>) = Step(x)
    BY <1>3, FlattenSingle
  <1> QED BY <1>1, <1>2, <1>4, PathOfIs

LEMMA PathOfEmpty == PathOf(<<>>) = <<>>
  <1>1. <<>> \in Seq({}) /\ ~Has(<<>>, "/")
    BY DEF Has
  <1>2. PathOf(<<>>) = Step(<<>>)
    BY <1>1, PathOfName
  <1> QED BY <1>2 DEF Step

\* The names a path is made of.
Proper(C) == {x \in Seq(C) : x \notin {<<>>, Dot} /\ ~Has(x, "/")}

LEMMA FlatLonger ==
    ASSUME NEW C, "/" \in C, NEW n \in Seq(Seq(C)), NEW x \in Seq(C)
    PROVE  Flat(Append(n, x)) = IF n = <<>> THEN x ELSE Flat(n) \o (<<"/">> \o x)
  <1> DEFINE S == Seq(C)
             Cut(m) == [i \in DOMAIN m |-> IF i = 1 THEN m[i] ELSE <<"/">> \o m[i]]
  <1>1. Append(n, x) # <<>> /\ Append(n, x) \in Seq(S)
    OBVIOUS
  <1>2. \A m : m # <<>> => Flat(m) = FlattenSeq(Cut(m))
    BY DEF Flat
  <1>3. CASE n = <<>>
    <2>1. Cut(Append(n, x)) = <<x>>
      BY <1>3
    <2> HIDE DEF Cut
    <2>2. Flat(Append(n, x)) = FlattenSeq(<<x>>)
      BY <1>1, <1>2, <2>1
    <2> QED BY <1>3, <2>2, FlattenSingle
  <1>4. CASE n # <<>>
    <2> DEFINE y == <<"/">> \o x
    <2>1. y \in S
      OBVIOUS
    <2>2. Cut(n) \in Seq(S)
      <3>1. ASSUME NEW i \in 1..Len(n)
            PROVE  n[i] \in S /\ <<"/">> \o n[i] \in S
        OBVIOUS
      <3>2. Len(n) \in Nat /\ DOMAIN n = 1..Len(n)
        OBVIOUS
      <3>3. Cut(n) \in [1..Len(n) -> S]
        <4> HIDE DEF S
        <4> QED BY <3>1, <3>2
      <3> HIDE DEF S, Cut
      <3> QED BY <3>2, <3>3, FunctionIsSequence, Zenon
    <2>3. Cut(Append(n, x)) = Append(Cut(n), y)
      BY <1>4
    <2> HIDE DEF Cut, y
    <2>4. FlattenSeq(Append(Cut(n), y)) = FlattenSeq(Cut(n)) \o y
      BY <2>1, <2>2, FlattenAppend
    <2> QED BY <1>1, <1>2, <1>4, <2>3, <2>4 DEF y
  <1> QED BY <1>3, <1>4

\* The text of a path names the path.
LEMMA PathOfFlat ==
    ASSUME NEW C, "/" \in C, "." \in C, NEW n \in Seq(Proper(C))
    PROVE  Flat(n) \in Seq(C) /\ PathOf(Flat(n)) = n
  <1> DEFINE P == Proper(C)
             T == {m \in Seq(P) : Flat(m) \in Seq(C) /\ PathOf(Flat(m)) = m}
  <1>0. \A x \in P : x \in Seq(C) /\ x \notin {<<>>, Dot} /\ ~Has(x, "/")
    BY DEF Proper
  <1>1. <<>> \in T
    <2>1. Flat(<<>>) = Dot /\ Dot \in Seq(C)
      BY DEF Flat, Dot
    <2>2. ~Has(Dot, "/")
      BY DEF Has, Dot
    <2>3. PathOf(Dot) = Step(Dot)
      BY <2>1, <2>2, PathOfName
    <2>4. <<>> \in Seq(P)
      OBVIOUS
    <2> QED BY <2>1, <2>3, <2>4 DEF Step
  <1>2. ASSUME NEW x \in P, NEW m \in Seq(P), m \in T
        PROVE  Append(m, x) \in T
    <2>1. m \in Seq(Seq(C)) /\ x \in Seq(C) /\ ~Has(x, "/") /\ Step(x) = <<x>>
      BY <1>0 DEF Step
    <2>2. Flat(Append(m, x)) = IF m = <<>> THEN x ELSE Flat(m) \o (<<"/">> \o x)
      BY <2>1, FlatLonger
    <2>3. Flat(m) \in Seq(C) /\ PathOf(Flat(m)) = m
      BY <1>2
    <2>4. PathOf(x) = <<x>>
      BY <2>1, PathOfName
    <2>5. PathOf(Flat(m) \o <<"/">> \o x) = m \o <<x>>
      BY <2>1, <2>3, <2>4, PathOfConcat
    <2>6. Flat(m) \o (<<"/">> \o x) = Flat(m) \o <<"/">> \o x /\ Flat(m) \o (<<"/">> \o x) \in Seq(C)
      BY <2>1, <2>3
    <2>7. Append(m, x) = m \o <<x>> /\ Append(m, x) \in Seq(P) /\ (m = <<>> => Append(m, x) = <<x>>)
      <3> HIDE DEF P
      <3>1. Append(m, x) \in Seq(P)
        OBVIOUS
      <3>2. Append(m, x) = m \o <<x>>
        OBVIOUS
      <3>3. m = <<>> => Append(m, x) = <<x>>
        OBVIOUS
      <3> QED BY <3>1, <3>2, <3>3
    <2>8. Flat(Append(m, x)) \in Seq(C) /\ PathOf(Flat(Append(m, x))) = Append(m, x)
      BY <2>1, <2>2, <2>4, <2>5, <2>6, <2>7
    <2> QED BY <2>7, <2>8
  <1> HIDE DEF T
  <1>3. n \in T
    BY <1>1, <1>2, ByLast
  <1> QED BY <1>3 DEF T

----------------------------------------------------------------------------
(* Where a root lands. *)

LEMMA NodesAreProper ==
    ASSUME NEW n \in Nodes
    PROVE  n \in Seq(Proper(Characters)) /\ n \in Seq(Seq(Characters))
  <1>1. n \in Seq(Seq(Characters))
    BY SplitAssumption
  <1>2. \A i \in 1..Len(n) : n[i] \in Proper(Characters)
    BY <1>1, SplitAssumption DEF Proper, Dot
  <1>3. n \in [1..Len(n) -> Proper(Characters)] /\ Len(n) \in Nat
    BY <1>1, <1>2
  <1> QED BY <1>1, <1>3, FunctionIsSequence, Zenon

LEMMA FrontAndLast ==
    ASSUME NEW C, NEW s \in Seq(C), s # <<>>
    PROVE  Front(s) \in Seq(C) /\ Last(s) \in C /\ Front(s) \o <<Last(s)>> = s
           /\ (Len(s) = 1 => Front(s) = <<>>)
  <1>1. Len(s) \in Nat /\ Len(s) >= 1
    OBVIOUS
  <1>2. Front(s) = SubSeq(s, 1, Len(s) - 1) /\ Last(s) = s[Len(s)]
    BY DEF Front, Last
  <1>3. Front(s) \in Seq(C) /\ Last(s) \in C
    BY <1>1, <1>2
  <1>4. Front(s) \o <<Last(s)>> = s
    BY <1>1, <1>2
  <1>5. Len(s) = 1 => Front(s) = <<>>
    BY <1>2
  <1> QED BY <1>3, <1>4, <1>5

\* The operand with its suffix names the parent of the root.
LEMMA OperandNamesParent ==
    ASSUME NEW root \in Nodes, base \in Operands
    PROVE  /\ root = <<>> => PathOf(Operand(root)) = PathOf(base)
           /\ root # <<>> => PathOf(Operand(root)) = PathOf(base) \o Front(root)
  <1> DEFINE C == Characters
  <1>1. base \in Seq(C) /\ "/" \in C /\ "." \in C /\ <<>> \in Seq(C)
    BY SplitAssumption
  <1>2. PathOf(base) \in Seq(Seq(C))
    BY <1>1, PathOfType
  <1>3. \A a, b \in Seq(C) : PathOf(a \o <<"/">> \o b) = PathOf(a) \o PathOf(b)
    BY <1>1, PathOfConcat
  <1>4. CASE root = <<>>
    BY <1>1, <1>4 DEF Operand, TargetSuffix
  <1>5. CASE root # <<>> /\ Len(root) = 1
    <2>1. TargetSuffix(root) = <<"/">> /\ Front(root) = <<>>
      BY <1>5, NodesAreProper, FrontAndLast DEF TargetSuffix
    <2>2. PathOf(base \o <<"/">> \o <<>>) = PathOf(base) \o <<>>
      BY <1>1, <1>3, PathOfEmpty
    <2>3. base \o <<"/">> \o <<>> = base \o <<"/">>
      BY <1>1
    <2> QED BY <1>5, <2>1, <2>2, <2>3 DEF Operand
  <1>6. CASE root # <<>> /\ Len(root) # 1
    <2> DEFINE front == Front(root)
               text == Flat(front)
    <2>1. front \in Seq(Proper(C)) /\ front \in Seq(Seq(C))
      BY <1>6, NodesAreProper, FrontAndLast
    <2>2. text \in Seq(C) /\ PathOf(text) = front
      <3> HIDE DEF front
      <3> QED BY <1>1, <2>1, PathOfFlat
    <2>3. Operand(root) = base \o (<<"/">> \o text \o <<"/">>)
      BY <1>6 DEF Operand, TargetSuffix
    <2> HIDE DEF text, front
    <2>4. base \o (<<"/">> \o text \o <<"/">>) = (base \o <<"/">> \o text) \o <<"/">> \o <<>>
      BY <1>1, <2>2
    <2>5. base \o <<"/">> \o text \in Seq(C)
      BY <1>1, <2>2
    <2>6. PathOf((base \o <<"/">> \o text) \o <<"/">> \o <<>>) = PathOf(base \o <<"/">> \o text) \o <<>>
      BY <1>1, <1>3, <2>5, PathOfEmpty
    <2>7. PathOf(base \o <<"/">> \o text) = PathOf(base) \o front
      BY <1>1, <1>3, <2>2
    <2>8. (PathOf(base) \o front) \o <<>> = PathOf(base) \o front
      BY <1>2, <2>1
    <2>9. PathOf(Operand(root)) = PathOf(base) \o front
      BY <2>3, <2>4, <2>6, <2>7, <2>8
    <2> QED BY <1>6, <2>9 DEF front
  <1> QED BY <1>4, <1>5, <1>6

LEMMA SlashMeansBelow ==
    ASSUME NEW s, Last(s) = "/"
    PROVE  IntentOf(s) # "exact_or_existing"
  BY DEF IntentOf

LEMMA SuffixEndsInSlash ==
    ASSUME NEW root \in Nodes, base \in Operands, root # <<>>
    PROVE  Last(Operand(root)) = "/"
  <1> DEFINE C == Characters
  <1>1. base \in Seq(C) /\ "/" \in C /\ "." \in C
    BY SplitAssumption
  <1>2. \A a \in Seq(C) : Last(a \o <<"/">>) = "/"
    BY <1>1 DEF Last
  <1>3. CASE Len(root) = 1
    BY <1>1, <1>2, <1>3 DEF Operand, TargetSuffix
  <1>4. CASE Len(root) # 1
    <2> DEFINE text == Flat(Front(root))
    <2>1. text \in Seq(C)
      <3>1. Front(root) \in Seq(Proper(C))
        BY NodesAreProper, FrontAndLast
      <3> QED BY <1>1, <3>1, PathOfFlat
    <2>2. Operand(root) = base \o (<<"/">> \o text \o <<"/">>)
      BY <1>4 DEF Operand, TargetSuffix
    <2> HIDE DEF text
    <2>3. base \o (<<"/">> \o text \o <<"/">>) = (base \o <<"/">> \o text) \o <<"/">>
      BY <1>1, <2>1
    <2>4. base \o <<"/">> \o text \in Seq(C)
      BY <1>1, <2>1
    <2> QED BY <1>2, <2>2, <2>3, <2>4
  <1> QED BY <1>3, <1>4

LEMMA Lands ==
    ASSUME NEW root \in Nodes, base \in Operands
    PROVE  /\ root = <<>> => Landing(root) \in {PathOf(base), Append(PathOf(base), SourceName)}
           /\ root # <<>> => Landing(root) = PathOf(base) \o root
  <1> DEFINE C == Characters
  <1>1. PathOf(base) \in Seq(Seq(C))
    BY SplitAssumption, PathOfType
  <1>2. CASE root = <<>>
    BY <1>2, OperandNamesParent DEF Landing
  <1>3. CASE root # <<>>
    <2> DEFINE dir == PathOf(Operand(root))
    <2>1. dir = PathOf(base) \o Front(root)
      BY <1>3, OperandNamesParent
    <2>2. ResolveDestination(Request(root), RemoteState(dir)) = "directory_target"
      <3>1. Request(root).intent # "exact_or_existing"
        BY <1>3, SuffixEndsInSlash, SlashMeansBelow DEF Request
      <3> QED BY <3>1 DEF ResolveDestination
    <2>3. Landing(root) = Append(dir, Last(root))
      BY <1>3, <2>2 DEF Landing
    <2>4. root \in Seq(Seq(C)) /\ Front(root) \in Seq(Seq(C)) /\ Last(root) \in Seq(C)
          /\ Front(root) \o <<Last(root)>> = root
      BY <1>3, NodesAreProper, FrontAndLast
    <2>5. Append(PathOf(base) \o Front(root), Last(root)) = PathOf(base) \o (Front(root) \o <<Last(root)>>)
      <3>1. \A a, b \in Seq(Seq(C)), x \in Seq(C) : Append(a \o b, x) = a \o (b \o <<x>>)
        <4> DEFINE S == Seq(C)
        <4> HIDE DEF S
        <4>1. \A a, b \in Seq(S), x \in S : Append(a \o b, x) = a \o (b \o <<x>>)
          OBVIOUS
        <4> QED BY <4>1 DEF S
      <3> QED BY <1>1, <2>4, <3>1
    <2> HIDE DEF dir
    <2> QED BY <1>3, <2>1, <2>3, <2>4, <2>5
  <1> QED BY <1>2, <1>3

LEMMA Below2 ==
    ASSUME NEW C, NEW n \in Seq(C), NEW root \in Seq(C), Below(n, root)
    PROVE  Drop(n, Len(root)) \in Seq(C) /\ root \o Drop(n, Len(root)) = n
  <1>1. Len(root) <= Len(n) /\ root = SubSeq(n, 1, Len(root))
    BY DEF Below, IsPrefix
  <1>2. Drop(n, Len(root)) \in Seq(C) /\ Drop(n, Len(root)) = SubSeq(n, Len(root) + 1, Len(n))
    BY <1>1 DEF Drop
  <1>3. ASSUME NEW k \in 0..Len(n)
        PROVE  SubSeq(n, 1, k) \o SubSeq(n, k + 1, Len(n)) = n
    <2> DEFINE a == SubSeq(n, 1, k)
               b == SubSeq(n, k + 1, Len(n))
    <2>1. a \in Seq(C) /\ Len(a) = k /\ \A i \in 1..k : a[i] = n[i]
      OBVIOUS
    <2>2. b \in Seq(C) /\ Len(b) = Len(n) - k /\ \A i \in 1..Len(n) - k : b[i] = n[k + i]
      OBVIOUS
    <2> HIDE DEF a, b
    <2>3. a \o b \in Seq(C) /\ Len(a \o b) = Len(n)
          /\ \A i \in 1..Len(n) : (a \o b)[i] = IF i <= k THEN a[i] ELSE b[i - k]
      <3>1. /\ a \o b \in Seq(C) /\ Len(a \o b) = Len(a) + Len(b)
            /\ \A i \in 1..Len(a) + Len(b) : (a \o b)[i] = IF i <= Len(a) THEN a[i] ELSE b[i - Len(a)]
        BY <2>1, <2>2, ConcatProperties, Zenon
      <3> QED BY <2>1, <2>2, <3>1
    <2>4. \A i \in 1..Len(n) : (a \o b)[i] = n[i]
      BY <2>1, <2>2, <2>3
    <2>5. a \o b = n
      BY <2>3, <2>4, SeqEqual
    <2> QED BY <2>5 DEF a, b
  <1>4. Len(root) \in 0..Len(n)
    BY <1>1
  <1> QED BY <1>1, <1>2, <1>3, <1>4

\* What a sync of a root adds to the destination lies where it should.
LEMMA TransferredLies ==
    ASSUME base \in Operands, tree \subseteq Nodes, NEW root \in Nodes, NEW e \in Transferred(root)
    PROVE  \/ e.at = PathOf(base) \o e.from
           \/ root = <<>> /\ e.at = PathOf(base) \o <<SourceName>> \o e.from
  <1> DEFINE C == Characters
  <1>1. PICK n \in tree : Below(n, root) /\ e = [at |-> Landing(root) \o Drop(n, Len(root)), from |-> n]
    BY DEF Transferred, Entries
  <1>2. e.at = Landing(root) \o Drop(n, Len(root)) /\ e.from = n
    BY <1>1
  <1>3. n \in Seq(Seq(C)) /\ root \in Seq(Seq(C)) /\ PathOf(base) \in Seq(Seq(C)) /\ SourceName \in Seq(C)
    BY SplitAssumption, PathOfType, NodesAreProper
  <1>4. Drop(n, Len(root)) \in Seq(Seq(C)) /\ root \o Drop(n, Len(root)) = n
    BY <1>1, <1>3, Below2
  <1>5. CASE root = <<>>
    <2>1. Drop(n, Len(root)) = n
      BY <1>3, <1>4, <1>5
    <2>2. Append(PathOf(base), SourceName) \o n = PathOf(base) \o <<SourceName>> \o n
      BY <1>3
    <2> QED BY <1>2, <1>5, <2>1, <2>2, Lands
  <1>6. CASE root # <<>>
    <2>1. (PathOf(base) \o root) \o Drop(n, Len(root)) = PathOf(base) \o (root \o Drop(n, Len(root)))
      <3>1. \A a, b, c \in Seq(Seq(C)) : (a \o b) \o c = a \o (b \o c)
        BY ConcatAssociates
      <3> QED BY <1>3, <1>4, <3>1
    <2>2. Landing(root) = PathOf(base) \o root
      BY <1>6, Lands
    <2> QED BY <1>2, <1>4, <2>1, <2>2
  <1> QED BY <1>5, <1>6

----------------------------------------------------------------------------
(* The roots, and the destination they are moved to. *)

\* The pattern "." selects the source.
LEMMA DotSelectsSource == IsMatch(Dot, <<>>)
  <1>1. Len(Dot) = 1 /\ Dot # <<>> /\ Head(Dot) = "." /\ Last(Dot) = "." /\ Dot[1] = "."
    BY DEF Dot, Last
  <1>2. ~Anchored(Dot) /\ ~DirOnly(Dot) /\ Bare(Dot) = Dot
    BY <1>1 DEF Anchored, DirOnly, Bare
  <1>3. ~Has(Dot, "/") /\ ~Has(Dot, "**")
    BY DEF Dot, Has
  <1>4. "." \in Class(".")
    BY SplitAssumption DEF Class
  <1>5. 0 \in Globs(Dot, Dot)
    <2>1. Dot = Cons(".", <<>>) /\ <<>> \in Seq({"."}) /\ "." \in {"."} /\ Len(Dot) \in Nat
      BY <1>1 DEF Cons, Dot
    <2>2. Globs(<<>>, Dot) = {Len(Dot)}
      BY <2>1, <1>1, GlobsEmpty
    <2>3. Globs(Cons(".", <<>>), Dot) = GlobsStep(Cons(".", <<>>), Dot, 1, Globs(<<>>, Dot))
      BY <2>1, GlobsCons
    <2>4. Globs(Dot, Dot) = Taken(".", Dot, {1})
      BY <1>1, <2>1, <2>2, <2>3 DEF GlobsStep
    <2> QED BY <1>1, <1>4, <2>4 DEF Taken
  <1> QED BY <1>2, <1>3, <1>5 DEF IsMatch, GlobMatch, Components

----------------------------------------------------------------------------
(* The form of a plain pattern. *)

\* A plain pattern, or what is left of one at its ends.
WellMade(q) ==
    /\ q \in Seq(Tokens)
    /\ \A i \in 1..Len(q) - 1 : q[i] = "*" => q[i + 1] \notin {"*", "**"}
    /\ \A i \in 1..Len(q) - 1 : q[i] = "/" => q[i + 1] # "/"
    /\ \A i, j \in 1..Len(q) : q[i] = "**" /\ q[j] = "**" => i = j
    /\ \A i \in 1..Len(q) : q[i] = "**" =>
           /\ i > 1 => q[i - 1] = "/"
           /\ i < Len(q) => q[i + 1] = "/"
           /\ \A j \in 1..i - 1 : q[j] = "*" => q[j + 1] # "/"

LEMMA AtMostOne ==
    ASSUME NEW S, IsFiniteSet(S), Cardinality(S) <= 1, NEW i \in S, NEW j \in S
    PROVE  i = j
  <1> SUFFICES ASSUME i # j PROVE FALSE
    OBVIOUS
  <1>1. IsFiniteSet({i}) /\ Cardinality({i}) = 1
    BY FS_Singleton
  <1>2. Cardinality({i} \cup {j}) = 2
    BY <1>1, FS_AddElement
  <1>3. {i} \cup {j} \in SUBSET S
    OBVIOUS
  <1>4. Cardinality({i} \cup {j}) <= Cardinality(S)
    BY <1>3, FS_Subset
  <1>5. Cardinality(S) \in Nat
    BY FS_CardinalityType
  <1> QED BY <1>2, <1>4, <1>5

LEMMA PlainIsWellMade ==
    ASSUME NEW p \in Patterns, Plain(p)
    PROVE  WellMade(p)
  <1>1. p \in Seq(Tokens) /\ \A i \in 1..Len(p) - 1 : p[i] = "*" => p[i + 1] \notin {"*", "**"}
    BY SplitAssumption
  <1>2. DOMAIN p = 1..Len(p) /\ Len(p) \in Nat
    BY <1>1
  <1>3. ASSUME NEW i \in 1..Len(p), NEW j \in 1..Len(p), p[i] = "**", p[j] = "**"
        PROVE  i = j
    <2> DEFINE S == {m \in DOMAIN p : p[m] = "**"}
    <2>1. IsFiniteSet(1..Len(p))
      BY <1>2, FS_Interval
    <2>2. S \in SUBSET (1..Len(p)) /\ i \in S /\ j \in S
      BY <1>2, <1>3
    <2>3. Cardinality(S) <= 1
      BY DEF Plain
    <2> HIDE DEF S
    <2>4. IsFiniteSet(S)
      BY <2>1, <2>2, FS_Subset
    <2> QED BY <2>2, <2>3, <2>4, AtMostOne
  <1>4. \A i \in DOMAIN p : p[i] = "**" =>
           /\ i > 1 => p[i - 1] = "/"
           /\ i < Len(p) => p[i + 1] = "/"
           /\ \A j \in 1..i - 1 : p[j] = "*" => p[j + 1] # "/"
    BY DEF Plain
  <1>5. \A i \in 1..Len(p) - 1 : p[i] = "/" => p[i + 1] # "/"
    BY DEF Plain
  <1> QED BY <1>1, <1>2, <1>3, <1>4, <1>5 DEF WellMade

\* A stretch of a pattern that leaves out a slash at either end at most.
LEMMA StretchIsWellMade ==
    ASSUME NEW p, WellMade(p), NEW q \in Seq(Tokens), NEW o \in Nat, o + Len(q) <= Len(p),
           \A i \in 1..Len(q) : q[i] = p[i + o]
    PROVE  WellMade(q)
  <1>1. Len(q) \in Nat /\ Len(p) \in Nat
    BY DEF WellMade
  <1>2. \A i \in 1..Len(q) : i + o \in 1..Len(p) /\ i + o \in Nat
    BY <1>1
  <1>3. \A i \in 1..Len(q) - 1 : i \in 1..Len(q) /\ i + 1 \in 1..Len(q) /\ i + o \in 1..Len(p) - 1 /\ (i + 1) + o = (i + o) + 1
    BY <1>1
  <1>4. \A i \in 1..Len(q) - 1 : q[i] = p[i + o] /\ q[i + 1] = p[(i + o) + 1]
    BY <1>3
  <1>5. \A i \in 1..Len(q) - 1 : q[i] = "*" => q[i + 1] \notin {"*", "**"}
    BY <1>3, <1>4 DEF WellMade
  <1>6. \A i \in 1..Len(q) - 1 : q[i] = "/" => q[i + 1] # "/"
    BY <1>3, <1>4 DEF WellMade
  <1>7. ASSUME NEW i \in 1..Len(q), NEW j \in 1..Len(q), q[i] = "**", q[j] = "**"
        PROVE  i = j
    <2>1. p[i + o] = "**" /\ p[j + o] = "**"
      BY <1>7
    <2>2. i + o = j + o
      BY <1>2, <2>1 DEF WellMade
    <2> QED BY <2>2
  <1>8. ASSUME NEW i \in 1..Len(q), q[i] = "**"
        PROVE  /\ i > 1 => q[i - 1] = "/"
               /\ i < Len(q) => q[i + 1] = "/"
               /\ \A j \in 1..i - 1 : q[j] = "*" => q[j + 1] # "/"
    <2>1. /\ i + o > 1 => p[(i + o) - 1] = "/"
          /\ i + o < Len(p) => p[(i + o) + 1] = "/"
          /\ \A j \in 1..(i + o) - 1 : p[j] = "*" => p[j + 1] # "/"
      BY <1>2, <1>8 DEF WellMade
    <2>2. i > 1 => q[i - 1] = "/"
      <3>1. i > 1 => i - 1 \in 1..Len(q) /\ (i - 1) + o = (i + o) - 1 /\ i + o > 1
        BY <1>1
      <3> QED BY <2>1, <3>1
    <2>3. i < Len(q) => q[i + 1] = "/"
      <3>1. i < Len(q) => i \in 1..Len(q) - 1 /\ i + o < Len(p)
        BY <1>1
      <3> QED BY <1>4, <2>1, <3>1
    <2>4. ASSUME NEW j \in 1..i - 1, q[j] = "*"
          PROVE  q[j + 1] # "/"
      <3>1. j \in 1..Len(q) - 1 /\ j + o \in 1..(i + o) - 1
        BY <1>1
      <3> QED BY <1>4, <2>1, <2>4, <3>1
    <2> QED BY <2>2, <2>3, <2>4
  <1> QED BY <1>5, <1>6, <1>7, <1>8 DEF WellMade

\* What is_match takes the pattern for.
LEMMA BareIsWellMade ==
    ASSUME NEW p \in Patterns, Plain(p)
    PROVE  /\ WellMade(Bare(p))
           /\ Bare(p) # <<>> => Bare(p)[1] # "/" /\ Bare(p)[Len(Bare(p))] # "/"
  <1> DEFINE o == IF Anchored(p) THEN 1 ELSE 0
             q == IF Anchored(p) THEN Tail(p) ELSE p
             b == IF DirOnly(p) THEN Front(q) ELSE q
  <1>1. WellMade(p) /\ p \in Seq(Tokens) /\ Len(p) \in Nat /\ o \in Nat
    BY PlainIsWellMade DEF WellMade
  <1>2. q \in Seq(Tokens) /\ o + Len(q) = Len(p) /\ \A i \in 1..Len(q) : q[i] = p[i + o]
    BY <1>1 DEF Anchored
  <1>3. Bare(p) = b /\ (DirOnly(p) <=> q # <<>> /\ Last(q) = "/")
    BY DEF Bare, DirOnly
  <1>4. q # <<>> => q[1] # "/"
    <2> SUFFICES ASSUME q # <<>> PROVE q[1] # "/"
      OBVIOUS
    <2>1. CASE Anchored(p)
      <3>1. p[1] = "/" /\ 1 \in 1..Len(p) - 1 /\ q[1] = p[1 + 1]
        BY <1>1, <1>2, <2>1 DEF Anchored
      <3> QED BY <1>1, <3>1 DEF WellMade
    <2>2. CASE ~Anchored(p)
      BY <1>1, <2>2 DEF Anchored
    <2> QED BY <2>1, <2>2
  <1> HIDE DEF q, o
  <1>5. CASE ~DirOnly(p)
    <2>1. b = q
      BY <1>5
    <2>2. q # <<>> => q[Len(q)] # "/"
      BY <1>3, <1>5 DEF Last
    <2>3. WellMade(q)
      BY <1>1, <1>2, StretchIsWellMade
    <2> QED BY <1>3, <1>4, <2>1, <2>2, <2>3
  <1>6. CASE DirOnly(p)
    <2>1. q # <<>> /\ q[Len(q)] = "/" /\ b = Front(q)
      BY <1>3, <1>6 DEF Last
    <2>2. Len(q) \in Nat /\ Len(q) >= 1 /\ Front(q) = SubSeq(q, 1, Len(q) - 1)
      BY <1>2, <2>1 DEF Front
    <2>3. b \in Seq(Tokens) /\ Len(b) = Len(q) - 1 /\ \A i \in 1..Len(b) : b[i] = q[i]
      <3>1. b = SubSeq(q, 1, Len(q) - 1)
        BY <2>1, <2>2
      <3> HIDE DEF b
      <3> DEFINE m == Len(q) - 1
      <3>2. m \in Nat /\ m <= Len(q) /\ b = SubSeq(q, 1, m)
        BY <2>2, <3>1
      <3> HIDE DEF m
      <3>3. b \in Seq(Tokens) /\ Len(b) = m /\ \A i \in 1..m : b[i] = q[i]
        BY <1>2, <3>2
      <3> QED BY <3>3 DEF m
    <2> HIDE DEF b
    <2>4. o + Len(b) <= Len(p) /\ \A i \in 1..Len(b) : b[i] = p[i + o]
      BY <1>1, <1>2, <2>2, <2>3
    <2>5. WellMade(b)
      BY <1>1, <2>3, <2>4, StretchIsWellMade
    <2>6. WellMade(q)
      BY <1>1, <1>2, StretchIsWellMade
    <2>7. b # <<>> => b[1] # "/" /\ b[Len(b)] # "/"
      <3> SUFFICES ASSUME b # <<>> PROVE b[1] # "/" /\ b[Len(b)] # "/"
        OBVIOUS
      <3>1. Len(b) \in 1..Len(q) - 1 /\ 1 \in 1..Len(b) /\ Len(b) + 1 = Len(q)
        BY <2>2, <2>3
      <3>2. b[1] = q[1] /\ b[Len(b)] = q[Len(b)]
        BY <2>3, <3>1
      <3>3. q[Len(b)] = "/" => q[Len(b) + 1] # "/"
        BY <2>6, <3>1 DEF WellMade
      <3> QED BY <1>4, <2>1, <3>1, <3>2, <3>3
    <2> QED BY <1>3, <2>5, <2>7
  <1> QED BY <1>5, <1>6

LEMMA StretchFacts ==
    ASSUME NEW C, NEW q \in Seq(C), NEW a \in 1..Len(q) + 1, NEW b \in a - 1..Len(q)
    PROVE  /\ SubSeq(q, a, b) \in Seq(C) /\ Len(SubSeq(q, a, b)) = b - a + 1
           /\ \A i \in 1..b - a + 1 : SubSeq(q, a, b)[i] = q[i + (a - 1)]
           /\ \A D : (\A i \in a..b : q[i] \in D) => SubSeq(q, a, b) \in Seq(D)
  <1> DEFINE s == SubSeq(q, a, b)
             k == b - a + 1
  <1>1. k \in Nat /\ Len(q) \in Nat /\ a \in Nat /\ b \in Nat
    OBVIOUS
  <1>2. s \in Seq(C) /\ Len(s) = k /\ \A i \in 1..k : s[i] = q[i + (a - 1)]
    OBVIOUS
  <1>3. ASSUME NEW D, \A i \in a..b : q[i] \in D
        PROVE  s \in Seq(D)
    <2>1. \A i \in 1..k : i + (a - 1) \in a..b
      BY <1>1
    <2> HIDE DEF s, k
    <2>2. s \in [1..k -> D]
      BY <1>2, <1>3, <2>1
    <2> QED BY <1>1, <2>2, FunctionIsSequence, Zenon
  <1> QED BY <1>2, <1>3

LEMMA StretchesJoin ==
    ASSUME NEW C, NEW q \in Seq(C), NEW a \in 1..Len(q) + 1, NEW b \in a - 1..Len(q), NEW c \in b..Len(q)
    PROVE  SubSeq(q, a, b) \o SubSeq(q, b + 1, c) = SubSeq(q, a, c)
  <1> DEFINE u == SubSeq(q, a, b)
             v == SubSeq(q, b + 1, c)
             w == SubSeq(q, a, c)
  <1>0. a \in Nat /\ b \in Nat /\ c \in Nat /\ b + 1 \in 1..Len(q) + 1 /\ c \in b + 1 - 1..Len(q) /\ c \in a - 1..Len(q)
    OBVIOUS
  <1>1. u \in Seq(C) /\ Len(u) = b - a + 1 /\ \A i \in 1..b - a + 1 : u[i] = q[i + (a - 1)]
    BY StretchFacts
  <1>2. v \in Seq(C) /\ Len(v) = c - (b + 1) + 1 /\ \A i \in 1..c - (b + 1) + 1 : v[i] = q[i + (b + 1 - 1)]
    BY <1>0, StretchFacts
  <1>3. w \in Seq(C) /\ Len(w) = c - a + 1 /\ \A i \in 1..c - a + 1 : w[i] = q[i + (a - 1)]
    BY <1>0, StretchFacts
  <1> HIDE DEF u, v, w
  <1>4. /\ u \o v \in Seq(C) /\ Len(u \o v) = Len(u) + Len(v)
        /\ \A i \in 1..Len(u) + Len(v) : (u \o v)[i] = IF i <= Len(u) THEN u[i] ELSE v[i - Len(u)]
    BY <1>1, <1>2, ConcatProperties, Zenon
  <1>5. Len(u \o v) = Len(w)
    BY <1>0, <1>1, <1>2, <1>3, <1>4
  <1>6. ASSUME NEW i \in 1..Len(u \o v)
        PROVE  (u \o v)[i] = w[i]
    <2>1. i \in 1..Len(u) + Len(v) /\ i \in 1..c - a + 1
      BY <1>3, <1>4, <1>5, <1>6
    <2>2. CASE i <= Len(u)
      <3>1. i \in 1..b - a + 1
        BY <1>1, <2>1, <2>2
      <3> QED BY <1>1, <1>3, <1>4, <2>1, <2>2, <3>1
    <2>3. CASE ~(i <= Len(u))
      <3>1. i - Len(u) \in 1..c - (b + 1) + 1 /\ (i - Len(u)) + (b + 1 - 1) = i + (a - 1)
        BY <1>0, <1>1, <1>2, <2>1, <2>3
      <3> QED BY <1>2, <1>3, <1>4, <2>1, <2>3, <3>1
    <2> QED BY <2>2, <2>3
  <1>7. u \o v = w
    BY <1>3, <1>4, <1>5, <1>6, SeqEqual
  <1> QED BY <1>7 DEF u, v, w

LEMMA StretchOfOne ==
    ASSUME NEW C, NEW q \in Seq(C), NEW i \in 1..Len(q)
    PROVE  SubSeq(q, i, i) = <<q[i]>> /\ SubSeq(q, 1, Len(q)) = q
  <1>1. i \in 1..Len(q) + 1 /\ i \in i - 1..Len(q) /\ 1 \in 1..Len(q) + 1 /\ Len(q) \in 1 - 1..Len(q)
    OBVIOUS
  <1>2. SubSeq(q, i, i) = <<q[i]>>
    <2> DEFINE s == SubSeq(q, i, i)
    <2>1. s \in Seq(C) /\ Len(s) = i - i + 1 /\ \A j \in 1..i - i + 1 : s[j] = q[j + (i - 1)]
      BY <1>1, StretchFacts
    <2> HIDE DEF s
    <2>2. Len(s) = 1 /\ s[1] = q[i] /\ q[i] \in C
      BY <2>1
    <2>3. <<q[i]>> \in Seq(C) /\ Len(<<q[i]>>) = 1 /\ <<q[i]>>[1] = q[i]
      BY <2>2
    <2>4. \A j \in 1..Len(s) : s[j] = <<q[i]>>[j]
      BY <2>2, <2>3
    <2>5. s = <<q[i]>>
      BY <2>1, <2>2, <2>3, <2>4, SeqEqual
    <2> QED BY <2>5 DEF s
  <1>3. SubSeq(q, 1, Len(q)) = q
    <2> DEFINE s == SubSeq(q, 1, Len(q))
    <2>1. s \in Seq(C) /\ Len(s) = Len(q) - 1 + 1 /\ \A j \in 1..Len(q) - 1 + 1 : s[j] = q[j + (1 - 1)]
      BY <1>1, StretchFacts
    <2> HIDE DEF s
    <2>2. Len(s) = Len(q) /\ \A j \in 1..Len(s) : s[j] = q[j]
      BY <2>1
    <2>3. s = q
      BY <2>1, <2>2, SeqEqual
    <2> QED BY <2>3 DEF s
  <1> QED BY <1>2, <1>3

\* What is in front of a "**", and what is behind it and its slash.
Ahead(q, i) == SubSeq(q, 1, i - 1)
Behind(q, i) == SubSeq(q, i + 2, Len(q))

Shallow == Tokens \ {"**"}

LEMMA SplitAtStars ==
    ASSUME NEW q, WellMade(q), q[Len(q)] # "/", NEW i \in 1..Len(q), q[i] = "**"
    PROVE  /\ Ahead(q, i) \in Seq(Shallow) /\ Calm(Ahead(q, i))
           /\ i > 1 => SubSeq(q, 1, i - 2) \in Seq(Shallow) /\ Ahead(q, i) = SubSeq(q, 1, i - 2) \o <<"/">>
           /\ i = 1 => Ahead(q, i) = <<>>
           /\ i = Len(q) => q = Ahead(q, i) \o <<"**">>
           /\ i < Len(q) => /\ Behind(q, i) \in Seq(Shallow) \ {<<>>} /\ Separated(Behind(q, i))
                            /\ q = Ahead(q, i) \o <<"**">> \o (<<"/">> \o Behind(q, i))
           /\ Readings(q) = {q} \cup (IF i < Len(q) THEN {Ahead(q, i) \o Behind(q, i)} ELSE {})
  <1> DEFINE n == Len(q)
             x == Ahead(q, i)
             y == Behind(q, i)
             a == SubSeq(q, 1, i - 2)
  <1>1. q \in Seq(Tokens) /\ n \in Nat /\ i \in Nat
    BY DEF WellMade
  <1>2. \A j \in 1..n : (j # i => q[j] # "**") /\ q[j] \in Tokens
    BY <1>1 DEF WellMade
  <1>3. i - 1 \in 1 - 1..n /\ 1 \in 1..n + 1 /\ i \in i - 1..n /\ i \in 1..n + 1
    BY <1>1
  <1>4. x \in Seq(Shallow) /\ Len(x) = i - 1 /\ \A j \in 1..i - 1 : x[j] = q[j]
    <2>1. x \in Seq(Tokens) /\ Len(x) = (i - 1) - 1 + 1 /\ \A j \in 1..(i - 1) - 1 + 1 : x[j] = q[j + (1 - 1)]
      BY <1>1, <1>3, StretchFacts DEF Ahead
    <2>2. \A D : (\A j \in 1..i - 1 : q[j] \in D) => x \in Seq(D)
      BY <1>1, <1>3, StretchFacts DEF Ahead
    <2>3. \A j \in 1..i - 1 : q[j] \in Shallow
      BY <1>1, <1>2 DEF Shallow
    <2> HIDE DEF x
    <2> QED BY <1>1, <2>1, <2>2, <2>3
  <1>5. Calm(x)
    <2>1. \A j \in 1..i - 1 : q[j] = "*" => q[j + 1] # "/"
      BY DEF WellMade
    <2>2. \A j \in 1..n - 1 : q[j] = "*" => q[j + 1] \notin {"*", "**"}
      BY DEF WellMade
    <2>3. ASSUME NEW j \in 1..Len(x) - 1, x[j] = "*"
          PROVE  x[j + 1] \notin {"*", "/"}
      <3>1. j \in 1..i - 1 /\ j + 1 \in 1..i - 1 /\ j \in 1..n - 1
        BY <1>1, <1>4
      <3> HIDE DEF x
      <3> QED BY <1>4, <2>1, <2>2, <2>3, <3>1
    <2> QED BY <2>3 DEF Calm
  <1>6. i > 1 => a \in Seq(Shallow) /\ x = a \o <<"/">>
    <2> SUFFICES ASSUME i > 1 PROVE a \in Seq(Shallow) /\ x = a \o <<"/">>
      OBVIOUS
    <2>1. q[i - 1] = "/" /\ i - 1 \in 1..n
      BY <1>1 DEF WellMade
    <2>2. i - 2 \in 1 - 1..n /\ i - 1 \in i - 2..n /\ (i - 2) + 1 = i - 1
      BY <1>1
    <2>3. SubSeq(q, 1, i - 2) \o SubSeq(q, (i - 2) + 1, i - 1) = SubSeq(q, 1, i - 1)
      BY <1>1, <1>3, <2>2, StretchesJoin
    <2>4. SubSeq(q, i - 1, i - 1) = <<"/">>
      BY <1>1, <2>1, StretchOfOne
    <2>5. x = a \o <<"/">>
      BY <2>2, <2>3, <2>4 DEF Ahead
    <2>6. \A D : (\A j \in 1..i - 2 : q[j] \in D) => a \in Seq(D)
      BY <1>1, <1>3, <2>2, StretchFacts
    <2>7. \A j \in 1..i - 2 : q[j] \in Shallow
      BY <1>1, <1>2 DEF Shallow
    <2> HIDE DEF x, a
    <2> QED BY <2>5, <2>6, <2>7
  <1>7. i = 1 => x = <<>>
    BY <1>4
  <1>8. SubSeq(q, 1, i) = x \o <<"**">>
    <2>1. SubSeq(q, 1, i - 1) \o SubSeq(q, (i - 1) + 1, i) = SubSeq(q, 1, i)
      BY <1>1, <1>3, StretchesJoin
    <2>2. SubSeq(q, i, i) = <<"**">> /\ (i - 1) + 1 = i
      BY <1>1, StretchOfOne
    <2> QED BY <2>1, <2>2 DEF Ahead
  <1>9. i = n => q = x \o <<"**">>
    BY <1>1, <1>8, StretchOfOne
  <1>10. ASSUME i < n
         PROVE  /\ y \in Seq(Shallow) \ {<<>>} /\ Separated(y)
                /\ q = x \o <<"**">> \o (<<"/">> \o y)
    <2>1. q[i + 1] = "/" /\ i + 1 \in 1..n
      BY <1>1, <1>10 DEF WellMade
    <2>2. i + 1 < n
      BY <1>1, <1>10, <2>1
    <2>3. i + 2 \in 1..n + 1 /\ n \in i + 2 - 1..n
      BY <1>1, <2>2
    <2>4. Len(y) = n - (i + 2) + 1 /\ \A j \in 1..n - (i + 2) + 1 : y[j] = q[j + (i + 2 - 1)]
      BY <1>1, <2>3, StretchFacts DEF Behind
    <2>5. \A D : (\A j \in i + 2..n : q[j] \in D) => y \in Seq(D)
      BY <1>1, <2>3, StretchFacts DEF Behind
    <2>6. \A j \in i + 2..n : q[j] \in Shallow
      BY <1>1, <1>2 DEF Shallow
    <2>7. SubSeq(q, i + 1, i + 1) \o SubSeq(q, (i + 1) + 1, n) = SubSeq(q, i + 1, n)
      <3>1. i + 1 \in 1..n + 1 /\ i + 1 \in i + 1 - 1..n /\ n \in i + 1..n
        BY <1>1, <2>1, <2>2
      <3> QED BY <1>1, <3>1, StretchesJoin
    <2>8. SubSeq(q, 1, i) \o SubSeq(q, i + 1, n) = SubSeq(q, 1, n)
      <3>1. i \in 1 - 1..n /\ n \in i..n /\ 1 \in 1..n + 1
        BY <1>1, <2>2
      <3> QED BY <1>1, <3>1, StretchesJoin
    <2>9. SubSeq(q, i + 1, i + 1) = <<"/">> /\ (i + 1) + 1 = i + 2 /\ SubSeq(q, 1, n) = q
      BY <1>1, <2>1, StretchOfOne
    <2>10. q = x \o <<"**">> \o (<<"/">> \o y)
      BY <1>8, <2>7, <2>8, <2>9 DEF Behind
    <2> HIDE DEF x, y
    <2>11. y \in Seq(Shallow)
      BY <2>5, <2>6
    <2>12. y # <<>>
      BY <1>1, <2>2, <2>4
    <2>13. Separated(y)
      <3>1. ASSUME NEW j \in 1..Len(y) - 1, y[j] = "*"
            PROVE  y[j + 1] # "*"
        <4>1. /\ j \in 1..n - (i + 2) + 1 /\ j + 1 \in 1..n - (i + 2) + 1
              /\ j + (i + 2 - 1) \in 1..n - 1 /\ (j + 1) + (i + 2 - 1) = (j + (i + 2 - 1)) + 1
          BY <1>1, <2>4
        <4>2. y[j] = q[j + (i + 2 - 1)] /\ y[j + 1] = q[(j + (i + 2 - 1)) + 1]
          BY <2>4, <4>1
        <4> QED BY <3>1, <4>1, <4>2 DEF WellMade
      <3> QED BY <3>1 DEF Separated
    <2> QED BY <2>10, <2>11, <2>12, <2>13
  <1>11. Readings(q) = {q} \cup (IF i < n THEN {x \o y} ELSE {})
    <2>1. {j \in 1..n - 1 : q[j] = "**" /\ q[j + 1] = "/"} = IF i < n THEN {i} ELSE {}
      <3>1. i < n => q[i + 1] = "/" /\ i \in 1..n - 1
        BY <1>1 DEF WellMade
      <3>2. \A j \in 1..n - 1 : j \in 1..n /\ (q[j] = "**" => j = i) /\ (j = i => i < n)
        BY <1>1, <1>2
      <3> QED BY <3>1, <3>2
    <2> QED BY <2>1 DEF Readings, Ahead, Behind
  <1> QED BY <1>4, <1>5, <1>6, <1>7, <1>9, <1>10, <1>11

\* The loop over two parts: where the second matches, and both.
LastFits(y, s) ==
    IF y = <<>> THEN 0..Len(s) ELSE {k \in 0..Len(s) : SuffixStarts(s, k) \cap Globs(y, s) # {}}

LEMMA TwoParts ==
    ASSUME NEW C, NEW x \in Seq(C), NEW y \in Seq(C), NEW s, Len(s) \in Nat
    PROVE  PartsMatch(<<x, y>>, s) <=>
              IF x = <<>> THEN 0 \in LastFits(y, s) ELSE FirstMatch(x, s)[0] \cap LastFits(y, s) # {}
  <1> DEFINE parts == <<x, y>>
             rest == LastFits(y, s)
             Other(i, k, after) ==
                /\ {j \in k..Len(s) : j \in Globs(parts[i], s) /\ FirstMatch(parts[i], s)[j] # {}} # {}
                /\ FirstMatch(parts[i], s)[Min({j \in k..Len(s) : j \in Globs(parts[i], s) /\ FirstMatch(parts[i], s)[j] # {}})]
                      \cap after # {}
             IsRow(f) == f = [i \in 1..Len(parts) + 1 |->
                                 IF i > Len(parts) THEN 0..Len(s)
                                 ELSE IF parts[i] = <<>> THEN f[i + 1]
                                 ELSE {k \in 0..Len(s) :
                                          IF i = 1 THEN FirstMatch(parts[1], s)[0] \cap f[i + 1] # {}
                                          ELSE IF i = Len(parts)
                                               THEN SuffixStarts(s, k) \cap Globs(parts[i], s) # {}
                                          ELSE Other(i, k, f[i + 1])}]
             first == IF x = <<>> THEN rest ELSE {k \in 0..Len(s) : FirstMatch(x, s)[0] \cap rest # {}}
             rows == [i \in 1..3 |-> IF i = 1 THEN first ELSE IF i = 2 THEN rest ELSE 0..Len(s)]
  <1>1. Len(parts) = 2 /\ parts[1] = x /\ parts[2] = y
    OBVIOUS
  <1>2. PartsMatch(parts, s) = (0 \in (CHOOSE f : IsRow(f))[1])
    BY DEF PartsMatch
  <1>3. IsRow(rows)
    <2>1. rows[1] = first /\ rows[1 + 1] = rest /\ rows[2 + 1] = 0..Len(s)
      OBVIOUS
    <2>2. \A i \in 1..3 : (i > 2 <=> i = 3) /\ (~(i > 2) /\ i # 1 <=> i = 2)
      OBVIOUS
    <2>3. rows = [i \in 1..3 |-> rows[i]] /\ 2 + 1 = 3
      OBVIOUS
    <2>6. rest = IF y = <<>> THEN 0..Len(s) ELSE {k \in 0..Len(s) : SuffixStarts(s, k) \cap Globs(y, s) # {}}
      BY DEF LastFits
    <2>4. first = IF x = <<>> THEN rest ELSE {k \in 0..Len(s) : FirstMatch(x, s)[0] \cap rest # {}}
      OBVIOUS
    <2> HIDE DEF rows, parts, Other, first, rest
    <2>5. ASSUME NEW i \in 1..3
          PROVE  rows[i] = IF i > 2 THEN 0..Len(s)
                           ELSE IF parts[i] = <<>> THEN rows[i + 1]
                           ELSE {k \in 0..Len(s) :
                                    IF i = 1 THEN FirstMatch(parts[1], s)[0] \cap rows[i + 1] # {}
                                    ELSE IF i = 2 THEN SuffixStarts(s, k) \cap Globs(parts[i], s) # {}
                                    ELSE Other(i, k, rows[i + 1])}
      <3>1. CASE i = 1
        <4>1. rows[i] = first /\ parts[i] = x /\ parts[1] = x /\ rows[i + 1] = rest /\ ~(i > 2)
          BY <1>1, <2>1, <3>1
        <4>2. {k \in 0..Len(s) :
                  IF i = 1 THEN FirstMatch(parts[1], s)[0] \cap rows[i + 1] # {}
                  ELSE IF i = 2 THEN SuffixStarts(s, k) \cap Globs(parts[i], s) # {}
                  ELSE Other(i, k, rows[i + 1])}
              = {k \in 0..Len(s) : FirstMatch(x, s)[0] \cap rest # {}}
          BY <3>1, <4>1, Zenon
        <4> QED BY <2>4, <4>1, <4>2, Zenon
      <3>2. CASE i = 2
        BY <1>1, <2>1, <2>3, <2>6, <3>2
      <3>3. CASE i = 3
        BY <2>1, <2>3, <3>3
      <3> QED BY <3>1, <3>2, <3>3
    <2> QED BY <1>1, <2>3, <2>5
  <1>4. PICK f : IsRow(f) /\ PartsMatch(parts, s) = (0 \in f[1])
    <2> HIDE DEF IsRow
    <2> QED BY <1>2, <1>3
  <1> HIDE DEF Other, parts
  <1>5. f[3] = 0..Len(s) /\ f[2] = rest /\ f[1] = first
    <2>1. \A i \in 1..3 : f[i] = IF i > 2 THEN 0..Len(s)
                           ELSE IF parts[i] = <<>> THEN f[i + 1]
                           ELSE {k \in 0..Len(s) :
                                    IF i = 1 THEN FirstMatch(parts[1], s)[0] \cap f[i + 1] # {}
                                    ELSE IF i = 2 THEN SuffixStarts(s, k) \cap Globs(parts[i], s) # {}
                                    ELSE Other(i, k, f[i + 1])}
      <3>1. 2 + 1 = 3
        OBVIOUS
      <3>2. f = [i \in 1..3 |-> IF i > 2 THEN 0..Len(s)
                           ELSE IF parts[i] = <<>> THEN f[i + 1]
                           ELSE {k \in 0..Len(s) :
                                    IF i = 1 THEN FirstMatch(parts[1], s)[0] \cap f[i + 1] # {}
                                    ELSE IF i = 2 THEN SuffixStarts(s, k) \cap Globs(parts[i], s) # {}
                                    ELSE Other(i, k, f[i + 1])}]
        BY <1>1, <1>4, <3>1
      <3> HIDE DEF IsRow
      <3> QED BY <3>2
    <2> HIDE DEF IsRow
    <2>2. 1 \in 1..3 /\ 2 \in 1..3 /\ 3 \in 1..3 /\ 1 + 1 = 2 /\ 2 + 1 = 3 /\ ~(1 > 2) /\ ~(2 > 2) /\ 3 > 2
      OBVIOUS
    <2>3. f[3] = 0..Len(s)
      BY <2>1, <2>2
    <2>4. f[2] = rest
      BY <1>1, <2>1, <2>2, <2>3 DEF LastFits
    <2>5. f[1] = first
      <3>1. first = IF x = <<>> THEN rest ELSE {k \in 0..Len(s) : FirstMatch(x, s)[0] \cap rest # {}}
        OBVIOUS
      <3> HIDE DEF first, rest
      <3>2. f[1] = IF parts[1] = <<>> THEN f[2] ELSE {k \in 0..Len(s) : FirstMatch(parts[1], s)[0] \cap f[2] # {}}
        BY <2>1, <2>2
      <3> QED BY <1>1, <2>4, <3>1, <3>2, Zenon
    <2> QED BY <2>3, <2>4, <2>5
  <1>6. 0 \in 0..Len(s)
    OBVIOUS
  <1> QED BY <1>4, <1>5, <1>6 DEF parts

----------------------------------------------------------------------------
(* The matcher finds what a pattern means. *)

LEMMA LeadsSlash ==
    ASSUME NEW C, "/" \in C, NEW p \in Seq(C), NEW s, Len(s) \in Nat, NEW j \in 0..Len(s), NEW k
    PROVE  Leads(Cons("/", p), s, k, j) <=> k \in 0..Len(s) - 1 /\ s[k + 1] = "/" /\ Leads(p, s, k + 1, j)
  <1>1. Leads(Cons("/", p), s, k, j) <=>
           k \in 0..Len(s) /\ \E i \in k..Len(s) : Stands("/", s, k, i) /\ Leads(p, s, i, j)
    BY LeadsHead
  <1>2. \A i : Stands("/", s, k, i) <=> i = k + 1 /\ s[i] = "/"
    BY ClassFacts DEF Stands
  <1>3. k \in 0..Len(s) => (k + 1 \in k..Len(s) <=> k \in 0..Len(s) - 1)
    OBVIOUS
  <1>4. k \in 0..Len(s) - 1 => k \in 0..Len(s)
    OBVIOUS
  <1> QED BY <1>1, <1>2, <1>3, <1>4

LEMMA LeadsDeep ==
    ASSUME NEW C, NEW t \in C, t \in {"**", "***"}, NEW p \in Seq(C), NEW s, Len(s) \in Nat, NEW j \in 0..Len(s), NEW k
    PROVE  Leads(Cons(t, p), s, k, j) <=> k \in 0..Len(s) /\ \E i \in k..Len(s) : Leads(p, s, i, j)
  <1>1. Leads(Cons(t, p), s, k, j) <=>
           k \in 0..Len(s) /\ \E i \in k..Len(s) : Stands(t, s, k, i) /\ Leads(p, s, i, j)
    BY LeadsHead
  <1>2. \A i : Stands(t, s, k, i)
    BY DEF Stands
  <1> QED BY <1>1, <1>2

LEMMA LeadsToSlash ==
    ASSUME NEW C, "/" \in C, NEW a \in Seq(C), NEW s, Len(s) \in Nat, NEW j \in 0..Len(s), NEW k,
           Leads(a \o <<"/">>, s, k, j)
    PROVE  j \in 1..Len(s) /\ s[j] = "/"
  <1>1. <<"/">> = Cons("/", <<>>) /\ <<>> \in Seq(C) /\ <<"/">> \in Seq(C)
    BY DEF Cons
  <1>2. PICK m \in 0..Len(s) : Leads(<<"/">>, s, m, j)
    <2> DEFINE b == <<"/">>
    <2>1. b \in Seq(C) /\ Leads(a \o b, s, k, j)
      BY <1>1
    <2> HIDE DEF b
    <2>2. \E m \in 0..Len(s) : Leads(a, s, k, m) /\ Leads(b, s, m, j)
      BY <2>1, LeadsConcat
    <2> QED BY <2>2 DEF b
  <1>3. m \in 0..Len(s) - 1 /\ s[m + 1] = "/" /\ Leads(<<>>, s, m + 1, j)
    BY <1>1, <1>2, LeadsSlash
  <1>4. m + 1 = j
    BY <1>3, LeadsEmpty
  <1> QED BY <1>3, <1>4

\* Where what is behind a "**/" may begin.
LEMMA SuffixStartsAre ==
    ASSUME NEW s, Len(s) \in Nat, NEW k \in 0..Len(s), k = 0 \/ s[k] = "/"
    PROVE  SuffixStarts(s, k) = {k} \cup {m \in k + 1..Len(s) : s[m] = "/"}
  <1> DEFINE after == {m \in k + 1..Len(s) : s[m] = "/"}
             before == {m \in 1..k : s[m] = "/"}
  <1>1. SuffixStarts(s, k) = after \cup {IF after = {} \/ before = {} THEN k ELSE Max(before)}
    BY DEF SuffixStarts
  <1>2. before # {} => Max(before) = k
    <2> SUFFICES ASSUME before # {} PROVE Max(before) = k
      OBVIOUS
    <2>1. before \in SUBSET (0..k) /\ k \in Nat /\ \A m \in before : m <= k
      OBVIOUS
    <2>2. k \in before
      OBVIOUS
    <2> HIDE DEF before
    <2>3. Max(before) \in before /\ Max(before) >= k
      BY <2>1, <2>2, GreatestUpTo
    <2>4. \A m \in before : m >= k => m = k
      BY <2>1
    <2> QED BY <2>3, <2>4
  <1> HIDE DEF after, before
  <1>3. SuffixStarts(s, k) = after \cup {k}
    BY <1>1, <1>2
  <1> QED BY <1>3 DEF after

LEMMA MeansIs ==
    ASSUME NEW q, NEW s
    PROVE  Means(q, s) <=> \E r \in Readings(q) : Leads(r, s, 0, Len(s))
  BY DEF Means, WildMatch, Leads

LEMMA ShallowMatches ==
    ASSUME NEW q, WellMade(q), ~Has(q, "**"), NEW s, Len(s) \in Nat
    PROVE  GlobMatch(q, s) <=> Means(q, s)
  <1>1. q \in Seq(Tokens) /\ \A i \in 1..Len(q) : q[i] # "**"
    BY DEF WellMade, Has
  <1>2. q \in Seq(Shallow)
    <2>1. q \in [1..Len(q) -> Shallow] /\ Len(q) \in Nat
      BY <1>1 DEF Shallow
    <2> QED BY <2>1, FunctionIsSequence, Zenon
  <1>3. Separated(q)
    BY DEF WellMade, Separated
  <1>4. "**" \notin Shallow /\ "***" \notin Shallow
    BY SplitAssumption DEF Shallow
  <1>5. 0 \in Globs(q, s) <=> Leads(q, s, 0, Len(s))
    BY <1>2, <1>3, <1>4, GlobsLead
  <1>6. Readings(q) = {q}
    <2>1. \A j \in 1..Len(q) - 1 : q[j] # "**"
      BY <1>1
    <2>2. {j \in 1..Len(q) - 1 : q[j] = "**" /\ q[j + 1] = "/"} = {}
      BY <2>1
    <2> QED BY <2>2 DEF Readings
  <1> QED BY <1>5, <1>6, MeansIs DEF GlobMatch

LEMMA PairIs ==
    ASSUME NEW S, NEW a \in S, NEW b \in S
    PROVE  <<a>> \o <<b>> = <<a, b>>
  <1> DEFINE u == <<a>>
             v == <<b>>
  <1>1. u \in Seq(S) /\ v \in Seq(S) /\ Len(u) = 1 /\ Len(v) = 1 /\ u[1] = a /\ v[1] = b
    OBVIOUS
  <1> HIDE DEF u, v
  <1>2. /\ u \o v \in Seq(S) /\ Len(u \o v) = Len(u) + Len(v)
        /\ \A i \in 1..Len(u) + Len(v) : (u \o v)[i] = IF i <= Len(u) THEN u[i] ELSE v[i - Len(u)]
    BY <1>1, ConcatProperties, Zenon
  <1>3. Len(u \o v) = 2 /\ (u \o v)[1] = a /\ (u \o v)[2] = b
    BY <1>1, <1>2
  <1>4. <<a, b>> \in Seq(S) /\ Len(<<a, b>>) = 2 /\ <<a, b>>[1] = a /\ <<a, b>>[2] = b
    OBVIOUS
  <1>5. \A i \in 1..Len(u \o v) : (u \o v)[i] = <<a, b>>[i]
    BY <1>3, <1>4
  <1>6. u \o v = <<a, b>>
    BY <1>2, <1>3, <1>4, <1>5, SeqEqual
  <1> QED BY <1>6 DEF u, v

LEMMA DeepMatches ==
    ASSUME NEW q, WellMade(q), q[Len(q)] # "/", NEW i \in 1..Len(q), q[i] = "**", NEW s, Len(s) \in Nat
    PROVE  GlobMatch(q, s) <=> Means(q, s)
  <1> DEFINE n == Len(s)
             L == 0..Len(s)
             x == Ahead(q, i)
             y == Behind(q, i)
             z == IF i < Len(q) THEN <<"/">> \o y ELSE <<>>
             w == IF i < Len(q) THEN y ELSE <<>>
             rest == LastFits(w, s)
  <1>1. q \in Seq(Tokens) /\ Len(q) \in Nat /\ i <= Len(q)
    BY DEF WellMade
  <1>2. "**" \notin Shallow /\ "***" \notin Shallow /\ "/" \in Shallow /\ "**" \in Tokens /\ "/" \in Tokens
        /\ "***" \notin Tokens
    BY SplitAssumption DEF Shallow, Tokens
  <1>3. Shallow \subseteq Tokens /\ Seq(Shallow) \subseteq Seq(Tokens)
    BY DEF Shallow
  <1>4. /\ x \in Seq(Shallow) /\ Calm(x)
        /\ x = <<>> \/ \E a \in Seq(Shallow) : x = a \o <<"/">>
        /\ i < Len(q) => y \in Seq(Shallow) \ {<<>>} /\ Separated(y)
        /\ q = x \o <<"**">> \o z
        /\ Readings(q) = {q} \cup (IF i < Len(q) THEN {x \o y} ELSE {})
    <2>1. i = 1 \/ i > 1
      OBVIOUS
    <2>2. i = Len(q) \/ i < Len(q)
      BY <1>1
    <2>3. (x \o <<"**">>) \in Seq(Tokens) => (x \o <<"**">>) \o <<>> = x \o <<"**">>
      OBVIOUS
    <2>4. x \in Seq(Tokens) => x \o <<"**">> \in Seq(Tokens)
      BY <1>2
    <2>5. /\ x \in Seq(Shallow) /\ Calm(x)
          /\ i > 1 => SubSeq(q, 1, i - 2) \in Seq(Shallow) /\ x = SubSeq(q, 1, i - 2) \o <<"/">>
          /\ i = 1 => x = <<>>
          /\ i = Len(q) => q = x \o <<"**">>
          /\ i < Len(q) => /\ y \in Seq(Shallow) \ {<<>>} /\ Separated(y)
                           /\ q = x \o <<"**">> \o (<<"/">> \o y)
          /\ Readings(q) = {q} \cup (IF i < Len(q) THEN {x \o y} ELSE {})
      BY SplitAtStars
    <2> HIDE DEF x, y
    <2>6. q = x \o <<"**">> \o z
      BY <1>3, <2>2, <2>3, <2>4, <2>5
    <2> HIDE DEF z
    <2> QED BY <2>1, <2>5, <2>6
  <1> HIDE DEF x, y
  <1>5. z \in Seq(Shallow) /\ w \in Seq(Shallow) /\ (i < Len(q) => z = Cons("/", y) /\ Head(z) = "/" /\ Tail(z) = y /\ z # <<>>)
    BY <1>2, <1>4 DEF Cons
  <1>6. (~(i < Len(q)) => z = <<>> /\ w = <<>>) /\ (i < Len(q) => w = y)
    OBVIOUS
  <1> HIDE DEF z, w
  <1> HIDE DEF rest
  <1>7. Parts(q) = <<x, w>>
    <2>1. \A u \in Seq(Shallow) : u \in Seq(Tokens) /\ ~Has(u, "**")
      <3>1. \A u \in Seq(Shallow) : \A j \in DOMAIN u : u[j] \in Shallow
        OBVIOUS
      <3> QED BY <1>2, <1>3, <3>1 DEF Has
    <2>2. Pieces(x, "**") = <<x>> /\ Pieces(z, "**") = <<z>>
      BY <1>4, <1>5, <2>1, PiecesWhole
    <2>3. Pieces(x \o <<"**">> \o z, "**") = Pieces(x, "**") \o Pieces(z, "**")
      <3>1. x \in Seq(Tokens) /\ z \in Seq(Tokens) /\ "**" \in Tokens
        BY <1>2, <1>4, <1>5, <2>1
      <3> QED BY <3>1, PiecesConcat
    <2>4. Pieces(q, "**") = <<x, z>>
      <3>1. <<x>> \o <<z>> = <<x, z>>
        <4>1. x \in Seq(Shallow) /\ z \in Seq(Shallow)
          BY <1>4, <1>5
        <4> QED BY <4>1, PairIs
      <3> QED BY <1>4, <2>2, <2>3, <3>1, Zenon
    <2>5. Parts(q) = [j \in DOMAIN <<x, z>> |->
                         IF j > 1 /\ <<x, z>>[j] # <<>> /\ Head(<<x, z>>[j]) = "/" THEN Tail(<<x, z>>[j])
                         ELSE <<x, z>>[j]]
      BY <2>4 DEF Parts
    <2>6. DOMAIN <<x, z>> = 1..2 /\ <<x, z>>[1] = x /\ <<x, z>>[2] = z
      OBVIOUS
    <2>7. w = IF z # <<>> /\ Head(z) = "/" THEN Tail(z) ELSE z
      BY <1>5, <1>6
    <2>8. DOMAIN <<x, w>> = 1..2 /\ <<x, w>>[1] = x /\ <<x, w>>[2] = w
      OBVIOUS
    <2>9. <<x, w>> = [j \in 1..2 |-> IF j > 1 /\ <<x, z>>[j] # <<>> /\ Head(<<x, z>>[j]) = "/" THEN Tail(<<x, z>>[j])
                         ELSE <<x, z>>[j]]
      <3>1. <<x, w>> = [j \in 1..2 |-> <<x, w>>[j]]
        BY <2>8
      <3>2. \A j \in 1..2 : <<x, w>>[j] =
               IF j > 1 /\ <<x, z>>[j] # <<>> /\ Head(<<x, z>>[j]) = "/" THEN Tail(<<x, z>>[j]) ELSE <<x, z>>[j]
        <4> TAKE j \in 1..2
        <4>1. CASE j = 1
          BY <2>6, <2>8, <4>1
        <4>2. CASE j = 2
          BY <2>6, <2>7, <2>8, <4>2
        <4> QED BY <4>1, <4>2
      <3> QED BY <3>1, <3>2
    <2> QED BY <2>5, <2>6, <2>9
  <1>8. GlobMatch(q, s) <=> PartsMatch(<<x, w>>, s)
    <2>1. Has(q, "**")
      BY <1>1 DEF Has
    <2> QED BY <1>7, <2>1 DEF GlobMatch
  <1>9. PartsMatch(<<x, w>>, s) <=> IF x = <<>> THEN 0 \in rest ELSE FirstMatch(x, s)[0] \cap rest # {}
    <2>1. x \in Seq(Shallow) /\ w \in Seq(Shallow)
      BY <1>4, <1>5
    <2> QED BY <2>1, TwoParts, Zenon DEF rest
  <1>10. rest \subseteq L
    BY DEF rest, LastFits
  <1>11. PartsMatch(<<x, w>>, s) <=> \E k \in L : Leads(x, s, 0, k) /\ k \in rest
    <2> HIDE DEF rest
    <2>1. CASE x = <<>>
      <3>1. \A k \in L : Leads(<<>>, s, 0, k) <=> 0 = k
        BY LeadsEmpty
      <3>2. 0 \in L
        OBVIOUS
      <3> HIDE DEF L
      <3> QED BY <1>9, <2>1, <3>1, <3>2
    <2>2. CASE x # <<>>
      <3>1. PICK a \in Seq(Shallow) : x = a \o <<"/">>
        BY <1>4, <2>2
      <3>2. \A k, j \in L : j \in FirstMatch(a \o <<"/">>, s)[k] <=> Leads(a \o <<"/">>, s, k, j)
        BY <1>2, <1>4, <3>1, FirstMatchLeads
      <3>3. 0 \in L
        OBVIOUS
      <3> HIDE DEF L
      <3> QED BY <1>9, <1>10, <2>2, <3>1, <3>2, <3>3
    <2> QED BY <2>1, <2>2
  <1>12. n \in L /\ \A k, m \in L : Leads(x, s, 0, k) => k = 0 \/ s[k] = "/"
    <2>1. ASSUME NEW k \in L, Leads(x, s, 0, k)
          PROVE  k = 0 \/ s[k] = "/"
      <3>1. CASE x = <<>>
        BY <2>1, <3>1, LeadsEmpty
      <3>2. CASE x # <<>>
        <4>1. PICK a \in Seq(Shallow) : x = a \o <<"/">>
          BY <1>4, <3>2
        <4> QED BY <1>2, <2>1, <4>1, LeadsToSlash
      <3> QED BY <3>1, <3>2
    <2> QED BY <2>1
  <1>13. x \in Seq(Tokens) /\ (i < Len(q) => y \in Seq(Tokens))
    BY <1>3, <1>4
  <1>14. x \in Seq(Tokens) /\ z \in Seq(Tokens) /\ <<"**">> \o z \in Seq(Tokens) /\ <<"**">> \o z = Cons("**", z)
         /\ q = x \o (<<"**">> \o z)
    <2>1. x \in Seq(Tokens) /\ z \in Seq(Tokens) /\ <<"**">> \in Seq(Tokens)
      BY <1>2, <1>3, <1>4, <1>5
    <2>2. (x \o <<"**">>) \o z = x \o (<<"**">> \o z)
      BY <2>1, ConcatAssociates
    <2>3. <<"**">> \o z = Cons("**", z)
      BY DEF Cons
    <2>4. <<"**">> \o z \in Seq(Tokens)
      BY <2>1
    <2> QED BY <1>4, <2>1, <2>2, <2>3, <2>4, Zenon
  <1>15. Leads(q, s, 0, n) <=> \E k \in L : Leads(x, s, 0, k) /\ \E m \in k..n : Leads(z, s, m, n)
    <2>1. Leads(x \o (<<"**">> \o z), s, 0, n) <=> \E k \in L : Leads(x, s, 0, k) /\ Leads(<<"**">> \o z, s, k, n)
      BY <1>12, <1>14, LeadsConcat
    <2>2. \A k : Leads(Cons("**", z), s, k, n) <=> k \in L /\ \E m \in k..n : Leads(z, s, m, n)
      BY <1>2, <1>12, <1>14, LeadsDeep
    <2> HIDE DEF L, n
    <2> QED BY <1>14, <2>1, <2>2
  <1>16. CASE ~(i < Len(q))
    <2>1. rest = L
      BY <1>6, <1>16 DEF rest, LastFits
    <2>2. \A k \in L : \E m \in k..n : Leads(z, s, m, n)
      <3>1. Leads(<<>>, s, n, n)
        BY <1>12, LeadsEmpty
      <3>2. \A k \in L : n \in k..n
        OBVIOUS
      <3> QED BY <1>6, <1>16, <3>1, <3>2
    <2>3. Means(q, s) <=> Leads(q, s, 0, n)
      BY <1>4, <1>16, MeansIs
    <2> HIDE DEF L, n, rest
    <2> QED BY <1>8, <1>11, <1>15, <2>1, <2>2, <2>3
  <1>17. CASE i < Len(q)
    <2>1. Means(q, s) <=> Leads(q, s, 0, n) \/ Leads(x \o y, s, 0, n)
      BY <1>4, <1>17, MeansIs
    <2>2. Leads(x \o y, s, 0, n) <=> \E k \in L : Leads(x, s, 0, k) /\ Leads(y, s, k, n)
      BY <1>12, <1>13, <1>17, LeadsConcat
    <2>3. \A m : Leads(z, s, m, n) <=> m \in 0..n - 1 /\ s[m + 1] = "/" /\ Leads(y, s, m + 1, n)
      BY <1>2, <1>5, <1>12, <1>13, <1>17, LeadsSlash
    <2>4. \A m : m \in Globs(y, s) <=> Leads(y, s, m, n)
      BY <1>2, <1>4, <1>17, GlobsLead
    <2>5. ASSUME NEW k \in L, Leads(x, s, 0, k)
          PROVE  k \in rest <=> Leads(y, s, k, n) \/ \E m \in k..n : Leads(z, s, m, n)
      <3>1. SuffixStarts(s, k) = {k} \cup {m \in k + 1..Len(s) : s[m] = "/"}
        BY <1>12, <2>5, SuffixStartsAre
      <3>2. k \in rest <=> \E m \in SuffixStarts(s, k) : m \in Globs(y, s)
        BY <1>4, <1>6, <1>17 DEF rest, LastFits
      <3>3. (\E m \in k + 1..n : s[m] = "/" /\ Leads(y, s, m, n)) <=>
            (\E m \in k..n : m \in 0..n - 1 /\ s[m + 1] = "/" /\ Leads(y, s, m + 1, n))
        <4>1. ASSUME NEW m \in k + 1..n, s[m] = "/", Leads(y, s, m, n)
              PROVE  \E l \in k..n : l \in 0..n - 1 /\ s[l + 1] = "/" /\ Leads(y, s, l + 1, n)
          <5>1. m - 1 \in k..n /\ m - 1 \in 0..n - 1 /\ (m - 1) + 1 = m
            OBVIOUS
          <5> QED BY <4>1, <5>1
        <4>2. ASSUME NEW m \in k..n, m \in 0..n - 1, s[m + 1] = "/", Leads(y, s, m + 1, n)
              PROVE  \E l \in k + 1..n : s[l] = "/" /\ Leads(y, s, l, n)
          <5>1. m + 1 \in k + 1..n
            BY <4>2
          <5> QED BY <4>2, <5>1
        <4> QED BY <4>1, <4>2
      <3>4. (\E m \in SuffixStarts(s, k) : m \in Globs(y, s)) <=>
            Leads(y, s, k, n) \/ \E m \in k + 1..n : s[m] = "/" /\ Leads(y, s, m, n)
        BY <2>4, <3>1
      <3> HIDE DEF rest, L, n
      <3> QED BY <2>3, <3>2, <3>3, <3>4
    <2> HIDE DEF rest, L, n
    <2> QED BY <1>8, <1>11, <1>15, <2>1, <2>2, <2>5
  <1> QED BY <1>16, <1>17

----------------------------------------------------------------------------
(* A text within another. *)

\* Text v lies in s behind position o.
Lies(v, s, o) ==
    /\ o \in Nat /\ Len(v) \in Nat /\ Len(s) \in Nat /\ o + Len(v) <= Len(s)
    /\ \A x \in 1..Len(v) : s[o + x] = v[x]

LEMMA LeadsWithin ==
    ASSUME NEW C, NEW p \in Seq(C), NEW v, NEW s, NEW o, Lies(v, s, o)
    PROVE  \A k, j \in 0..Len(v) : Leads(p, s, o + k, o + j) <=> Leads(p, v, k, j)
  <1> DEFINE L == 0..Len(v)
             T == {q \in Seq(C) : \A k, j \in L : Leads(q, s, o + k, o + j) <=> Leads(q, v, k, j)}
  <1>0. /\ o \in Nat /\ Len(v) \in Nat /\ Len(s) \in Nat
        /\ \A k \in L : o + k \in 0..Len(s) /\ o + k \in Nat /\ k \in Nat
    BY DEF Lies
  <1>1. <<>> \in T
    <2>1. ASSUME NEW k \in L, NEW j \in L
          PROVE  Leads(<<>>, s, o + k, o + j) <=> Leads(<<>>, v, k, j)
      <3>1. Leads(<<>>, s, o + k, o + j) <=> o + k = o + j
        BY <1>0, LeadsEmpty
      <3>2. Leads(<<>>, v, k, j) <=> k = j
        BY <1>0, LeadsEmpty
      <3> QED BY <1>0, <3>1, <3>2
    <2>2. <<>> \in Seq(C)
      OBVIOUS
    <2> QED BY <2>1, <2>2
  <1>2. ASSUME NEW t \in C, NEW q \in Seq(C), q \in T
        PROVE  Cons(t, q) \in T
    <2>1. ASSUME NEW k \in L, NEW j \in L
          PROVE  Leads(Cons(t, q), s, o + k, o + j) <=> Leads(Cons(t, q), v, k, j)
      <3>1. Leads(Cons(t, q), s, o + k, o + j) <=>
               \E i \in o + k..Len(s) : Stands(t, s, o + k, i) /\ Leads(q, s, i, o + j)
        BY <1>0, LeadsHead
      <3>2. Leads(Cons(t, q), v, k, j) <=>
               \E i \in k..Len(v) : Stands(t, v, k, i) /\ Leads(q, v, i, j)
        BY <1>0, LeadsHead
      <3>3. ASSUME NEW i \in k..Len(v)
            PROVE  Stands(t, s, o + k, o + i) <=> Stands(t, v, k, i)
        <4>1. \A x \in 1..Len(v) : s[o + x] = v[x]
          BY DEF Lies
        <4>2. Open(s, o + k, o + i) <=> Open(v, k, i)
          <5>1. ASSUME Open(s, o + k, o + i), NEW x \in k + 1..i
                PROVE  v[x] # "/"
            <6>1. o + x \in o + k + 1..o + i /\ x \in 1..Len(v)
              BY <1>0
            <6> QED BY <4>1, <5>1, <6>1 DEF Open
          <5>2. ASSUME Open(v, k, i), NEW y \in o + k + 1..o + i
                PROVE  s[y] # "/"
            <6>1. y - o \in k + 1..i /\ y - o \in 1..Len(v) /\ o + (y - o) = y
              BY <1>0
            <6>2. v[y - o] # "/"
              BY <5>2, <6>1 DEF Open
            <6>3. s[o + (y - o)] = v[y - o]
              BY <4>1, <6>1
            <6> QED BY <6>1, <6>2, <6>3
          <5> QED BY <5>1, <5>2 DEF Open
        <4>3. o + i = o + k + 1 <=> i = k + 1
          BY <1>0
        <4>4. i = k + 1 => s[o + i] = v[i]
          <5>1. i = k + 1 => i \in 1..Len(v)
            BY <1>0
          <5> QED BY <4>1, <5>1
        <4> QED BY <4>2, <4>3, <4>4 DEF Stands
      <3>4. ASSUME NEW i \in k..Len(v)
            PROVE  Leads(q, s, o + i, o + j) <=> Leads(q, v, i, j)
        <4>1. i \in L
          OBVIOUS
        <4> QED BY <1>2, <4>1
      <3>5. ASSUME NEW i \in o + k..Len(s), Leads(q, s, i, o + j)
            PROVE  i - o \in k..Len(v) /\ o + (i - o) = i
        <4>1. i \in 0..o + j
          BY <1>0, <3>5, LeadsForward
        <4> QED BY <1>0, <4>1
      <3>6. \A i \in k..Len(v) : o + i \in o + k..Len(s)
        BY <1>0 DEF Lies
      <3> HIDE DEF L, T
      <3>7. ASSUME Leads(Cons(t, q), s, o + k, o + j)
            PROVE  Leads(Cons(t, q), v, k, j)
        <4>1. PICK i \in o + k..Len(s) : Stands(t, s, o + k, i) /\ Leads(q, s, i, o + j)
          BY <3>1, <3>7
        <4>2. i - o \in k..Len(v) /\ o + (i - o) = i
          BY <3>5, <4>1
        <4>3. Stands(t, v, k, i - o) /\ Leads(q, v, i - o, j)
          BY <3>3, <3>4, <4>1, <4>2
        <4> QED BY <3>2, <4>2, <4>3
      <3>8. ASSUME Leads(Cons(t, q), v, k, j)
            PROVE  Leads(Cons(t, q), s, o + k, o + j)
        <4>1. PICK i \in k..Len(v) : Stands(t, v, k, i) /\ Leads(q, v, i, j)
          BY <3>2, <3>8
        <4> QED BY <3>1, <3>3, <3>4, <3>6, <4>1
      <3> QED BY <3>7, <3>8
    <2>2. Cons(t, q) \in Seq(C)
      BY ConsFacts
    <2> QED BY <2>1, <2>2
  <1> HIDE DEF T
  <1>3. p \in T
    BY <1>1, <1>2, ByHead
  <1> QED BY <1>3 DEF T

----------------------------------------------------------------------------
(* How many slashes a text has. *)

Slashes(s) == Cardinality({i \in DOMAIN s : s[i] = "/"})

LEMMA SlashesNone ==
    ASSUME NEW s, \A i \in DOMAIN s : s[i] # "/"
    PROVE  Slashes(s) = 0
  <1>1. {i \in DOMAIN s : s[i] = "/"} = {}
    OBVIOUS
  <1> QED BY <1>1, FS_EmptySet DEF Slashes

LEMMA SlashesCons ==
    ASSUME NEW C, NEW t \in C, NEW s \in Seq(C)
    PROVE  Slashes(s) \in Nat /\ Slashes(Cons(t, s)) = IF t = "/" THEN Slashes(s) + 1 ELSE Slashes(s)
  <1> DEFINE longer == Cons(t, s)
             A == {i \in 1..Len(s) : s[i] = "/"}
             B == {i \in 1..Len(longer) : longer[i] = "/"}
             M == {i \in B : i # 1}
             f == [i \in A |-> i + 1]
  <1>1. longer \in Seq(C) /\ Len(longer) = Len(s) + 1 /\ longer[1] = t /\ \A i \in 1..Len(s) : longer[i + 1] = s[i]
    BY BehindHead DEF Cons
  <1>2. Slashes(s) = Cardinality(A) /\ Slashes(longer) = Cardinality(B) /\ Len(s) \in Nat
    <2>1. DOMAIN s = 1..Len(s) /\ DOMAIN longer = 1..Len(longer) /\ Len(s) \in Nat
      BY <1>1
    <2> HIDE DEF longer
    <2> QED BY <2>1 DEF Slashes
  <1> HIDE DEF longer
  <1>3. IsFiniteSet(A) /\ Cardinality(A) \in Nat
    <2>1. IsFiniteSet(1..Len(s))
      BY <1>2, FS_Interval
    <2>2. A \in SUBSET (1..Len(s))
      OBVIOUS
    <2> HIDE DEF A
    <2> QED BY <2>1, <2>2, FS_Subset, FS_CardinalityType
  <1>4. IsFiniteSet(M) /\ Cardinality(M) = Cardinality(A)
    <2>1. f \in [A -> M]
      <3>1. \A i \in A : i + 1 \in M
        BY <1>1, <1>2
      <3> QED BY <3>1
    <2>2. \A a, b \in A : f[a] = f[b] => a = b
      OBVIOUS
    <2>3. \A y \in M : \E a \in A : f[a] = y
      <3>1. \A y \in M : y - 1 \in A /\ (y - 1) + 1 = y
        <4>1. ASSUME NEW y \in M
              PROVE  y - 1 \in A /\ (y - 1) + 1 = y
          <5>1. y \in 1..Len(s) + 1 /\ y # 1 /\ longer[y] = "/"
            BY <1>1
          <5>2. y - 1 \in 1..Len(s) /\ (y - 1) + 1 = y
            BY <1>2, <5>1
          <5>3. longer[(y - 1) + 1] = s[y - 1]
            BY <1>1, <5>2
          <5> QED BY <5>1, <5>2, <5>3
        <4> QED BY <4>1
      <3> QED BY <3>1
    <2> HIDE DEF A, M
    <2>4. f \in Bijection(A, M)
      BY <2>1, <2>2, <2>3 DEF Bijection, Injection, Surjection, IsInjective
    <2>5. ExistsBijection(A, M)
      BY <2>4 DEF ExistsBijection
    <2> QED BY <1>3, <2>5, FS_Bijection
  <1>5. CASE t = "/"
    <2>1. B = M \cup {1} /\ 1 \notin M
      BY <1>1, <1>2, <1>5
    <2> HIDE DEF A, B, M, f
    <2> QED BY <1>2, <1>3, <1>4, <1>5, <2>1, FS_AddElement DEF longer
  <1>6. CASE t # "/"
    <2>1. B = M
      BY <1>1, <1>2, <1>6
    <2> HIDE DEF A, B, M, f
    <2> QED BY <1>2, <1>3, <1>4, <1>6, <2>1 DEF longer
  <1> QED BY <1>5, <1>6

LEMMA SlashesConcat ==
    ASSUME NEW C, NEW a \in Seq(C), NEW b \in Seq(C)
    PROVE  Slashes(a) \in Nat /\ Slashes(b) \in Nat /\ Slashes(a \o b) = Slashes(a) + Slashes(b)
  <1> DEFINE Whole(s) == Slashes(s) \in Nat
             T == {s \in Seq(C) : Slashes(s) \in Nat /\ Slashes(s \o b) = Slashes(s) + Slashes(b)}
             U == {s \in Seq(C) : Slashes(s) \in Nat}
  <1>0. Slashes(<<>>) = 0
    BY SlashesNone
  <1>1. b \in U
    <2>1. <<>> \in U
      BY <1>0
    <2>2. ASSUME NEW t \in C, NEW s \in Seq(C), s \in U
          PROVE  Cons(t, s) \in U
      BY <2>2, SlashesCons, ConsFacts
    <2> HIDE DEF U
    <2> QED BY <2>1, <2>2, ByHead
  <1>2. <<>> \in T
    <2>1. <<>> \o b = b /\ <<>> \in Seq(C)
      OBVIOUS
    <2> QED BY <1>0, <1>1, <2>1
  <1>3. ASSUME NEW t \in C, NEW s \in Seq(C), s \in T
        PROVE  Cons(t, s) \in T
    <2>1. Cons(t, s) \in Seq(C) /\ s \o b \in Seq(C) /\ Cons(t, s) \o b = Cons(t, s \o b)
      BY DEF Cons
    <2>2. Slashes(Cons(t, s)) = IF t = "/" THEN Slashes(s) + 1 ELSE Slashes(s)
      BY SlashesCons
    <2>3. Slashes(Cons(t, s \o b)) = IF t = "/" THEN Slashes(s \o b) + 1 ELSE Slashes(s \o b)
      BY <2>1, SlashesCons
    <2>4. Slashes(s) \in Nat /\ Slashes(s \o b) = Slashes(s) + Slashes(b) /\ Slashes(b) \in Nat
      BY <1>1, <1>3
    <2>5. Slashes(Cons(t, s) \o b) = Slashes(Cons(t, s)) + Slashes(b) /\ Slashes(Cons(t, s)) \in Nat
      BY <2>1, <2>2, <2>3, <2>4
    <2> QED BY <2>1, <2>5
  <1> HIDE DEF T
  <1>4. a \in T
    BY <1>2, <1>3, ByHead
  <1> QED BY <1>1, <1>4 DEF T

\* What a pattern without "**" matches has its number of slashes.
LEMMA LeadsCounts ==
    ASSUME NEW C, "**" \notin C, "***" \notin C, NEW p \in Seq(C), NEW S, NEW s \in Seq(S), Leads(p, s, 0, Len(s))
    PROVE  Slashes(p) = Slashes(s)
  <1> DEFINE T == {q \in Seq(C) : \A u \in Seq(S) : Leads(q, u, 0, Len(u)) => Slashes(q) = Slashes(u)}
  <1>1. <<>> \in T
    <2>1. ASSUME NEW u \in Seq(S), Leads(<<>>, u, 0, Len(u))
          PROVE  Slashes(<<>>) = Slashes(u)
      <3>1. 0 = Len(u)
        BY <2>1, LeadsEmpty
      <3>2. u = <<>>
        BY <3>1
      <3> QED BY <3>2
    <2>2. <<>> \in Seq(C)
      OBVIOUS
    <2> QED BY <2>1, <2>2
  <1>2. ASSUME NEW t \in C, NEW q \in Seq(C), q \in T
        PROVE  Cons(t, q) \in T
    <2>1. ASSUME NEW u \in Seq(S), Leads(Cons(t, q), u, 0, Len(u))
          PROVE  Slashes(Cons(t, q)) = Slashes(u)
      <3>1. Len(u) \in Nat /\ Len(u) \in 0..Len(u)
        OBVIOUS
      <3>2. PICK i \in 0..Len(u) : Stands(t, u, 0, i) /\ Leads(q, u, i, Len(u))
        BY <2>1, <3>1, LeadsHead
      <3> DEFINE a == SubSeq(u, 1, i)
                 b == SubSeq(u, i + 1, Len(u))
      <3>3. i \in 1 - 1..Len(u) /\ 1 \in 1..Len(u) + 1 /\ i + 1 \in 1..Len(u) + 1 /\ Len(u) \in i..Len(u)
            /\ Len(u) \in i + 1 - 1..Len(u)
        BY <3>1
      <3>4. a \in Seq(S) /\ Len(a) = i - 1 + 1 /\ \A x \in 1..i - 1 + 1 : a[x] = u[x + (1 - 1)]
        BY <3>3, StretchFacts
      <3>5. b \in Seq(S) /\ Len(b) = Len(u) - (i + 1) + 1 /\ \A x \in 1..Len(u) - (i + 1) + 1 : b[x] = u[x + (i + 1 - 1)]
        BY <3>3, StretchFacts
      <3>6. a \o b = u
        <4>1. SubSeq(u, 1, i) \o SubSeq(u, i + 1, Len(u)) = SubSeq(u, 1, Len(u))
          BY <3>3, StretchesJoin
        <4>2. SubSeq(u, 1, Len(u)) = u
          OBVIOUS
        <4> QED BY <4>1, <4>2
      <3> HIDE DEF a, b
      <3>7. Len(a) = i /\ (\A x \in 1..i : a[x] = u[x]) /\ Len(b) = Len(u) - i /\ \A x \in 1..Len(u) - i : b[x] = u[x + i]
        BY <3>1, <3>4, <3>5
      <3>8. Lies(b, u, i)
        <4>1. \A x \in 1..Len(u) - i : x + i = i + x
          BY <3>1
        <4> QED BY <3>1, <3>7, <4>1 DEF Lies
      <3>9. Leads(q, b, 0, Len(b))
        <4>1. 0 \in 0..Len(b) /\ Len(b) \in 0..Len(b) /\ i + 0 = i /\ i + Len(b) = Len(u)
          BY <3>1, <3>7
        <4>2. Leads(q, u, i + 0, i + Len(b)) <=> Leads(q, b, 0, Len(b))
          BY <3>8, <4>1, LeadsWithin
        <4> QED BY <3>2, <4>1, <4>2
      <3>10. Slashes(q) = Slashes(b)
        BY <1>2, <3>5, <3>9
      <3>11. Slashes(u) = Slashes(a) + Slashes(b) /\ Slashes(b) \in Nat
        BY <3>4, <3>5, <3>6, SlashesConcat
      <3>12. Slashes(a) = IF t = "/" THEN 1 ELSE 0
        <4>1. CASE t = "*"
          <5>1. \A x \in DOMAIN a : a[x] # "/"
            <6>1. DOMAIN a = 1..i /\ \A x \in 0 + 1..i : u[x] # "/"
              BY <3>2, <3>4, <3>7, <4>1 DEF Stands, Open
            <6> QED BY <3>7, <6>1
          <5> QED BY <4>1, <5>1, SlashesNone
        <4>2. CASE t # "*"
          <5>1. i = 1 /\ u[1] \in Class(t)
            BY <1>2, <3>2, <4>2 DEF Stands
          <5>2. Len(a) = 1 /\ a[1] = u[1] /\ a[1] \in S
            BY <3>4, <3>7, <5>1
          <5> HIDE DEF T
          <5>0. DOMAIN a = 1..1
            <6>1. a \in Seq(S)
              BY <3>4
            <6>2. DOMAIN a = 1..Len(a)
              BY <6>1
            <6> QED BY <5>2, <6>2
          <5>3. CASE t = "/"
            <6>1. a[1] = "/"
              BY <5>1, <5>2, <5>3, ClassFacts
            <6>2. {x \in DOMAIN a : a[x] = "/"} = {1}
              BY <5>0, <6>1
            <6> QED BY <5>3, <6>2, FS_Singleton DEF Slashes
          <5>4. CASE t # "/"
            <6>1. a[1] # "/"
              BY <5>1, <5>2, <5>4, ClassFacts
            <6>2. \A x \in DOMAIN a : a[x] # "/"
              BY <5>0, <6>1
            <6> QED BY <5>4, <6>2, SlashesNone
          <5> QED BY <5>3, <5>4
        <4> QED BY <4>1, <4>2
      <3>13. Slashes(Cons(t, q)) = IF t = "/" THEN Slashes(q) + 1 ELSE Slashes(q)
        BY SlashesCons
      <3> QED BY <3>10, <3>11, <3>12, <3>13
    <2>2. Cons(t, q) \in Seq(C)
      BY ConsFacts
    <2> QED BY <2>1, <2>2
  <1> HIDE DEF T
  <1>3. p \in T
    BY <1>1, <1>2, ByHead
  <1> QED BY <1>3 DEF T

----------------------------------------------------------------------------
(* Selection. *)

LEMMA BareMeans ==
    ASSUME NEW p \in Patterns, Plain(p), NEW s, Len(s) \in Nat
    PROVE  GlobMatch(Bare(p), s) <=> Means(Bare(p), s)
  <1> DEFINE q == Bare(p)
  <1>1. WellMade(q) /\ (q # <<>> => q[Len(q)] # "/")
    BY BareIsWellMade
  <1> HIDE DEF q
  <1>2. CASE ~Has(q, "**")
    <2>1. GlobMatch(q, s) <=> Means(q, s)
      BY <1>1, <1>2, ShallowMatches
    <2> QED BY <2>1 DEF q
  <1>3. CASE Has(q, "**")
    <2>1. PICK i \in DOMAIN q : q[i] = "**"
      BY <1>3 DEF Has
    <2>2. q \in Seq(Tokens)
      BY <1>1 DEF WellMade
    <2>3. i \in 1..Len(q) /\ q # <<>>
      BY <2>1, <2>2
    <2>4. GlobMatch(q, s) <=> Means(q, s)
      BY <1>1, <2>1, <2>3, DeepMatches
    <2> QED BY <2>4 DEF q
  <1> QED BY <1>2, <1>3

LEMMA NodeTexts ==
    ASSUME NEW n \in Nodes
    PROVE  /\ Flat(n) \in Seq(Characters) /\ Len(Flat(n)) \in Nat
           /\ \A c \in Components(n) : Len(c) \in Nat
  <1>1. {"/", "."} \subseteq Characters
    BY SplitAssumption
  <1>2. n \in Seq(Proper(Characters)) /\ n \in Seq(Seq(Characters))
    BY NodesAreProper
  <1>3. Flat(n) \in Seq(Characters)
    BY <1>1, <1>2, PathOfFlat
  <1>4. \A c \in Components(n) : Len(c) \in Nat
    <2>1. CASE n = <<>>
      <3>1. Components(n) = {Dot} /\ Len(Dot) = 1
        BY <2>1 DEF Components, Dot
      <3> QED BY <3>1
    <2>2. CASE n # <<>>
      <3>1. \A c \in Components(n) : c \in Seq(Characters)
        BY <1>2, <2>2 DEF Components, Range
      <3> QED BY <3>1
    <2> QED BY <2>1, <2>2
  <1>5. Len(Flat(n)) \in Nat
    BY <1>3
  <1> QED BY <1>3, <1>4, <1>5

\* The matcher finds what a plain pattern means (is_match, glob_match): the
\* parts between "**"s are tried at few places, and none is missed.
THEOREM MatcherFindsTheMeant ==
    ASSUME NEW p \in Patterns, Plain(p), NEW n \in Nodes
    PROVE  IsMatch(p, n) <=> Selected(p, n)
  <1>1. GlobMatch(Bare(p), Flat(n)) <=> Means(Bare(p), Flat(n))
    BY NodeTexts, BareMeans
  <1>2. \A c \in Components(n) : GlobMatch(Bare(p), c) <=> Means(Bare(p), c)
    BY NodeTexts, BareMeans
  <1> QED BY <1>1, <1>2 DEF IsMatch, Selected
----------------------------------------------------------------------------
(* The text of a path, cut at its slashes. *)

LEMMA ConcatFacts ==
    ASSUME NEW C, NEW u \in Seq(C), NEW w \in Seq(C)
    PROVE  /\ u \o w \in Seq(C) /\ Len(u \o w) = Len(u) + Len(w) /\ Len(u) \in Nat /\ Len(w) \in Nat
           /\ \A i \in 1..Len(u) : (u \o w)[i] = u[i]
           /\ \A i \in 1..Len(w) : (u \o w)[Len(u) + i] = w[i]
  <1>1. u \o w \in Seq(C) /\ Len(u \o w) = Len(u) + Len(w)
        /\ \A i \in 1..Len(u) + Len(w) : (u \o w)[i] = IF i <= Len(u) THEN u[i] ELSE w[i - Len(u)]
    BY ConcatProperties, Zenon
  <1>2. Len(u) \in Nat /\ Len(w) \in Nat
    OBVIOUS
  <1>3. ASSUME NEW i \in 1..Len(w)
        PROVE  (u \o w)[Len(u) + i] = w[i]
    <2>1. Len(u) + i \in 1..Len(u) + Len(w) /\ ~(Len(u) + i <= Len(u)) /\ Len(u) + i - Len(u) = i
      BY <1>2
    <2> QED BY <1>1, <2>1
  <1> QED BY <1>1, <1>2, <1>3

LEMMA AppendFacts ==
    ASSUME NEW C, NEW m \in Seq(C), NEW x \in C
    PROVE  Append(m, x) \in Seq(C) /\ Append(m, x) # <<>> /\ Len(Append(m, x)) = Len(m) + 1
  <1>1. Append(m, x) \in Seq(C)
    OBVIOUS
  <1>2. Len(Append(m, x)) = Len(m) + 1 /\ Len(m) \in Nat
    OBVIOUS
  <1>3. Append(m, x) # <<>>
    <2>1. Len(Append(m, x)) # 0
      BY <1>2
    <2>2. \A y : Len(y) # 0 => y # <<>>
      OBVIOUS
    <2> QED BY <2>1, <2>2, Zenon
  <1> QED BY <1>1, <1>2, <1>3

\* Path m, and the longer one with the name x.
FlatGrows(C, m, x) ==
    /\ Flat(m) \in Seq(C) /\ x \in Seq(C) /\ x # <<>> /\ (\A i \in 1..Len(x) : x[i] # "/")
    /\ Append(m, x) \in Seq(Proper(C)) /\ Append(m, x) # <<>> /\ Len(Append(m, x)) = Len(m) + 1
    /\ m = <<>> => Flat(Append(m, x)) = x
    /\ m # <<>> => Flat(Append(m, x)) = Flat(m) \o (<<"/">> \o x)

LEMMA FlatSteps ==
    ASSUME NEW C, "/" \in C, "." \in C, NEW m \in Seq(Proper(C)), NEW x \in Proper(C)
    PROVE  FlatGrows(C, m, x)
  <1> DEFINE P == Proper(C)
  <1>1. Flat(m) \in Seq(C)
    BY PathOfFlat
  <1>2. x \in Seq(C) /\ x # <<>> /\ ~Has(x, "/")
    BY DEF Proper
  <1>3. \A i \in 1..Len(x) : x[i] # "/"
    BY <1>2 DEF Has
  <1>4. m \in Seq(Seq(C))
    <2>1. \A y \in P : y \in Seq(C)
      BY DEF Proper
    <2> HIDE DEF P
    <2>2. m \in Seq(P)
      BY DEF P
    <2> QED BY <2>1, <2>2
  <1>5. Flat(Append(m, x)) = IF m = <<>> THEN x ELSE Flat(m) \o (<<"/">> \o x)
    BY <1>2, <1>4, FlatLonger
  <1>6. Append(m, x) \in Seq(P) /\ Append(m, x) # <<>> /\ Len(Append(m, x)) = Len(m) + 1
    <2> HIDE DEF P
    <2>1. m \in Seq(P) /\ x \in P
      BY DEF P
    <2> QED BY <2>1, AppendFacts
  <1> QED BY <1>1, <1>2, <1>3, <1>5, <1>6 DEF FlatGrows

LEMMA FlatConcat ==
    ASSUME NEW C, "/" \in C, "." \in C,
           NEW u \in Seq(Proper(C)), u # <<>>, NEW w \in Seq(Proper(C)), w # <<>>
    PROVE  Flat(u \o w) = Flat(u) \o (<<"/">> \o Flat(w))
  <1> DEFINE P == Proper(C)
             b == <<"/">>
             T == {v \in Seq(P) : v # <<>> => Flat(u \o v) = Flat(u) \o (b \o Flat(v))}
  <1>0. b \in Seq(C)
    OBVIOUS
  <1>00. \A d, e, f \in Seq(C) : (d \o e) \o f = d \o (e \o f)
    BY ConcatAssociates
  <1>1. <<>> \in T
    OBVIOUS
  <1>2. ASSUME NEW x \in P, NEW v \in Seq(P), v \in T
        PROVE  Append(v, x) \in T
    <2>1. \A m \in Seq(P) :
             /\ Flat(m) \in Seq(C) /\ x \in Seq(C) /\ Append(m, x) \in Seq(P)
             /\ m = <<>> => Flat(Append(m, x)) = x
             /\ m # <<>> => Flat(Append(m, x)) = Flat(m) \o (b \o x)
      <3>1. \A m \in Seq(P) : FlatGrows(C, m, x)
        BY FlatSteps
      <3> QED BY <3>1 DEF FlatGrows
    <2> HIDE DEF P, b
    <2>2. u \in Seq(P) /\ u \o v \in Seq(P) /\ u \o v # <<>>
      <3>1. u \in Seq(P)
        BY DEF P
      <3>2. Len(u) >= 1 /\ Len(u \o v) = Len(u) + Len(v) /\ u \o v \in Seq(P) /\ Len(v) \in Nat
        BY <3>1
      <3> QED BY <3>1, <3>2
    <2>3. u \o Append(v, x) = Append(u \o v, x)
      BY <2>2, ConcatAppend
    <2>4. Flat(u \o Append(v, x)) = Flat(u \o v) \o (b \o x)
      BY <2>1, <2>2, <2>3
    <2>5. CASE v = <<>>
      <3>1. u \o v = u
        BY <2>2, <2>5
      <3>2. Flat(Append(v, x)) = x
        BY <2>1, <2>5
      <3> QED BY <2>1, <2>4, <3>1, <3>2
    <2>6. CASE v # <<>>
      <3>1. Flat(u \o v) = Flat(u) \o (b \o Flat(v)) /\ Flat(Append(v, x)) = Flat(v) \o (b \o x)
        BY <1>2, <2>1, <2>6
      <3>2. Flat(u) \in Seq(C) /\ Flat(v) \in Seq(C) /\ x \in Seq(C) /\ b \in Seq(C)
        BY <1>0, <2>1, <2>2
      <3>3. b \o x \in Seq(C) /\ b \o Flat(v) \in Seq(C)
        BY <3>2
      <3>4. (Flat(u) \o (b \o Flat(v))) \o (b \o x) = Flat(u) \o ((b \o Flat(v)) \o (b \o x))
        BY <1>00, <3>2, <3>3, Zenon
      <3>5. (b \o Flat(v)) \o (b \o x) = b \o (Flat(v) \o (b \o x))
        BY <1>00, <3>2, <3>3, Zenon
      <3>6. Flat(u \o Append(v, x)) = Flat(u) \o (b \o Flat(Append(v, x)))
        BY <2>4, <3>1, <3>4, <3>5, Zenon
      <3> QED BY <2>1, <3>6
    <2> QED BY <2>5, <2>6
  <1> HIDE DEF T
  <1>3. w \in T
    BY <1>1, <1>2, ByLast
  <1> QED BY <1>3 DEF T

LEMMA JoinedAt ==
    ASSUME NEW C, "/" \in C, NEW a \in Seq(C), NEW c \in Seq(C)
    PROVE  /\ a \o (<<"/">> \o c) \in Seq(C)
           /\ Len(a \o (<<"/">> \o c)) = Len(a) + 1 + Len(c) /\ Len(a) \in Nat /\ Len(c) \in Nat
           /\ \A i \in 1..Len(a) : (a \o (<<"/">> \o c))[i] = a[i]
           /\ (a \o (<<"/">> \o c))[Len(a) + 1] = "/"
           /\ \A i \in 1..Len(c) : (a \o (<<"/">> \o c))[Len(a) + 1 + i] = c[i]
  <1> DEFINE d == Cons("/", c)
  <1>1. d = <<"/">> \o c
    BY DEF Cons
  <1>2. d \in Seq(C) /\ Len(d) = 1 + Len(c) /\ d[1] = "/" /\ \A i \in 1..Len(c) : d[i + 1] = c[i]
    <2>1. Cons("/", c) \in Seq(C)
      BY ConsFacts
    <2> QED BY <2>1, BehindHead
  <1> HIDE DEF d
  <1>3. /\ a \o d \in Seq(C) /\ Len(a \o d) = Len(a) + Len(d)
        /\ \A i \in 1..Len(a) : (a \o d)[i] = a[i]
        /\ \A i \in 1..Len(d) : (a \o d)[Len(a) + i] = d[i]
    <2>1. a \in Seq(C) /\ d \in Seq(C)
      BY <1>2
    <2>2. a \o d \in Seq(C) /\ Len(a \o d) = Len(a) + Len(d)
          /\ \A i \in 1..Len(a) + Len(d) : (a \o d)[i] = IF i <= Len(a) THEN a[i] ELSE d[i - Len(a)]
      BY <2>1, ConcatProperties, Zenon
    <2>3. Len(a) \in Nat /\ Len(d) \in Nat
      BY <2>1
    <2>4. ASSUME NEW i \in 1..Len(d)
          PROVE  (a \o d)[Len(a) + i] = d[i]
      <3>1. Len(a) + i \in 1..Len(a) + Len(d) /\ ~(Len(a) + i <= Len(a)) /\ Len(a) + i - Len(a) = i
        BY <2>3
      <3> QED BY <2>2, <3>1
    <2> QED BY <2>2, <2>3, <2>4
  <1>4. Len(a) \in Nat /\ Len(c) \in Nat
    OBVIOUS
  <1>5. \A i \in 1..Len(a) : (a \o d)[i] = a[i]
    BY <1>3
  <1>6. (a \o d)[Len(a) + 1] = "/"
    <2>1. 1 \in 1..Len(d)
      BY <1>2, <1>4
    <2> QED BY <1>2, <1>3, <2>1
  <1>7. ASSUME NEW i \in 1..Len(c)
        PROVE  (a \o d)[Len(a) + 1 + i] = c[i]
    <2>1. i + 1 \in 1..Len(d) /\ Len(a) + 1 + i = Len(a) + (i + 1)
      BY <1>2, <1>4
    <2> QED BY <1>2, <1>3, <2>1
  <1> QED BY <1>1, <1>2, <1>3, <1>4, <1>5, <1>6, <1>7

\* Before and behind every slash is a path.
CutAt(C, n, k) ==
    \E u, w \in Seq(Proper(C)) : u # <<>> /\ w # <<>> /\ n = u \o w /\ k = Len(Flat(u)) + 1

LEMMA SlashesCut ==
    ASSUME NEW C, "/" \in C, "." \in C, NEW n \in Seq(Proper(C)), n # <<>>
    PROVE  \A k \in 1..Len(Flat(n)) : Flat(n)[k] = "/" => CutAt(C, n, k)
  <1> DEFINE P == Proper(C)
             Q == Seq(P)
             Cut(v, i) == \E u, w \in Q : u # <<>> /\ w # <<>> /\ v = u \o w /\ i = Len(Flat(u)) + 1
             T == {v \in Q : v # <<>> => \A i \in 1..Len(Flat(v)) : Flat(v)[i] = "/" => Cut(v, i)}
  <1>1. <<>> \in T
    OBVIOUS
  <1>2. ASSUME NEW x \in P, NEW v \in Q, v \in T
        PROVE  Append(v, x) \in T
    <2>1. /\ Flat(v) \in Seq(C) /\ x \in Seq(C) /\ x # <<>> /\ (\A i \in 1..Len(x) : x[i] # "/")
          /\ Append(v, x) \in Seq(P)
          /\ v = <<>> => Flat(Append(v, x)) = x
          /\ v # <<>> => Flat(Append(v, x)) = Flat(v) \o (<<"/">> \o x)
      <3>1. FlatGrows(C, v, x)
        BY FlatSteps
      <3> QED BY <3>1 DEF FlatGrows
    <2> HIDE DEF P
    <2>2. Append(v, x) = v \o <<x>> /\ <<x>> \in Q /\ <<x>> # <<>>
      OBVIOUS
    <2>3. CASE v = <<>>
      BY <2>1, <2>3
    <2>4. CASE v # <<>>
      <3> DEFINE s == Flat(v) \o (<<"/">> \o x)
      <3>1. /\ Len(s) = Len(Flat(v)) + 1 + Len(x) /\ Len(Flat(v)) \in Nat /\ Len(x) \in Nat
            /\ \A i \in 1..Len(Flat(v)) : s[i] = Flat(v)[i]
            /\ \A i \in 1..Len(x) : s[Len(Flat(v)) + 1 + i] = x[i]
        BY <2>1, JoinedAt
      <3>2. Flat(Append(v, x)) = s
        BY <2>1, <2>4
      <3> HIDE DEF s
      <3>3. ASSUME NEW i \in 1..Len(s), s[i] = "/"
            PROVE  Cut(Append(v, x), i)
        <4>1. CASE i \in 1..Len(Flat(v))
          <5>1. Flat(v)[i] = "/"
            BY <3>1, <3>3, <4>1
          <5>2. PICK u \in Q, w \in Q : u # <<>> /\ w # <<>> /\ v = u \o w /\ i = Len(Flat(u)) + 1
            BY <1>2, <2>4, <4>1, <5>1
          <5>3. u \o Append(w, x) = Append(u \o w, x)
            BY ConcatAppend
          <5>4. Append(w, x) \in Q
            OBVIOUS
          <5>5. Append(w, x) # <<>>
            BY AppendFacts
          <5> QED BY <5>2, <5>3, <5>4, <5>5
        <4>2. CASE i = Len(Flat(v)) + 1
          BY <2>2, <2>4, <4>2
        <4>3. CASE i > Len(Flat(v)) + 1
          <5>1. i - Len(Flat(v)) - 1 \in 1..Len(x) /\ Len(Flat(v)) + 1 + (i - Len(Flat(v)) - 1) = i
            BY <3>1, <4>3
          <5> QED BY <2>1, <3>1, <3>3, <5>1
        <4> HIDE DEF Cut
        <4>4. i \in 1..Len(Flat(v)) \/ i = Len(Flat(v)) + 1 \/ i > Len(Flat(v)) + 1
          <5>1. Len(Flat(v)) \in Nat /\ Len(s) \in Nat
            BY <3>1
          <5>2. i \in Nat /\ i >= 1
            BY <5>1
          <5> QED BY <5>1, <5>2
        <4> QED BY <4>1, <4>2, <4>3, <4>4
      <3> HIDE DEF Cut
      <3> QED BY <2>1, <3>2, <3>3
    <2> QED BY <2>3, <2>4
  <1> HIDE DEF T
  <1>3. n \in T
    BY <1>1, <1>2, ByLast
  <1> QED BY <1>3 DEF T, CutAt

\* A path has one name more than its text has slashes.
LEMMA FlatSlashes ==
    ASSUME NEW C, "/" \in C, "." \in C, NEW n \in Seq(Proper(C)), n # <<>>
    PROVE  Slashes(Flat(n)) \in Nat /\ Slashes(Flat(n)) + 1 = Len(n)
  <1> DEFINE P == Proper(C)
             T == {v \in Seq(P) : v # <<>> => Slashes(Flat(v)) \in Nat /\ Slashes(Flat(v)) + 1 = Len(v)}
  <1>1. <<>> \in T
    OBVIOUS
  <1>2. ASSUME NEW x \in P, NEW v \in Seq(P), v \in T
        PROVE  Append(v, x) \in T
    <2>1. /\ Flat(v) \in Seq(C) /\ x \in Seq(C) /\ (\A i \in 1..Len(x) : x[i] # "/")
          /\ Append(v, x) \in Seq(P) /\ Len(Append(v, x)) = Len(v) + 1
          /\ v = <<>> => Flat(Append(v, x)) = x
          /\ v # <<>> => Flat(Append(v, x)) = Flat(v) \o (<<"/">> \o x)
      <3>1. FlatGrows(C, v, x)
        BY FlatSteps
      <3> QED BY <3>1 DEF FlatGrows
    <2>2. Slashes(x) = 0
      <3>1. \A i \in DOMAIN x : x[i] # "/"
        BY <2>1
      <3> QED BY <3>1, SlashesNone
    <2>3. CASE v = <<>>
      BY <2>1, <2>2, <2>3
    <2>4. CASE v # <<>>
      <3>1. Slashes(Cons("/", x)) = 1 /\ Cons("/", x) \in Seq(C)
        <4>1. Cons("/", x) \in Seq(C)
          BY <2>1, ConsFacts
        <4> QED BY <2>1, <2>2, <4>1, SlashesCons
      <3>2. Slashes(Flat(v) \o Cons("/", x)) = Slashes(Flat(v)) + 1
        <4>1. Slashes(Flat(v) \o Cons("/", x)) = Slashes(Flat(v)) + Slashes(Cons("/", x))
          BY <2>1, <3>1, SlashesConcat
        <4> QED BY <3>1, <4>1
      <3>3. Cons("/", x) = <<"/">> \o x
        BY DEF Cons
      <3>4. Flat(Append(v, x)) = Flat(v) \o Cons("/", x)
        BY <2>1, <2>4, <3>3
      <3>5. Slashes(Flat(v)) \in Nat /\ Slashes(Flat(v)) + 1 = Len(v)
        BY <1>2, <2>4
      <3>6. Slashes(Flat(Append(v, x))) = Slashes(Flat(v)) + 1
        BY <3>2, <3>4
      <3>7. Len(v) \in Nat /\ Len(Append(v, x)) = Len(v) + 1
        BY <2>1
      <3>8. Slashes(Flat(Append(v, x))) \in Nat /\ Slashes(Flat(Append(v, x))) + 1 = Len(Append(v, x))
        BY <3>5, <3>6, <3>7
      <3> QED BY <2>1, <3>8
    <2> QED BY <2>3, <2>4
  <1> HIDE DEF T
  <1>3. n \in T
    BY <1>1, <1>2, ByLast
  <1> QED BY <1>3 DEF T

----------------------------------------------------------------------------
(* What is above a path. *)

LEMMA BelowIs ==
    ASSUME NEW C, NEW n \in Seq(C), NEW u \in Seq(C)
    PROVE  Below(n, u) <=> \E w \in Seq(C) : n = u \o w
  <1>1. ASSUME Below(n, u)
        PROVE  \E w \in Seq(C) : n = u \o w
    BY <1>1, Below2
  <1>2. ASSUME NEW w \in Seq(C), n = u \o w
        PROVE  Below(n, u)
    <2>1. Len(n) = Len(u) + Len(w) /\ Len(u) \in Nat /\ Len(w) \in Nat /\ \A i \in 1..Len(u) : n[i] = u[i]
      BY <1>2, ConcatFacts
    <2> DEFINE a == SubSeq(n, 1, Len(u))
    <2>2. a \in Seq(C) /\ Len(a) = Len(u) - 1 + 1 /\ \A i \in 1..Len(u) - 1 + 1 : a[i] = n[i + (1 - 1)]
      <3>1. 1 \in 1..Len(n) + 1 /\ Len(u) \in 1 - 1..Len(n)
        BY <2>1
      <3> QED BY <3>1, StretchFacts
    <2> HIDE DEF a
    <2>3. a = u
      <3>1. Len(a) = Len(u) /\ \A i \in 1..Len(u) : a[i] = u[i]
        BY <2>1, <2>2
      <3> QED BY <2>2, <3>1, SeqEqual
    <2>4. SubSeq(u, 1, Len(u)) = u
      OBVIOUS
    <2> QED BY <2>1, <2>3, <2>4 DEF a, Below, IsPrefix
  <1> QED BY <1>1, <1>2

LEMMA AboveIsFolder ==
    ASSUME NEW u \in Seq(Proper(Characters)), NEW w \in Seq(Proper(Characters)), w # <<>>, u \o w \in Nodes
    PROVE  u \in Folders
  <1> DEFINE P == Proper(Characters)
             T == {v \in Seq(P) : v # <<>> /\ u \o v \in Nodes => u \in Folders}
  <1>1. <<>> \in T
    OBVIOUS
  <1>2. ASSUME NEW x \in P, NEW v \in Seq(P), v \in T
        PROVE  Append(v, x) \in T
    <2> HIDE DEF P
    <2>0. u \in Seq(P)
      BY DEF P
    <2>1. u \o Append(v, x) = Append(u \o v, x) /\ u \o v \in Seq(P) /\ Append(v, x) \in Seq(P)
      <3>1. u \o v \in Seq(P) /\ Append(v, x) \in Seq(P)
        BY <2>0
      <3>2. u \o Append(v, x) = Append(u \o v, x)
        BY <2>0, ConcatAppend
      <3> QED BY <3>1, <3>2
    <2>2. ASSUME u \o Append(v, x) \in Nodes
          PROVE  u \in Folders
      <3> DEFINE m == u \o v
      <3>1. Append(m, x) \in Nodes /\ Append(m, x) # <<>> /\ m \in Seq(P)
        BY <2>1, <2>2
      <3> HIDE DEF m
      <3>2. Front(Append(m, x)) = m
        <4>1. Len(m) \in Nat /\ Len(Append(m, x)) = Len(m) + 1 /\ Front(Append(m, x)) = SubSeq(Append(m, x), 1, Len(m))
          BY <3>1 DEF Front
        <4>2. SubSeq(Append(m, x), 1, Len(m)) = m
          BY <3>1
        <4> QED BY <4>1, <4>2
      <3>3. m \in Folders /\ m \in Nodes
        BY <3>1, <3>2, SplitAssumption
      <3>4. v = <<>> => m = u
        BY <2>0 DEF m
      <3> QED BY <1>2, <3>3, <3>4 DEF m
    <2> QED BY <2>1, <2>2
  <1> HIDE DEF T
  <1>3. w \in T
    BY <1>1, <1>2, ByLast
  <1> QED BY <1>3 DEF T
----------------------------------------------------------------------------
(* Patterns as filter rules. *)

\* Pattern p is q within an anchoring slash, if o is 1, and a final one, if d is.
Wrapped(p, q, o, d) ==
    /\ o \in {0, 1} /\ (o = 1 <=> Anchored(p)) /\ d \in {0, 1} /\ (d = 1 <=> DirOnly(p))
    /\ Len(p) = o + Len(q) + d /\ (\A i \in 1..Len(q) : q[i] = p[i + o])
    /\ d = 1 => p[Len(p)] = "/"

LEMMA BareFacts ==
    ASSUME NEW p \in Patterns, Plain(p), ValidPattern(p)
    PROVE  /\ Bare(p) \in Seq(Tokens) /\ Bare(p) # <<>> /\ WellMade(Bare(p))
           /\ Bare(p)[1] # "/" /\ Bare(p)[Len(Bare(p))] # "/"
           /\ \E o, d \in {0, 1} : Wrapped(p, Bare(p), o, d)
  <1> DEFINE o == IF Anchored(p) THEN 1 ELSE 0
             d == IF DirOnly(p) THEN 1 ELSE 0
             t == IF Anchored(p) THEN Tail(p) ELSE p
             q == Bare(p)
  <1>1. WellMade(p) /\ p \in Seq(Tokens) /\ Len(p) \in Nat /\ WellMade(q) /\ q \in Seq(Tokens)
        /\ (q # <<>> => q[1] # "/" /\ q[Len(q)] # "/")
    BY PlainIsWellMade, BareIsWellMade DEF WellMade
  <1>2. t \in Seq(Tokens) /\ o + Len(t) = Len(p) /\ \A i \in 1..Len(t) : t[i] = p[i + o]
    BY <1>1 DEF Anchored
  <1>3. /\ DirOnly(p) <=> t # <<>> /\ t[Len(t)] = "/"
        /\ q = IF DirOnly(p) THEN SubSeq(t, 1, Len(t) - 1) ELSE t
    BY DEF Bare, DirOnly, Last, Front
  <1>4. o \in {0, 1} /\ (o = 1 <=> Anchored(p)) /\ d \in {0, 1} /\ (d = 1 <=> DirOnly(p))
    OBVIOUS
  <1>5. Anchored(p) => p[1] = "/"
    BY <1>1 DEF Anchored
  <1> HIDE DEF t, o, d, q
  <1>6. Len(q) + d = Len(t) /\ (\A i \in 1..Len(q) : q[i] = t[i]) /\ Len(q) \in Nat /\ Len(t) \in Nat
        /\ (d = 1 => t # <<>> /\ t[Len(t)] = "/")
    <2>1. CASE ~DirOnly(p)
      BY <1>2, <1>3, <1>4, <2>1
    <2>2. CASE DirOnly(p)
      <3>1. t # <<>> /\ Len(t) \in Nat /\ Len(t) >= 1 /\ t[Len(t)] = "/"
        BY <1>2, <1>3, <2>2
      <3> DEFINE m == Len(t) - 1
                 a == SubSeq(t, 1, m)
      <3>2. 1 \in 1..Len(t) + 1 /\ m \in 1 - 1..Len(t)
        BY <3>1
      <3>5. q = a
        BY <1>3, <2>2
      <3> HIDE DEF m
      <3>0. t \in Seq(Tokens)
        BY <1>2
      <3>3. a \in Seq(Tokens) /\ Len(a) = m - 1 + 1 /\ \A i \in 1..m - 1 + 1 : a[i] = t[i + (1 - 1)]
        BY <3>0, <3>2, StretchFacts
      <3> HIDE DEF a
      <3>4. m \in Nat /\ Len(a) = m /\ \A i \in 1..m : a[i] = t[i]
        BY <3>1, <3>3 DEF m
      <3> QED BY <1>4, <2>2, <3>1, <3>4, <3>5 DEF m
    <2> QED BY <2>1, <2>2
  <1>7. Len(p) = o + Len(q) + d
    BY <1>2, <1>4, <1>6
  <1>8. \A i \in 1..Len(q) : q[i] = p[i + o]
    <2>1. \A i \in 1..Len(q) : i \in 1..Len(t)
      BY <1>4, <1>6
    <2> QED BY <1>2, <1>6, <2>1
  <1>9. d = 1 => p[Len(p)] = "/"
    <2>1. d = 1 => Len(t) \in 1..Len(t) /\ Len(t) + o = Len(p)
      BY <1>2, <1>4, <1>6
    <2> QED BY <1>2, <1>6, <2>1
  <1>10. q # <<>>
    <2> SUFFICES ASSUME q = <<>> PROVE FALSE
      OBVIOUS
    <2>1. Len(q) = 0
      OBVIOUS
    <2>2. PICK i \in DOMAIN p : p[i] # "/"
      BY DEF ValidPattern
    <2>3. i \in 1..o + d
      BY <1>1, <1>4, <1>7, <2>1
    <2>4. i = 1 \/ i = 2
      BY <1>4, <2>3
    <2>5. CASE o = 1 /\ i = 1
      BY <1>4, <1>5, <2>2, <2>5
    <2>6. CASE ~(o = 1 /\ i = 1)
      <3>1. d = 1 /\ i = Len(p)
        BY <1>4, <1>7, <2>1, <2>3, <2>4, <2>6
      <3> QED BY <1>9, <2>2, <3>1
    <2> QED BY <2>5, <2>6
  <1>11. Wrapped(p, q, o, d)
    BY <1>4, <1>7, <1>8, <1>9 DEF Wrapped
  <1> QED BY <1>1, <1>4, <1>10, <1>11 DEF q

\* The two tokens that take what is in a directory.
Inside == <<"/", "***">>

LEMMA PayloadFacts ==
    ASSUME NEW p \in Patterns, Plain(p), ValidPattern(p)
    PROVE  /\ Anchored(Payload(p)) <=> Anchored(p)
           /\ ~DirOnly(Payload(p)) /\ Bare(Payload(p)) = Bare(p) \o Inside
           /\ ~Anchored(p) => Payload(p) = Bare(p) \o Inside
  <1> DEFINE q == Bare(p)
             S == {i \in DOMAIN p : p[i] # "/"}
             C == Tokens \cup {"***"}
  <1>1. p \in Seq(Tokens) /\ q \in Seq(Tokens) /\ q # <<>> /\ q[1] # "/" /\ q[Len(q)] # "/" /\ Len(q) \in Nat /\ Len(q) >= 1
    <2>1. p \in Seq(Tokens) /\ q \in Seq(Tokens) /\ q # <<>> /\ q[1] # "/" /\ q[Len(q)] # "/"
      BY BareFacts, SplitAssumption
    <2> HIDE DEF q
    <2>2. Len(q) \in Nat /\ Len(q) >= 1
      BY <2>1
    <2> QED BY <2>1, <2>2
  <1>2. PICK o \in {0, 1}, d \in {0, 1} : Wrapped(p, q, o, d)
    BY BareFacts
  <1>3. /\ (o = 1 <=> Anchored(p)) /\ Len(p) = o + Len(q) + d /\ (\A i \in 1..Len(q) : q[i] = p[i + o])
        /\ d = 1 => p[Len(p)] = "/"
    BY <1>2 DEF Wrapped
  <1> DEFINE m == o + Len(q)
  <1> HIDE DEF q
  <1>4. m \in Nat /\ m >= 1 /\ m <= Len(p) /\ Len(p) \in Nat /\ Len(p) = m + d /\ o < m
    BY <1>1, <1>3
  <1>5. Max(S) = m
    <2>1. m \in S
      <3>1. Len(q) \in 1..Len(q) /\ Len(q) + o = m /\ m \in 1..Len(p)
        BY <1>1, <1>4
      <3>2. q[Len(q)] = p[m]
        BY <1>3, <3>1
      <3> HIDE DEF m
      <3> QED BY <1>1, <3>1, <3>2
    <2> HIDE DEF m
    <2>2. \A i \in S : i <= m
      BY <1>1, <1>3, <1>4
    <2>3. S \in SUBSET (0..Len(p)) /\ S # {}
      BY <1>1, <2>1
    <2>4. Max(S) \in S /\ \A y \in S : Max(S) >= y
      BY <1>4, <2>3, GreatestUpTo
    <2>5. Max(S) \in Nat /\ Max(S) <= m /\ Max(S) >= m
      <3>1. Max(S) \in 0..Len(p)
        BY <2>3, <2>4
      <3> HIDE DEF S
      <3> QED BY <2>1, <2>2, <2>4, <3>1, <1>4
    <2> QED BY <1>4, <2>5
  <1> HIDE DEF S
  <1> DEFINE a == SubSeq(p, 1, m)
             r == a \o Inside
             g == q \o Inside
  <1>6. Payload(p) = r
    BY <1>5 DEF Payload, Inside, S
  <1> HIDE DEF m
  <1>7. Inside \in Seq(C) /\ Len(Inside) = 2 /\ Inside[1] = "/" /\ Inside[2] = "***"
    <2>1. "/" \in C
      BY SplitAssumption DEF Tokens
    <2> QED BY <2>1 DEF Inside
  <1>8. p \in Seq(C) /\ q \in Seq(C)
    BY <1>1
  <1> HIDE DEF C
  <1>9. a \in Seq(C) /\ Len(a) = m /\ \A i \in 1..m : a[i] = p[i]
    <2>1. 1 \in 1..Len(p) + 1 /\ m \in 1 - 1..Len(p)
      BY <1>4
    <2>2. a \in Seq(C) /\ Len(a) = m - 1 + 1 /\ \A i \in 1..m - 1 + 1 : a[i] = p[i + (1 - 1)]
      BY <1>8, <2>1, StretchFacts
    <2> HIDE DEF a
    <2> QED BY <1>4, <2>2
  <1> HIDE DEF a
  <1>10. /\ r \in Seq(C) /\ Len(r) = m + 2 /\ (\A i \in 1..m : r[i] = p[i])
         /\ r[m + 1] = "/" /\ r[m + 2] = "***"
    <2>1. /\ r \in Seq(C) /\ Len(r) = Len(a) + Len(Inside)
          /\ \A i \in 1..Len(a) : r[i] = a[i]
          /\ \A i \in 1..Len(Inside) : r[Len(a) + i] = Inside[i]
      BY <1>7, <1>9, ConcatFacts
    <2>2. 1 \in 1..Len(Inside) /\ 2 \in 1..Len(Inside)
      BY <1>7
    <2> HIDE DEF r
    <2> QED BY <1>7, <1>9, <2>1, <2>2
  <1>11. /\ g \in Seq(C) /\ Len(g) = Len(q) + 2 /\ (\A i \in 1..Len(q) : g[i] = q[i])
         /\ g[Len(q) + 1] = "/" /\ g[Len(q) + 2] = "***"
    <2>0. q \in Seq(C) /\ Inside \in Seq(C)
      BY <1>7, <1>8
    <2>1. /\ g \in Seq(C) /\ Len(g) = Len(q) + Len(Inside)
          /\ \A i \in 1..Len(q) : g[i] = q[i]
          /\ \A i \in 1..Len(Inside) : g[Len(q) + i] = Inside[i]
      BY <2>0, ConcatFacts
    <2>2. 1 \in 1..Len(Inside) /\ 2 \in 1..Len(Inside)
      BY <1>7
    <2> HIDE DEF g
    <2> QED BY <1>7, <2>1, <2>2
  <1> HIDE DEF r, g
  <1>12. Anchored(r) <=> Anchored(p)
    <2>1. r # <<>> /\ p # <<>> /\ Head(r) = r[1] /\ Head(p) = p[1] /\ r[1] = p[1]
      BY <1>1, <1>4, <1>10
    <2> QED BY <2>1 DEF Anchored
  <1> DEFINE t == IF Anchored(r) THEN Tail(r) ELSE r
  <1>13. t \in Seq(C) /\ Len(t) = Len(q) + 2 /\ \A i \in 1..Len(q) + 2 : t[i] = r[i + o]
    <2>1. CASE o = 1
      <3>1. t = Tail(r) /\ Len(r) = Len(q) + 3 /\ r # <<>>
        BY <1>1, <1>3, <1>10, <1>12, <2>1 DEF m
      <3>2. Tail(r) \in Seq(C) /\ Len(Tail(r)) = Len(r) - 1 /\ \A i \in 1..Len(r) - 1 : Tail(r)[i] = r[i + 1]
        BY <1>10, <3>1
      <3> HIDE DEF t
      <3> QED BY <1>1, <2>1, <3>1, <3>2
    <2>2. CASE o = 0
      <3>1. t = r /\ Len(r) = Len(q) + 2
        BY <1>1, <1>3, <1>10, <1>12, <2>2 DEF m
      <3> HIDE DEF t
      <3> QED BY <1>10, <2>2, <3>1
    <2> QED BY <1>2, <2>1, <2>2
  <1>14. (DirOnly(r) <=> t # <<>> /\ t[Len(t)] = "/") /\ (~DirOnly(r) => Bare(r) = t)
    BY DEF DirOnly, Bare, Last
  <1>15. ~Anchored(r) => t = r
    OBVIOUS
  <1> HIDE DEF t
  <1>16. \A i \in 1..Len(q) + 2 : t[i] = g[i]
    <2>1. ASSUME NEW i \in 1..Len(q)
          PROVE  t[i] = g[i]
      <3>1. i \in 1..Len(q) + 2 /\ i + o \in 1..m
        BY <1>1 DEF m
      <3> QED BY <1>3, <1>10, <1>11, <1>13, <3>1
    <2>2. t[Len(q) + 1] = g[Len(q) + 1]
      <3>1. Len(q) + 1 \in 1..Len(q) + 2 /\ Len(q) + 1 + o = m + 1
        BY <1>1 DEF m
      <3> QED BY <1>10, <1>11, <1>13, <3>1
    <2>3. t[Len(q) + 2] = g[Len(q) + 2]
      <3>1. Len(q) + 2 \in 1..Len(q) + 2 /\ Len(q) + 2 + o = m + 2
        BY <1>1 DEF m
      <3> QED BY <1>10, <1>11, <1>13, <3>1
    <2>4. \A i \in 1..Len(q) + 2 : i \in 1..Len(q) \/ i = Len(q) + 1 \/ i = Len(q) + 2
      BY <1>1
    <2> QED BY <2>1, <2>2, <2>3, <2>4
  <1>17. t = g
    BY <1>11, <1>13, <1>16, SeqEqual
  <1>18. ~DirOnly(r)
    BY <1>11, <1>14, <1>17
  <1>19. Bare(r) = g /\ (~Anchored(p) => r = g)
    BY <1>12, <1>14, <1>15, <1>17, <1>18
  <1> QED BY <1>6, <1>12, <1>18, <1>19 DEF g, q

LEMMA InsideLeads ==
    ASSUME NEW C, {"/", "***"} \subseteq C, NEW q \in Seq(C), NEW s, Len(s) \in Nat, NEW k
    PROVE  Leads(q \o Inside, s, k, Len(s)) <=> \E j \in 1..Len(s) : s[j] = "/" /\ Leads(q, s, k, j - 1)
  <1> DEFINE e == Cons("***", <<>>)
             f == Cons("/", e)
  <1>1. "/" \in C /\ "***" \in C /\ <<>> \in Seq(C) /\ Len(s) \in 0..Len(s)
    OBVIOUS
  <1>2. e \in Seq(C) /\ f \in Seq(C)
    BY <1>1, ConsFacts
  <1>3. f = Inside
    <2>1. e = <<"***">>
      BY DEF Cons
    <2>2. <<"/">> \o <<"***">> = <<"/", "***">>
      BY <1>1, PairIs
    <2> QED BY <2>1, <2>2 DEF Cons, Inside
  <1>4. \A m : Leads(f, s, m, Len(s)) <=> m \in 0..Len(s) - 1 /\ s[m + 1] = "/"
    <2>1. ASSUME NEW m
          PROVE  Leads(f, s, m, Len(s)) <=> m \in 0..Len(s) - 1 /\ s[m + 1] = "/" /\ Leads(e, s, m + 1, Len(s))
      <3> HIDE DEF e
      <3> QED BY <1>1, <1>2, LeadsSlash
    <2>2. \A m : Leads(e, s, m, Len(s)) <=> m \in 0..Len(s) /\ \E i \in m..Len(s) : Leads(<<>>, s, i, Len(s))
      BY <1>1, LeadsDeep
    <2>3. Leads(<<>>, s, Len(s), Len(s))
      BY <1>1, LeadsEmpty
    <2> HIDE DEF e, f
    <2>4. \A m \in 0..Len(s) - 1 : m + 1 \in 0..Len(s) /\ Len(s) \in m + 1..Len(s)
      OBVIOUS
    <2> QED BY <2>1, <2>2, <2>3, <2>4
  <1> HIDE DEF e, f
  <1>5. Leads(q \o f, s, k, Len(s)) <=> \E m \in 0..Len(s) : Leads(q, s, k, m) /\ Leads(f, s, m, Len(s))
    BY <1>1, <1>2, LeadsConcat
  <1>6. \A m \in 0..Len(s) - 1 : m + 1 \in 1..Len(s) /\ m + 1 - 1 = m
    OBVIOUS
  <1>7. \A j \in 1..Len(s) : j - 1 \in 0..Len(s) - 1 /\ j - 1 \in 0..Len(s) /\ j - 1 + 1 = j
    OBVIOUS
  <1>8. ASSUME Leads(q \o f, s, k, Len(s))
        PROVE  \E j \in 1..Len(s) : s[j] = "/" /\ Leads(q, s, k, j - 1)
    <2>1. PICK m \in 0..Len(s) : Leads(q, s, k, m) /\ Leads(f, s, m, Len(s))
      BY <1>5, <1>8
    <2>2. m \in 0..Len(s) - 1 /\ s[m + 1] = "/"
      BY <1>4, <2>1
    <2> QED BY <1>6, <2>1, <2>2
  <1>9. ASSUME NEW j \in 1..Len(s), s[j] = "/", Leads(q, s, k, j - 1)
        PROVE  Leads(q \o f, s, k, Len(s))
    <2>1. Leads(f, s, j - 1, Len(s))
      BY <1>4, <1>7, <1>9
    <2> QED BY <1>5, <1>7, <1>9, <2>1
  <1> QED BY <1>3, <1>8, <1>9
----------------------------------------------------------------------------
(* How far into a path a rule reaches. *)

Edge(s, k) == k = 0 \/ s[k] = "/"

\* What rule p matches of s, from where it may begin, ends at j.
Reaches(p, s, j) ==
    IF Anchored(p) THEN Leads(Bare(p), s, 0, j)
    ELSE IF Bare(p)[1] = "**" THEN Leads(Bare(p), Cons("/", s), 0, j + 1)
    ELSE \E k \in 0..Len(s) : Edge(s, k) /\ Leads(Bare(p), s, k, j)

LEMMA ReachesWithin ==
    ASSUME NEW p, NEW T, Bare(p) \in Seq(T), NEW C, "/" \in C, NEW v \in Seq(C), NEW s \in Seq(C),
           Lies(v, s, 0), NEW j \in 0..Len(v)
    PROVE  Reaches(p, v, j) <=> Reaches(p, s, j)
  <1> DEFINE q == Bare(p)
             cv == Cons("/", v)
             cs == Cons("/", s)
  <1>1. /\ Len(v) \in Nat /\ Len(s) \in Nat /\ Len(v) <= Len(s) /\ j \in 0..Len(s)
        /\ \A x \in 1..Len(v) : s[x] = v[x]
    <2>1. \A x \in 1..Len(v) : 0 + x = x
      OBVIOUS
    <2> QED BY <2>1 DEF Lies
  <1>2. ASSUME NEW k \in 0..Len(v)
        PROVE  Leads(q, s, k, j) <=> Leads(q, v, k, j)
    <2>1. Leads(q, s, 0 + k, 0 + j) <=> Leads(q, v, k, j)
      <3> HIDE DEF q
      <3>1. q \in Seq(T)
        BY DEF q
      <3> QED BY <3>1, LeadsWithin
    <2> QED BY <2>1
  <1>3. Leads(q, cs, 0, j + 1) <=> Leads(q, cv, 0, j + 1)
    <2>1. /\ Len(cv) = Len(v) + 1 /\ cv[1] = "/" /\ \A i \in 1..Len(v) : cv[i + 1] = v[i]
      BY BehindHead
    <2>2. /\ Len(cs) = Len(s) + 1 /\ cs[1] = "/" /\ \A i \in 1..Len(s) : cs[i + 1] = s[i]
      BY BehindHead
    <2> HIDE DEF cv, cs
    <2>3. ASSUME NEW x \in 1..Len(cv)
          PROVE  cs[0 + x] = cv[x]
      <3>1. CASE x = 1
        BY <2>1, <2>2, <3>1
      <3>2. CASE x # 1
        <4>1. x - 1 \in 1..Len(v) /\ x - 1 \in 1..Len(s) /\ x - 1 + 1 = x /\ 0 + x = x
          BY <1>1, <2>1, <3>2
        <4> QED BY <1>1, <2>1, <2>2, <4>1
      <3> QED BY <3>1, <3>2
    <2>4. Lies(cv, cs, 0)
      BY <1>1, <2>1, <2>2, <2>3 DEF Lies
    <2>5. 0 \in 0..Len(cv) /\ j + 1 \in 0..Len(cv) /\ 0 + 0 = 0 /\ 0 + (j + 1) = j + 1
      BY <1>1, <2>1
    <2>6. Leads(q, cs, 0 + 0, 0 + (j + 1)) <=> Leads(q, cv, 0, j + 1)
      <3> HIDE DEF q
      <3>1. q \in Seq(T)
        BY DEF q
      <3> QED BY <2>4, <2>5, <3>1, LeadsWithin
    <2> QED BY <2>5, <2>6
  <1>4. (\E k \in 0..Len(s) : Edge(s, k) /\ Leads(q, s, k, j)) <=> \E k \in 0..Len(v) : Edge(v, k) /\ Leads(q, v, k, j)
    <2>1. \A k \in 0..Len(v) : k \in 0..Len(s) /\ (Edge(s, k) <=> Edge(v, k))
      BY <1>1 DEF Edge
    <2>2. ASSUME NEW k \in 0..Len(s), Leads(q, s, k, j)
          PROVE  k \in 0..Len(v)
      <3> HIDE DEF q
      <3>1. q \in Seq(T)
        BY DEF q
      <3>2. k \in 0..j
        BY <1>1, <2>2, <3>1, LeadsForward
      <3> QED BY <1>1, <3>2
    <2> HIDE DEF q
    <2> QED BY <1>2, <2>1, <2>2
  <1>5. 0 \in 0..Len(v)
    BY <1>1
  <1>6. Leads(q, s, 0, j) <=> Leads(q, v, 0, j)
    BY <1>2, <1>5
  <1> QED BY <1>3, <1>4, <1>6, Zenon DEF Reaches

LEMMA TailLies ==
    ASSUME NEW C, "/" \in C, "." \in C,
           NEW u \in Seq(Proper(C)), u # <<>>, NEW w \in Seq(Proper(C)), w # <<>>
    PROVE  /\ Flat(u) \in Seq(C) /\ Flat(w) \in Seq(C) /\ Flat(u \o w) \in Seq(C)
           /\ Len(Flat(u)) \in Nat /\ Len(Flat(w)) \in Nat
           /\ Len(Flat(u \o w)) = Len(Flat(u)) + 1 + Len(Flat(w))
           /\ Flat(u \o w)[Len(Flat(u)) + 1] = "/"
           /\ Lies(Flat(u), Flat(u \o w), 0) /\ Lies(Flat(w), Flat(u \o w), Len(Flat(u)) + 1)
  <1> DEFINE a == Flat(u)
             c == Flat(w)
             s == Flat(u \o w)
  <1>1. a \in Seq(C) /\ c \in Seq(C)
    BY PathOfFlat
  <1>2. s = a \o (<<"/">> \o c)
    BY FlatConcat
  <1> HIDE DEF a, c, s
  <1>3. /\ s \in Seq(C)
        /\ Len(s) = Len(a) + 1 + Len(c) /\ Len(a) \in Nat /\ Len(c) \in Nat
        /\ \A i \in 1..Len(a) : s[i] = a[i]
        /\ s[Len(a) + 1] = "/"
        /\ \A i \in 1..Len(c) : s[Len(a) + 1 + i] = c[i]
    BY <1>1, <1>2, JoinedAt
  <1>4. Lies(a, s, 0)
    <2>1. \A i \in 1..Len(a) : 0 + i = i
      OBVIOUS
    <2> QED BY <1>3, <2>1 DEF Lies
  <1>5. Lies(c, s, Len(a) + 1)
    BY <1>3 DEF Lies
  <1> QED BY <1>1, <1>3, <1>4, <1>5 DEF a, c, s

LEMMA DropHead ==
    ASSUME NEW C, NEW u \in Seq(C), NEW w \in Seq(C)
    PROVE  Drop(u \o w, Len(u)) = w
  <1> DEFINE s == u \o w
             l == Len(u)
             n == Len(s)
             b == SubSeq(s, l + 1, n)
  <1>1. s \in Seq(C) /\ n = l + Len(w) /\ l \in Nat /\ Len(w) \in Nat /\ \A i \in 1..Len(w) : s[l + i] = w[i]
    BY ConcatFacts
  <1>2. Drop(s, l) = b
    BY DEF Drop
  <1> HIDE DEF s, l, n
  <1>3. l + 1 \in 1..Len(s) + 1 /\ n \in l + 1 - 1..Len(s)
    BY <1>1 DEF n
  <1>4. b \in Seq(C) /\ Len(b) = n - (l + 1) + 1 /\ \A i \in 1..n - (l + 1) + 1 : b[i] = s[i + (l + 1 - 1)]
    BY <1>1, <1>3, StretchFacts
  <1> HIDE DEF b
  <1>5. n - (l + 1) + 1 = Len(w) /\ \A i \in 1..Len(w) : i + (l + 1 - 1) = l + i
    BY <1>1
  <1>6. b = w
    <2>1. Len(b) = Len(w) /\ \A i \in 1..Len(b) : b[i] = w[i]
      BY <1>1, <1>4, <1>5
    <2> QED BY <1>4, <2>1, SeqEqual
  <1> QED BY <1>2, <1>6 DEF s, l

\* To look at as many last names as the rule has is to let it begin at any name.
LEMMA LastNames ==
    ASSUME NEW C, "/" \in C, "." \in C, NEW q \in Seq(Shallow), NEW m \in Seq(Proper(C)), m # <<>>
    PROVE  Len(m) > Slashes(q) /\ WildMatch(q, Flat(Drop(m, Len(m) - Slashes(q) - 1)))
           <=> \E k \in 0..Len(Flat(m)) : Edge(Flat(m), k) /\ Leads(q, Flat(m), k, Len(Flat(m)))
  <1> DEFINE P == Proper(C)
             t == Flat(m)
             n == Slashes(q)
             Ends(v) == Leads(q, Flat(v), 0, Len(Flat(v)))
  <1>1. n \in Nat
    BY SlashesConcat
  <1>2. "**" \notin Shallow /\ "***" \notin Shallow
    BY SplitAssumption DEF Shallow
  <1>3. \A v \in Seq(P) : Flat(v) \in Seq(C) /\ Len(Flat(v)) \in Nat
    <2>1. \A v \in Seq(P) : Flat(v) \in Seq(C)
      BY PathOfFlat
    <2> QED BY <2>1
  <1>4. \A v \in Seq(P) : v # <<>> /\ Ends(v) => n + 1 = Len(v)
    <2>1. ASSUME NEW v \in Seq(P), v # <<>>, Ends(v)
          PROVE  n + 1 = Len(v)
      <3> HIDE DEF P
      <3>1. Flat(v) \in Seq(C)
        BY <1>3
      <3>2. Slashes(q) = Slashes(Flat(v))
        BY <1>2, <2>1, <3>1, LeadsCounts
      <3>3. Slashes(Flat(v)) + 1 = Len(v)
        BY <2>1, FlatSlashes DEF P
      <3> QED BY <3>2, <3>3
    <2> QED BY <2>1
  <1>5. \A u, w \in Seq(P) : u # <<>> /\ w # <<>> /\ m = u \o w =>
           /\ Len(Flat(u)) + 1 \in 0..Len(t) /\ Edge(t, Len(Flat(u)) + 1)
           /\ Leads(q, t, Len(Flat(u)) + 1, Len(t)) <=> Ends(w)
    <2>1. ASSUME NEW u \in Seq(P), NEW w \in Seq(P), u # <<>>, w # <<>>, m = u \o w
          PROVE  /\ Len(Flat(u)) + 1 \in 0..Len(t) /\ Edge(t, Len(Flat(u)) + 1)
                 /\ Leads(q, t, Len(Flat(u)) + 1, Len(t)) <=> Ends(w)
      <3> DEFINE k == Len(Flat(u)) + 1
                 c == Flat(w)
      <3>1. /\ Len(Flat(u)) \in Nat /\ Len(c) \in Nat /\ Len(t) = k + Len(c)
            /\ t[k] = "/" /\ Lies(c, t, k)
        BY <2>1, TailLies
      <3> HIDE DEF t, c
      <3>2. k \in Nat /\ k \in 0..Len(t) /\ k + 0 = k /\ 0 \in 0..Len(c) /\ Len(c) \in 0..Len(c)
        BY <3>1
      <3> HIDE DEF k
      <3>3. Leads(q, t, k + 0, k + Len(c)) <=> Leads(q, c, 0, Len(c))
        BY <3>1, <3>2, LeadsWithin
      <3>4. Leads(q, t, k, Len(t)) <=> Leads(q, c, 0, Len(c))
        BY <3>1, <3>2, <3>3
      <3> QED BY <3>1, <3>2, <3>4 DEF Edge, k, c
    <2> QED BY <2>1
  <1>6. \A v : WildMatch(q, Flat(v)) <=> Ends(v)
    BY DEF WildMatch, Leads
  <1>7. Len(m) \in Nat /\ Len(m) >= 1
    OBVIOUS
  <1> HIDE DEF P, n, t, Ends
  <1>8. ASSUME Len(m) > n, WildMatch(q, Flat(Drop(m, Len(m) - n - 1)))
        PROVE  \E k \in 0..Len(t) : Edge(t, k) /\ Leads(q, t, k, Len(t))
    <2> DEFINE b == Len(m) - n - 1
               u == SubSeq(m, 1, b)
               w == SubSeq(m, b + 1, Len(m))
    <2>0. m \in Seq(P)
      BY DEF P
    <2>1. b \in Nat /\ b < Len(m)
      BY <1>1, <1>7, <1>8
    <2>2. Ends(w)
      BY <1>6, <1>8 DEF Drop
    <2> HIDE DEF b
    <2>3. 1 \in 1..Len(m) + 1 /\ b \in 1 - 1..Len(m) /\ b + 1 \in 1..Len(m) + 1 /\ Len(m) \in b + 1 - 1..Len(m) /\ Len(m) \in b..Len(m)
      BY <1>7, <2>1
    <2>4. u \in Seq(P) /\ Len(u) = b - 1 + 1
      BY <2>0, <2>3, StretchFacts
    <2>5. w \in Seq(P) /\ Len(w) = Len(m) - (b + 1) + 1
      BY <2>0, <2>3, StretchFacts
    <2>6. u \o w = m
      <3>1. SubSeq(m, 1, b) \o SubSeq(m, b + 1, Len(m)) = SubSeq(m, 1, Len(m))
        BY <2>0, <2>3, StretchesJoin
      <3>2. SubSeq(m, 1, Len(m)) = m
        BY <2>0
      <3> QED BY <3>1, <3>2
    <2> HIDE DEF u, w
    <2>7. w # <<>> /\ (u = <<>> => w = m)
      <3>1. Len(w) # 0
        BY <1>7, <2>1, <2>5
      <3>2. u = <<>> => u \o w = w
        BY <2>5
      <3> QED BY <2>6, <3>1, <3>2
    <2>8. CASE u = <<>>
      <3>1. Leads(q, t, 0, Len(t)) /\ 0 \in 0..Len(t)
        BY <1>3, <2>0, <2>2, <2>7, <2>8 DEF Ends, t
      <3> QED BY <3>1 DEF Edge
    <2>9. CASE u # <<>>
      <3>1. Len(Flat(u)) + 1 \in 0..Len(t) /\ Edge(t, Len(Flat(u)) + 1) /\ Leads(q, t, Len(Flat(u)) + 1, Len(t))
        BY <1>5, <2>2, <2>4, <2>5, <2>6, <2>7, <2>9
      <3> QED BY <3>1
    <2> QED BY <2>8, <2>9
  <1>9. ASSUME NEW k \in 0..Len(t), Edge(t, k), Leads(q, t, k, Len(t))
        PROVE  Len(m) > n /\ WildMatch(q, Flat(Drop(m, Len(m) - n - 1)))
    <2>0. m \in Seq(P)
      BY DEF P
    <2>1. CASE k = 0
      <3>1. Ends(m)
        BY <1>9, <2>1 DEF Ends, t
      <3>2. n + 1 = Len(m)
        BY <1>4, <2>0, <3>1
      <3>3. Drop(m, 0) = m
        BY <2>0 DEF Drop
      <3>4. Len(m) - n - 1 = 0 /\ Len(m) > n
        BY <1>1, <3>2
      <3> QED BY <1>6, <3>1, <3>3, <3>4
    <2>2. CASE k # 0
      <3>1. t[k] = "/" /\ k \in 1..Len(t)
        BY <1>9, <2>2 DEF Edge
      <3>2. PICK u \in Seq(P), w \in Seq(P) : u # <<>> /\ w # <<>> /\ m = u \o w /\ k = Len(Flat(u)) + 1
        <4>1. Flat(m)[k] = "/" /\ k \in 1..Len(Flat(m))
          BY <3>1 DEF t
        <4>2. CutAt(C, m, k)
          BY <4>1, SlashesCut
        <4> QED BY <4>2 DEF P, CutAt
      <3>3. Ends(w)
        BY <1>5, <1>9, <3>2
      <3>4. n + 1 = Len(w)
        BY <1>4, <3>2, <3>3
      <3>5. Drop(m, Len(u)) = w /\ Len(m) = Len(u) + Len(w) /\ Len(u) \in Nat
        BY <3>2, DropHead, ConcatFacts
      <3>6. Len(m) - n - 1 = Len(u) /\ Len(m) > n
        <4>1. n \in Nat /\ Len(u) \in Nat /\ Len(m) = Len(u) + (n + 1)
          BY <1>1, <3>4, <3>5
        <4> HIDE DEF n
        <4> QED BY <4>1
      <3> QED BY <1>6, <3>3, <3>5, <3>6
    <2> QED BY <2>1, <2>2
  <1> QED BY <1>8, <1>9 DEF n, t
----------------------------------------------------------------------------
(* What the filter rules take. *)

LEMMA HasTokens ==
    ASSUME NEW q \in Seq(Tokens), q # <<>>
    PROVE  Last(q) # "***" /\ ~Has(q, "***") /\ Head(q) = q[1] /\ Last(q) = q[Len(q)] /\ Len(q) \in Nat /\ Len(q) >= 1
  <1>1. "***" \notin Tokens
    BY SplitAssumption
  <1> HIDE DEF Tokens
  <1>2. Len(q) \in Nat /\ Len(q) >= 1 /\ Len(q) \in 1..Len(q) /\ Last(q) = q[Len(q)] /\ Head(q) = q[1]
    BY DEF Last
  <1>3. \A i \in DOMAIN q : q[i] \in Tokens
    OBVIOUS
  <1> QED BY <1>1, <1>2, <1>3 DEF Has

\* A rule takes the paths it reaches the end of.
LEMMA RuleReaches ==
    ASSUME NEW p \in Patterns, Plain(p), ValidPattern(p), NEW m \in Nodes, m # <<>>
    PROVE  RuleMatches(p, m) <=> (DirOnly(p) => m \in Folders) /\ Reaches(p, Flat(m), Len(Flat(m)))
  <1> DEFINE q == Bare(p)
             t == Flat(m)
             Ending == DirOnly(p) => m \in Folders
  <1>1. q \in Seq(Tokens) /\ q # <<>>
    BY BareFacts
  <1>2. t \in Seq(Characters) /\ Len(t) \in Nat /\ Len(t) \in 0..Len(t) /\ m \in Seq(Proper(Characters))
        /\ "/" \in Characters /\ "." \in Characters
    <2>1. t \in Seq(Characters) /\ Len(t) \in Nat /\ m \in Seq(Proper(Characters))
      BY NodeTexts, NodesAreProper
    <2>2. "/" \in Characters /\ "." \in Characters
      BY SplitAssumption
    <2> HIDE DEF t
    <2> QED BY <2>1, <2>2
  <1>3. Cons("/", t) = <<"/">> \o t /\ Len(Cons("/", t)) = Len(t) + 1
    <2>1. Cons("/", t) = <<"/">> \o t
      BY DEF Cons
    <2> HIDE DEF t
    <2> QED BY <1>2, <2>1, BehindHead
  <1>4. RuleMatches(p, m) <=>
           /\ Ending
           /\ IF Anchored(p) THEN WildMatch(q, t)
              ELSE IF q[1] = "**" THEN WildMatch(q, <<"/">> \o t)
              ELSE IF Has(q, "**") THEN \E k \in Wild(q, t, {Len(t)}) : k = 0 \/ t[k] = "/"
              ELSE Len(m) > Slashes(q) /\ WildMatch(q, Flat(Drop(m, Len(m) - Slashes(q) - 1)))
    <2>1. Last(q) # "***" /\ ~Has(q, "***") /\ Head(q) = q[1]
      <3> HIDE DEF q
      <3> QED BY <1>1, HasTokens
    <2> QED BY <2>1, Zenon DEF RuleMatches, Slashes
  <1>5. \A s : WildMatch(q, s) <=> Leads(q, s, 0, Len(s))
    BY DEF WildMatch, Leads
  <1>6. \A k : k \in Wild(q, t, {Len(t)}) <=> k \in 0..Len(t) /\ Leads(q, t, k, Len(t))
    <2> HIDE DEF q, t
    <2>1. \A k : Leads(q, t, k, Len(t)) => k \in 0..Len(t)
      BY <1>1, <1>2, LeadsType
    <2> QED BY <2>1 DEF Leads
  <1>7. ~Has(q, "**") => q \in Seq(Shallow)
    <2> HIDE DEF q
    <2> SUFFICES ASSUME ~Has(q, "**") PROVE q \in Seq(Shallow)
      OBVIOUS
    <2>1. \A i \in 1..Len(q) : q[i] \in Shallow
      BY <1>1 DEF Shallow, Has
    <2>2. q \in [1..Len(q) -> Shallow] /\ Len(q) \in Nat
      BY <1>1, <2>1
    <2> QED BY <2>2, FunctionIsSequence, Zenon
  <1>8. Reaches(p, t, Len(t)) <=>
           IF Anchored(p) THEN Leads(q, t, 0, Len(t))
           ELSE IF q[1] = "**" THEN Leads(q, Cons("/", t), 0, Len(t) + 1)
           ELSE \E k \in 0..Len(t) : Edge(t, k) /\ Leads(q, t, k, Len(t))
    BY DEF Reaches
  <1>9. q \in Seq(Shallow) =>
           (/\ Len(m) > Slashes(q) /\ WildMatch(q, Flat(Drop(m, Len(m) - Slashes(q) - 1)))
            <=> \E k \in 0..Len(t) : Edge(t, k) /\ Leads(q, t, k, Len(t)))
    BY <1>2, LastNames
  <1> HIDE DEF q, t, Ending
  <1>10. CASE Anchored(p)
    BY <1>4, <1>5, <1>8, <1>10, Zenon DEF Ending, t
  <1>11. CASE ~Anchored(p) /\ q[1] = "**"
    BY <1>3, <1>4, <1>5, <1>8, <1>11, Zenon DEF Ending, t
  <1>12. CASE ~Anchored(p) /\ q[1] # "**" /\ Has(q, "**")
    <2>1. (\E k \in Wild(q, t, {Len(t)}) : k = 0 \/ t[k] = "/") <=> \E k \in 0..Len(t) : Edge(t, k) /\ Leads(q, t, k, Len(t))
      BY <1>6, Zenon DEF Edge
    <2> QED BY <1>4, <1>8, <1>12, <2>1, Zenon DEF Ending, t
  <1>13. CASE ~Anchored(p) /\ q[1] # "**" /\ ~Has(q, "**")
    BY <1>4, <1>7, <1>8, <1>9, <1>13, Zenon DEF Ending, t
  <1> QED BY <1>10, <1>11, <1>12, <1>13

\* The rule for what is in a directory, on a file.
LEMMA PayloadRule ==
    ASSUME NEW p \in Patterns, Plain(p), ValidPattern(p), NEW n \in Nodes \ Folders
    PROVE  RuleMatches(Payload(p), n) <=>
              IF Anchored(p) THEN Leads(Bare(p) \o Inside, Flat(n), 0, Len(Flat(n)))
              ELSE IF Bare(p)[1] = "**" THEN Leads(Bare(p) \o Inside, Cons("/", Flat(n)), 0, Len(Cons("/", Flat(n))))
              ELSE \E k \in 0..Len(Flat(n)) : Edge(Flat(n), k) /\ Leads(Bare(p) \o Inside, Flat(n), k, Len(Flat(n)))
  <1> DEFINE q == Bare(p)
             B == q \o Inside
             C == Tokens \cup {"***"}
             s == Flat(n)
             r == Payload(p)
  <1>1. q \in Seq(Tokens) /\ q # <<>>
    BY BareFacts
  <1>2. (Anchored(r) <=> Anchored(p)) /\ ~DirOnly(r) /\ Bare(r) = B
    BY PayloadFacts
  <1>3. Inside \in Seq(C) /\ Len(Inside) = 2 /\ Inside[1] = "/" /\ Inside[2] = "***"
    <2>1. "/" \in C
      BY SplitAssumption DEF Tokens
    <2> QED BY <2>1 DEF Inside
  <1>4. /\ B \in Seq(C) /\ Len(B) = Len(q) + 2 /\ Head(B) = q[1] /\ B # <<>>
        /\ Last(B) = "***" /\ Has(B, "***")
    <2>1. q \in Seq(C) /\ Len(q) \in Nat /\ Len(q) >= 1
      BY <1>1, HasTokens
    <2> HIDE DEF q, C
    <2>2. /\ B \in Seq(C) /\ Len(B) = Len(q) + Len(Inside)
          /\ \A i \in 1..Len(q) : B[i] = q[i]
          /\ \A i \in 1..Len(Inside) : B[Len(q) + i] = Inside[i]
      <3>1. q \in Seq(C) /\ Inside \in Seq(C)
        BY <1>3, <2>1
      <3> QED BY <3>1, ConcatFacts
    <2> HIDE DEF B
    <2>3. 2 \in 1..Len(Inside) /\ 1 \in 1..Len(q)
      BY <1>3, <2>1
    <2>4. Len(B) = Len(q) + 2 /\ B[Len(q) + 2] = "***" /\ B[1] = q[1]
      BY <1>3, <2>2, <2>3
    <2>5. Len(q) + 2 \in DOMAIN B /\ B # <<>>
      BY <2>1, <2>2, <2>4
    <2> QED BY <2>2, <2>4, <2>5 DEF Has, Last
  <1>5. s \in Seq(Characters) /\ Len(s) \in Nat /\ Len(s) \in 0..Len(s) /\ Cons("/", s) = <<"/">> \o s
    <2>1. s \in Seq(Characters)
      BY NodeTexts
    <2> HIDE DEF s
    <2> QED BY <2>1 DEF Cons
  <1> HIDE DEF B
  <1>6. RuleMatches(r, n) <=>
           IF Anchored(p) THEN WildMatch(B, s)
           ELSE IF q[1] = "**" THEN WildMatch(B, <<"/">> \o s)
           ELSE \E k \in Wild(B, s, {Len(s)}) : k = 0 \/ s[k] = "/"
    BY <1>2, <1>4, Zenon DEF RuleMatches
  <1>7. \A v : WildMatch(B, v) <=> Leads(B, v, 0, Len(v))
    BY DEF WildMatch, Leads
  <1> HIDE DEF q, s, C, r
  <1>8. \A k : k \in Wild(B, s, {Len(s)}) <=> k \in 0..Len(s) /\ Leads(B, s, k, Len(s))
    <2>1. \A k : Leads(B, s, k, Len(s)) => k \in 0..Len(s)
      BY <1>4, <1>5, LeadsType
    <2> QED BY <2>1 DEF Leads
  <1>9. (\E k \in Wild(B, s, {Len(s)}) : k = 0 \/ s[k] = "/") <=> \E k \in 0..Len(s) : Edge(s, k) /\ Leads(B, s, k, Len(s))
    BY <1>8, Zenon DEF Edge
  <1>10. RuleMatches(r, n) <=>
           IF Anchored(p) THEN Leads(B, s, 0, Len(s))
           ELSE IF q[1] = "**" THEN Leads(B, Cons("/", s), 0, Len(Cons("/", s)))
           ELSE \E k \in 0..Len(s) : Edge(s, k) /\ Leads(B, s, k, Len(s))
    BY <1>5, <1>6, <1>7, <1>9, Zenon
  <1> QED BY <1>10 DEF q, s, B, r

\* "**" takes every file.
LEMMA StarsTakeAll ==
    ASSUME NEW p \in Patterns, Plain(p), ValidPattern(p), NEW n \in Nodes, n # <<>>,
           ~Anchored(p), Bare(p)[1] = "**", Len(Bare(p)) = 1
    PROVE  RuleMatches(p, n)
  <1> DEFINE q == Bare(p)
             s == Flat(n)
             cs == Cons("/", s)
             e == Cons("**", <<>>)
  <1>1. q \in Seq(Tokens) /\ q[1] = "**" /\ Len(q) = 1
    BY BareFacts
  <1>2. q = e
    <2>1. "**" \in Tokens /\ <<>> \in Seq(Tokens)
      BY DEF Tokens
    <2>2. e \in Seq(Tokens) /\ Len(e) = 1 /\ e[1] = "**"
      <3>1. e = <<"**">>
        BY DEF Cons
      <3> HIDE DEF e
      <3> QED BY <2>1, <3>1
    <2> HIDE DEF e, q
    <2>3. \A i \in 1..Len(q) : q[i] = e[i]
      BY <1>1, <2>2
    <2> QED BY <1>1, <2>2, <2>3, SeqEqual
  <1>3. ~DirOnly(p)
    <2> SUFFICES ASSUME DirOnly(p) PROVE FALSE
      OBVIOUS
    <2>1. PICK o \in {0, 1}, d \in {0, 1} : Wrapped(p, q, o, d)
      BY BareFacts
    <2> HIDE DEF q
    <2>2. o = 0 /\ d = 1 /\ Len(p) = 2 /\ q[1] = p[1 + o] /\ p[Len(p)] = "/"
      BY <1>1, <2>1 DEF Wrapped
    <2>3. p[1] = "**" /\ p[2] = "/"
      BY <1>1, <2>2
    <2>4. p \in Seq(Tokens)
      BY SplitAssumption
    <2> DEFINE g == <<"**", "/">>
    <2>5. g \in Seq(Tokens) /\ Len(g) = 2 /\ g[1] = "**" /\ g[2] = "/"
      <3>1. "**" \in Tokens /\ "/" \in Tokens
        BY SplitAssumption DEF Tokens
      <3> QED BY <3>1
    <2> HIDE DEF g
    <2>6. p = g
      <3>1. Len(p) = Len(g) /\ \A i \in 1..Len(p) : p[i] = g[i]
        <4>1. \A i \in 1..Len(p) : i = 1 \/ i = 2
          BY <2>2
        <4> QED BY <2>2, <2>3, <2>5, <4>1
      <3> QED BY <2>4, <2>5, <3>1, SeqEqual
    <2> QED BY <2>6 DEF g, Plain
  <1>4. Leads(q, cs, 0, Len(s) + 1)
    <2>1. s \in Seq(Characters) /\ Len(s) \in Nat /\ "/" \in Characters
      BY NodeTexts, SplitAssumption
    <2> HIDE DEF s
    <2>2. Len(cs) = Len(s) + 1
      BY <2>1, BehindHead
    <2> HIDE DEF cs
    <2>3. Len(cs) \in Nat /\ Len(cs) \in 0..Len(cs) /\ 0 \in 0..Len(cs) /\ "**" \in Tokens /\ <<>> \in Seq(Tokens)
      BY <2>1, <2>2 DEF Tokens
    <2>4. Leads(<<>>, cs, Len(cs), Len(cs))
      BY <2>3, LeadsEmpty
    <2>5. Leads(e, cs, 0, Len(cs)) <=> 0 \in 0..Len(cs) /\ \E i \in 0..Len(cs) : Leads(<<>>, cs, i, Len(cs))
      BY <2>3, LeadsDeep
    <2> HIDE DEF e
    <2>6. Leads(e, cs, 0, Len(cs))
      BY <2>3, <2>4, <2>5
    <2> QED BY <1>2, <2>2, <2>6
  <1>5. Reaches(p, s, Len(s))
    BY <1>4 DEF Reaches
  <1> QED BY <1>3, <1>5, RuleReaches

\* Any other pattern that begins with "**" goes on with "/".
LEMMA StarsLeadOn ==
    ASSUME NEW q, WellMade(q), q # <<>>, q[1] = "**", Len(q) # 1
    PROVE  /\ q[2] = "/" /\ 2 \in 1..Len(q)
           /\ \A s : Len(s) \in Nat => ~Leads(q, s, 0, 0)
  <1>1. q \in Seq(Tokens) /\ Len(q) \in Nat /\ 1 \in 1..Len(q) /\ 1 < Len(q) /\ 2 \in 1..Len(q)
    <2>1. q \in Seq(Tokens)
      BY DEF WellMade
    <2>2. Len(q) \in Nat /\ Len(q) >= 1
      BY <2>1, HasTokens
    <2>3. 1 < Len(q)
      <3>1. \A k \in Nat : k >= 1 /\ k # 1 => 1 < k
        OBVIOUS
      <3> QED BY <2>2, <3>1, Zenon
    <2>4. 1 \in 1..Len(q) /\ 2 \in 1..Len(q)
      BY <2>2, <2>3
    <2> QED BY <2>1, <2>2, <2>3, <2>4
  <1>2. q[2] = "/"
    <2>1. q[1 + 1] = "/"
      BY <1>1 DEF WellMade
    <2> QED BY <2>1
  <1> DEFINE b == 3
             r == SubSeq(q, b, Len(q))
             f == Cons("/", r)
             e == Cons("**", f)
  <1>3. r \in Seq(Tokens) /\ Len(r) = Len(q) - 3 + 1 /\ \A i \in 1..Len(q) - 3 + 1 : r[i] = q[i + (3 - 1)]
    <2>1. b \in 1..Len(q) + 1 /\ Len(q) \in b - 1..Len(q)
      BY <1>1
    <2> HIDE DEF b
    <2>2. r \in Seq(Tokens) /\ Len(r) = Len(q) - b + 1 /\ \A i \in 1..Len(q) - b + 1 : r[i] = q[i + (b - 1)]
      BY <1>1, <2>1, StretchFacts
    <2> HIDE DEF r
    <2> QED BY <2>2 DEF b
  <1> HIDE DEF r, b
  <1>4. "/" \in Tokens /\ "**" \in Tokens
    BY SplitAssumption DEF Tokens
  <1>5. f \in Seq(Tokens) /\ Len(f) = Len(r) + 1 /\ f[1] = "/" /\ \A i \in 1..Len(r) : f[i + 1] = r[i]
    <2>1. f \in Seq(Tokens)
      BY <1>3, <1>4, ConsFacts
    <2> QED BY <1>3, <1>4, <2>1, BehindHead
  <1> HIDE DEF f
  <1>6. e \in Seq(Tokens) /\ Len(e) = Len(f) + 1 /\ e[1] = "**" /\ \A i \in 1..Len(f) : e[i + 1] = f[i]
    <2>1. e \in Seq(Tokens)
      BY <1>4, <1>5, ConsFacts
    <2> QED BY <1>4, <1>5, <2>1, BehindHead
  <1> HIDE DEF e
  <1>7. q = e
    <2>1. Len(e) = Len(q) /\ Len(r) = Len(q) - 2 /\ Len(f) = Len(q) - 1
      BY <1>1, <1>3, <1>5, <1>6
    <2>2. ASSUME NEW i \in 1..Len(q)
          PROVE  q[i] = e[i]
      <3>1. CASE i = 1
        BY <1>6, <3>1
      <3>2. CASE i = 2
        <4>1. 1 \in 1..Len(f) /\ 1 + 1 = 2
          BY <1>1, <2>1
        <4> QED BY <1>2, <1>5, <1>6, <3>2, <4>1
      <3>3. CASE i > 2
        <4>1. /\ i - 2 \in 1..Len(r) /\ i - 2 \in 1..Len(q) - 3 + 1 /\ i - 2 + 1 = i - 1
              /\ i - 1 \in 1..Len(f) /\ i - 1 + 1 = i /\ i - 2 + (3 - 1) = i
          BY <1>1, <2>1, <3>3
        <4>2. r[i - 2] = q[i]
          BY <1>3, <4>1
        <4>3. f[i - 1] = r[i - 2]
          BY <1>5, <4>1
        <4>4. e[i] = f[i - 1]
          BY <1>6, <4>1
        <4> QED BY <4>2, <4>3, <4>4
      <3> QED BY <3>1, <3>2, <3>3
    <2> QED BY <1>1, <1>6, <2>1, <2>2, SeqEqual
  <1>8. ASSUME NEW s, Len(s) \in Nat, Leads(q, s, 0, 0)
        PROVE  FALSE
    <2>1. 0 \in 0..Len(s)
      BY <1>8
    <2>2. Leads(Cons("**", f), s, 0, 0)
      BY <1>7, <1>8 DEF e
    <2>3. PICK i \in 0..Len(s) : Leads(f, s, i, 0)
      BY <1>4, <1>5, <1>8, <2>1, <2>2, LeadsDeep
    <2>4. i = 0
      <3>1. i \in 0..0
        BY <1>5, <1>8, <2>1, <2>3, LeadsForward
      <3> QED BY <3>1
    <2>5. Leads(Cons("/", r), s, 0, 0)
      BY <2>3, <2>4 DEF f
    <2>6. Leads(r, s, 0 + 1, 0)
      BY <1>3, <1>4, <1>8, <2>1, <2>5, LeadsSlash
    <2>7. 0 + 1 \in 0..0
      BY <1>3, <1>8, <2>1, <2>6, LeadsForward
    <2> QED BY <2>7
  <1> QED BY <1>1, <1>2, <1>8
----------------------------------------------------------------------------
(* The filter rules take what the pattern matches, and what is below it. *)

\* Directory by directory, what rule p reaches the end of above a file.
ReachedAbove(p, n) == \E j \in 1..Len(Flat(n)) : Flat(n)[j] = "/" /\ Reaches(p, Flat(n), j - 1)

LEMMA WithSlash ==
    ASSUME NEW n \in Nodes
    PROVE  /\ Cons("/", Flat(n)) \in Seq(Characters) /\ Len(Flat(n)) \in Nat
           /\ Len(Cons("/", Flat(n))) = Len(Flat(n)) + 1 /\ Cons("/", Flat(n))[1] = "/"
           /\ \A i \in 1..Len(Flat(n)) : Cons("/", Flat(n))[i + 1] = Flat(n)[i]
           /\ Lies(Flat(n), Cons("/", Flat(n)), 1)
  <1> DEFINE s == Flat(n)
             cs == Cons("/", s)
  <1>1. s \in Seq(Characters) /\ Len(s) \in Nat /\ "/" \in Characters
    BY NodeTexts, SplitAssumption
  <1> HIDE DEF s
  <1>2. cs \in Seq(Characters)
    BY <1>1, ConsFacts
  <1>3. Len(cs) = Len(s) + 1 /\ cs[1] = "/" /\ \A i \in 1..Len(s) : cs[i + 1] = s[i]
    BY <1>1, BehindHead
  <1> HIDE DEF cs
  <1>4. Lies(s, cs, 1)
    <2>1. \A i \in 1..Len(s) : i + 1 = 1 + i
      BY <1>1
    <2> QED BY <1>1, <1>3, <2>1 DEF Lies
  <1> QED BY <1>1, <1>2, <1>3, <1>4 DEF cs, s

LEMMA PayloadTakes ==
    ASSUME NEW p \in Patterns, Plain(p), ValidPattern(p), NEW n \in Nodes \ Folders
    PROVE  /\ ReachedAbove(p, n) => RuleMatches(Payload(p), n)
           /\ RuleMatches(Payload(p), n) => ReachedAbove(p, n) \/ RuleMatches(p, n)
  <1> DEFINE q == Bare(p)
             B == q \o Inside
             C == Tokens \cup {"***"}
             s == Flat(n)
             cs == Cons("/", s)
             r == Payload(p)
  <1>0. n \in Nodes /\ n # <<>>
    BY SplitAssumption
  <1>1. q \in Seq(Tokens) /\ q # <<>> /\ WellMade(q)
    BY BareFacts
  <1>2. RuleMatches(r, n) <=>
           IF Anchored(p) THEN Leads(B, s, 0, Len(s))
           ELSE IF q[1] = "**" THEN Leads(B, cs, 0, Len(cs))
           ELSE \E k \in 0..Len(s) : Edge(s, k) /\ Leads(B, s, k, Len(s))
    BY PayloadRule
  <1>3. \A j : Reaches(p, s, j) <=>
           IF Anchored(p) THEN Leads(q, s, 0, j)
           ELSE IF q[1] = "**" THEN Leads(q, cs, 0, j + 1)
           ELSE \E k \in 0..Len(s) : Edge(s, k) /\ Leads(q, s, k, j)
    BY DEF Reaches
  <1>4. Len(s) \in Nat /\ Len(cs) = Len(s) + 1 /\ cs[1] = "/" /\ \A i \in 1..Len(s) : cs[i + 1] = s[i]
    BY <1>0, WithSlash
  <1>5. ReachedAbove(p, n) <=> \E j \in 1..Len(s) : s[j] = "/" /\ Reaches(p, s, j - 1)
    BY DEF ReachedAbove
  <1>6. ~Anchored(p) /\ q[1] = "**" /\ Len(q) = 1 => RuleMatches(p, n)
    BY <1>0, StarsTakeAll
  <1>7. {"/", "***"} \subseteq C
    BY SplitAssumption DEF Tokens
  <1>8. q \in Seq(C)
    BY <1>1
  <1> HIDE DEF q, s, cs, C, r
  <1>9. \A k : Leads(B, s, k, Len(s)) <=> \E j \in 1..Len(s) : s[j] = "/" /\ Leads(q, s, k, j - 1)
    BY <1>4, <1>7, <1>8, InsideLeads
  <1>10. Leads(B, cs, 0, Len(cs)) <=> \E j \in 1..Len(cs) : cs[j] = "/" /\ Leads(q, cs, 0, j - 1)
    <2>1. Len(cs) \in Nat
      BY <1>4
    <2> QED BY <1>7, <1>8, <2>1, InsideLeads
  <1> HIDE DEF B
  <1>11. CASE Anchored(p)
    BY <1>2, <1>3, <1>5, <1>9, <1>11, Zenon DEF r
  <1>12. CASE ~Anchored(p) /\ q[1] # "**"
    BY <1>2, <1>3, <1>5, <1>9, <1>12, Zenon DEF r
  <1>13. CASE ~Anchored(p) /\ q[1] = "**"
    <2>1. RuleMatches(r, n) <=> \E j \in 1..Len(cs) : cs[j] = "/" /\ Leads(q, cs, 0, j - 1)
      BY <1>2, <1>10, <1>13, Zenon
    <2>2. \A j : Reaches(p, s, j) <=> Leads(q, cs, 0, j + 1)
      BY <1>3, <1>13, Zenon
    <2>3. ASSUME NEW j \in 1..Len(s), s[j] = "/", Reaches(p, s, j - 1)
          PROVE  RuleMatches(r, n)
      <3>1. j + 1 \in 1..Len(cs) /\ cs[j + 1] = "/" /\ j - 1 + 1 = j + 1 - 1
        BY <1>4, <2>3
      <3>2. Leads(q, cs, 0, j + 1 - 1)
        BY <2>2, <2>3, <3>1
      <3> QED BY <2>1, <3>1, <3>2
    <2>4. ASSUME NEW j \in 1..Len(cs), cs[j] = "/", Leads(q, cs, 0, j - 1)
          PROVE  ReachedAbove(p, n) \/ RuleMatches(p, n)
      <3>1. CASE j = 1
        <4>1. Leads(q, cs, 0, 0)
          BY <2>4, <3>1
        <4>2. Len(cs) \in Nat
          BY <1>4
        <4>3. Len(q) = 1
          BY <1>1, <1>13, <4>1, <4>2, StarsLeadOn
        <4> QED BY <1>6, <1>13, <4>3
      <3>2. CASE j # 1
        <4> DEFINE i == j - 1
        <4>1. i \in 1..Len(s) /\ i + 1 = j /\ i - 1 + 1 = j - 1
          BY <1>4, <3>2
        <4>2. s[i] = "/"
          BY <1>4, <2>4, <4>1
        <4>3. Reaches(p, s, i - 1)
          BY <2>2, <2>4, <4>1
        <4> HIDE DEF i
        <4> QED BY <1>5, <4>1, <4>2, <4>3
      <3> QED BY <3>1, <3>2
    <2> QED BY <1>5, <2>1, <2>3, <2>4 DEF r
  <1> QED BY <1>11, <1>12, <1>13

LEMMA NestedTakes ==
    ASSUME NEW p \in Patterns, Plain(p), ValidPattern(p), ~Has(p, "/"), NEW n \in Nodes \ Folders,
           RuleMatches(NestedPayload(p), n)
    PROVE  ReachedAbove(p, n) \/ RuleMatches(p, n)
  <1> DEFINE q == Bare(p)
             B == q \o Inside
             C == Tokens \cup {"***"}
             s == Flat(n)
             cs == Cons("/", s)
             f == Cons("/", B)
             r == Cons("**", f)
  <1>0. n \in Nodes /\ n # <<>>
    BY SplitAssumption
  <1>1. q \in Seq(Tokens) /\ q # <<>> /\ WellMade(q)
    BY BareFacts
  <1>2. Len(s) \in Nat /\ Len(cs) = Len(s) + 1 /\ cs[1] = "/" /\ (\A i \in 1..Len(s) : cs[i + 1] = s[i]) /\ Lies(s, cs, 1)
    BY <1>0, WithSlash
  <1>3. ~Anchored(p) /\ p \in Seq(Tokens)
    <2>1. p \in Seq(Tokens)
      BY SplitAssumption
    <2>2. ASSUME Anchored(p) PROVE FALSE
      <3>1. p # <<>> /\ p[1] = "/"
        BY <2>1, <2>2 DEF Anchored
      <3>2. 1 \in DOMAIN p
        BY <2>1, <3>1
      <3> QED BY <3>1, <3>2 DEF Has
    <2> QED BY <2>1, <2>2
  <1>4. \A i \in 1..Len(q) : q[i] # "/"
    <2>1. PICK o \in {0, 1}, d \in {0, 1} : Wrapped(p, q, o, d)
      BY BareFacts
    <2> HIDE DEF q
    <2>2. \A i \in 1..Len(q) : q[i] = p[i + o] /\ i + o \in 1..Len(p)
      <3>1. Len(q) \in Nat
        BY <1>1
      <3>2. Len(p) = o + Len(q) + d /\ \A i \in 1..Len(q) : q[i] = p[i + o]
        BY <2>1 DEF Wrapped
      <3> QED BY <2>1, <3>1, <3>2
    <2>3. DOMAIN p = 1..Len(p)
      BY <1>3
    <2> QED BY <2>2, <2>3 DEF Has
  <1>5. ReachedAbove(p, n) <=> \E j \in 1..Len(s) : s[j] = "/" /\ Reaches(p, s, j - 1)
    BY DEF ReachedAbove
  <1>6. q[1] = "**" => RuleMatches(p, n)
    <2>1. q[1] = "**" /\ Len(q) # 1 => q[2] = "/" /\ 2 \in 1..Len(q)
      <3> HIDE DEF q
      <3> QED BY <1>1, StarsLeadOn
    <2>2. q[1] = "**" => Len(q) = 1
      BY <1>4, <2>1
    <2> QED BY <1>0, <1>3, <2>2, StarsTakeAll
  <1>7. q[1] # "**" => \A j : Reaches(p, s, j) <=> \E k \in 0..Len(s) : Edge(s, k) /\ Leads(q, s, k, j)
    BY <1>3 DEF Reaches
  <1>8. {"/", "***"} \subseteq C /\ "/" \in C /\ "***" \in C /\ "**" \in C
    BY SplitAssumption DEF Tokens
  <1>9. q \in Seq(C)
    BY <1>1
  <1>10. NestedPayload(p) = r
    <2>1. Payload(p) = B
      BY <1>3, PayloadFacts
    <2>2. <<"**">> \o <<"/">> = <<"**", "/">>
      BY <1>8, PairIs
    <2>3. B \in Seq(C) /\ <<"**">> \in Seq(C) /\ <<"/">> \in Seq(C)
      <3>1. Inside \in Seq(C)
        <4> HIDE DEF C
        <4> QED BY <1>8 DEF Inside
      <3> HIDE DEF q
      <3>2. B \in Seq(C)
        BY <1>9, <3>1
      <3> HIDE DEF B, C
      <3> QED BY <1>8, <3>2
    <2> DEFINE g == <<"**">>
               h == <<"/">>
    <2> HIDE DEF B, C
    <2>4. (g \o h) \o B = g \o (h \o B)
      <3> HIDE DEF g, h
      <3>1. g \in Seq(C) /\ h \in Seq(C)
        BY <2>3 DEF g, h
      <3> QED BY <2>3, <3>1, ConcatAssociates
    <2>5. f = h \o B /\ r = g \o f
      BY DEF Cons
    <2>6. NestedPayload(p) = (g \o h) \o B
      BY <2>1, <2>2, Zenon DEF NestedPayload
    <2> QED BY <2>4, <2>5, <2>6, Zenon
  <1>11. B \in Seq(C) /\ Len(B) >= 1 /\ B[Len(B)] = "***" /\ Len(B) \in Nat
    <2>1. Inside \in Seq(C) /\ Len(Inside) = 2 /\ Inside[2] = "***"
      <3> HIDE DEF C
      <3> QED BY <1>8 DEF Inside
    <2> HIDE DEF q, C
    <2>2. /\ B \in Seq(C) /\ Len(B) = Len(q) + Len(Inside) /\ Len(q) \in Nat
          /\ \A i \in 1..Len(Inside) : B[Len(q) + i] = Inside[i]
      <3>1. q \in Seq(C) /\ Inside \in Seq(C)
        BY <1>9, <2>1
      <3>2. /\ B \in Seq(C) /\ Len(B) = Len(q) + Len(Inside) /\ Len(q) \in Nat /\ Len(Inside) \in Nat
            /\ \A i \in 1..Len(q) : B[i] = q[i]
            /\ \A i \in 1..Len(Inside) : B[Len(q) + i] = Inside[i]
        BY <3>1, ConcatFacts
      <3> QED BY <3>2
    <2> HIDE DEF B
    <2>3. 2 \in 1..Len(Inside)
      BY <2>1
    <2> QED BY <2>1, <2>2, <2>3
  <1> HIDE DEF q, s, cs, C
  <1>12. \A k : Leads(B, cs, k, Len(cs)) <=> \E j \in 1..Len(cs) : cs[j] = "/" /\ Leads(q, cs, k, j - 1)
    <2>1. Len(cs) \in Nat
      BY <1>2
    <2> QED BY <1>8, <1>9, <2>1, InsideLeads
  <1> HIDE DEF B
  <1>13. f \in Seq(C) /\ Len(f) = Len(B) + 1 /\ \A i \in 1..Len(B) : f[i + 1] = B[i]
    <2>1. f \in Seq(C)
      BY <1>8, <1>11, ConsFacts
    <2> QED BY <1>8, <1>11, <2>1, BehindHead
  <1> HIDE DEF f
  <1>14. r \in Seq(C) /\ Len(r) = Len(f) + 1 /\ r[1] = "**" /\ \A i \in 1..Len(f) : r[i + 1] = f[i]
    <2>1. r \in Seq(C)
      BY <1>8, <1>13, ConsFacts
    <2> QED BY <1>8, <1>13, <2>1, BehindHead
  <1> HIDE DEF r
  <1>15. r # <<>> /\ Head(r) = "**" /\ Last(r) = "***" /\ ~Anchored(r) /\ ~DirOnly(r) /\ Bare(r) = r
    <2>1. Len(r) = Len(B) + 2 /\ Len(r) \in Nat /\ Len(r) >= 1
      BY <1>11, <1>13, <1>14
    <2>2. r # <<>> /\ Head(r) = "**"
      BY <1>14, <2>1
    <2>3. Last(r) = "***"
      <3>1. Len(B) \in 1..Len(B) /\ Len(B) + 1 \in 1..Len(f) /\ Len(B) + 1 + 1 = Len(r)
        BY <1>11, <1>13, <2>1
      <3> QED BY <1>11, <1>13, <1>14, <3>1 DEF Last
    <2>4. ~Anchored(r)
      BY <2>2 DEF Anchored
    <2>5. ~DirOnly(r)
      BY <2>3, <2>4 DEF DirOnly
    <2> QED BY <2>2, <2>3, <2>4, <2>5 DEF Bare
  <1>16. Leads(r, cs, 0, Len(cs))
    <2>1. RuleMatches(r, n)
      BY <1>10
    <2>2. WildMatch(r, <<"/">> \o s)
      BY <1>15, <2>1, Zenon DEF RuleMatches, s
    <2>3. <<"/">> \o s = cs
      BY DEF cs, Cons
    <2> QED BY <2>2, <2>3 DEF WildMatch, Leads
  <1>17. Len(cs) \in Nat /\ Len(cs) \in 0..Len(cs)
    BY <1>2
  <1>18. PICK i \in 0..Len(cs) : Leads(f, cs, i, Len(cs))
    BY <1>8, <1>13, <1>16, <1>17, LeadsDeep DEF r
  <1>19. i \in 0..Len(cs) - 1 /\ cs[i + 1] = "/" /\ Leads(B, cs, i + 1, Len(cs))
    BY <1>8, <1>11, <1>17, <1>18, LeadsSlash DEF f
  <1>20. PICK j \in 1..Len(cs) : cs[j] = "/" /\ Leads(q, cs, i + 1, j - 1)
    BY <1>12, <1>19
  <1>21. i + 1 \in 0..j - 1
    <2>1. j - 1 \in 0..Len(cs)
      BY <1>17
    <2> QED BY <1>9, <1>17, <1>20, <2>1, LeadsForward
  <1> DEFINE l == j - 1
             e == j - 2
  <1>22. l \in 1..Len(s) /\ l + 1 = j /\ i \in 0..Len(s) /\ e \in 0..Len(s) /\ 1 + i = i + 1 /\ 1 + e = j - 1 /\ l - 1 = e
    BY <1>2, <1>19, <1>21
  <1>23. s[l] = "/"
    BY <1>2, <1>20, <1>22
  <1>24. Leads(q, s, i, e)
    <2>1. Leads(q, cs, 1 + i, 1 + e)
      BY <1>20, <1>22
    <2> HIDE DEF e, l
    <2> QED BY <1>2, <1>9, <1>22, <2>1, LeadsWithin
  <1>25. Edge(s, i)
    <2>1. i # 0 => i \in 1..Len(s)
      BY <1>22
    <2> QED BY <1>2, <1>19, <2>1 DEF Edge
  <1> HIDE DEF l, e
  <1>26. q[1] # "**" => Reaches(p, s, l - 1)
    BY <1>7, <1>22, <1>24, <1>25
  <1> QED BY <1>5, <1>6, <1>22, <1>23, <1>26 DEF q

\* What is reached above a file is a directory the rule takes.
LEMMA AboveIs ==
    ASSUME NEW p \in Patterns, Plain(p), ValidPattern(p), NEW n \in Nodes, n # <<>>
    PROVE  ReachedAbove(p, n) <=>
              \E m \in Nodes : m # <<>> /\ m # n /\ Below(n, m) /\ RuleMatches(p, m)
  <1> DEFINE C == Characters
             P == Proper(C)
             q == Bare(p)
  <1>1. n \in Seq(P) /\ "/" \in C /\ "." \in C /\ Folders \subseteq Nodes
    BY NodesAreProper, SplitAssumption
  <1>2. q \in Seq(Tokens)
    BY BareFacts
  <1>3. ASSUME NEW u \in Seq(P), NEW w \in Seq(P), u # <<>>, w # <<>>, n = u \o w
        PROVE  /\ u \in Folders /\ Below(n, u) /\ u # n
               /\ Len(Flat(u)) + 1 \in 1..Len(Flat(n)) /\ Flat(n)[Len(Flat(u)) + 1] = "/"
               /\ Reaches(p, Flat(n), Len(Flat(u))) <=> RuleMatches(p, u)
    <2>1. u \in Folders
      BY <1>3, AboveIsFolder
    <2>2. Below(n, u)
      BY <1>1, <1>3, BelowIs
    <2>3. u # n
      <3>1. Len(u \o w) = Len(u) + Len(w) /\ Len(u) \in Nat /\ Len(w) \in Nat
        BY ConcatFacts
      <3>2. Len(w) # 0
        BY <1>3
      <3>3. Len(n) # Len(u)
        BY <1>3, <3>1, <3>2
      <3> QED BY <3>3
    <2>4. /\ Flat(u) \in Seq(C) /\ Flat(n) \in Seq(C)
          /\ Len(Flat(u)) \in Nat /\ Len(Flat(w)) \in Nat /\ Len(Flat(n)) = Len(Flat(u)) + 1 + Len(Flat(w))
          /\ Flat(n)[Len(Flat(u)) + 1] = "/" /\ Lies(Flat(u), Flat(n), 0)
      BY <1>1, <1>3, TailLies
    <2>5. Len(Flat(u)) \in 0..Len(Flat(u)) /\ Len(Flat(u)) + 1 \in 1..Len(Flat(n))
      BY <2>4
    <2>6. Reaches(p, Flat(u), Len(Flat(u))) <=> Reaches(p, Flat(n), Len(Flat(u)))
      BY <1>1, <1>2, <2>4, <2>5, ReachesWithin
    <2>7. RuleMatches(p, u) <=> Reaches(p, Flat(u), Len(Flat(u)))
      BY <1>1, <1>3, <2>1, RuleReaches
    <2> QED BY <2>1, <2>2, <2>3, <2>4, <2>5, <2>6, <2>7
  <1>4. ASSUME ReachedAbove(p, n)
        PROVE  \E m \in Nodes : m # <<>> /\ m # n /\ Below(n, m) /\ RuleMatches(p, m)
    <2>1. PICK j \in 1..Len(Flat(n)) : Flat(n)[j] = "/" /\ Reaches(p, Flat(n), j - 1)
      BY <1>4 DEF ReachedAbove
    <2>2. CutAt(C, n, j)
      BY <1>1, <2>1, SlashesCut
    <2>3. PICK u \in Seq(P), w \in Seq(P) : u # <<>> /\ w # <<>> /\ n = u \o w /\ j = Len(Flat(u)) + 1
      BY <2>2 DEF CutAt
    <2>4. j - 1 = Len(Flat(u))
      <3> DEFINE l == Len(Flat(u))
      <3>1. l \in Nat /\ j = l + 1
        BY <1>1, <2>3, TailLies
      <3> HIDE DEF l
      <3>2. j - 1 = l
        BY <3>1
      <3> QED BY <3>2 DEF l
    <2> HIDE DEF P
    <2>5. u \in Folders /\ Below(n, u) /\ u # n /\ RuleMatches(p, u)
      BY <1>3, <2>1, <2>3, <2>4
    <2> QED BY <1>1, <2>3, <2>5
  <1>5. ASSUME NEW m \in Nodes, m # <<>>, m # n, Below(n, m), RuleMatches(p, m)
        PROVE  ReachedAbove(p, n)
    <2>1. m \in Seq(P)
      BY NodesAreProper
    <2> HIDE DEF P
    <2>2. PICK w \in Seq(P) : n = m \o w
      <3>1. n \in Seq(P)
        BY <1>1
      <3>2. Drop(n, Len(m)) \in Seq(P) /\ m \o Drop(n, Len(m)) = n
        BY <1>5, <2>1, <3>1, Below2
      <3> QED BY <3>2
    <2>3. w # <<>>
      <3>1. m \o <<>> = m
        BY <2>1
      <3> QED BY <1>5, <2>2, <3>1
    <2> DEFINE j == Len(Flat(m)) + 1
    <2>4. j \in 1..Len(Flat(n)) /\ Flat(n)[j] = "/" /\ Reaches(p, Flat(n), Len(Flat(m)))
      BY <1>3, <1>5, <2>1, <2>2, <2>3
    <2>5. j - 1 = Len(Flat(m))
      <3> DEFINE l == Len(Flat(m))
      <3>1. l \in Nat
        BY NodeTexts
      <3>2. j = l + 1
        OBVIOUS
      <3> HIDE DEF l, j
      <3>3. j - 1 = l
        BY <3>1, <3>2
      <3> QED BY <3>3 DEF l
    <2> HIDE DEF j
    <2> QED BY <2>4, <2>5 DEF ReachedAbove
  <1> QED BY <1>4, <1>5

\* The filter rules made from a plain pattern take the files that the pattern
\* matches as a rule or that are below a directory it matches, and no others
\* (build_split_filters).
THEOREM FiltersTakeTheMatched ==
    ASSUME NEW p \in Patterns, Plain(p), ValidPattern(p), NEW n \in Nodes \ Folders
    PROVE  (\E r \in SplitFilters(p) : RuleMatches(r, n)) <=>
              \E m \in Nodes : m # <<>> /\ Below(n, m) /\ RuleMatches(p, m)
  <1> DEFINE Above == \E m \in Nodes : m # <<>> /\ Below(n, m) /\ RuleMatches(p, m)
  <1>1. n \in Nodes /\ n # <<>>
    BY SplitAssumption
  <1>2. Below(n, n)
    BY DEF Below, IsPrefix
  <1>3. ReachedAbove(p, n) \/ RuleMatches(p, n) <=> Above
    BY <1>1, <1>2, AboveIs
  <1>4. ~RuleMatches(<<"*", "/">>, n)
    <2> DEFINE r == <<"*", "/">>
    <2>1. r # <<>> /\ Head(r) = "*" /\ Last(r) = "/"
      BY DEF Last
    <2> HIDE DEF r
    <2>2. ~Anchored(r)
      BY <2>1 DEF Anchored
    <2>3. DirOnly(r)
      BY <2>1, <2>2 DEF DirOnly
    <2>4. ~RuleMatches(r, n)
      BY <2>3, Zenon DEF RuleMatches
    <2> QED BY <2>4 DEF r
  <1>5. Payload(p) \in SplitFilters(p) /\ p \in SplitFilters(p)
    BY DEF SplitFilters
  <1>6. \A r \in SplitFilters(p) : r \in {<<"*", "/">>, Payload(p), p} \/ (~Has(p, "/") /\ r = NestedPayload(p))
    BY DEF SplitFilters
  <1> HIDE DEF Above
  <1>7. ASSUME NEW r \in SplitFilters(p), RuleMatches(r, n)
        PROVE  ReachedAbove(p, n) \/ RuleMatches(p, n)
    <2>1. CASE r = Payload(p)
      BY <1>7, <2>1, PayloadTakes
    <2>2. CASE ~Has(p, "/") /\ r = NestedPayload(p)
      BY <1>7, <2>2, NestedTakes
    <2>3. CASE r = p
      BY <1>7, <2>3
    <2> QED BY <1>4, <1>6, <1>7, <2>1, <2>2, <2>3
  <1>8. ReachedAbove(p, n) \/ RuleMatches(p, n) => \E r \in SplitFilters(p) : RuleMatches(r, n)
    BY <1>5, PayloadTakes
  <1> QED BY <1>3, <1>7, <1>8 DEF Above
----------------------------------------------------------------------------
(* Discovery. *)

LEMMA PrefixFacts ==
    ASSUME NEW C, NEW n \in Seq(C), NEW m \in Seq(C), NEW l \in Seq(C)
    PROVE  /\ Below(n, n)
           /\ Below(n, m) /\ Below(m, l) => Below(n, l)
           /\ Below(n, m) => Len(m) <= Len(n)
           /\ Below(n, m) /\ Len(n) = Len(m) => n = m
           /\ Below(n, <<>>)
  <1>1. Below(n, n)
    BY DEF Below, IsPrefix
  <1>2. ASSUME Below(n, m), Below(m, l)
        PROVE  Below(n, l)
    <2> DEFINE v == Drop(n, Len(m))
               w == Drop(m, Len(l))
    <2>1. v \in Seq(C) /\ m \o v = n
      BY <1>2, Below2
    <2>2. w \in Seq(C) /\ l \o w = m
      BY <1>2, Below2
    <2> HIDE DEF v, w
    <2>3. (l \o w) \o v = l \o (w \o v) /\ w \o v \in Seq(C)
      <3>1. w \o v \in Seq(C)
        BY <2>1, <2>2
      <3>2. (l \o w) \o v = l \o (w \o v)
        <4>1. \A d, e, f \in Seq(C) : (d \o e) \o f = d \o (e \o f)
          OBVIOUS
        <4>2. v \in Seq(C) /\ w \in Seq(C) /\ l \in Seq(C)
          BY <2>1, <2>2
        <4> QED BY <4>1, <4>2, Zenon
      <3> QED BY <3>1, <3>2
    <2>4. n = l \o (w \o v)
      BY <2>1, <2>2, <2>3, Zenon
    <2> QED BY <2>3, <2>4, BelowIs
  <1>3. Below(n, m) => Len(m) <= Len(n)
    BY DEF Below, IsPrefix
  <1>4. ASSUME Below(n, m), Len(n) = Len(m)
        PROVE  n = m
    <2>1. SubSeq(n, 1, Len(n)) = n /\ SubSeq(m, 1, Len(m)) = m
      OBVIOUS
    <2> QED BY <1>4, <2>1 DEF Below, IsPrefix
  <1>5. Below(n, <<>>)
    <2>1. <<>> \in Seq(C) /\ n = <<>> \o n
      OBVIOUS
    <2> QED BY <2>1, BelowIs
  <1> QED BY <1>1, <1>2, <1>3, <1>4, <1>5

\* Every match is below a root.
LEMMA RootsCover ==
    ASSUME NEW M \in SUBSET Nodes, NEW n \in M
    PROVE  \E r \in Roots(M) : Below(n, r)
  <1> DEFINE C == Seq(Characters)
             above == {m \in M : Below(n, m)}
             lengths == {Len(m) : m \in above}
  <1>1. \A m \in M : m \in Seq(C)
    BY SplitAssumption
  <1> HIDE DEF C
  <1>2. CASE <<>> \in M
    <2>1. Roots(M) = {<<>>}
      BY <1>2 DEF Roots
    <2>2. Below(n, <<>>)
      BY <1>1, PrefixFacts
    <2> QED BY <2>1, <2>2
  <1>3. CASE <<>> \notin M
    <2>1. lengths \in SUBSET Nat
      BY <1>1
    <2>2. n \in above
      BY <1>1, PrefixFacts
    <2>3. lengths # {}
      BY <2>2
    <2>4. PICK m \in above : \A l \in above : Len(m) <= Len(l)
      <3>1. \E k \in lengths : \A j \in lengths : k <= j
        BY <2>1, <2>3, LeastNumber
      <3> QED BY <3>1
    <2>5. m \in M /\ Below(n, m)
      BY <2>4
    <2>6. ASSUME NEW l \in M, Below(m, l)
          PROVE  l = m
      <3>1. l \in above /\ Len(l) <= Len(m)
        BY <1>1, <2>5, <2>6, PrefixFacts
      <3>2. Len(m) <= Len(l) /\ Len(m) \in Nat /\ Len(l) \in Nat
        BY <1>1, <2>4, <2>5, <3>1
      <3>3. Len(m) = Len(l)
        <4> HIDE DEF above
        <4>1. \A x, y \in Nat : x <= y /\ y <= x => x = y
          OBVIOUS
        <4> QED BY <3>1, <3>2, <4>1, Zenon
      <3> QED BY <1>1, <2>5, <2>6, <3>3, PrefixFacts
    <2>7. m \in Roots(M)
      BY <1>3, <2>5, <2>6 DEF Roots
    <2> QED BY <2>5, <2>7
  <1> QED BY <1>2, <1>3

\* Discovery gives roots that do not overlap.
LEMMA DiscoverFacts ==
    ASSUME tree \subseteq Nodes, NEW q \in Discover
    PROVE  /\ q \in Seq(Nodes)
           /\ \A i \in DOMAIN q : IsMatch(pattern, q[i])
           /\ \A i, j \in DOMAIN q : Below(q[i], q[j]) => i = j
           /\ \A n \in tree : IsMatch(pattern, n) => \E i \in DOMAIN q : Below(n, q[i])
  <1> DEFINE M == {n \in tree : IsMatch(pattern, n)}
             R == Roots(M)
  <1>1. q \in [1..Cardinality(R) -> R] /\ \A i, j \in DOMAIN q : i < j => Before(q[i], q[j])
    BY DEF Discover
  <1>2. R \subseteq M /\ R \subseteq Nodes
    BY DEF Roots
  <1>3. Cardinality(R) \in Nat /\ IsFiniteSet(R)
    <2>1. IsFiniteSet(Nodes)
      BY SplitAssumption
    <2>2. IsFiniteSet(R)
      <3> HIDE DEF R
      <3> QED BY <1>2, <2>1, FS_Subset
    <2> QED BY <2>2, FS_CardinalityType
  <1>10. \A n \in M : \E r \in R : Below(n, r)
    <2>1. M \in SUBSET Nodes
      OBVIOUS
    <2> HIDE DEF M
    <2> QED BY <2>1, RootsCover
  <1>4. \A m, n \in R : Below(m, n) => m = n
    BY DEF Roots
  <1>5. \A n : ~Before(n, n)
    BY DEF Before
  <1> DEFINE k == Cardinality(R)
  <1>6. q \in [1..k -> R] /\ k \in Nat
    BY <1>1, <1>3
  <1> HIDE DEF k, R
  <1>7. q \in Seq(Nodes)
    BY <1>2, <1>6
  <1>8. ASSUME NEW i \in DOMAIN q, NEW j \in DOMAIN q, Below(q[i], q[j])
        PROVE  i = j
    <2>1. q[i] = q[j] /\ i \in 1..k /\ j \in 1..k
      BY <1>4, <1>6, <1>8
    <2>2. ~(i < j) /\ ~(j < i)
      BY <1>1, <1>5, <2>1
    <2> QED BY <1>6, <2>1, <2>2
  <1>9. \A i \in DOMAIN q : q[i] \in M
    BY <1>2, <1>6
  <1>11. q \in Surjection(1..k, R)
    <2>1. \A i, j \in 1..k : q[i] = q[j] => i = j
      <3>1. ASSUME NEW i \in 1..k, NEW j \in 1..k, q[i] = q[j]
            PROVE  i = j
        <4>1. i \in DOMAIN q /\ j \in DOMAIN q
          BY <1>6
        <4>2. ~(i < j) /\ ~(j < i)
          BY <1>1, <1>5, <3>1, <4>1
        <4> QED BY <1>6, <4>2
      <3> QED BY <3>1
    <2>2. q \in Injection(1..k, R)
      BY <1>6, <2>1 DEF Injection, IsInjective
    <2>3. Cardinality(1..k) = k
      BY <1>6, FS_Interval
    <2> QED BY <1>3, <2>2, <2>3, FS_Injection DEF k
  <1>12. ASSUME NEW n \in M
        PROVE  \E i \in DOMAIN q : Below(n, q[i])
    <2>1. PICK r \in R : Below(n, r)
      BY <1>10
    <2>2. PICK i \in 1..k : q[i] = r
      BY <1>11 DEF Surjection
    <2>3. i \in DOMAIN q
      BY <1>6
    <2> QED BY <2>1, <2>2, <2>3
  <1> QED BY <1>7, <1>8, <1>9, <1>12

----------------------------------------------------------------------------
(* The invariant: while the roots are synced every match is below one that is *)
(* still to come, and what has been sent was asked for.                       *)

Queued ==
    /\ queue \in Seq(Nodes) /\ \A i \in DOMAIN queue : IsMatch(pattern, queue[i])
    /\ pc = "syncing" => ~passthrough
    /\ pc = "filtering" => passthrough /\ ValidPattern(pattern)

MatchesQueued ==
    pc = "syncing" /\ changes = 0 =>
        \A n \in tree : IsMatch(pattern, n) => \E i \in DOMAIN queue : Below(n, queue[i])

SplitInv ==
    /\ pattern \in Patterns /\ base \in Operands /\ tree \subseteq Nodes /\ changes \in Nat
    /\ Queued /\ MatchesQueued /\ RootsDisjoint
    /\ LayoutKept /\ OnlySelectedGo /\ NothingSelectedStays

LEMMA WantedIsMatched ==
    ASSUME pattern \in Patterns, Plain(pattern), ~passthrough \/ pattern = Dot, NEW n \in Nodes
    PROVE  Wanted(n) <=> IsMatch(pattern, n)
  BY MatcherFindsTheMeant DEF Wanted

LEMMA NodeIsBelow ==
    ASSUME NEW n \in Nodes
    PROVE  Below(n, n) /\ Below(n, <<>>)
  <1>1. n \in Seq(Seq(Characters))
    BY SplitAssumption
  <1> QED BY <1>1, PrefixFacts

LEMMA TailFacts ==
    ASSUME NEW C, NEW q \in Seq(C), q # <<>>
    PROVE  /\ Head(q) \in C /\ Head(q) = q[1] /\ 1 \in DOMAIN q /\ Tail(q) \in Seq(C)
           /\ \A i \in DOMAIN Tail(q) : Tail(q)[i] = q[i + 1] /\ i + 1 \in DOMAIN q
  OBVIOUS

\* A transfer of a root that may be the source only if that is selected.
LEMMA TransferKeepsLayout ==
    ASSUME base \in Operands, tree \subseteq Nodes, LayoutKept,
           NEW root \in Nodes, root = <<>> => IsMatch(pattern, <<>>),
           Transfer(root), UNCHANGED <<pattern, base>>
    PROVE  LayoutKept'
  <1> SUFFICES ASSUME NEW e \in placed'
               PROVE  \/ e.at = PathOf(base) \o e.from
                      \/ IsMatch(pattern, <<>>) /\ e.at = PathOf(base) \o <<SourceName>> \o e.from
    BY DEF LayoutKept
  <1>1. e \in placed \/ e \in Transferred(root)
    BY DEF Transfer, Place
  <1> QED BY <1>1, TransferredLies DEF LayoutKept

\* Only what is below a match is sent by a sync of it.
LEMMA TransferGoes ==
    ASSUME pattern \in Patterns, tree \subseteq Nodes, OnlySelectedGo,
           NEW root \in Nodes, IsMatch(pattern, root), ~passthrough \/ pattern = Dot,
           Transfer(root), UNCHANGED <<pattern, passthrough>>
    PROVE  OnlySelectedGo'
  <1>1. ASSUME Plain(pattern), NEW e \in placed'
        PROVE  \E n \in Nodes : Below(e.from, n) /\ Wanted(n)
    <2>1. e \in placed \/ e \in Transferred(root)
      BY DEF Transfer, Place
    <2>2. CASE e \in placed
      BY <1>1, <2>2 DEF OnlySelectedGo
    <2>3. CASE e \in Transferred(root)
      <3>1. Below(e.from, root)
        BY <2>3 DEF Transferred, Entries
      <3>2. Wanted(root)
        BY <1>1, WantedIsMatched
      <3> QED BY <3>1, <3>2
    <2> QED BY <2>1, <2>2, <2>3
  <1>2. \A n : Wanted(n)' <=> Wanted(n)
    BY DEF Wanted
  <1> QED BY <1>1, <1>2 DEF OnlySelectedGo

\* The files the filter rules take are those asked for or in directories asked
\* for.
LEMMA FilteredIsWanted ==
    ASSUME pattern \in Patterns, Plain(pattern), ValidPattern(pattern), passthrough, pattern # Dot,
           NEW n \in Nodes \ Folders
    PROVE  (\E r \in SplitFilters(pattern) : RuleMatches(r, n)) <=> \E m \in Nodes : Below(n, m) /\ Wanted(m)
  <1>1. \A m : Wanted(m) <=> m # <<>> /\ RuleMatches(pattern, m)
    BY DEF Wanted
  <1>2. (\E r \in SplitFilters(pattern) : RuleMatches(r, n)) <=>
           \E m \in Nodes : m # <<>> /\ Below(n, m) /\ RuleMatches(pattern, m)
    BY FiltersTakeTheMatched
  <1> QED BY <1>1, <1>2, Zenon

LEMMA SplitInit == Init => SplitInv
  <1> SUFFICES ASSUME Init PROVE SplitInv
    OBVIOUS
  <1>1. pattern \in Patterns /\ base \in Operands /\ tree \subseteq Nodes /\ changes \in Nat
    BY DEF Init
  <1>2. queue = <<>> /\ pc = "idle" /\ placed = {}
    BY DEF Init
  <1>3. Queued /\ MatchesQueued /\ RootsDisjoint
    BY <1>2 DEF Queued, MatchesQueued, RootsDisjoint
  <1>4. LayoutKept /\ OnlySelectedGo /\ NothingSelectedStays
    BY <1>2 DEF LayoutKept, OnlySelectedGo, NothingSelectedStays
  <1> QED BY <1>1, <1>3, <1>4 DEF SplitInv

\* What a step that sends nothing and ends nothing leaves as it was.
LEMMA SentIsKept ==
    ASSUME LayoutKept, OnlySelectedGo, UNCHANGED <<args, placed>>, pc' # "done"
    PROVE  LayoutKept' /\ OnlySelectedGo' /\ NothingSelectedStays'
  <1>1. UNCHANGED <<pattern, base, passthrough, placed>>
    BY DEF args
  <1>2. \A n : Wanted(n)' <=> Wanted(n)
    BY <1>1 DEF Wanted
  <1> QED BY <1>1, <1>2 DEF LayoutKept, OnlySelectedGo, NothingSelectedStays

LEMMA SplitStart == SplitInv /\ Start => SplitInv'
  <1> SUFFICES ASSUME SplitInv, Start
               PROVE  SplitInv'
    OBVIOUS
  <1> USE DEF SplitInv
  <1>1. UNCHANGED <<args, pattern, base, passthrough, tree, placed, changes>> /\ pc' # "done"
    BY DEF Start, args
  <1>2. /\ queue' = <<>> \/ (queue' \in Discover /\ pc' = "syncing" /\ ~passthrough)
        /\ pc' = "syncing" => queue' \in Discover /\ ~passthrough
        /\ pc' = "filtering" => passthrough /\ ValidPattern(pattern)
    BY DEF Start
  <1>3. ASSUME queue' \in Discover
        PROVE  /\ queue' \in Seq(Nodes)
               /\ \A i \in DOMAIN queue' : IsMatch(pattern, queue'[i])
               /\ \A i, j \in DOMAIN queue' : Below(queue'[i], queue'[j]) => i = j
               /\ \A n \in tree : IsMatch(pattern, n) => \E i \in DOMAIN queue' : Below(n, queue'[i])
    BY <1>3, DiscoverFacts
  <1>4. Queued'
    <2>1. queue' \in Seq(Nodes) /\ \A i \in DOMAIN queue' : IsMatch(pattern, queue'[i])
      <3>1. CASE queue' = <<>>
        BY <3>1
      <3>2. CASE queue' \in Discover
        BY <1>3, <3>2
      <3> QED BY <1>2, <3>1, <3>2
    <2>2. pc' = "syncing" => ~passthrough'
      BY <1>1, <1>2
    <2>3. pc' = "filtering" => passthrough' /\ ValidPattern(pattern')
      BY <1>1, <1>2
    <2> QED BY <1>1, <2>1, <2>2, <2>3 DEF Queued
  <1>5. MatchesQueued'
    BY <1>1, <1>2, <1>3 DEF MatchesQueued
  <1>6. RootsDisjoint'
    BY <1>2, <1>3 DEF RootsDisjoint
  <1>7. LayoutKept' /\ OnlySelectedGo' /\ NothingSelectedStays'
    BY <1>1, SentIsKept
  <1> QED BY <1>1, <1>4, <1>5, <1>6, <1>7

LEMMA SplitFilter == SplitInv /\ Filter => SplitInv'
  <1> SUFFICES ASSUME SplitInv, Filter
               PROVE  SplitInv'
    OBVIOUS
  <1> USE DEF SplitInv
  <1>1. /\ UNCHANGED <<args, pattern, base, passthrough, tree, queue, changes>>
        /\ passthrough /\ ValidPattern(pattern) /\ pc' \in {"done", "failed"}
    BY DEF Filter, args, Queued
  <1>2. Passthrough \/ (UNCHANGED placed /\ pc' = "failed")
    BY DEF Filter
  <1>3. Queued' /\ MatchesQueued' /\ RootsDisjoint'
    BY <1>1 DEF Queued, MatchesQueued, RootsDisjoint
  <1>4. CASE UNCHANGED placed /\ pc' = "failed"
    <2>1. LayoutKept' /\ OnlySelectedGo' /\ NothingSelectedStays'
      BY <1>1, <1>4, SentIsKept
    <2> QED BY <1>1, <1>3, <2>1
  <1>5. \A n : Wanted(n)' <=> Wanted(n)
    BY <1>1 DEF Wanted
  <1>6. CASE Passthrough /\ pattern = Dot
    <2>1. Transfer(<<>>) /\ <<>> \in Nodes /\ IsMatch(pattern, <<>>)
      BY <1>6, SplitAssumption, DotSelectsSource DEF Passthrough
    <2>2. LayoutKept'
      BY <1>1, <2>1, TransferKeepsLayout
    <2>3. OnlySelectedGo'
      BY <1>1, <1>6, <2>1, TransferGoes
    <2>4. \A n \in tree : \E e \in placed' : e.from = n
      <3>1. ASSUME NEW n \in tree
            PROVE  \E e \in placed' : e.from = n
        <4> DEFINE e == [at |-> Landing(<<>>) \o Drop(n, Len(<<>>)), from |-> n]
        <4>1. Below(n, <<>>)
          BY NodeIsBelow
        <4>2. e \in Transferred(<<>>) /\ e.from = n
          BY <4>1 DEF Transferred, Entries
        <4>3. e \in placed'
          BY <2>1, <4>2 DEF Transfer, Place
        <4> QED BY <4>2, <4>3
      <3> QED BY <3>1
    <2>5. NothingSelectedStays'
      BY <1>1, <2>4 DEF NothingSelectedStays
    <2> QED BY <1>1, <1>3, <2>2, <2>3, <2>5
  <1>7. CASE Passthrough /\ pattern # Dot
    <2> DEFINE some == {[at |-> PathOf(base) \o n, from |-> n] : n \in FilteredFiles}
    <2>1. placed' = {e \in placed : \A t \in some : t.at # e.at} \cup some
      BY <1>7 DEF Passthrough, Place
    <2>2. \A e \in some : e.from \in FilteredFiles /\ e.at = PathOf(base) \o e.from
      OBVIOUS
    <2>3. ASSUME NEW n \in FilteredFiles
          PROVE  \E e \in some : e.from = n
      <3> DEFINE e == [at |-> PathOf(base) \o n, from |-> n]
      <3>1. e \in some /\ e.from = n
        OBVIOUS
      <3> QED BY <3>1
    <2> HIDE DEF some
    <2>4. LayoutKept'
      BY <1>1, <2>1, <2>2 DEF LayoutKept
    <2>5. ASSUME Plain(pattern), NEW n \in tree \ Folders
          PROVE  n \in FilteredFiles <=> \E m \in Nodes : Below(n, m) /\ Wanted(m)
      <3>1. n \in Nodes \ Folders
        OBVIOUS
      <3> QED BY <1>1, <1>7, <2>5, <3>1, FilteredIsWanted DEF FilteredFiles
    <2>6. \A n \in FilteredFiles : n \in tree \ Folders
      BY DEF FilteredFiles
    <2>7. OnlySelectedGo'
      <3>1. ASSUME Plain(pattern), NEW e \in placed'
            PROVE  \E n \in Nodes : Below(e.from, n) /\ Wanted(n)
        <4>1. CASE e \in placed
          BY <3>1, <4>1 DEF OnlySelectedGo
        <4>2. CASE e \in some
          BY <2>2, <2>5, <2>6, <3>1, <4>2
        <4> QED BY <2>1, <4>1, <4>2
      <3> QED BY <1>1, <1>5, <3>1 DEF OnlySelectedGo
    <2>8. NothingSelectedStays'
      <3>1. ASSUME Plain(pattern), NEW n \in tree \ Folders, NEW m \in Nodes, Below(n, m), Wanted(m)
            PROVE  \E e \in placed' : e.from = n
        <4>1. n \in FilteredFiles
          BY <2>5, <3>1
        <4> QED BY <2>1, <2>3, <4>1
      <3> QED BY <1>1, <1>5, <3>1 DEF NothingSelectedStays
    <2> QED BY <1>1, <1>3, <2>4, <2>7, <2>8
  <1> QED BY <1>2, <1>4, <1>6, <1>7

LEMMA SplitSync == SplitInv /\ (SyncRoot \/ FailRoot) => SplitInv'
  <1> SUFFICES ASSUME SplitInv, SyncRoot \/ FailRoot
               PROVE  SplitInv'
    OBVIOUS
  <1> USE DEF SplitInv
  <1> DEFINE root == Head(queue)
  <1>1. /\ UNCHANGED <<args, pattern, base, passthrough, changes>> /\ queue # <<>> /\ pc = "syncing" /\ ~passthrough
        /\ pc' # "done" /\ pc' # "filtering" /\ tree' \subseteq tree
        /\ Transfer(root) \/ UNCHANGED placed
    BY DEF SyncRoot, FailRoot, args, Queued
  <1>2. /\ root \in Nodes /\ root = queue[1] /\ 1 \in DOMAIN queue /\ Tail(queue) \in Seq(Nodes)
        /\ \A i \in DOMAIN Tail(queue) : Tail(queue)[i] = queue[i + 1] /\ i + 1 \in DOMAIN queue
    BY <1>1, TailFacts DEF Queued
  <1>3. IsMatch(pattern, root)
    BY <1>2 DEF Queued
  <1> HIDE DEF root
  <1>4. LayoutKept' /\ OnlySelectedGo' /\ NothingSelectedStays'
    <2>1. CASE Transfer(root)
      <3>1. LayoutKept'
        BY <1>1, <1>2, <1>3, <2>1, TransferKeepsLayout
      <3>2. OnlySelectedGo'
        BY <1>1, <1>2, <1>3, <2>1, TransferGoes
      <3> QED BY <1>1, <3>1, <3>2 DEF NothingSelectedStays
    <2>2. CASE UNCHANGED placed
      BY <1>1, <2>2, SentIsKept
    <2> QED BY <1>1, <2>1, <2>2
  <1>5. CASE FailRoot
    <2>1. queue' = <<>> /\ pc' = "failed" /\ tree' = tree
      BY <1>5 DEF FailRoot
    <2>2. Queued' /\ MatchesQueued' /\ RootsDisjoint'
      BY <1>1, <2>1 DEF Queued, MatchesQueued, RootsDisjoint
    <2> QED BY <1>1, <1>4, <2>1, <2>2
  <1>6. CASE SyncRoot
    <2>1. queue' = Tail(queue) /\ tree' = tree \ Entries(root) /\ pc' = "syncing"
      BY <1>6 DEF SyncRoot, root
    <2>2. Queued'
      BY <1>1, <1>2, <2>1 DEF Queued
    <2>3. RootsDisjoint'
      <3>1. \A i, j \in DOMAIN Tail(queue) : i \in Nat /\ j \in Nat /\ (i + 1 = j + 1 => i = j)
        BY <1>2
      <3> QED BY <1>2, <2>1, <3>1 DEF RootsDisjoint
    <2>4. MatchesQueued'
      <3>1. ASSUME changes = 0, NEW n \in tree', IsMatch(pattern, n)
            PROVE  \E i \in DOMAIN queue' : Below(n, queue'[i])
        <4>1. n \in tree /\ ~Below(n, root)
          BY <2>1, <3>1 DEF Entries
        <4>2. PICK i \in DOMAIN queue : Below(n, queue[i])
          BY <1>1, <3>1, <4>1 DEF MatchesQueued
        <4>3. i # 1
          BY <1>2, <4>1, <4>2
        <4>4. i - 1 \in DOMAIN Tail(queue) /\ i - 1 + 1 = i
          <5>1. queue \in Seq(Nodes)
            BY DEF Queued
          <5> QED BY <1>1, <4>2, <4>3, <5>1
        <4> QED BY <1>2, <2>1, <4>2, <4>4
      <3> QED BY <1>1, <3>1 DEF MatchesQueued
    <2> QED BY <1>1, <1>4, <2>1, <2>2, <2>3, <2>4
  <1> QED BY <1>5, <1>6

LEMMA SplitStep == SplitInv /\ [Next]_vars => SplitInv'
  <1> SUFFICES ASSUME SplitInv, [Next]_vars
               PROVE  SplitInv'
    OBVIOUS
  <1> USE DEF SplitInv
  <1>1. CASE Start
    BY <1>1, SplitStart
  <1>2. CASE Filter
    BY <1>2, SplitFilter
  <1>3. CASE SyncRoot \/ FailRoot
    BY <1>3, SplitSync
  <1>4. CASE Finish
    <2>1. /\ UNCHANGED <<pattern, base, passthrough, tree, queue, placed, changes>>
          /\ pc = "syncing" /\ pc' = "done" /\ queue = <<>> /\ ~passthrough
      BY <1>4 DEF Finish, args, Queued
    <2>2. \A n : Wanted(n)' <=> Wanted(n)
      BY <2>1 DEF Wanted
    <2>3. Queued' /\ MatchesQueued' /\ RootsDisjoint' /\ LayoutKept' /\ OnlySelectedGo'
      BY <2>1, <2>2 DEF Queued, MatchesQueued, RootsDisjoint, LayoutKept, OnlySelectedGo
    <2>4. ASSUME Plain(pattern), changes = 0, NEW n \in tree
          PROVE  ~Wanted(n)
      <3>1. ~IsMatch(pattern, n)
        BY <2>1, <2>4 DEF MatchesQueued
      <3> QED BY <2>1, <2>4, <3>1, WantedIsMatched
    <2>5. NothingSelectedStays'
      BY <2>1, <2>2, <2>4 DEF NothingSelectedStays
    <2> QED BY <2>1, <2>3, <2>5
  <1>5. CASE Again
    <2>1. UNCHANGED <<args, pattern, base, passthrough, tree, queue, placed, changes>> /\ pc' = "idle"
      BY <1>5 DEF Again, args
    <2>2. Queued' /\ MatchesQueued' /\ RootsDisjoint'
      BY <2>1 DEF Queued, MatchesQueued, RootsDisjoint
    <2>3. LayoutKept' /\ OnlySelectedGo' /\ NothingSelectedStays'
      BY <2>1, SentIsKept
    <2> QED BY <2>1, <2>2, <2>3
  <1>6. CASE UserAdds \/ UserRemoves
    <2>1. UNCHANGED <<pattern, base, passthrough, queue, pc, placed>> /\ changes' = changes + 1 /\ tree' \subseteq Nodes
      BY <1>6 DEF UserAdds, UserRemoves, args
    <2>2. changes' \in Nat /\ changes' # 0
      BY <2>1
    <2>3. \A n : Wanted(n)' <=> Wanted(n)
      BY <2>1 DEF Wanted
    <2>4. Queued' /\ MatchesQueued' /\ RootsDisjoint' /\ LayoutKept'
      BY <2>1, <2>2 DEF Queued, MatchesQueued, RootsDisjoint, LayoutKept
    <2>5. OnlySelectedGo' /\ NothingSelectedStays'
      BY <2>1, <2>2, <2>3 DEF OnlySelectedGo, NothingSelectedStays
    <2> QED BY <2>1, <2>2, <2>4, <2>5
  <1>7. CASE UNCHANGED vars
    <2>1. UNCHANGED <<pattern, base, passthrough, tree, queue, pc, placed, changes>>
      BY <1>7 DEF vars, args
    <2>2. \A n : Wanted(n)' <=> Wanted(n)
      BY <2>1 DEF Wanted
    <2>3. Queued' /\ MatchesQueued' /\ RootsDisjoint' /\ LayoutKept'
      BY <2>1 DEF Queued, MatchesQueued, RootsDisjoint, LayoutKept
    <2>4. OnlySelectedGo' /\ NothingSelectedStays'
      BY <2>1, <2>2 DEF OnlySelectedGo, NothingSelectedStays
    <2> QED BY <2>1, <2>3, <2>4
  <1> QED BY <1>1, <1>2, <1>3, <1>4, <1>5, <1>6, <1>7 DEF Next

LEMMA SplitInvariant == Spec => []SplitInv
  BY SplitInit, SplitStep, PTL DEF Spec

\* The roots of one pass do not overlap, for every tree and pattern: no sync
\* deletes what a later one was to send (discover_split_entries).
THEOREM RootsAreDisjoint == Spec => []RootsDisjoint
  <1>1. SplitInv => RootsDisjoint
    BY DEF SplitInv
  <1> QED BY <1>1, SplitInvariant, PTL

\* Every entry keeps its place, however deep a root lies, however the operand is
\* spelled and whatever is at the destination (split_target_suffix,
\* resolve_destination).
THEOREM LayoutIsKept == Spec => []LayoutKept
  <1>1. SplitInv => LayoutKept
    BY DEF SplitInv
  <1> QED BY <1>1, SplitInvariant, PTL

\* Only what a plain pattern selects, or what is below it, is sent and deleted,
\* whether the client walks the tree or rsync does (is_match,
\* build_split_filters).
THEOREM OnlySelectedIsSent == Spec => []OnlySelectedGo
  <1>1. SplitInv => OnlySelectedGo
    BY DEF SplitInv
  <1> QED BY <1>1, SplitInvariant, PTL

\* A pass that ends well has taken all that a plain pattern selects, unless the
\* user changed the tree meanwhile (run_split, run_passthrough_split).
THEOREM SelectedDoesNotStay == Spec => []NothingSelectedStays
  <1>1. SplitInv => NothingSelectedStays
    BY DEF SplitInv
  <1> QED BY <1>1, SplitInvariant, PTL
=============================================================================
