---------------------------- MODULE TextLemmas -----------------------------
(***************************************************************************)
(* Induction without an operator: over numbers, over sequences and along   *)
(* the rows of a recursion, each as a fact about a set or about functions; *)
(* and what FlattenSeq makes of its argument.  The proofs about texts and  *)
(* patterns rest on it.                                                    *)
(***************************************************************************)
EXTENDS Integers, Sequences, SequencesExt, FiniteSetsExt, SequenceTheorems,
        FiniteSetTheorems, WellFoundedInduction, TLAPS

----------------------------------------------------------------------------
(* Numbers: a set of them has a least, and induction is about such a set, *)
(* that of the numbers for which something holds.                          *)

LEMMA LeastNumber ==
    ASSUME NEW T \in SUBSET Nat, T # {}
    PROVE  \E n \in T : \A m \in T : n <= m
  <1> DEFINE R == OpToRel(<, Nat)
  <1>1. IsWellFoundedOn(R, Nat)
    BY NatLessThanWellFounded
  <1> HIDE DEF R
  <1>2. PICK n \in T : \A m \in T : ~ (<<m, n>> \in R)
    BY <1>1, WFMin
  <1>3. \A m \in T : m < n => <<m, n>> \in R
    BY DEF R, OpToRel
  <1>4. \A m \in T : ~(m < n)
    BY <1>2, <1>3
  <1>5. \A m \in T : m \in Nat /\ n \in Nat
    OBVIOUS
  <1> QED BY <1>4, <1>5

\* Induction, of a set of numbers.
LEMMA Counting ==
    ASSUME NEW T \in SUBSET Nat, 0 \in T, \A n \in T : n + 1 \in T
    PROVE  T = Nat
  <1> DEFINE rest == Nat \ T
  <1>1. ASSUME rest # {}
        PROVE  FALSE
    <2>1. PICK n \in rest : \A m \in rest : n <= m
      BY <1>1, LeastNumber
    <2>2. n # 0 /\ n \in Nat /\ n \notin T
      OBVIOUS
    <2>3. n - 1 \in Nat /\ ~(n <= n - 1) /\ (n - 1) + 1 = n
      BY <2>2
    <2>4. n - 1 \in T
      BY <2>1, <2>3
    <2> QED BY <2>2, <2>3, <2>4
  <1> QED BY <1>1

LEMMA GreatestOf ==
    ASSUME NEW n \in Nat, NEW S \in SUBSET (1..n), S # {}
    PROVE  Max(S) \in S /\ \A y \in S : Max(S) >= y
  <1> DEFINE T == {k \in Nat : \E y \in S : k = n - y}
  <1>1. \A y \in S : y \in Nat /\ n - y \in Nat
    OBVIOUS
  <1>2. T # {}
    BY <1>1
  <1>3. PICK k \in T : \A m \in T : k <= m
    BY <1>2, LeastNumber
  <1>4. PICK x \in S : k = n - x
    BY <1>3
  <1>5. ASSUME NEW y \in S
        PROVE  x >= y
    <2>1. n - x <= n - y
      BY <1>1, <1>3, <1>4
    <2> QED BY <1>1, <2>1
  <1>6. \E z \in S : \A y \in S : z >= y
    BY <1>5
  <1> QED BY <1>6 DEF Max

----------------------------------------------------------------------------
(* Sequences. *)

\* Induction from the end of a sequence to its head, of a set of sequences.
LEMMA ByHead ==
    ASSUME NEW C, NEW T, <<>> \in T,
           \A c \in C, s \in Seq(C) : s \in T => Cons(c, s) \in T
    PROVE  Seq(C) \subseteq T
  <1> DEFINE N == {n \in Nat : \A s \in Seq(C) : Len(s) = n => s \in T}
  <1>1. 0 \in N
    OBVIOUS
  <1>2. ASSUME NEW n \in N
        PROVE  n + 1 \in N
    <2> SUFFICES ASSUME NEW s \in Seq(C), Len(s) = n + 1
                 PROVE  s \in T
      OBVIOUS
    <2>1. Head(s) \in C /\ Tail(s) \in Seq(C) /\ Len(Tail(s)) = n /\ n \in Nat
      OBVIOUS
    <2>2. s = Cons(Head(s), Tail(s))
      BY <2>1 DEF Cons
    <2> QED BY <2>1, <2>2
  <1>3. N \in SUBSET Nat
    OBVIOUS
  <1> HIDE DEF N
  <1>4. N = Nat
    BY <1>1, <1>2, <1>3, Counting
  <1> QED BY <1>4 DEF N

\* Induction from the front of a sequence to its last element.
LEMMA ByLast ==
    ASSUME NEW C, NEW T, <<>> \in T,
           \A c \in C, s \in Seq(C) : s \in T => Append(s, c) \in T
    PROVE  Seq(C) \subseteq T
  <1> DEFINE N == {n \in Nat : \A s \in Seq(C) : Len(s) = n => s \in T}
  <1>1. 0 \in N
    OBVIOUS
  <1>2. ASSUME NEW n \in N
        PROVE  n + 1 \in N
    <2> SUFFICES ASSUME NEW s \in Seq(C), Len(s) = n + 1
                 PROVE  s \in T
      OBVIOUS
    <2>0. n \in Nat
      OBVIOUS
    <2> DEFINE front == SubSeq(s, 1, n)
    <2>1. front \in Seq(C) /\ Len(front) = n /\ s[n + 1] \in C
      BY <2>0
    <2>2. s = Append(front, s[n + 1])
      BY <2>0
    <2> HIDE DEF front
    <2> QED BY <2>1, <2>2
  <1>3. N \in SUBSET Nat
    OBVIOUS
  <1> HIDE DEF N
  <1>4. N = Nat
    BY <1>1, <1>2, <1>3, Counting
  <1> QED BY <1>4 DEF N

LEMMA FunctionIsSequence ==
    ASSUME NEW C, NEW k \in Nat, NEW f \in [1..k -> C]
    PROVE  f \in Seq(C)
  OBVIOUS

\* What is behind the head.
LEMMA ConsFacts ==
    ASSUME NEW C, NEW c \in C, NEW s \in Seq(C)
    PROVE  /\ Cons(c, s) \in Seq(C) /\ Len(Cons(c, s)) = Len(s) + 1 /\ Cons(c, s)[1] = c
           /\ \A i \in 1..Len(s) : Cons(c, s)[i + 1] = s[i]
           /\ Head(Cons(c, s)) = c /\ Tail(Cons(c, s)) = s /\ Cons(c, s) # <<>>
  BY DEF Cons

\* Two functions that agree in each row if they do in all rows behind it agree.
AgreeFromBehind(f, g, n) ==
    \A i \in 1..n : (\A j \in i + 1..n : f[j] = g[j]) => f[i] = g[i]

LEMMA RowsUnique ==
    ASSUME NEW n \in Nat, NEW f, NEW g, AgreeFromBehind(f, g, n)
    PROVE  \A i \in 1..n : f[i] = g[i]
  <1> DEFINE T == {k \in Nat : \A j \in n + 1 - k..n : j \in 1..n => f[j] = g[j]}
  <1>1. 0 \in T
    OBVIOUS
  <1>2. ASSUME NEW k \in T
        PROVE  k + 1 \in T
    <2> SUFFICES ASSUME NEW j \in n + 1 - (k + 1)..n, j \in 1..n
                 PROVE  f[j] = g[j]
      OBVIOUS
    <2>1. CASE j \in n + 1 - k..n
      BY <2>1
    <2>2. CASE j \notin n + 1 - k..n
      <3>1. j + 1 = n + 1 - k
        BY <2>2
      <3>2. \A m \in j + 1..n : f[m] = g[m]
        BY <3>1
      <3> QED BY <3>2 DEF AgreeFromBehind
    <2> QED BY <2>1, <2>2
  <1>3. T \in SUBSET Nat
    OBVIOUS
  <1> HIDE DEF T
  <1>4. T = Nat
    BY <1>1, <1>2, <1>3, Counting
  <1>5. n \in T /\ n + 1 - n = 1
    BY <1>4
  <1> QED BY <1>5 DEF T

\* A recursion whose rows stay in a set has a solution.
RowFunctions(n, D) == [1..n -> [D -> D]]
Solves(f, n, D, last, G) ==
    /\ f \in [1..n + 1 -> D] /\ f[n + 1] = last
    /\ \A i \in 1..n : f[i] = G[i][f[i + 1]]

LEMMA RowsExist ==
    ASSUME NEW n \in Nat, NEW D, NEW last \in D, NEW G \in RowFunctions(n, D)
    PROVE  \E f : Solves(f, n, D, last, G)
  <1>0. G \in [1..n -> [D -> D]]
    BY DEF RowFunctions
  <1> DEFINE From(k, f) == f[n + 1] = last /\ \A i \in n + 1 - k..n : f[i] = G[i][f[i + 1]]
             T == {k \in Nat : k <= n => \E f \in [n + 1 - k..n + 1 -> D] : From(k, f)}
  <1>1. 0 \in T
    <2> DEFINE f == [i \in n + 1 - 0..n + 1 |-> last]
    <2>1. f \in [n + 1 - 0..n + 1 -> D] /\ From(0, f)
      OBVIOUS
    <2> HIDE DEF f, From
    <2> QED BY <2>1
  <1>2. ASSUME NEW k \in T
        PROVE  k + 1 \in T
    <2>0. k \in Nat
      OBVIOUS
    <2> SUFFICES ASSUME k + 1 <= n
                 PROVE  \E f \in [n + 1 - (k + 1)..n + 1 -> D] : From(k + 1, f)
      BY <2>0
    <2>1. PICK f \in [n + 1 - k..n + 1 -> D] : From(k, f)
      BY <2>0
    <2> DEFINE g == [i \in n + 1 - (k + 1)..n + 1 |->
                        IF i = n - k THEN G[i][f[i + 1]] ELSE f[i]]
    <2>2. n - k \in 1..n /\ f[n - k + 1] \in D
      BY <2>0
    <2>3. G[n - k][f[n - k + 1]] \in D
      BY <1>0, <2>2
    <2>4. g \in [n + 1 - (k + 1)..n + 1 -> D]
      BY <2>0, <2>3
    <2>5. g[n + 1] = last
      BY <2>0, <2>1
    <2>6. ASSUME NEW i \in n + 1 - (k + 1)..n
          PROVE  g[i] = G[i][g[i + 1]]
      <3>1. i + 1 \in n + 1 - (k + 1)..n + 1 /\ i + 1 # n - k
        BY <2>0
      <3>2. g[i + 1] = f[i + 1]
        BY <3>1
      <3>3. CASE i = n - k
        BY <3>2, <3>3
      <3>4. CASE i # n - k
        <4>1. i \in n + 1 - k..n
          BY <2>0, <3>4
        <4>2. g[i] = f[i] /\ f[i] = G[i][f[i + 1]]
          BY <2>1, <3>4, <4>1
        <4> HIDE DEF g
        <4> QED BY <3>2, <4>2
      <3> QED BY <3>3, <3>4
    <2> HIDE DEF g
    <2>7. From(k + 1, g)
      BY <2>5, <2>6
    <2> HIDE DEF From
    <2> QED BY <2>4, <2>7
  <1>3. T \in SUBSET Nat
    OBVIOUS
  <1> HIDE DEF T
  <1>4. n \in T
    BY <1>1, <1>2, <1>3, Counting
  <1>5. PICK f \in [n + 1 - n..n + 1 -> D] : From(n, f)
    BY <1>4 DEF T
  <1>6. n + 1 - n = 1
    OBVIOUS
  <1> QED BY <1>5, <1>6 DEF Solves

----------------------------------------------------------------------------
(* FlattenSeq. *)

\* The growing of a flattened sequence, one of the sequences after the other.
Flattening(f, seqs, n) ==
    f = [i \in 1..n |-> IF i = 1 THEN seqs[i] ELSE f[i - 1] \o seqs[i]]

LEMMA FlatteningExists ==
    ASSUME NEW seqs, NEW n \in Nat
    PROVE  \E f : Flattening(f, seqs, n)
  <1> DEFINE T == {k \in Nat : \E f : Flattening(f, seqs, k)}
  <1>1. 0 \in T
    <2> DEFINE f == [i \in 1..0 |-> {}]
    <2>1. f = [i \in 1..0 |-> IF i = 1 THEN seqs[i] ELSE f[i - 1] \o seqs[i]]
      <3>1. \A i \in 1..0 : FALSE
        OBVIOUS
      <3> QED BY <3>1
    <2> HIDE DEF f
    <2>2. Flattening(f, seqs, 0)
      BY <2>1 DEF Flattening
    <2> QED BY <2>2
  <1>2. ASSUME NEW k \in T
        PROVE  k + 1 \in T
    <2>1. PICK f : Flattening(f, seqs, k)
      OBVIOUS
    <2> DEFINE next == IF k + 1 = 1 THEN seqs[k + 1] ELSE f[k] \o seqs[k + 1]
               g == [i \in 1..(k + 1) |-> IF i = k + 1 THEN next ELSE f[i]]
    <2>2. k \in Nat
      OBVIOUS
    <2>3. ASSUME NEW i \in 1..(k + 1)
          PROVE  g[i] = IF i = 1 THEN seqs[i] ELSE g[i - 1] \o seqs[i]
      <3>1. CASE i = k + 1
        <4>1. CASE i = 1
          BY <3>1, <4>1
        <4>2. CASE i # 1
          <5>1. i - 1 \in 1..(k + 1) /\ i - 1 # k + 1 /\ i - 1 = k
            BY <2>2, <3>1, <4>2
          <5>2. g[i - 1] = f[k]
            BY <5>1
          <5> QED BY <3>1, <4>2, <5>2
        <4> QED BY <4>1, <4>2
      <3>2. CASE i # k + 1
        <4>1. i \in 1..k
          BY <2>2, <3>2
        <4>2. g[i] = f[i] /\ f[i] = IF i = 1 THEN seqs[i] ELSE f[i - 1] \o seqs[i]
          BY <2>1, <3>2, <4>1 DEF Flattening
        <4>3. i # 1 => i - 1 \in 1..(k + 1) /\ i - 1 # k + 1
          BY <2>2, <4>1
        <4>4. i # 1 => g[i - 1] = f[i - 1]
          BY <4>3
        <4> HIDE DEF g
        <4> QED BY <4>2, <4>4
      <3> QED BY <3>1, <3>2
    <2>4. g = [i \in 1..(k + 1) |-> IF i = 1 THEN seqs[i] ELSE g[i - 1] \o seqs[i]]
      <3>1. g = [i \in 1..(k + 1) |-> g[i]]
        OBVIOUS
      <3> HIDE DEF g
      <3> QED BY <2>3, <3>1
    <2> HIDE DEF g
    <2>5. Flattening(g, seqs, k + 1)
      BY <2>4 DEF Flattening
    <2> QED BY <2>2, <2>5
  <1>3. T \in SUBSET Nat
    OBVIOUS
  <1> HIDE DEF T
  <1>4. T = Nat
    BY <1>1, <1>2, <1>3, Counting
  <1> QED BY <1>4 DEF T

LEMMA FlattenSeqSteps ==
    ASSUME NEW C, NEW seqs \in Seq(Seq(C))
    PROVE  \E h \in [0..Len(seqs) -> Seq(C)] :
              /\ h[0] = <<>>
              /\ \A i \in 1..Len(seqs) : h[i] = h[i - 1] \o seqs[i]
              /\ FlattenSeq(seqs) = h[Len(seqs)]
  <1>0. Len(seqs) \in Nat /\ \A i \in 1..Len(seqs) : seqs[i] \in Seq(C)
    OBVIOUS
  <1>1. CASE Len(seqs) = 0
    <2>1. FlattenSeq(seqs) = <<>>
      BY <1>1 DEF FlattenSeq
    <2> DEFINE h == [k \in 0..Len(seqs) |-> <<>>]
    <2>2. h \in [0..Len(seqs) -> Seq(C)] /\ h[0] = <<>> /\ h[Len(seqs)] = <<>>
      BY <1>1
    <2>3. \A i \in 1..Len(seqs) : h[i] = h[i - 1] \o seqs[i]
      BY <1>1
    <2> HIDE DEF h
    <2> QED BY <2>1, <2>2, <2>3
  <1>2. CASE Len(seqs) # 0
    <2> DEFINE f == CHOOSE f : Flattening(f, seqs, Len(seqs))
               h == [k \in 0..Len(seqs) |-> IF k = 0 THEN <<>> ELSE f[k]]
               T == {k \in Nat : k <= Len(seqs) => h[k] \in Seq(C)}
    <2>1. Flattening(f, seqs, Len(seqs))
      BY <1>0, FlatteningExists
    <2>2. FlattenSeq(seqs) = f[Len(seqs)]
      BY <1>2 DEF FlattenSeq, Flattening
    <2> HIDE DEF f
    <2>3. \A i \in 1..Len(seqs) : f[i] = IF i = 1 THEN seqs[i] ELSE f[i - 1] \o seqs[i]
      BY <2>1 DEF Flattening
    <2>4. h[0] = <<>> /\ h[Len(seqs)] = f[Len(seqs)]
      BY <1>0, <1>2
    <2>5. ASSUME NEW i \in 1..Len(seqs)
          PROVE  h[i] = h[i - 1] \o seqs[i]
      <3>1. i \in 0..Len(seqs) /\ i - 1 \in 0..Len(seqs) /\ i # 0 /\ i \in Nat
        BY <1>0
      <3>2. h[i] = f[i]
        BY <3>1
      <3>3. CASE i = 1
        <4>1. h[i - 1] = <<>> /\ h[i] = seqs[i] /\ seqs[i] \in Seq(C)
          BY <1>0, <2>3, <3>1, <3>2, <3>3
        <4> HIDE DEF h
        <4> QED BY <4>1
      <3>4. CASE i # 1
        <4>1. h[i - 1] = f[i - 1]
          BY <3>1, <3>4
        <4> HIDE DEF h
        <4> QED BY <2>3, <3>2, <3>4, <4>1
      <3> QED BY <3>3, <3>4
    <2> HIDE DEF h
    <2>6. 0 \in T
      <3>1. h[0] \in Seq(C)
        BY <2>4
      <3> QED BY <3>1, Zenon
    <2>7. ASSUME NEW k \in T
          PROVE  k + 1 \in T
      <3>1. CASE k + 1 <= Len(seqs)
        <4>1. k + 1 \in 1..Len(seqs) /\ (k + 1) - 1 = k /\ k <= Len(seqs)
          BY <1>0, <3>1
        <4>2. h[k] \in Seq(C) /\ seqs[k + 1] \in Seq(C) /\ h[k + 1] = h[k] \o seqs[k + 1]
          BY <1>0, <2>5, <4>1
        <4>3. h[k + 1] \in Seq(C) /\ k + 1 \in Nat
          BY <4>1, <4>2
        <4> QED BY <4>3, Zenon
      <3> QED BY <3>1
    <2>8. T \in SUBSET Nat
      OBVIOUS
    <2> HIDE DEF T
    <2>9. T = Nat
      BY <2>6, <2>7, <2>8, Counting
    <2>10. \A k \in 0..Len(seqs) : h[k] \in Seq(C)
      BY <2>9 DEF T
    <2>11. h = [k \in 0..Len(seqs) |-> h[k]]
      BY DEF h
    <2>12. h \in [0..Len(seqs) -> Seq(C)]
      BY <2>10, <2>11
    <2> QED BY <2>2, <2>4, <2>5, <2>12
  <1> QED BY <1>1, <1>2

LEMMA ConcatAssociates ==
    ASSUME NEW C, NEW a \in Seq(C), NEW b \in Seq(C), NEW c \in Seq(C)
    PROVE  (a \o b) \o c = a \o (b \o c)
  OBVIOUS

LEMMA ConcatAppend ==
    ASSUME NEW C, NEW a \in Seq(C), NEW b \in Seq(C), NEW c \in C
    PROVE  a \o Append(b, c) = Append(a \o b, c)
  OBVIOUS

LEMMA FlattenEmpty == FlattenSeq(<<>>) = <<>>
  BY DEF FlattenSeq

LEMMA FlattenType ==
    ASSUME NEW C, NEW seqs \in Seq(Seq(C))
    PROVE  FlattenSeq(seqs) \in Seq(C)
  <1>1. PICK h \in [0..Len(seqs) -> Seq(C)] : FlattenSeq(seqs) = h[Len(seqs)]
    BY FlattenSeqSteps, Zenon
  <1> QED BY <1>1

LEMMA FlattenAppend ==
    ASSUME NEW C, NEW seqs \in Seq(Seq(C)), NEW x \in Seq(C)
    PROVE  FlattenSeq(Append(seqs, x)) = FlattenSeq(seqs) \o x
  <1> DEFINE longer == Append(seqs, x)
  <1>0. longer \in Seq(Seq(C)) /\ Len(longer) = Len(seqs) + 1 /\ longer[Len(seqs) + 1] = x
        /\ \A i \in 1..Len(seqs) : longer[i] = seqs[i]
    OBVIOUS
  <1>00. Len(seqs) \in Nat
    OBVIOUS
  <1> HIDE DEF longer
  <1>1. PICK g \in [0..Len(seqs) -> Seq(C)] :
              /\ g[0] = <<>>
              /\ \A i \in 1..Len(seqs) : g[i] = g[i - 1] \o seqs[i]
              /\ FlattenSeq(seqs) = g[Len(seqs)]
    BY FlattenSeqSteps, Zenon
  <1>2. PICK h \in [0..Len(longer) -> Seq(C)] :
              /\ h[0] = <<>>
              /\ \A i \in 1..Len(longer) : h[i] = h[i - 1] \o longer[i]
              /\ FlattenSeq(longer) = h[Len(longer)]
    BY <1>0, FlattenSeqSteps, Zenon
  <1> DEFINE T == {k \in Nat : k <= Len(seqs) => g[k] = h[k]}
  <1>3. 0 \in T
    BY <1>1, <1>2
  <1>4. ASSUME NEW k \in T
        PROVE  k + 1 \in T
    <2>1. CASE k + 1 <= Len(seqs)
      <3>0. k \in Nat
        OBVIOUS
      <3>1. k + 1 \in 1..Len(seqs) /\ k + 1 \in 1..Len(longer) /\ (k + 1) - 1 = k
        BY <1>0, <1>00, <2>1, <3>0
      <3>2. g[k + 1] = g[k] \o seqs[k + 1] /\ h[k + 1] = h[k] \o longer[k + 1]
        BY <1>1, <1>2, <3>1
      <3>3. g[k] = h[k]
        BY <1>00, <2>1, <3>0
      <3>4. longer[k + 1] = seqs[k + 1]
        BY <1>0, <3>1
      <3>5. g[k + 1] = h[k + 1]
        BY <3>2, <3>3, <3>4, Zenon
      <3> QED BY <3>0, <3>5
    <2> QED BY <2>1
  <1>5. T \in SUBSET Nat
    OBVIOUS
  <1> HIDE DEF T
  <1>6. T = Nat
    BY <1>3, <1>4, <1>5, Counting
  <1>7. g[Len(seqs)] = h[Len(seqs)]
    <2>1. Len(seqs) \in T
      BY <1>00, <1>6
    <2> QED BY <1>00, <2>1 DEF T
  <1>8. Len(longer) \in 1..Len(longer) /\ Len(longer) - 1 = Len(seqs)
    BY <1>0, <1>00
  <1>9. h[Len(longer)] = h[Len(seqs)] \o longer[Len(longer)]
    BY <1>2, <1>8
  <1> QED BY <1>0, <1>1, <1>2, <1>7, <1>9 DEF longer

LEMMA FlattenConcat ==
    ASSUME NEW C, NEW a \in Seq(Seq(C)), NEW b \in Seq(Seq(C))
    PROVE  FlattenSeq(a \o b) = FlattenSeq(a) \o FlattenSeq(b)
  <1> DEFINE S == Seq(C)
             T == {s \in Seq(S) : FlattenSeq(a \o s) = FlattenSeq(a) \o FlattenSeq(s)}
  <1>0. \A s \in Seq(S) : FlattenSeq(s) \in S
    BY FlattenType
  <1>00. \A s \in Seq(S), x \in S : FlattenSeq(Append(s, x)) = FlattenSeq(s) \o x
    BY FlattenAppend
  <1>1. <<>> \in T
    <2>1. a \o <<>> = a /\ <<>> \in Seq(S)
      OBVIOUS
    <2>2. FlattenSeq(a) \o <<>> = FlattenSeq(a)
      BY <1>0
    <2> QED BY <2>1, <2>2, FlattenEmpty
  <1>2. ASSUME NEW c \in S, NEW s \in Seq(S), s \in T
        PROVE  Append(s, c) \in T
    <2>1. a \o Append(s, c) = Append(a \o s, c) /\ a \o s \in Seq(S) /\ Append(s, c) \in Seq(S)
      OBVIOUS
    <2>2. FlattenSeq(a \o Append(s, c)) = FlattenSeq(a \o s) \o c
      BY <1>00, <2>1
    <2>3. FlattenSeq(a \o s) = FlattenSeq(a) \o FlattenSeq(s)
      BY <1>2, Zenon
    <2>4. (FlattenSeq(a) \o FlattenSeq(s)) \o c = FlattenSeq(a) \o (FlattenSeq(s) \o c)
      <3>1. \A x, y, z \in Seq(C) : (x \o y) \o z = x \o (y \o z)
        BY ConcatAssociates
      <3>2. FlattenSeq(a) \in Seq(C) /\ FlattenSeq(s) \in Seq(C) /\ c \in Seq(C)
        BY <1>0
      <3> QED BY <3>1, <3>2, Zenon
    <2>5. FlattenSeq(Append(s, c)) = FlattenSeq(s) \o c
      BY <1>00
    <2> QED BY <2>1, <2>2, <2>3, <2>4, <2>5
  <1> HIDE DEF T
  <1>3. Seq(S) \subseteq T
    BY <1>1, <1>2, ByLast
  <1>4. b \in T
    BY <1>3
  <1> QED BY <1>4 DEF T

\* The first row of a recursion, and what is one whatever is behind its last row.
RowsOf(n, D, last, G) == (CHOOSE f : Solves(f, n, D, last, G))[1]
Follows(g, n, D, last, G) ==
    g[n + 1] = last /\ \A i \in 1..n : g[i + 1] \in D => g[i] = G[i][g[i + 1]]

LEMMA RowsAre ==
    ASSUME NEW n \in Nat, NEW D, NEW last \in D, NEW G \in RowFunctions(n, D), NEW g,
           Follows(g, n, D, last, G)
    PROVE  g[1] = RowsOf(n, D, last, G) /\ RowsOf(n, D, last, G) \in D
  <1>1. PICK f : Solves(f, n, D, last, G) /\ RowsOf(n, D, last, G) = f[1]
    BY RowsExist DEF RowsOf
  <1>2. f \in [1..n + 1 -> D] /\ f[n + 1] = last /\ \A i \in 1..n : f[i] = G[i][f[i + 1]]
    BY <1>1 DEF Solves
  <1>3. ASSUME NEW i \in 1..n + 1, \A j \in i + 1..n + 1 : f[j] = g[j]
        PROVE  f[i] = g[i]
    <2>1. CASE i = n + 1
      BY <1>2, <2>1 DEF Follows
    <2>2. CASE i # n + 1
      <3>1. i \in 1..n /\ i + 1 \in i + 1..n + 1 /\ i + 1 \in 1..n + 1
        BY <2>2
      <3>2. f[i + 1] = g[i + 1] /\ f[i + 1] \in D
        BY <1>2, <1>3, <3>1
      <3> QED BY <1>2, <3>1, <3>2 DEF Follows
    <2> QED BY <2>1, <2>2
  <1>4. n + 1 \in Nat /\ 1 \in 1..n + 1
    OBVIOUS
  <1>5. \A i \in 1..n + 1 : f[i] = g[i]
    <2>1. AgreeFromBehind(f, g, n + 1)
      BY <1>3 DEF AgreeFromBehind
    <2> QED BY <1>4, <2>1, RowsUnique
  <1>6. f[1] = g[1] /\ f[1] \in D
    BY <1>2, <1>4, <1>5
  <1> QED BY <1>1, <1>6

LEMMA RowsNone ==
    ASSUME NEW D, NEW last \in D, NEW G \in RowFunctions(0, D)
    PROVE  RowsOf(0, D, last, G) = last
  <1>1. PICK f : Solves(f, 0, D, last, G) /\ RowsOf(0, D, last, G) = f[1]
    BY RowsExist DEF RowsOf
  <1> QED BY <1>1 DEF Solves

LEMMA RowsExtend ==
    ASSUME NEW n \in Nat, NEW D, NEW last \in D,
           NEW G \in RowFunctions(n + 1, D), NEW H \in RowFunctions(n, D),
           \A i \in 1..n : H[i] = G[i + 1]
    PROVE  RowsOf(n + 1, D, last, G) = G[1][RowsOf(n, D, last, H)]
  <1>1. n + 1 \in Nat
    OBVIOUS
  <1>2. PICK f : Solves(f, n + 1, D, last, G) /\ RowsOf(n + 1, D, last, G) = f[1]
    BY <1>1, RowsExist DEF RowsOf
  <1> DEFINE g == [i \in 1..n + 1 |-> f[i + 1]]
  <1>3. Follows(g, n, D, last, H)
    <2>1. g[n + 1] = last
      BY <1>2 DEF Solves
    <2>2. ASSUME NEW i \in 1..n
          PROVE  g[i] = H[i][g[i + 1]]
      <3>1. i \in 1..n + 1 /\ i + 1 \in 1..n + 1 /\ (i + 1) + 1 = i + 2
        OBVIOUS
      <3>2. f[i + 1] = G[i + 1][f[(i + 1) + 1]]
        BY <1>2, <3>1 DEF Solves
      <3> QED BY <3>1, <3>2
    <2> QED BY <2>1, <2>2 DEF Follows
  <1>4. g[1] = f[1 + 1] /\ f[1] = G[1][f[1 + 1]]
    BY <1>2 DEF Solves
  <1> HIDE DEF g
  <1>5. g[1] = RowsOf(n, D, last, H)
    BY <1>3, RowsAre
  <1> QED BY <1>2, <1>4, <1>5

LEMMA LeastOf ==
    ASSUME NEW S \in SUBSET Nat, S # {}
    PROVE  Min(S) \in S /\ \A y \in S : Min(S) <= y
  <1>1. \E x \in S : \A y \in S : x <= y
    BY LeastNumber
  <1> QED BY <1>1 DEF Min

LEMMA GreatestUpTo ==
    ASSUME NEW n \in Nat, NEW S \in SUBSET (0..n), S # {}
    PROVE  Max(S) \in S /\ \A y \in S : Max(S) >= y
  <1> DEFINE T == {k \in Nat : \E y \in S : k = n - y}
  <1>1. \A y \in S : y \in Nat /\ n - y \in Nat
    OBVIOUS
  <1>2. T # {}
    BY <1>1
  <1>3. PICK k \in T : \A m \in T : k <= m
    BY <1>2, LeastNumber
  <1>4. PICK x \in S : k = n - x
    BY <1>3
  <1>5. ASSUME NEW y \in S
        PROVE  x >= y
    <2>1. n - x <= n - y
      BY <1>1, <1>3, <1>4
    <2> QED BY <1>1, <2>1
  <1>6. \E z \in S : \A y \in S : z >= y
    BY <1>5
  <1> QED BY <1>6 DEF Max
=============================================================================
