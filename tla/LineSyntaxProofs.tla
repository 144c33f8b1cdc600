-------------------------- MODULE LineSyntaxProofs --------------------------
(***************************************************************************)
(* Lemmas about LineSyntax and what it is built from: induction over the   *)
(* naturals, recursive functions, sequences in a row, the reader of a      *)
(* line, how it reads a line written from words, how the scanner of the    *)
(* echo goes through a line with it, and the command tables it leads to:   *)
(* their levels, their names, and the path a sequence of words takes.      *)
(***************************************************************************)
EXTENDS CommandTree, FiniteSetTheorems, SequenceTheorems, TLAPS

Octet == 0..255

-----------------------------------------------------------------------------
\* Induction over the naturals for a set: a counterexample x would let i |-> i + 1
\* squeeze the elements up to x into one place fewer.
LEMMA InductionOnNat ==
  ASSUME NEW T \in SUBSET Nat, 0 \in T, \A n \in T : n + 1 \in T
  PROVE  T = Nat
<1> SUFFICES ASSUME NEW x \in Nat, x \notin T PROVE FALSE
  OBVIOUS
<1> DEFINE U == T \cap 0..x
           V == U \ {0}
           f == [i \in U |-> i + 1]
<1>1. IsFiniteSet(U)
  <2>1. IsFiniteSet(0..x)
    BY FS_Interval
  <2> QED
    BY <2>1, FS_Intersection
<1>2. 0 \in U
  OBVIOUS
<1>3. f \in [U -> V] /\ \A i, j \in U : f[i] = f[j] => i = j
  OBVIOUS
<1> HIDE DEF U, V, f
<1>4. /\ Cardinality(U) \in Nat /\ IsFiniteSet(U \ {0})
      /\ Cardinality(U \ {0}) = Cardinality(U) - 1
  BY <1>1, <1>2, FS_RemoveElement, FS_CardinalityType
<1>5. IsFiniteSet(V) /\ Cardinality(V) < Cardinality(U)
  BY <1>4 DEF V
<1>6. \E i, j \in U : i # j /\ f[i] = f[j]
  BY <1>1, <1>5, <1>3, FS_PigeonHole
<1> QED
  BY <1>3, <1>6

\* A set of places of a line has a last and a first one.
LEMMA LastAndFirst ==
  ASSUME NEW n \in Nat, NEW S \in SUBSET (0..n), S # {}
  PROVE  /\ Max(S) \in S /\ \A y \in S : y <= Max(S)
         /\ Min(S) \in S /\ \A y \in S : Min(S) <= y
<1> DEFINE Bounded(U) == /\ \E x \in U : \A y \in U : x >= y
                         /\ \E x \in U : \A y \in U : x <= y
           T == {m \in Nat : \A U \in SUBSET (0..m) : U # {} => Bounded(U)}
<1>1. 0 \in T
  <2> SUFFICES ASSUME NEW U \in SUBSET (0..0), U # {} PROVE Bounded(U)
    OBVIOUS
  <2>1. \A y \in U : y = 0
    OBVIOUS
  <2>2. 0 \in U
    BY <2>1
  <2> QED
    BY <2>1, <2>2
<1>2. ASSUME NEW m \in T PROVE m + 1 \in T
  <2> SUFFICES ASSUME NEW U \in SUBSET (0..(m + 1)), U # {} PROVE Bounded(U)
    OBVIOUS
  <2>1. m \in Nat /\ \A W \in SUBSET (0..m) : W # {} => Bounded(W)
    OBVIOUS
  <2>2. CASE m + 1 \notin U
    <3>1. U \in SUBSET (0..m)
      BY <2>1, <2>2
    <3> QED
      BY <2>1, <3>1
  <2>3. CASE m + 1 \in U /\ U \ {m + 1} # {}
    <3>1. U \ {m + 1} \in SUBSET (0..m)
      BY <2>1
    <3>2. Bounded(U \ {m + 1})
      BY <2>1, <2>3, <3>1
    <3>3. \A y \in U : m + 1 >= y
      BY <2>1
    <3>4. PICK x \in U \ {m + 1} : \A y \in U \ {m + 1} : x <= y
      BY <3>2
    <3>5. x <= m + 1
      BY <2>1
    <3>6. x \in U /\ \A y \in U : x <= y
      BY <3>4, <3>5
    <3> QED
      BY <2>3, <3>3, <3>6
  <2>4. CASE U \ {m + 1} = {}
    <3>1. m + 1 \in U /\ \A y \in U : y = m + 1
      BY <2>4
    <3> QED
      BY <2>1, <3>1
  <2> QED
    BY <2>2, <2>3, <2>4
<1>3. T = Nat
  <2>1. T \in SUBSET Nat
    OBVIOUS
  <2> HIDE DEF T
  <2> QED
    BY <1>1, <1>2, <2>1, InductionOnNat
<1>4. Bounded(S)
  BY <1>3
<1>5. /\ Max(S) \in S /\ \A y \in S : Max(S) >= y
      /\ Min(S) \in S /\ \A y \in S : Min(S) <= y
  BY <1>4 DEF Max, Min
<1> QED
  BY <1>5

-----------------------------------------------------------------------------
\* How Only goes through a sequence.
LEMMA OnlyKept ==
  ASSUME NEW s, NEW T, Len(s) \in Nat
  PROVE  \E kept : /\ kept[0] = <<>>
                   /\ \A n \in 1..Len(s) :
                        kept[n] = IF s[n] \in T THEN Append(kept[n - 1], s[n])
                                  ELSE kept[n - 1]
                   /\ Only(s, T) = kept[Len(s)]
<1> DEFINE More(k, n) == IF s[n] \in T THEN Append(k, s[n]) ELSE k
           Upto(g, m) == g[0] = <<>> /\ \A n \in 1..m : g[n] = More(g[n - 1], n)
           U == {m \in Nat : \E g : Upto(g, m)}
<1>1. 0 \in U
  <2>1. Upto([n \in {0} |-> <<>>], 0)
    OBVIOUS
  <2> QED
    BY <2>1
<1>2. ASSUME NEW m \in U PROVE m + 1 \in U
  <2>1. m \in Nat
    OBVIOUS
  <2>2. PICK g : Upto(g, m)
    OBVIOUS
  <2> DEFINE h == [n \in 0..(m + 1) |-> IF n <= m THEN g[n] ELSE More(g[m], m + 1)]
  <2> HIDE DEF More
  <2>3. h[0] = <<>>
    BY <2>1, <2>2
  <2>4. \A n \in 1..(m + 1) : h[n] = More(h[n - 1], n)
    <3> SUFFICES ASSUME NEW n \in 1..(m + 1) PROVE h[n] = More(h[n - 1], n)
      OBVIOUS
    <3>1. CASE n <= m
      <4>1. n \in 1..m /\ h[n] = g[n] /\ h[n - 1] = g[n - 1]
        BY <2>1, <3>1
      <4> QED
        BY <2>2, <4>1
    <3>2. CASE n = m + 1
      <4>1. h[n] = More(g[m], m + 1) /\ h[n - 1] = g[m]
        BY <2>1, <3>2
      <4> QED
        BY <3>2, <4>1
    <3> QED
      BY <2>1, <3>1, <3>2
  <2>5. Upto(h, m + 1)
    BY <2>3, <2>4
  <2> HIDE DEF h, Upto
  <2> QED
    BY <2>1, <2>5
<1>3. U = Nat
  <2>1. U \in SUBSET Nat
    OBVIOUS
  <2> HIDE DEF U
  <2> QED
    BY <1>1, <1>2, <2>1, InductionOnNat
<1>4. PICK g : Upto(g, Len(s))
  <2> HIDE DEF Upto
  <2> QED
    BY <1>3
<1> DEFINE f == [n \in 0..Len(s) |-> g[n]]
<1>5. f = [n \in 0..Len(s) |-> IF n = 0 THEN <<>>
                               ELSE IF s[n] \in T THEN Append(f[n - 1], s[n])
                               ELSE f[n - 1]]
  <2>1. \A n \in 0..Len(s) : n # 0 => n \in 1..Len(s) /\ f[n - 1] = g[n - 1]
    OBVIOUS
  <2>2. \A n \in 0..Len(s) : f[n] = IF n = 0 THEN <<>>
                                    ELSE IF s[n] \in T THEN Append(f[n - 1], s[n])
                                    ELSE f[n - 1]
    BY <1>4, <2>1
  <2> QED
    BY <2>2
<1> DEFINE kept == CHOOSE k : k = [n \in 0..Len(s) |-> IF n = 0 THEN <<>>
                               ELSE IF s[n] \in T THEN Append(k[n - 1], s[n])
                               ELSE k[n - 1]]
<1>6. kept = [n \in 0..Len(s) |-> IF n = 0 THEN <<>>
                               ELSE IF s[n] \in T THEN Append(kept[n - 1], s[n])
                               ELSE kept[n - 1]]
  <2> HIDE DEF f
  <2> QED
    BY <1>5
<1>7. Only(s, T) = kept[Len(s)]
  BY DEF Only
<1> HIDE DEF kept
<1>8. \A n \in 0..Len(s) : kept[n] = IF n = 0 THEN <<>>
                               ELSE IF s[n] \in T THEN Append(kept[n - 1], s[n])
                               ELSE kept[n - 1]
  BY <1>6
<1>9. kept[0] = <<>> /\ \A n \in 1..Len(s) :
        kept[n] = IF s[n] \in T THEN Append(kept[n - 1], s[n]) ELSE kept[n - 1]
  BY <1>8
<1> QED
  BY <1>7, <1>9

\* What Only keeps comes from the sequence and is in the set.
LEMMA OnlyType ==
  ASSUME NEW S, NEW s \in Seq(S), NEW T
  PROVE  Only(s, T) \in Seq(S \cap T)
<1>1. Len(s) \in Nat /\ \A n \in 1..Len(s) : s[n] \in S
  BY ElementOfSeq, LenProperties
<1>2. PICK kept : /\ kept[0] = <<>>
                  /\ \A n \in 1..Len(s) :
                       kept[n] = IF s[n] \in T THEN Append(kept[n - 1], s[n])
                                 ELSE kept[n - 1]
                  /\ Only(s, T) = kept[Len(s)]
  BY <1>1, OnlyKept
<1> DEFINE U == {n \in Nat : n <= Len(s) => kept[n] \in Seq(S \cap T)}
<1>3. 0 \in U
  BY <1>2, EmptySeq
<1>4. ASSUME NEW n \in U PROVE n + 1 \in U
  <2> SUFFICES ASSUME n + 1 <= Len(s) PROVE kept[n + 1] \in Seq(S \cap T)
    OBVIOUS
  <2>1. n + 1 \in 1..Len(s) /\ (n + 1) - 1 = n /\ kept[n] \in Seq(S \cap T)
    BY <1>1
  <2>2. kept[n + 1] = IF s[n + 1] \in T THEN Append(kept[n], s[n + 1]) ELSE kept[n]
    BY <1>2, <2>1
  <2>3. CASE s[n + 1] \in T
    <3>1. s[n + 1] \in S \cap T
      BY <1>1, <2>1, <2>3
    <3>2. Append(kept[n], s[n + 1]) \in Seq(S \cap T)
      BY <2>1, <3>1, AppendProperties
    <3> QED
      BY <2>2, <2>3, <3>2
  <2> QED
    BY <2>1, <2>2, <2>3
<1>5. U = Nat
  <2>1. U \in SUBSET Nat
    OBVIOUS
  <2> HIDE DEF U
  <2> QED
    BY <1>3, <1>4, <2>1, InductionOnNat
<1> QED
  BY <1>1, <1>2, <1>5

\* It keeps nothing of nothing, and one more element matters if it is in the set.
LEMMA OnlyAppend ==
  ASSUME NEW S, NEW s \in Seq(S), NEW e \in S, NEW T
  PROVE  /\ Only(<<>>, T) = <<>>
         /\ Only(Append(s, e), T) = IF e \in T THEN Append(Only(s, T), e) ELSE Only(s, T)
<1>1. Only(<<>>, T) = <<>>
  <2>1. Len(<<>>) = 0 /\ 0 \in Nat
    OBVIOUS
  <2> QED
    BY <2>1, OnlyKept
<1> DEFINE t == Append(s, e)
           N == Len(s)
<1>2. /\ N \in Nat /\ Len(t) = N + 1 /\ t[N + 1] = e
      /\ \A n \in 1..N : t[n] = s[n]
  BY AppendProperties, LenProperties
<1>3. PICK k : /\ k[0] = <<>>
               /\ \A n \in 1..N : k[n] = IF s[n] \in T THEN Append(k[n - 1], s[n])
                                         ELSE k[n - 1]
               /\ Only(s, T) = k[N]
  BY <1>2, OnlyKept
<1> HIDE DEF t
<1>4. PICK j : /\ j[0] = <<>>
               /\ \A n \in 1..(N + 1) : j[n] = IF t[n] \in T THEN Append(j[n - 1], t[n])
                                               ELSE j[n - 1]
               /\ Only(t, T) = j[N + 1]
  <2>1. Len(t) \in Nat
    BY <1>2
  <2> QED
    BY <1>2, <2>1, OnlyKept
<1> HIDE DEF N
<1> DEFINE U == {n \in Nat : n <= N => j[n] = k[n]}
<1>5. 0 \in U
  BY <1>3, <1>4
<1>6. ASSUME NEW n \in U PROVE n + 1 \in U
  <2> SUFFICES ASSUME n + 1 <= N PROVE j[n + 1] = k[n + 1]
    OBVIOUS
  <2>1. n + 1 \in 1..N /\ n + 1 \in 1..(N + 1) /\ (n + 1) - 1 = n /\ j[n] = k[n]
    BY <1>2
  <2> QED
    BY <1>2, <1>3, <1>4, <2>1
<1>7. U = Nat
  <2>1. U \in SUBSET Nat
    OBVIOUS
  <2> HIDE DEF U
  <2> QED
    BY <1>5, <1>6, <2>1, InductionOnNat
<1>8. j[N] = k[N] /\ N + 1 \in 1..(N + 1) /\ (N + 1) - 1 = N
  BY <1>2, <1>7
<1>9. j[N + 1] = IF e \in T THEN Append(k[N], e) ELSE k[N]
  BY <1>2, <1>4, <1>8
<1> QED
  BY <1>1, <1>3, <1>4, <1>9 DEF t

-----------------------------------------------------------------------------
\* Steps given as functions, on the elements of S, and a walk of m of them.
StepsOn(F, m, S) == \A n \in 1..m : \A s \in S : F[n][s] \in S
Walk(g, s0, F, m, S) ==
  /\ g[0] = s0 /\ \A n \in 0..m : g[n] \in S
  /\ \A n \in 1..m : g[n] = F[n][g[n - 1]]

\* They can be taken one after the other.
LEMMA StepsCompose ==
  ASSUME NEW S, NEW s0 \in S, NEW m \in Nat, NEW F, StepsOn(F, m, S)
  PROVE  \E g : Walk(g, s0, F, m, S)
<1>0. \A n \in 1..m : \A s \in S : F[n][s] \in S
  BY DEF StepsOn
<1> DEFINE Upto(g, k) == /\ g[0] = s0 /\ \A n \in 0..k : g[n] \in S
                         /\ \A n \in 1..k : g[n] = F[n][g[n - 1]]
           T == {k \in Nat : k <= m => \E g : Upto(g, k)}
<1>1. 0 \in T
  <2>1. Upto([n \in {0} |-> s0], 0)
    OBVIOUS
  <2> QED
    BY <2>1
<1>2. ASSUME NEW k \in T PROVE k + 1 \in T
  <2> SUFFICES ASSUME k + 1 <= m PROVE \E g : Upto(g, k + 1)
    OBVIOUS
  <2>1. k \in Nat /\ k + 1 \in 1..m
    OBVIOUS
  <2>2. PICK g : Upto(g, k)
    BY <2>1
  <2>3. g[k] \in S /\ F[k + 1][g[k]] \in S
    BY <1>0, <2>1, <2>2
  <2> DEFINE h == [n \in 0..(k + 1) |-> IF n <= k THEN g[n] ELSE F[k + 1][g[k]]]
  <2>4. h[0] = s0 /\ \A n \in 0..(k + 1) : h[n] \in S
    BY <2>1, <2>2, <2>3
  <2>5. ASSUME NEW n \in 1..(k + 1) PROVE h[n] = F[n][h[n - 1]]
    <3>1. CASE n <= k
      <4>1. n \in 1..k /\ h[n] = g[n] /\ h[n - 1] = g[n - 1]
        BY <2>1, <3>1
      <4> QED
        BY <2>2, <4>1
    <3>2. CASE n = k + 1
      <4>1. h[n] = F[k + 1][g[k]] /\ h[n - 1] = g[k]
        BY <2>1, <3>2
      <4> QED
        BY <3>2, <4>1
    <3> QED
      BY <2>1, <3>1, <3>2
  <2>6. Upto(h, k + 1)
    BY <2>4, <2>5
  <2> HIDE DEF h, Upto
  <2> QED
    BY <2>6
<1>3. T = Nat
  <2>1. T \in SUBSET Nat
    OBVIOUS
  <2> HIDE DEF T
  <2> QED
    BY <1>1, <1>2, <2>1, InductionOnNat
<1>4. \E g : Upto(g, m)
  <2> HIDE DEF Upto
  <2> QED
    BY <1>3
<1> QED
  BY <1>4 DEF Walk

\* Sequences in a row, one after the other.
LEMMA FlattenSteps ==
  ASSUME NEW S, NEW ss \in Seq(Seq(S)), Len(ss) # 0
  PROVE  \E flat :
           /\ \A n \in 1..Len(ss) :
                /\ flat[n] \in Seq(S)
                /\ flat[n] = IF n = 1 THEN ss[n] ELSE flat[n - 1] \o ss[n]
           /\ FlattenSeq(ss) = flat[Len(ss)]
<1>0. Len(ss) \in Nat /\ \A n \in 1..Len(ss) : ss[n] \in Seq(S)
  BY ElementOfSeq, LenProperties
<1> DEFINE size == Len(ss)
           Glue == [n \in 1..size |-> [x \in Seq(S) |-> IF n = 1 THEN ss[n] ELSE x \o ss[n]]]
<1>1. \A n \in 1..size : \A x \in Seq(S) : Glue[n][x] \in Seq(S)
  BY <1>0, ConcatProperties
<1>2. size \in Nat /\ size # 0 /\ <<>> \in Seq(S)
  BY <1>0, EmptySeq
<1>3. PICK g : Walk(g, <<>>, Glue, size, Seq(S))
  <2>1. StepsOn(Glue, size, Seq(S))
    BY <1>1 DEF StepsOn
  <2> HIDE DEF Glue, size
  <2> QED
    BY ONLY <1>2, <2>1, StepsCompose, Zenon
<1>4. \A n \in 1..size : g[n] = IF n = 1 THEN ss[n] ELSE g[n - 1] \o ss[n]
  <2> SUFFICES ASSUME NEW n \in 1..size
               PROVE  g[n] = IF n = 1 THEN ss[n] ELSE g[n - 1] \o ss[n]
    OBVIOUS
  <2>1. g[n - 1] \in Seq(S)
    <3>1. n - 1 \in 0..size
      BY <1>2
    <3> HIDE DEF Glue, size
    <3> QED
      BY <1>3, <3>1 DEF Walk
  <2>2. Glue[n][g[n - 1]] = IF n = 1 THEN ss[n] ELSE g[n - 1] \o ss[n]
    BY <2>1
  <2> HIDE DEF Glue
  <2> QED
    BY <1>3, <2>2 DEF Walk
<1> HIDE DEF Glue
<1> DEFINE f == [n \in 1..size |-> g[n]]
           flat == CHOOSE h : h = [n \in 1..size |-> IF n = 1 THEN ss[n] ELSE h[n - 1] \o ss[n]]
<1>5. f = [n \in 1..size |-> IF n = 1 THEN ss[n] ELSE f[n - 1] \o ss[n]]
  <2>1. \A n \in 1..size : n = 1 \/ f[n - 1] = g[n - 1]
    BY <1>2
  <2>2. \A n \in 1..size : f[n] = IF n = 1 THEN ss[n] ELSE f[n - 1] \o ss[n]
    BY <1>4, <2>1
  <2> QED
    BY <2>2
<1>6. flat = [n \in 1..size |-> IF n = 1 THEN ss[n] ELSE flat[n - 1] \o ss[n]]
  <2> HIDE DEF f
  <2> QED
    BY <1>5
<1>7. FlattenSeq(ss) = flat[size]
  BY DEF FlattenSeq
<1> HIDE DEF f, flat
<1> DEFINE T == {n \in Nat : n \in 1..size => flat[n] \in Seq(S)}
<1>8. 0 \in T
  OBVIOUS
<1>9. ASSUME NEW n \in T PROVE n + 1 \in T
  <2> SUFFICES ASSUME n + 1 \in 1..size PROVE flat[n + 1] \in Seq(S)
    OBVIOUS
  <2>1. flat[n + 1] = IF n + 1 = 1 THEN ss[n + 1] ELSE flat[n] \o ss[n + 1]
    <3>1. \A i \in 1..size : flat[i] = IF i = 1 THEN ss[i] ELSE flat[i - 1] \o ss[i]
      BY <1>6
    <3>2. (n + 1) - 1 = n
      OBVIOUS
    <3> HIDE DEF size
    <3> QED
      BY <3>1, <3>2
  <2>2. ss[n + 1] \in Seq(S)
    BY <1>0
  <2>3. CASE n = 0
    BY <2>1, <2>2, <2>3
  <2>4. CASE n # 0
    <3>1. flat[n] \in Seq(S)
      BY <1>2, <2>4
    <3>2. flat[n] \o ss[n + 1] \in Seq(S)
      BY <2>2, <3>1, ConcatProperties
    <3> QED
      BY <2>1, <2>4, <3>2
  <2> QED
    BY <2>3, <2>4
<1>10. T = Nat
  <2>1. T \in SUBSET Nat
    OBVIOUS
  <2> HIDE DEF T
  <2> QED
    BY <1>8, <1>9, <2>1, InductionOnNat
<1>11. \A n \in 1..size : /\ flat[n] \in Seq(S)
                          /\ flat[n] = IF n = 1 THEN ss[n] ELSE flat[n - 1] \o ss[n]
  <2>1. \A n \in 1..size : flat[n] \in Seq(S)
    <3>1. \A n \in 1..size : n \in T
      <4>1. \A n \in 1..size : n \in Nat
        OBVIOUS
      <4> HIDE DEF T
      <4> QED
        BY <1>10, <4>1
    <3> QED
      BY <3>1
  <2>2. \A n \in 1..size : flat[n] = IF n = 1 THEN ss[n] ELSE flat[n - 1] \o ss[n]
    BY <1>6
  <2> QED
    BY <2>1, <2>2
<1> QED
  BY <1>7, <1>11

LEMMA Flattened ==
  ASSUME NEW S, NEW ss \in Seq(Seq(S))
  PROVE  FlattenSeq(ss) \in Seq(S)
<1>1. CASE Len(ss) = 0
  <2>1. ss = <<>>
    BY <1>1, EmptySeq
  <2> QED
    BY <1>1, <2>1, EmptySeq DEF FlattenSeq
<1>2. CASE Len(ss) # 0
  <2>1. PICK flat : /\ \A n \in 1..Len(ss) : flat[n] \in Seq(S)
                    /\ FlattenSeq(ss) = flat[Len(ss)]
    BY <1>2, FlattenSteps
  <2>2. Len(ss) \in 1..Len(ss)
    BY <1>2, LenProperties
  <2> QED
    BY <2>1, <2>2
<1> QED
  BY <1>1, <1>2

\* Sequences of at most one element each give no more elements than there are
\* sequences.
LEMMA FlattenedFew ==
  ASSUME NEW S, NEW ss \in Seq(Seq(S)), \A n \in 1..Len(ss) : Len(ss[n]) <= 1
  PROVE  FlattenSeq(ss) \in Seq(S) /\ Len(FlattenSeq(ss)) <= Len(ss)
<1>1. Len(ss) \in Nat /\ \A n \in 1..Len(ss) : ss[n] \in Seq(S) /\ Len(ss[n]) \in Nat
  BY ElementOfSeq, LenProperties
<1>2. CASE Len(ss) = 0
  BY <1>2, Flattened DEF FlattenSeq
<1>3. CASE Len(ss) # 0
  <2>1. PICK flat : /\ \A n \in 1..Len(ss) :
                        /\ flat[n] \in Seq(S)
                        /\ flat[n] = IF n = 1 THEN ss[n] ELSE flat[n - 1] \o ss[n]
                    /\ FlattenSeq(ss) = flat[Len(ss)]
    BY <1>3, FlattenSteps
  <2> DEFINE size == Len(ss)
             T == {n \in Nat : n \in 1..size => Len(flat[n]) <= n}
  <2>2. 0 \in T
    OBVIOUS
  <2>3. ASSUME NEW n \in T PROVE n + 1 \in T
    <3> SUFFICES ASSUME n + 1 \in 1..size PROVE Len(flat[n + 1]) <= n + 1
      OBVIOUS
    <3>1. n \in Nat /\ (n + 1) - 1 = n /\ (n + 1 = 1 <=> n = 0)
      OBVIOUS
    <3>2. /\ Len(ss[n + 1]) <= 1 /\ Len(ss[n + 1]) \in Nat /\ ss[n + 1] \in Seq(S)
          /\ flat[n + 1] = IF n + 1 = 1 THEN ss[n + 1] ELSE flat[n] \o ss[n + 1]
      BY <1>1, <2>1, <3>1
    <3>3. CASE n = 0
      BY <3>1, <3>2, <3>3
    <3>4. CASE n # 0
      <4>1. n \in 1..size
        BY <1>1, <3>1, <3>4
      <4>2. flat[n] \in Seq(S) /\ Len(flat[n]) <= n
        BY <2>1, <4>1
      <4>3. Len(flat[n] \o ss[n + 1]) = Len(flat[n]) + Len(ss[n + 1]) /\ Len(flat[n]) \in Nat
        BY <3>2, <4>2, ConcatProperties, LenProperties
      <4>4. flat[n + 1] = flat[n] \o ss[n + 1]
        BY <3>1, <3>2, <3>4
      <4>5. Len(flat[n + 1]) = Len(flat[n]) + Len(ss[n + 1])
        BY ONLY <4>3, <4>4
      <4>6. /\ Len(flat[n]) \in Nat /\ Len(flat[n]) <= n
            /\ Len(ss[n + 1]) \in Nat /\ Len(ss[n + 1]) <= 1 /\ n \in Nat
        BY ONLY <3>1, <3>2, <4>2, <4>3
      <4>7. \A x, y, z \in Nat : x <= z /\ y <= 1 => x + y <= z + 1
        OBVIOUS
      <4> QED
        BY ONLY <4>5, <4>6, <4>7
    <3> QED
      BY <3>3, <3>4
  <2>4. T = Nat
    <3>1. T \in SUBSET Nat
      OBVIOUS
    <3> HIDE DEF T
    <3> QED
      BY <2>2, <2>3, <3>1, InductionOnNat
  <2>5. size \in T /\ size \in 1..size
    BY <1>1, <1>3, <2>4
  <2> QED
    BY <2>1, <2>5, Flattened
<1> QED
  BY <1>2, <1>3

\* One more sequence at the end of a row.
LEMMA FlattenAppend ==
  ASSUME NEW S, NEW ss \in Seq(Seq(S)), NEW s \in Seq(S)
  PROVE  FlattenSeq(Append(ss, s)) = FlattenSeq(ss) \o s
<1> DEFINE N == Len(ss)
           more == Append(ss, s)
<1>1. /\ N \in Nat /\ more \in Seq(Seq(S)) /\ Len(more) = N + 1 /\ more[N + 1] = s
      /\ \A n \in 1..N : more[n] = ss[n]
  BY AppendProperties, LenProperties
<1> HIDE DEF more
<1>2. PICK j : /\ \A n \in 1..Len(more) :
                    /\ j[n] \in Seq(S)
                    /\ j[n] = IF n = 1 THEN more[n] ELSE j[n - 1] \o more[n]
               /\ FlattenSeq(more) = j[Len(more)]
  <2>1. Len(more) # 0
    BY <1>1
  <2> QED
    BY ONLY <1>1, <2>1, FlattenSteps
<1>3. CASE N = 0
  <2>1. ss = <<>>
    BY <1>3, EmptySeq
  <2>2. FlattenSeq(ss) = <<>>
    BY <1>3, <2>1 DEF FlattenSeq
  <2>3. FlattenSeq(more) = s
    <3>1. Len(more) = 1 /\ 1 \in 1..Len(more) /\ more[1] = s
      BY <1>1, <1>3
    <3> QED
      BY <1>2, <3>1
  <2> QED
    BY <2>2, <2>3 DEF more
<1>4. CASE N # 0
  <2>1. PICK k : /\ \A n \in 1..N :
                      /\ k[n] \in Seq(S)
                      /\ k[n] = IF n = 1 THEN ss[n] ELSE k[n - 1] \o ss[n]
                 /\ FlattenSeq(ss) = k[N]
    BY <1>4, FlattenSteps
  <2> HIDE DEF N
  <2> DEFINE T == {n \in Nat : n \in 1..N => j[n] = k[n]}
  <2>2. 0 \in T
    OBVIOUS
  <2>3. ASSUME NEW n \in T PROVE n + 1 \in T
    <3> SUFFICES ASSUME n + 1 \in 1..N PROVE j[n + 1] = k[n + 1]
      OBVIOUS
    <3>1. n \in Nat /\ (n + 1) - 1 = n /\ (n + 1 = 1 <=> n = 0) /\ n + 1 \in 1..Len(more)
      BY <1>1
    <3>2. n # 0 => j[n] = k[n]
      BY <1>1
    <3>3. /\ j[n + 1] = IF n = 0 THEN more[n + 1] ELSE j[n] \o more[n + 1]
          /\ k[n + 1] = IF n = 0 THEN ss[n + 1] ELSE k[n] \o ss[n + 1]
      BY <1>2, <2>1, <3>1
    <3>4. more[n + 1] = ss[n + 1]
      BY <1>1
    <3> QED
      BY <3>2, <3>3, <3>4
  <2>4. T = Nat
    <3>1. T \in SUBSET Nat
      OBVIOUS
    <3> HIDE DEF T
    <3> QED
      BY <2>2, <2>3, <3>1, InductionOnNat
  <2>5. j[N] = k[N]
    <3>1. N \in Nat /\ N \in 1..N
      BY <1>1, <1>4
    <3> QED
      BY <2>4, <3>1
  <2>6. j[N + 1] = j[N] \o more[N + 1]
    <3>1. N + 1 \in 1..Len(more) /\ N + 1 # 1 /\ (N + 1) - 1 = N
      BY <1>1, <1>4
    <3> QED
      BY <1>2, <3>1
  <2> QED
    BY <1>1, <1>2, <2>1, <2>5, <2>6 DEF more
<1> QED
  BY <1>3, <1>4

\* A sequence so many times.
Copies(x, m) == FlattenSeq([k \in 1..m |-> x])

LEMMA CopiesType ==
  ASSUME NEW S, NEW x \in Seq(S), NEW m \in Nat
  PROVE  /\ Copies(x, m) \in Seq(S) /\ Copies(x, 0) = <<>>
         /\ Copies(x, m + 1) = Copies(x, m) \o x
<1>1. ASSUME NEW n \in Nat PROVE [k \in 1..n |-> x] \in Seq(Seq(S))
  OBVIOUS
<1>2. Copies(x, m) \in Seq(S)
  BY <1>1, Flattened DEF Copies
<1>3. Copies(x, 0) = <<>>
  <2>1. [k \in 1..0 |-> x] = <<>>
    OBVIOUS
  <2>2. Len(<<>>) = 0
    OBVIOUS
  <2> QED
    BY <2>1, <2>2 DEF Copies, FlattenSeq
<1>4. [k \in 1..(m + 1) |-> x] = Append([k \in 1..m |-> x], x)
  OBVIOUS
<1>5. FlattenSeq(Append([k \in 1..m |-> x], x)) = FlattenSeq([k \in 1..m |-> x]) \o x
  BY <1>1, FlattenAppend
<1> QED
  BY <1>2, <1>3, <1>4, <1>5 DEF Copies

\* The first of the copies can as well be the one that was added.
LEMMA CopiesFirst ==
  ASSUME NEW S, NEW x \in Seq(S), NEW m \in Nat
  PROVE  Copies(x, m + 1) = x \o Copies(x, m)
<1> DEFINE T == {n \in Nat : Copies(x, n + 1) = x \o Copies(x, n)}
<1>1. \A n \in Nat : Copies(x, n) \in Seq(S) /\ Copies(x, n + 1) = Copies(x, n) \o x
  BY CopiesType
<1>2. Copies(x, 0) = <<>>
  BY CopiesType
<1>3. 0 \in T
  <2>1. Copies(x, 0 + 1) = <<>> \o x
    BY <1>1, <1>2
  <2>2. <<>> \o x = x \o <<>>
    BY ConcatEmptySeq
  <2> QED
    BY <1>2, <2>1, <2>2
<1>4. ASSUME NEW n \in T PROVE n + 1 \in T
  <2>1. n \in Nat /\ n + 1 \in Nat /\ Copies(x, n + 1) = x \o Copies(x, n)
    OBVIOUS
  <2>2. /\ Copies(x, (n + 1) + 1) = Copies(x, n + 1) \o x
        /\ Copies(x, n + 1) = Copies(x, n) \o x
        /\ Copies(x, n) \in Seq(S)
    BY <1>1, <2>1
  <2>3. (x \o Copies(x, n)) \o x = x \o (Copies(x, n) \o x)
    BY <2>2, ConcatAssociative, SMTT(40)
  <2> QED
    BY <2>1, <2>2, <2>3
<1>5. T = Nat
  <2>1. T \in SUBSET Nat
    OBVIOUS
  <2> HIDE DEF T
  <2> QED
    BY <1>3, <1>4, <2>1, InductionOnNat
<1> QED
  BY <1>5

-----------------------------------------------------------------------------
\* The states of a reader of a line.
Reader == [words : Seq(Seq(Octet)), word : Seq(Octet), open : BOOLEAN,
           quote : Octet, escaped : BOOLEAN, full : BOOLEAN]

LEMMA ReadsType ==
  ASSUME NEW s \in Reader, NEW byte \in Octet, NEW capacity
  PROVE  Reads(s, byte, capacity) \in Reader
<1>1. Append(s.word, byte) \in Seq(Octet) /\ Append(s.words, s.word) \in Seq(Seq(Octet))
  BY AppendProperties DEF Reader
<1>2. ASSUME NEW r \in Reader, Append(r.word, byte) \in Seq(Octet),
             Append(r.words, r.word) \in Seq(Seq(Octet))
      PROVE  Within(r, byte) \in Reader
  <2>1. <<>> \in Seq(Octet) /\ NUL \in Octet
    BY DEF NUL, Octet
  <2> QED
    BY <1>2, <2>1 DEF Reader, Within
<1>3. [s EXCEPT !.open = TRUE] \in Reader /\ [s EXCEPT !.full = TRUE] \in Reader
  BY DEF Reader
<1>4. Within([s EXCEPT !.open = TRUE], byte) \in Reader
  <2>1. /\ [s EXCEPT !.open = TRUE].word = s.word
        /\ [s EXCEPT !.open = TRUE].words = s.words
    BY DEF Reader
  <2> QED
    BY <1>1, <1>2, <1>3, <2>1
<1> QED
  BY <1>3, <1>4 DEF Reads

\* The recursive definition of Readings defines what it says.
LEMMA ReadingsDef ==
  ASSUME NEW t, NEW capacity, Len(t) \in Nat, \A n \in 1..Len(t) : t[n] \in Octet
  PROVE  /\ Readings(t, capacity) \in [0..Len(t) -> Reader]
         /\ Readings(t, capacity)[0] = Unread
         /\ \A n \in 1..Len(t) :
              Readings(t, capacity)[n] = Reads(Readings(t, capacity)[n - 1], t[n], capacity)
<1> DEFINE F == [n \in 1..Len(t) |-> [s \in Reader |-> Reads(s, t[n], capacity)]]
<1>1. Len(t) \in Nat /\ \A n \in 1..Len(t) : t[n] \in Octet
  OBVIOUS
<1>2. \A n \in 1..Len(t) : \A s \in Reader : F[n][s] \in Reader
  BY <1>1, ReadsType
<1>3. Unread \in Reader
  <2>1. <<>> \in Seq(Octet) /\ <<>> \in Seq(Seq(Octet)) /\ NUL \in Octet
    BY DEF NUL, Octet
  <2> QED
    BY <2>1 DEF Unread, Reader
<1>4. PICK g : Walk(g, Unread, F, Len(t), Reader)
  <2>1. StepsOn(F, Len(t), Reader)
    BY <1>2 DEF StepsOn
  <2>2. Len(t) \in Nat
    OBVIOUS
  <2> HIDE DEF F
  <2> QED
    BY ONLY <2>1, <2>2, <1>3, StepsCompose, Zenon
<1>5. ASSUME NEW n \in 1..Len(t) PROVE g[n] = Reads(g[n - 1], t[n], capacity)
  <2>1. g[n - 1] \in Reader
    <3>1. n - 1 \in 0..Len(t)
      BY <1>1
    <3> HIDE DEF F
    <3> QED
      BY <1>4, <3>1 DEF Walk
  <2>2. F[n][g[n - 1]] = Reads(g[n - 1], t[n], capacity)
    BY <2>1
  <2> HIDE DEF F
  <2> QED
    BY <1>4, <2>2 DEF Walk
<1> HIDE DEF F
<1> DEFINE f == [n \in 0..Len(t) |-> g[n]]
<1>6. f = [n \in 0..Len(t) |-> IF n = 0 THEN Unread ELSE Reads(f[n - 1], t[n], capacity)]
  <2>1. ASSUME NEW n \in 0..Len(t)
        PROVE  f[n] = IF n = 0 THEN Unread ELSE Reads(f[n - 1], t[n], capacity)
    <3>1. n = 0 \/ (n \in 1..Len(t) /\ f[n - 1] = g[n - 1])
      BY <1>1
    <3> QED
      BY <1>4, <1>5, <3>1 DEF Walk
  <2> QED
    BY <2>1
<1> HIDE DEF f
<1>7. Readings(t, capacity)
        = [n \in 0..Len(t) |-> IF n = 0 THEN Unread
                               ELSE Reads(Readings(t, capacity)[n - 1], t[n], capacity)]
  BY <1>6 DEF Readings
<1> DEFINE r == Readings(t, capacity)
<1>8. /\ r = [n \in 0..Len(t) |-> r[n]]
      /\ r[0] = Unread
      /\ \A n \in 1..Len(t) : r[n] = Reads(r[n - 1], t[n], capacity)
  <2>1. r = [n \in 0..Len(t) |-> IF n = 0 THEN Unread ELSE Reads(r[n - 1], t[n], capacity)]
    BY <1>7
  <2> HIDE DEF r
  <2>2. \A n \in 0..Len(t) : r[n] = IF n = 0 THEN Unread ELSE Reads(r[n - 1], t[n], capacity)
    BY <2>1
  <2>3. r = [n \in 0..Len(t) |-> r[n]]
    BY <2>1
  <2> QED
    BY <1>1, <2>2, <2>3
<1> HIDE DEF r
<1>9. \A n \in 0..Len(t) : r[n] \in Reader
  <2> DEFINE T == {n \in Nat : n <= Len(t) => r[n] \in Reader}
  <2>1. 0 \in T
    BY <1>3, <1>8
  <2>2. ASSUME NEW n \in T PROVE n + 1 \in T
    <3> SUFFICES ASSUME n + 1 <= Len(t) PROVE r[n + 1] \in Reader
      OBVIOUS
    <3>1. n \in Nat /\ n + 1 \in 1..Len(t) /\ r[n] \in Reader /\ (n + 1) - 1 = n
      BY <1>1
    <3>2. r[n + 1] = Reads(r[n], t[n + 1], capacity)
      BY <1>8, <3>1
    <3> QED
      BY <1>1, <3>1, <3>2, ReadsType
  <2>3. T = Nat
    <3>1. T \in SUBSET Nat
      OBVIOUS
    <3> HIDE DEF T
    <3> QED
      BY <2>1, <2>2, <3>1, InductionOnNat
  <2> QED
    BY <1>1, <2>3
<1> QED
  BY <1>8, <1>9 DEF r

-----------------------------------------------------------------------------
\* One more byte takes the reader one step further.
LEMMA ReadingAppend ==
  ASSUME NEW line \in Seq(Octet), NEW byte \in Octet, NEW capacity
  PROVE  /\ Reading(<<>>, capacity) = Unread
         /\ Reading(line, capacity) \in Reader
         /\ Reading(Append(line, byte), capacity)
              = Reads(Reading(line, capacity), byte, capacity)
<1>1. Len(line) \in Nat /\ \A n \in 1..Len(line) : line[n] \in Octet
  BY ElementOfSeq, LenProperties
<1>2. Reading(<<>>, capacity) = Unread
  <2>1. Len(<<>>) = 0 /\ 0 \in Nat /\ \A n \in 1..0 : <<>>[n] \in Octet
    OBVIOUS
  <2> QED
    BY <2>1, ReadingsDef DEF Reading
<1> DEFINE longer == Append(line, byte)
           size == Len(line)
           f == Readings(line, capacity)
           g == Readings(longer, capacity)
<1>3. /\ Len(longer) = size + 1 /\ longer[size + 1] = byte
      /\ \A n \in 1..size : longer[n] = line[n]
  BY <1>1, AppendProperties
<1>4. /\ f \in [0..size -> Reader] /\ f[0] = Unread
      /\ \A n \in 1..size : f[n] = Reads(f[n - 1], line[n], capacity)
  BY <1>1, ReadingsDef
<1> HIDE DEF longer
<1>5. /\ g[0] = Unread
      /\ \A n \in 1..(size + 1) : g[n] = Reads(g[n - 1], longer[n], capacity)
  <2>1. Len(longer) \in Nat /\ \A n \in 1..Len(longer) : longer[n] \in Octet
    <3>1. \A n \in 1..(size + 1) : n \in 1..size \/ n = size + 1
      BY <1>1
    <3> QED
      BY <1>1, <1>3, <3>1
  <2> QED
    BY <1>3, <2>1, ReadingsDef
<1>6. Reading(line, capacity) = f[size] /\ Reading(longer, capacity) = g[size + 1]
  BY <1>3 DEF Reading
<1> HIDE DEF f, g, size
<1> DEFINE T == {n \in Nat : n <= size => g[n] = f[n]}
<1>7. 0 \in T
  BY <1>4, <1>5
<1>8. ASSUME NEW n \in T PROVE n + 1 \in T
  <2> SUFFICES ASSUME n + 1 <= size PROVE g[n + 1] = f[n + 1]
    OBVIOUS
  <2>1. /\ n + 1 \in 1..size /\ n + 1 \in 1..(size + 1) /\ (n + 1) - 1 = n
        /\ g[n] = f[n]
    BY <1>1 DEF size
  <2> QED
    BY <1>3, <1>4, <1>5, <2>1
<1>9. T = Nat
  <2>1. T \in SUBSET Nat
    OBVIOUS
  <2> HIDE DEF T
  <2> QED
    BY <1>7, <1>8, <2>1, InductionOnNat
<1>10. /\ g[size] = f[size] /\ size + 1 \in 1..(size + 1) /\ (size + 1) - 1 = size
       /\ f[size] \in Reader
  <2>1. size \in Nat /\ size \in 0..size
    BY <1>1 DEF size
  <2> QED
    BY <1>4, <1>9, <2>1
<1>11. g[size + 1] = Reads(f[size], byte, capacity)
  BY <1>3, <1>5, <1>10
<1> QED
  BY <1>2, <1>6, <1>10, <1>11 DEF longer

\* The states of a reader of a line over B, with what it has room for.
ReaderOf(B) == [words : Seq(Seq(B)), word : Seq(B), open : BOOLEAN,
                quote : Octet, escaped : BOOLEAN, full : BOOLEAN]
HasRoom(s, capacity) ==
  Len(s.words) <= capacity /\ (s.open => Len(s.words) < capacity)

LEMMA ReadsText ==
  ASSUME NEW B, NEW capacity \in Nat, NEW s \in ReaderOf(B), NEW byte \in B, byte \in Octet,
         HasRoom(s, capacity)
  PROVE  Reads(s, byte, capacity) \in ReaderOf(B) /\ HasRoom(Reads(s, byte, capacity), capacity)
<1>1. ASSUME NEW r \in ReaderOf(B), HasRoom(r, capacity), r.open
      PROVE  Within(r, byte) \in ReaderOf(B) /\ HasRoom(Within(r, byte), capacity)
  <2>1. /\ Append(r.word, byte) \in Seq(B) /\ Append(r.words, r.word) \in Seq(Seq(B))
        /\ Len(Append(r.words, r.word)) = Len(r.words) + 1 /\ Len(r.words) \in Nat
    BY AppendProperties, LenProperties DEF ReaderOf
  <2>2. <<>> \in Seq(B) /\ NUL \in Octet
    BY DEF NUL, Octet
  <2>3. Within(r, byte) \in ReaderOf(B)
    BY <2>1, <2>2 DEF Within, ReaderOf
  <2>4. \/ /\ Within(r, byte).words = Append(r.words, r.word) /\ ~Within(r, byte).open
        \/ /\ Within(r, byte).words = r.words /\ Within(r, byte).open
    BY <1>1 DEF Within, ReaderOf
  <2> DEFINE next == Within(r, byte)
  <2> HIDE DEF next
  <2>5. HasRoom(next, capacity)
    BY <1>1, <2>1, <2>4 DEF HasRoom, next
  <2> QED
    BY <2>3, <2>5 DEF next
<1>2. CASE s.full \/ (~s.open /\ IsSpace(byte))
  BY <1>2 DEF Reads
<1>3. CASE ~(s.full \/ (~s.open /\ IsSpace(byte))) /\ ~s.open /\ Len(s.words) = capacity
  <2>1. [s EXCEPT !.full = TRUE] \in ReaderOf(B) /\ HasRoom([s EXCEPT !.full = TRUE], capacity)
    BY DEF ReaderOf, HasRoom
  <2> QED
    BY <1>3, <2>1 DEF Reads
<1>4. CASE ~(s.full \/ (~s.open /\ IsSpace(byte))) /\ ~(~s.open /\ Len(s.words) = capacity)
  <2> DEFINE r == [s EXCEPT !.open = TRUE]
  <2>1. r \in ReaderOf(B) /\ r.open /\ r.words = s.words
    BY DEF ReaderOf
  <2>2. Reads(s, byte, capacity) = Within(r, byte)
    BY <1>4 DEF Reads
  <2>3. Len(s.words) \in Nat
    BY LenProperties DEF ReaderOf
  <2> HIDE DEF r
  <2>4. HasRoom(r, capacity)
    BY <1>4, <2>1, <2>3 DEF HasRoom
  <2> QED
    BY <1>1, <2>1, <2>2, <2>4
<1> QED
  BY <1>2, <1>3, <1>4

\* Splitting a line without NUL gives words without NUL, no more than there is room for.
LEMMA WordsAreText ==
  ASSUME NEW line \in Seq(1..255), NEW capacity \in Nat
  PROVE  /\ Tokens(line, capacity).words \in Seq(Seq(1..255))
         /\ Len(Tokens(line, capacity).words) <= capacity
<1>1. Len(line) \in Nat /\ \A n \in 1..Len(line) : line[n] \in 1..255 /\ line[n] \in Octet
  BY ElementOfSeq, LenProperties DEF Octet
<1> DEFINE r == Readings(line, capacity)
           B == 1..255
           Good(state) == state \in ReaderOf(B) /\ HasRoom(state, capacity)
           T == {n \in Nat : n <= Len(line) => Good(r[n])}
<1>2. r[0] = Unread /\ \A n \in 1..Len(line) : r[n] = Reads(r[n - 1], line[n], capacity)
  BY <1>1, ReadingsDef
<1>3. 0 \in T
  <2>1. <<>> \in Seq(B) /\ <<>> \in Seq(Seq(B)) /\ Len(<<>>) = 0 /\ NUL \in Octet
    BY DEF NUL, Octet
  <2> HIDE DEF B
  <2>2. Good(Unread)
    BY <2>1 DEF Unread, ReaderOf, HasRoom
  <2> QED
    BY <1>2, <2>2
<1> HIDE DEF r, B
<1>4. ASSUME NEW n \in T PROVE n + 1 \in T
  <2> SUFFICES ASSUME n + 1 <= Len(line) PROVE Good(r[n + 1])
    OBVIOUS
  <2>1. n + 1 \in 1..Len(line) /\ (n + 1) - 1 = n /\ Good(r[n])
    BY <1>1
  <2>2. line[n + 1] \in B /\ line[n + 1] \in Octet
    BY <1>1, <2>1 DEF B
  <2>3. Good(Reads(r[n], line[n + 1], capacity))
    BY ONLY <2>1, <2>2, capacity \in Nat, ReadsText
  <2> QED
    BY <1>2, <2>1, <2>3
<1>5. T = Nat
  <2>1. T \in SUBSET Nat
    OBVIOUS
  <2> HIDE DEF T
  <2> QED
    BY <1>3, <1>4, <2>1, InductionOnNat
<1>6. Good(r[Len(line)])
  BY <1>1, <1>5
<1> DEFINE end == r[Len(line)]
<1>7. Tokens(line, capacity).words = WordsAt(end)
  BY DEF Tokens, Outcome, Reading, r
<1> HIDE DEF end
<1>8. /\ end.words \in Seq(Seq(B)) /\ end.word \in Seq(B)
      /\ Len(end.words) <= capacity /\ (end.open => Len(end.words) < capacity)
  BY <1>6 DEF ReaderOf, HasRoom, end
<1>9. /\ Append(end.words, end.word) \in Seq(Seq(B))
      /\ Len(Append(end.words, end.word)) = Len(end.words) + 1 /\ Len(end.words) \in Nat
  BY <1>8, AppendProperties, LenProperties
<1>10. /\ WordsAt(end) \in Seq(Seq(B)) /\ Len(WordsAt(end)) <= capacity
  <2>1. <<>> \in Seq(Seq(B)) /\ Len(<<>>) = 0
    OBVIOUS
  <2>2. WordsAt(end) = <<>> \/ (end.open /\ WordsAt(end) = Append(end.words, end.word))
          \/ (~end.open /\ WordsAt(end) = end.words)
    BY DEF WordsAt
  <2>3. CASE WordsAt(end) = <<>>
    BY <2>1, <2>3
  <2>4. CASE end.open /\ WordsAt(end) = Append(end.words, end.word)
    BY <1>8, <1>9, <2>4
  <2>5. CASE ~end.open /\ WordsAt(end) = end.words
    BY <1>8, <1>9, <2>5
  <2> QED
    BY <2>2, <2>3, <2>4, <2>5
<1> QED
  BY <1>7, <1>10 DEF B

-----------------------------------------------------------------------------
\* The reader between two words, and inside one.
Between(words) == [words |-> words, word |-> <<>>, open |-> FALSE,
                   quote |-> NUL, escaped |-> FALSE, full |-> FALSE]
InWord(words, word, mark) == [words |-> words, word |-> word, open |-> TRUE,
                              quote |-> mark, escaped |-> FALSE, full |-> FALSE]

LEMMA BetweenFields ==
  ASSUME NEW words \in Seq(Seq(Octet))
  PROVE  /\ Between(words) \in Reader /\ Between(words).words = words
         /\ Between(words).word = <<>> /\ ~Between(words).open
         /\ Between(words).quote = NUL /\ ~Between(words).escaped /\ ~Between(words).full
<1>1. <<>> \in Seq(Octet) /\ NUL \in Octet
  BY DEF NUL, Octet
<1> QED
  BY <1>1 DEF Between, Reader

LEMMA InWordFields ==
  ASSUME NEW words \in Seq(Seq(Octet)), NEW word \in Seq(Octet), NEW mark \in Octet
  PROVE  /\ InWord(words, word, mark) \in Reader /\ InWord(words, word, mark).words = words
         /\ InWord(words, word, mark).word = word /\ InWord(words, word, mark).open
         /\ InWord(words, word, mark).quote = mark /\ ~InWord(words, word, mark).escaped
         /\ ~InWord(words, word, mark).full
BY DEF InWord, Reader

\* A reader is between words or in a word if its fields say so.
LEMMA IsReader ==
  ASSUME NEW s \in Reader, ~s.escaped, ~s.full
  PROVE  /\ ~s.open /\ s.quote = NUL /\ s.word = <<>> => s = Between(s.words)
         /\ s.open => s = InWord(s.words, s.word, s.quote)
<1>1. /\ s.words \in Seq(Seq(Octet)) /\ s.word \in Seq(Octet) /\ s.quote \in Octet
      /\ s.open \in BOOLEAN
  BY DEF Reader
<1>2. ASSUME NEW e \in Reader, e.words = s.words, e.word = s.word, e.open <=> s.open,
             e.quote = s.quote, ~e.escaped, ~e.full
      PROVE  s = e
  BY <1>2 DEF Reader
<1>3. CASE ~s.open /\ s.quote = NUL /\ s.word = <<>>
  <2> DEFINE e == Between(s.words)
  <2>1. /\ e \in Reader /\ e.words = s.words /\ e.word = <<>> /\ ~e.open
        /\ e.quote = NUL /\ ~e.escaped /\ ~e.full
    BY <1>1, BetweenFields
  <2> HIDE DEF e
  <2>2. s = e
    BY <1>2, <1>3, <2>1
  <2> QED
    BY <1>3, <2>2 DEF e
<1>4. CASE s.open
  <2> DEFINE e == InWord(s.words, s.word, s.quote)
  <2>1. /\ e \in Reader /\ e.words = s.words /\ e.word = s.word /\ e.open
        /\ e.quote = s.quote /\ ~e.escaped /\ ~e.full
    BY <1>1, InWordFields
  <2> HIDE DEF e
  <2>2. s = e
    BY <1>2, <1>4, <2>1
  <2> QED
    BY <1>4, <2>2 DEF e
<1> QED
  BY <1>3, <1>4

\* The fields after one more byte of a word: an escaped one,
LEMMA WithinEscaped ==
  ASSUME NEW r \in Reader, NEW byte \in Octet, ~r.full, r.open, r.escaped
  PROVE  /\ Within(r, byte) \in Reader /\ ~Within(r, byte).full
         /\ Within(r, byte).words = r.words /\ Within(r, byte).word = Append(r.word, byte)
         /\ Within(r, byte).open /\ Within(r, byte).quote = r.quote /\ ~Within(r, byte).escaped
<1>1. Append(r.word, byte) \in Seq(Octet)
  BY AppendProperties DEF Reader
<1> QED
  BY <1>1 DEF Within, Reader

\* one that ends the word,
LEMMA WithinBlank ==
  ASSUME NEW r \in Reader, NEW byte \in Octet, ~r.full, r.open, ~r.escaped, r.quote = NUL,
         IsSpace(byte)
  PROVE  /\ Within(r, byte) \in Reader /\ ~Within(r, byte).full
         /\ Within(r, byte).words = Append(r.words, r.word) /\ Within(r, byte).word = <<>>
         /\ ~Within(r, byte).open /\ Within(r, byte).quote = r.quote /\ ~Within(r, byte).escaped
<1>1. Append(r.words, r.word) \in Seq(Seq(Octet)) /\ <<>> \in Seq(Octet)
  BY AppendProperties DEF Reader
<1> QED
  BY <1>1 DEF Within, Reader

\* one that escapes the next,
LEMMA WithinEscapes ==
  ASSUME NEW r \in Reader, NEW byte \in Octet, ~r.full, r.open, ~r.escaped,
         r.quote = DoubleQuote, byte = Backslash
  PROVE  /\ Within(r, byte) \in Reader /\ ~Within(r, byte).full
         /\ Within(r, byte).words = r.words /\ Within(r, byte).word = r.word
         /\ Within(r, byte).open /\ Within(r, byte).quote = r.quote /\ Within(r, byte).escaped
<1>1. /\ ~IsSpace(DoubleQuote) /\ ~IsSpace(Backslash) /\ DoubleQuote # Backslash
      /\ DoubleQuote # SingleQuote /\ DoubleQuote # NUL /\ DoubleQuote \in Quotes
      /\ NUL \in Octet /\ DoubleQuote \in Octet
  BY DEF IsSpace, Space, DoubleQuote, SingleQuote, Backslash, Quotes, NUL, Octet
<1> QED
  BY <1>1 DEF Within, Reader

\* the quote that opens,
LEMMA WithinOpens ==
  ASSUME NEW r \in Reader, NEW byte \in Octet, ~r.full, r.open, ~r.escaped, r.quote = NUL,
         byte = DoubleQuote
  PROVE  /\ Within(r, byte) \in Reader /\ ~Within(r, byte).full
         /\ Within(r, byte).words = r.words /\ Within(r, byte).word = r.word
         /\ Within(r, byte).open /\ Within(r, byte).quote = DoubleQuote /\ ~Within(r, byte).escaped
<1>1. /\ ~IsSpace(DoubleQuote) /\ ~IsSpace(Backslash) /\ DoubleQuote # Backslash
      /\ DoubleQuote # SingleQuote /\ DoubleQuote # NUL /\ DoubleQuote \in Quotes
      /\ NUL \in Octet /\ DoubleQuote \in Octet
  BY DEF IsSpace, Space, DoubleQuote, SingleQuote, Backslash, Quotes, NUL, Octet
<1> QED
  BY <1>1 DEF Within, Reader

\* the quote that closes,
LEMMA WithinCloses ==
  ASSUME NEW r \in Reader, NEW byte \in Octet, ~r.full, r.open, ~r.escaped,
         r.quote = DoubleQuote, byte = DoubleQuote
  PROVE  /\ Within(r, byte) \in Reader /\ ~Within(r, byte).full
         /\ Within(r, byte).words = r.words /\ Within(r, byte).word = r.word
         /\ Within(r, byte).open /\ Within(r, byte).quote = NUL /\ ~Within(r, byte).escaped
<1>1. /\ ~IsSpace(DoubleQuote) /\ ~IsSpace(Backslash) /\ DoubleQuote # Backslash
      /\ DoubleQuote # SingleQuote /\ DoubleQuote # NUL /\ DoubleQuote \in Quotes
      /\ NUL \in Octet /\ DoubleQuote \in Octet
  BY DEF IsSpace, Space, DoubleQuote, SingleQuote, Backslash, Quotes, NUL, Octet
<1> QED
  BY <1>1 DEF Within, Reader

\* and any other.
LEMMA WithinPlain ==
  ASSUME NEW r \in Reader, NEW byte \in Octet, ~r.full, r.open, ~r.escaped,
         byte # Backslash, byte # r.quote,
         r.quote # NUL \/ (~IsSpace(byte) /\ byte \notin Quotes)
  PROVE  /\ Within(r, byte) \in Reader /\ ~Within(r, byte).full
         /\ Within(r, byte).words = r.words /\ Within(r, byte).word = Append(r.word, byte)
         /\ Within(r, byte).open /\ Within(r, byte).quote = r.quote /\ ~Within(r, byte).escaped
<1>1. Append(r.word, byte) \in Seq(Octet)
  BY AppendProperties DEF Reader
<1> QED
  BY <1>1 DEF Within, Reader

\* What a reader makes of the bytes append_token writes.
ReaderTakes(words, word, byte, capacity) ==
  /\ Reads(InWord(words, word, NUL), Space, capacity) = Between(Append(words, word))
  /\ Reads(Between(words), DoubleQuote, capacity) = InWord(words, <<>>, DoubleQuote)
  /\ Reads(InWord(words, word, DoubleQuote), DoubleQuote, capacity)
       = InWord(words, word, NUL)
  /\ byte \notin {DoubleQuote, Backslash} =>
       Reads(InWord(words, word, DoubleQuote), byte, capacity)
         = InWord(words, Append(word, byte), DoubleQuote)
  /\ Reads(Reads(InWord(words, word, DoubleQuote), Backslash, capacity), byte, capacity)
       = InWord(words, Append(word, byte), DoubleQuote)
  /\ ~IsSpace(byte) /\ byte \notin Quotes /\ byte # Backslash =>
       /\ Reads(InWord(words, word, NUL), byte, capacity)
            = InWord(words, Append(word, byte), NUL)
       /\ Reads(Between(words), byte, capacity)
            = InWord(words, Append(<<>>, byte), NUL)

LEMMA ReadsWritten ==
  ASSUME NEW words \in Seq(Seq(Octet)), NEW word \in Seq(Octet), NEW byte \in 1..255,
         NEW capacity, Len(words) # capacity
  PROVE  ReaderTakes(words, word, byte, capacity)
<1>1. ASSUME NEW s \in Reader, s.open, ~s.full, NEW c
      PROVE  Reads(s, c, capacity) = Within(s, c)
  <2>1. [s EXCEPT !.open = TRUE] = s
    BY <1>1 DEF Reader
  <2> QED
    BY <1>1, <2>1 DEF Reads
<1>2. ASSUME NEW c, ~IsSpace(c)
      PROVE  Reads(Between(words), c, capacity) = Within(InWord(words, <<>>, NUL), c)
  <2> DEFINE s == Between(words)
             r == [s EXCEPT !.open = TRUE]
  <2>1. /\ s \in Reader /\ s.words = words /\ s.word = <<>> /\ ~s.open
        /\ s.quote = NUL /\ ~s.escaped /\ ~s.full
    BY BetweenFields
  <2> HIDE DEF s
  <2>2. /\ r \in Reader /\ r.words = words /\ r.word = <<>> /\ r.open
        /\ r.quote = NUL /\ ~r.escaped /\ ~r.full
    BY <2>1 DEF Reader
  <2>3. Reads(s, c, capacity) = Within(r, c)
    BY <1>2, <2>1 DEF Reads
  <2> HIDE DEF r
  <2>4. r = InWord(words, <<>>, NUL)
    BY <2>2, IsReader
  <2> QED
    BY <2>3, <2>4 DEF s
<1>3. /\ IsSpace(Space) /\ ~IsSpace(DoubleQuote) /\ DoubleQuote \in Quotes
      /\ DoubleQuote # NUL /\ DoubleQuote # Backslash
      /\ byte # NUL /\ byte \in Octet /\ NUL \in Octet /\ DoubleQuote \in Octet
      /\ Space \in Octet /\ Backslash \in Octet /\ <<>> \in Seq(Octet)
  BY DEF IsSpace, Space, DoubleQuote, SingleQuote, Backslash, Quotes, NUL, Octet
<1> DEFINE plain == InWord(words, word, NUL)
           fresh == InWord(words, <<>>, NUL)
           quoted == InWord(words, word, DoubleQuote)
<1>4. /\ plain \in Reader /\ plain.words = words /\ plain.word = word /\ plain.open
      /\ plain.quote = NUL /\ ~plain.escaped /\ ~plain.full
  BY <1>3, InWordFields
<1>4a. /\ fresh \in Reader /\ fresh.words = words /\ fresh.word = <<>> /\ fresh.open
       /\ fresh.quote = NUL /\ ~fresh.escaped /\ ~fresh.full
  BY <1>3 DEF InWord, Reader
<1>4b. /\ quoted \in Reader /\ quoted.words = words /\ quoted.word = word /\ quoted.open
       /\ quoted.quote = DoubleQuote /\ ~quoted.escaped /\ ~quoted.full
  BY <1>3, InWordFields
<1> HIDE DEF plain, fresh, quoted
<1>5. Reads(plain, Space, capacity) = Between(Append(words, word))
  <2> DEFINE next == Within(plain, Space)
  <2>1. /\ next \in Reader /\ ~next.full /\ next.words = Append(words, word)
        /\ next.word = <<>> /\ ~next.open /\ next.quote = NUL /\ ~next.escaped
    BY <1>3, <1>4, WithinBlank
  <2> HIDE DEF next
  <2>2. next = Between(Append(words, word))
    BY <2>1, IsReader
  <2> QED
    BY <1>1, <1>4, <2>2 DEF next
<1>6. Reads(Between(words), DoubleQuote, capacity) = InWord(words, <<>>, DoubleQuote)
  <2> DEFINE next == Within(fresh, DoubleQuote)
  <2>1. /\ next \in Reader /\ ~next.full /\ next.words = words
        /\ next.word = <<>> /\ next.open /\ next.quote = DoubleQuote /\ ~next.escaped
    BY <1>3, <1>4a, WithinOpens
  <2> HIDE DEF next
  <2>2. next = InWord(words, <<>>, DoubleQuote)
    BY <2>1, IsReader
  <2> QED
    BY <1>2, <1>3, <2>2 DEF next, fresh
<1>7. Reads(quoted, DoubleQuote, capacity) = plain
  <2> DEFINE next == Within(quoted, DoubleQuote)
  <2>1. /\ next \in Reader /\ ~next.full /\ next.words = words
        /\ next.word = word /\ next.open /\ next.quote = NUL /\ ~next.escaped
    BY <1>3, <1>4b, WithinCloses
  <2> HIDE DEF next
  <2>2. next = plain
    BY <2>1, IsReader DEF plain
  <2> QED
    BY <1>1, <1>4b, <2>2 DEF next
<1>8. ASSUME byte \notin {DoubleQuote, Backslash}
      PROVE  Reads(quoted, byte, capacity) = InWord(words, Append(word, byte), DoubleQuote)
  <2> DEFINE next == Within(quoted, byte)
  <2>0. byte # DoubleQuote /\ byte # Backslash
    BY <1>8
  <2>1. /\ next \in Reader /\ ~next.full /\ next.words = words
        /\ next.word = Append(word, byte) /\ next.open /\ next.quote = DoubleQuote
        /\ ~next.escaped
    BY <1>3, <1>4b, <2>0, WithinPlain
  <2> HIDE DEF next
  <2>2. next = InWord(words, Append(word, byte), DoubleQuote)
    BY <2>1, IsReader
  <2> QED
    BY <1>1, <1>4b, <2>2 DEF next
<1>9. Reads(Reads(quoted, Backslash, capacity), byte, capacity)
        = InWord(words, Append(word, byte), DoubleQuote)
  <2> DEFINE middle == Within(quoted, Backslash)
             next == Within(middle, byte)
  <2>1. /\ middle \in Reader /\ ~middle.full /\ middle.words = words
        /\ middle.word = word /\ middle.open /\ middle.quote = DoubleQuote /\ middle.escaped
    BY <1>3, <1>4b, WithinEscapes
  <2>2. Reads(quoted, Backslash, capacity) = middle
    BY <1>1, <1>4b
  <2> HIDE DEF middle
  <2>3. /\ next \in Reader /\ ~next.full /\ next.words = words
        /\ next.word = Append(word, byte) /\ next.open /\ next.quote = DoubleQuote
        /\ ~next.escaped
    BY <1>3, <2>1, WithinEscaped
  <2>4. Reads(middle, byte, capacity) = next
    BY <1>1, <2>1
  <2> HIDE DEF next
  <2>5. next = InWord(words, Append(word, byte), DoubleQuote)
    BY <2>3, IsReader
  <2> QED
    BY <2>2, <2>4, <2>5
<1>10. ASSUME ~IsSpace(byte), byte \notin Quotes, byte # Backslash
       PROVE  /\ Reads(plain, byte, capacity) = InWord(words, Append(word, byte), NUL)
              /\ Reads(Between(words), byte, capacity) = InWord(words, Append(<<>>, byte), NUL)
  <2> DEFINE next == Within(plain, byte)
             first == Within(fresh, byte)
  <2>1. /\ next \in Reader /\ ~next.full /\ next.words = words
        /\ next.word = Append(word, byte) /\ next.open /\ next.quote = NUL
        /\ ~next.escaped
    BY <1>3, <1>4, <1>10, WithinPlain
  <2>2. /\ first \in Reader /\ ~first.full /\ first.words = words
        /\ first.word = Append(<<>>, byte) /\ first.open /\ first.quote = NUL
        /\ ~first.escaped
    BY <1>3, <1>4a, <1>10, WithinPlain
  <2>3. Reads(plain, byte, capacity) = next /\ Reads(Between(words), byte, capacity) = first
    BY <1>1, <1>2, <1>4, <1>10 DEF fresh
  <2> HIDE DEF next, first
  <2>4. /\ next = InWord(words, Append(word, byte), NUL)
        /\ first = InWord(words, Append(<<>>, byte), NUL)
    BY <2>1, <2>2, IsReader
  <2> QED
    BY <2>3, <2>4
<1> QED
  BY <1>5, <1>6, <1>7, <1>8, <1>9, <1>10 DEF plain, quoted, ReaderTakes

\* How append_token goes through a word.
Opened(line, word) ==
  LET spaced == IF line = <<>> THEN line ELSE Append(line, Space)
  IN IF NeedsQuotes(word) THEN Append(spaced, DoubleQuote) ELSE spaced
Written(line, byte) ==
  Append(IF byte \in {DoubleQuote, Backslash} THEN Append(line, Backslash) ELSE line, byte)

LEMMA TokenSteps ==
  ASSUME NEW line \in Seq(Octet), NEW word \in Seq(Octet)
  PROVE  \E with :
           /\ with[0] = Opened(line, word)
           /\ \A n \in 0..Len(word) : with[n] \in Seq(Octet)
           /\ \A n \in 1..Len(word) : with[n] = Written(with[n - 1], word[n])
           /\ WithToken(line, word)
                = IF NeedsQuotes(word) THEN Append(with[Len(word)], DoubleQuote)
                  ELSE with[Len(word)]
<1> DEFINE m == Len(word)
           F == [n \in 1..m |-> [x \in Seq(Octet) |-> Written(x, word[n])]]
           start == Opened(line, word)
<1>1. m \in Nat /\ \A n \in 1..m : word[n] \in Octet
  BY ElementOfSeq, LenProperties
<1>2. ASSUME NEW x \in Seq(Octet), NEW byte \in Octet PROVE Written(x, byte) \in Seq(Octet)
  <2>1. Backslash \in Octet
    BY DEF Backslash, Octet
  <2> QED
    BY <2>1, AppendProperties DEF Written
<1>3. start \in Seq(Octet)
  <2>1. Space \in Octet /\ DoubleQuote \in Octet
    BY DEF Space, DoubleQuote, Octet
  <2> QED
    BY <2>1, AppendProperties DEF Opened
<1> HIDE DEF start
<1>4. \A n \in 1..m : \A x \in Seq(Octet) : F[n][x] \in Seq(Octet)
  BY <1>1, <1>2
<1>5. PICK g : Walk(g, start, F, m, Seq(Octet))
  <2>1. StepsOn(F, m, Seq(Octet))
    BY <1>4 DEF StepsOn
  <2> HIDE DEF F, m
  <2> QED
    BY ONLY <1>1, <1>3, <2>1, StepsCompose, Zenon
<1>6. \A n \in 1..m : g[n] = Written(g[n - 1], word[n])
  <2> SUFFICES ASSUME NEW n \in 1..m PROVE g[n] = Written(g[n - 1], word[n])
    OBVIOUS
  <2>1. g[n - 1] \in Seq(Octet)
    <3>1. n - 1 \in 0..m
      BY <1>1
    <3> HIDE DEF F, m
    <3> QED
      BY <1>5, <3>1 DEF Walk
  <2>2. F[n][g[n - 1]] = Written(g[n - 1], word[n])
    BY <2>1
  <2> HIDE DEF F
  <2> QED
    BY <1>5, <2>2 DEF Walk
<1>7. g[0] = start /\ \A n \in 0..m : g[n] \in Seq(Octet)
  <2> HIDE DEF F, m
  <2> QED
    BY <1>5 DEF Walk
<1> HIDE DEF F, m
<1> DEFINE f == [n \in 0..m |-> g[n]]
           with == CHOOSE h : h = [n \in 0..m |->
                     IF n = 0 THEN start
                     ELSE Append(IF word[n] \in {DoubleQuote, Backslash}
                                 THEN Append(h[n - 1], Backslash) ELSE h[n - 1], word[n])]
<1>8. f = [n \in 0..m |->
             IF n = 0 THEN start
             ELSE Append(IF word[n] \in {DoubleQuote, Backslash}
                         THEN Append(f[n - 1], Backslash) ELSE f[n - 1], word[n])]
  <2>1. \A n \in 0..m : n = 0 \/ (n \in 1..m /\ f[n - 1] = g[n - 1])
    BY <1>1 DEF m
  <2>2. \A n \in 0..m : f[n] =
             IF n = 0 THEN start
             ELSE Append(IF word[n] \in {DoubleQuote, Backslash}
                         THEN Append(f[n - 1], Backslash) ELSE f[n - 1], word[n])
    BY <1>6, <1>7, <2>1 DEF Written
  <2> QED
    BY <2>2
<1>9. with = [n \in 0..m |->
                IF n = 0 THEN start
                ELSE Append(IF word[n] \in {DoubleQuote, Backslash}
                            THEN Append(with[n - 1], Backslash) ELSE with[n - 1], word[n])]
  <2> HIDE DEF f
  <2> QED
    BY <1>8
<1>10. WithToken(line, word) = IF NeedsQuotes(word) THEN Append(with[m], DoubleQuote)
                               ELSE with[m]
  BY DEF WithToken, start, Opened, m
<1> HIDE DEF with
<1>11. /\ with[0] = start
       /\ \A n \in 1..m : with[n] = Written(with[n - 1], word[n])
  <2>1. \A n \in 0..m : with[n] =
                IF n = 0 THEN start
                ELSE Append(IF word[n] \in {DoubleQuote, Backslash}
                            THEN Append(with[n - 1], Backslash) ELSE with[n - 1], word[n])
    BY <1>9
  <2>2. 0 \in 0..m /\ \A n \in 1..m : n \in 0..m /\ n # 0
    BY <1>1 DEF m
  <2> QED
    BY <2>1, <2>2 DEF Written
<1>12. \A n \in 0..m : with[n] \in Seq(Octet)
  <2> DEFINE T == {n \in Nat : n <= m => with[n] \in Seq(Octet)}
  <2>1. 0 \in T
    BY <1>3, <1>11
  <2>2. ASSUME NEW n \in T PROVE n + 1 \in T
    <3> SUFFICES ASSUME n + 1 <= m PROVE with[n + 1] \in Seq(Octet)
      OBVIOUS
    <3>1. n + 1 \in 1..m /\ (n + 1) - 1 = n /\ with[n] \in Seq(Octet)
      BY <1>1 DEF m
    <3> QED
      BY <1>1, <1>2, <1>11, <3>1
  <2>3. T = Nat
    <3>1. T \in SUBSET Nat
      OBVIOUS
    <3> HIDE DEF T
    <3> QED
      BY <2>1, <2>2, <3>1, InductionOnNat
  <2> QED
    BY <1>1, <2>3 DEF m
<1> QED
  BY <1>10, <1>11, <1>12 DEF start, m

\* A prefix of a sequence and one element more.
LEMMA NextPrefix ==
  ASSUME NEW S, NEW s \in Seq(S), NEW n \in Nat, n + 1 <= Len(s)
  PROVE  /\ SubSeq(s, 1, n + 1) = Append(SubSeq(s, 1, n), s[n + 1])
         /\ SubSeq(s, 1, n) \in Seq(S) /\ Len(SubSeq(s, 1, n)) = n
<1>1. Len(s) \in Nat
  BY LenProperties
<1> QED
  BY <1>1

\* append_token writes a word that sh_tokenize reads back, after those of the line.
LEMMA TokenRead ==
  ASSUME NEW line \in Seq(Octet), NEW capacity, NEW words \in Seq(Seq(Octet)),
         NEW word \in Seq(1..255), Quotable(word), Len(words) # capacity,
         line = <<>> => words = <<>>,
         line # <<>> => Reads(Reading(line, capacity), Space, capacity) = Between(words)
  PROVE  /\ WithToken(line, word) \in Seq(Octet) /\ WithToken(line, word) # <<>>
         /\ Reading(WithToken(line, word), capacity) = InWord(words, word, NUL)
<1> DEFINE at(x) == Reading(x, capacity)
           quoted == NeedsQuotes(word)
<1>1. /\ Space \in Octet /\ DoubleQuote \in Octet /\ Backslash \in Octet
      /\ \A n \in 1..Len(word) : word[n] \in 1..255 /\ word[n] \in Octet
      /\ Len(word) \in Nat /\ word \in Seq(Octet) /\ <<>> \in Seq(Octet)
  <2>1. /\ Len(word) \in Nat /\ \A n \in 1..Len(word) : word[n] \in 1..255
        /\ word = [n \in 1..Len(word) |-> word[n]]
    BY ElementOfSeq, LenProperties
  <2>2. \A n \in 1..Len(word) : word[n] \in Octet
    BY <2>1 DEF Octet
  <2>3. word \in Seq(Octet)
    BY <2>1, <2>2, IsASeq
  <2> QED
    BY <2>1, <2>2, <2>3 DEF Space, DoubleQuote, Backslash, Octet
<1>2. ASSUME NEW x \in Seq(Octet), NEW byte \in Octet
      PROVE  /\ at(Append(x, byte)) = Reads(at(x), byte, capacity)
             /\ Append(x, byte) \in Seq(Octet) /\ Append(x, byte) # <<>>
  <2>1. Append(x, byte) # <<>>
    BY AppendProperties
  <2> QED
    BY <2>1, ReadingAppend, AppendProperties
<1>2a. ASSUME NEW w \in Seq(Octet), NEW byte \in 1..255
       PROVE  ReaderTakes(words, w, byte, capacity)
  BY ReadsWritten
<1>3. PICK with : /\ with[0] = Opened(line, word)
                  /\ \A n \in 0..Len(word) : with[n] \in Seq(Octet)
                  /\ \A n \in 1..Len(word) : with[n] = Written(with[n - 1], word[n])
                  /\ WithToken(line, word) = IF quoted THEN Append(with[Len(word)], DoubleQuote)
                                             ELSE with[Len(word)]
  BY <1>1, TokenSteps
<1> DEFINE spaced == IF line = <<>> THEN line ELSE Append(line, Space)
<1>4. at(spaced) = Between(words) /\ spaced \in Seq(Octet)
  <2>1. CASE line = <<>>
    <3>1. at(<<>>) = Unread
      BY <1>1, ReadingAppend
    <3>2. Unread = Between(<<>>)
      BY DEF Unread, Between
    <3> QED
      BY <2>1, <3>1, <3>2
  <2>2. CASE line # <<>>
    BY <1>1, <1>2, <2>2
  <2> QED
    BY <2>1, <2>2
<1>5. Opened(line, word) = IF quoted THEN Append(spaced, DoubleQuote) ELSE spaced
  BY DEF Opened
<1> HIDE DEF at, spaced, quoted
<1> DEFINE upto(n) == SubSeq(word, 1, n)
<1>6. /\ upto(0) = <<>> /\ upto(Len(word)) = word
      /\ \A n \in Nat : n + 1 <= Len(word) =>
           /\ upto(n + 1) = Append(upto(n), word[n + 1])
           /\ upto(n) \in Seq(Octet)
  <2>1. upto(0) = <<>> /\ upto(Len(word)) = word
    BY <1>1
  <2>2. \A n \in Nat : n + 1 <= Len(word) =>
           /\ upto(n + 1) = Append(upto(n), word[n + 1])
           /\ upto(n) \in Seq(Octet)
    BY <1>1, NextPrefix
  <2> QED
    BY <2>1, <2>2
<1> HIDE DEF upto
<1>7. CASE quoted
  <2> DEFINE T == {n \in Nat : n <= Len(word) =>
                     at(with[n]) = InWord(words, upto(n), DoubleQuote)}
  <2>1. 0 \in T
    <3>1. with[0] = Append(spaced, DoubleQuote)
      BY <1>3, <1>5, <1>7
    <3>2. at(with[0]) = Reads(Between(words), DoubleQuote, capacity)
      BY <1>1, <1>2, <1>4, <3>1
    <3>3. ReaderTakes(words, <<>>, 34, capacity)
      <4>1. <<>> \in Seq(Octet) /\ 34 \in 1..255
        BY <1>1
      <4> QED
        BY ONLY <4>1, <1>2a
    <3>4. Reads(Between(words), DoubleQuote, capacity) = InWord(words, <<>>, DoubleQuote)
      BY <3>3 DEF ReaderTakes
    <3> QED
      BY <1>6, <3>2, <3>4
  <2>2. ASSUME NEW n \in T PROVE n + 1 \in T
    <3> SUFFICES ASSUME n + 1 <= Len(word)
                 PROVE  at(with[n + 1]) = InWord(words, upto(n + 1), DoubleQuote)
      OBVIOUS
    <3> DEFINE byte == word[n + 1]
    <3>1. /\ n \in Nat /\ n \in 0..Len(word) /\ n + 1 \in 1..Len(word) /\ (n + 1) - 1 = n
          /\ at(with[n]) = InWord(words, upto(n), DoubleQuote)
      BY <1>1
    <3>2. /\ with[n] \in Seq(Octet) /\ with[n + 1] = Written(with[n], byte)
          /\ byte \in 1..255 /\ byte \in Octet
          /\ upto(n) \in Seq(Octet) /\ upto(n + 1) = Append(upto(n), byte)
      BY <1>1, <1>3, <1>6, <3>1
    <3> HIDE DEF byte, T
    <3>3. CASE byte \in {DoubleQuote, Backslash}
      <4>1. with[n + 1] = Append(Append(with[n], Backslash), byte)
        BY <3>2, <3>3 DEF Written
      <4>2. at(with[n + 1])
              = Reads(Reads(InWord(words, upto(n), DoubleQuote), Backslash, capacity),
                      byte, capacity)
        <5>1. /\ at(Append(with[n], Backslash))
                   = Reads(InWord(words, upto(n), DoubleQuote), Backslash, capacity)
              /\ Append(with[n], Backslash) \in Seq(Octet)
          BY <1>1, <1>2, <3>1, <3>2
        <5> QED
          BY <1>2, <3>2, <4>1, <5>1
      <4>3. ReaderTakes(words, upto(n), byte, capacity)
        BY <1>2a, <3>2
      <4> QED
        BY <3>2, <4>2, <4>3 DEF ReaderTakes
    <3>4. CASE byte \notin {DoubleQuote, Backslash}
      <4>1. with[n + 1] = Append(with[n], byte)
        BY <3>2, <3>4 DEF Written
      <4>2. at(with[n + 1]) = Reads(InWord(words, upto(n), DoubleQuote), byte, capacity)
        BY <1>2, <3>1, <3>2, <4>1
      <4>3. ReaderTakes(words, upto(n), byte, capacity)
        BY <1>2a, <3>2
      <4> QED
        BY <3>2, <3>4, <4>2, <4>3 DEF ReaderTakes
    <3> QED
      BY <3>3, <3>4
  <2>3. T = Nat
    <3>1. T \in SUBSET Nat
      OBVIOUS
    <3> HIDE DEF T
    <3> QED
      BY <2>1, <2>2, <3>1, InductionOnNat
  <2>4. with[Len(word)] \in Seq(Octet) /\ at(with[Len(word)]) = InWord(words, word, DoubleQuote)
    BY <1>1, <1>3, <1>6, <2>3
  <2>5. WithToken(line, word) = Append(with[Len(word)], DoubleQuote)
    BY <1>3, <1>7
  <2>6. /\ at(WithToken(line, word))
             = Reads(InWord(words, word, DoubleQuote), DoubleQuote, capacity)
        /\ WithToken(line, word) \in Seq(Octet) /\ WithToken(line, word) # <<>>
    BY <1>1, <1>2, <2>4, <2>5
  <2>7. Reads(InWord(words, word, DoubleQuote), DoubleQuote, capacity) = InWord(words, word, NUL)
    <3>1. ReaderTakes(words, word, 34, capacity)
      BY <1>1, <1>2a
    <3> QED
      BY <3>1 DEF ReaderTakes
  <2> QED
    BY <2>6, <2>7 DEF at
<1>8. CASE ~quoted
  <2>1. /\ word # <<>> /\ Len(word) # 0
        /\ \A n \in 1..Len(word) : /\ ~IsSpace(word[n]) /\ word[n] \notin Quotes
                                   /\ word[n] # Backslash /\ word[n] # DoubleQuote
    <3>1. /\ word # <<>>
          /\ \A n \in 1..Len(word) : word[n] \notin {Space, HT, Backslash} \cup Quotes
      BY <1>1, <1>8, LenProperties DEF NeedsQuotes, quoted
    <3>2. \A n \in 1..Len(word) : IsSpace(word[n]) => word[n] \in {Space, HT}
      BY <1>1, LenProperties DEF Quotable
    <3>3. Len(word) # 0
      BY <1>1, <3>1, EmptySeq
    <3> QED
      BY <3>1, <3>2, <3>3 DEF Quotes
  <2> DEFINE T == {n \in Nat : n <= Len(word) =>
                     at(with[n]) = IF n = 0 THEN Between(words)
                                   ELSE InWord(words, upto(n), NUL)}
  <2>2. 0 \in T
    BY <1>3, <1>4, <1>5, <1>8
  <2>3. ASSUME NEW n \in T PROVE n + 1 \in T
    <3> SUFFICES ASSUME n + 1 <= Len(word)
                 PROVE  at(with[n + 1]) = InWord(words, upto(n + 1), NUL)
      OBVIOUS
    <3> DEFINE byte == word[n + 1]
    <3>1. /\ n \in Nat /\ n \in 0..Len(word) /\ n + 1 \in 1..Len(word) /\ (n + 1) - 1 = n
          /\ at(with[n]) = IF n = 0 THEN Between(words) ELSE InWord(words, upto(n), NUL)
      BY <1>1
    <3>2. /\ with[n] \in Seq(Octet) /\ with[n + 1] = Written(with[n], byte)
          /\ byte \in 1..255 /\ byte \in Octet
          /\ upto(n) \in Seq(Octet) /\ upto(n + 1) = Append(upto(n), byte)
          /\ ~IsSpace(byte) /\ byte \notin Quotes /\ byte # Backslash /\ byte # DoubleQuote
      BY <1>1, <1>3, <1>6, <2>1, <3>1
    <3> HIDE DEF byte, T
    <3>3. with[n + 1] = Append(with[n], byte)
      BY <3>2 DEF Written
    <3>4. at(with[n + 1]) = Reads(at(with[n]), byte, capacity)
      BY <1>2, <3>2, <3>3
    <3>5. CASE n = 0
      <4>1. at(with[n + 1]) = Reads(Between(words), byte, capacity)
        BY <3>1, <3>4, <3>5
      <4>2. upto(n) = <<>>
        BY <1>6, <3>5
      <4>3. ReaderTakes(words, <<>>, byte, capacity)
        BY <1>1, <1>2a, <3>2
      <4> QED
        BY <3>2, <4>1, <4>2, <4>3 DEF ReaderTakes
    <3>6. CASE n # 0
      <4>1. at(with[n + 1]) = Reads(InWord(words, upto(n), NUL), byte, capacity)
        BY <3>1, <3>4, <3>6
      <4>2. ReaderTakes(words, upto(n), byte, capacity)
        BY <1>2a, <3>2
      <4> QED
        BY <3>2, <4>1, <4>2 DEF ReaderTakes
    <3> QED
      BY <3>5, <3>6
  <2>4. T = Nat
    <3>1. T \in SUBSET Nat
      OBVIOUS
    <3> HIDE DEF T
    <3> QED
      BY <2>2, <2>3, <3>1, InductionOnNat
  <2>5. with[Len(word)] \in Seq(Octet) /\ at(with[Len(word)]) = InWord(words, word, NUL)
    BY <1>1, <1>3, <1>6, <2>1, <2>4
  <2>6. WithToken(line, word) = with[Len(word)]
    BY <1>3, <1>8
  <2>7. with[Len(word)] # <<>>
    <3>1. Len(word) \in 1..Len(word)
      BY <1>1, <2>1
    <3>2. with[Len(word) - 1] \in Seq(Octet) /\ word[Len(word)] \in Octet
      BY <1>1, <1>3, <3>1
    <3>3. with[Len(word)] = Written(with[Len(word) - 1], word[Len(word)])
      BY <1>3, <3>1
    <3>4. ASSUME NEW x \in Seq(Octet), NEW byte \in Octet PROVE Written(x, byte) # <<>>
      BY <1>1, <1>2 DEF Written
    <3> QED
      BY <3>2, <3>3, <3>4
  <2> QED
    BY <2>5, <2>6, <2>7 DEF at
<1> QED
  BY <1>7, <1>8

\* How build_history_line goes through the words.
LEMMA RewrittenSteps ==
  ASSUME NEW words, Len(words) \in Nat,
         \A line \in Seq(Octet) : \A n \in 1..Len(words) : WithToken(line, words[n]) \in Seq(Octet)
  PROVE  \E with :
           /\ with[0] = <<>>
           /\ \A n \in 0..Len(words) : with[n] \in Seq(Octet)
           /\ \A n \in 1..Len(words) : with[n] = WithToken(with[n - 1], words[n])
           /\ Rewritten(words) = with[Len(words)]
<1> DEFINE m == Len(words)
           F == [n \in 1..m |-> [x \in Seq(Octet) |-> WithToken(x, words[n])]]
<1>1. m \in Nat /\ \A n \in 1..m : \A x \in Seq(Octet) : WithToken(x, words[n]) \in Seq(Octet)
  OBVIOUS
<1>2. \A n \in 1..m : \A x \in Seq(Octet) : F[n][x] \in Seq(Octet)
  BY <1>1
<1>3. <<>> \in Seq(Octet)
  OBVIOUS
<1>4. PICK g : Walk(g, <<>>, F, m, Seq(Octet))
  <2>1. StepsOn(F, m, Seq(Octet))
    BY <1>2 DEF StepsOn
  <2> HIDE DEF F, m
  <2> QED
    BY ONLY <1>1, <1>3, <2>1, StepsCompose, Zenon
<1>5. \A n \in 1..m : g[n] = WithToken(g[n - 1], words[n])
  <2> SUFFICES ASSUME NEW n \in 1..m PROVE g[n] = WithToken(g[n - 1], words[n])
    OBVIOUS
  <2>1. g[n - 1] \in Seq(Octet)
    <3>1. n - 1 \in 0..m
      BY <1>1
    <3> HIDE DEF F, m
    <3> QED
      BY <1>4, <3>1 DEF Walk
  <2>2. F[n][g[n - 1]] = WithToken(g[n - 1], words[n])
    BY <2>1
  <2> HIDE DEF F
  <2> QED
    BY <1>4, <2>2 DEF Walk
<1>6. g[0] = <<>> /\ \A n \in 0..m : g[n] \in Seq(Octet)
  <2> HIDE DEF F, m
  <2> QED
    BY <1>4 DEF Walk
<1> HIDE DEF F, m
<1> DEFINE f == [n \in 0..m |-> g[n]]
           with == CHOOSE h : h = [n \in 0..m |-> IF n = 0 THEN <<>>
                                                  ELSE WithToken(h[n - 1], words[n])]
<1>7. f = [n \in 0..m |-> IF n = 0 THEN <<>> ELSE WithToken(f[n - 1], words[n])]
  <2>1. \A n \in 0..m : n = 0 \/ (n \in 1..m /\ f[n - 1] = g[n - 1])
    BY <1>1
  <2>2. \A n \in 0..m : f[n] = IF n = 0 THEN <<>> ELSE WithToken(f[n - 1], words[n])
    BY <1>5, <1>6, <2>1
  <2> QED
    BY <2>2
<1>8. with = [n \in 0..m |-> IF n = 0 THEN <<>> ELSE WithToken(with[n - 1], words[n])]
  <2> HIDE DEF f
  <2> QED
    BY <1>7
<1>9. Rewritten(words) = with[m]
  BY DEF Rewritten, m
<1> HIDE DEF with
<1>10. with[0] = <<>> /\ \A n \in 1..m : with[n] = WithToken(with[n - 1], words[n])
  <2>1. \A n \in 0..m : with[n] = IF n = 0 THEN <<>> ELSE WithToken(with[n - 1], words[n])
    BY <1>8
  <2>2. 0 \in 0..m /\ \A n \in 1..m : n \in 0..m /\ n # 0
    BY <1>1
  <2> QED
    BY <2>1, <2>2
<1>11. \A n \in 0..m : with[n] \in Seq(Octet)
  <2> DEFINE T == {n \in Nat : n <= m => with[n] \in Seq(Octet)}
  <2>1. 0 \in T
    BY <1>3, <1>10
  <2>2. ASSUME NEW n \in T PROVE n + 1 \in T
    <3> SUFFICES ASSUME n + 1 <= m PROVE with[n + 1] \in Seq(Octet)
      OBVIOUS
    <3>1. n + 1 \in 1..m /\ (n + 1) - 1 = n /\ with[n] \in Seq(Octet)
      BY <1>1
    <3> QED
      BY <1>1, <1>10, <3>1
  <2>3. T = Nat
    <3>1. T \in SUBSET Nat
      OBVIOUS
    <3> HIDE DEF T
    <3> QED
      BY <2>1, <2>2, <3>1, InductionOnNat
  <2>4. \A n \in 0..m : n \in Nat /\ n <= m
    BY <1>1
  <2> QED
    BY <2>3, <2>4
<1> QED
  BY <1>9, <1>10, <1>11 DEF m

\* A line is a sequence of bytes again after append_token, whatever the word.
LEMMA TokenType ==
  ASSUME NEW line \in Seq(Octet), NEW word \in Seq(Octet)
  PROVE  WithToken(line, word) \in Seq(Octet)
<1>1. PICK with : /\ \A n \in 0..Len(word) : with[n] \in Seq(Octet)
                  /\ WithToken(line, word)
                       = IF NeedsQuotes(word) THEN Append(with[Len(word)], DoubleQuote)
                         ELSE with[Len(word)]
  BY TokenSteps
<1>2. with[Len(word)] \in Seq(Octet) /\ DoubleQuote \in Octet
  BY <1>1, LenProperties DEF DoubleQuote, Octet
<1> QED
  BY <1>1, <1>2, AppendProperties

\* Sequences over a set are sequences over a larger one; text is bytes.
LEMMA SeqMonotone ==
  ASSUME NEW S, NEW T, S \subseteq T, NEW s \in Seq(S)
  PROVE  s \in Seq(T)
<1>1. /\ Len(s) \in Nat /\ s = [i \in 1..Len(s) |-> s[i]]
      /\ \A i \in 1..Len(s) : s[i] \in T
  BY ElementOfSeq, LenProperties
<1> QED
  BY <1>1, IsASeq

LEMMA TextIsBytes ==
  ASSUME NEW line \in Seq(1..255)
  PROVE  line \in Seq(Octet)
<1>1. 1..255 \subseteq Octet
  BY DEF Octet
<1> QED
  BY <1>1, SeqMonotone

\* A function on 1..n into a set is a sequence over it.
LEMMA SequenceOf ==
  ASSUME NEW S, NEW n \in Nat, NEW f, f = [i \in 1..n |-> f[i]],
         \A i \in 1..n : f[i] \in S
  PROVE  f \in Seq(S) /\ Len(f) = n
<1> DEFINE g == [i \in 1..n |-> f[i]]
<1>1. g \in Seq(S) /\ Len(g) = n
  BY IsASeq
<1> QED
  BY <1>1

\* What build_history_line makes of words is split into these words.
LEMMA RewrittenRead ==
  ASSUME NEW capacity \in Nat, NEW words \in Seq(Seq(1..255)), words # <<>>,
         Len(words) <= capacity, \A n \in 1..Len(words) : Quotable(words[n])
  PROVE  /\ Rewritten(words) \in Seq(Octet)
         /\ Tokens(Rewritten(words), capacity) = [status |-> "SH_OK", words |-> words]
<1> DEFINE m == Len(words)
<1>1. /\ m \in Nat \ {0}
      /\ \A n \in 1..m : words[n] \in Seq(1..255) /\ words[n] \in Seq(Octet)
      /\ words \in Seq(Seq(Octet))
  <2>1. /\ m \in Nat /\ m # 0 /\ \A n \in 1..m : words[n] \in Seq(1..255)
        /\ words = [n \in 1..m |-> words[n]]
    BY ElementOfSeq, LenProperties, EmptySeq
  <2>2. \A n \in 1..m : words[n] \in Seq(Octet)
    BY <2>1, TextIsBytes
  <2>3. Seq(1..255) \subseteq Seq(Octet)
    BY TextIsBytes
  <2>4. words \in Seq(Seq(Octet))
    BY ONLY <2>3, SeqMonotone, words \in Seq(Seq(1..255))
  <2> QED
    BY <2>1, <2>2, <2>4
<1>2. PICK with : /\ with[0] = <<>>
                  /\ \A n \in 0..m : with[n] \in Seq(Octet)
                  /\ \A n \in 1..m : with[n] = WithToken(with[n - 1], words[n])
                  /\ Rewritten(words) = with[m]
  <2>1. Len(words) \in Nat
    BY <1>1
  <2>2. \A line \in Seq(Octet) : \A n \in 1..Len(words) : WithToken(line, words[n]) \in Seq(Octet)
    BY <1>1, TokenType
  <2> QED
    BY <2>1, <2>2, RewrittenSteps
<1> DEFINE upto(n) == SubSeq(words, 1, n)
           T == {n \in Nat : n + 1 <= m =>
                   /\ with[n + 1] # <<>>
                   /\ Reading(with[n + 1], capacity) = InWord(upto(n), words[n + 1], NUL)}
<1>3. /\ upto(0) = <<>> /\ upto(m) = words
      /\ \A n \in Nat : n + 1 <= m =>
           /\ upto(n + 1) = Append(upto(n), words[n + 1])
           /\ upto(n) \in Seq(Seq(Octet)) /\ Len(upto(n)) = n
  <2>1. upto(0) = <<>> /\ upto(m) = words
    BY <1>1
  <2>2. \A n \in Nat : n + 1 <= m =>
           /\ upto(n + 1) = Append(upto(n), words[n + 1])
           /\ upto(n) \in Seq(Seq(Octet)) /\ Len(upto(n)) = n
    BY <1>1, NextPrefix
  <2> QED
    BY <2>1, <2>2
<1> HIDE DEF upto
<1>4. ASSUME NEW n \in Nat, n + 1 <= m,
             with[n] = <<>> => upto(n) = <<>>,
             with[n] # <<>> => Reads(Reading(with[n], capacity), Space, capacity)
                                 = Between(upto(n))
      PROVE  /\ with[n + 1] # <<>>
             /\ Reading(with[n + 1], capacity) = InWord(upto(n), words[n + 1], NUL)
  <2> HIDE DEF T
  <2>1. /\ n + 1 \in 1..m /\ (n + 1) - 1 = n /\ n \in 0..m /\ n # capacity
    <3>1. m \in Nat /\ m <= capacity /\ capacity \in Nat /\ n \in Nat /\ n + 1 <= m
      BY <1>1, <1>4
    <3> HIDE DEF m
    <3> QED
      BY ONLY <3>1
  <2>2. /\ with[n] \in Seq(Octet) /\ with[n + 1] = WithToken(with[n], words[n + 1])
        /\ words[n + 1] \in Seq(1..255) /\ Quotable(words[n + 1])
        /\ upto(n) \in Seq(Seq(Octet)) /\ Len(upto(n)) # capacity
    BY <1>1, <1>2, <1>3, <1>4, <2>1
  <2>3. /\ with[n] = <<>> => upto(n) = <<>>
        /\ with[n] # <<>> => Reads(Reading(with[n], capacity), Space, capacity)
                                = Between(upto(n))
    BY <1>4
  <2> DEFINE line == with[n]
             word == words[n + 1]
             before == upto(n)
  <2>4. /\ line \in Seq(Octet) /\ word \in Seq(1..255) /\ before \in Seq(Seq(Octet))
        /\ Quotable(word) /\ Len(before) # capacity
        /\ line = <<>> => before = <<>>
        /\ line # <<>> => Reads(Reading(line, capacity), Space, capacity) = Between(before)
    BY <2>2, <2>3
  <2> HIDE DEF line, word, before
  <2>5. /\ WithToken(line, word) # <<>>
        /\ Reading(WithToken(line, word), capacity) = InWord(before, word, NUL)
    BY ONLY <2>4, TokenRead, ZenonT(30)
  <2> QED
    BY <2>2, <2>5 DEF line, word, before
<1>5. 0 \in T
  BY <1>2, <1>3, <1>4
<1>6. ASSUME NEW n \in T PROVE n + 1 \in T
  <2> SUFFICES ASSUME (n + 1) + 1 <= m
               PROVE  /\ with[(n + 1) + 1] # <<>>
                      /\ Reading(with[(n + 1) + 1], capacity)
                           = InWord(upto(n + 1), words[(n + 1) + 1], NUL)
    OBVIOUS
  <2>1. /\ n \in Nat /\ n + 1 \in Nat /\ n + 1 <= m /\ n + 1 \in 1..m
        /\ with[n + 1] # <<>>
        /\ Reading(with[n + 1], capacity) = InWord(upto(n), words[n + 1], NUL)
    BY <1>1
  <2>2. /\ upto(n) \in Seq(Seq(Octet)) /\ words[n + 1] \in Seq(Octet) /\ Len(upto(n)) # capacity
        /\ upto(n + 1) = Append(upto(n), words[n + 1])
    BY <1>1, <1>3, <2>1
  <2> HIDE DEF T
  <2>3. ReaderTakes(upto(n), words[n + 1], 34, capacity)
    <3>1. 34 \in 1..255
      OBVIOUS
    <3> QED
      BY ONLY <2>2, <3>1, ReadsWritten
  <2>4. Reads(Reading(with[n + 1], capacity), Space, capacity) = Between(upto(n + 1))
    BY <2>1, <2>2, <2>3 DEF ReaderTakes
  <2> HIDE DEF m
  <2> QED
    BY <1>4, <2>1, <2>4
<1>7. T = Nat
  <2>1. T \in SUBSET Nat
    OBVIOUS
  <2> HIDE DEF T
  <2> QED
    BY <1>5, <1>6, <2>1, InductionOnNat
<1>8. Reading(with[m], capacity) = InWord(upto(m - 1), words[m], NUL)
  <2>1. m - 1 \in Nat /\ (m - 1) + 1 = m /\ (m - 1) + 1 <= m
    BY <1>1
  <2>2. m - 1 \in T
    BY <1>7, <2>1
  <2> HIDE DEF m
  <2> QED
    BY <2>1, <2>2
<1>9. /\ upto(m - 1) \in Seq(Seq(Octet)) /\ words[m] \in Seq(Octet)
      /\ Append(upto(m - 1), words[m]) = words
  <2>1. m - 1 \in Nat /\ (m - 1) + 1 = m /\ (m - 1) + 1 <= m /\ m \in 1..m
    BY <1>1
  <2> HIDE DEF m
  <2> QED
    BY <1>1, <1>3, <2>1
<1> DEFINE end == InWord(upto(m - 1), words[m], NUL)
<1>10. /\ end.words = upto(m - 1) /\ end.word = words[m] /\ end.open
       /\ end.quote = NUL /\ ~end.escaped /\ ~end.full
  <2>1. NUL \in Octet
    BY DEF NUL, Octet
  <2> QED
    BY <1>9, <2>1, InWordFields
<1>11. Tokens(Rewritten(words), capacity) = Outcome(end)
  BY <1>2, <1>8 DEF Tokens
<1> HIDE DEF end
<1>12. StatusAt(end) = "SH_OK" /\ WordsAt(end) = words
  BY <1>9, <1>10 DEF StatusAt, WordsAt
<1>13. Rewritten(words) \in Seq(Octet)
  BY <1>1, <1>2
<1> QED
  BY <1>11, <1>12, <1>13 DEF Outcome

-----------------------------------------------------------------------------
\* A set of numbers has a least one.
LEMMA LeastOfNat ==
  ASSUME NEW I \in SUBSET Nat, I # {}
  PROVE  Min(I) \in I
<1>1. PICK x \in I : TRUE
  OBVIOUS
<1> SUFFICES ASSUME \A y \in I : \E z \in I : ~(y <= z) PROVE FALSE
  BY DEF Min
<1> DEFINE T == {n \in Nat : \A y \in I : n <= y}
<1>2. 0 \in T
  OBVIOUS
<1>3. ASSUME NEW n \in T PROVE n + 1 \in T
  <2>1. n \in Nat /\ \A y \in I : n <= y /\ y \in Nat
    OBVIOUS
  <2>2. n \notin I
    BY <2>1
  <2>3. \A y \in I : n + 1 <= y
    BY <2>1, <2>2
  <2> QED
    BY <2>1, <2>3
<1>4. T = Nat
  <2>1. T \in SUBSET Nat
    OBVIOUS
  <2> HIDE DEF T
  <2> QED
    BY <1>2, <1>3, <2>1, InductionOnNat
<1>5. x + 1 \in T /\ x \in Nat
  BY <1>1, <1>4
<1> QED
  BY <1>1, <1>5

\* The elements of sequences in a row.
LEMMA ElementsConcat ==
  ASSUME NEW S, NEW s \in Seq(S), NEW t \in Seq(S)
  PROVE  ToSet(s \o t) = ToSet(s) \cup ToSet(t)
<1>1. /\ Len(s) \in Nat /\ DOMAIN s = 1..Len(s) /\ Len(t) \in Nat /\ DOMAIN t = 1..Len(t)
      /\ DOMAIN (s \o t) = 1..(Len(s) + Len(t))
      /\ \A i \in 1..Len(s) : (s \o t)[i] = s[i]
      /\ \A i \in 1..Len(t) : (s \o t)[Len(s) + i] = t[i]
  <2>1. s \o t \in Seq(S) /\ Len(s \o t) = Len(s) + Len(t)
    BY ConcatProperties
  <2>2. /\ \A i \in 1..Len(s) : (s \o t)[i] = s[i]
        /\ \A i \in 1..Len(t) : (s \o t)[Len(s) + i] = t[i]
    OBVIOUS
  <2> QED
    BY <2>1, <2>2, LenProperties
<1>2. ASSUME NEW i \in 1..(Len(s) + Len(t))
      PROVE  (s \o t)[i] \in ToSet(s) \cup ToSet(t)
  <2>1. CASE i <= Len(s)
    BY <1>1, <2>1 DEF ToSet
  <2>2. CASE ~(i <= Len(s))
    <3>1. i - Len(s) \in 1..Len(t) /\ Len(s) + (i - Len(s)) = i
      BY <1>1, <2>2
    <3>2. (s \o t)[i] = t[i - Len(s)]
      BY <1>1, <3>1
    <3> QED
      BY <1>1, <3>1, <3>2 DEF ToSet
  <2> QED
    BY <2>1, <2>2
<1>3. ASSUME NEW i \in 1..Len(s) PROVE s[i] \in ToSet(s \o t)
  BY <1>1 DEF ToSet
<1>4. ASSUME NEW i \in 1..Len(t) PROVE t[i] \in ToSet(s \o t)
  <2>1. Len(s) + i \in 1..(Len(s) + Len(t))
    BY <1>1
  <2> QED
    BY <1>1, <2>1 DEF ToSet
<1>5. ToSet(s \o t) \subseteq ToSet(s) \cup ToSet(t)
  <2>1. ToSet(s \o t) = {(s \o t)[i] : i \in 1..(Len(s) + Len(t))}
    BY <1>1 DEF ToSet
  <2> QED
    BY ONLY <1>2, <2>1
<1>6. ToSet(s) \subseteq ToSet(s \o t) /\ ToSet(t) \subseteq ToSet(s \o t)
  <2>1. ToSet(s) = {s[i] : i \in 1..Len(s)} /\ ToSet(t) = {t[i] : i \in 1..Len(t)}
    BY <1>1 DEF ToSet
  <2> QED
    BY ONLY <1>3, <1>4, <2>1
<1> QED
  BY ONLY <1>5, <1>6

LEMMA ElementsFlattened ==
  ASSUME NEW S, NEW ss \in Seq(Seq(S))
  PROVE  /\ FlattenSeq(ss) \in Seq(S)
         /\ ToSet(FlattenSeq(ss)) = UNION {ToSet(ss[i]) : i \in DOMAIN ss}
<1>1. FlattenSeq(ss) \in Seq(S) /\ Len(ss) \in Nat /\ DOMAIN ss = 1..Len(ss)
      /\ \A n \in 1..Len(ss) : ss[n] \in Seq(S)
  BY Flattened, ElementOfSeq, LenProperties
<1>2. CASE Len(ss) = 0
  <2>1. ss = <<>>
    BY <1>2, EmptySeq
  <2>2. FlattenSeq(ss) = <<>> /\ DOMAIN ss = {}
    BY <2>1 DEF FlattenSeq
  <2> QED
    BY <1>1, <2>2 DEF ToSet
<1>3. CASE Len(ss) # 0
  <2>1. PICK flat : /\ \A n \in 1..Len(ss) :
                        /\ flat[n] \in Seq(S)
                        /\ flat[n] = IF n = 1 THEN ss[n] ELSE flat[n - 1] \o ss[n]
                    /\ FlattenSeq(ss) = flat[Len(ss)]
    BY <1>3, FlattenSteps
  <2> DEFINE size == Len(ss)
             upto(n) == UNION {ToSet(ss[i]) : i \in 1..n}
             T == {n \in Nat : n \in 1..size => ToSet(flat[n]) = upto(n)}
  <2>2. 0 \in T
    OBVIOUS
  <2>3. ASSUME NEW n \in T PROVE n + 1 \in T
    <3> SUFFICES ASSUME n + 1 \in 1..size PROVE ToSet(flat[n + 1]) = upto(n + 1)
      OBVIOUS
    <3>1. n \in Nat /\ (n + 1) - 1 = n /\ (n + 1 = 1 <=> n = 0)
      <4>1. n \in Nat
        OBVIOUS
      <4> QED
        BY ONLY <4>1
    <3>2. upto(n + 1) = upto(n) \cup ToSet(ss[n + 1])
      <4>1. 1..(n + 1) = 1..n \cup {n + 1}
        BY <3>1
      <4> QED
        BY <4>1
    <3>3. CASE n = 0
      <4>1. flat[n + 1] = ss[n + 1]
        <5> HIDE DEF upto, T
        <5> QED
          BY <2>1, <3>1, <3>3
      <4>2. upto(n) = {}
        BY ONLY <3>3
      <4> HIDE DEF upto
      <4> QED
        BY ONLY <3>2, <4>1, <4>2
    <3>4. CASE n # 0
      <4>1. n \in 1..size /\ flat[n] \in Seq(S) /\ ss[n + 1] \in Seq(S)
            /\ flat[n + 1] = flat[n] \o ss[n + 1]
        <5>1. n + 1 \in 1..size /\ n \in 1..size
          BY ONLY <1>1, <3>1, <3>4, n + 1 \in 1..size
        <5> HIDE DEF upto, T
        <5> QED
          BY <1>1, <2>1, <3>1, <3>4, <5>1
      <4>2. ToSet(flat[n + 1]) = ToSet(flat[n]) \cup ToSet(ss[n + 1])
        BY <4>1, ElementsConcat
      <4> HIDE DEF upto
      <4> QED
        BY <3>2, <4>1, <4>2
    <3> QED
      BY <3>3, <3>4
  <2>4. T = Nat
    <3>1. T \in SUBSET Nat
      OBVIOUS
    <3> HIDE DEF T
    <3> QED
      BY <2>2, <2>3, <3>1, InductionOnNat
  <2>5. Len(ss) \in 1..Len(ss) /\ Len(ss) \in Nat
    BY <1>1, <1>3
  <2> QED
    BY <1>1, <2>1, <2>4, <2>5
<1> QED
  BY <1>2, <1>3

\* A value computed from the one before.
Chain(h, s0, F, m, S) ==
  /\ h = [n \in 1..m |-> h[n]] /\ h[1] = s0
  /\ \A n \in 1..m : h[n] \in S /\ (n # 1 => h[n] = F[h[n - 1]])

LEMMA RepeatedStep ==
  ASSUME NEW S, NEW s0 \in S, NEW m \in Nat \ {0}, NEW F, \A s \in S : F[s] \in S
  PROVE  \E h : Chain(h, s0, F, m, S)
<1> DEFINE Same == [n \in 1..(m - 1) |-> F]
<1>1. PICK g : Walk(g, s0, Same, m - 1, S)
  <2>1. StepsOn(Same, m - 1, S)
    BY DEF StepsOn
  <2>2. m - 1 \in Nat
    OBVIOUS
  <2> HIDE DEF Same
  <2> QED
    BY ONLY <2>1, <2>2, s0 \in S, StepsCompose, Zenon
<1> DEFINE h == [n \in 1..m |-> g[n - 1]]
<1>2. g[0] = s0 /\ \A n \in 0..(m - 1) : g[n] \in S
  BY <1>1 DEF Walk
<1>3. \A n \in 1..(m - 1) : g[n] = F[g[n - 1]]
  BY <1>1 DEF Walk
<1>4. ASSUME NEW n \in 1..m PROVE h[n] \in S /\ (n # 1 => h[n] = F[h[n - 1]])
  <2>1. n - 1 \in 0..(m - 1) /\ h[n] = g[n - 1]
    OBVIOUS
  <2>2. ASSUME n # 1 PROVE h[n] = F[h[n - 1]]
    <3>1. n - 1 \in 1..(m - 1) /\ n - 1 \in 1..m
      BY <2>2
    <3>2. h[n - 1] = g[(n - 1) - 1]
      BY <3>1
    <3> QED
      BY <1>3, <2>1, <3>1, <3>2
  <2> QED
    BY <1>2, <2>1, <2>2
<1>5. h[1] = s0
  BY <1>2
<1>6. h = [n \in 1..m |-> h[n]]
  OBVIOUS
<1> QED
  BY <1>4, <1>5, <1>6 DEF Chain

\* The first element.
LEMMA FirstAlone ==
  ASSUME NEW S, NEW s \in Seq(S), Len(s) # 0
  PROVE  SubSeq(s, 1, 1) = <<s[1]>>
<1>1. Len(s) \in Nat /\ 0 \in Nat /\ 0 + 1 <= Len(s) /\ 0 + 1 = 1
  BY LenProperties
<1>2. SubSeq(s, 1, 0 + 1) = Append(SubSeq(s, 1, 0), s[0 + 1])
  BY ONLY <1>1, s \in Seq(S), NextPrefix
<1>3. SubSeq(s, 1, 0) = <<>>
  BY SubSeqEmpty
<1>4. Append(<<>>, s[1]) = <<s[1]>>
  OBVIOUS
<1> QED
  BY ONLY <1>1, <1>2, <1>3, <1>4

-----------------------------------------------------------------------------
\* The states of the scanner of an unparsed line.
RawReader == [quote : {NUL} \cup Quotes, escaped : BOOLEAN]

LEMMA RawType ==
  ASSUME NEW s \in RawReader, NEW byte
  PROVE  RawByte(s, byte) \in RawReader
BY DEF RawReader, RawByte, NUL, Quotes

\* The recursive definition of RawReadings defines what it says.
LEMMA RawReadingsDef ==
  ASSUME NEW t, Len(t) \in Nat
  PROVE  /\ RawReadings(t) \in [0..Len(t) -> RawReader]
         /\ RawReadings(t)[0] = RawStart
         /\ \A n \in 1..Len(t) : RawReadings(t)[n] = RawByte(RawReadings(t)[n - 1], t[n])
<1> DEFINE F == [n \in 1..Len(t) |-> [s \in RawReader |-> RawByte(s, t[n])]]
<1>1. \A n \in 1..Len(t) : \A s \in RawReader : F[n][s] \in RawReader
  BY RawType
<1>2. RawStart \in RawReader
  BY DEF RawStart, RawReader
<1>3. PICK g : Walk(g, RawStart, F, Len(t), RawReader)
  <2>1. StepsOn(F, Len(t), RawReader)
    BY <1>1 DEF StepsOn
  <2>2. Len(t) \in Nat
    OBVIOUS
  <2> HIDE DEF F
  <2> QED
    BY ONLY <2>1, <2>2, <1>2, StepsCompose, Zenon
<1>4. ASSUME NEW n \in 1..Len(t) PROVE g[n] = RawByte(g[n - 1], t[n])
  <2>1. g[n - 1] \in RawReader
    <3>1. n - 1 \in 0..Len(t)
      OBVIOUS
    <3> HIDE DEF F
    <3> QED
      BY <1>3, <3>1 DEF Walk
  <2>2. F[n][g[n - 1]] = RawByte(g[n - 1], t[n])
    BY <2>1
  <2> HIDE DEF F
  <2> QED
    BY <1>3, <2>2 DEF Walk
<1> HIDE DEF F
<1> DEFINE f == [n \in 0..Len(t) |-> g[n]]
<1>5. f = [n \in 0..Len(t) |-> IF n = 0 THEN RawStart ELSE RawByte(f[n - 1], t[n])]
  <2>1. ASSUME NEW n \in 0..Len(t)
        PROVE  f[n] = IF n = 0 THEN RawStart ELSE RawByte(f[n - 1], t[n])
    <3>1. n = 0 \/ (n \in 1..Len(t) /\ f[n - 1] = g[n - 1])
      OBVIOUS
    <3> QED
      BY <1>3, <1>4, <3>1 DEF Walk
  <2> QED
    BY <2>1
<1> HIDE DEF f
<1>6. RawReadings(t)
        = [n \in 0..Len(t) |-> IF n = 0 THEN RawStart
                               ELSE RawByte(RawReadings(t)[n - 1], t[n])]
  BY <1>5 DEF RawReadings
<1> DEFINE r == RawReadings(t)
<1>7. /\ r = [n \in 0..Len(t) |-> r[n]]
      /\ r[0] = RawStart
      /\ \A n \in 1..Len(t) : r[n] = RawByte(r[n - 1], t[n])
  <2>1. r = [n \in 0..Len(t) |-> IF n = 0 THEN RawStart ELSE RawByte(r[n - 1], t[n])]
    BY <1>6
  <2> HIDE DEF r
  <2>2. \A n \in 0..Len(t) : r[n] = IF n = 0 THEN RawStart ELSE RawByte(r[n - 1], t[n])
    BY <2>1
  <2>3. r = [n \in 0..Len(t) |-> r[n]]
    BY <2>1
  <2> QED
    BY <2>2, <2>3
<1> HIDE DEF r
<1>8. \A n \in 0..Len(t) : r[n] \in RawReader
  <2> DEFINE T == {n \in Nat : n <= Len(t) => r[n] \in RawReader}
  <2>1. 0 \in T
    BY <1>2, <1>7
  <2>2. ASSUME NEW n \in T PROVE n + 1 \in T
    <3> SUFFICES ASSUME n + 1 <= Len(t) PROVE r[n + 1] \in RawReader
      OBVIOUS
    <3>1. n \in Nat /\ n + 1 \in 1..Len(t) /\ r[n] \in RawReader /\ (n + 1) - 1 = n
      OBVIOUS
    <3>2. r[n + 1] = RawByte(r[n], t[n + 1])
      BY <1>7, <3>1
    <3> QED
      BY <3>1, <3>2, RawType
  <2>3. T = Nat
    <3>1. T \in SUBSET Nat
      OBVIOUS
    <3> HIDE DEF T
    <3> QED
      BY <2>1, <2>2, <3>1, InductionOnNat
  <2> QED
    BY <2>3
<1> QED
  BY <1>7, <1>8 DEF r

-----------------------------------------------------------------------------
\* Between words a reader is in no quote and at no escape.
Settled(s) == ~s.open => s.quote = NUL /\ ~s.escaped

\* Both readers stand in the same quote, and at the same escape.
SameReading(s, raw) == s.quote = raw.quote /\ s.escaped = raw.escaped

\* They stay together: from s to t, the reader of words ends a word exactly when it
\* gets to a gap, and it is between words exactly where the scanner is at a gap.
Together(s, t, raw, byte) ==
  /\ Settled(t) /\ SameReading(t, RawByte(raw, byte))
  /\ ~t.open <=> IsSpace(byte) /\ raw = RawStart
  /\ t.open => t.words = s.words
  /\ ~t.open /\ s.open => Len(t.words) = Len(s.words) + 1
  /\ ~t.open /\ ~s.open => t.words = s.words

\* One byte, when neither is full and a backslash does not stand in single quotes.
LEMMA ReadTogether ==
  ASSUME NEW s \in Reader, NEW raw \in RawReader, NEW byte \in 1..255, NEW capacity,
         Settled(s), SameReading(s, raw), byte = Backslash => s.quote # SingleQuote,
         ~Reads(s, byte, capacity).full
  PROVE  Together(s, Reads(s, byte, capacity), raw, byte)
<1> DEFINE t == Reads(s, byte, capacity)
           q == s.quote
           e == s.escaped
<1> USE DEF Together
<1> SUFFICES Together(s, t, raw, byte)
  OBVIOUS
<1>1. /\ s.open \in BOOLEAN /\ e \in BOOLEAN /\ s.words \in Seq(Seq(Octet)) /\ s.word \in Seq(Octet)
      /\ s.full \in BOOLEAN
      /\ raw = [quote |-> q, escaped |-> e]
  BY DEF Reader, RawReader, SameReading
<1>2. ~s.full
  BY DEF Reads
<1>3. raw = RawStart <=> q = NUL /\ ~e
  BY <1>1 DEF RawStart
<1>4. t.escaped \in BOOLEAN /\ RawByte(raw, byte).escaped \in BOOLEAN
  <2>1. byte \in Octet
    BY DEF Octet
  <2>2. t \in Reader /\ RawByte(raw, byte) \in RawReader
    BY <2>1, ReadsType, RawType
  <2> HIDE DEF t
  <2> QED
    BY <2>2 DEF Reader, RawReader
<1>5. CASE ~s.open /\ IsSpace(byte)
  <2>1. t = s /\ q = NUL /\ ~e
    BY <1>5 DEF Reads, Settled
  <2>2. RawByte(raw, byte) = raw
    BY <1>1, <1>5, <2>1 DEF RawByte, IsSpace, Backslash, NUL, Quotes, SingleQuote, DoubleQuote, Space
  <2> QED
    BY <1>3, <1>5, <2>1, <2>2 DEF SameReading, Settled
<1>6. CASE ~(~s.open /\ IsSpace(byte))
  <2>1. t = Within([s EXCEPT !.open = TRUE], byte)
    BY <1>2, <1>6 DEF Reads, Reader
  <2>2. CASE e
    <3>1. t.open /\ t.quote = q /\ ~t.escaped /\ t.words = s.words
      BY <2>1, <2>2 DEF Within, Reader
    <3>2. RawByte(raw, byte).quote = q /\ ~RawByte(raw, byte).escaped
      BY <1>1, <2>2 DEF RawByte
    <3> HIDE DEF t
    <3> QED
      BY <1>3, <1>4, <2>2, <3>1, <3>2 DEF SameReading, Settled
  <2>3. CASE ~e /\ q = NUL /\ IsSpace(byte)
    <3>1. s.open
      BY <1>6, <2>3
    <3>2. ~t.open /\ t.quote = NUL /\ ~t.escaped /\ t.words = Append(s.words, s.word)
      BY <2>1, <2>3 DEF Within, Reader
    <3>3. RawByte(raw, byte) = raw
      BY <1>1, <2>3 DEF RawByte, IsSpace, Backslash, NUL, Quotes, SingleQuote, DoubleQuote, Space
    <3>4. Len(t.words) = Len(s.words) + 1
      BY <1>1, <3>2, AppendProperties
    <3>5. RawByte(raw, byte).quote = NUL /\ ~RawByte(raw, byte).escaped
      BY <1>1, <2>3, <3>3
    <3> HIDE DEF t
    <3> QED
      BY <1>3, <1>4, <2>3, <3>1, <3>2, <3>4, <3>5 DEF SameReading, Settled
  <2>4. CASE ~e /\ ~(q = NUL /\ IsSpace(byte))
    <3>1. t.open /\ t.words = s.words
      BY <2>1, <2>4 DEF Within, Reader
    <3>2. t.quote = RawByte(raw, byte).quote /\ t.escaped = RawByte(raw, byte).escaped
      <4>1. CASE byte = Backslash
        BY <1>1, <2>1, <2>4, <4>1 DEF Within, Reader, RawByte
      <4>2. CASE byte # Backslash /\ byte \in Quotes /\ q = NUL
        BY <1>1, <2>1, <2>4, <4>2 DEF Within, Reader, RawByte
      <4>3. CASE byte # Backslash /\ ~(byte \in Quotes /\ q = NUL) /\ byte = q
        <5>1. q # NUL
          BY <4>3 DEF NUL
        <5> QED
          BY <1>1, <2>1, <2>4, <4>3, <5>1 DEF Within, Reader, RawByte
      <4>4. CASE byte # Backslash /\ ~(byte \in Quotes /\ q = NUL) /\ byte # q
        BY <1>1, <2>1, <2>4, <4>4 DEF Within, Reader, RawByte
      <4> QED
        BY <4>1, <4>2, <4>3, <4>4
    <3> QED
      BY <1>3, <2>4, <3>1, <3>2 DEF SameReading, Settled
  <2> QED
    BY <1>1, <2>2, <2>3, <2>4
<1> QED
  BY <1>5, <1>6

-----------------------------------------------------------------------------
\* How the words of a line are looked up, one after the other.
LEMMA ResolvedSteps ==
  ASSUME NEW tables, NEW words, Len(words) \in Nat
  PROVE  \E found :
           /\ \A i \in 1..Len(words) :
                found[i] = IF i = 1 THEN Child(FlattenSeq(tables), words[1])
                           ELSE IF found[i - 1] = <<>> THEN <<>>
                           ELSE Child(found[i - 1][1].sub, words[i])
           /\ found = [i \in 1..Len(words) |-> found[i]]
           /\ ResolvedPath(tables, words) = FlattenSeq(found)
<1> DEFINE size == Len(words)
           More(g, i) == IF i = 1 THEN Child(FlattenSeq(tables), words[1])
                         ELSE IF g[i - 1] = <<>> THEN <<>>
                         ELSE Child(g[i - 1][1].sub, words[i])
           Upto(g, m) == \A i \in 1..m : g[i] = More(g, i)
           T == {m \in Nat : \E g : Upto(g, m)}
<1>1. 0 \in T
  <2>1. Upto(<<>>, 0)
    OBVIOUS
  <2> QED
    BY <2>1
<1>2. ASSUME NEW m \in T PROVE m + 1 \in T
  <2>1. m \in Nat
    OBVIOUS
  <2>2. PICK g : Upto(g, m)
    OBVIOUS
  <2> DEFINE h == [i \in 1..(m + 1) |-> IF i <= m THEN g[i] ELSE More(g, m + 1)]
  <2>3. ASSUME NEW i \in 1..(m + 1) PROVE h[i] = More(h, i)
    <3>1. i = 1 \/ h[i - 1] = g[i - 1]
      BY <2>1
    <3>2. More(h, i) = More(g, i)
      <4> HIDE DEF h
      <4> QED
        BY <3>1
    <3> HIDE DEF More
    <3>3. CASE i <= m
      <4>1. h[i] = g[i] /\ i \in 1..m
        BY <2>1, <3>3
      <4> QED
        BY <2>2, <3>2, <4>1
    <3>4. CASE i = m + 1
      <4>1. h[i] = More(g, m + 1)
        BY <2>1, <3>4
      <4> QED
        BY <3>2, <3>4, <4>1
    <3> QED
      BY <2>1, <3>3, <3>4
  <2>4. Upto(h, m + 1)
    BY <2>3
  <2> HIDE DEF h, Upto
  <2> QED
    BY <2>1, <2>4
<1>3. T = Nat
  <2>1. T \in SUBSET Nat
    OBVIOUS
  <2> HIDE DEF T
  <2> QED
    BY <1>1, <1>2, <2>1, InductionOnNat
<1>4. PICK g : Upto(g, size)
  <2> HIDE DEF Upto
  <2> QED
    BY <1>3
<1> DEFINE f == [i \in 1..size |-> g[i]]
           found == CHOOSE at :
             at = [i \in 1..size |->
                     IF i = 1 THEN Child(FlattenSeq(tables), words[1])
                     ELSE IF at[i - 1] = <<>> THEN <<>>
                     ELSE Child(at[i - 1][1].sub, words[i])]
<1>5. f = [i \in 1..size |->
             IF i = 1 THEN Child(FlattenSeq(tables), words[1])
             ELSE IF f[i - 1] = <<>> THEN <<>> ELSE Child(f[i - 1][1].sub, words[i])]
  <2>1. ASSUME NEW i \in 1..size PROVE g[i] = More(f, i)
    <3>1. i = 1 \/ f[i - 1] = g[i - 1]
      OBVIOUS
    <3> HIDE DEF f
    <3> QED
      BY <1>4, <3>1
  <2>2. \A i \in 1..size : f[i] = g[i]
    OBVIOUS
  <2>3. f = [i \in 1..size |-> f[i]]
    BY <2>2
  <2> HIDE DEF f
  <2>4. f = [i \in 1..size |-> More(f, i)]
    <3> HIDE DEF More
    <3> QED
      BY ONLY <2>1, <2>2, <2>3
  <2> QED
    BY ONLY <2>4
<1>6. found = [i \in 1..size |->
                 IF i = 1 THEN Child(FlattenSeq(tables), words[1])
                 ELSE IF found[i - 1] = <<>> THEN <<>>
                 ELSE Child(found[i - 1][1].sub, words[i])]
  <2> HIDE DEF f
  <2> QED
    BY <1>5
<1>7. ResolvedPath(tables, words) = FlattenSeq(found)
  BY DEF ResolvedPath
<1> HIDE DEF found
<1>8. /\ \A i \in 1..Len(words) :
           found[i] = IF i = 1 THEN Child(FlattenSeq(tables), words[1])
                      ELSE IF found[i - 1] = <<>> THEN <<>>
                      ELSE Child(found[i - 1][1].sub, words[i])
      /\ found = [i \in 1..Len(words) |-> found[i]]
  BY <1>6
<1> QED
  BY <1>7, <1>8

\* find_child finds a command whose name no other has, and nothing in no table.
LEMMA ChildFound ==
  ASSUME NEW S, NEW table \in Seq(S), NEW cmd \in ToSet(table),
         \A c \in ToSet(table) : c.name = cmd.name => c = cmd
  PROVE  Child(table, cmd.name) = <<cmd>>
<1> DEFINE I == {i \in 1..Len(table) : table[i].name = cmd.name}
           i == IF I # {} THEN Min(I) ELSE 0
<1>1. Len(table) \in Nat /\ DOMAIN table = 1..Len(table)
  BY LenProperties
<1>2. I # {} /\ I \in SUBSET Nat
  BY <1>1 DEF ToSet
<1>3. i \in I
  <2> HIDE DEF I
  <2> QED
    BY <1>2, LeastOfNat
<1>4. Child(table, cmd.name) = IF i = 0 THEN <<>> ELSE <<table[i]>>
  BY DEF Child, SelectInSeq
<1> HIDE DEF i
<1>5. i # 0 /\ table[i] \in ToSet(table) /\ table[i].name = cmd.name
  BY <1>1, <1>3 DEF ToSet
<1> QED
  BY <1>4, <1>5

LEMMA NoChild == ASSUME NEW name PROVE Child(<<>>, name) = <<>>
<1>1. {i \in 1..Len(<<>>) : <<>>[i].name = name} = {}
  OBVIOUS
<1> QED
  BY <1>1 DEF Child, SelectInSeq

\* The levels of a tree.
Subtables(cmds) == {cmd.sub : cmd \in {c \in cmds : IsParent(c)}}
AllOf(tables) == UNION {ToSet(table) : table \in tables}

LEMMA TreeLevels ==
  ASSUME NEW C, \A cmd \in C : cmd.sub \in Seq(C), NEW table \in Seq(C)
  PROVE  /\ TablesAt(table)[1] = {table}
         /\ \A d \in 2..(MaxDepth + 1) :
              /\ TablesAt(table)[d - 1] \in SUBSET Seq(C)
              /\ TablesAt(table)[d] = Subtables(AllOf(TablesAt(table)[d - 1]))
<1> DEFINE m == MaxDepth + 1
           S == SUBSET Seq(C)
           F == [tables \in S |-> Subtables(AllOf(tables))]
<1>1. m \in Nat \ {0} /\ {table} \in S
  BY MaxDepthAssumption
<1>2. ASSUME NEW tables \in S PROVE F[tables] \in S
  <2>1. AllOf(tables) \subseteq C
    <3>1. ASSUME NEW t \in tables PROVE ToSet(t) \subseteq C
      <4>1. t \in Seq(C)
        OBVIOUS
      <4> QED
        BY <4>1, ElementOfSeq, LenProperties DEF ToSet
    <3> QED
      BY <3>1 DEF AllOf
  <2>2. Subtables(AllOf(tables)) \subseteq Seq(C)
    BY <2>1 DEF Subtables
  <2> QED
    BY <2>2
<1>3. PICK h : /\ h = [n \in 1..m |-> h[n]] /\ h[1] = {table}
               /\ \A n \in 1..m : h[n] \in S /\ (n # 1 => h[n] = F[h[n - 1]])
  <2> DEFINE first == {table}
  <2>1. first \in S /\ m \in Nat \ {0} /\ \A s \in S : F[s] \in S
    BY <1>1, <1>2
  <2> HIDE DEF m, S, F, first
  <2>2. \E h : Chain(h, first, F, m, S)
    BY ONLY <2>1, RepeatedStep
  <2> QED
    BY <2>2 DEF first, Chain
<1> DEFINE Next1(at, depth) ==
             IF depth = 1 THEN {table}
             ELSE {cmd.sub : cmd \in {c \in UNION {ToSet(t) : t \in at[depth - 1]} : IsParent(c)}}
           chosen == CHOOSE at : at = [depth \in 1..m |-> Next1(at, depth)]
<1>4. ASSUME NEW n \in 1..m PROVE h[n] = Next1(h, n)
  <2>1. CASE n = 1
    BY <1>3, <2>1
  <2>2. CASE n # 1
    <3>1. n - 1 \in 1..m
      BY <1>1, <2>2
    <3>2. h[n] = F[h[n - 1]] /\ h[n - 1] \in S
      BY <1>3, <2>2, <3>1
    <3> QED
      BY <2>2, <3>2 DEF Subtables, AllOf
  <2> QED
    BY <2>1, <2>2
<1>5. h = [depth \in 1..m |-> Next1(h, depth)]
  <2> HIDE DEF Next1, m
  <2> QED
    BY ONLY <1>3, <1>4
<1>6. chosen = [depth \in 1..m |-> Next1(chosen, depth)]
  <2> HIDE DEF Next1, m
  <2> QED
    BY ONLY <1>5
<1>7. TablesAt(table) = chosen
  BY DEF TablesAt
<1> HIDE DEF chosen
<1>8. \A d \in 1..m : chosen[d] = Next1(chosen, d)
  <2> HIDE DEF Next1, m
  <2> QED
    BY ONLY <1>6
<1>13. chosen[1] = {table}
  <2>1. 1 \in 1..m
    BY <1>1
  <2>2. chosen[1] = Next1(chosen, 1)
    BY <1>8, <2>1
  <2> QED
    BY <2>2
<1> HIDE DEF F
<1> DEFINE T == {n \in Nat : n \in 1..m => chosen[n] \in S}
<1>9. ASSUME NEW d \in 2..m PROVE chosen[d] = Subtables(AllOf(chosen[d - 1]))
  <2>1. d \in 1..m /\ d # 1
    OBVIOUS
  <2> QED
    BY <1>8, <2>1 DEF Subtables, AllOf
<1>10. 0 \in T
  OBVIOUS
<1>11. ASSUME NEW n \in T PROVE n + 1 \in T
  <2> SUFFICES ASSUME n + 1 \in 1..m PROVE chosen[n + 1] \in S
    OBVIOUS
  <2>1. n \in Nat
    OBVIOUS
  <2>2. CASE n = 0
    BY <1>1, <1>13, <2>2
  <2>3. CASE n # 0
    <3>1. n + 1 \in 2..m /\ (n + 1) - 1 = n /\ n \in 1..m
      BY <1>1, <2>1, <2>3
    <3>2. chosen[n] \in S /\ chosen[n + 1] = Subtables(AllOf(chosen[n]))
      BY <1>9, <3>1
    <3> QED
      BY <1>2, <3>2 DEF F
  <2> QED
    BY <2>2, <2>3
<1>12. T = Nat
  <2>1. T \in SUBSET Nat
    OBVIOUS
  <2> HIDE DEF T
  <2> QED
    BY <1>10, <1>11, <2>1, InductionOnNat
<1>14. \A d \in 2..m : d - 1 \in 1..m /\ d - 1 \in Nat
  BY <1>1
<1> QED
  BY <1>7, <1>9, <1>12, <1>13, <1>14

\* In accepted tables no two roots have the same name.
LEMMA RootsDistinct ==
  ASSUME NEW tables, NEW builtins, AcceptsSets(tables, builtins),
         NEW i \in DOMAIN tables, NEW j \in DOMAIN tables,
         NEW c \in ToSet(tables[i]), NEW d \in ToSet(tables[j]), c.name = d.name
  PROVE  c = d
<1>1. PICK a \in DOMAIN tables[i] : c = tables[i][a]
  BY DEF ToSet
<1>2. PICK b \in DOMAIN tables[j] : d = tables[j][b]
  BY DEF ToSet
<1>3. CASE i # j
  BY <1>1, <1>2, <1>3 DEF AcceptsSets
<1>4. CASE i = j
  <2>1. \A x, y \in DOMAIN tables[i] : x # y => tables[i][x].name # tables[i][y].name
    BY DEF AcceptsSets, IsTree, IsTable
  <2> QED
    BY <1>1, <1>2, <1>4, <2>1
<1> QED
  BY <1>3, <1>4

\* Induction over the sequences of elements of S.
LEMMA InductionOnSeq ==
  ASSUME NEW S, NEW T, <<>> \in T, \A s \in Seq(S) : s \in T => \A e \in S : Append(s, e) \in T
  PROVE  Seq(S) \subseteq T
<1> DEFINE N == {n \in Nat : \A s \in Seq(S) : Len(s) = n => s \in T}
<1>1. 0 \in N
  BY EmptySeq
<1>2. ASSUME NEW n \in N PROVE n + 1 \in N
  <2> SUFFICES ASSUME NEW s \in Seq(S), Len(s) = n + 1 PROVE s \in T
    OBVIOUS
  <2>1. n \in Nat
    OBVIOUS
  <2>2. Len(s) # 0
    BY <2>1
  <2>3. s # <<>>
    BY <2>2, EmptySeq
  <2>4. PICK r \in Seq(S), e \in S : s = Append(r, e)
    BY <2>3, SequenceEmptyOrAppend
  <2>5. Len(r) = n
    BY <2>1, <2>4, AppendProperties, LenProperties
  <2> QED
    BY <2>4, <2>5
<1>3. N = Nat
  <2>1. N \in SUBSET Nat
    OBVIOUS
  <2> HIDE DEF N
  <2> QED
    BY <1>1, <1>2, <2>1, InductionOnNat
<1> QED
  BY <1>3, LenProperties

\* Only goes by what of the set is in the sequence.
LEMMA OnlyAgrees ==
  ASSUME NEW S, NEW s \in Seq(S), NEW T, NEW U, S \cap T = S \cap U
  PROVE  Only(s, T) = Only(s, U)
<1> DEFINE Same == {q \in Seq(S) : Only(q, T) = Only(q, U)}
<1>1. \A V : Only(<<>>, V) = <<>>
  <2>1. Len(<<>>) = 0 /\ 0 \in Nat
    OBVIOUS
  <2> QED
    BY <2>1, OnlyKept
<1>2. <<>> \in Same
  BY <1>1, EmptySeq
<1>3. ASSUME NEW q \in Seq(S), q \in Same, NEW e \in S PROVE Append(q, e) \in Same
  <2>1. Append(q, e) \in Seq(S)
    BY AppendProperties
  <2>2. (e \in T <=> e \in U) /\ q \in Seq(S) /\ Only(q, T) = Only(q, U)
    BY <1>3
  <2>3. /\ Only(Append(q, e), T) = IF e \in T THEN Append(Only(q, T), e) ELSE Only(q, T)
        /\ Only(Append(q, e), U) = IF e \in U THEN Append(Only(q, U), e) ELSE Only(q, U)
    BY <2>2, OnlyAppend
  <2>4. Only(Append(q, e), T) = Only(Append(q, e), U)
    BY <2>2, <2>3
  <2> QED
    BY <2>1, <2>4
<1>4. Seq(S) \subseteq Same
  <2> HIDE DEF Same
  <2> QED
    BY <1>2, <1>3, InductionOnSeq
<1> QED
  BY <1>4

\* What it keeps is what of the set is in the sequence, once if it is there once.
Distinct(s) == \A i, j \in 1..Len(s) : s[i] = s[j] => i = j

LEMMA AppendElements ==
  ASSUME NEW S, NEW s \in Seq(S), NEW e \in S
  PROVE  /\ Append(s, e) \in Seq(S) /\ Len(Append(s, e)) = Len(s) + 1 /\ Len(s) \in Nat
         /\ ToSet(Append(s, e)) = ToSet(s) \cup {e}
         /\ Distinct(Append(s, e)) <=> Distinct(s) /\ e \notin ToSet(s)
<1> DEFINE t == Append(s, e)
           N == Len(s)
<1>1. /\ N \in Nat /\ t \in Seq(S) /\ Len(t) = N + 1 /\ t[N + 1] = e
      /\ \A n \in 1..N : t[n] = s[n]
      /\ DOMAIN s = 1..N /\ DOMAIN t = 1..(N + 1)
  BY AppendProperties, LenProperties
<1> HIDE DEF t, N
<1>2. \A n \in 1..(N + 1) : n \in 1..N \/ n = N + 1
  BY <1>1
<1>3. ToSet(t) = ToSet(s) \cup {e}
  <2>1. N + 1 \in 1..(N + 1) /\ 1..N \subseteq 1..(N + 1)
    BY <1>1
  <2> QED
    BY <1>1, <1>2, <2>1 DEF ToSet
<1>4. Distinct(t) <=> Distinct(s) /\ e \notin ToSet(s)
  <2>1. Distinct(s) <=> \A i, j \in 1..N : s[i] = s[j] => i = j
    BY DEF Distinct, N
  <2>2. Distinct(t) <=> \A i, j \in 1..(N + 1) : t[i] = t[j] => i = j
    BY <1>1 DEF Distinct
  <2>3. e \in ToSet(s) <=> \E i \in 1..N : s[i] = e
    BY <1>1 DEF ToSet
  <2> QED
    BY <1>1, <2>1, <2>2, <2>3, <1>2
<1> QED
  BY <1>1, <1>3, <1>4 DEF t, N

LEMMA OnlyElements ==
  ASSUME NEW S, NEW s \in Seq(S), NEW T
  PROVE  /\ ToSet(Only(s, T)) = ToSet(s) \cap T
         /\ Distinct(s) => Distinct(Only(s, T))
<1> DEFINE Good == {q \in Seq(S) : /\ ToSet(Only(q, T)) = ToSet(q) \cap T
                                   /\ Distinct(q) => Distinct(Only(q, T))}
<1>1. <<>> \in Good
  <2>1. Only(<<>>, T) = <<>>
    <3>1. Len(<<>>) = 0 /\ 0 \in Nat
      OBVIOUS
    <3> QED
      BY <3>1, OnlyKept
  <2>2. ToSet(<<>>) = {} /\ Distinct(<<>>) /\ <<>> \in Seq(S)
    BY DEF ToSet, Distinct
  <2> QED
    BY <2>1, <2>2
<1>2. ASSUME NEW q \in Seq(S), q \in Good, NEW e \in S PROVE Append(q, e) \in Good
  <2>1. /\ Only(q, T) \in Seq(S)
        /\ Only(Append(q, e), T) = IF e \in T THEN Append(Only(q, T), e) ELSE Only(q, T)
    <3>1. Only(q, T) \in Seq(S \cap T)
      BY OnlyType
    <3>2. Only(q, T) \in Seq(S)
      BY <3>1, SeqMonotonic
    <3> QED
      BY <3>2, OnlyAppend
  <2>2. ToSet(Only(q, T)) = ToSet(q) \cap T /\ (Distinct(q) => Distinct(Only(q, T)))
    BY <1>2
  <2>3. /\ Append(q, e) \in Seq(S) /\ ToSet(Append(q, e)) = ToSet(q) \cup {e}
        /\ Distinct(Append(q, e)) => Distinct(q) /\ e \notin ToSet(q)
    BY AppendElements
  <2>4. CASE e \in T
    <3>1. /\ ToSet(Append(Only(q, T), e)) = ToSet(Only(q, T)) \cup {e}
          /\ Distinct(Only(q, T)) /\ e \notin ToSet(Only(q, T))
               => Distinct(Append(Only(q, T), e))
      BY <2>1, AppendElements
    <3> QED
      BY <2>1, <2>2, <2>3, <2>4, <3>1
  <2>5. CASE e \notin T
    BY <2>1, <2>2, <2>3, <2>5
  <2> QED
    BY <2>4, <2>5
<1>3. Seq(S) \subseteq Good
  <2> HIDE DEF Good
  <2> QED
    BY <1>1, <1>2, InductionOnSeq
<1> QED
  BY <1>3

-----------------------------------------------------------------------------
\* A table registration accepts: names, each once.
Named(table) ==
  /\ \A i \in 1..Len(table) : IsName(table[i].name)
  /\ \A i, j \in 1..Len(table) : table[i].name = table[j].name => i = j

\* Candidates that stand for themselves: words, each once.
NoSpace(w) == \A i \in 1..Len(w) : ~IsSpace(w[i])
Tellable(names) ==
  Distinct(names) /\ \A i \in 1..Len(names) : names[i] # <<>> /\ NoSpace(names[i])

LEMMA VisibleTellable ==
  ASSUME NEW S, NEW table \in Seq(S), Named(table)
  PROVE  /\ Tellable(Visible(table))
         /\ ToSet(Visible(table))
              = {cmd.name : cmd \in {c \in ToSet(table) : ~Flag(c, "HIDDEN")}}
<1> DEFINE T == {cmd \in ToSet(table) : ~Flag(cmd, "HIDDEN")}
           shown == Only(table, T)
           names == Visible(table)
<1>1. Len(table) \in Nat /\ ToSet(table) = {table[i] : i \in 1..Len(table)}
  BY LenProperties DEF ToSet
<1>2. \A c, d \in ToSet(table) : IsName(c.name) /\ (c.name = d.name => c = d)
  BY <1>1 DEF Named
<1>3. Distinct(table)
  BY DEF Distinct, Named
<1>4. ToSet(shown) = T /\ Distinct(shown) /\ shown \in Seq(S)
  <2>1. ToSet(table) \cap T = T
    OBVIOUS
  <2>2. shown \in Seq(S)
    <3>1. S \cap T \subseteq S
      OBVIOUS
    <3> HIDE DEF T
    <3>2. shown \in Seq(S \cap T)
      BY OnlyType
    <3> HIDE DEF shown
    <3> QED
      BY <3>1, <3>2, SeqMonotonic
  <2> HIDE DEF T
  <2> QED
    BY <1>3, <2>1, <2>2, OnlyElements
<1>5. names = [i \in DOMAIN shown |-> shown[i].name]
  BY DEF Visible
<1> HIDE DEF shown, names
<1>6. Len(shown) \in Nat /\ DOMAIN shown = 1..Len(shown) /\ T = {shown[i] : i \in 1..Len(shown)}
  BY <1>4, LenProperties DEF ToSet
<1>7. Len(names) = Len(shown) /\ DOMAIN names = 1..Len(shown)
  <2> DEFINE k == Len(shown)
  <2>1. names = [i \in 1..k |-> shown[i].name] /\ k \in Nat
    BY <1>5, <1>6
  <2> HIDE DEF k
  <2> QED
    BY <2>1 DEF k
<1>8. \A i \in 1..Len(shown) : names[i] = shown[i].name /\ shown[i] \in T
  BY <1>5, <1>6
<1>9. Distinct(names)
  <2> SUFFICES ASSUME NEW i \in 1..Len(shown), NEW j \in 1..Len(shown), names[i] = names[j]
               PROVE  i = j
    BY <1>7 DEF Distinct
  <2>1. shown[i] = shown[j]
    BY <1>2, <1>8
  <2> QED
    BY <1>4, <2>1 DEF Distinct
<1>10. ASSUME NEW i \in 1..Len(names) PROVE names[i] # <<>> /\ NoSpace(names[i])
  <2>1. IsName(names[i])
    BY <1>2, <1>7, <1>8
  <2> DEFINE name == names[i]
  <2>2. name = shown[i].name
    BY <1>7, <1>8
  <2> QED
    BY <2>1 DEF IsName, NoSpace
<1>11. ToSet(names) = {cmd.name : cmd \in T}
  <2>1. ToSet(names) = {names[i] : i \in 1..Len(shown)}
    BY <1>7 DEF ToSet
  <2> HIDE DEF T
  <2> QED
    BY <1>6, <1>8, <2>1
<1> QED
  BY <1>9, <1>10, <1>11 DEF Tellable, names, T

LEMMA NoneVisible == Visible(<<>>) = <<>>
<1>1. Len(<<>>) = 0 /\ 0 \in Nat
  OBVIOUS
<1>2. \A T : Only(<<>>, T) = <<>>
  BY <1>1, OnlyKept
<1>3. [i \in DOMAIN <<>> |-> <<>>[i].name] = <<>>
  OBVIOUS
<1> QED
  BY <1>2, <1>3 DEF Visible

\* Looking a name up in such a table, or in none of that name.
LEMMA ChildNamed ==
  ASSUME NEW S, NEW table \in Seq(S), Named(table), NEW name
  PROVE  \/ \E cmd \in ToSet(table) : cmd.name = name /\ Child(table, name) = <<cmd>>
         \/ /\ \A cmd \in ToSet(table) : cmd.name # name
            /\ Child(table, name) = <<>>
<1>1. Len(table) \in Nat /\ ToSet(table) = {table[i] : i \in 1..Len(table)}
  BY LenProperties DEF ToSet
<1>2. CASE \E cmd \in ToSet(table) : cmd.name = name
  <2>1. PICK cmd \in ToSet(table) : cmd.name = name
    BY <1>2
  <2>2. \A c \in ToSet(table) : c.name = cmd.name => c = cmd
    BY <1>1 DEF Named
  <2>3. Child(table, cmd.name) = <<cmd>>
    BY <2>2, ChildFound
  <2> QED
    BY <2>1, <2>3
<1>3. CASE \A cmd \in ToSet(table) : cmd.name # name
  <2>1. {i \in 1..Len(table) : table[i].name = name} = {}
    BY <1>1, <1>3
  <2> QED
    BY <1>3, <2>1 DEF Child, SelectInSeq
<1> QED
  BY <1>2, <1>3

\* Tables without a name in common make one such table.
LEMMA NamedConcat ==
  ASSUME NEW S, NEW s \in Seq(S), Named(s), NEW t \in Seq(S), Named(t),
         \A c \in ToSet(s), d \in ToSet(t) : c.name # d.name
  PROVE  Named(s \o t) /\ s \o t \in Seq(S)
<1> DEFINE u == s \o t
<1>1. /\ u \in Seq(S) /\ Len(u) = Len(s) + Len(t)
      /\ \A i \in 1..(Len(s) + Len(t)) : u[i] = IF i <= Len(s) THEN s[i] ELSE t[i - Len(s)]
  BY ConcatProperties
<1>2. /\ Len(s) \in Nat /\ Len(t) \in Nat
      /\ \A i \in 1..Len(s) : s[i] \in ToSet(s)
      /\ \A i \in 1..Len(t) : t[i] \in ToSet(t)
  BY LenProperties DEF ToSet
<1> HIDE DEF u
<1>3. \A i \in 1..Len(u) : \/ i \in 1..Len(s) /\ u[i] = s[i]
                           \/ i - Len(s) \in 1..Len(t) /\ u[i] = t[i - Len(s)]
  BY <1>1, <1>2
<1>4. \A i \in 1..Len(u) : IsName(u[i].name)
  BY <1>3 DEF Named
<1>5. ASSUME NEW i \in 1..Len(u), NEW j \in 1..Len(u), u[i].name = u[j].name
      PROVE  i = j
  <2>1. CASE i \in 1..Len(s) /\ u[i] = s[i]
    <3>1. CASE j \in 1..Len(s) /\ u[j] = s[j]
      BY <1>5, <2>1, <3>1 DEF Named
    <3>2. CASE j - Len(s) \in 1..Len(t) /\ u[j] = t[j - Len(s)]
      BY <1>2, <1>5, <2>1, <3>2
    <3> QED
      BY <1>3, <3>1, <3>2
  <2>2. CASE i - Len(s) \in 1..Len(t) /\ u[i] = t[i - Len(s)]
    <3>1. CASE j \in 1..Len(s) /\ u[j] = s[j]
      BY <1>2, <1>5, <2>2, <3>1
    <3>2. CASE j - Len(s) \in 1..Len(t) /\ u[j] = t[j - Len(s)]
      <4>1. i - Len(s) = j - Len(s)
        BY <1>5, <2>2, <3>2 DEF Named
      <4> QED
        BY <1>2, <4>1
    <3> QED
      BY <1>3, <3>1, <3>2
  <2> QED
    BY <1>3, <2>1, <2>2
<1> QED
  BY <1>1, <1>4, <1>5 DEF Named, u

LEMMA TableNamed ==
  ASSUME NEW S, NEW table \in Seq(S), NEW reserved, IsTable(table, reserved)
  PROVE  Named(table) /\ \A cmd \in ToSet(table) : cmd.name \notin reserved
<1>1. DOMAIN table = 1..Len(table) /\ ToSet(table) = {table[i] : i \in 1..Len(table)}
  BY LenProperties DEF ToSet
<1>2. \A i \in 1..Len(table) : IsName(table[i].name) /\ table[i].name \notin reserved
  BY <1>1 DEF IsTable
<1>3. \A i, j \in 1..Len(table) : i # j => table[i].name # table[j].name
  BY <1>1 DEF IsTable
<1> QED
  BY <1>1, <1>2, <1>3 DEF Named

\* Several of them in a row, no two with a name in common.
LEMMA NamedFlattened ==
  ASSUME NEW S, NEW ss \in Seq(Seq(S)), \A i \in 1..Len(ss) : Named(ss[i]),
         \A i, j \in 1..Len(ss) : i # j =>
           \A c \in ToSet(ss[i]), d \in ToSet(ss[j]) : c.name # d.name
  PROVE  FlattenSeq(ss) \in Seq(S) /\ Named(FlattenSeq(ss))
<1>1. FlattenSeq(ss) \in Seq(S) /\ Len(ss) \in Nat /\ \A n \in 1..Len(ss) : ss[n] \in Seq(S)
  BY Flattened, ElementOfSeq, LenProperties
<1>2. CASE Len(ss) = 0
  <2>1. FlattenSeq(ss) = <<>> /\ Len(<<>>) = 0
    BY <1>2, EmptySeq DEF FlattenSeq
  <2> QED
    BY <1>1, <2>1 DEF Named
<1>3. CASE Len(ss) # 0
  <2>1. PICK flat : /\ \A n \in 1..Len(ss) :
                        /\ flat[n] \in Seq(S)
                        /\ flat[n] = IF n = 1 THEN ss[n] ELSE flat[n - 1] \o ss[n]
                    /\ FlattenSeq(ss) = flat[Len(ss)]
    BY <1>3, FlattenSteps
  <2> DEFINE size == Len(ss)
             upto(n) == UNION {ToSet(ss[i]) : i \in 1..n}
             T == {n \in Nat : n \in 1..size =>
                                 Named(flat[n]) /\ ToSet(flat[n]) \subseteq upto(n)}
  <2>2. 0 \in T
    OBVIOUS
  <2>3. ASSUME NEW n \in T PROVE n + 1 \in T
    <3> SUFFICES ASSUME n + 1 \in 1..size
                 PROVE  Named(flat[n + 1]) /\ ToSet(flat[n + 1]) \subseteq upto(n + 1)
      OBVIOUS
    <3>1. /\ n \in Nat /\ (n + 1) - 1 = n /\ (n + 1 = 1 <=> n = 0)
          /\ (n # 0 => n \in 1..size)
      <4>1. n \in Nat
        OBVIOUS
      <4> QED
        BY ONLY <1>1, <4>1, n + 1 \in 1..size
    <3> DEFINE m == n + 1
               t == ss[m]
    <3>2. /\ m \in 1..size /\ t \in Seq(S) /\ Named(t) /\ ToSet(t) \subseteq upto(m)
          /\ upto(n) \subseteq upto(m)
      <4>1. 1..n \subseteq 1..m /\ m \in 1..m
        BY <3>1
      <4> QED
        BY <1>1, <4>1
    <3>3. flat[m] = IF n = 0 THEN t ELSE flat[n] \o t
      <4>1. m \in 1..size /\ m - 1 = n /\ (m = 1 <=> n = 0)
        BY <3>1
      <4> HIDE DEF T, m
      <4> QED
        BY <2>1, <4>1
    <3>4. CASE n = 0
      BY <3>2, <3>3, <3>4
    <3>5. CASE n # 0
      <4>1. flat[n] \in Seq(S) /\ Named(flat[n]) /\ ToSet(flat[n]) \subseteq upto(n)
        BY <2>1, <3>1, <3>5
      <4>2. ASSUME NEW c \in ToSet(flat[n]), NEW d \in ToSet(t) PROVE c.name # d.name
        <5>1. PICK i \in 1..n : c \in ToSet(ss[i])
          BY <4>1
        <5>2. i \in 1..size /\ i # m /\ m \in 1..size
          BY <3>1, <3>5, <5>1
        <5> QED
          BY <5>1, <5>2
      <4> DEFINE s == flat[n]
      <4>3. flat[m] = s \o t
        BY <3>3, <3>5
      <4>4. s \in Seq(S) /\ Named(s) /\ \A c \in ToSet(s), d \in ToSet(t) : c.name # d.name
        BY <4>1, <4>2
      <4> HIDE DEF s, t
      <4>5. Named(s \o t) /\ ToSet(s \o t) = ToSet(s) \cup ToSet(t)
        BY ONLY <3>2, <4>4, NamedConcat, ElementsConcat
      <4>6. ToSet(s) \subseteq upto(n)
        BY <4>1 DEF s
      <4> HIDE DEF upto, m
      <4> QED
        BY <3>2, <4>3, <4>5, <4>6 DEF m
    <3> QED
      BY <3>4, <3>5
  <2>4. T = Nat
    <3>1. T \in SUBSET Nat
      OBVIOUS
    <3> HIDE DEF T
    <3> QED
      BY <2>2, <2>3, <3>1, InductionOnNat
  <2>5. size \in T /\ size \in 1..size
    <3> HIDE DEF T
    <3> QED
      BY <1>1, <1>3, <2>4
  <2> QED
    BY <1>1, <2>1, <2>5
<1> QED
  BY <1>2, <1>3

-----------------------------------------------------------------------------
\* Looking a name up finds a command of the table or nothing.
LEMMA ChildFacts ==
  ASSUME NEW S, NEW table \in Seq(S), NEW name, Child(table, name) # <<>>
  PROVE  \E cmd \in S : Child(table, name) = <<cmd>>
<1> DEFINE I == {i \in 1..Len(table) : table[i].name = name}
<1>1. Len(table) \in Nat /\ \A i \in 1..Len(table) : table[i] \in S
  BY ElementOfSeq, LenProperties
<1>2. I # {} /\ Child(table, name) = <<table[Min(I)]>>
  <2>1. SelectInSeq(table, LAMBDA cmd : cmd.name = name) = IF I # {} THEN Min(I) ELSE 0
    BY DEF SelectInSeq
  <2>2. CASE I = {}
    BY <2>1, <2>2 DEF Child
  <2>3. CASE I # {}
    <3>1. I \in SUBSET (0..Len(table))
      BY <1>1
    <3>2. Min(I) \in I
      <4> HIDE DEF I
      <4> QED
        BY <1>1, <2>3, <3>1, LastAndFirst
    <3>3. Min(I) # 0
      BY <3>2
    <3> QED
      BY <2>1, <2>3, <3>3 DEF Child
  <2> QED
    BY <2>2, <2>3
<1>3. Min(I) \in 1..Len(table)
  <2>1. I \in SUBSET (0..Len(table))
    BY <1>1
  <2>2. Min(I) \in I
    <3> HIDE DEF I
    <3> QED
      BY <1>1, <1>2, <2>1, LastAndFirst
  <2> QED
    BY <2>2
<1> QED
  BY <1>1, <1>2, <1>3

\* A sequence with one element more.
LEMMA OneLonger ==
  ASSUME NEW S, NEW p \in Seq(S), NEW e \in S
  PROVE  /\ p \o <<e>> \in Seq(S) /\ Len(p \o <<e>>) = Len(p) + 1
         /\ Last(p \o <<e>>) = e /\ p \o <<e>> # <<>>
<1> DEFINE s == <<e>>
<1>1. s \in Seq(S) /\ Len(s) = 1 /\ s[1] = e /\ Len(p) \in Nat
  BY LenProperties
<1> HIDE DEF s
<1>2. /\ p \o s \in Seq(S) /\ Len(p \o s) = Len(p) + Len(s)
      /\ \A k \in 1..(Len(p) + Len(s)) : (p \o s)[k] = IF k <= Len(p) THEN p[k] ELSE s[k - Len(p)]
  BY ONLY <1>1, p \in Seq(S), ConcatProperties
<1>3. (p \o s)[Len(p) + 1] = e /\ Len(p \o s) # 0
  BY ONLY <1>1, <1>2
<1>4. Last(p \o s) = e
  BY ONLY <1>1, <1>2, <1>3 DEF Last
<1> QED
  BY <1>1, <1>2, <1>3, <1>4, EmptySeq DEF s

\* The resolver takes one word after the other, and stops for good at the first
\* that names nothing.
PathsOf(path, tables, words, n) ==
  \A i \in 1..n :
    path[i] = IF Len(path[i - 1]) < i - 1 THEN path[i - 1]
              ELSE path[i - 1] \o Child(IF i = 1 THEN FlattenSeq(tables)
                                         ELSE Last(path[i - 1]).sub, words[i])

LEMMA PathSteps ==
  ASSUME NEW C, NEW tables \in Seq(Seq(C)), \A cmd \in C : cmd.sub \in Seq(C),
         NEW words, Len(words) \in Nat
  PROVE  \E path :
           /\ path[0] = <<>>
           /\ \A i \in 0..Len(words) : path[i] \in Seq(C) /\ Len(path[i]) <= i
           /\ PathsOf(path, tables, words, Len(words))
           /\ path[Len(words)] = ResolvedPath(tables, words)
<1> DEFINE n == Len(words)
           roots == FlattenSeq(tables)
           ones == {<<cmd>> : cmd \in C}
<1>1. n \in Nat /\ roots \in Seq(C)
  BY Flattened
<1>2. PICK found :
        /\ \A i \in 1..n :
             found[i] = IF i = 1 THEN Child(roots, words[1])
                        ELSE IF found[i - 1] = <<>> THEN <<>>
                        ELSE Child(found[i - 1][1].sub, words[i])
        /\ found = [i \in 1..n |-> found[i]]
        /\ ResolvedPath(tables, words) = FlattenSeq(found)
  BY ResolvedSteps
<1> HIDE DEF roots
<1>3. ASSUME NEW table \in Seq(C), NEW name PROVE Child(table, name) \in {<<>>} \cup ones
  BY ChildFacts
<1>4. \A i \in 1..n : found[i] \in {<<>>} \cup ones
  <2> DEFINE T == {i \in Nat : i \in 1..n => found[i] \in {<<>>} \cup ones}
  <2>1. 0 \in T
    OBVIOUS
  <2>2. ASSUME NEW i \in T PROVE i + 1 \in T
    <3> SUFFICES ASSUME i + 1 \in 1..n PROVE found[i + 1] \in {<<>>} \cup ones
      OBVIOUS
    <3>1. i \in Nat /\ (i + 1) - 1 = i /\ (i + 1 = 1 <=> i = 0) /\ (i # 0 => i \in 1..n)
      <4>1. i \in Nat
        OBVIOUS
      <4> QED
        BY ONLY <1>1, <4>1, i + 1 \in 1..n
    <3> DEFINE f == found[i]
               g == found[i + 1]
    <3>2. g = IF i = 0 THEN Child(roots, words[1])
              ELSE IF f = <<>> THEN <<>> ELSE Child(f[1].sub, words[i + 1])
      <4> HIDE DEF T
      <4> QED
        BY <1>2, <3>1
    <3>3. i # 0 => f \in {<<>>} \cup ones
      BY <3>1
    <3> HIDE DEF f, g, T
    <3>4. CASE i = 0
      <4>1. g = Child(roots, words[1])
        BY <3>2, <3>4
      <4>2. g \in {<<>>} \cup ones
        BY <1>1, <1>3, <4>1
      <4> QED
        BY <4>2 DEF g
    <3>5. CASE i # 0 /\ f = <<>>
      BY <3>2, <3>5 DEF g
    <3>6. CASE i # 0 /\ f # <<>>
      <4>1. PICK cmd \in C : f = <<cmd>>
        BY <3>3, <3>6
      <4>2. g = Child(cmd.sub, words[i + 1]) /\ cmd.sub \in Seq(C)
        BY <3>2, <3>6, <4>1
      <4>3. g \in {<<>>} \cup ones
        BY <1>3, <4>2
      <4> QED
        BY <4>3 DEF g
    <3> QED
      BY <3>4, <3>5, <3>6
  <2>3. T = Nat
    <3>1. T \in SUBSET Nat
      OBVIOUS
    <3> HIDE DEF T
    <3> QED
      BY <2>1, <2>2, <3>1, InductionOnNat
  <2> QED
    BY <2>3
<1>5. found \in Seq(Seq(C)) /\ Len(found) = n
  <2>1. \A i \in 1..n : found[i] \in Seq(C)
    <3>1. <<>> \in Seq(C) /\ \A cmd \in C : <<cmd>> \in Seq(C)
      OBVIOUS
    <3>2. \A x \in ones : \E cmd \in C : x = <<cmd>>
      OBVIOUS
    <3> HIDE DEF ones
    <3> QED
      BY <1>4, <3>1, <3>2
  <2> QED
    BY <1>1, <1>2, <2>1
<1>6. CASE n = 0
  <2> DEFINE path == [i \in {0} |-> <<>>]
  <2>1. ResolvedPath(tables, words) = <<>>
    BY <1>2, <1>5, <1>6, EmptySeq DEF FlattenSeq
  <2>2. path[0] = <<>> /\ <<>> \in Seq(C) /\ Len(<<>>) <= 0
    OBVIOUS
  <2>3. 0..n = {0} /\ 1..n = {} /\ path[n] = <<>>
    BY <1>6
  <2> HIDE DEF path
  <2>4. /\ path[0] = <<>> /\ \A i \in 0..n : path[i] \in Seq(C) /\ Len(path[i]) <= i
        /\ path[n] = ResolvedPath(tables, words)
    BY <2>1, <2>2, <2>3
  <2>5. PathsOf(path, tables, words, n)
    BY <2>3 DEF PathsOf
  <2> QED
    BY <2>4, <2>5
<1>7. CASE n # 0
  <2>1. PICK flat : /\ \A i \in 1..n :
                        /\ flat[i] \in Seq(C)
                        /\ flat[i] = IF i = 1 THEN found[i] ELSE flat[i - 1] \o found[i]
                    /\ FlattenSeq(found) = flat[n]
    <3> HIDE DEF n
    <3>1. Len(found) # 0
      BY <1>5, <1>7
    <3>2. \E flat : /\ \A i \in 1..Len(found) :
                        /\ flat[i] \in Seq(C)
                        /\ flat[i] = IF i = 1 THEN found[i] ELSE flat[i - 1] \o found[i]
                    /\ FlattenSeq(found) = flat[Len(found)]
      BY ONLY <1>5, <3>1, FlattenSteps
    <3> QED
      BY ONLY <1>5, <3>2
  <2> DEFINE path == [i \in 0..n |-> IF i = 0 THEN <<>> ELSE flat[i]]
             Whole(i) == IF Len(path[i]) < i THEN i = 0 \/ found[i] = <<>>
                         ELSE /\ Len(path[i]) = i
                              /\ i # 0 => found[i] # <<>> /\ Last(path[i]) = found[i][1]
             T == {i \in Nat : i \in 0..n => Whole(i)}
             Next1(i) == IF Len(path[i - 1]) < i - 1 THEN path[i - 1]
                         ELSE path[i - 1] \o Child(IF i = 1 THEN roots
                                                    ELSE Last(path[i - 1]).sub, words[i])
  <2>2. path[0] = <<>> /\ \A i \in 0..n : path[i] \in Seq(C)
    BY <1>1, <2>1
  <2>3. ASSUME NEW i \in 1..n PROVE path[i] = path[i - 1] \o found[i]
    <3>1. i \in 0..n /\ i - 1 \in 0..n /\ i # 0
      BY <1>1
    <3>2. CASE i = 1
      <4>1. path[i] = found[i] /\ path[i - 1] = <<>> /\ found[i] \in Seq(C)
        BY <2>1, <3>1, <3>2
      <4> HIDE DEF path
      <4>2. <<>> \o found[i] = found[i]
        BY <4>1, ConcatEmptySeq
      <4> QED
        BY ONLY <4>1, <4>2
    <3>3. CASE i # 1
      <4>1. path[i] = flat[i] /\ path[i - 1] = flat[i - 1]
        BY <3>1, <3>3
      <4> QED
        BY <2>1, <3>3, <4>1
    <3> QED
      BY <3>2, <3>3
  <2> HIDE DEF path
  <2>4. ASSUME NEW i \in 1..n, Whole(i - 1) PROVE Whole(i) /\ path[i] = Next1(i)
    <3> DEFINE p == path[i - 1]
               q == path[i]
               f == found[i]
               w == words[i]
    <3>1. i \in Nat /\ i # 0 /\ i - 1 \in 0..n /\ (i # 1 => i - 1 \in 1..n)
      BY <1>1
    <3>2. p \in Seq(C) /\ q = p \o f /\ f \in {<<>>} \cup ones
      BY <1>4, <2>2, <2>3, <3>1
    <3>3. f = IF i = 1 THEN Child(roots, w)
              ELSE IF found[i - 1] = <<>> THEN <<>> ELSE Child(found[i - 1][1].sub, w)
      BY <1>2
    <3>4. IF Len(p) < i - 1 THEN i = 1 \/ found[i - 1] = <<>>
          ELSE /\ Len(p) = i - 1
               /\ i # 1 => found[i - 1] # <<>> /\ Last(p) = found[i - 1][1]
      BY <2>4, <3>1
    <3>5. Len(p) \in Nat /\ p \o <<>> = p
      BY <3>2, LenProperties, ConcatEmptySeq
    <3>6. \A cmd \in C : Len(p \o <<cmd>>) = Len(p) + 1 /\ Last(p \o <<cmd>>) = cmd
      <4> HIDE DEF p
      <4> QED
        BY ONLY <3>2, OneLonger
    <3>7. Whole(i) <=> IF Len(q) < i THEN f = <<>>
                       ELSE Len(q) = i /\ f # <<>> /\ Last(q) = f[1]
      BY <3>1
    <3>8. Next1(i) = IF Len(p) < i - 1 THEN p
                     ELSE p \o Child(IF i = 1 THEN roots ELSE Last(p).sub, w)
      OBVIOUS
    <3>9. f \in ones => \E cmd \in C : f = <<cmd>> /\ f[1] = cmd /\ f # <<>>
      <4> HIDE DEF f
      <4> SUFFICES ASSUME f \in ones PROVE \E cmd \in C : f = <<cmd>> /\ f[1] = cmd /\ f # <<>>
        OBVIOUS
      <4>1. PICK cmd \in C : f = <<cmd>>
        OBVIOUS
      <4>2. <<cmd>>[1] = cmd /\ <<cmd>> # <<>>
        OBVIOUS
      <4> QED
        BY <4>1, <4>2
    <3> HIDE DEF p, q, f, w, Whole, Next1, ones
    <3>10. CASE Len(p) < i - 1
      <4>1. f = <<>> /\ q = p
        <5>1. i # 1
          BY <3>1, <3>5, <3>10
        <5> QED
          BY <3>2, <3>3, <3>4, <3>5, <3>10, <5>1
      <4>2. Len(q) < i
        BY <3>1, <3>5, <3>10, <4>1
      <4> QED
        BY <3>7, <3>8, <3>10, <4>1, <4>2 DEF q
    <3>11. CASE ~(Len(p) < i - 1)
      <4>1. Len(p) = i - 1 /\ f = Child(IF i = 1 THEN roots ELSE Last(p).sub, w)
        BY <3>3, <3>4, <3>11
      <4>2. q = Next1(i)
        BY <3>2, <3>8, <3>11, <4>1
      <4>3. CASE f = <<>>
        <5>1. Len(q) < i
          BY <3>1, <3>2, <3>5, <4>1, <4>3
        <5> QED
          BY <3>7, <4>2, <4>3, <5>1 DEF q
      <4>4. CASE f # <<>>
        <5>1. PICK cmd \in C : f = <<cmd>> /\ f[1] = cmd
          BY <3>2, <3>9, <4>4
        <5>2. Len(q) = (i - 1) + 1 /\ Last(q) = f[1]
          BY <3>2, <3>6, <4>1, <5>1
        <5>3. Len(q) = i /\ ~(Len(q) < i)
          BY <3>1, <5>2
        <5> QED
          BY <3>7, <4>2, <4>4, <5>2, <5>3 DEF q
      <4> QED
        BY <4>3, <4>4
    <3> QED
      BY <3>10, <3>11
  <2>5. 0 \in T
    BY <2>2
  <2>6. ASSUME NEW i \in T PROVE i + 1 \in T
    <3> SUFFICES ASSUME i + 1 \in 0..n PROVE Whole(i + 1)
      OBVIOUS
    <3>1. i + 1 \in 1..n /\ (i + 1) - 1 = i /\ i \in 0..n /\ i \in Nat
      <4>1. i \in Nat /\ n \in Nat
        BY <1>1
      <4>2. i + 1 <= n
        BY <1>1
      <4> HIDE DEF n, T
      <4> QED
        BY ONLY <4>1, <4>2
    <3> HIDE DEF Whole
    <3>2. Whole(i)
      BY <3>1
    <3>3. \A j \in 1..n : Whole(j - 1) => Whole(j)
      BY <2>4
    <3> QED
      BY ONLY <3>1, <3>2, <3>3
  <2> HIDE DEF Whole, Next1
  <2>7. T = Nat
    <3>1. T \in SUBSET Nat
      OBVIOUS
    <3> HIDE DEF T
    <3> QED
      BY <2>5, <2>6, <3>1, InductionOnNat
  <2>8. \A i \in 0..n : Whole(i)
    BY <2>7
  <2>9. ASSUME NEW i \in 0..n PROVE Len(path[i]) <= i
    <3>1. Whole(i)
      BY <2>8
    <3>2. i \in Nat /\ Len(path[i]) \in Nat
      BY <1>1, <2>2, LenProperties
    <3> QED
      BY <3>1, <3>2 DEF Whole
  <2>10. PathsOf(path, tables, words, n)
    <3>1. ASSUME NEW i \in 1..n PROVE path[i] = Next1(i)
      <4>1. i - 1 \in 0..n
        BY <1>1
      <4> QED
        BY <2>4, <2>8, <4>1
    <3> QED
      BY <3>1 DEF PathsOf, Next1, roots
  <2>11. path[n] = ResolvedPath(tables, words)
    <3>1. n \in 0..n
      BY <1>1
    <3>2. path[n] = flat[n]
      BY <1>7, <3>1 DEF path
    <3> QED
      BY <1>2, <2>1, <3>2
  <2> QED
    BY <2>2, <2>9, <2>10, <2>11
<1> QED
  BY <1>6, <1>7

\* One word more is looked up below the last command, if every word so far named one.
LEMMA PathAppend ==
  ASSUME NEW C, NEW tables \in Seq(Seq(C)), \A cmd \in C : cmd.sub \in Seq(C),
         NEW V, NEW words \in Seq(V), NEW word \in V
  PROVE  ResolvedPath(tables, Append(words, word))
           = IF Len(ResolvedPath(tables, words)) < Len(words) THEN ResolvedPath(tables, words)
             ELSE ResolvedPath(tables, words)
                    \o Child(IF words = <<>> THEN FlattenSeq(tables)
                             ELSE Last(ResolvedPath(tables, words)).sub, word)
<1> DEFINE n == Len(words)
           more == Append(words, word)
           Step(p, i, w) == IF Len(p) < i - 1 THEN p
                            ELSE p \o Child(IF i = 1 THEN FlattenSeq(tables)
                                             ELSE Last(p).sub, w)
<1>1. /\ n \in Nat /\ Len(more) = n + 1 /\ more[n + 1] = word
      /\ \A i \in 1..n : more[i] = words[i]
      /\ words = <<>> <=> n = 0
  BY LenProperties, AppendProperties, EmptySeq
<1>2. PICK p : /\ p[0] = <<>> /\ PathsOf(p, tables, words, n)
               /\ p[n] = ResolvedPath(tables, words)
  <2> HIDE DEF n
  <2>1. \E p : /\ p[0] = <<>> /\ PathsOf(p, tables, words, Len(words))
               /\ p[Len(words)] = ResolvedPath(tables, words)
    <3>1. Len(words) \in Nat
      BY <1>1 DEF n
    <3> QED
      BY <3>1, PathSteps
  <2> QED
    BY <2>1 DEF n
<1>3. PICK q : /\ q[0] = <<>> /\ PathsOf(q, tables, more, n + 1)
               /\ q[n + 1] = ResolvedPath(tables, more)
  <2> HIDE DEF n, more
  <2>1. \E q : /\ q[0] = <<>> /\ PathsOf(q, tables, more, Len(more))
               /\ q[Len(more)] = ResolvedPath(tables, more)
    <3>1. Len(more) \in Nat
      BY <1>1
    <3> QED
      BY <3>1, PathSteps
  <2> QED
    BY <1>1, <2>1
<1> HIDE DEF more
<1>4. \A i \in 1..n : p[i] = Step(p[i - 1], i, words[i])
  BY <1>2 DEF PathsOf
<1>5. \A i \in 1..(n + 1) : q[i] = Step(q[i - 1], i, more[i])
  BY <1>3 DEF PathsOf
<1> HIDE DEF Step
<1> DEFINE T == {i \in Nat : i \in 0..n => p[i] = q[i]}
<1>6. 0 \in T
  BY <1>2, <1>3
<1>7. ASSUME NEW i \in T PROVE i + 1 \in T
  <2> SUFFICES ASSUME i + 1 \in 0..n PROVE p[i + 1] = q[i + 1]
    OBVIOUS
  <2> DEFINE j == i + 1
  <2>1. j \in 1..n /\ j - 1 = i /\ j \in 1..(n + 1) /\ p[i] = q[i]
    <3>1. i \in Nat /\ (i \in 0..n => p[i] = q[i])
      OBVIOUS
    <3> QED
      BY ONLY <1>1, <3>1, i + 1 \in 0..n
  <2> HIDE DEF j
  <2>2. p[j] = Step(p[i], j, words[j])
    BY ONLY <1>4, <2>1
  <2>3. q[j] = Step(q[i], j, more[j])
    BY ONLY <1>5, <2>1
  <2>4. p[j] = q[j]
    BY <1>1, <2>1, <2>2, <2>3
  <2> QED
    BY <2>4 DEF j
<1>8. T = Nat
  <2>1. T \in SUBSET Nat
    OBVIOUS
  <2> HIDE DEF T
  <2> QED
    BY <1>6, <1>7, <2>1, InductionOnNat
<1>9. p[n] = q[n]
  BY <1>1, <1>8
<1>10. q[n + 1] = Step(q[n], n + 1, more[n + 1])
  <2> DEFINE m == n + 1
  <2>1. m \in 1..(n + 1) /\ m - 1 = n
    BY <1>1
  <2> HIDE DEF m
  <2>2. q[m] = Step(q[n], m, more[m])
    BY ONLY <1>5, <2>1
  <2> QED
    BY <2>2 DEF m
<1>11. ResolvedPath(tables, more) = Step(ResolvedPath(tables, words), n + 1, word)
  BY <1>1, <1>2, <1>3, <1>9, <1>10
<1>12. (n + 1) - 1 = n /\ (n + 1 = 1 <=> words = <<>>)
  BY <1>1
<1> QED
  BY <1>11, <1>12 DEF Step, more
=============================================================================
