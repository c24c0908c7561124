------------------------------ MODULE Induction ------------------------------
(***************************************************************************)
(* Induction over the natural numbers up to n and over the subsets of a    *)
(* finite set, stated for sets; what it gives for functions that are       *)
(* defined from each number to the next; what FlattenSeq, which is one of  *)
(* them, does; and what the sum of a function's values is.  Proofs about   *)
(* counts and about sequences that are built step by step rest on it.      *)
(***************************************************************************)
EXTENDS Naturals, FiniteSets, SequencesExt, SequenceTheorems, FiniteSetTheorems,
        WellFoundedInduction, TLAPS

\* A set of natural numbers with an element has a least one.
LEMMA LeastNatural ==
    ASSUME NEW S \in SUBSET Nat, S # {}
    PROVE  \E n \in S : \A m \in S : n <= m
<1>1. PICK n \in S : \A m \in S : ~(<<m, n>> \in OpToRel(<, Nat))
  BY WFMin, NatLessThanWellFounded, Zenon
<1>2. \A m \in Nat : m < n => <<m, n>> \in OpToRel(<, Nat)
  BY Zenon DEF OpToRel
<1>3. \A m \in S : ~(m < n)
  BY <1>1, <1>2
<1>4. \A m \in S : n <= m
  BY <1>3
<1> QED BY <1>4

\* What has 0, and each number up to n with the one before it, has them all.
LEMMA Upwards ==
    ASSUME NEW n \in Nat, NEW S, 0 \in S, \A i \in 1..n : i - 1 \in S => i \in S
    PROVE  0..n \subseteq S
<1> DEFINE T == 0..n \ S
<1> SUFFICES ASSUME T # {} PROVE FALSE
  OBVIOUS
<1>1. T \in SUBSET Nat
  OBVIOUS
<1> HIDE DEF T
<1>2. PICK i \in T : \A j \in T : i <= j
  BY <1>1, LeastNatural
<1>3. i \in 1..n /\ i - 1 \in 0..n /\ i \notin S
  BY <1>2 DEF T
<1>4. i - 1 \in S
  BY <1>2, <1>3 DEF T
<1> QED BY <1>3, <1>4

\* f[n] is what n steps make of a value.
Iteration(f, n, base, step) == f[0] = base /\ \A i \in 1..n : f[i] = step[i][f[i-1]]

\* There is a function on 0..n with a given first value and a given step from each
\* value to the next.
LEMMA Iterates ==
    ASSUME NEW n \in Nat, NEW V, NEW base \in V, NEW step \in [1..n -> [V -> V]]
    PROVE  \E f \in [0..n -> V] : Iteration(f, n, base, step)
<1> DEFINE S == {m \in 0..n : \E f \in [0..n -> V] : Iteration(f, m, base, step)}
<1>1. 0 \in S
  <2> DEFINE f == [i \in 0..n |-> base]
  <2>1. f \in [0..n -> V] /\ f[0] = base
    OBVIOUS
  <2> HIDE DEF f
  <2>2. Iteration(f, 0, base, step)
    BY <2>1 DEF Iteration
  <2> QED BY <2>1, <2>2
<1>2. ASSUME NEW m \in 1..n, m - 1 \in S PROVE m \in S
  <2>1. PICK f \in [0..n -> V] : Iteration(f, m-1, base, step)
    BY <1>2
  <2> DEFINE g == [f EXCEPT ![m] = step[m][f[m-1]]]
  <2>2. step[m][f[m-1]] \in V
    OBVIOUS
  <2>3. g \in [0..n -> V]
    BY <2>2
  <2>4. \A i \in 0..n : g[i] = IF i = m THEN step[m][f[m-1]] ELSE f[i]
    OBVIOUS
  <2> HIDE DEF g
  <2>5. Iteration(g, m, base, step)
    <3>1. g[0] = base
      BY <2>1, <2>4 DEF Iteration
    <3>2. ASSUME NEW i \in 1..m PROVE g[i] = step[i][g[i-1]]
      <4>1. CASE i = m
        BY <2>4, <4>1
      <4>2. CASE i # m
        BY <2>1, <2>4, <4>2 DEF Iteration
      <4> QED BY <4>1, <4>2
    <3> QED BY <3>1, <3>2 DEF Iteration
  <2> QED BY <2>3, <2>5
<1> HIDE DEF S
<1>3. 0..n \subseteq S
  BY <1>1, <1>2, Upwards
<1>4. n \in S
  BY <1>3
<1> QED BY <1>4 DEF S

-----------------------------------------------------------------------------
(* FlattenSeq                                                              *)

\* f[i] is the first i of the sequences ss joined, up to n.
Joins(f, n, ss) ==
    f[0] = <<>> /\ \A i \in 1..n, j \in 0..n : i = j + 1 => f[i] = f[j] \o ss[i]

\* FlattenSeq(ss) is where it ends.
LEMMA FlattenJoins ==
    ASSUME NEW W, NEW ss \in Seq(Seq(W))
    PROVE  \E f \in [0..Len(ss) -> Seq(W)] : Joins(f, Len(ss), ss) /\ FlattenSeq(ss) = f[Len(ss)]
<1> DEFINE n == Len(ss)
           V == Seq(W)
           flatten == CHOOSE f : f = [i \in 1..n |-> IF i = 1 THEN ss[i] ELSE f[i-1] \o ss[i]]
           step == [i \in 1..n |-> [v \in V |-> v \o ss[i]]]
<1>1. n \in Nat /\ (\A i \in 1..n : ss[i] \in V) /\ <<>> \in V /\ \A u, v \in V : u \o v \in V
  BY ConcatProperties
<1>2. \A v \in V : <<>> \o v = v
  BY ConcatEmptySeq
<1>z. n = 0 => ss = <<>>
  OBVIOUS
<1> HIDE DEF n, V
<1>3. step \in [1..n -> [V -> V]] /\ \A i \in 1..n, v \in V : step[i][v] = v \o ss[i]
  BY <1>1
<1> HIDE DEF step
<1>4. PICK f \in [0..n -> V] : Iteration(f, n, <<>>, step)
  BY <1>1, <1>3, Iterates
<1>5. f[0] = <<>> /\ \A i \in 1..n : f[i] = f[i-1] \o ss[i]
  <2>1. \A i \in 1..n : f[i-1] \in V
    BY <1>1
  <2> QED BY <1>3, <1>4, <2>1 DEF Iteration
<1>j. Joins(f, n, ss)
  <2> SUFFICES ASSUME NEW i \in 1..n, NEW j \in 0..n, i = j + 1 PROVE f[i] = f[j] \o ss[i]
    BY <1>5 DEF Joins
  <2>1. i - 1 = j
    BY <1>1
  <2> QED BY <1>5, <2>1
<1>6. CASE n = 0
  <2>1. FlattenSeq(ss) = <<>>
    BY <1>6, <1>z DEF FlattenSeq, n
  <2> QED BY <1>j, <1>5, <1>6, <2>1 DEF n, V
<1>7. CASE n # 0
  <2> DEFINE g == [i \in 1..n |-> f[i]]
  <2>1. \A i \in 1..n : f[i] = IF i = 1 THEN ss[i] ELSE f[i-1] \o ss[i]
    <3> SUFFICES ASSUME NEW i \in 1..n PROVE f[i] = IF i = 1 THEN ss[i] ELSE f[i-1] \o ss[i]
      OBVIOUS
    <3>1. CASE i = 1
      <4>0. 1 \in 1..n /\ 0 \in 0..n /\ 1 = 0 + 1
        BY <1>1, <3>1
      <4>1. f[1] = f[0] \o ss[1] /\ ss[1] \in V
        BY <1>1, <1>j, <4>0 DEF Joins
      <4>2. <<>> \o ss[1] = ss[1]
        BY <1>2, <4>1
      <4> QED BY <1>5, <3>1, <4>1, <4>2
    <3>2. CASE i # 1
      BY <1>5, <3>2
    <3> QED BY <3>1, <3>2
  <2>2. g = [i \in 1..n |-> IF i = 1 THEN ss[i] ELSE g[i-1] \o ss[i]]
    <3>1. \A i \in 1..n : g[i] = IF i = 1 THEN ss[i] ELSE g[i-1] \o ss[i]
      BY <1>1, <2>1
    <3> QED BY <3>1
  <2>3. flatten = [i \in 1..n |-> IF i = 1 THEN ss[i] ELSE flatten[i-1] \o ss[i]]
    <3> HIDE DEF g
    <3> QED BY <2>2
  <2>4. FlattenSeq(ss) = flatten[n]
    BY <1>7 DEF FlattenSeq, n
  <2> HIDE DEF flatten
  <2>5. \A i \in 1..n : f[i] = flatten[i]
    <3> DEFINE S == {0} \cup {i \in 1..n : f[i] = flatten[i]}
    <3>1. \A i \in 1..n : i - 1 \in S => i \in S
      <4> SUFFICES ASSUME NEW i \in 1..n, i - 1 \in S PROVE f[i] = flatten[i]
        OBVIOUS
      <4>1. CASE i = 1
        BY <2>1, <2>3, <4>1
      <4>2. CASE i # 1
        <5>1. f[i-1] = flatten[i-1]
          BY <1>1, <4>2
        <5>2. f[i] = f[i-1] \o ss[i]
          BY <2>1, <4>2, Zenon
        <5>3. flatten[i] = flatten[i-1] \o ss[i]
          BY <2>3, <4>2
        <5> QED BY <5>1, <5>2, <5>3, Zenon
      <4> QED BY <4>1, <4>2
    <3>2. 0 \in S
      OBVIOUS
    <3> HIDE DEF S
    <3>3. 0..n \subseteq S
      BY <1>1, <3>1, <3>2, Upwards
    <3>4. \A i \in 1..n : i \in S /\ i # 0
      BY <1>1, <3>3
    <3> QED BY <3>4 DEF S
  <2>6. f[n] = flatten[n]
    BY <1>1, <1>7, <2>5
  <2> QED BY <1>j, <2>4, <2>6 DEF n, V
<1> QED BY <1>6, <1>7

\* The same steps give the same sequences.
LEMMA JoinsSame ==
    ASSUME NEW n \in Nat, NEW f, NEW g, NEW ss, Joins(f, n, ss), Joins(g, n, ss)
    PROVE  f[n] = g[n]
<1> DEFINE S == {i \in 0..n : f[i] = g[i]}
<1>1. ASSUME NEW i \in 1..n, NEW j \in 0..n, i = j + 1, f[j] = g[j] PROVE f[i] = g[i]
  BY <1>1 DEF Joins
<1>2. 0 \in S /\ \A i \in 1..n : i - 1 \in S => i \in S
  <2>1. f[0] = g[0] /\ 0 \in 0..n
    BY DEF Joins
  <2>2. ASSUME NEW i \in 1..n, i - 1 \in S PROVE i \in S
    <3>1. i - 1 \in 0..n /\ i = (i - 1) + 1 /\ i \in 0..n
      OBVIOUS
    <3> QED BY <1>1, <2>2, <3>1
  <2> QED BY <2>1, <2>2
<1> HIDE DEF S
<1>3. 0..n \subseteq S
  BY <1>2, Upwards
<1>4. n \in S
  BY <1>3
<1> QED BY <1>4 DEF S

LEMMA FlattenEmpty == FlattenSeq(<<>>) = <<>>
BY DEF FlattenSeq

LEMMA FlattenOne ==
    ASSUME NEW W, NEW s \in Seq(W)
    PROVE  FlattenSeq(<<s>>) = s
<1> DEFINE one == <<s>>
<1>1. one \in Seq(Seq(W)) /\ Len(one) = 1 /\ one[1] = s
  OBVIOUS
<1>2. <<>> \o s = s
  BY ConcatEmptySeq
<1> HIDE DEF one
<1>3. PICK f \in [0..1 -> Seq(W)] : Joins(f, 1, one) /\ FlattenSeq(one) = f[1]
  BY <1>1, FlattenJoins
<1>4. f[0] = <<>> /\ f[1] = f[0] \o one[1]
  <2>1. 1 \in 1..1 /\ 0 \in 0..1 /\ 1 = 0 + 1
    OBVIOUS
  <2> QED BY <1>3, <2>1 DEF Joins
<1> QED BY <1>1, <1>2, <1>3, <1>4 DEF one

\* Joining is associative, said of all the lists over W at once.
LEMMA Associative ==
    ASSUME NEW W, NEW V, V = Seq(W)
    PROVE  \A x, y, z \in V : (x \o y) \o z = x \o (y \o z)
<1> TAKE x, y, z \in V
<1>1. x \in Seq(W) /\ y \in Seq(W) /\ z \in Seq(W)
  OBVIOUS
<1> QED BY <1>1, ConcatAssociative

LEMMA FlattenConcat ==
    ASSUME NEW W, NEW ss \in Seq(Seq(W)), NEW tt \in Seq(Seq(W))
    PROVE  FlattenSeq(ss \o tt) = FlattenSeq(ss) \o FlattenSeq(tt)
<1> DEFINE n == Len(ss)
           m == Len(tt)
           uu == ss \o tt
           V == Seq(W)
<1>0. \A x, y, z \in V : (x \o y) \o z = x \o (y \o z)
  <2>1. V = Seq(W)
    OBVIOUS
  <2> HIDE DEF V
  <2> QED BY <2>1, Associative
<1>1. /\ uu \in Seq(V) /\ Len(uu) = n + m /\ n \in Nat /\ m \in Nat
      /\ \A i \in 1..n : uu[i] = ss[i]
      /\ \A j \in 1..m : uu[n+j] = tt[j]
      /\ \A j \in 1..m : tt[j] \in V
  BY ConcatProperties
<1>2. PICK f \in [0..n -> V] : Joins(f, n, ss) /\ FlattenSeq(ss) = f[n]
  BY FlattenJoins
<1>3. PICK g \in [0..m -> V] : Joins(g, m, tt) /\ FlattenSeq(tt) = g[m]
  BY FlattenJoins
<1>4. PICK h \in [0..n+m -> V] : Joins(h, n+m, uu) /\ FlattenSeq(uu) = h[n+m]
  <2> DEFINE l == Len(uu)
  <2>1. uu \in Seq(Seq(W)) /\ l = n + m
    BY <1>1, Zenon
  <2> HIDE DEF uu, n, m
  <2>2. \E e \in [0..l -> V] : Joins(e, l, uu) /\ FlattenSeq(uu) = e[l]
    BY <2>1, FlattenJoins
  <2> HIDE DEF l, V
  <2> QED BY <2>1, <2>2, Zenon
<1> HIDE DEF n, m, uu, V
<1>5. h[n] = f[n]
  <2>1. Joins(h, n, ss)
    <3>1. h[0] = <<>>
      BY <1>4 DEF Joins
    <3>2. ASSUME NEW i \in 1..n, NEW j \in 0..n, i = j + 1 PROVE h[i] = h[j] \o ss[i]
      <4>1. i \in 1..(n+m) /\ j \in 0..(n+m) /\ uu[i] = ss[i]
        BY <1>1
      <4> QED BY <1>4, <3>2, <4>1 DEF Joins
    <3> QED BY <3>1, <3>2 DEF Joins
  <2> QED BY <1>1, <1>2, <2>1, JoinsSame
<1>6. \A j \in 0..m : h[n+j] = f[n] \o g[j]
  <2> DEFINE S == {j \in 0..m : h[n+j] = f[n] \o g[j]}
  <2>0. f[n] \in V
    BY <1>1, <1>2
  <2>1. 0 \in S
    <3>1. f[n] \o <<>> = f[n]
      BY <2>0, ConcatEmptySeq DEF V
    <3>2. n + 0 = n /\ 0 \in 0..m
      BY <1>1
    <3>3. g[0] = <<>>
      BY <1>3 DEF Joins
    <3> QED BY <1>5, <3>1, <3>2, <3>3
  <2>2. ASSUME NEW j \in 1..m, j - 1 \in S PROVE j \in S
    <3> DEFINE i == j - 1
               a == n + j
               b == n + i
    <3>1. a \in 1..(n+m) /\ b \in 0..(n+m) /\ a = b + 1 /\ i \in 0..m /\ j = i + 1 /\ j \in 0..m
      BY <1>1
    <3>2. uu[a] = tt[j] /\ tt[j] \in V
      BY <1>1
    <3>3. (i \in S => h[b] = f[n] \o g[i]) /\ (h[a] = f[n] \o g[j] => j \in S) /\ i \in S
      BY <2>2, <3>1
    <3> HIDE DEF i, a, b, S
    <3>4. h[a] = h[b] \o uu[a]
      BY <1>4, <3>1, Zenon DEF Joins
    <3>5. g[j] = g[i] \o tt[j]
      BY <1>3, <3>1, Zenon DEF Joins
    <3>6. g[i] \in V
      BY <3>1
    <3>7. (f[n] \o g[i]) \o tt[j] = f[n] \o (g[i] \o tt[j])
      BY <1>0, <2>0, <3>2, <3>6, Zenon
    <3>8. h[a] = f[n] \o g[j]
      BY <3>2, <3>3, <3>4, <3>5, <3>7, Zenon
    <3> QED BY <3>3, <3>8
  <2>3. \A j \in S : h[n+j] = f[n] \o g[j]
    OBVIOUS
  <2> HIDE DEF S
  <2>4. 0..m \subseteq S
    BY <1>1, <2>1, <2>2, Upwards
  <2>5. \A j \in 0..m : j \in S
    BY <2>4
  <2> QED BY <2>3, <2>5, Zenon
<1>7. h[n+m] = f[n] \o g[m]
  <2>1. m \in 0..m
    BY <1>1
  <2> QED BY <1>6, <2>1, Zenon
<1> QED BY <1>2, <1>3, <1>4, <1>7 DEF uu

-----------------------------------------------------------------------------
(* Sums                                                                    *)

\* What has each subset of a finite set that it has when any one element is taken
\* out, has them all.
LEMMA Elementwise ==
    ASSUME NEW S, IsFiniteSet(S), NEW P,
           \A T \in SUBSET S : (\A x \in T : T \ {x} \in P) => T \in P
    PROVE  SUBSET S \subseteq P
<1> DEFINE n == Cardinality(S)
           Q == {i \in 0..n : \A T \in SUBSET S : Cardinality(T) = i => T \in P}
<1>1. n \in Nat /\ \A T \in SUBSET S : IsFiniteSet(T) /\ Cardinality(T) \in 0..n
  BY FS_CardinalityType, FS_Subset
<1> HIDE DEF n
<1>2. 0 \in Q
  <2>1. \A T \in SUBSET S : Cardinality(T) = 0 => T = {}
    BY <1>1, FS_EmptySet
  <2> QED BY <1>1, <2>1
<1>3. ASSUME NEW i \in 1..n, i - 1 \in Q PROVE i \in Q
  <2> SUFFICES ASSUME NEW T \in SUBSET S, Cardinality(T) = i PROVE T \in P
    BY <1>1
  <2>1. ASSUME NEW x \in T PROVE T \ {x} \in P
    <3>1. Cardinality(T \ {x}) = i - 1 /\ T \ {x} \in SUBSET S
      BY <1>1, FS_RemoveElement
    <3> QED BY <1>3, <3>1
  <2> QED BY <2>1
<1> HIDE DEF Q
<1>4. 0..n \subseteq Q
  BY <1>1, <1>2, <1>3, Upwards
<1>5. ASSUME NEW T \in SUBSET S PROVE T \in P
  <2>1. Cardinality(T) \in Q
    BY <1>1, <1>4
  <2> QED BY <2>1 DEF Q
<1> QED BY <1>5

\* One mark for each unit of f[i], for the i of T.
Marks(f, T) == UNION {{i} \X (1..f[i]) : i \in T}

LEMMA MarksStep ==
    ASSUME NEW S, IsFiniteSet(S), NEW f \in [S -> Nat], NEW T \in SUBSET S, NEW x \in T
    PROVE  /\ IsFiniteSet(Marks(f, T)) /\ Cardinality(Marks(f, T)) \in Nat
           /\ Cardinality(Marks(f, T)) = f[x] + Cardinality(Marks(f, T \ {x}))
<1>1. \A i \in S : IsFiniteSet({i} \X (1..f[i])) /\ Cardinality({i} \X (1..f[i])) = f[i]
  <2> TAKE i \in S
  <2> DEFINE A == {i}
             B == 1..f[i]
  <2>1. IsFiniteSet(B) /\ Cardinality(B) = f[i] /\ f[i] \in Nat
    BY FS_Interval
  <2>2. IsFiniteSet(A) /\ Cardinality(A) = 1
    BY FS_Singleton
  <2> HIDE DEF A, B
  <2>3. IsFiniteSet(A \X B) /\ Cardinality(A \X B) = Cardinality(A) * Cardinality(B)
    BY <2>1, <2>2, FS_Product
  <2>4. IsFiniteSet(A \X B) /\ Cardinality(A \X B) = f[i]
    BY <2>1, <2>2, <2>3
  <2> QED BY <2>4 DEF A, B
<1>2. \A U \in SUBSET S : IsFiniteSet(Marks(f, U))
  <2> TAKE U \in SUBSET S
  <2> DEFINE boxes == {{i} \X (1..f[i]) : i \in U}
  <2> DEFINE box == [i \in U |-> {i} \X (1..f[i])]
  <2>1. IsFiniteSet(boxes)
    <3>1. IsFiniteSet(U) /\ box \in Surjection(U, boxes)
      BY FS_Subset DEF Surjection
    <3> QED BY <3>1, FS_Surjection
  <2>2. \A B \in boxes : IsFiniteSet(B)
    BY <1>1
  <2> HIDE DEF boxes
  <2>3. IsFiniteSet(UNION boxes)
    BY <2>1, <2>2, FS_UNION
  <2> QED BY <2>3 DEF boxes, Marks
<1> DEFINE A == {x} \X (1..f[x])
           B == Marks(f, T \ {x})
<1>3. Marks(f, T) = A \cup B
  BY DEF Marks
<1>4. A \cap B = {}
  BY DEF Marks
<1>5. IsFiniteSet(A) /\ Cardinality(A) = f[x] /\ IsFiniteSet(B) /\ f[x] \in Nat
  BY <1>1, <1>2
<1> HIDE DEF A, B
<1>6. Cardinality(A \cup B) = Cardinality(A) + Cardinality(B) - Cardinality(A \cap B)
  BY <1>5, FS_Union
<1>7. Cardinality(A \cap B) = 0 /\ Cardinality(B) \in Nat
  BY <1>4, <1>5, FS_EmptySet, FS_CardinalityType
<1>8. Cardinality(Marks(f, T)) = f[x] + Cardinality(B)
  BY <1>3, <1>5, <1>6, <1>7
<1>9. IsFiniteSet(Marks(f, T))
  BY <1>2
<1> QED BY <1>8, <1>9, FS_CardinalityType DEF B

\* A sum counts them.
LEMMA SumIsCount ==
    ASSUME NEW S, IsFiniteSet(S), NEW f \in [S -> Nat], NEW T \in SUBSET S
    PROVE  SumFunctionOnSet(f, T) = Cardinality(Marks(f, T))
<1> DEFINE iter == CHOOSE g : g = [s \in SUBSET T |->
                       IF s = {} THEN 0
                       ELSE f[CHOOSE x \in s : TRUE] + g[s \ {CHOOSE x \in s : TRUE}]]
           g == [s \in SUBSET T |-> Cardinality(Marks(f, s))]
<1>1. SumFunctionOnSet(f, T) = iter[T]
  BY DEF SumFunctionOnSet, FoldFunctionOnSet, MapThenFoldSet
<1>0. Cardinality(Marks(f, {})) = 0
  <2>1. Marks(f, {}) = {}
    BY DEF Marks
  <2> QED BY <2>1, FS_EmptySet
<1>2. \A s \in SUBSET T : \A x \in s :
          Cardinality(Marks(f, s)) = f[x] + Cardinality(Marks(f, s \ {x}))
  <2> TAKE s \in SUBSET T
  <2> TAKE x \in s
  <2>1. s \in SUBSET S
    OBVIOUS
  <2> QED BY <2>1, MarksStep
<1>a. \A s \in SUBSET T : s # {} =>
          (CHOOSE x \in s : TRUE) \in s /\ s \ {CHOOSE x \in s : TRUE} \in SUBSET T
  OBVIOUS
<1>3. g = [s \in SUBSET T |->
             IF s = {} THEN 0
             ELSE f[CHOOSE x \in s : TRUE] + g[s \ {CHOOSE x \in s : TRUE}]]
  <2>1. ASSUME NEW s \in SUBSET T
        PROVE  g[s] = IF s = {} THEN 0
                      ELSE f[CHOOSE x \in s : TRUE] + g[s \ {CHOOSE x \in s : TRUE}]
    <3>1. CASE s = {}
      BY <1>0, <3>1
    <3>2. CASE s # {}
      <4> DEFINE x == CHOOSE x \in s : TRUE
      <4>1. x \in s /\ s \ {x} \in SUBSET T
        BY <1>a, <3>2
      <4> HIDE DEF x
      <4>2. g[s] = f[x] + g[s \ {x}]
        BY <1>2, <4>1
      <4> QED BY <3>2, <4>2 DEF x
    <3> QED BY <3>1, <3>2
  <2> QED BY <2>1
<1>4. iter = [s \in SUBSET T |->
             IF s = {} THEN 0
             ELSE f[CHOOSE x \in s : TRUE] + iter[s \ {CHOOSE x \in s : TRUE}]]
  <2> HIDE DEF g
  <2> QED BY <1>3
<1>5. \A s \in SUBSET T : g[s] = Cardinality(Marks(f, s))
  OBVIOUS
<1> HIDE DEF iter, g
<1> DEFINE P == {s \in SUBSET T : iter[s] = g[s]}
<1>6. ASSUME NEW s \in SUBSET T, \A x \in s : s \ {x} \in P PROVE s \in P
  <2>1. CASE s = {}
    BY <1>3, <1>4, <2>1
  <2>2. CASE s # {}
    <3> DEFINE x == CHOOSE x \in s : TRUE
    <3>1. x \in s /\ iter[s] = f[x] + iter[s \ {x}] /\ g[s] = f[x] + g[s \ {x}]
      BY <1>3, <1>4, <2>2, <1>a
    <3> HIDE DEF x
    <3> QED BY <1>6, <3>1
  <2> QED BY <2>1, <2>2
<1>7. IsFiniteSet(T)
  BY FS_Subset
<1>8. \A s \in P : iter[s] = g[s]
  OBVIOUS
<1> HIDE DEF P
<1>9. SUBSET T \subseteq P
  BY <1>6, <1>7, Elementwise
<1> QED BY <1>1, <1>5, <1>8, <1>9

\* A sum over a set is that over the set less one element, and its value there.
LEMMA SumStep ==
    ASSUME NEW S, IsFiniteSet(S), NEW f \in [S -> Nat], NEW T \in SUBSET S
    PROVE  /\ SumFunctionOnSet(f, T) \in Nat
           /\ SumFunctionOnSet(f, {}) = 0
           /\ \A x \in T : SumFunctionOnSet(f, T) = f[x] + SumFunctionOnSet(f, T \ {x})
<1>1. \A U \in SUBSET S : SumFunctionOnSet(f, U) = Cardinality(Marks(f, U))
  BY SumIsCount
<1>2. Cardinality(Marks(f, {})) = 0
  <2>1. Marks(f, {}) = {}
    BY DEF Marks
  <2> QED BY <2>1, FS_EmptySet
<1>3. \A x \in T : /\ Cardinality(Marks(f, T)) \in Nat
                  /\ Cardinality(Marks(f, T)) = f[x] + Cardinality(Marks(f, T \ {x}))
  <2> TAKE x \in T
  <2>1. f \in [S -> Nat] /\ T \in SUBSET S /\ x \in T /\ IsFiniteSet(S)
    OBVIOUS
  <2>2. Cardinality(Marks(f, T)) \in Nat
    BY <2>1, MarksStep
  <2>3. Cardinality(Marks(f, T)) = f[x] + Cardinality(Marks(f, T \ {x}))
    BY <2>1, MarksStep
  <2> QED BY <2>2, <2>3
<1>4. Cardinality(Marks(f, T)) \in Nat
  <2>1. CASE T = {}
    BY <1>2, <2>1
  <2>2. CASE T # {}
    BY <1>3, <2>2
  <2> QED BY <2>1, <2>2
<1> QED BY <1>1, <1>2, <1>3, <1>4

\* If each value of f and of g together is that of h and of k together, so are the sums.
LEMMA SumPlus ==
    ASSUME NEW S, IsFiniteSet(S), NEW f \in [S -> Nat], NEW g \in [S -> Nat],
           NEW h \in [S -> Nat], NEW k \in [S -> Nat],
           \A i \in S : f[i] + g[i] = h[i] + k[i]
    PROVE  /\ SumFunction(f) \in Nat /\ SumFunction(g) \in Nat
           /\ SumFunction(h) \in Nat /\ SumFunction(k) \in Nat
           /\ SumFunction(f) + SumFunction(g) = SumFunction(h) + SumFunction(k)
<1> DEFINE Sum(e, T) == SumFunctionOnSet(e, T)
           P == {T \in SUBSET S : Sum(f, T) + Sum(g, T) = Sum(h, T) + Sum(k, T)}
<1>1. \A e \in [S -> Nat], T \in SUBSET S :
         /\ Sum(e, T) \in Nat /\ Sum(e, {}) = 0
         /\ \A x \in T : Sum(e, T) = e[x] + Sum(e, T \ {x})
  BY SumStep
<1> HIDE DEF Sum
<1>2. ASSUME NEW T \in SUBSET S, \A x \in T : T \ {x} \in P PROVE T \in P
  <2>1. CASE T = {}
    BY <1>1, <2>1
  <2>2. CASE T # {}
    <3>1. PICK x \in T : TRUE
      BY <2>2
    <3>2. T \ {x} \in SUBSET S /\ f[x] + g[x] = h[x] + k[x]
      OBVIOUS
    <3>3. /\ f[x] \in Nat /\ g[x] \in Nat /\ h[x] \in Nat /\ k[x] \in Nat
          /\ Sum(f, T \ {x}) \in Nat /\ Sum(g, T \ {x}) \in Nat
          /\ Sum(h, T \ {x}) \in Nat /\ Sum(k, T \ {x}) \in Nat
      BY <1>1, <3>2
    <3>4. Sum(f, T \ {x}) + Sum(g, T \ {x}) = Sum(h, T \ {x}) + Sum(k, T \ {x})
      BY <1>2
    <3>5. /\ Sum(f, T) = f[x] + Sum(f, T \ {x}) /\ Sum(g, T) = g[x] + Sum(g, T \ {x})
          /\ Sum(h, T) = h[x] + Sum(h, T \ {x}) /\ Sum(k, T) = k[x] + Sum(k, T \ {x})
      BY <1>1
    <3> QED BY <3>2, <3>3, <3>4, <3>5
  <2> QED BY <2>1, <2>2
<1>3. \A T \in P : Sum(f, T) + Sum(g, T) = Sum(h, T) + Sum(k, T)
  OBVIOUS
<1> HIDE DEF P
<1>4. SUBSET S \subseteq P
  BY <1>2, Elementwise
<1>5. S \in P /\ S \in SUBSET S
  BY <1>4
<1>6. \A e \in [S -> Nat] : SumFunction(e) = Sum(e, S)
  BY DEF SumFunction, Sum
<1> QED BY <1>1, <1>3, <1>5, <1>6

\* The elements of a finite set, counted by class, add up to all of it.
LEMMA SumOfClasses ==
    ASSUME NEW S, IsFiniteSet(S), NEW A, IsFiniteSet(A), NEW class \in [A -> S],
           NEW f \in [S -> Nat], \A i \in S : f[i] = Cardinality({a \in A : class[a] = i})
    PROVE  SumFunction(f) = Cardinality(A)
<1> DEFINE Sum(T) == SumFunctionOnSet(f, T)
           In(T) == {a \in A : class[a] \in T}
           P == {T \in SUBSET S : Sum(T) = Cardinality(In(T))}
<1>1. \A T \in SUBSET S :
         Sum(T) \in Nat /\ Sum({}) = 0 /\ \A x \in T : Sum(T) = f[x] + Sum(T \ {x})
  BY SumStep
<1>2. \A T : IsFiniteSet(In(T)) /\ Cardinality(In(T)) \in Nat
  <2> TAKE T
  <2>1. In(T) \in SUBSET A
    OBVIOUS
  <2> HIDE DEF In
  <2> QED BY <2>1, FS_Subset, FS_CardinalityType
<1>3. \A T \in SUBSET S, x \in S :
         /\ In({}) = {}
         /\ x \in T => In(T) = In({x}) \cup In(T \ {x}) /\ In({x}) \cap In(T \ {x}) = {}
         /\ f[x] = Cardinality(In({x}))
  OBVIOUS
<1> HIDE DEF Sum, In
<1>4. ASSUME NEW T \in SUBSET S, \A x \in T : T \ {x} \in P PROVE T \in P
  <2>1. CASE T = {}
    <3>1. Sum({}) = 0
      BY <1>1
    <3>2. In({}) = {} /\ {} \in SUBSET S
      BY DEF In
    <3> QED BY <2>1, <3>1, <3>2, FS_EmptySet
  <2>2. CASE T # {}
    <3>1. PICK x \in T : TRUE
      BY <2>2
    <3> DEFINE U == In({x})
               V == In(T \ {x})
    <3>2. In(T) = U \cup V /\ U \cap V = {} /\ f[x] = Cardinality(U)
      BY <1>3
    <3>3. Cardinality(V) = Sum(T \ {x})
      BY <1>4
    <3>4. /\ IsFiniteSet(U) /\ IsFiniteSet(V)
          /\ Cardinality(U) \in Nat /\ Cardinality(V) \in Nat
      BY <1>2
    <3>5. Sum(T) = f[x] + Sum(T \ {x})
      BY <1>1
    <3> HIDE DEF U, V
    <3>6. Cardinality(U \cup V) = Cardinality(U) + Cardinality(V) - Cardinality(U \cap V)
      BY <3>4, FS_Union
    <3>7. Cardinality(U \cap V) = 0
      BY <3>2, FS_EmptySet
    <3>8. Cardinality(In(T)) = Sum(T)
      BY <3>2, <3>3, <3>4, <3>5, <3>6, <3>7
    <3> QED BY <3>8
  <2> QED BY <2>1, <2>2
<1>5. \A T \in P : Sum(T) = Cardinality(In(T))
  OBVIOUS
<1> HIDE DEF P
<1>6. SUBSET S \subseteq P
  BY <1>4, Elementwise
<1>7. S \in P /\ In(S) = A
  BY <1>6 DEF In
<1>8. SumFunction(f) = Sum(S)
  BY DEF SumFunction, Sum
<1> QED BY <1>5, <1>7, <1>8
=============================================================================
