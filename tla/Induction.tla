------------------------------ MODULE Induction ------------------------------
(***************************************************************************)
(* Induction over numbers and finite sets, and functions defined by        *)
(* recursion over them, stated with sets instead of predicates: the facts  *)
(* that the proofs about sums, folds and recursive definitions rest on.    *)
(***************************************************************************)
EXTENDS FiniteSetTheorems, TLAPS

\* What holds of no set of a finite set's subsets without holding of a smaller one
\* holds of none: a family of subsets that is not empty has a minimal member.
LEMMA MinimalSubset ==
  ASSUME NEW S, IsFiniteSet(S), NEW F, F \subseteq SUBSET S, F # {}
  PROVE  \E T \in F : \A U \in F : U \subseteq T => U = T
<1>1. FiniteSubsetsOf(S) = SUBSET S
      BY FS_FiniteSubsetsOfFinite
<1>2. PICK T \in F : \A U \in F : <<U, T>> \notin StrictSubsetOrdering(S)
  <2>1. IsWellFoundedOn(StrictSubsetOrdering(S), SUBSET S)
        BY <1>1, FS_StrictSubsetOrderingWellFounded
  <2>2. QED
        BY <2>1, WFMin
<1>3. \A U \in F : U \subseteq T => U = T
  <2>1. SUFFICES ASSUME NEW U \in F, U \subseteq T, U # T PROVE FALSE
        OBVIOUS
  <2>2. <<U, T>> \in (SUBSET S) \X (SUBSET S)
        OBVIOUS
  <2>3. <<U, T>> \in StrictSubsetOrdering(S)
        BY <2>1, <2>2 DEF StrictSubsetOrdering
  <2>4. QED
        BY <1>2, <2>3
<1>4. QED
      BY <1>3

\* A property of the empty set that a set has when it has it without any one of its
\* elements holds of every subset of a finite set.
LEMMA RemovalInduction ==
  ASSUME NEW S, IsFiniteSet(S), NEW P,
         {} \in P,
         \A T \in SUBSET S : T # {} /\ (\A x \in T : T \ {x} \in P) => T \in P
  PROVE  \A T \in SUBSET S : T \in P
<1>1. SUFFICES ASSUME (SUBSET S) \ P # {} PROVE FALSE
      OBVIOUS
<1> DEFINE F == (SUBSET S) \ P
<1>2. PICK T \in F : \A U \in F : U \subseteq T => U = T
  <2>1. F \subseteq SUBSET S /\ F # {}
        BY <1>1
  <2> HIDE DEF F
  <2>2. QED
        BY <2>1, MinimalSubset
<1>3. T # {}
      BY <1>2
<1>4. ASSUME NEW x \in T PROVE T \ {x} \in P
  <2>1. T \ {x} \in SUBSET S /\ T \ {x} \subseteq T /\ T \ {x} # T
        BY <1>2
  <2>2. QED
        BY <1>2, <2>1
<1>5. QED
      BY <1>2, <1>3, <1>4

\* A property of the empty set that adding an element keeps holds of every subset
\* of a finite set.
LEMMA SubsetInduction ==
  ASSUME NEW S, IsFiniteSet(S), NEW P,
         {} \in P,
         \A T \in SUBSET S : \A x \in T : T \ {x} \in P => T \in P
  PROVE  \A T \in SUBSET S : T \in P
<1>1. \A T \in SUBSET S : T # {} /\ (\A x \in T : T \ {x} \in P) => T \in P
      OBVIOUS
<1>2. QED
      BY <1>1, RemovalInduction

\* A finite set of numbers that is not empty has a largest element.
LEMMA LargestOf ==
  ASSUME NEW S, S \subseteq Int, IsFiniteSet(S), S # {}
  PROVE  \E x \in S : \A y \in S : y <= x
<1> DEFINE P == {T \in SUBSET S : T # {} => \E x \in T : \A y \in T : y <= x}
<1>1. {} \in P
      OBVIOUS
<1>2. ASSUME NEW T \in SUBSET S, NEW x \in T, T \ {x} \in P PROVE T \in P
  <2>1. CASE T \ {x} = {}
    <3>1. \A y \in T : y <= x
          BY <2>1
    <3>2. QED
          BY <3>1
  <2>2. CASE T \ {x} # {}
    <3>1. PICK z \in T \ {x} : \A y \in T \ {x} : y <= z
          BY <1>2, <2>2
    <3>2. x \in Int /\ z \in Int /\ T \subseteq Int
          OBVIOUS
    <3>3. \/ \A y \in T : y <= x
          \/ \A y \in T : y <= z
          BY <3>1, <3>2
    <3>4. QED
          BY <3>1, <3>3
  <2>3. QED
        BY <2>1, <2>2
<1>3. \A T \in SUBSET S : T \in P
  <2> HIDE DEF P
  <2>1. QED
        BY <1>1, <1>2, SubsetInduction
<1>4. QED
      BY <1>3

\* And a smallest one.
LEMMA SmallestOf ==
  ASSUME NEW S, S \subseteq Int, IsFiniteSet(S), S # {}
  PROVE  \E x \in S : \A y \in S : x <= y
<1> DEFINE P == {T \in SUBSET S : T # {} => \E x \in T : \A y \in T : x <= y}
<1>1. {} \in P
      OBVIOUS
<1>2. ASSUME NEW T \in SUBSET S, NEW x \in T, T \ {x} \in P PROVE T \in P
  <2>1. CASE T \ {x} = {}
    <3>1. \A y \in T : x <= y
          BY <2>1
    <3>2. QED
          BY <3>1
  <2>2. CASE T \ {x} # {}
    <3>1. PICK z \in T \ {x} : \A y \in T \ {x} : z <= y
          BY <1>2, <2>2
    <3>2. x \in Int /\ z \in Int /\ T \subseteq Int
          OBVIOUS
    <3>3. \/ \A y \in T : x <= y
          \/ \A y \in T : z <= y
          BY <3>1, <3>2
    <3>4. QED
          BY <3>1, <3>3
  <2>3. QED
        BY <2>1, <2>2
<1>3. \A T \in SUBSET S : T \in P
  <2> HIDE DEF P
  <2>1. QED
        BY <1>1, <1>2, SubsetInduction
<1>4. QED
      BY <1>3

\* A set of numbers that holds zero and the successor of each of its elements.
LEMMA NumberInduction ==
  ASSUME NEW P, 0 \in P, \A n \in Nat : n \in P => n + 1 \in P
  PROVE  \A n \in Nat : n \in P
<1>1. SUFFICES ASSUME NEW n \in Nat, n \notin P PROVE FALSE
      OBVIOUS
<1> DEFINE Bad == {k \in 0..n : k \notin P}
<1>2. IsFiniteSet(Bad) /\ Bad \subseteq Int /\ Bad # {}
  <2>1. IsFiniteSet(0..n)
        BY FS_Interval
  <2>2. Bad \subseteq 0..n /\ n \in Bad
        BY <1>1
  <2>3. Bad \in SUBSET (0..n) /\ 0..n \subseteq Int
        OBVIOUS
  <2>4. IsFiniteSet(Bad)
    <3> HIDE DEF Bad
    <3>1. QED
          BY <2>1, <2>3, FS_Subset
  <2>5. QED
    <3> HIDE DEF Bad
    <3>1. QED
          BY <2>2, <2>3, <2>4
<1>3. PICK k \in Bad : \A j \in Bad : k <= j
  <2> HIDE DEF Bad
  <2>1. QED
        BY <1>2, SmallestOf
<1>4. k \in 0..n /\ k \notin P
      OBVIOUS
<1>5. k # 0 /\ k - 1 \in 0..n
      BY <1>4
<1>6. k - 1 \in P
      BY <1>3, <1>5
<1>7. QED
      BY <1>4, <1>5, <1>6

\* The same up to a number.
LEMMA InductionUpTo ==
  ASSUME NEW N \in Nat, NEW P, 0 \in P, \A n \in 1..N : n - 1 \in P => n \in P
  PROVE  \A n \in 0..N : n \in P
<1> DEFINE Q == {n \in Nat : n \in 0..N => n \in P}
<1>1. 0 \in Q
      OBVIOUS
<1>2. ASSUME NEW n \in Nat, n \in Q PROVE n + 1 \in Q
  <2>1. SUFFICES ASSUME n + 1 \in 0..N PROVE n + 1 \in P
        OBVIOUS
  <2>2. n \in 0..N /\ n + 1 \in 1..N /\ (n + 1) - 1 = n
        BY <2>1
  <2>3. QED
        BY <1>2, <2>2
<1>3. \A n \in Nat : n \in Q
  <2> HIDE DEF Q
  <2>1. QED
        BY <1>1, <1>2, NumberInduction
<1>4. QED
      BY <1>3

\* What a function makes of a finite set is finite.
LEMMA ImageIsFinite ==
  ASSUME NEW S, IsFiniteSet(S), NEW f
  PROVE  IsFiniteSet({f[x] : x \in S})
<1> DEFINE Image(T) == {f[x] : x \in T}
           P == {T \in SUBSET S : IsFiniteSet(Image(T))}
<1>1. {} \in P
  <2>1. Image({}) = {}
        OBVIOUS
  <2>2. IsFiniteSet({})
        BY FS_EmptySet
  <2>3. QED
    <3> HIDE DEF Image
    <3>1. QED
          BY <2>1, <2>2
<1>2. ASSUME NEW T \in SUBSET S, NEW x \in T, T \ {x} \in P PROVE T \in P
  <2>1. Image(T) = Image(T \ {x}) \cup {f[x]}
        OBVIOUS
  <2>2. IsFiniteSet(Image(T \ {x}))
        BY <1>2
  <2> HIDE DEF Image
  <2>3. IsFiniteSet(Image(T \ {x}) \cup {f[x]})
        BY <2>2, FS_AddElement
  <2>4. QED
        BY <2>1, <2>3
<1>3. \A T \in SUBSET S : T \in P
  <2> HIDE DEF P
  <2>1. QED
        BY <1>1, <1>2, SubsetInduction
<1>4. QED
      BY <1>3

-----------------------------------------------------------------------------
(* Functions defined by recursion                                          *)

\* f starts with b, and F takes each of its values to the next.
Iterates(f, N, b, F) == \A n \in 0..N : f[n] = IF n = 0 THEN b ELSE F[f[n - 1]]

\* A function on 0..N given by its first value and how each follows from the last.
LEMMA RecursionOnNumbers ==
  ASSUME NEW N \in Nat, NEW V, NEW b \in V, NEW F \in [V -> V]
  PROVE  \E f \in [0..N -> V] : Iterates(f, N, b, F)
<1> DEFINE Follows(f, m) == /\ f \in [0..m -> V]
                            /\ \A n \in 0..m : f[n] = IF n = 0 THEN b ELSE F[f[n - 1]]
           P == {m \in Nat : \E f : Follows(f, m)}
<1>1. 0 \in P
  <2>1. Follows([n \in 0..0 |-> b], 0)
        OBVIOUS
  <2>2. QED
    <3> HIDE DEF Follows
    <3>1. QED
          BY <2>1
<1>2. ASSUME NEW m \in Nat, m \in P PROVE m + 1 \in P
  <2>1. PICK f : Follows(f, m)
    <3> HIDE DEF Follows
    <3>1. QED
          BY <1>2
  <2> DEFINE g == [n \in 0..m + 1 |-> IF n \in 0..m THEN f[n] ELSE F[f[m]]]
  <2>2. g \in [0..m + 1 -> V]
        BY <2>1
  <2>3. ASSUME NEW n \in 0..m + 1 PROVE g[n] = IF n = 0 THEN b ELSE F[g[n - 1]]
    <3>1. CASE n = 0
          BY <2>1, <3>1
    <3>2. CASE n \in 1..m
          BY <2>1, <3>2
    <3>3. CASE n = m + 1
          BY <2>1, <3>3
    <3>4. QED
          BY <3>1, <3>2, <3>3
  <2>4. Follows(g, m + 1)
    <3> HIDE DEF g
    <3>1. QED
          BY <2>2, <2>3
  <2>5. QED
    <3> HIDE DEF Follows
    <3>1. QED
          BY <2>4
<1>3. N \in P
  <2> HIDE DEF P
  <2>1. QED
        BY <1>1, <1>2, NumberInduction
<1>4. PICK f : Follows(f, N)
  <2> HIDE DEF Follows
  <2>1. QED
        BY <1>3
<1>5. QED
      BY <1>4 DEF Iterates

\* The same where a value also follows from the number it is for.
StepsThrough(f, N, b, F) == \A n \in 0..N : f[n] = IF n = 0 THEN b ELSE F[<<n, f[n - 1]>>]

LEMMA RecursionByStep ==
  ASSUME NEW N \in Nat, NEW V, NEW b \in V, NEW F \in [Nat \X V -> V]
  PROVE  \E f \in [0..N -> V] : StepsThrough(f, N, b, F)
<1> DEFINE W == Nat \X V
           G == [e \in W |-> <<e[1] + 1, F[<<e[1] + 1, e[2]>>]>>]
<1>1. G \in [W -> W] /\ <<0, b>> \in W
  <2>1. \A e \in W : e[1] + 1 \in Nat /\ e[2] \in V
        OBVIOUS
  <2>2. \A e \in W : F[<<e[1] + 1, e[2]>>] \in V
        BY <2>1
  <2>3. QED
        BY <2>1, <2>2
<1>2. PICK g \in [0..N -> W] : Iterates(g, N, <<0, b>>, G)
  <2> HIDE DEF W, G
  <2>1. QED
        BY <1>1, RecursionOnNumbers
<1> DEFINE P == {n \in Nat : n \in 0..N => g[n][1] = n}
           f == [n \in 0..N |-> g[n][2]]
<1>3. g[0] = <<0, b>> /\ \A n \in 1..N : g[n] = G[g[n - 1]]
  <2> DEFINE start == <<0, b>>
  <2>1. \A n \in 0..N : g[n] = IF n = 0 THEN start ELSE G[g[n - 1]]
        BY <1>2 DEF Iterates
  <2>2. 0 \in 0..N /\ \A n \in 1..N : n \in 0..N /\ n # 0
        OBVIOUS
  <2> HIDE DEF start, G, W
  <2>3. g[0] = start
        BY <2>1, <2>2
  <2>4. \A n \in 1..N : g[n] = G[g[n - 1]]
        BY <2>1, <2>2
  <2>5. QED
        BY <2>3, <2>4 DEF start
<1>4. \A n \in Nat : n \in P
  <2>1. 0 \in P
        BY <1>3
  <2>2. ASSUME NEW n \in Nat, n \in P PROVE n + 1 \in P
    <3>1. SUFFICES ASSUME n + 1 \in 0..N PROVE g[n + 1][1] = n + 1
          OBVIOUS
    <3>2. n \in 0..N /\ n + 1 \in 1..N /\ (n + 1) - 1 = n
          BY <3>1
    <3>3. g[n][1] = n /\ g[n] \in W
          BY <2>2, <3>2
    <3>4. g[n + 1] = <<g[n][1] + 1, F[<<g[n][1] + 1, g[n][2]>>]>>
          BY <1>3, <3>2, <3>3
    <3>5. QED
          BY <3>3, <3>4
  <2> HIDE DEF P
  <2>3. QED
        BY <2>1, <2>2, NumberInduction
<1>5. f \in [0..N -> V]
      OBVIOUS
<1>6. \A n \in 0..N : f[n] = IF n = 0 THEN b ELSE F[<<n, f[n - 1]>>]
  <2> TAKE n \in 0..N
  <2>1. CASE n = 0
        BY <1>3, <2>1
  <2>2. CASE n # 0
    <3>1. n - 1 \in 0..N /\ n \in 1..N /\ n - 1 \in Nat
          BY <2>2
    <3>2. g[n - 1][1] = n - 1 /\ g[n - 1] \in W
          BY <1>4, <3>1
    <3>3. g[n] = <<g[n - 1][1] + 1, F[<<g[n - 1][1] + 1, g[n - 1][2]>>]>>
          BY <1>3, <3>1, <3>2
    <3>4. g[n - 1][1] + 1 = n
          BY <3>2
    <3>5. g[n] = <<n, F[<<n, g[n - 1][2]>>]>>
          BY <3>3, <3>4
    <3>6. g[n][2] = F[<<n, g[n - 1][2]>>]
          BY <3>5
    <3>7. f[n] = g[n][2] /\ f[n - 1] = g[n - 1][2]
          BY <3>1
    <3>8. QED
          BY <2>2, <3>6, <3>7
  <2>3. QED
        BY <2>1, <2>2
<1>7. StepsThrough(f, N, b, F)
      BY <1>6 DEF StepsThrough
<1>8. QED
      BY <1>5, <1>7

\* f is b on the empty set, and F takes each set, with the value on what is left of it
\* when its pick is taken away, to its value.
Accumulates(f, S, b, pick, F) ==
  \A T \in SUBSET S : f[T] = IF T = {} THEN b ELSE F[<<T, f[T \ {pick[T]}]>>]

\* A function on the subsets of a finite set, where one element is taken from each.
LEMMA RecursionOnSubsets ==
  ASSUME NEW S, IsFiniteSet(S), NEW V, NEW b \in V,
         NEW pick, \A T \in SUBSET S : T # {} => pick[T] \in T,
         NEW F \in [(SUBSET S) \X V -> V]
  PROVE  \E f \in [SUBSET S -> V] : Accumulates(f, S, b, pick, F)
<1> DEFINE UpTo(m) == {T \in SUBSET S : Cardinality(T) <= m}
           Follows(f, m) ==
             /\ f \in [UpTo(m) -> V]
             /\ \A T \in UpTo(m) : f[T] = IF T = {} THEN b ELSE F[<<T, f[T \ {pick[T]}]>>]
           P == {m \in Nat : \E f : Follows(f, m)}
<1>1. \A T \in SUBSET S : IsFiniteSet(T) /\ Cardinality(T) \in Nat
      BY FS_Subset, FS_CardinalityType
<1>2. ASSUME NEW T \in SUBSET S, T # {}
      PROVE  /\ T \ {pick[T]} \in SUBSET S
             /\ Cardinality(T \ {pick[T]}) = Cardinality(T) - 1
             /\ Cardinality(T) # 0
  <2>1. IsFiniteSet(T)
        BY <1>1
  <2>2. pick[T] \in T
        BY <1>2
  <2>3. Cardinality(T \ {pick[T]}) = Cardinality(T) - 1
        BY <2>1, <2>2, FS_RemoveElement
  <2>4. Cardinality(T) # 0
        BY <1>2, <2>1, FS_EmptySet
  <2>5. QED
        BY <2>3, <2>4
<1>3. 0 \in P
  <2>1. UpTo(0) = {{}}
    <3>1. Cardinality({}) = 0
          BY FS_EmptySet
    <3>2. ASSUME NEW T \in SUBSET S, Cardinality(T) <= 0 PROVE T = {}
      <4>1. IsFiniteSet(T) /\ Cardinality(T) = 0
            BY <1>1, <3>2
      <4>2. QED
            BY <4>1, FS_EmptySet
    <3>3. {} \in UpTo(0)
          BY <3>1
    <3>4. \A T \in UpTo(0) : T = {}
          BY <3>2
    <3>5. QED
      <4> HIDE DEF UpTo
      <4>1. QED
            BY <3>3, <3>4
  <2>2. Follows([T \in UpTo(0) |-> b], 0)
    <3> HIDE DEF UpTo
    <3>1. QED
          BY <2>1
  <2>3. QED
    <3> HIDE DEF Follows
    <3>1. QED
          BY <2>2
<1>4. ASSUME NEW m \in Nat, m \in P PROVE m + 1 \in P
  <2>1. PICK f : Follows(f, m)
    <3> HIDE DEF Follows
    <3>1. QED
          BY <1>4
  <2> DEFINE g == [T \in UpTo(m + 1) |-> IF T \in UpTo(m) THEN f[T] ELSE F[<<T, f[T \ {pick[T]}]>>]]
  <2>2. ASSUME NEW T \in UpTo(m + 1), T # {}
        PROVE  /\ T \ {pick[T]} \in UpTo(m) /\ T \ {pick[T]} \in UpTo(m + 1)
               /\ T \in SUBSET S /\ f[T \ {pick[T]}] \in V
    <3>1. T \in SUBSET S /\ Cardinality(T) <= m + 1 /\ Cardinality(T) \in Nat
          BY <1>1
    <3>2. T \ {pick[T]} \in SUBSET S /\ Cardinality(T \ {pick[T]}) = Cardinality(T) - 1
          BY <1>2, <2>2, <3>1
    <3>3. T \ {pick[T]} \in UpTo(m) /\ T \ {pick[T]} \in UpTo(m + 1)
          BY <3>1, <3>2
    <3>4. f[T \ {pick[T]}] \in V
      <4> HIDE DEF UpTo
      <4>1. QED
            BY <2>1, <3>3
    <3>5. QED
      <4> HIDE DEF UpTo
      <4>1. QED
            BY <3>1, <3>3, <3>4
  <2>3. {} \in UpTo(m)
    <3>1. Cardinality({}) = 0
          BY FS_EmptySet
    <3>2. QED
          BY <3>1
  <2>4. g \in [UpTo(m + 1) -> V]
    <3>1. ASSUME NEW T \in UpTo(m + 1) PROVE g[T] \in V
      <4> HIDE DEF UpTo
      <4>1. CASE T \in UpTo(m)
            BY <2>1, <4>1
      <4>2. CASE T \notin UpTo(m)
        <5>1. T # {}
              BY <2>3, <4>2
        <5>2. <<T, f[T \ {pick[T]}]>> \in (SUBSET S) \X V
              BY <2>2, <5>1
        <5>3. QED
              BY <4>2, <5>2
      <4>3. QED
            BY <4>1, <4>2
    <3>2. QED
      <4> HIDE DEF UpTo
      <4>1. QED
            BY <3>1
  <2>5. ASSUME NEW T \in UpTo(m + 1) PROVE g[T] = IF T = {} THEN b ELSE F[<<T, g[T \ {pick[T]}]>>]
    <3> HIDE DEF UpTo
    <3>1. CASE T = {}
          BY <2>1, <2>3, <3>1
    <3>2. CASE T # {}
      <4>1. g[T \ {pick[T]}] = f[T \ {pick[T]}]
            BY <2>2, <3>2
      <4>2. CASE T \in UpTo(m)
        <5>1. f[T] = F[<<T, f[T \ {pick[T]}]>>]
              BY <2>1, <3>2, <4>2
        <5>2. g[T] = f[T]
              BY <4>2
        <5>3. QED
          <6> HIDE DEF g
          <6>1. QED
                BY <3>2, <4>1, <5>1, <5>2
      <4>3. CASE T \notin UpTo(m)
            BY <3>2, <4>1, <4>3
      <4>4. QED
            BY <4>2, <4>3
    <3>3. QED
          BY <3>1, <3>2
  <2>6. Follows(g, m + 1)
    <3> HIDE DEF UpTo, g
    <3>1. QED
          BY <2>4, <2>5
  <2>7. QED
    <3> HIDE DEF Follows
    <3>1. QED
          BY <2>6
<1>5. Cardinality(S) \in P
  <2>1. Cardinality(S) \in Nat
        BY FS_CardinalityType
  <2> HIDE DEF P
  <2>2. QED
        BY <2>1, <1>3, <1>4, NumberInduction
<1>6. PICK f : Follows(f, Cardinality(S))
  <2> HIDE DEF Follows
  <2>1. QED
        BY <1>5
<1>7. UpTo(Cardinality(S)) = SUBSET S
      BY FS_Subset
<1>8. /\ f \in [SUBSET S -> V]
      /\ \A T \in SUBSET S : f[T] = IF T = {} THEN b ELSE F[<<T, f[T \ {pick[T]}]>>]
  <2> HIDE DEF UpTo
  <2>1. QED
        BY <1>6, <1>7
<1>9. QED
  <2> HIDE DEF Follows, UpTo, P
  <2>1. QED
        BY <1>8 DEF Accumulates

\* A function on 1..N where each value follows from the value of a smaller number.
Descends(f, N, b, parent, F) ==
  \A n \in 1..N : f[n] = IF parent[n] = n THEN b[n] ELSE F[<<n, f[parent[n]]>>]

LEMMA RecursionOnAncestors ==
  ASSUME NEW N \in Nat, NEW V, NEW b, \A n \in 1..N : b[n] \in V, NEW F \in [Nat \X V -> V],
         NEW parent, \A n \in 1..N : parent[n] \in 1..n
  PROVE  \E f \in [1..N -> V] : Descends(f, N, b, parent, F)
<1> DEFINE Upto(m) == {k \in 1..N : k <= m}
           Follows(f, m) ==
             /\ f \in [Upto(m) -> V]
             /\ \A n \in Upto(m) : f[n] = IF parent[n] = n THEN b[n] ELSE F[<<n, f[parent[n]]>>]
           P == {m \in Nat : \E f : Follows(f, m)}
<1>1. 0 \in P
  <2>1. Upto(0) = {}
        OBVIOUS
  <2>2. Follows([n \in Upto(0) |-> b[n]], 0)
    <3> HIDE DEF Upto
    <3>1. QED
          BY <2>1
  <2>3. QED
    <3> HIDE DEF Follows
    <3>1. QED
          BY <2>2
<1>2. ASSUME NEW m \in Nat, m \in P PROVE m + 1 \in P
  <2>1. PICK f : Follows(f, m)
    <3> HIDE DEF Follows
    <3>1. QED
          BY <1>2
  <2> DEFINE g == [n \in Upto(m + 1) |->
                     IF n \in Upto(m) THEN f[n] ELSE IF parent[n] = n THEN b[n] ELSE F[<<n, f[parent[n]]>>]]
  <2>2. \A n \in Upto(m) : f[n] \in V
        BY <2>1
  <2>3. ASSUME NEW n \in Upto(m + 1)
        PROVE  /\ n \in Nat /\ n \in 1..N /\ parent[n] \in Upto(m + 1)
               /\ parent[n] # n => parent[n] \in Upto(m)
    <3>1. n \in 1..N /\ n <= m + 1
          OBVIOUS
    <3>2. parent[n] \in 1..n
          BY <3>1
    <3>3. QED
          BY <3>1, <3>2
  <2> HIDE DEF Upto
  <2>4. ASSUME NEW n \in Upto(m + 1), parent[n] # n PROVE F[<<n, f[parent[n]]>>] \in V
    <3>1. n \in Nat /\ f[parent[n]] \in V
          BY <2>2, <2>3, <2>4
    <3>2. QED
          BY <3>1
  <2>5. g \in [Upto(m + 1) -> V]
        BY <2>2, <2>3, <2>4
  <2>6. ASSUME NEW n \in Upto(m + 1)
        PROVE  g[n] = IF parent[n] = n THEN b[n] ELSE F[<<n, g[parent[n]]>>]
    <3>1. parent[n] # n => g[parent[n]] = f[parent[n]]
          BY <2>3
    <3>2. n \in Upto(m) => f[n] = IF parent[n] = n THEN b[n] ELSE F[<<n, f[parent[n]]>>]
          BY <2>1
    <3>3. g[n] = IF parent[n] = n THEN b[n] ELSE F[<<n, f[parent[n]]>>]
          BY <3>2
    <3> HIDE DEF g
    <3>4. QED
          BY <3>1, <3>3
  <2>7. Follows(g, m + 1)
    <3> HIDE DEF g
    <3>1. QED
          BY <2>5, <2>6
  <2>8. QED
    <3> HIDE DEF Follows
    <3>1. QED
          BY <2>7
<1>3. N \in P
  <2> HIDE DEF P
  <2>1. QED
        BY <1>1, <1>2, NumberInduction
<1>4. PICK f : Follows(f, N)
  <2> HIDE DEF Follows
  <2>1. QED
        BY <1>3
<1>5. Upto(N) = 1..N
      OBVIOUS
<1> HIDE DEF Upto
<1>6. QED
      BY <1>4, <1>5 DEF Descends
=============================================================================
