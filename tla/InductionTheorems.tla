-------------------------- MODULE InductionTheorems --------------------------
(* Induction and recursion, stated over sets and functions so that they can  *)
(* be cited: the least number, recursion over the natural numbers, induction *)
(* over a finite set, and what the sum of a function over one is.            *)
EXTENDS Integers, FiniteSets, Functions, FiniteSetTheorems, WellFoundedInduction, TLAPS

(* Of a set of natural numbers there is a least.                             *)
LEMMA LeastNumber ==
    ASSUME NEW T, T \subseteq Nat, T # {}
    PROVE  \E x \in T : \A y \in T : x <= y
<1>1. IsWellFoundedOn(OpToRel(<, Nat), Nat)
      BY NatLessThanWellFounded
<1>2. PICK x \in T : \A y \in T : ~ (<<y, x>> \in OpToRel(<, Nat))
      BY <1>1, WFMin
<1>3. \A y \in T : <<y, x>> \in OpToRel(<, Nat) <=> y < x
      BY DEF OpToRel
<1>4. \A y \in T : ~ (y < x)
      BY <1>2, <1>3, Zenon
<1>5. \A y \in T : x \in Nat /\ y \in Nat
      OBVIOUS
<1>. QED BY <1>4, <1>5

(* What holds of a number when it holds of all smaller ones holds of all.    *)
LEMMA StrongInduction ==
    ASSUME NEW P, \A n \in Nat : (\A m \in Nat : m < n => m \in P) => n \in P
    PROVE  Nat \subseteq P
<1>. DEFINE T == {n \in Nat : n \notin P}
<1>1. SUFFICES ASSUME T # {} PROVE FALSE
      OBVIOUS
<1>2. PICK n \in T : \A m \in T : n <= m
      BY <1>1, LeastNumber
<1>3. \A m \in Nat : m < n => m \in P
      BY <1>2
<1>. QED BY <1>2, <1>3

(* What holds of 0, and of a successor when of its predecessor, holds of all.*)
LEMMA Induction ==
    ASSUME NEW P, 0 \in P, \A n \in Nat : n \in P => n + 1 \in P
    PROVE  Nat \subseteq P
<1>1. ASSUME NEW n \in Nat, \A m \in Nat : m < n => m \in P
      PROVE  n \in P
  <2>1. CASE n = 0
        BY <2>1
  <2>2. CASE n # 0
    <3>1. n - 1 \in Nat /\ n - 1 < n /\ (n - 1) + 1 = n
          BY <2>2
    <3>2. n - 1 \in P
          BY <1>1, <3>1
    <3>. QED BY <3>1, <3>2
  <2>. QED BY <2>1, <2>2
<1>. QED BY <1>1, StrongInduction

-----------------------------------------------------------------------------
(* A function on the natural numbers may be given by its first value and a   *)
(* step from each value to the next.                                         *)
Iterates(f, S, base, step) ==
    /\ f \in [Nat -> S]
    /\ f[0] = base
    /\ \A n \in Nat : f[n + 1] = step[n][f[n]]

LEMMA NatRecursion ==
    ASSUME NEW S, NEW base \in S, NEW step \in [Nat -> [S -> S]]
    PROVE  \E f : Iterates(f, S, base, step)
<1>. DEFINE Upto(n, g) == /\ g \in [0..n -> S] /\ g[0] = base
                          /\ \A m \in 0..(n - 1) : g[m + 1] = step[m][g[m]]
            P == {n \in Nat : \E g : Upto(n, g)}
<1>1. 0 \in P
  <2>1. Upto(0, [m \in 0..0 |-> base])
        OBVIOUS
  <2>. QED BY <2>1
<1>2. ASSUME NEW n \in Nat, n \in P
      PROVE  n + 1 \in P
  <2>1. PICK g : Upto(n, g)
        BY <1>2
  <2>. DEFINE h == [m \in 0..(n + 1) |-> IF m = n + 1 THEN step[n][g[n]] ELSE g[m]]
  <2>2. g[n] \in S /\ n \in 0..n /\ 0 \in 0..n /\ step[n][g[n]] \in S
    <3>1. n \in 0..n /\ 0 \in 0..n
          OBVIOUS
    <3>2. g[n] \in S
          BY <2>1, <3>1
    <3>. QED BY <3>1, <3>2
  <2>3. h \in [0..(n + 1) -> S] /\ h[0] = base
    <3>1. \A m \in 0..(n + 1) : m # n + 1 => m \in 0..n
          OBVIOUS
    <3>2. \A m \in 0..n : g[m] \in S
          BY <2>1
    <3>3. 0 # n + 1 /\ 0 \in 0..(n + 1)
          OBVIOUS
    <3>. QED BY <2>1, <2>2, <3>1, <3>2, <3>3
  <2>4. ASSUME NEW m \in 0..n
        PROVE  h[m + 1] = step[m][h[m]]
    <3>1. CASE m = n
      <4>1. n # n + 1 /\ n \in 0..(n + 1) /\ n + 1 \in 0..(n + 1)
            OBVIOUS
      <4>2. h[n + 1] = step[n][g[n]] /\ h[n] = g[n]
            BY <4>1
      <4>. QED BY <3>1, <4>2
    <3>2. CASE m # n
      <4>1. m \in 0..(n - 1) /\ m + 1 \in 0..(n + 1) /\ m + 1 # n + 1 /\ m # n + 1
            BY <3>2
      <4>2. h[m + 1] = g[m + 1] /\ h[m] = g[m]
            BY <4>1
      <4>. QED BY <2>1, <4>1, <4>2
    <3>. QED BY <3>1, <3>2
  <2>5. (n + 1) - 1 = n
        OBVIOUS
  <2>. HIDE DEF h
  <2>6. Upto(n + 1, h)
        BY <2>3, <2>4, <2>5
  <2>. QED BY <2>6
<1>3. Nat \subseteq P
  <2>. HIDE DEF P
  <2>. QED BY <1>1, <1>2, Induction
<1>4. ASSUME NEW n \in Nat, NEW k \in Nat, n <= k, NEW g, Upto(n, g), NEW h, Upto(k, h)
      PROVE  g[n] = h[n]
  <2>. DEFINE Q == {m \in Nat : m <= n => g[m] = h[m]}
  <2>1. 0 \in Q
    <3>1. g[0] = base /\ h[0] = base
          BY <1>4
    <3>. QED BY <3>1
  <2>2. ASSUME NEW m \in Nat, m \in Q
        PROVE  m + 1 \in Q
    <3>1. CASE m + 1 <= n
      <4>1. m \in 0..(n - 1) /\ m \in 0..(k - 1) /\ m <= n
            BY <1>4, <3>1
      <4>2. g[m] = h[m]
            BY <2>2, <4>1
      <4>3. g[m + 1] = step[m][g[m]]
            BY <1>4, <4>1
      <4>4. h[m + 1] = step[m][h[m]]
            BY <1>4, <4>1
      <4>. QED BY <4>2, <4>3, <4>4
    <3>2. CASE ~(m + 1 <= n)
          BY <3>2
    <3>. QED BY <3>1, <3>2
  <2>3. Nat \subseteq Q
    <3>. HIDE DEF Q
    <3>. QED BY <2>1, <2>2, Induction
  <2>. QED BY <2>3
<1>. DEFINE G(n) == CHOOSE g : Upto(n, g)
            f == [n \in Nat |-> G(n)[n]]
<1>5. ASSUME NEW n \in Nat
      PROVE  Upto(n, G(n))
  <2>1. n \in P
        BY <1>3
  <2>2. \E g : Upto(n, g)
        BY <2>1
  <2>. HIDE DEF Upto, P
  <2>. QED BY <2>2
<1>6. ASSUME NEW n \in Nat
      PROVE  f[n] \in S
  <2>. HIDE DEF G
  <2>1. G(n) \in [0..n -> S] /\ n \in 0..n
        BY <1>5
  <2>. QED BY <2>1
<1>7. f[0] = base
  <2>. HIDE DEF G
  <2>1. G(0)[0] = base
        BY <1>5
  <2>. QED BY <2>1
<1>8. ASSUME NEW n \in Nat
      PROVE  f[n + 1] = step[n][f[n]]
  <2>1. n + 1 \in Nat /\ n <= n + 1 /\ n \in 0..((n + 1) - 1)
        OBVIOUS
  <2>2. Upto(n, G(n)) /\ Upto(n + 1, G(n + 1))
    <3>. HIDE DEF G, Upto
    <3>. QED BY <1>5, <2>1
  <2>3. G(n + 1)[n + 1] = step[n][G(n + 1)[n]]
    <3>. HIDE DEF G
    <3>. QED BY <2>1, <2>2
  <2>4. G(n)[n] = G(n + 1)[n]
    <3>. HIDE DEF G, Upto
    <3>. QED BY <1>4, <2>1, <2>2
  <2>. HIDE DEF G, Upto
  <2>. QED BY <2>1, <2>3, <2>4
<1>9. f \in [Nat -> S]
  <2>. HIDE DEF G
  <2>. QED BY <1>6
<1>. HIDE DEF f
<1>10. Iterates(f, S, base, step)
       BY <1>7, <1>8, <1>9 DEF Iterates
<1>. QED BY <1>10

-----------------------------------------------------------------------------
(* A value may depend on all the ones before it. The function is what the    *)
(* approximations, each made from the whole of the one before, settle on.    *)
LooksBack(S, step) ==
    \A n \in Nat : \A f, g \in [Nat -> S] :
        (\A m \in Nat : m < n => f[m] = g[m]) => step[n][f] = step[n][g]

Settles(f, S, step) == f \in [Nat -> S] /\ \A n \in Nat : f[n] = step[n][f]

LEMMA StrongRecursion ==
    ASSUME NEW S, NEW some \in S, NEW step \in [Nat -> [[Nat -> S] -> S]], LooksBack(S, step)
    PROVE  \E f : Settles(f, S, step)
<1>. DEFINE F == [Nat -> S]
            first == [n \in Nat |-> some]
            improve == [k \in Nat |-> [f \in F |-> [n \in Nat |-> step[n][f]]]]
<1>1. first \in F /\ improve \in [Nat -> [F -> F]]
      OBVIOUS
<1>2. PICK g : Iterates(g, F, first, improve)
  <2>. HIDE DEF F, first, improve
  <2>. QED BY <1>1, NatRecursion
<1>3. g \in [Nat -> F] /\ \A k \in Nat : g[k + 1] = improve[k][g[k]]
      BY <1>2 DEF Iterates
<1>4. ASSUME NEW k \in Nat, NEW n \in Nat
      PROVE  g[k] \in F /\ g[k + 1][n] = step[n][g[k]]
  <2>1. g[k] \in F /\ g[k + 1] = [m \in Nat |-> step[m][g[k]]]
        BY <1>3
  <2>. QED BY <2>1
<1>. DEFINE P == {n \in Nat : \A k \in Nat : k > n => g[k][n] = g[n + 1][n]}
<1>. HIDE DEF first, improve
<1>5. ASSUME NEW n \in Nat, \A m \in Nat : m < n => m \in P
      PROVE  n \in P
  <2>1. ASSUME NEW k \in Nat, k > n
        PROVE  g[k][n] = g[n + 1][n]
    <3>1. k - 1 \in Nat /\ (k - 1) + 1 = k /\ k - 1 >= n
          BY <2>1
    <3>2. ASSUME NEW m \in Nat, m < n
          PROVE  g[k - 1][m] = g[n][m]
      <4>1. g[k - 1][m] = g[m + 1][m] /\ g[n][m] = g[m + 1][m]
            BY <1>5, <3>1, <3>2
      <4>. QED BY <4>1
    <3>3. g[k - 1] \in F /\ g[n] \in F
          BY <1>4, <3>1
    <3>4. step[n][g[k - 1]] = step[n][g[n]]
          BY <3>2, <3>3 DEF LooksBack
    <3>5. g[(k - 1) + 1][n] = step[n][g[k - 1]] /\ g[n + 1][n] = step[n][g[n]]
          BY <1>4, <3>1
    <3>. QED BY <3>1, <3>4, <3>5
  <2>. QED BY <2>1
<1>6. Nat \subseteq P
  <2>. HIDE DEF P
  <2>. QED BY <1>5, StrongInduction
<1>. DEFINE f == [n \in Nat |-> g[n + 1][n]]
<1>7. \A n \in Nat : g[n + 1] \in F
      BY <1>4
<1>8. f \in F
      BY <1>7
<1>9. ASSUME NEW n \in Nat
      PROVE  f[n] = step[n][f]
  <2>1. ASSUME NEW m \in Nat, m < n
        PROVE  f[m] = g[n][m]
        BY <1>6, <2>1
  <2>2. step[n][f] = step[n][g[n]]
    <3>1. g[n] \in F
          BY <1>4
    <3>. HIDE DEF f
    <3>. QED BY <1>8, <2>1, <3>1 DEF LooksBack
  <2>3. f[n] = step[n][g[n]]
        BY <1>4
  <2>. QED BY <2>2, <2>3
<1>. HIDE DEF f, F
<1>10. Settles(f, S, step)
      BY <1>8, <1>9 DEF Settles, F
<1>. QED BY <1>10

-----------------------------------------------------------------------------
(* What holds of the empty set, and of a subset of a finite set when it does *)
(* of all that have one element less, holds of all its subsets.              *)
LEMMA SubsetInduction ==
    ASSUME NEW S, IsFiniteSet(S), NEW P, {} \in P,
           \A T \in SUBSET S : (T # {} /\ \A x \in T : T \ {x} \in P) => T \in P
    PROVE  \A T \in SUBSET S : T \in P
<1>. DEFINE Q == {n \in Nat : \A T \in SUBSET S : Cardinality(T) = n => T \in P}
<1>1. \A T \in SUBSET S : IsFiniteSet(T) /\ Cardinality(T) \in Nat
      BY FS_Subset, FS_CardinalityType
<1>2. 0 \in Q
      BY <1>1, FS_EmptySet
<1>3. ASSUME NEW n \in Nat, n \in Q
      PROVE  n + 1 \in Q
  <2>1. SUFFICES ASSUME NEW T \in SUBSET S, Cardinality(T) = n + 1
                 PROVE  T \in P
        OBVIOUS
  <2>2. T # {}
    <3>1. Cardinality({}) = 0 /\ n + 1 # 0
          BY FS_EmptySet
    <3>. QED BY <2>1, <3>1
  <2>3. ASSUME NEW x \in T
        PROVE  T \ {x} \in P
    <3>1. Cardinality(T \ {x}) = n
          BY <1>1, <2>1, FS_RemoveElement
    <3>. QED BY <1>3, <3>1
  <2>. QED BY <2>2, <2>3
<1>4. Nat \subseteq Q
  <2>. HIDE DEF Q
  <2>. QED BY <1>2, <1>3, Induction
<1>. QED BY <1>1, <1>4

-----------------------------------------------------------------------------
(* Sums of functions over finite sets                                        *)

SomeOf(s) == CHOOSE x \in s : TRUE

(* The recursive function that SumFunctionOnSet evaluates.                   *)
IsSum(sum, f, S) ==
    sum = [s \in SUBSET S |-> IF s = {} THEN 0 ELSE f[SomeOf(s)] + sum[s \ {SomeOf(s)}]]

(* There is such a function: sets of n elements get their sum after n steps. *)
LEMMA SumExists ==
    ASSUME NEW S, IsFiniteSet(S), NEW f, \A x \in S : f[x] \in Int
    PROVE  \E sum \in [SUBSET S -> Int] : IsSum(sum, f, S)
<1>. DEFINE Next(g) == [s \in SUBSET S |->
                           IF s = {} THEN 0 ELSE f[SomeOf(s)] + g[s \ {SomeOf(s)}]]
            V == [SUBSET S -> Int]
            step == [n \in Nat |-> [g \in V |-> Next(g)]]
            zero == [s \in SUBSET S |-> 0]
<1>1. ASSUME NEW s \in SUBSET S, s # {}
      PROVE  SomeOf(s) \in s /\ SomeOf(s) \in S /\ s \ {SomeOf(s)} \in SUBSET S
      BY <1>1 DEF SomeOf
<1>2. ASSUME NEW g \in V
      PROVE  Next(g) \in V
      BY <1>1
<1>3. zero \in V /\ step \in [Nat -> [V -> V]]
  <2>1. zero \in V
        OBVIOUS
  <2>. HIDE DEF Next, V, zero
  <2>. QED BY <1>2, <2>1
<1>4. PICK F : Iterates(F, V, zero, step)
  <2>. HIDE DEF V, step, zero
  <2>. QED BY <1>3, NatRecursion
<1>5. ASSUME NEW n \in Nat
      PROVE  F[n + 1] = Next(F[n])
  <2>. HIDE DEF V, zero, Next
  <2>. QED BY <1>4 DEF Iterates
<1>. DEFINE sum == [s \in SUBSET S |-> F[Cardinality(s)][s]]
<1>6. ASSUME NEW s \in SUBSET S
      PROVE  Cardinality(s) \in Nat /\ IsFiniteSet(s)
      BY FS_Subset, FS_CardinalityType
<1>7. ASSUME NEW s \in SUBSET S
      PROVE  sum[s] = IF s = {} THEN 0 ELSE f[SomeOf(s)] + sum[s \ {SomeOf(s)}]
  <2>1. CASE s = {}
    <3>1. Cardinality(s) = 0
          BY <2>1, FS_EmptySet
    <3>. QED BY <1>4, <2>1, <3>1 DEF Iterates
  <2>2. CASE s # {}
    <3>. DEFINE t == s \ {SomeOf(s)}
    <3>1. Cardinality(t) \in Nat /\ Cardinality(s) = Cardinality(t) + 1 /\ t \in SUBSET S
      <4>1. Cardinality(t) = Cardinality(s) - 1
            BY <1>1, <1>6, <2>2, FS_RemoveElement
      <4>. QED BY <1>1, <1>6, <2>2, <4>1
    <3>2. F[Cardinality(s)] = Next(F[Cardinality(t)])
      <4>. HIDE DEF Next
      <4>. QED BY <1>5, <3>1
    <3>3. F[Cardinality(s)][s] = f[SomeOf(s)] + F[Cardinality(t)][t]
          BY <2>2, <3>2
    <3>. QED BY <2>2, <3>1, <3>3
  <2>. QED BY <2>1, <2>2
<1>8. sum \in [SUBSET S -> Int]
      BY <1>4, <1>6 DEF Iterates
<1>. HIDE DEF sum
<1>9. IsSum(sum, f, S)
      BY <1>7, <1>8 DEF IsSum
<1>. QED BY <1>8, <1>9

(* The sum over a subset is found on the way to that over the set.           *)
LEMMA SumIsSum ==
    ASSUME NEW S, IsFiniteSet(S), NEW f, \A x \in S : f[x] \in Int
    PROVE  /\ SumFunctionOnSet(f, {}) = 0
           /\ \A T \in SUBSET S :
                 /\ SumFunctionOnSet(f, T) \in Int
                 /\ T # {} => SumFunctionOnSet(f, T)
                                = f[SomeOf(T)] + SumFunctionOnSet(f, T \ {SomeOf(T)})
<1>. DEFINE Sum(T) == CHOOSE sum : IsSum(sum, f, T)
<1>1. ASSUME NEW T \in SUBSET S
      PROVE  /\ IsSum(Sum(T), f, T)
             /\ SumFunctionOnSet(f, T) = Sum(T)[T]
  <2>1. IsFiniteSet(T) /\ \A x \in T : f[x] \in Int
        BY FS_Subset
  <2>2. \E sum : IsSum(sum, f, T)
        BY <2>1, SumExists
  <2>3. SumFunctionOnSet(f, T) = Sum(T)[T]
        BY DEF SumFunctionOnSet, FoldFunctionOnSet, MapThenFoldSet, IsSum, SomeOf
  <2>. QED BY <2>2, <2>3
<1>. HIDE DEF Sum
<1>2. ASSUME NEW T \in SUBSET S, NEW U \in SUBSET T
      PROVE  Sum(T)[U] = IF U = {} THEN 0 ELSE f[SomeOf(U)] + Sum(T)[U \ {SomeOf(U)}]
  <2>1. IsSum(Sum(T), f, T)
        BY <1>1
  <2>. DEFINE g == Sum(T)
  <2>2. g = [s \in SUBSET T |-> IF s = {} THEN 0 ELSE f[SomeOf(s)] + g[s \ {SomeOf(s)}]]
        BY <2>1 DEF IsSum
  <2>. HIDE DEF g
  <2>3. g[U] = IF U = {} THEN 0 ELSE f[SomeOf(U)] + g[U \ {SomeOf(U)}]
        BY <2>2
  <2>. QED BY <2>3 DEF g
<1>3. ASSUME NEW U \in SUBSET S, U # {}
      PROVE  SomeOf(U) \in U /\ U \ {SomeOf(U)} \in SUBSET S
      BY <1>3 DEF SomeOf
<1>. DEFINE P == {U \in SUBSET S : /\ Sum(U)[U] \in Int
                                   /\ \A T \in SUBSET S : U \subseteq T => Sum(T)[U] = Sum(U)[U]}
<1>4. {} \in P
  <2>1. \A T \in SUBSET S : Sum(T)[{}] = 0
        BY <1>2
  <2>2. {} \in SUBSET S
        OBVIOUS
  <2>. QED BY <2>1, <2>2
<1>5. ASSUME NEW U \in SUBSET S, U # {}, \A x \in U : U \ {x} \in P
      PROVE  U \in P
  <2>. DEFINE V == U \ {SomeOf(U)}
  <2>1. V \in P /\ V \in SUBSET S /\ V \in SUBSET U /\ f[SomeOf(U)] \in Int
        BY <1>3, <1>5
  <2>2. ASSUME NEW T \in SUBSET S, U \subseteq T
        PROVE  Sum(T)[U] = f[SomeOf(U)] + Sum(V)[V]
    <3>1. Sum(T)[U] = f[SomeOf(U)] + Sum(T)[V]
          BY <1>2, <1>5, <2>2
    <3>2. Sum(T)[V] = Sum(V)[V]
          BY <2>1, <2>2
    <3>. QED BY <3>1, <3>2
  <2>3. Sum(V)[V] \in Int
        BY <2>1
  <2>. HIDE DEF V
  <2>. QED BY <2>1, <2>2, <2>3
<1>6. \A U \in SUBSET S : U \in P
  <2>. HIDE DEF P
  <2>. QED BY <1>4, <1>5, SubsetInduction
<1>7. ASSUME NEW T \in SUBSET S, T # {}
      PROVE  Sum(T)[T] = f[SomeOf(T)] + Sum(T \ {SomeOf(T)})[T \ {SomeOf(T)}]
  <2>1. Sum(T)[T] = f[SomeOf(T)] + Sum(T)[T \ {SomeOf(T)}]
        BY <1>2, <1>7
  <2>2. T \ {SomeOf(T)} \in P
        BY <1>3, <1>6, <1>7
  <2>. QED BY <2>1, <2>2
<1>8. Sum({})[{}] = 0
      BY <1>2
<1>9. \A T \in SUBSET S : Sum(T)[T] \in Int
      BY <1>6
<1>. HIDE DEF P
<1>. QED BY <1>1, <1>3, <1>7, <1>8, <1>9
(* Any element may be taken out of a sum first.                              *)
LEMMA SumElement ==
    ASSUME NEW S, IsFiniteSet(S), NEW f, \A x \in S : f[x] \in Int
    PROVE  /\ SumFunctionOnSet(f, S) \in Int
           /\ \A a \in S : /\ SumFunctionOnSet(f, S \ {a}) \in Int
                           /\ SumFunctionOnSet(f, S) = f[a] + SumFunctionOnSet(f, S \ {a})
<1>. DEFINE Sum(T) == SumFunctionOnSet(f, T)
            P == {T \in SUBSET S : \A a \in T : Sum(T) = f[a] + Sum(T \ {a})}
<1>1. \A T \in SUBSET S :
         /\ Sum(T) \in Int
         /\ T # {} => Sum(T) = f[SomeOf(T)] + Sum(T \ {SomeOf(T)})
      BY SumIsSum
<1>. HIDE DEF Sum
<1>2. {} \in P
      OBVIOUS
<1>3. ASSUME NEW T \in SUBSET S, T # {}, \A x \in T : T \ {x} \in P
      PROVE  T \in P
  <2>. DEFINE c == SomeOf(T)
  <2>1. c \in T /\ Sum(T) = f[c] + Sum(T \ {c})
        BY <1>1, <1>3 DEF SomeOf
  <2>. HIDE DEF c
  <2>2. ASSUME NEW a \in T
        PROVE  Sum(T) = f[a] + Sum(T \ {a})
    <3>1. CASE a = c
          BY <2>1, <3>1
    <3>2. CASE a # c
      <4>1. T \ {c} \in P /\ T \ {a} \in P /\ a \in T \ {c} /\ c \in T \ {a}
            BY <1>3, <2>1, <3>2
      <4>2. (T \ {c}) \ {a} = (T \ {a}) \ {c}
            OBVIOUS
      <4>3. Sum(T \ {c}) = f[a] + Sum((T \ {c}) \ {a})
            BY <4>1
      <4>4. Sum(T \ {a}) = f[c] + Sum((T \ {c}) \ {a})
            BY <4>1, <4>2
      <4>5. f[a] \in Int /\ f[c] \in Int /\ Sum((T \ {c}) \ {a}) \in Int
            BY <1>1, <2>1
      <4>. QED BY <2>1, <4>3, <4>4, <4>5
    <3>. QED BY <3>1, <3>2
  <2>. QED BY <2>2
<1>4. \A T \in SUBSET S : T \in P
  <2>. HIDE DEF P
  <2>. QED BY <1>2, <1>3, SubsetInduction
<1>5. \A a \in S : Sum(S) = f[a] + Sum(S \ {a})
      BY <1>4
<1>6. Sum(S) \in Int /\ \A a \in S : Sum(S \ {a}) \in Int
      BY <1>1
<1>. QED BY <1>5, <1>6 DEF Sum

(* Functions that agree on a set have the same sum over it.                  *)
LEMMA SumAgrees ==
    ASSUME NEW S, IsFiniteSet(S), NEW f, NEW g, \A x \in S : f[x] \in Int /\ g[x] = f[x]
    PROVE  SumFunctionOnSet(g, S) = SumFunctionOnSet(f, S)
<1>. DEFINE P == {T \in SUBSET S : SumFunctionOnSet(g, T) = SumFunctionOnSet(f, T)}
<1>1. /\ SumFunctionOnSet(f, {}) = 0
      /\ \A T \in SUBSET S : T # {} => SumFunctionOnSet(f, T)
                                         = f[SomeOf(T)] + SumFunctionOnSet(f, T \ {SomeOf(T)})
      BY SumIsSum
<1>2. /\ SumFunctionOnSet(g, {}) = 0
      /\ \A T \in SUBSET S : T # {} => SumFunctionOnSet(g, T)
                                         = g[SomeOf(T)] + SumFunctionOnSet(g, T \ {SomeOf(T)})
  <2>1. \A x \in S : g[x] \in Int
        OBVIOUS
  <2>. QED BY <2>1, SumIsSum
<1>3. {} \in P
      BY <1>1, <1>2
<1>4. ASSUME NEW T \in SUBSET S, T # {}, \A x \in T : T \ {x} \in P
      PROVE  T \in P
  <2>1. SomeOf(T) \in T
        BY <1>4 DEF SomeOf
  <2>2. SumFunctionOnSet(g, T \ {SomeOf(T)}) = SumFunctionOnSet(f, T \ {SomeOf(T)})
        BY <1>4, <2>1
  <2>. QED BY <1>1, <1>2, <1>4, <2>1, <2>2
<1>5. \A T \in SUBSET S : T \in P
  <2>. HIDE DEF P
  <2>. QED BY <1>3, <1>4, SubsetInduction
<1>. QED BY <1>5
=============================================================================
