---------------------------- MODULE FoldTheorems ----------------------------
(***************************************************************************)
(* What the sums and orders of the models are, for every finite set and    *)
(* every function: facts that the proofs about Ledger and ApmPipeline      *)
(* share.  They are inductions; each picks a minimal counterexample and    *)
(* contradicts it, since the provers cannot instantiate an induction rule. *)
(***************************************************************************)
EXTENDS Integers, FiniteSets, Functions, FiniteSetTheorems, WellFoundedInduction, TLAPS

-----------------------------------------------------------------------------
(* Sums.  The induction is over finite sets: a set of counterexamples has  *)
(* a minimal member, because strict inclusion is well founded there.       *)

\* Every non-empty collection of finite sets has a minimal member.
LEMMA MinimalSet ==
  ASSUME NEW S, IsFiniteSet(S), NEW C, C \subseteq SUBSET S, C # {}
  PROVE  \E T \in C : IsFiniteSet(T) /\ \A U \in C : U \subseteq T => U = T
<1>1. SUBSET S = FiniteSubsetsOf(S)
  BY FS_FiniteSubsetsOfFinite
<1>2. IsWellFoundedOn(StrictSubsetOrdering(S), SUBSET S)
  BY <1>1, FS_StrictSubsetOrderingWellFounded
<1>3. PICK T \in C : \A U \in C : ~ (<<U, T>> \in StrictSubsetOrdering(S))
  BY <1>2, WFMin
<1>4. IsFiniteSet(T)
  BY <1>1 DEF FiniteSubsetsOf
<1>5. ASSUME NEW U \in C, U \subseteq T PROVE U = T
  BY <1>3, <1>5 DEF StrictSubsetOrdering
<1> QED
  BY <1>4, <1>5

One(s) == CHOOSE x \in s : TRUE

\* g adds up f along the order in which the fold takes the elements of A's subsets.
Adds(g, f, A) ==
  g = [s \in SUBSET A |-> IF s = {} THEN 0 ELSE f[One(s)] + g[s \ {One(s)}]]

\* The sum is such a fold.
LEMMA SumIsFold ==
  ASSUME NEW f, NEW A
  PROVE  SumFunctionOnSet(f, A) = (CHOOSE g : Adds(g, f, A))[A]
BY DEF SumFunctionOnSet, FoldFunctionOnSet, MapThenFoldSet, Adds, One

\* Two such folds agree where both are defined.
LEMMA FoldUnique ==
  ASSUME NEW f, NEW A, NEW B, IsFiniteSet(A), NEW g, NEW h, Adds(g, f, A), Adds(h, f, B), 
         NEW s \in SUBSET A, s \subseteq B
  PROVE  g[s] = h[s]
<1> DEFINE Bad == {u \in SUBSET s : g[u] # h[u]}
<1> SUFFICES ASSUME Bad # {} PROVE FALSE
  OBVIOUS
<1>0. IsFiniteSet(s)
  BY FS_Subset
<1>a. Bad \subseteq SUBSET s
  OBVIOUS
<1>1. PICK t \in Bad : \A u \in Bad : u \subseteq t => u = t
  <2> HIDE DEF Bad
  <2> QED
    BY <1>0, <1>a, MinimalSet
<1>2. t # {}
  BY <1>1 DEF Adds
<1>3. One(t) \in t
  BY <1>2 DEF One
<1>4. g[t \ {One(t)}] = h[t \ {One(t)}]
  BY <1>1, <1>3
<1>5. g[t] = f[One(t)] + g[t \ {One(t)}] /\ h[t] = f[One(t)] + h[t \ {One(t)}]
  BY <1>2 DEF Adds
<1> QED
  BY <1>4, <1>5
\* The sum of the numbers f[x] over a finite set, unfolded once.
LEMMA SumStep ==
  ASSUME NEW f, NEW S, IsFiniteSet(S)
  PROVE  SumFunctionOnSet(f, S) =
           IF S = {} THEN 0 ELSE f[One(S)] + SumFunctionOnSet(f, S \ {One(S)})
<1> DEFINE V(T) == SumFunctionOnSet(f, T)
           U(T) == IF T = {} THEN 0 ELSE f[One(T)] + V(T \ {One(T)})
           Bad == {T \in SUBSET S : V(T) # U(T)}
<1> SUFFICES ASSUME Bad # {} PROVE FALSE
  OBVIOUS
<1>a. Bad \subseteq SUBSET S
  OBVIOUS
<1>1. PICK T \in Bad : IsFiniteSet(T) /\ \A W \in Bad : W \subseteq T => W = T
  <2> HIDE DEF Bad
  <2> QED
    BY <1>a, MinimalSet
<1>2. \A W \in SUBSET T : W # T => V(W) = U(W)
  BY <1>1
<1> DEFINE h == [s \in SUBSET T |-> IF s = T THEN U(T) ELSE V(s)]
           it(A) == CHOOSE g : Adds(g, f, A)
<1>3. \A s \in SUBSET T : s # {} => One(s) \in s
  BY DEF One
<1>h. \A s \in SUBSET T : h[s] = IF s = T THEN U(T) ELSE V(s)
  OBVIOUS
<1>4. ASSUME NEW s \in SUBSET T
      PROVE  h[s] = IF s = {} THEN 0 ELSE f[One(s)] + h[s \ {One(s)}]
  <2> HIDE DEF h, V
  <2>1. h[s] = U(s)
    BY <1>2, <1>h
  <2>2. s # {} => h[s \ {One(s)}] = V(s \ {One(s)})
    BY <1>3, <1>h
  <2> QED
    BY <2>1, <2>2
<1>5. Adds(h, f, T)
  <2>1. h = [s \in SUBSET T |-> h[s]]
    OBVIOUS
  <2> HIDE DEF h
  <2> QED
    BY <1>4, <2>1 DEF Adds
<1>6. Adds(it(T), f, T)
  <2> HIDE DEF h
  <2> QED
    BY <1>5
<1>7. it(T)[T] = h[T]
  <2> HIDE DEF h, it
  <2> QED
    BY <1>1, <1>5, <1>6, FoldUnique
<1>8. V(T) = U(T)
  <2>1. V(T) = it(T)[T]
    BY SumIsFold
  <2> HIDE DEF V, U, it
  <2> QED
    BY <2>1, <1>7
<1> QED
  <2> HIDE DEF V, U
  <2> QED BY <1>8

\* The sum is an integer, and any element may be taken out first.
LEMMA SumPick ==
  ASSUME NEW S, IsFiniteSet(S), NEW f, \A x \in S : f[x] \in Int
  PROVE  /\ SumFunctionOnSet(f, S) \in Int
         /\ \A x \in S : SumFunctionOnSet(f, S) = f[x] + SumFunctionOnSet(f, S \ {x})
<1> DEFINE V(T) == SumFunctionOnSet(f, T)
           Good(T) == /\ V(T) \in Int
                      /\ \A x \in T : V(T) = f[x] + V(T \ {x})
           Bad == {T \in SUBSET S : ~ Good(T)}
<1> SUFFICES ASSUME Bad # {} PROVE FALSE
  OBVIOUS
<1>a. Bad \subseteq SUBSET S
  OBVIOUS
<1>1. PICK T \in Bad : IsFiniteSet(T) /\ \A W \in Bad : W \subseteq T => W = T
  <2> HIDE DEF Bad
  <2> QED
    BY <1>a, MinimalSet
<1>2. \A W \in SUBSET T : W # T => Good(W)
  BY <1>1
<1>3. V(T) = IF T = {} THEN 0 ELSE f[One(T)] + V(T \ {One(T)})
  BY <1>1, SumStep
<1>4. T # {}
  BY <1>1, <1>3
<1>5. One(T) \in T
  BY <1>4 DEF One
<1> DEFINE c == One(T)
<1>6. V(T \ {c}) \in Int /\ V(T) = f[c] + V(T \ {c}) /\ V(T) \in Int
  <2> HIDE DEF V
  <2> QED
    BY <1>2, <1>3, <1>4, <1>5
<1>7. ASSUME NEW x \in T, x # c PROVE V(T) = f[x] + V(T \ {x})
  <2> HIDE DEF V, c, Bad
  <2>1. V(T \ {c}) = f[x] + V((T \ {c}) \ {x}) /\ V((T \ {c}) \ {x}) \in Int
    BY <1>2, <1>5, <1>7 DEF c
  <2>2. V(T \ {x}) = f[c] + V((T \ {x}) \ {c})
    BY <1>2, <1>5, <1>7 DEF c
  <2>3. (T \ {c}) \ {x} = (T \ {x}) \ {c}
    OBVIOUS
  <2>4. f[x] \in Int /\ f[c] \in Int
    BY <1>a, <1>1, <1>5 DEF c
  <2>5. V((T \ {c}) \ {x}) = V((T \ {x}) \ {c})
    BY <2>3
  <2> HIDE DEF Good
  <2> QED
    BY <1>6, <2>1, <2>2, <2>4, <2>5
<1>8. Good(T)
  <2> HIDE DEF V
  <2> QED
    BY <1>6, <1>7
<1> QED
  BY <1>1, <1>8

\* Only the numbers of the members count.
LEMMA SumSame ==
  ASSUME NEW S, IsFiniteSet(S), NEW f, NEW g, \A x \in S : f[x] = g[x] /\ f[x] \in Int
  PROVE  SumFunctionOnSet(f, S) = SumFunctionOnSet(g, S)
<1> DEFINE V(h, T) == SumFunctionOnSet(h, T)
           Bad == {T \in SUBSET S : V(f, T) # V(g, T)}
<1> SUFFICES ASSUME Bad # {} PROVE FALSE
  OBVIOUS
<1>a. Bad \subseteq SUBSET S
  OBVIOUS
<1>1. PICK T \in Bad : IsFiniteSet(T) /\ \A W \in Bad : W \subseteq T => W = T
  <2> HIDE DEF Bad
  <2> QED
    BY <1>a, MinimalSet
<1>2. \A W \in SUBSET T : W # T => V(f, W) = V(g, W)
  BY <1>1
<1>3. \A h \in {f, g} : V(h, T) = IF T = {} THEN 0 ELSE h[One(T)] + V(h, T \ {One(T)})
  BY <1>1, SumStep
<1> HIDE DEF V
<1>4. T # {}
  BY <1>1, <1>3
<1>5. One(T) \in T
  BY <1>4 DEF One
<1> QED
  BY <1>1, <1>2, <1>3, <1>5

\* One number of a sum changes.
LEMMA SumExcept ==
  ASSUME NEW S, IsFiniteSet(S), NEW f \in [S -> Int], NEW x \in S, NEW v \in Int
  PROVE  SumFunction([f EXCEPT ![x] = v]) = SumFunction(f) - f[x] + v
<1> DEFINE g == [f EXCEPT ![x] = v]
           V(h, T) == SumFunctionOnSet(h, T)
<1>1. g \in [S -> Int] /\ g[x] = v /\ (\A y \in S \ {x} : g[y] = f[y])
  OBVIOUS
<1>2. SumFunction(f) = V(f, S) /\ SumFunction(g) = V(g, S)
  BY DEF SumFunction
<1>3. IsFiniteSet(S \ {x})
  BY FS_RemoveElement
<1> HIDE DEF g
<1>4. V(f, S \ {x}) = V(g, S \ {x})
  BY <1>1, <1>3, SumSame
<1>5. V(f, S) = f[x] + V(f, S \ {x}) /\ V(f, S \ {x}) \in Int
  BY <1>3, SumPick
<1>6. V(g, S) = g[x] + V(g, S \ {x})
  BY <1>1, SumPick
<1> HIDE DEF V
<1>7. SumFunction(g) = SumFunction(f) - f[x] + v
  BY <1>1, <1>2, <1>4, <1>5, <1>6
<1> QED
  BY <1>7 DEF g

-----------------------------------------------------------------------------
(* One-to-one functions and orders.                                        *)

\* A bijection is one-to-one and reaches every element.
LEMMA BijectionIs ==
  ASSUME NEW S, NEW T, NEW c
  PROVE  c \in Bijection(S, T) <=>
           /\ c \in [S -> T]
           /\ \A x, y \in S : c[x] = c[y] => x = y
           /\ \A z \in T : \E x \in S : c[x] = z
BY DEF Bijection, Injection, Surjection, IsInjective

\* One bijection after the other is a bijection.
LEMMA Composed ==
  ASSUME NEW S, NEW T, NEW U, NEW c \in Bijection(S, T), NEW d \in Bijection(T, U)
  PROVE  [x \in S |-> d[c[x]]] \in Bijection(S, U)
<1> DEFINE e == [x \in S |-> d[c[x]]]
<1>1. /\ c \in [S -> T]
      /\ \A x, y \in S : c[x] = c[y] => x = y
      /\ \A z \in T : \E x \in S : c[x] = z
  BY BijectionIs
<1>2. /\ d \in [T -> U]
      /\ \A x, y \in T : d[x] = d[y] => x = y
      /\ \A z \in U : \E x \in T : d[x] = z
  BY BijectionIs
<1>3. e \in [S -> U]
  BY <1>1, <1>2
<1>4. \A x, y \in S : e[x] = e[y] => x = y
  BY <1>1, <1>2
<1>5. \A z \in U : \E x \in S : e[x] = z
  BY <1>1, <1>2
<1> QED
  BY <1>3, <1>4, <1>5, BijectionIs

\* A one-to-one function keeps the size of a finite set.
LEMMA ImageSize ==
  ASSUME NEW S, IsFiniteSet(S), NEW c, \A x, y \in S : c[x] = c[y] => x = y
  PROVE  /\ IsFiniteSet({c[x] : x \in S})
         /\ Cardinality({c[x] : x \in S}) = Cardinality(S)
<1> DEFINE T == {c[x] : x \in S}
           d == [x \in S |-> c[x]]
<1>1. d \in Bijection(S, T)
  BY DEF Bijection, Injection, Surjection, IsInjective
<1>2. ExistsBijection(S, T)
  BY <1>1 DEF ExistsBijection
<1> HIDE DEF T, d
<1>3. IsFiniteSet(T) /\ Cardinality(T) = Cardinality(S)
  BY <1>2, FS_Bijection
<1> QED
  BY <1>3 DEF T

\* A sum may be taken over the places of a numbering instead of the elements.
LEMMA SumImage ==
  ASSUME NEW S, IsFiniteSet(S), NEW T, NEW c \in Bijection(S, T), NEW f \in [T -> Int],
         NEW g, \A x \in S : g[x] = f[c[x]]
  PROVE  SumFunctionOnSet(g, S) = SumFunctionOnSet(f, T)
<1> DEFINE Im(U) == {c[x] : x \in U}
           V(h, U) == SumFunctionOnSet(h, U)
           Bad == {U \in SUBSET S : V(g, U) # V(f, Im(U))}
<1>0. /\ \A x \in S : c[x] \in T /\ f[c[x]] \in Int /\ g[x] = f[c[x]]
      /\ \A x, y \in S : c[x] = c[y] => x = y
      /\ \A t \in T : \E x \in S : c[x] = t
  BY DEF Bijection, Injection, Surjection, IsInjective
<1>1. Im(S) = T
  BY <1>0
<1>2. ASSUME Bad # {} PROVE FALSE
  <2>a. Bad \subseteq SUBSET S
    OBVIOUS
  <2>1. PICK U \in Bad : IsFiniteSet(U) /\ \A W \in Bad : W \subseteq U => W = U
    <3> HIDE DEF Bad
    <3> QED
      BY <1>2, <2>a, MinimalSet
  <2>2. \A W \in SUBSET U : W # U => V(g, W) = V(f, Im(W))
    BY <2>1
  <2>3. IsFiniteSet(Im(U))
    BY <1>0, <2>1, ImageSize
  <2>4. CASE U = {}
    <3>1. Im(U) = {}
      BY <2>4
    <3>2. V(g, U) = 0 /\ V(f, Im(U)) = 0
      BY <2>1, <2>3, <2>4, <3>1, SumStep
    <3> QED
      BY <2>1, <3>2
  <2>5. ASSUME NEW x \in U PROVE FALSE
    <3>1. x \in S /\ \A y \in U : g[y] \in Int
      BY <1>0
    <3>2. V(g, U) = g[x] + V(g, U \ {x})
      BY <2>1, <3>1, SumPick
    <3>3. \A t \in Im(U) : f[t] \in Int
      BY <1>0
    <3>4. V(f, Im(U)) = f[c[x]] + V(f, Im(U) \ {c[x]})
      <4>1. c[x] \in Im(U)
        OBVIOUS
      <4> HIDE DEF Im
      <4> QED
        BY <2>3, <3>3, <4>1, SumPick
    <3>5. Im(U) \ {c[x]} = Im(U \ {x})
      BY <1>0, <3>1
    <3>6. V(g, U \ {x}) = V(f, Im(U \ {x}))
      BY <2>2
    <3> HIDE DEF V, Im
    <3>7. V(g, U) = V(f, Im(U))
      BY <1>0, <3>1, <3>2, <3>4, <3>5, <3>6
    <3> QED
      BY <2>1, <3>7
  <2> QED
    BY <2>4, <2>5
<1> QED
  BY <1>1, <1>2

\* Every non-empty set of natural numbers has a least one.
LEMMA LeastNat ==
  ASSUME NEW C, C \subseteq Nat, C # {}
  PROVE  \E n \in C : \A m \in C : n <= m
<1>1. PICK n \in C : \A m \in C : ~ (<<m, n>> \in OpToRel(<, Nat))
  BY NatLessThanWellFounded, WFMin
<1>2. ASSUME NEW m \in C PROVE n <= m
  <2>1. n \in Nat /\ m \in Nat /\ ~ (<<m, n>> \in OpToRel(<, Nat))
    BY <1>1
  <2>2. OpToRel(<, Nat) = {ss \in Nat \X Nat : ss[1] < ss[2]}
    BY DEF OpToRel
  <2>3. ~ (m < n)
    BY <2>1, <2>2
  <2>4. n \in Nat /\ m \in Nat
    OBVIOUS
  <2> QED
    BY ONLY <2>3, <2>4
<1> QED
  BY <1>2

\* p puts the numbers f in ascending order.
Ascends(p, f, n) == \A i, j \in 1..n : i <= j => f[p[i]] <= f[p[j]]

\* Numbers can be put in ascending order.
LEMMA CanSort ==
  ASSUME NEW n \in Nat, NEW f \in [1..n -> Int]
  PROVE  \E p \in Bijection(1..n, 1..n) : Ascends(p, f, n)
<1> DEFINE Bad == {k \in 0..n : \A p \in Bijection(1..k, 1..k) : ~ Ascends(p, f, k)}
<1> SUFFICES ASSUME Bad # {} PROVE FALSE
  OBVIOUS
<1>1. PICK k \in Bad : \A m \in Bad : k <= m
  <2>1. Bad \subseteq Nat
    OBVIOUS
  <2> HIDE DEF Bad
  <2> QED
    BY <2>1, LeastNat
<1>2. k # 0
  <2>1. SUFFICES ASSUME k = 0 PROVE FALSE
    OBVIOUS
  <2> DEFINE e == [i \in 1..k |-> i]
  <2>2. e \in Bijection(1..k, 1..k) /\ Ascends(e, f, k)
    BY <2>1 DEF Bijection, Injection, Surjection, IsInjective, Ascends
  <2> QED
    BY <1>1, <2>2
<1> DEFINE h == k - 1
<1>3. h \in 0..n /\ h \notin Bad /\ k \in 1..n /\ k \in Nat /\ h \in Nat /\ k = h + 1
  BY <1>1, <1>2
<1> HIDE DEF h
<1>4. PICK p \in Bijection(1..h, 1..h) : Ascends(p, f, h)
  BY <1>3
<1>5. /\ \A i \in 1..h : p[i] \in 1..h
      /\ \A i, j \in 1..h : p[i] = p[j] => i = j
      /\ \A t \in 1..h : \E i \in 1..h : p[i] = t
  BY DEF Bijection, Injection, Surjection, IsInjective
\* The last number goes before the first greater one.
<1> DEFINE Later == {i \in 1..k : i = k \/ f[p[i]] > f[k]}
<1>6. PICK at \in Later : \A m \in Later : at <= m
  <2>1. k \in Later /\ Later \subseteq Nat
    BY <1>3
  <2> HIDE DEF Later
  <2> QED
    BY <2>1, LeastNat
<1>7. at \in 1..k /\ at \in Nat
  BY <1>3
<1> DEFINE q == [i \in 1..k |-> IF i < at THEN p[i] ELSE IF i = at THEN k ELSE p[i - 1]]
<1>8. ASSUME NEW i \in 1..k
      PROVE  /\ i < at => i \in 1..h /\ q[i] = p[i] /\ p[i] \in 1..h
             /\ i = at => q[i] = k
             /\ i > at => i - 1 \in 1..h /\ q[i] = p[i - 1] /\ p[i - 1] \in 1..h
  <2>1. /\ i < at => q[i] = p[i]
        /\ i = at => q[i] = k
        /\ i > at => q[i] = p[i - 1]
    BY <1>3, <1>7
  <2>2. (i < at => i \in 1..h) /\ (i > at => i - 1 \in 1..h)
    BY <1>3, <1>7
  <2> HIDE DEF q
  <2> QED
    BY <1>5, <2>1, <2>2
<1> HIDE DEF q, Later
<1>9. q \in Bijection(1..k, 1..k)
  <2>1. q \in [1..k -> 1..k]
    <3>0. 1..h \subseteq 1..k /\ k \in 1..k
      BY <1>3
    <3>1. ASSUME NEW i \in 1..k PROVE q[i] \in 1..k
      <4>1. i < at \/ i = at \/ i > at
        BY <1>7
      <4> QED
        BY <1>8, <3>0, <4>1
    <3> QED
      BY <3>1 DEF q
  <2>2. ASSUME NEW i \in 1..k, NEW j \in 1..k, q[i] = q[j] PROVE i = j
    <3>1. k \notin 1..h
      BY <1>3
    <3>2. ASSUME NEW u \in 1..k, u # at PROVE q[u] # k
      <4>1. u < at \/ u > at
        BY <1>7, <3>2
      <4>2. q[u] \in 1..h
        BY <1>8, <4>1
      <4> QED
        BY <3>1, <4>2
    <3>6. CASE i = at \/ j = at
      <4>1. q[at] = k
        BY <1>7, <1>8
      <4> QED
        BY <2>2, <3>2, <3>6, <4>1
    <3>3. CASE i < at /\ j < at
      BY <1>5, <1>8, <2>2, <3>3
    <3>4. CASE i > at /\ j > at
      <4>1. i - 1 = j - 1
        BY <1>5, <1>8, <2>2, <3>4
      <4> QED
        BY <4>1
    <3>5. ASSUME NEW u \in 1..k, NEW v \in 1..k, u < at, v > at PROVE q[u] # q[v]
      <4>1. u \in 1..h /\ v - 1 \in 1..h /\ q[u] = p[u] /\ q[v] = p[v - 1]
        BY <1>8, <3>5
      <4>2. u # v - 1
        BY <1>7, <3>5
      <4> QED
        BY <1>5, <4>1, <4>2
    <3> QED
      BY <1>7, <2>2, <3>3, <3>4, <3>5, <3>6
  <2>3. ASSUME NEW t \in 1..k PROVE \E i \in 1..k : q[i] = t
    <3>1. CASE t = k
      BY <1>7, <1>8, <3>1
    <3>2. CASE t # k
      <4>0. t \in 1..h
        BY <1>3, <3>2
      <4>1. PICK i \in 1..h : p[i] = t
        BY <1>5, <4>0
      <4>2. CASE i < at
        BY <1>3, <1>8, <4>1, <4>2
      <4>3. CASE i >= at
        <5>1. i + 1 \in 1..k /\ i + 1 > at /\ (i + 1) - 1 = i
          BY <1>3, <1>7, <4>3
        <5>2. q[i + 1] = p[i]
          BY <1>8, <5>1
        <5> QED
          BY <4>1, <5>1, <5>2
      <4> QED
        BY <1>7, <4>2, <4>3
    <3> QED
      BY <3>1, <3>2
  <2> QED
    BY <2>1, <2>2, <2>3 DEF Bijection, Injection, Surjection, IsInjective
<1>10. Ascends(q, f, k)
  <2> SUFFICES ASSUME NEW i \in 1..k, NEW j \in 1..k, i <= j
               PROVE  f[q[i]] <= f[q[j]]
    BY DEF Ascends
  <2>0. f[k] \in Int /\ \A m \in 1..h : f[p[m]] \in Int
    <3>1. 1..h \subseteq 1..n
      BY <1>3
    <3> QED
      BY <1>3, <1>5, <3>1
  <2>a. \A m \in 1..h : m < at => f[p[m]] <= f[k]
    BY <1>3, <1>6, <1>7, <2>0 DEF Later
  <2>b. at < k => f[p[at]] > f[k]
    BY <1>6, <1>7 DEF Later
  <2>c. \A m \in 1..h : m >= at => f[p[m]] >= f[k]
    <3> SUFFICES ASSUME NEW m \in 1..h, m >= at PROVE f[p[m]] >= f[k]
      OBVIOUS
    <3>1. at \in 1..h /\ at < k
      BY <1>3, <1>7
    <3>2. f[p[at]] <= f[p[m]]
      BY <1>4, <3>1 DEF Ascends
    <3> QED
      BY <2>0, <2>b, <3>1, <3>2
  <2>1. CASE i < at /\ j < at
    BY <1>4, <1>8, <2>1 DEF Ascends
  <2>2. CASE i < at /\ j = at
    BY <1>8, <2>2, <2>a
  <2>3. CASE i < at /\ j > at
    <3>1. i \in 1..h /\ j - 1 \in 1..h /\ q[i] = p[i] /\ q[j] = p[j - 1]
      BY <1>8, <2>3
    <3>2. i <= j - 1
      BY <1>7, <2>3
    <3> QED
      BY <1>4, <3>1, <3>2 DEF Ascends
  <2>4. CASE i = at /\ j = at
    BY <1>7, <1>8, <2>0, <2>4
  <2>5. CASE i = at /\ j > at
    <3>1. j - 1 \in 1..h /\ q[j] = p[j - 1] /\ q[i] = k
      BY <1>8, <2>5
    <3>2. j - 1 >= at
      BY <1>7, <2>5
    <3> QED
      BY <2>0, <2>c, <3>1, <3>2
  <2>6. CASE i > at /\ j > at
    <3>1. i - 1 \in 1..h /\ j - 1 \in 1..h /\ q[i] = p[i - 1] /\ q[j] = p[j - 1]
      BY <1>8, <2>6
    <3>2. i - 1 <= j - 1
      OBVIOUS
    <3> QED
      BY <1>4, <3>1, <3>2 DEF Ascends
  <2> QED
    BY <1>7, <2>1, <2>2, <2>3, <2>4, <2>5, <2>6
<1> QED
  BY <1>1, <1>9, <1>10
=============================================================================
