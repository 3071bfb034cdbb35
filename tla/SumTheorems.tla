---------------------------- MODULE SumTheorems ----------------------------
(***************************************************************************)
(* Sums over finite sets: SumFunctionOnSet(f, S) of the community modules  *)
(* adds up f[x] for the x of S, in an order that nobody knows.  The lemmas *)
(* say that it exists, that it does not depend on the order, and that the  *)
(* sums of parts add up to the sum of the whole.                           *)
(*                                                                         *)
(* An induction is written as a set of counterexamples that has no least   *)
(* element (NoCounterexample) or as a set of subsets that is closed under  *)
(* one more element (SubsetInduction).                                     *)
(***************************************************************************)
EXTENDS Integers, Functions, FiniteSetTheorems, WellFoundedInduction, TLAPS

Some(s) == CHOOSE x \in s : TRUE

\* g adds up f over every set of D, taking one element after the other.
AddsUp(g, f, D) ==
    g = [s \in D |-> IF s = {} THEN 0 ELSE f[Some(s)] + g[s \ {Some(s)}]]

\* The definition, with its recursive function named.
LEMMA SumIs ==
    ASSUME NEW f, NEW S
    PROVE  SumFunctionOnSet(f, S) = (CHOOSE g : AddsUp(g, f, SUBSET S))[S]
BY DEF SumFunctionOnSet, FoldFunctionOnSet, MapThenFoldSet, AddsUp, Some

UpTo(S, n) == {s \in SUBSET S : Cardinality(s) <= n}

LEMMA SomeIn == \A s : s # {} => Some(s) \in s
BY DEF Some

\* Numbers none of which is the least are none.
LEMMA NoCounterexample ==
    ASSUME NEW T \in SUBSET Nat, \A n \in T : n # 0 /\ n - 1 \in T
    PROVE  T = {}
<1>1. SUFFICES ASSUME T # {} PROVE FALSE
  OBVIOUS
<1>2. \E n \in T : \A m \in T : <<m, n>> \notin OpToRel(<, Nat)
  BY <1>1, NatLessThanWellFounded, WFMin
<1>3. PICK n \in T : \A m \in T : ~(m < n)
  BY <1>2 DEF OpToRel
<1>4. n \in Nat /\ n - 1 \in T
  BY <1>3
<1> QED
  BY <1>3, <1>4

\* There is such a g for the sets of at most n elements, and so for all.
LEMMA AddingUpExists ==
    ASSUME NEW f, NEW S, IsFiniteSet(S), NEW n \in Nat
    PROVE  \E g : AddsUp(g, f, UpTo(S, n))
<1> DEFINE T == {m \in Nat : ~ \E g : AddsUp(g, f, UpTo(S, m))}
<1>1. \A s \in SUBSET S : IsFiniteSet(s) /\ Cardinality(s) \in Nat
  BY FS_Subset, FS_CardinalityType
<1>2. \E g : AddsUp(g, f, UpTo(S, 0))
  <2>1. UpTo(S, 0) = {{}}
    BY <1>1, FS_EmptySet DEF UpTo
  <2>2. AddsUp([s \in {{}} |-> 0], f, {{}})
    BY DEF AddsUp
  <2> QED
    BY <2>1, <2>2
<1>3. ASSUME NEW m \in Nat, \E g : AddsUp(g, f, UpTo(S, m))
      PROVE  \E g : AddsUp(g, f, UpTo(S, m + 1))
  <2>1. PICK g : AddsUp(g, f, UpTo(S, m))
    BY <1>3
  <2> DEFINE h == [s \in UpTo(S, m + 1) |->
                     IF s = {} THEN 0 ELSE f[Some(s)] + g[s \ {Some(s)}]]
  <2>2. \A s \in UpTo(S, m + 1) : s # {} =>
            s \ {Some(s)} \in UpTo(S, m) /\ s \ {Some(s)} \in UpTo(S, m + 1)
    <3> TAKE s \in UpTo(S, m + 1)
    <3> HAVE s # {}
    <3>1. s \in SUBSET S /\ IsFiniteSet(s) /\ Cardinality(s) \in Nat /\ Cardinality(s) <= m + 1
      BY <1>1 DEF UpTo
    <3>2. Some(s) \in s
      BY SomeIn
    <3>3. Cardinality(s \ {Some(s)}) = Cardinality(s) - 1
      BY <3>1, <3>2, FS_RemoveElement
    <3> QED
      BY <3>1, <3>3 DEF UpTo
  <2>3. \A s \in UpTo(S, m) : s \in UpTo(S, m + 1) /\ g[s] = h[s]
    <3> TAKE s \in UpTo(S, m)
    <3>1. s \in UpTo(S, m + 1)
      BY <1>1 DEF UpTo
    <3>2. g[s] = IF s = {} THEN 0 ELSE f[Some(s)] + g[s \ {Some(s)}]
      BY <2>1 DEF AddsUp
    <3> QED
      BY <3>1, <3>2
  <2>4. h = [s \in UpTo(S, m + 1) |->
               IF s = {} THEN 0 ELSE f[Some(s)] + h[s \ {Some(s)}]]
    <3>1. \A s \in UpTo(S, m + 1) : s # {} => g[s \ {Some(s)}] = h[s \ {Some(s)}]
      BY <2>2, <2>3
    <3> HIDE DEF h
    <3>2. h = [s \in UpTo(S, m + 1) |->
                     IF s = {} THEN 0 ELSE f[Some(s)] + g[s \ {Some(s)}]]
      BY DEF h
    <3> QED
      BY <3>1, <3>2
  <2>5. AddsUp(h, f, UpTo(S, m + 1))
    BY <2>4 DEF AddsUp
  <2> QED
    BY <2>5
<1>4. \A m \in T : m # 0 /\ m - 1 \in T
  <2> TAKE m \in T
  <2>1. m \in Nat /\ ~ \E g : AddsUp(g, f, UpTo(S, m))
    OBVIOUS
  <2>2. m # 0
    BY <1>2, <2>1
  <2>3. m - 1 \in Nat /\ (m - 1) + 1 = m
    BY <2>1, <2>2
  <2>4. ~ \E g : AddsUp(g, f, UpTo(S, m - 1))
    BY <1>3, <2>1, <2>3
  <2> QED
    BY <2>2, <2>3, <2>4
<1>5. T = {}
  <2> HIDE DEF T
  <2>1. T \in SUBSET Nat
    BY DEF T
  <2> QED
    BY <1>4, <2>1, NoCounterexample
<1> QED
  BY <1>5

LEMMA SumUnfolds ==
    ASSUME NEW f, NEW S, IsFiniteSet(S)
    PROVE  \E g : AddsUp(g, f, SUBSET S) /\ SumFunctionOnSet(f, S) = g[S]
<1>1. PICK n \in Nat : n = Cardinality(S)
  BY FS_CardinalityType
<1>2. UpTo(S, n) = SUBSET S
  BY <1>1, FS_Subset DEF UpTo
<1>3. \E g : AddsUp(g, f, SUBSET S)
  <2>1. \E g : AddsUp(g, f, UpTo(S, n))
    BY AddingUpExists
  <2> QED
    BY <2>1, <1>2
<1>4. AddsUp(CHOOSE g : AddsUp(g, f, SUBSET S), f, SUBSET S)
  BY <1>3
<1> QED
  BY <1>4, SumIs

-----------------------------------------------------------------------------
\* What holds of the empty set, and of a set when it holds of every set with one
\* element less, holds of all.
LEMMA SubsetInduction ==
    ASSUME NEW S, IsFiniteSet(S), NEW P, {} \in P,
           \A s \in SUBSET S : s # {} /\ (\A x \in s : s \ {x} \in P) => s \in P
    PROVE  \A s \in SUBSET S : s \in P
<1> DEFINE T == {m \in Nat : \E s \in SUBSET S : Cardinality(s) = m /\ s \notin P}
<1>1. \A s \in SUBSET S : IsFiniteSet(s) /\ Cardinality(s) \in Nat
  BY FS_Subset, FS_CardinalityType
<1>2. \A m \in T : m # 0 /\ m - 1 \in T
  <2> TAKE m \in T
  <2>1. PICK s \in SUBSET S : Cardinality(s) = m /\ s \notin P
    OBVIOUS
  <2>2. s # {}
    BY <2>1
  <2>3. PICK x \in s : s \ {x} \notin P
    BY <2>1, <2>2
  <2>4. IsFiniteSet(s) /\ Cardinality(s \ {x}) = m - 1
    BY <1>1, <2>1, <2>3, FS_RemoveElement
  <2>5. s \ {x} \in SUBSET S /\ Cardinality(s \ {x}) \in Nat
    BY <1>1
  <2>6. m \in Nat /\ m - 1 \in Nat
    BY <2>4, <2>5
  <2> QED
    BY <2>3, <2>4, <2>5, <2>6
<1>3. T = {}
  <2>1. T \in SUBSET Nat
    OBVIOUS
  <2> HIDE DEF T
  <2> QED
    BY <1>2, <2>1, NoCounterexample
<1> QED
  BY <1>1, <1>3

\* The sum over a subset is the same inside any larger set.
LEMMA AddsUpOnce ==
    ASSUME NEW f, NEW S, IsFiniteSet(S), NEW T \in SUBSET S, NEW g, NEW h,
           AddsUp(g, f, SUBSET S), AddsUp(h, f, SUBSET T)
    PROVE  g[T] = h[T]
<1> DEFINE P == {s \in SUBSET T : g[s] = h[s]}
<1>1. \A s \in SUBSET T :
          /\ g[s] = IF s = {} THEN 0 ELSE f[Some(s)] + g[s \ {Some(s)}]
          /\ h[s] = IF s = {} THEN 0 ELSE f[Some(s)] + h[s \ {Some(s)}]
  <2> TAKE s \in SUBSET T
  <2>1. s \in SUBSET S
    OBVIOUS
  <2>2. g[s] = IF s = {} THEN 0 ELSE f[Some(s)] + g[s \ {Some(s)}]
    BY <2>1 DEF AddsUp
  <2>3. h[s] = IF s = {} THEN 0 ELSE f[Some(s)] + h[s \ {Some(s)}]
    BY DEF AddsUp
  <2> QED
    BY <2>2, <2>3
<1>2. {} \in P
  BY <1>1
<1>3. \A s \in SUBSET T : s # {} /\ (\A x \in s : s \ {x} \in P) => s \in P
  <2> TAKE s \in SUBSET T
  <2> HAVE s # {} /\ (\A x \in s : s \ {x} \in P)
  <2>1. Some(s) \in s
    BY SomeIn
  <2>2. g[s \ {Some(s)}] = h[s \ {Some(s)}]
    BY <2>1
  <2> QED
    BY <1>1, <2>2
<1>4. IsFiniteSet(T)
  BY FS_Subset
<1>5. \A s \in SUBSET T : s \in P
  <2> HIDE DEF P
  <2> QED
    BY <1>2, <1>3, <1>4, SubsetInduction
<1> QED
  BY <1>5

LEMMA SumEmpty == \A f : SumFunctionOnSet(f, {}) = 0
<1> TAKE f
<1>1. PICK g : AddsUp(g, f, SUBSET {}) /\ SumFunctionOnSet(f, {}) = g[{}]
  BY FS_EmptySet, SumUnfolds
<1> QED
  BY <1>1 DEF AddsUp

LEMMA SumSome ==
    ASSUME NEW f, NEW S, IsFiniteSet(S), S # {}
    PROVE  SumFunctionOnSet(f, S) = f[Some(S)] + SumFunctionOnSet(f, S \ {Some(S)})
<1>1. PICK T : T = S \ {Some(S)}
  OBVIOUS
<1>2. IsFiniteSet(T) /\ T \in SUBSET S
  BY <1>1, FS_Subset
<1>3. PICK g : AddsUp(g, f, SUBSET S) /\ SumFunctionOnSet(f, S) = g[S]
  BY SumUnfolds
<1>4. PICK h : AddsUp(h, f, SUBSET T) /\ SumFunctionOnSet(f, T) = h[T]
  BY <1>2, SumUnfolds
<1>5. g[T] = h[T]
  BY <1>2, <1>3, <1>4, AddsUpOnce
<1>6. g[S] = f[Some(S)] + g[S \ {Some(S)}]
  BY <1>3 DEF AddsUp
<1> QED
  BY <1>1, <1>3, <1>4, <1>5, <1>6

\* A sum of integers is one.
LEMMA SumType ==
    ASSUME NEW f, NEW S, IsFiniteSet(S), \A x \in S : f[x] \in Int
    PROVE  SumFunctionOnSet(f, S) \in Int
<1> DEFINE P == {s \in SUBSET S : SumFunctionOnSet(f, s) \in Int}
<1>1. {} \in P
  BY SumEmpty
<1>2. \A s \in SUBSET S : s # {} /\ (\A x \in s : s \ {x} \in P) => s \in P
  <2> TAKE s \in SUBSET S
  <2> HAVE s # {} /\ (\A x \in s : s \ {x} \in P)
  <2>1. Some(s) \in s /\ IsFiniteSet(s)
    BY SomeIn, FS_Subset
  <2>2. SumFunctionOnSet(f, s) = f[Some(s)] + SumFunctionOnSet(f, s \ {Some(s)})
    BY <2>1, SumSome
  <2>3. f[Some(s)] \in Int /\ SumFunctionOnSet(f, s \ {Some(s)}) \in Int
    BY <2>1
  <2> QED
    BY <2>2, <2>3
<1>3. \A s \in SUBSET S : s \in P
  <2> HIDE DEF P
  <2> QED
    BY <1>1, <1>2, SubsetInduction
<1> QED
  BY <1>3

\* Any element may be added last.
LEMMA SumTake ==
    ASSUME NEW f, NEW S, IsFiniteSet(S), \A y \in S : f[y] \in Int, NEW x \in S
    PROVE  SumFunctionOnSet(f, S) = f[x] + SumFunctionOnSet(f, S \ {x})
<1> DEFINE P == {s \in SUBSET S : \A y \in s :
                     SumFunctionOnSet(f, s) = f[y] + SumFunctionOnSet(f, s \ {y})}
<1>1. {} \in P
  OBVIOUS
<1>2. \A s \in SUBSET S : s # {} /\ (\A y \in s : s \ {y} \in P) => s \in P
  <2> TAKE s \in SUBSET S
  <2> HAVE s # {} /\ (\A y \in s : s \ {y} \in P)
  <2>1. PICK z \in s : z = Some(s)
    BY SomeIn
  <2>2. IsFiniteSet(s)
    BY FS_Subset
  <2>3. SumFunctionOnSet(f, s) = f[z] + SumFunctionOnSet(f, s \ {z})
    BY <2>1, <2>2, SumSome
  <2>4. ASSUME NEW y \in s, y # z
        PROVE  SumFunctionOnSet(f, s) = f[y] + SumFunctionOnSet(f, s \ {y})
    <3>1. SumFunctionOnSet(f, s \ {z}) = f[y] + SumFunctionOnSet(f, (s \ {z}) \ {y})
      BY <2>4
    <3>2. SumFunctionOnSet(f, s \ {y}) = f[z] + SumFunctionOnSet(f, (s \ {y}) \ {z})
      BY <2>4
    <3>3. (s \ {z}) \ {y} = (s \ {y}) \ {z}
      OBVIOUS
    <3>4. PICK rest : rest = (s \ {z}) \ {y}
      OBVIOUS
    <3>5. SumFunctionOnSet(f, rest) \in Int
      <4>1. IsFiniteSet(rest) /\ \A w \in rest : f[w] \in Int
        BY <3>4, FS_Subset
      <4> QED
        BY <4>1, SumType
    <3>6. f[y] \in Int /\ f[z] \in Int
      OBVIOUS
    <3> QED
      BY <2>3, <3>1, <3>2, <3>3, <3>4, <3>5, <3>6
  <2> QED
    BY <2>3, <2>4
<1>3. \A s \in SUBSET S : s \in P
  <2> HIDE DEF P
  <2> QED
    BY <1>1, <1>2, SubsetInduction
<1>4. S \in P
  BY <1>3
<1> QED
  BY <1>4

\* What is added up are the values.
LEMMA SumEqual ==
    ASSUME NEW f, NEW g, NEW S, IsFiniteSet(S), \A x \in S : f[x] = g[x]
    PROVE  SumFunctionOnSet(f, S) = SumFunctionOnSet(g, S)
<1> DEFINE P == {s \in SUBSET S : SumFunctionOnSet(f, s) = SumFunctionOnSet(g, s)}
<1>1. {} \in P
  BY SumEmpty
<1>2. \A s \in SUBSET S : s # {} /\ (\A x \in s : s \ {x} \in P) => s \in P
  <2> TAKE s \in SUBSET S
  <2> HAVE s # {} /\ (\A x \in s : s \ {x} \in P)
  <2>1. Some(s) \in s /\ IsFiniteSet(s)
    BY SomeIn, FS_Subset
  <2>2. /\ SumFunctionOnSet(f, s) = f[Some(s)] + SumFunctionOnSet(f, s \ {Some(s)})
        /\ SumFunctionOnSet(g, s) = g[Some(s)] + SumFunctionOnSet(g, s \ {Some(s)})
    BY <2>1, SumSome
  <2>3. f[Some(s)] = g[Some(s)]
    BY <2>1
  <2>4. SumFunctionOnSet(f, s \ {Some(s)}) = SumFunctionOnSet(g, s \ {Some(s)})
    BY <2>1
  <2> QED
    BY <2>2, <2>3, <2>4
<1>3. \A s \in SUBSET S : s \in P
  <2> HIDE DEF P
  <2> QED
    BY <1>1, <1>2, SubsetInduction
<1> QED
  BY <1>3

LEMMA SumZero ==
    ASSUME NEW f, NEW S, IsFiniteSet(S), \A x \in S : f[x] = 0
    PROVE  SumFunctionOnSet(f, S) = 0
<1> DEFINE P == {s \in SUBSET S : SumFunctionOnSet(f, s) = 0}
<1>1. {} \in P
  BY SumEmpty
<1>2. \A s \in SUBSET S : s # {} /\ (\A x \in s : s \ {x} \in P) => s \in P
  <2> TAKE s \in SUBSET S
  <2> HAVE s # {} /\ (\A x \in s : s \ {x} \in P)
  <2>1. Some(s) \in s /\ IsFiniteSet(s)
    BY SomeIn, FS_Subset
  <2>2. SumFunctionOnSet(f, s) = f[Some(s)] + SumFunctionOnSet(f, s \ {Some(s)})
    BY <2>1, SumSome
  <2> QED
    BY <2>1, <2>2
<1>3. \A s \in SUBSET S : s \in P
  <2> HIDE DEF P
  <2> QED
    BY <1>1, <1>2, SubsetInduction
<1> QED
  BY <1>3

\* The parts of S, one for each element of D.
Partition(parts, D, S) ==
    /\ \A d \in D : parts[d] \subseteq S
    /\ \A x \in S : \E d \in D : x \in parts[d]
    /\ \A x \in S : \A d \in D, e \in D : x \in parts[d] /\ x \in parts[e] => d = e

\* The sums of the parts add up to the sum.
LEMMA SumOfParts ==
    ASSUME NEW f, NEW S, IsFiniteSet(S), \A x \in S : f[x] \in Int,
           NEW D, IsFiniteSet(D), NEW parts, Partition(parts, D, S),
           NEW g, \A d \in D : g[d] = SumFunctionOnSet(f, parts[d])
    PROVE  SumFunctionOnSet(f, S) = SumFunctionOnSet(g, D)
<1> DEFINE h(s) == [d \in D |-> SumFunctionOnSet(f, s \cap parts[d])]
           P == {s \in SUBSET S : SumFunctionOnSet(f, s) = SumFunctionOnSet(h(s), D)}
<1>1. {} \in P
  <2>1. \A d \in D : h({})[d] = 0
    <3> TAKE d \in D
    <3>1. {} \cap parts[d] = {}
      OBVIOUS
    <3> QED
      BY <3>1, SumEmpty
  <2>2. SumFunctionOnSet(h({}), D) = 0
    <3> HIDE DEF h
    <3> QED
      BY <2>1, SumZero
  <2> QED
    BY <2>2, SumEmpty
<1>2. ASSUME NEW s \in SUBSET S, s # {}, \A x \in s : s \ {x} \in P
      PROVE  s \in P
  <2>1. PICK x \in s : TRUE
    BY <1>2
  <2>2. PICK t \in SUBSET S : t = s \ {x}
    OBVIOUS
  <2>3. SumFunctionOnSet(f, t) = SumFunctionOnSet(h(t), D)
    BY <1>2, <2>2
  <2>4. PICK e \in D : x \in parts[e]
    BY DEF Partition
  <2>5. /\ IsFiniteSet(s) /\ IsFiniteSet(t)
        /\ \A y \in s : f[y] \in Int
        /\ f[x] \in Int
    BY FS_Subset
  <2>6. SumFunctionOnSet(f, s) = f[x] + SumFunctionOnSet(f, t)
    BY <2>2, <2>5, SumTake
  <2>7. \A u \in SUBSET S : /\ \A d \in D : h(u)[d] \in Int
                            /\ SumFunctionOnSet(h(u), D) \in Int
    <3> TAKE u \in SUBSET S
    <3>1. ASSUME NEW d \in D PROVE h(u)[d] \in Int
      <4>1. PICK w : w = u \cap parts[d]
        OBVIOUS
      <4>2. IsFiniteSet(w) /\ \A y \in w : f[y] \in Int
        BY <4>1, FS_Subset
      <4>3. SumFunctionOnSet(f, w) \in Int
        BY <4>2, SumType
      <4> QED
        BY <4>1, <4>3
    <3>2. SumFunctionOnSet(h(u), D) \in Int
      <4> HIDE DEF h
      <4> QED
        BY <3>1, SumType
    <3> QED
      BY <3>1, <3>2
  <2>8. h(s)[e] = f[x] + h(t)[e]
    <3>1. PICK w : w = s \cap parts[e]
      OBVIOUS
    <3>2. IsFiniteSet(w) /\ x \in w /\ \A y \in w : f[y] \in Int
      BY <2>4, <3>1, FS_Subset
    <3>3. SumFunctionOnSet(f, w) = f[x] + SumFunctionOnSet(f, w \ {x})
      BY <3>2, SumTake
    <3>4. w \ {x} = t \cap parts[e]
      BY <2>2, <3>1
    <3> QED
      BY <3>1, <3>3, <3>4
  <2>9. \A d \in D \ {e} : h(s)[d] = h(t)[d]
    <3> TAKE d \in D \ {e}
    <3>1. x \notin parts[d]
      BY <2>4 DEF Partition
    <3>2. s \cap parts[d] = t \cap parts[d]
      BY <2>2, <3>1
    <3> QED
      BY <3>2
  <2> HIDE DEF h
  <2>10. /\ SumFunctionOnSet(h(s), D) = h(s)[e] + SumFunctionOnSet(h(s), D \ {e})
         /\ SumFunctionOnSet(h(t), D) = h(t)[e] + SumFunctionOnSet(h(t), D \ {e})
    BY <2>7, SumTake
  <2>11. SumFunctionOnSet(h(s), D \ {e}) = SumFunctionOnSet(h(t), D \ {e})
    <3>1. IsFiniteSet(D \ {e})
      BY FS_RemoveElement
    <3> QED
      BY <2>9, <3>1, SumEqual
  <2>12. SumFunctionOnSet(h(t), D \ {e}) \in Int
    <3>1. IsFiniteSet(D \ {e}) /\ \A d \in D \ {e} : h(t)[d] \in Int
      BY <2>7, FS_RemoveElement
    <3> QED
      BY <3>1, SumType
  <2>13. SumFunctionOnSet(f, s) = SumFunctionOnSet(h(s), D)
    BY <2>3, <2>5, <2>6, <2>7, <2>8, <2>10, <2>11, <2>12
  <2> QED
    BY <2>13
<1>3. \A s \in SUBSET S : s \in P
  <2> HIDE DEF P
  <2> QED
    BY <1>1, <1>2, SubsetInduction
<1>4. SumFunctionOnSet(f, S) = SumFunctionOnSet(h(S), D)
  BY <1>3
<1>5. \A d \in D : h(S)[d] = g[d]
  <2> TAKE d \in D
  <2>1. S \cap parts[d] = parts[d]
    BY DEF Partition
  <2> QED
    BY <2>1
<1> HIDE DEF h
<1>6. SumFunctionOnSet(h(S), D) = SumFunctionOnSet(g, D)
  BY <1>5, SumEqual
<1> QED
  BY <1>4, <1>6

\* Counting is adding up ones.
LEMMA SumCounts ==
    ASSUME NEW f, NEW S, IsFiniteSet(S), \A x \in S : f[x] = 1
    PROVE  SumFunctionOnSet(f, S) = Cardinality(S)
<1> DEFINE P == {s \in SUBSET S : SumFunctionOnSet(f, s) = Cardinality(s)}
<1>1. {} \in P
  BY SumEmpty, FS_EmptySet
<1>2. \A s \in SUBSET S : s # {} /\ (\A x \in s : s \ {x} \in P) => s \in P
  <2> TAKE s \in SUBSET S
  <2> HAVE s # {} /\ (\A x \in s : s \ {x} \in P)
  <2>1. Some(s) \in s /\ IsFiniteSet(s) /\ Cardinality(s) \in Nat
    BY SomeIn, FS_Subset, FS_CardinalityType
  <2>2. SumFunctionOnSet(f, s) = f[Some(s)] + SumFunctionOnSet(f, s \ {Some(s)})
    BY <2>1, SumSome
  <2>3. Cardinality(s \ {Some(s)}) = Cardinality(s) - 1
    BY <2>1, FS_RemoveElement
  <2>4. SumFunctionOnSet(f, s \ {Some(s)}) = Cardinality(s \ {Some(s)})
    BY <2>1
  <2> QED
    BY <2>1, <2>2, <2>3, <2>4
<1>3. \A s \in SUBSET S : s \in P
  <2> HIDE DEF P
  <2> QED
    BY <1>1, <1>2, SubsetInduction
<1> QED
  BY <1>3

\* The elements of the parts are the elements.
LEMMA CountOfParts ==
    ASSUME NEW S, IsFiniteSet(S), NEW D, IsFiniteSet(D), NEW parts, Partition(parts, D, S),
           NEW g, \A d \in D : g[d] = Cardinality(parts[d])
    PROVE  Cardinality(S) = SumFunctionOnSet(g, D)
<1> DEFINE f == [x \in S |-> 1]
<1>1. SumFunctionOnSet(f, S) = Cardinality(S)
  BY SumCounts
<1>2. \A d \in D : g[d] = SumFunctionOnSet(f, parts[d])
  <2> TAKE d \in D
  <2>1. IsFiniteSet(parts[d]) /\ \A x \in parts[d] : f[x] = 1
    BY FS_Subset DEF Partition
  <2> HIDE DEF f
  <2> QED
    BY <2>1, SumCounts
<1>3. \A x \in S : f[x] \in Int
  OBVIOUS
<1> HIDE DEF f
<1> QED
  BY <1>1, <1>2, <1>3, SumOfParts

LEMMA SumAdd ==
    ASSUME NEW f, NEW S, IsFiniteSet(S), NEW x, x \notin S, \A y \in S \cup {x} : f[y] \in Int
    PROVE  SumFunctionOnSet(f, S \cup {x}) = f[x] + SumFunctionOnSet(f, S)
<1>1. PICK T : T = S \cup {x}
  OBVIOUS
<1>2. IsFiniteSet(T) /\ x \in T /\ T \ {x} = S /\ \A y \in T : f[y] \in Int
  BY <1>1, FS_AddElement
<1> QED
  BY <1>1, <1>2, SumTake
=============================================================================
