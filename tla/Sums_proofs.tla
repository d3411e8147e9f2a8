---------------------------- MODULE Sums_proofs ----------------------------
(***************************************************************************)
(* Sums over finite sets, MapThenSumSet of the community modules, which    *)
(* count the answers of a question and the rows behind a word of its       *)
(* cloud.  The fold takes the elements of a set in the order of CHOOSE.    *)
(* The lemmas say that the order does not matter: a sum is the value of    *)
(* one element added to the sum of the others.                             *)
(*                                                                         *)
(* Induction is by the smallest set that would be a counterexample, from   *)
(* the well-foundedness of the strict subsets of a finite set.             *)
(***************************************************************************)
EXTENDS Naturals, FiniteSets, FiniteSetsExt, FiniteSetTheorems, WellFoundedInduction, TLAPS

First(s) == CHOOSE x \in s : TRUE

\* g[s] is the sum of f over s, for every s \subseteq S: the recursion of MapThenFoldSet.
Adds(g, f, S) ==
  g = [s \in SUBSET S |-> IF s = {} THEN 0 ELSE f[First(s)] + g[s \ {First(s)}]]

AllNat(f, S) == \A x \in S : f[x] \in Nat

\* The element CHOOSE takes is one of the set's.
LEMMA FirstIn == ASSUME NEW s, s # {} PROVE First(s) \in s
  BY DEF First

\* Among subsets of a finite set one has no proper subset among them.
LEMMA SmallestSet ==
  ASSUME NEW S, IsFiniteSet(S), NEW B \in SUBSET SUBSET S, B # {}
  PROVE  \E t \in B : \A u \in SUBSET t : u # t => u \notin B
<1>1. B \subseteq FiniteSubsetsOf(S)
  BY FS_Subset DEF FiniteSubsetsOf
<1>2. \E t \in B : \A u \in B : ~(<<u, t>> \in StrictSubsetOrdering(S))
  BY <1>1, FS_StrictSubsetOrderingWellFounded, WFMin, Zenon
<1> QED BY <1>2 DEF StrictSubsetOrdering

\* What the recursion says of one set.
LEMMA AddsStep ==
  ASSUME NEW f, NEW S, NEW g, Adds(g, f, S), NEW t \in SUBSET S
  PROVE  g[t] = IF t = {} THEN 0 ELSE f[First(t)] + g[t \ {First(t)}]
  BY DEF Adds

\* Two sums of the same values agree, whatever larger set each was defined on.
LEMMA AddsAgree ==
  ASSUME NEW S, IsFiniteSet(S), NEW U \in SUBSET S, NEW V \in SUBSET S,
         NEW f, NEW g, Adds(g, f, U), NEW h, NEW k, Adds(k, h, V),
         NEW W \in SUBSET (U \cap V), \A x \in W : f[x] = h[x]
  PROVE  g[W] = k[W]
<1> DEFINE B == {t \in SUBSET W : g[t] # k[t]}
<1> SUFFICES ASSUME B # {} PROVE FALSE
  OBVIOUS
<1>1. B \in SUBSET SUBSET S
  OBVIOUS
<1> HIDE DEF B
<1>2. PICK t \in B : \A u \in SUBSET t : u # t => u \notin B
  BY <1>1, SmallestSet
<1>3. t \in SUBSET W /\ t \in SUBSET U /\ t \in SUBSET V /\ g[t] # k[t]
  BY DEF B
<1>4. g[t] = IF t = {} THEN 0 ELSE f[First(t)] + g[t \ {First(t)}]
  BY <1>3, AddsStep
<1>5. k[t] = IF t = {} THEN 0 ELSE h[First(t)] + k[t \ {First(t)}]
  <2>1. \A s \in SUBSET V : k[s] = IF s = {} THEN 0 ELSE h[First(s)] + k[s \ {First(s)}]
    BY Adds(k, h, V) DEF Adds
  <2> QED BY <1>3, <2>1
<1>6. t # {} /\ First(t) \in t
  BY <1>3, <1>4, <1>5, FirstIn
<1>7. g[t \ {First(t)}] = k[t \ {First(t)}]
  BY <1>2, <1>3, <1>6 DEF B
<1>8. f[First(t)] = h[First(t)]
  BY <1>3, <1>6
<1> QED BY <1>3, <1>4, <1>5, <1>6, <1>7, <1>8

\* The recursion has a solution on every finite set.
LEMMA AddsExists ==
  ASSUME NEW S, IsFiniteSet(S), NEW f
  PROVE  \E g : Adds(g, f, S)
<1>0. \A U, V \in SUBSET S : \A g, k : \A W \in SUBSET (U \cap V) :
        Adds(g, f, U) /\ Adds(k, f, V) => g[W] = k[W]
  BY AddsAgree
<1> DEFINE B == {t \in SUBSET S : ~\E g : Adds(g, f, t)}
<1> SUFFICES ASSUME B # {} PROVE FALSE
  OBVIOUS
<1>1. B \in SUBSET SUBSET S
  OBVIOUS
<1> HIDE DEF B
<1>2. PICK t \in B : \A u \in SUBSET t : u # t => u \notin B
  BY <1>1, SmallestSet
<1>3. t \in SUBSET S /\ ~\E g : Adds(g, f, t)
  BY DEF B
<1>4. \A u \in SUBSET t : u # t => \E g : Adds(g, f, u)
  BY <1>2, <1>3 DEF B
<1> DEFINE G(u) == CHOOSE g : Adds(g, f, u)
           Value(u) == G(u)[u]
           n == [s \in SUBSET t |-> IF s = {} THEN 0 ELSE f[First(s)] + Value(s \ {First(s)})]
<1>5. \A u \in SUBSET t : u # t => Adds(G(u), f, u)
  BY <1>4
<1>6. ASSUME NEW u \in SUBSET t, u # t PROVE n[u] = Value(u)
  <2>1. Adds(G(u), f, u)
    BY <1>5, <1>6
  <2>2. Value(u) = IF u = {} THEN 0 ELSE f[First(u)] + G(u)[u \ {First(u)}]
    BY <2>1, AddsStep
  <2>3. u # {} => Value(u \ {First(u)}) = G(u)[u \ {First(u)}]
    <3> SUFFICES ASSUME u # {} PROVE Value(u \ {First(u)}) = G(u)[u \ {First(u)}]
      OBVIOUS
    <3> DEFINE v == u \ {First(u)}
    <3>1. v \in SUBSET t /\ v # t /\ v \in SUBSET u /\ v \in SUBSET S /\ u \in SUBSET S
      BY <1>3, <1>6, FirstIn
    <3>2. Adds(G(v), f, v)
      BY <3>1, <1>5
    <3>3. \A w \in SUBSET S : \A a, b : w \subseteq u /\ Adds(a, f, w) /\ Adds(b, f, u) => a[w] = b[w]
      BY <3>1, <1>0
    <3> HIDE DEF v, G
    <3>4. G(v)[v] = G(u)[v]
      BY <3>1, <3>2, <3>3, <2>1
    <3> QED BY <3>4 DEF v, Value, G
  <2> QED BY <2>2, <2>3
<1>7. \A s \in SUBSET t : s # {} => n[s \ {First(s)}] = Value(s \ {First(s)})
  <2> TAKE s \in SUBSET t
  <2> HAVE s # {}
  <2> QED BY <1>6, FirstIn
<1>8. Adds(n, f, t)
  <2>1. n = [s \in SUBSET t |-> IF s = {} THEN 0 ELSE f[First(s)] + Value(s \ {First(s)})]
    OBVIOUS
  <2> HIDE DEF n, Value
  <2> QED BY <1>7, <2>1, Zenon DEF Adds
<1> QED BY <1>3, <1>8

\* Sums of natural numbers are natural numbers.
LEMMA AddsNat ==
  ASSUME NEW S, IsFiniteSet(S), NEW f, AllNat(f, S), NEW g, Adds(g, f, S), NEW T \in SUBSET S
  PROVE  g[T] \in Nat
<1> DEFINE B == {t \in SUBSET S : g[t] \notin Nat}
<1> SUFFICES ASSUME B # {} PROVE FALSE
  OBVIOUS
<1>1. B \in SUBSET SUBSET S
  OBVIOUS
<1> HIDE DEF B
<1>2. PICK t \in B : \A u \in SUBSET t : u # t => u \notin B
  BY <1>1, SmallestSet
<1>3. t \in SUBSET S /\ g[t] \notin Nat
  BY DEF B
<1>4. g[t] = IF t = {} THEN 0 ELSE f[First(t)] + g[t \ {First(t)}]
  BY <1>3, AddsStep
<1>5. t # {} /\ First(t) \in t
  BY <1>3, <1>4, FirstIn
<1>6. g[t \ {First(t)}] \in Nat
  BY <1>2, <1>3, <1>5 DEF B
<1>7. f[First(t)] \in Nat
  BY <1>3, <1>5 DEF AllNat
<1> QED BY <1>3, <1>4, <1>5, <1>6, <1>7

\* Any element may be added last.
LEMMA AddsOne ==
  ASSUME NEW S, IsFiniteSet(S), NEW f, AllNat(f, S), NEW g, Adds(g, f, S),
         NEW T \in SUBSET S, NEW e \in T
  PROVE  g[T] = f[e] + g[T \ {e}]
<1> DEFINE B == {t \in SUBSET S : \E x \in t : g[t] # f[x] + g[t \ {x}]}
<1> SUFFICES ASSUME B # {} PROVE FALSE
  OBVIOUS
<1>1. B \in SUBSET SUBSET S
  OBVIOUS
<1> HIDE DEF B
<1>2. PICK t \in B : \A u \in SUBSET t : u # t => u \notin B
  BY <1>1, SmallestSet
<1>3. PICK x \in t : g[t] # f[x] + g[t \ {x}]
  BY DEF B
<1>4. t \in SUBSET S
  BY DEF B
<1> DEFINE c == First(t)
           r == (t \ {c}) \ {x}
<1>5. c \in t /\ g[t] = f[c] + g[t \ {c}]
  BY <1>3, <1>4, AddsStep, FirstIn
<1>6. c # x
  BY <1>3, <1>5
<1>7. g[t \ {c}] = f[x] + g[r]
  BY <1>2, <1>4, <1>5, <1>6 DEF B
<1>8. g[t \ {x}] = f[c] + g[r]
  <2>1. (t \ {x}) \ {c} = r
    OBVIOUS
  <2>2. t \ {x} \in SUBSET S /\ t \ {x} \notin B /\ c \in t \ {x}
    BY <1>2, <1>3, <1>4, <1>5, <1>6
  <2>3. \A y \in t \ {x} : g[t \ {x}] = f[y] + g[(t \ {x}) \ {y}]
    BY <2>2 DEF B
  <2> HIDE DEF c, r
  <2> QED BY <2>1, <2>2, <2>3
<1>9. f[c] \in Nat /\ f[x] \in Nat /\ g[r] \in Nat
  BY <1>3, <1>4, <1>5, AddsNat DEF AllNat
<1> QED BY <1>3, <1>5, <1>7, <1>8, <1>9
-----------------------------------------------------------------------------
(* The sum itself *)

SumOf(f, S) == MapThenSumSet(LAMBDA x : f[x], S)

\* A sum is a value of the recursion.
LEMMA SumAdds ==
  ASSUME NEW S, IsFiniteSet(S), NEW f
  PROVE  \E g : Adds(g, f, S) /\ SumOf(f, S) = g[S]
<1>1. \E g : Adds(g, f, S)
  BY AddsExists
<1> QED BY <1>1 DEF SumOf, Adds, First, MapThenSumSet, MapThenFoldSet

\* The sum of natural numbers is one.
LEMMA SumNat ==
  ASSUME NEW S, IsFiniteSet(S), NEW f, AllNat(f, S)
  PROVE  SumOf(f, S) \in Nat
BY SumAdds, AddsNat

\* The sum of nothing.
LEMMA SumEmpty == ASSUME NEW f PROVE SumOf(f, {}) = 0
<1>1. PICK g : Adds(g, f, {}) /\ SumOf(f, {}) = g[{}]
  BY SumAdds, FS_EmptySet
<1> QED BY <1>1 DEF Adds

\* A sum is the value of any element added to the sum of the others.
LEMMA SumStep ==
  ASSUME NEW S, IsFiniteSet(S), NEW f, AllNat(f, S), NEW x \in S
  PROVE  SumOf(f, S) = f[x] + SumOf(f, S \ {x})
<1>1. PICK g : Adds(g, f, S) /\ SumOf(f, S) = g[S]
  BY SumAdds
<1>2. IsFiniteSet(S \ {x})
  BY FS_RemoveElement
<1>3. PICK k : Adds(k, f, S \ {x}) /\ SumOf(f, S \ {x}) = k[S \ {x}]
  BY <1>2, SumAdds
<1>4. g[S] = f[x] + g[S \ {x}]
  BY <1>1, AddsOne
<1>5. g[S \ {x}] = k[S \ {x}]
  <2> DEFINE V == S \ {x}
  <2>1. S \in SUBSET S /\ V \in SUBSET S /\ V \in SUBSET (S \cap V) /\ Adds(k, f, V)
    BY <1>3
  <2> HIDE DEF V
  <2>2. g[V] = k[V]
    BY <1>1, <2>1, AddsAgree
  <2> QED BY <2>2 DEF V
<1> QED BY <1>1, <1>3, <1>4, <1>5

\* A sum depends on the values of the set's elements only.
LEMMA SumSame ==
  ASSUME NEW S, IsFiniteSet(S), NEW f, NEW h, \A x \in S : f[x] = h[x]
  PROVE  SumOf(f, S) = SumOf(h, S)
<1>1. PICK g : Adds(g, f, S) /\ SumOf(f, S) = g[S]
  BY SumAdds
<1>2. PICK k : Adds(k, h, S) /\ SumOf(h, S) = k[S]
  BY SumAdds
<1>3. S \in SUBSET S /\ S \in SUBSET (S \cap S)
  OBVIOUS
<1>4. g[S] = k[S]
  BY <1>1, <1>2, <1>3, AddsAgree
<1> QED BY <1>1, <1>2, <1>4

\* One more in one place is one more in all.
LEMMA SumOneMore ==
  ASSUME NEW S, IsFiniteSet(S), NEW f, AllNat(f, S), NEW h, NEW x \in S,
         h[x] = f[x] + 1, \A y \in S \ {x} : h[y] = f[y]
  PROVE  SumOf(h, S) = SumOf(f, S) + 1
<1>1. IsFiniteSet(S \ {x}) /\ AllNat(f, S \ {x}) /\ AllNat(h, S)
  BY FS_RemoveElement DEF AllNat
<1>2. SumOf(f, S) = f[x] + SumOf(f, S \ {x})
  BY SumStep
<1>3. SumOf(h, S) = h[x] + SumOf(h, S \ {x})
  BY <1>1, SumStep
<1>4. SumOf(h, S \ {x}) = SumOf(f, S \ {x})
  BY <1>1, SumSame
<1>5. SumOf(f, S \ {x}) \in Nat /\ f[x] \in Nat
  BY <1>1, SumNat DEF AllNat
<1> QED BY <1>2, <1>3, <1>4, <1>5

\* Less in every place is less in all.
LEMMA SumLess ==
  ASSUME NEW S, IsFiniteSet(S), NEW f, AllNat(f, S), NEW h, AllNat(h, S),
         \A x \in S : f[x] <= h[x]
  PROVE  SumOf(f, S) <= SumOf(h, S)
<1> DEFINE B == {t \in SUBSET S : ~(SumOf(f, t) <= SumOf(h, t))}
<1> SUFFICES ASSUME B # {} PROVE FALSE
  OBVIOUS
<1>1. B \in SUBSET SUBSET S
  OBVIOUS
<1> HIDE DEF B
<1>2. PICK t \in B : \A u \in SUBSET t : u # t => u \notin B
  BY <1>1, SmallestSet
<1>3. t \in SUBSET S /\ ~(SumOf(f, t) <= SumOf(h, t))
  BY DEF B
<1>4. t # {}
  BY <1>3, SumEmpty
<1>5. PICK x \in t : TRUE
  BY <1>4
<1>6. /\ IsFiniteSet(t) /\ AllNat(f, t) /\ AllNat(h, t)
      /\ IsFiniteSet(t \ {x}) /\ AllNat(f, t \ {x}) /\ AllNat(h, t \ {x})
  BY <1>3, FS_Subset, FS_RemoveElement DEF AllNat
<1>7. SumOf(f, t) = f[x] + SumOf(f, t \ {x}) /\ SumOf(h, t) = h[x] + SumOf(h, t \ {x})
  BY <1>6, SumStep
<1>8. SumOf(f, t \ {x}) <= SumOf(h, t \ {x})
  BY <1>2, <1>3 DEF B
<1>9. /\ SumOf(f, t \ {x}) \in Nat /\ SumOf(h, t \ {x}) \in Nat
      /\ f[x] \in Nat /\ h[x] \in Nat /\ f[x] <= h[x]
  BY <1>3, <1>6, SumNat DEF AllNat
<1> QED BY <1>3, <1>7, <1>8, <1>9

\* A sum of zeros.
LEMMA SumZero ==
  ASSUME NEW S, IsFiniteSet(S), NEW f, \A x \in S : f[x] = 0
  PROVE  SumOf(f, S) = 0
<1> DEFINE B == {t \in SUBSET S : SumOf(f, t) # 0}
<1> SUFFICES ASSUME B # {} PROVE FALSE
  OBVIOUS
<1>1. B \in SUBSET SUBSET S
  OBVIOUS
<1> HIDE DEF B
<1>2. PICK t \in B : \A u \in SUBSET t : u # t => u \notin B
  BY <1>1, SmallestSet
<1>3. t \in SUBSET S /\ SumOf(f, t) # 0
  BY DEF B
<1>4. t # {}
  BY <1>3, SumEmpty
<1>5. PICK x \in t : TRUE
  BY <1>4
<1>6. IsFiniteSet(t) /\ AllNat(f, t)
  BY <1>3, FS_Subset DEF AllNat
<1>7. SumOf(f, t) = f[x] + SumOf(f, t \ {x})
  BY <1>6, SumStep
<1>8. SumOf(f, t \ {x}) = 0
  BY <1>2, <1>3 DEF B
<1> QED BY <1>3, <1>7, <1>8

\* A change of one value changes the sum by as much.
LEMMA SumChanged ==
  ASSUME NEW S, IsFiniteSet(S), NEW f, AllNat(f, S), NEW h, AllNat(h, S), NEW x \in S,
         \A y \in S \ {x} : h[y] = f[y]
  PROVE  SumOf(h, S) + f[x] = SumOf(f, S) + h[x]
<1>1. IsFiniteSet(S \ {x}) /\ AllNat(f, S \ {x})
  BY FS_RemoveElement DEF AllNat
<1>2. SumOf(f, S) = f[x] + SumOf(f, S \ {x}) /\ SumOf(h, S) = h[x] + SumOf(h, S \ {x})
  BY SumStep
<1>3. SumOf(h, S \ {x}) = SumOf(f, S \ {x})
  BY <1>1, SumSame
<1>4. SumOf(f, S \ {x}) \in Nat /\ f[x] \in Nat /\ h[x] \in Nat
  BY <1>1, SumNat DEF AllNat
<1> QED BY <1>2, <1>3, <1>4

\* A sum of values up to d.
LEMMA SumBound ==
  ASSUME NEW S, IsFiniteSet(S), NEW f, AllNat(f, S), NEW d \in Nat, \A x \in S : f[x] <= d
  PROVE  SumOf(f, S) <= Cardinality(S) * d
<1> DEFINE B == {t \in SUBSET S : ~(SumOf(f, t) <= Cardinality(t) * d)}
<1> SUFFICES ASSUME B # {} PROVE FALSE
  OBVIOUS
<1>1. B \in SUBSET SUBSET S
  OBVIOUS
<1> HIDE DEF B
<1>2. PICK t \in B : \A u \in SUBSET t : u # t => u \notin B
  BY <1>1, SmallestSet
<1>3. t \in SUBSET S /\ ~(SumOf(f, t) <= Cardinality(t) * d)
  BY DEF B
<1>4. t # {}
  <2>1. SumOf(f, {}) = 0 /\ Cardinality({}) = 0 /\ 0 * d = 0
    BY SumEmpty, FS_EmptySet
  <2>2. SumOf(f, {}) <= Cardinality({}) * d
    BY <2>1
  <2> QED BY <1>3, <2>2
<1>5. PICK x \in t : TRUE
  BY <1>4
<1>6. IsFiniteSet(t) /\ AllNat(f, t) /\ IsFiniteSet(t \ {x}) /\ AllNat(f, t \ {x})
  BY <1>3, FS_Subset, FS_RemoveElement DEF AllNat
<1>7. SumOf(f, t) = f[x] + SumOf(f, t \ {x})
  BY <1>6, SumStep
<1>8. SumOf(f, t \ {x}) <= Cardinality(t \ {x}) * d
  BY <1>2, <1>3 DEF B
<1>9. PICK n \in Nat : n = Cardinality(t \ {x})
  BY <1>6, FS_CardinalityType
<1>10. Cardinality(t) = n + 1
  <2>1. Cardinality(t \ {x}) = Cardinality(t) - 1 /\ Cardinality(t) \in Nat
    BY <1>6, FS_RemoveElement, FS_CardinalityType
  <2> QED BY <1>9, <2>1
<1>11. SumOf(f, t \ {x}) \in Nat /\ f[x] \in Nat /\ f[x] <= d
  BY <1>3, <1>6, SumNat DEF AllNat
<1>12. (n + 1) * d = n * d + d /\ n * d \in Nat
  OBVIOUS
<1>13. PICK m : m = SumOf(f, t \ {x})
  OBVIOUS
<1>14. PICK p : p = n * d
  OBVIOUS
<1>15. m \in Nat /\ p \in Nat /\ m <= p /\ f[x] + m <= p + d
  BY <1>8, <1>9, <1>11, <1>12, <1>13, <1>14
<1>16. SumOf(f, t) = f[x] + m /\ Cardinality(t) * d = p + d
  BY <1>7, <1>10, <1>12, <1>13, <1>14
<1> QED BY <1>3, <1>15, <1>16

=============================================================================
