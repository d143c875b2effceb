---------------------------- MODULE FoldTheorems ----------------------------
(***************************************************************************)
(* What the folds of the community modules compute: an iteration over a    *)
(* finite set exists and is unique, a sum over a finite set does not       *)
(* depend on the order in which its terms are taken, and a fold over a     *)
(* sequence takes one more step when the sequence grows by one element.    *)
(* The same for the one sequence a sequence of sequences is put into.      *)
(*                                                                         *)
(* Everything is first-order: an induction is over the numbers, or the     *)
(* subsets of a finite set, that a property given as a set holds of.       *)
(***************************************************************************)
EXTENDS Integers, Sequences, SequencesExt, SequenceTheorems,
        FiniteSetTheorems, NaturalsInduction, WellFoundedInduction, TLAPS

\* Induction over the natural numbers, for a property given as a set: the
\* smallest number outside of it has a predecessor inside.
LEMMA NatSetInduction ==
  ASSUME NEW S \in SUBSET Nat, 0 \in S, \A n \in S : n + 1 \in S
  PROVE  S = Nat
<1> DEFINE R == OpToRel(<, Nat)
           T == Nat \ S
<1> SUFFICES ASSUME T # {} PROVE FALSE
  OBVIOUS
<1>1. IsWellFoundedOn(R, Nat)
  BY NatLessThanWellFounded
<1>2. T \subseteq Nat OBVIOUS
<1>3. \A x, y \in Nat : x < y => <<x, y>> \in R
  BY DEF OpToRel
<1> HIDE DEF R
<1>4. PICK x \in T : \A y \in T : ~ (<<y, x>> \in R)
  <2> HIDE DEF T
  <2> QED BY <1>1, <1>2, WFMin
<1>5. x \in Nat /\ x # 0 OBVIOUS
<1>6. x - 1 \in Nat /\ <<x - 1, x>> \in R BY <1>3, <1>5
<1>7. x - 1 \in S BY <1>4, <1>6
<1>8. (x - 1) + 1 \in S BY <1>7
<1> QED BY <1>5, <1>8

\* Induction over a finite set, one element after the other.
LEMMA SetInduction ==
  ASSUME NEW U, IsFiniteSet(U), NEW W \in SUBSET SUBSET U, {} \in W,
         \A s \in W : \A x \in U \ s : s \cup {x} \in W
  PROVE  U \in W
<1> DEFINE N == {n \in Nat : \A s \in SUBSET U : Cardinality(s) = n => s \in W}
<1>1. \A s \in SUBSET U : IsFiniteSet(s) BY FS_Subset
<1>2. 0 \in N
  <2>1. \A s \in SUBSET U : Cardinality(s) = 0 => s = {} BY <1>1, FS_EmptySet
  <2> QED BY <2>1
<1>3. ASSUME NEW n \in N PROVE n + 1 \in N
  <2> SUFFICES ASSUME NEW s \in SUBSET U, Cardinality(s) = n + 1 PROVE s \in W
    OBVIOUS
  <2> n \in Nat OBVIOUS
  <2>1. s # {}
    <3> HIDE DEF N
    <3>1. Cardinality({}) = 0 BY FS_EmptySet
    <3> QED BY <3>1
  <2>2. PICK x \in s : TRUE BY <2>1
  <2>3. Cardinality(s \ {x}) = n
    <3> HIDE DEF N
    <3>1. Cardinality(s \ {x}) = Cardinality(s) - 1 BY <1>1, <2>2, FS_RemoveElement
    <3> QED BY <3>1
  <2>4. s \ {x} \in W BY <2>3
  <2>5. s = (s \ {x}) \cup {x} OBVIOUS
  <2> QED BY <2>2, <2>4, <2>5
<1> HIDE DEF N
<1>4. N \in SUBSET Nat BY DEF N
<1>5. N = Nat BY <1>2, <1>3, <1>4, NatSetInduction
<1>6. Cardinality(U) \in N BY <1>5, FS_CardinalityType
<1> QED BY <1>6 DEF N

-----------------------------------------------------------------------------
(***************************************************************************)
(* Iterations: c chooses an element of a set, k takes the step for it.     *)
(***************************************************************************)
Iterates(it, D, c, k, base) ==
  it = [s \in SUBSET D |->
          IF s = {} THEN base ELSE k[<<it[s \ {c[s]}], c[s]>>]]

Chooses(c, D) == \A s \in SUBSET D : s # {} => c[s] \in s

LEMMA IterationExists ==
  ASSUME NEW D, IsFiniteSet(D), NEW V, NEW c, NEW k, NEW base \in V,
         Chooses(c, D), \A v \in V, x \in D : k[<<v, x>>] \in V
  PROVE  \E it \in [SUBSET D -> V] : Iterates(it, D, c, k, base)
<1> DEFINE Upto(n) == {s \in SUBSET D : Cardinality(s) <= n}
           Step(it, s) == IF s = {} THEN base ELSE k[<<it[s \ {c[s]}], c[s]>>]
           N == {n \in Nat : \E it \in [Upto(n) -> V] : \A s \in Upto(n) : it[s] = Step(it, s)}
<1>1. \A s \in SUBSET D : IsFiniteSet(s) /\ Cardinality(s) \in Nat
  BY FS_Subset, FS_CardinalityType
<1>2. 0 \in N
  <2> DEFINE it == [s \in Upto(0) |-> base]
  <2>1. \A s \in Upto(0) : s = {}
    <3> TAKE s \in Upto(0)
    <3> QED BY <1>1, FS_EmptySet
  <2>2. it \in [Upto(0) -> V] OBVIOUS
  <2>3. \A s \in Upto(0) : it[s] = Step(it, s) BY <2>1
  <2> HIDE DEF it
  <2> QED BY <2>2, <2>3
<1>3. ASSUME NEW n \in N PROVE n + 1 \in N
  <2>1. n \in Nat OBVIOUS
  <2>2. PICK it \in [Upto(n) -> V] : \A s \in Upto(n) : it[s] = Step(it, s) OBVIOUS
  <2> DEFINE next == [s \in Upto(n + 1) |-> Step(it, s)]
  <2>3. ASSUME NEW s \in Upto(n + 1), s # {}
        PROVE  /\ s \ {c[s]} \in Upto(n) /\ s \ {c[s]} \in Upto(n + 1)
               /\ c[s] \in D
    <3>1. c[s] \in s BY <2>3 DEF Chooses
    <3>2. Cardinality(s \ {c[s]}) = Cardinality(s) - 1 BY <1>1, <3>1, FS_RemoveElement
    <3>3. Cardinality(s) \in Nat /\ Cardinality(s) <= n + 1 BY <1>1
    <3>4. Cardinality(s \ {c[s]}) <= n BY <2>1, <3>2, <3>3
    <3>5. Cardinality(s \ {c[s]}) <= n + 1 BY <2>1, <3>2, <3>3
    <3> QED BY <3>1, <3>4, <3>5
  <2>4. \A s \in Upto(n + 1) : Step(it, s) \in V BY <2>3
  <2>5. next \in [Upto(n + 1) -> V] BY <2>4
  <2>6. \A s \in Upto(n) : s \in Upto(n + 1) BY <1>1, <2>1
  <2>7. \A s \in Upto(n) : next[s] = it[s] BY <2>2, <2>6
  <2>8. \A s \in Upto(n + 1) : next[s] = Step(next, s)
    <3> TAKE s \in Upto(n + 1)
    <3>1. next[s] = Step(it, s) OBVIOUS
    <3>2. CASE s = {} BY <3>1, <3>2
    <3>3. CASE s # {}
      <4>1. it[s \ {c[s]}] = next[s \ {c[s]}] BY <2>3, <2>7, <3>3
      <4> HIDE DEF next, Upto
      <4> QED BY <3>1, <3>3, <4>1
    <3> QED BY <3>2, <3>3
  <2>9. \E jt \in [Upto(n + 1) -> V] : \A s \in Upto(n + 1) : jt[s] = Step(jt, s)
    <3> HIDE DEF next, Step, Upto
    <3> QED BY <2>5, <2>8
  <2> HIDE DEF next, Step, Upto
  <2>10. n + 1 \in Nat BY <2>1
  <2> QED BY <2>9, <2>10
<1>4. N = Nat
  <2>1. N \in SUBSET Nat OBVIOUS
  <2> HIDE DEF N
  <2> QED BY <1>2, <1>3, <2>1, NatSetInduction
<1>5. Cardinality(D) \in N BY <1>4, FS_CardinalityType
<1>6. PICK it \in [Upto(Cardinality(D)) -> V] :
        \A s \in Upto(Cardinality(D)) : it[s] = Step(it, s)
  BY <1>5
<1>7. Upto(Cardinality(D)) = SUBSET D
  <2>1. \A s \in SUBSET D : Cardinality(s) <= Cardinality(D) BY FS_Subset
  <2> QED BY <2>1
<1>8. it = [s \in SUBSET D |-> Step(it, s)]
  <2> HIDE DEF Step, Upto
  <2> QED BY <1>6, <1>7
<1> QED BY <1>6, <1>7, <1>8 DEF Iterates

-----------------------------------------------------------------------------
(***************************************************************************)
(* Sums over finite sets.                                                  *)
(***************************************************************************)

\* A sum by subsets that takes one term after the other.
Additive(g, f, U) ==
  /\ g \in [SUBSET U -> Int]
  /\ g[{}] = 0
  /\ \A s \in SUBSET U : \A x \in U \ s : g[s \cup {x}] = f[x] + g[s]

LEMMA AdditiveExists ==
  ASSUME NEW U, IsFiniteSet(U), NEW f, \A x \in U : f[x] \in Int
  PROVE  \E g : Additive(g, f, U)
<1> DEFINE W == {s \in SUBSET U : \E g : Additive(g, f, s)}
<1>1. {} \in W
  <2> DEFINE g == [s \in SUBSET {} |-> 0]
  <2>1. Additive(g, f, {}) BY DEF Additive
  <2> HIDE DEF g
  <2> QED BY <2>1
<1>2. ASSUME NEW s \in W, NEW x \in U \ s PROVE s \cup {x} \in W
  <2>1. PICK g : Additive(g, f, s) OBVIOUS
  <2> DEFINE T == s \cup {x}
             h == [t \in SUBSET T |-> IF x \in t THEN f[x] + g[t \ {x}] ELSE g[t]]
  <2>2. \A t \in SUBSET T : t \ {x} \in SUBSET s /\ (x \notin t => t \in SUBSET s) OBVIOUS
  <2>3. f[x] \in Int /\ \A y \in s : f[y] \in Int OBVIOUS
  <2>4. g \in [SUBSET s -> Int] BY <2>1 DEF Additive
  <2>5. h \in [SUBSET T -> Int] BY <2>2, <2>3, <2>4
  <2>6. h[{}] = 0 BY <2>1 DEF Additive
  <2>7. ASSUME NEW t \in SUBSET T, NEW y \in T \ t PROVE h[t \cup {y}] = f[y] + h[t]
    <3>1. t \cup {y} \in SUBSET T OBVIOUS
    <3>2. CASE y = x
      <4>1. (t \cup {y}) \ {x} = t /\ x \notin t BY <3>2
      <4> QED BY <3>1, <3>2, <4>1
    <3>3. CASE y # x /\ x \in t
      <4>1. (t \cup {y}) \ {x} = (t \ {x}) \cup {y} BY <3>3
      <4>2. y \in s \ (t \ {x}) /\ t \ {x} \in SUBSET s BY <3>3
      <4>3. g[(t \ {x}) \cup {y}] = f[y] + g[t \ {x}] BY <2>1, <4>2 DEF Additive
      <4>4. h[t \cup {y}] = f[x] + g[(t \ {x}) \cup {y}] BY <3>1, <3>3, <4>1
      <4>5. h[t] = f[x] + g[t \ {x}] BY <3>3
      <4>6. g[t \ {x}] \in Int /\ f[y] \in Int BY <2>3, <2>4, <4>2
      <4> HIDE DEF h, T
      <4> QED BY <2>3, <4>3, <4>4, <4>5, <4>6
    <3>4. CASE y # x /\ x \notin t
      <4>1. y \in s \ t /\ t \in SUBSET s /\ x \notin t \cup {y} BY <3>4
      <4>2. g[t \cup {y}] = f[y] + g[t] BY <2>1, <4>1 DEF Additive
      <4> QED BY <3>1, <3>4, <4>1, <4>2
    <3> QED BY <3>2, <3>3, <3>4
  <2>8. Additive(h, f, T)
    <3> HIDE DEF h, T
    <3> QED BY <2>5, <2>6, <2>7 DEF Additive
  <2>9. T \in SUBSET U OBVIOUS
  <2> HIDE DEF h
  <2> QED BY <2>8, <2>9
<1>3. U \in W
  <2>1. W \in SUBSET SUBSET U OBVIOUS
  <2> HIDE DEF W
  <2> QED BY <1>1, <1>2, <2>1, SetInduction
<1> QED BY <1>3

\* The sum of the community modules is that one, whatever it chooses first.
LEMMA SumIsAdditive ==
  ASSUME NEW U, IsFiniteSet(U), NEW f, NEW g, Additive(g, f, U)
  PROVE  SumFunctionOnSet(f, U) = g[U]
<1> DEFINE Body(it) == [s \in SUBSET U |->
                          IF s = {} THEN 0
                          ELSE LET x == CHOOSE x \in s : TRUE IN f[x] + it[s \ {x}]]
<1>1. \A s \in SUBSET U : s # {} => (CHOOSE x \in s : TRUE) \in s OBVIOUS
<1>2. g = Body(g)
  <2>1. ASSUME NEW s \in SUBSET U, s # {}, NEW x \in s PROVE g[s] = f[x] + g[s \ {x}]
    <3>1. s = (s \ {x}) \cup {x} /\ s \ {x} \in SUBSET U /\ x \in U \ (s \ {x}) OBVIOUS
    <3> QED BY <3>1 DEF Additive
  <2>2. \A s \in SUBSET U : g[s] = Body(g)[s] BY <1>1, <2>1 DEF Additive
  <2>3. g \in [SUBSET U -> Int] BY DEF Additive
  <2> HIDE DEF Body
  <2>4. DOMAIN Body(g) = SUBSET U BY DEF Body
  <2>5. Body(g) = [s \in SUBSET U |-> Body(g)[s]] BY DEF Body
  <2> QED BY <2>2, <2>3, <2>5
<1> DEFINE it == CHOOSE it : it = Body(it)
<1>3. it = Body(it)
  <2> HIDE DEF Body
  <2> QED BY <1>2
<1>4. SumFunctionOnSet(f, U) = it[U]
  BY DEF SumFunctionOnSet, FoldFunctionOnSet, MapThenFoldSet
<1> HIDE DEF it
<1> DEFINE N == {n \in Nat : \A s \in SUBSET U : Cardinality(s) = n => it[s] = g[s]}
<1>5. \A s \in SUBSET U : IsFiniteSet(s) BY FS_Subset
<1>6. 0 \in N
  <2>1. it[{}] = g[{}] BY <1>3 DEF Additive
  <2>2. \A s \in SUBSET U : Cardinality(s) = 0 => s = {} BY <1>5, FS_EmptySet
  <2> QED BY <2>1, <2>2
<1>7. ASSUME NEW n \in N PROVE n + 1 \in N
  <2> n \in Nat OBVIOUS
  <2> SUFFICES ASSUME NEW s \in SUBSET U, Cardinality(s) = n + 1 PROVE it[s] = g[s]
    OBVIOUS
  <2>1. s # {}
    <3>1. Cardinality({}) = 0 BY FS_EmptySet
    <3>2. n + 1 # 0 OBVIOUS
    <3> HIDE DEF N, Body
    <3> QED BY <3>1, <3>2, Zenon
  <2> DEFINE x == CHOOSE x \in s : TRUE
  <2>2. x \in s BY <1>1, <2>1
  <2>3. it[s] = f[x] + it[s \ {x}] BY <1>3, <2>1
  <2>4. g[s] = f[x] + g[s \ {x}] BY <1>2, <2>1
  <2> HIDE DEF x, Body
  <2>5. Cardinality(s \ {x}) = n
    <3> HIDE DEF N
    <3>1. Cardinality(s \ {x}) = Cardinality(s) - 1 BY <1>5, <2>2, FS_RemoveElement
    <3> QED BY <3>1
  <2>6. it[s \ {x}] = g[s \ {x}] BY <2>5
  <2> QED BY <2>3, <2>4, <2>6
<1>8. N = Nat
  <2>1. N \in SUBSET Nat OBVIOUS
  <2> HIDE DEF N
  <2> QED BY <1>6, <1>7, <2>1, NatSetInduction
<1>9. Cardinality(U) \in N BY <1>8, FS_CardinalityType
<1> HIDE DEF Body
<1> QED BY <1>4, <1>9

\* What a sum is, by the subsets of a finite set.
LEMMA SumBySubsets ==
  ASSUME NEW U, IsFiniteSet(U), NEW f, \A x \in U : f[x] \in Int
  PROVE  /\ SumFunctionOnSet(f, {}) = 0
         /\ \A S \in SUBSET U : SumFunctionOnSet(f, S) \in Int
         /\ \A S \in SUBSET U : \A x \in U \ S : SumFunctionOnSet(f, S \cup {x}) = f[x] + SumFunctionOnSet(f, S)
<1>1. PICK g : Additive(g, f, U) BY AdditiveExists
<1>2. ASSUME NEW S \in SUBSET U PROVE SumFunctionOnSet(f, S) = g[S]
  <2> DEFINE h == [s \in SUBSET S |-> g[s]]
  <2>1. Additive(h, f, S) BY <1>1 DEF Additive
  <2>2. IsFiniteSet(S) BY FS_Subset
  <2>3. h[S] = g[S] OBVIOUS
  <2> HIDE DEF h
  <2> QED BY <2>1, <2>2, <2>3, SumIsAdditive
<1>3. {} \in SUBSET U /\ \A S \in SUBSET U : \A x \in U : S \cup {x} \in SUBSET U OBVIOUS
<1>4. SumFunctionOnSet(f, {}) = 0 BY <1>1, <1>2, <1>3 DEF Additive
<1>5. \A S \in SUBSET U : SumFunctionOnSet(f, S) \in Int BY <1>1, <1>2 DEF Additive
<1>6. ASSUME NEW S \in SUBSET U, NEW x \in U \ S
      PROVE  SumFunctionOnSet(f, S \cup {x}) = f[x] + SumFunctionOnSet(f, S)
  <2>1. g[S \cup {x}] = f[x] + g[S] BY <1>1 DEF Additive
  <2> QED BY <1>2, <1>3, <2>1
<1> QED BY <1>4, <1>5, <1>6

LEMMA SumType ==
  ASSUME NEW S, IsFiniteSet(S), NEW f, \A x \in S : f[x] \in Int
  PROVE  SumFunctionOnSet(f, S) \in Int
BY SumBySubsets

LEMMA SumAdd ==
  ASSUME NEW S, IsFiniteSet(S), NEW x, x \notin S, NEW f, \A y \in S \cup {x} : f[y] \in Int
  PROVE  SumFunctionOnSet(f, S \cup {x}) = f[x] + SumFunctionOnSet(f, S)
<1>1. IsFiniteSet(S \cup {x}) BY FS_AddElement
<1>2. S \in SUBSET (S \cup {x}) /\ x \in (S \cup {x}) \ S OBVIOUS
<1> QED BY <1>1, <1>2, SumBySubsets

LEMMA SumRemove ==
  ASSUME NEW S, IsFiniteSet(S), NEW x \in S, NEW f, \A y \in S : f[y] \in Int
  PROVE  SumFunctionOnSet(f, S) = f[x] + SumFunctionOnSet(f, S \ {x})
<1>1. IsFiniteSet(S \ {x}) BY FS_RemoveElement
<1>2. S = (S \ {x}) \cup {x} OBVIOUS
<1> DEFINE T == S \ {x}
<1>3. x \notin T /\ \A y \in T \cup {x} : f[y] \in Int OBVIOUS
<1> HIDE DEF T
<1>4. SumFunctionOnSet(f, T \cup {x}) = f[x] + SumFunctionOnSet(f, T) BY <1>1, <1>3, SumAdd DEF T
<1> QED BY <1>2, <1>4 DEF T

\* A sum of differences is the difference of the sums.
LEMMA SumMinus ==
  ASSUME NEW S, IsFiniteSet(S), NEW f, NEW g, NEW h,
         \A x \in S : f[x] \in Int /\ g[x] \in Int /\ h[x] = f[x] - g[x]
  PROVE  SumFunctionOnSet(h, S) = SumFunctionOnSet(f, S) - SumFunctionOnSet(g, S)
<1> DEFINE W == {s \in SUBSET S : SumFunctionOnSet(h, s) = SumFunctionOnSet(f, s) - SumFunctionOnSet(g, s)}
<1>1. \A x \in S : f[x] \in Int OBVIOUS
<1>2. \A x \in S : g[x] \in Int OBVIOUS
<1>3. \A x \in S : h[x] \in Int OBVIOUS
<1>4. {} \in W
  <2>1. SumFunctionOnSet(h, {}) = 0 /\ SumFunctionOnSet(f, {}) = 0 /\ SumFunctionOnSet(g, {}) = 0
    BY <1>1, <1>2, <1>3, SumBySubsets
  <2> QED BY <2>1
<1>5. ASSUME NEW s \in W, NEW x \in S \ s PROVE s \cup {x} \in W
  <2>1. s \in SUBSET S /\ s \cup {x} \in SUBSET S OBVIOUS
  <2>2. SumFunctionOnSet(h, s \cup {x}) = h[x] + SumFunctionOnSet(h, s) BY <1>3, <2>1, SumBySubsets
  <2>3. SumFunctionOnSet(f, s \cup {x}) = f[x] + SumFunctionOnSet(f, s) BY <1>1, <2>1, SumBySubsets
  <2>4. SumFunctionOnSet(g, s \cup {x}) = g[x] + SumFunctionOnSet(g, s) BY <1>2, <2>1, SumBySubsets
  <2>5. SumFunctionOnSet(f, s) \in Int /\ SumFunctionOnSet(g, s) \in Int BY <1>1, <1>2, <2>1, SumBySubsets
  <2>6. SumFunctionOnSet(h, s) = SumFunctionOnSet(f, s) - SumFunctionOnSet(g, s) OBVIOUS
  <2> HIDE DEF W
  <2>7. SumFunctionOnSet(h, s \cup {x}) = SumFunctionOnSet(f, s \cup {x}) - SumFunctionOnSet(g, s \cup {x})
    BY <2>2, <2>3, <2>4, <2>5, <2>6
  <2> QED BY <2>1, <2>7 DEF W
<1>6. W \in SUBSET SUBSET S OBVIOUS
<1> HIDE DEF W
<1>7. S \in W BY <1>4, <1>5, <1>6, SetInduction
<1> QED BY <1>7 DEF W

\* A sum of zeroes.
LEMMA SumZero ==
  ASSUME NEW S, IsFiniteSet(S), NEW f, \A x \in S : f[x] = 0
  PROVE  SumFunctionOnSet(f, S) = 0
<1>1. SumFunctionOnSet(f, S) = SumFunctionOnSet(f, S) - SumFunctionOnSet(f, S) BY SumMinus
<1>2. SumFunctionOnSet(f, S) \in Int BY SumType
<1> QED BY <1>1, <1>2

\* Only the terms in the set count.
LEMMA SumSame ==
  ASSUME NEW S, IsFiniteSet(S), NEW f, NEW h, \A x \in S : f[x] \in Int /\ h[x] = f[x]
  PROVE  SumFunctionOnSet(h, S) = SumFunctionOnSet(f, S)
<1> DEFINE z == [x \in S |-> 0]
<1>1. \A x \in S : z[x] = 0 OBVIOUS
<1> HIDE DEF z
<1>2. SumFunctionOnSet(z, S) = 0 BY <1>1, SumZero
<1>3. SumFunctionOnSet(h, S) = SumFunctionOnSet(f, S) - SumFunctionOnSet(z, S) BY <1>1, SumMinus
<1>4. SumFunctionOnSet(f, S) \in Int BY SumType
<1> QED BY <1>2, <1>3, <1>4

LEMMA SumPlus ==
  ASSUME NEW S, IsFiniteSet(S), NEW f, NEW g, NEW h,
         \A x \in S : f[x] \in Int /\ g[x] \in Int /\ h[x] = f[x] + g[x]
  PROVE  SumFunctionOnSet(h, S) = SumFunctionOnSet(f, S) + SumFunctionOnSet(g, S)
<1>1. \A x \in S : h[x] \in Int /\ g[x] \in Int /\ f[x] = h[x] - g[x] OBVIOUS
<1>2. SumFunctionOnSet(f, S) = SumFunctionOnSet(h, S) - SumFunctionOnSet(g, S) BY <1>1, SumMinus
<1>3. SumFunctionOnSet(h, S) \in Int /\ SumFunctionOnSet(g, S) \in Int BY <1>1, SumType
<1> QED BY <1>2, <1>3

\* A sum of quantities is a quantity.
LEMMA SumNat ==
  ASSUME NEW S, IsFiniteSet(S), NEW f, \A x \in S : f[x] \in Nat
  PROVE  SumFunctionOnSet(f, S) \in Nat
<1> DEFINE W == {s \in SUBSET S : SumFunctionOnSet(f, s) \in Nat}
<1>1. \A x \in S : f[x] \in Int OBVIOUS
<1>2. {} \in W BY <1>1, SumBySubsets
<1>3. ASSUME NEW s \in W, NEW x \in S \ s PROVE s \cup {x} \in W
  <2>1. s \in SUBSET S /\ s \cup {x} \in SUBSET S OBVIOUS
  <2>2. SumFunctionOnSet(f, s \cup {x}) = f[x] + SumFunctionOnSet(f, s) BY <1>1, <2>1, SumBySubsets
  <2> QED BY <2>1, <2>2
<1>4. W \in SUBSET SUBSET S OBVIOUS
<1> HIDE DEF W
<1>5. S \in W BY <1>2, <1>3, <1>4, SetInduction
<1> QED BY <1>5 DEF W

LEMMA SumAtMost ==
  ASSUME NEW S, IsFiniteSet(S), NEW f, NEW g,
         \A x \in S : f[x] \in Int /\ g[x] \in Int /\ f[x] <= g[x]
  PROVE  SumFunctionOnSet(f, S) <= SumFunctionOnSet(g, S)
<1> DEFINE d == [x \in S |-> g[x] - f[x]]
<1>1. \A x \in S : d[x] \in Nat /\ d[x] = g[x] - f[x] OBVIOUS
<1> HIDE DEF d
<1>2. SumFunctionOnSet(d, S) = SumFunctionOnSet(g, S) - SumFunctionOnSet(f, S) BY <1>1, SumMinus
<1>3. SumFunctionOnSet(d, S) \in Nat BY <1>1, SumNat
<1>4. SumFunctionOnSet(f, S) \in Int /\ SumFunctionOnSet(g, S) \in Int BY SumType
<1> QED BY <1>2, <1>3, <1>4

\* One term changes.
LEMMA SumChange ==
  ASSUME NEW S, IsFiniteSet(S), NEW a \in S, NEW f, NEW h, h[a] \in Int,
         \A x \in S : f[x] \in Int, \A x \in S \ {a} : h[x] = f[x]
  PROVE  SumFunctionOnSet(h, S) = SumFunctionOnSet(f, S) - f[a] + h[a]
<1>1. SumFunctionOnSet(f, S) = f[a] + SumFunctionOnSet(f, S \ {a}) BY SumRemove
<1>2. \A x \in S : h[x] \in Int OBVIOUS
<1>3. SumFunctionOnSet(h, S) = h[a] + SumFunctionOnSet(h, S \ {a}) BY <1>2, SumRemove
<1>4. IsFiniteSet(S \ {a}) BY FS_RemoveElement
<1> DEFINE T == S \ {a}
<1>5. \A x \in T : f[x] \in Int /\ h[x] = f[x] OBVIOUS
<1> HIDE DEF T
<1>6. SumFunctionOnSet(h, T) = SumFunctionOnSet(f, T) BY <1>4, <1>5, SumSame DEF T
<1>7. SumFunctionOnSet(f, T) \in Int BY <1>4, <1>5, SumType DEF T
<1> QED BY <1>1, <1>3, <1>6, <1>7 DEF T

\* Two sets that have nothing in common are summed one after the other.
LEMMA SumUnion ==
  ASSUME NEW S, IsFiniteSet(S), NEW T, IsFiniteSet(T), S \cap T = {},
         NEW f, \A x \in S \cup T : f[x] \in Int
  PROVE  SumFunctionOnSet(f, S \cup T) = SumFunctionOnSet(f, S) + SumFunctionOnSet(f, T)
<1> DEFINE W == {t \in SUBSET T :
                   SumFunctionOnSet(f, S \cup t) = SumFunctionOnSet(f, S) + SumFunctionOnSet(f, t)}
<1>1. IsFiniteSet(S \cup T) BY FS_Union
<1>2. /\ S \in SUBSET (S \cup T) /\ T \in SUBSET (S \cup T)
      /\ \A t \in SUBSET T : t \in SUBSET (S \cup T) /\ S \cup t \in SUBSET (S \cup T)
  OBVIOUS
<1>3. {} \in W
  <2>1. S \cup {} = S /\ SumFunctionOnSet(f, {}) = 0 BY <1>1, SumBySubsets
  <2>2. SumFunctionOnSet(f, S) \in Int BY SumType
  <2>3. SumFunctionOnSet(f, S \cup {}) = SumFunctionOnSet(f, S) + SumFunctionOnSet(f, {})
    BY <2>1, <2>2
  <2> QED BY <2>3
<1>4. ASSUME NEW t \in W, NEW x \in T \ t PROVE t \cup {x} \in W
  <2>1. PICK U : U = S \cup T OBVIOUS
  <2>2. PICK u : u = S \cup t OBVIOUS
  <2>3. /\ t \in SUBSET U /\ u \in SUBSET U /\ S \in SUBSET U /\ t \cup {x} \in SUBSET T
        /\ x \in U \ t /\ x \in U \ u /\ S \cup (t \cup {x}) = u \cup {x}
    BY <2>1, <2>2
  <2>4. IsFiniteSet(U) /\ \A y \in U : f[y] \in Int BY <1>1, <2>1
  <2>5. SumFunctionOnSet(f, t \cup {x}) = f[x] + SumFunctionOnSet(f, t)
    BY <2>3, <2>4, SumBySubsets
  <2>6. SumFunctionOnSet(f, u \cup {x}) = f[x] + SumFunctionOnSet(f, u)
    BY <2>3, <2>4, SumBySubsets
  <2>7. SumFunctionOnSet(f, t) \in Int /\ SumFunctionOnSet(f, S) \in Int /\ f[x] \in Int
    BY <2>3, <2>4, SumBySubsets
  <2>8. SumFunctionOnSet(f, u) = SumFunctionOnSet(f, S) + SumFunctionOnSet(f, t) BY <2>2
  <2>9. SumFunctionOnSet(f, u \cup {x}) = SumFunctionOnSet(f, S) + SumFunctionOnSet(f, t \cup {x})
    BY <2>5, <2>6, <2>7, <2>8
  <2> QED BY <2>3, <2>9
<1>5. W \in SUBSET SUBSET T OBVIOUS
<1> HIDE DEF W
<1>6. T \in W BY <1>3, <1>4, <1>5, SetInduction
<1> QED BY <1>6 DEF W

\* The sum over a part is a sum over the whole that counts the rest as nothing.
LEMMA SumPart ==
  ASSUME NEW S, IsFiniteSet(S), NEW T \in SUBSET S, NEW f, NEW h,
         \A x \in T : f[x] \in Int /\ h[x] = f[x], \A x \in S \ T : h[x] = 0
  PROVE  SumFunctionOnSet(h, S) = SumFunctionOnSet(f, T)
<1>1. IsFiniteSet(T) /\ IsFiniteSet(S \ T) BY FS_Subset
<1>2. T \cup (S \ T) = S /\ T \cap (S \ T) = {} OBVIOUS
<1>3. \A x \in S : h[x] \in Int OBVIOUS
<1>4. SumFunctionOnSet(h, T) = SumFunctionOnSet(f, T) BY <1>1, SumSame, Zenon
<1> DEFINE R == S \ T
<1>5. \A x \in R : h[x] = 0 OBVIOUS
<1> HIDE DEF R
<1>6. SumFunctionOnSet(h, R) = 0 BY <1>1, <1>5, SumZero DEF R
<1>7. SumFunctionOnSet(h, T \cup R) = SumFunctionOnSet(h, T) + SumFunctionOnSet(h, R)
  BY <1>1, <1>2, <1>3, SumUnion DEF R
<1>8. SumFunctionOnSet(f, T) \in Int BY <1>1, SumType
<1>9. T \cup R = S BY <1>2 DEF R
<1>10. SumFunctionOnSet(h, S) = SumFunctionOnSet(h, T) + SumFunctionOnSet(h, R) BY <1>7, <1>9, Zenon
<1> QED BY <1>4, <1>6, <1>8, <1>10

\* Quantities add up to nothing only if each of them is nothing.
LEMMA SumPositive ==
  ASSUME NEW S, IsFiniteSet(S), NEW f, \A x \in S : f[x] \in Nat
  PROVE  SumFunctionOnSet(f, S) = 0 <=> \A x \in S : f[x] = 0
<1>1. ASSUME SumFunctionOnSet(f, S) = 0, NEW x \in S PROVE f[x] = 0
  <2>1. \A y \in S : f[y] \in Int OBVIOUS
  <2>2. SumFunctionOnSet(f, S) = f[x] + SumFunctionOnSet(f, S \ {x}) BY <2>1, SumRemove
  <2>3. IsFiniteSet(S \ {x}) BY FS_RemoveElement
  <2> DEFINE T == S \ {x}
  <2>4. \A y \in T : f[y] \in Nat OBVIOUS
  <2> HIDE DEF T
  <2>5. SumFunctionOnSet(f, T) \in Nat BY <2>3, <2>4, SumNat DEF T
  <2>6. f[x] \in Nat OBVIOUS
  <2> QED BY <1>1, <2>2, <2>5, <2>6 DEF T
<1> QED BY <1>1, SumZero

\* Sums of groups add up to the sum of everything: k says which group of B an
\* element is in, and g what the sum of a group is.
GroupOf(S, k, b) == {x \in S : k[x] = b}

LEMMA SumGroups ==
  ASSUME NEW S, IsFiniteSet(S), NEW B, IsFiniteSet(B), NEW k, \A x \in S : k[x] \in B,
         NEW f, \A x \in S : f[x] \in Int,
         NEW g, \A b \in B : g[b] = SumFunctionOnSet(f, GroupOf(S, k, b))
  PROVE  SumFunctionOnSet(g, B) = SumFunctionOnSet(f, S)
<1> DEFINE Group(s, b) == GroupOf(s, k, b)
           Sums(s) == [b \in B |-> SumFunctionOnSet(f, Group(s, b))]
           W == {s \in SUBSET S : SumFunctionOnSet(Sums(s), B) = SumFunctionOnSet(f, s)}
<1>1. \A s \in SUBSET S, b \in B : Group(s, b) \in SUBSET S BY DEF GroupOf
<1>2. \A T \in SUBSET S : SumFunctionOnSet(f, T) \in Int BY SumBySubsets
<1>3. {} \in W
  <2>1. \A b \in B : Group({}, b) = {} BY DEF GroupOf
  <2>2. SumFunctionOnSet(f, {}) = 0 BY SumBySubsets
  <2>3. \A b \in B : Sums({})[b] = 0 BY <2>1, <2>2
  <2>4. PICK z : z = Sums({}) OBVIOUS
  <2>5. SumFunctionOnSet(z, B) = 0
    <3> HIDE DEF Sums
    <3> QED BY <2>3, <2>4, SumZero
  <2> QED BY <2>2, <2>4, <2>5
<1>4. ASSUME NEW s \in W, NEW x \in S \ s PROVE s \cup {x} \in W
  <2>1. s \in SUBSET S /\ s \cup {x} \in SUBSET S OBVIOUS
  <2>2. SumFunctionOnSet(Sums(s), B) = SumFunctionOnSet(f, s) OBVIOUS
  <2> HIDE DEF W
  <2>3. PICK a \in B : a = k[x] OBVIOUS
  <2>4. PICK p : p = Sums(s) OBVIOUS
  <2>5. PICK q : q = Sums(s \cup {x}) OBVIOUS
  <2>6. \A b \in B : p[b] \in Int /\ q[b] \in Int
    BY <1>1, <1>2, <2>1, <2>4, <2>5
  <2>7. \A b \in B \ {a} : q[b] = p[b]
    <3> SUFFICES ASSUME NEW b \in B \ {a} PROVE q[b] = p[b] OBVIOUS
    <3>1. Group(s \cup {x}, b) = Group(s, b) BY <2>3 DEF GroupOf
    <3> QED BY <2>4, <2>5, <3>1
  <2>8. q[a] = f[x] + p[a]
    <3>1. Group(s \cup {x}, a) = Group(s, a) \cup {x} /\ x \in S \ Group(s, a) BY <2>3 DEF GroupOf
    <3>2. Group(s, a) \in SUBSET S BY <1>1, <2>1
    <3> HIDE DEF Group
    <3>3. SumFunctionOnSet(f, Group(s, a) \cup {x}) = f[x] + SumFunctionOnSet(f, Group(s, a))
      BY <3>1, <3>2, SumBySubsets
    <3> QED BY <2>4, <2>5, <3>1, <3>3
  <2>9. SumFunctionOnSet(q, B) = SumFunctionOnSet(p, B) - p[a] + q[a]
    BY <2>6, <2>7, SumChange
  <2>10. SumFunctionOnSet(f, s \cup {x}) = f[x] + SumFunctionOnSet(f, s)
    BY <2>1, SumBySubsets
  <2>11. SumFunctionOnSet(p, B) \in Int /\ f[x] \in Int /\ p[a] \in Int
    BY <2>6, SumType
  <2> HIDE DEF Sums
  <2>12. SumFunctionOnSet(q, B) = SumFunctionOnSet(f, s \cup {x})
    BY <2>2, <2>4, <2>8, <2>9, <2>10, <2>11
  <2> QED BY <2>1, <2>5, <2>12 DEF W
<1>5. W \in SUBSET SUBSET S OBVIOUS
<1>6. S \in W
  <2> HIDE DEF W
  <2> QED BY <1>3, <1>4, <1>5, SetInduction
<1>7. \A b \in B : Sums(S)[b] \in Int /\ g[b] = Sums(S)[b]
  BY <1>1, <1>2
<1>8. PICK p : p = Sums(S) OBVIOUS
<1>9. SumFunctionOnSet(g, B) = SumFunctionOnSet(p, B)
  <2> HIDE DEF Sums
  <2> QED BY <1>7, <1>8, SumSame
<1> QED BY <1>6, <1>8, <1>9

-----------------------------------------------------------------------------
(***************************************************************************)
(* Folds over sequences.                                                   *)
(***************************************************************************)
LEMMA MaxOfFinite ==
  ASSUME NEW S \in SUBSET Int, IsFiniteSet(S), S # {}
  PROVE  Max(S) \in S /\ \A y \in S : Max(S) >= y
<1> DEFINE W == {s \in SUBSET S : s # {} => \E x \in s : \A y \in s : x >= y}
<1>1. {} \in W OBVIOUS
<1>2. ASSUME NEW s \in W, NEW z \in S \ s PROVE s \cup {z} \in W
  <2>1. CASE s = {}
    <3>1. \A y \in s \cup {z} : z >= y BY <2>1
    <3> QED BY <3>1
  <2>2. CASE s # {}
    <3>1. PICK x \in s : \A y \in s : x >= y BY <2>2
    <3>2. x \in Int /\ z \in Int /\ \A y \in s : y \in Int OBVIOUS
    <3>3. CASE z >= x
      <4>1. \A y \in s \cup {z} : z >= y BY <3>1, <3>2, <3>3
      <4> QED BY <4>1
    <3>4. CASE ~ (z >= x)
      <4>1. \A y \in s \cup {z} : x >= y BY <3>1, <3>2, <3>4
      <4> QED BY <4>1
    <3> QED BY <3>3, <3>4
  <2> QED BY <2>1, <2>2
<1>3. W \in SUBSET SUBSET S OBVIOUS
<1> HIDE DEF W
<1>4. S \in W BY <1>1, <1>2, <1>3, SetInduction
<1>5. \E x \in S : \A y \in S : x >= y BY <1>4 DEF W
<1> QED BY <1>5 DEF Max

\* k takes the step for a position, and stays within V.
StepsWithin(k, n, V) == \A v \in V, i \in 1 .. n : k[<<v, i>>] \in V

\* it[s] is what the fold makes of the positions s.
Folds(it, n, k, base) ==
  it = [s \in SUBSET (1 .. n) |->
          IF s = {} THEN base ELSE k[<<it[s \ {Max(s)}], Max(s)>>]]

\* A fold exists.
LEMMA FoldExists ==
  ASSUME NEW n \in Nat, NEW V, NEW base \in V, NEW k, StepsWithin(k, n, V)
  PROVE  \E it \in [SUBSET (1 .. n) -> V] : Folds(it, n, k, base)
<1> DEFINE D == 1 .. n
           c == [s \in SUBSET D |-> Max(s)]
<1>1. IsFiniteSet(D) BY FS_Interval
<1>2. Chooses(c, D)
  <2> SUFFICES ASSUME NEW s \in SUBSET D, s # {} PROVE Max(s) \in s
    BY DEF Chooses
  <2>1. IsFiniteSet(s) BY <1>1, FS_Subset
  <2>2. s \in SUBSET Int OBVIOUS
  <2> QED BY <2>1, <2>2, MaxOfFinite
<1> HIDE DEF c
<1>3. PICK it \in [SUBSET D -> V] : Iterates(it, D, c, k, base)
  <2> HIDE DEF D
  <2>1. \A v \in V, i \in D : k[<<v, i>>] \in V BY DEF D, StepsWithin
  <2> QED BY <1>1, <1>2, <2>1, IterationExists
<1>4. \A s \in SUBSET D : c[s] = Max(s) BY DEF c
<1>5. it = [s \in SUBSET D |->
              IF s = {} THEN base ELSE k[<<it[s \ {Max(s)}], Max(s)>>]]
  BY <1>3, <1>4 DEF Iterates
<1> QED BY <1>5 DEF Folds

\* The same of a function whose steps are k's only for values in V.
FoldsWithin(it, n, k, base, V) ==
  /\ it[{}] = base
  /\ \A s \in SUBSET (1 .. n) : s # {} /\ it[s \ {Max(s)}] \in V =>
       it[s] = k[<<it[s \ {Max(s)}], Max(s)>>]

\* A fold goes through a sequence from its first element to its last.
LEMMA FoldGoesOn ==
  ASSUME NEW n \in Nat, NEW V, NEW base \in V, NEW k, StepsWithin(k, n, V),
         NEW it, FoldsWithin(it, n, k, base, V)
  PROVE  /\ \A i \in 0 .. n : it[1 .. i] \in V
         /\ it[1 .. 0] = base
         /\ \A i \in 1 .. n : it[1 .. i] = k[<<it[1 .. (i - 1)], i>>]
<1> USE DEF StepsWithin, FoldsWithin
<1>1. ASSUME NEW i \in 1 .. n
      PROVE  /\ 1 .. i \in SUBSET (1 .. n) /\ 1 .. i # {}
             /\ Max(1 .. i) = i /\ (1 .. i) \ {i} = 1 .. (i - 1)
  <2>1. IsFiniteSet(1 .. i) BY FS_Interval
  <2>2. i \in 1 .. i /\ 1 .. i \in SUBSET Int /\ \A y \in 1 .. i : i >= y OBVIOUS
  <2>3. Max(1 .. i) \in 1 .. i /\ \A y \in 1 .. i : Max(1 .. i) >= y
    BY <2>1, <2>2, MaxOfFinite
  <2>4. Max(1 .. i) = i BY <2>2, <2>3
  <2> QED BY <2>2, <2>4
<1> DEFINE N == {i \in Nat : i <= n => it[1 .. i] \in V}
<1>2. 1 .. 0 = {} OBVIOUS
<1>3. 0 \in N BY <1>2
<1>4. ASSUME NEW i \in N PROVE i + 1 \in N
  <2> SUFFICES ASSUME i + 1 <= n PROVE it[1 .. (i + 1)] \in V
    OBVIOUS
  <2>1. i \in Nat /\ i + 1 \in 1 .. n /\ i <= n /\ (i + 1) - 1 = i OBVIOUS
  <2>2. it[1 .. i] \in V BY <2>1
  <2>3. it[1 .. (i + 1)] = k[<<it[1 .. i], i + 1>>]
    BY <1>1, <2>1, <2>2
  <2> QED BY <2>1, <2>2, <2>3
<1>5. N = Nat
  <2>1. N \in SUBSET Nat OBVIOUS
  <2> HIDE DEF N
  <2> QED BY <1>3, <1>4, <2>1, NatSetInduction
<1>6. \A i \in 0 .. n : it[1 .. i] \in V BY <1>5
<1>7. ASSUME NEW i \in 1 .. n PROVE it[1 .. i] = k[<<it[1 .. (i - 1)], i>>]
  <2>1. i - 1 \in 0 .. n OBVIOUS
  <2>2. it[1 .. (i - 1)] \in V BY <1>6, <2>1
  <2> QED BY <1>1, <2>2
<1> QED BY <1>2, <1>6, <1>7

\* Two runs through the same elements come to the same end.
LEMMA RunsAgree ==
  ASSUME NEW n \in Nat, NEW f, NEW g, f[0] = g[0],
         \A i \in 1 .. n : f[i - 1] = g[i - 1] => f[i] = g[i]
  PROVE  f[n] = g[n]
<1> DEFINE N == {i \in Nat : i <= n => f[i] = g[i]}
<1>1. 0 \in N OBVIOUS
<1>2. ASSUME NEW i \in N PROVE i + 1 \in N
  <2> SUFFICES ASSUME i + 1 <= n PROVE f[i + 1] = g[i + 1]
    OBVIOUS
  <2>1. i \in Nat /\ i + 1 \in 1 .. n /\ i <= n /\ (i + 1) - 1 = i OBVIOUS
  <2>2. f[i] = g[i] BY <2>1
  <2> HIDE DEF N
  <2> QED BY <2>1, <2>2
<1>3. N = Nat
  <2>1. N \in SUBSET Nat OBVIOUS
  <2> HIDE DEF N
  <2> QED BY <1>1, <1>2, <2>1, NatSetInduction
<1> QED BY <1>3

-----------------------------------------------------------------------------
(***************************************************************************)
(* FlattenSeq: putting sequences one after the other, as a run.            *)
(***************************************************************************)
LEMMA FlattenRuns ==
  ASSUME NEW S, NEW ss \in Seq(Seq(S))
  PROVE  \E run : /\ run[0] = <<>>
                  /\ \A i \in 1 .. Len(ss) : run[i] = run[i - 1] \o ss[i]
                  /\ \A i \in 0 .. Len(ss) : run[i] \in Seq(S)
                  /\ FlattenSeq(ss) = run[Len(ss)]
<1> DEFINE n == Len(ss)
           V == Seq(S)
           k == [a \in V \X (1 .. n) |-> a[1] \o ss[a[2]]]
           Flat(f) == f = [i \in 1 .. Len(ss) |->
                             IF i = 1 THEN ss[i] ELSE f[i - 1] \o ss[i]]
           flat == CHOOSE f : Flat(f)
<1>1. n \in Nat /\ <<>> \in V /\ \A i \in 1 .. n : ss[i] \in V OBVIOUS
<1>2. \A v \in V, i \in 1 .. n : k[<<v, i>>] = v \o ss[i] OBVIOUS
<1>3. StepsWithin(k, n, V)
  <2> SUFFICES ASSUME NEW v \in V, NEW i \in 1 .. n PROVE k[<<v, i>>] \in V
    BY DEF StepsWithin
  <2>1. v \o ss[i] \in V BY <1>1, ConcatProperties
  <2> QED BY <1>2, <2>1
<1> HIDE DEF k, V
<1>4. PICK it : Folds(it, n, k, <<>>)
  <2> HIDE DEF n
  <2> QED BY <1>1, <1>3, FoldExists
<1>5. FoldsWithin(it, n, k, <<>>, V)
  <2> HIDE DEF n
  <2> QED BY <1>4 DEF Folds, FoldsWithin
<1>6. /\ \A i \in 0 .. n : it[1 .. i] \in V
      /\ it[1 .. 0] = <<>>
      /\ \A i \in 1 .. n : it[1 .. i] = k[<<it[1 .. (i - 1)], i>>]
  <2> HIDE DEF n, Flat, flat
  <2> QED BY <1>1, <1>3, <1>5, FoldGoesOn
<1> DEFINE run == [i \in 0 .. n |-> it[1 .. i]]
<1>7. \A i \in 0 .. n : run[i] = it[1 .. i] OBVIOUS
<1>8. 0 \in 0 .. n /\ n \in 0 .. n /\ \A i \in 1 .. n : i \in 0 .. n /\ i - 1 \in 0 .. n
  BY <1>1
<1> HIDE DEF run
<1>9. run[0] = <<>> /\ \A i \in 0 .. n : run[i] \in V
  BY <1>6, <1>7, <1>8
<1>10. \A i \in 1 .. n : run[i] = run[i - 1] \o ss[i]
  BY <1>2, <1>6, <1>7, <1>8
<1>11. FlattenSeq(ss) = run[n]
  <2>1. CASE n = 0
    <3>1. ss = <<>> BY <2>1
    <3>2. FlattenSeq(ss) = ss BY <2>1 DEF FlattenSeq
    <3> QED BY <1>9, <2>1, <3>1, <3>2
  <2>2. CASE n # 0
    <3>1. n \in 1 .. n /\ 1 \in 1 .. n BY <1>1, <2>2
    <3>2. FlattenSeq(ss) = flat[n] BY <2>2 DEF FlattenSeq
    <3> DEFINE f0 == [i \in 1 .. Len(ss) |-> run[i]]
    <3>3. run[1] = ss[1]
      <4>0. 1 - 1 = 0 OBVIOUS
      <4>1. run[1] = run[1 - 1] \o ss[1] BY <1>10, <3>1
      <4>2. <<>> \o ss[1] = ss[1]
        <5>1. ss[1] \in Seq(S) BY <1>1, <3>1 DEF V
        <5> QED BY <5>1, ConcatEmptySeq
      <4> QED BY <1>9, <4>0, <4>1, <4>2
    <3>4. \A i \in 1 .. Len(ss) : run[i] = IF i = 1 THEN ss[i] ELSE f0[i - 1] \o ss[i]
      <4> SUFFICES ASSUME NEW i \in 1 .. n, i # 1 PROVE run[i] = f0[i - 1] \o ss[i]
        BY <3>3
      <4>1. i - 1 \in 1 .. n OBVIOUS
      <4> QED BY <1>10, <4>1
    <3>5. Flat(f0) BY <3>4
    <3> HIDE DEF f0, Flat
    <3>6. Flat(flat) BY <3>5
    <3> HIDE DEF flat
    <3>7. flat[1] = ss[1] /\ \A i \in 1 .. n : i # 1 => flat[i] = flat[i - 1] \o ss[i]
      BY <3>1, <3>6 DEF Flat
    <3> DEFINE N == {i \in Nat : i + 1 \in 1 .. n => flat[i + 1] = run[i + 1]}
    <3>8. 0 \in N BY <3>3, <3>7
    <3>9. ASSUME NEW i \in N PROVE i + 1 \in N
      <4> SUFFICES ASSUME (i + 1) + 1 \in 1 .. n
                   PROVE  flat[(i + 1) + 1] = run[(i + 1) + 1]
        OBVIOUS
      <4>1. i \in Nat /\ i + 1 \in 1 .. n /\ (i + 1) + 1 # 1 /\ ((i + 1) + 1) - 1 = i + 1
        OBVIOUS
      <4>2. flat[i + 1] = run[i + 1] BY <4>1
      <4> HIDE DEF N
      <4> QED BY <1>10, <3>7, <4>1, <4>2
    <3>10. N = Nat
      <4>1. N \in SUBSET Nat OBVIOUS
      <4> HIDE DEF N
      <4> QED BY <3>8, <3>9, <4>1, NatSetInduction
    <3>11. \A i \in Nat : i + 1 \in 1 .. n => flat[i + 1] = run[i + 1] BY <3>10
    <3>12. n - 1 \in Nat /\ (n - 1) + 1 = n BY <1>1, <2>2
    <3>13. flat[n] = run[n] BY <3>1, <3>11, <3>12
    <3> QED BY <3>2, <3>13
  <2> QED BY <2>1, <2>2
<1> QED BY <1>9, <1>10, <1>11 DEF V

LEMMA FlattenAppend ==
  ASSUME NEW S, NEW ss \in Seq(Seq(S)), NEW t \in Seq(S)
  PROVE  FlattenSeq(ss) \in Seq(S) /\ FlattenSeq(Append(ss, t)) = FlattenSeq(ss) \o t
<1> DEFINE s2 == Append(ss, t)
           n == Len(ss)
<1>1. n \in Nat /\ s2 \in Seq(Seq(S)) /\ Len(s2) = n + 1 /\ s2[n + 1] = t
        /\ \A i \in 1 .. n : s2[i] = ss[i]
  OBVIOUS
<1>2. PICK f : /\ f[0] = <<>>
               /\ \A i \in 1 .. n : f[i] = f[i - 1] \o ss[i]
               /\ \A i \in 0 .. n : f[i] \in Seq(S)
               /\ FlattenSeq(ss) = f[n]
  BY FlattenRuns
<1> HIDE DEF s2, n
<1>3. PICK g : /\ g[0] = <<>>
               /\ \A i \in 1 .. Len(s2) : g[i] = g[i - 1] \o s2[i]
               /\ FlattenSeq(s2) = g[Len(s2)]
  BY <1>1, FlattenRuns
<1>4. \A i \in 1 .. n : i \in 1 .. (n + 1) BY <1>1
<1>5. \A i \in 1 .. n : f[i - 1] = g[i - 1] => f[i] = g[i]
  BY <1>1, <1>2, <1>3, <1>4
<1>6. f[n] = g[n]
  <2>1. n \in Nat /\ f[0] = g[0] BY <1>1, <1>2, <1>3
  <2> QED BY <2>1, <1>5, RunsAgree
<1>7. n + 1 \in 1 .. (n + 1) /\ (n + 1) - 1 = n /\ n \in 0 .. n BY <1>1
<1>8. g[n + 1] = g[n] \o t BY <1>1, <1>3, <1>7
<1>9. FlattenSeq(s2) = FlattenSeq(ss) \o t BY <1>1, <1>2, <1>3, <1>6, <1>8
<1> QED BY <1>2, <1>7, <1>9 DEF s2

LEMMA FlattenEmpty == FlattenSeq(<<>>) = <<>>
  BY DEF FlattenSeq

\* Empty sequences in front add nothing.
LEMMA FlattenAfterEmpty ==
  ASSUME NEW S, NEW m \in Nat, NEW front \in Seq(Seq(S)), Len(front) = m,
         \A i \in 1 .. m : front[i] = <<>>,
         NEW ss \in Seq(Seq(S))
  PROVE  FlattenSeq(front \o ss) = FlattenSeq(ss)
<1> DEFINE s2 == front \o ss
           n == Len(ss)
<1>1. /\ n \in Nat /\ s2 \in Seq(Seq(S)) /\ Len(s2) = m + n
      /\ \A i \in 1 .. m : s2[i] = <<>>
      /\ \A i \in 1 .. n : s2[m + i] = ss[i]
  <2>1. /\ s2 \in Seq(Seq(S)) /\ Len(s2) = m + n
        /\ \A i \in 1 .. m + n : s2[i] = IF i <= m THEN front[i] ELSE ss[i - m]
    BY ConcatProperties
  <2>2. n \in Nat OBVIOUS
  <2>3. \A i \in 1 .. n : m + i \in 1 .. m + n /\ ~ (m + i <= m) /\ (m + i) - m = i
    BY <2>2
  <2>4. \A i \in 1 .. m : i \in 1 .. m + n /\ i <= m
    BY <2>2
  <2> HIDE DEF s2, n
  <2> QED BY <2>1, <2>2, <2>3, <2>4
<1>2. PICK f : /\ f[0] = <<>>
               /\ \A i \in 1 .. n : f[i] = f[i - 1] \o ss[i]
               /\ FlattenSeq(ss) = f[n]
  BY FlattenRuns
<1> HIDE DEF s2, n
<1>3. PICK g : /\ g[0] = <<>>
               /\ \A i \in 1 .. Len(s2) : g[i] = g[i - 1] \o s2[i]
               /\ \A i \in 0 .. Len(s2) : g[i] \in Seq(S)
               /\ FlattenSeq(s2) = g[Len(s2)]
  BY <1>1, FlattenRuns
<1> DEFINE e == [i \in 0 .. m |-> <<>>]
           h == [i \in 0 .. n |-> g[m + i]]
<1>4. g[m] = e[m]
  <2>1. \A i \in 1 .. m : g[i - 1] = e[i - 1] => g[i] = e[i]
    <3> SUFFICES ASSUME NEW i \in 1 .. m, g[i - 1] = <<>> PROVE g[i] = <<>>
      OBVIOUS
    <3>1. i \in 1 .. Len(s2) BY <1>1
    <3>2. g[i] = g[i - 1] \o <<>> BY <1>1, <1>3, <3>1
    <3>3. <<>> \o <<>> = <<>> OBVIOUS
    <3> QED BY <3>2, <3>3
  <2>2. g[0] = e[0] BY <1>3
  <2> HIDE DEF e
  <2> QED BY <2>1, <2>2, RunsAgree
<1>5. h[0] = f[0] BY <1>1, <1>2, <1>4
<1>6. \A i \in 1 .. n : h[i - 1] = f[i - 1] => h[i] = f[i]
  <2> SUFFICES ASSUME NEW i \in 1 .. n, h[i - 1] = f[i - 1] PROVE h[i] = f[i]
    OBVIOUS
  <2>1. i \in 0 .. n /\ i - 1 \in 0 .. n /\ m + i \in 1 .. Len(s2)
          /\ (m + i) - 1 = m + (i - 1)
    BY <1>1
  <2>2. g[m + i] = g[m + (i - 1)] \o ss[i] BY <1>1, <1>3, <2>1
  <2> QED BY <1>2, <2>1, <2>2
<1>7. h[n] = f[n]
  <2> HIDE DEF h
  <2> QED BY <1>1, <1>5, <1>6, RunsAgree
<1>8. h[n] = g[m + n] BY <1>1
<1>9. FlattenSeq(s2) = FlattenSeq(ss) BY <1>1, <1>2, <1>3, <1>7, <1>8
<1> QED BY <1>9 DEF s2

\* Who follows a finite function long enough walks in a circle: some set of
\* points is its own image.
LEMMA CycleExists ==
  ASSUME NEW S, IsFiniteSet(S), S # {}, NEW f \in [S -> S]
  PROVE  \E C \in SUBSET S : C # {} /\ \A c \in C : f[c] \in C /\ \E b \in C : f[b] = c
<1> DEFINE Closed(c) == c # {} /\ \A x \in c : f[x] \in c
           Cyclic == \E C \in SUBSET S : C # {} /\ \A c \in C : f[c] \in C /\ \E b \in C : f[b] = c
           N == {n \in Nat : \A c \in SUBSET S : Closed(c) /\ Cardinality(c) <= n => Cyclic}
<1>1. \A c \in SUBSET S : IsFiniteSet(c) /\ Cardinality(c) \in Nat
  BY FS_Subset, FS_CardinalityType
<1>2. 0 \in N
  <2>1. \A c \in SUBSET S : Closed(c) => Cardinality(c) # 0 BY <1>1, FS_EmptySet
  <2> HIDE DEF Closed, Cyclic
  <2> QED BY <1>1, <2>1
<1>3. ASSUME NEW n \in N PROVE n + 1 \in N
  <2> SUFFICES ASSUME NEW c \in SUBSET S, Closed(c), Cardinality(c) <= n + 1
               PROVE  Cyclic
    OBVIOUS
  <2> DEFINE I == {f[x] : x \in c}
  <2>1. I \subseteq c /\ Closed(I) OBVIOUS
  <2>2. CASE I = c
    <3> WITNESS c \in SUBSET S
    <3> QED BY <2>2
  <2>3. CASE I # c
    <3> HIDE DEF I, Closed, Cyclic
    <3>1. Cardinality(I) <= Cardinality(c) /\ Cardinality(I) # Cardinality(c)
      BY <1>1, <2>1, <2>3, FS_Subset
    <3>2. Cardinality(I) <= n BY <1>1, <2>1, <3>1
    <3> QED BY <2>1, <3>2
  <2> QED BY <2>2, <2>3
<1> HIDE DEF N
<1>4. N = Nat
  <2>1. N \in SUBSET Nat BY DEF N
  <2> QED BY <1>2, <1>3, <2>1, NatSetInduction
<1>5. Closed(S) /\ Cardinality(S) \in N BY <1>1, <1>4
<1>6. Cardinality(S) <= Cardinality(S) BY <1>1
<1> HIDE DEF Closed, Cyclic
<1>7. Cyclic BY <1>5, <1>6 DEF N
<1> QED BY <1>7 DEF Cyclic
=============================================================================
