----------------------------- MODULE Sums_proofs -----------------------------
(***************************************************************************)
(* Lemmas about sums: what one term more, one term less or one changed term *)
(* does to a sum.  The invariants about money are proved from these.        *)
(***************************************************************************)
EXTENDS Sums, FiniteSetTheorems, TLAPS

\* The units of one term are as many as its value says.
LEMMA UnitsOfOne ==
  ASSUME NEW s, NEW n \in Nat
  PROVE  IsFiniteSet({s} \X (1 .. n)) /\ Cardinality({s} \X (1 .. n)) = n
<1>1. IsFiniteSet(1 .. n) /\ Cardinality(1 .. n) = n
  BY FS_Interval
<1>2. IsFiniteSet({s}) /\ Cardinality({s}) = 1
  BY FS_Singleton
<1>3. /\ IsFiniteSet({s} \X (1 .. n))
      /\ Cardinality({s} \X (1 .. n)) = Cardinality({s}) * Cardinality(1 .. n)
  BY <1>1, <1>2, FS_Product
<1> QED
  BY <1>1, <1>2, <1>3

\* The values of a function on a finite set.
LEMMA ImageFinite ==
  ASSUME NEW S, IsFiniteSet(S), NEW g, DOMAIN g = S, g = [x \in S |-> g[x]]
  PROVE  IsFiniteSet({g[x] : x \in S})
<1> DEFINE T == {g[x] : x \in S}
<1>1. g \in Surjection(S, T)
  BY DEF Surjection
<1> HIDE DEF T
<1>2. IsFiniteSet(T)
  BY <1>1, FS_Surjection
<1> QED
  BY <1>2 DEF T

LEMMA UnitsFinite ==
  ASSUME NEW S, IsFiniteSet(S), NEW f \in [S -> Nat]
  PROVE  IsFiniteSet(Units(f))
<1> DEFINE g == [s \in S |-> {s} \X (1 .. f[s])]
<1>1. IsFiniteSet({g[s] : s \in S})
  <2>1. DOMAIN g = S /\ g = [s \in S |-> g[s]]
    OBVIOUS
  <2> HIDE DEF g
  <2> QED
    BY <2>1, ImageFinite
<1>2. \A T \in {g[s] : s \in S} : IsFiniteSet(T)
  BY UnitsOfOne
<1>3. IsFiniteSet(UNION {g[s] : s \in S})
  BY <1>1, <1>2, FS_UNION
<1> QED
  BY <1>3 DEF Units

LEMMA TotalType ==
  ASSUME NEW S, IsFiniteSet(S), NEW f \in [S -> Nat]
  PROVE  Total(f) \in Nat
BY UnitsFinite, FS_CardinalityType DEF Total

\* A sum is one of its terms and the sum of the others.
LEMMA TotalSplit ==
  ASSUME NEW S, IsFiniteSet(S), NEW f \in [S -> Nat], NEW s \in S
  PROVE  Total(f) = f[s] + Total([x \in S \ {s} |-> f[x]])
<1> DEFINE g == [x \in S \ {s} |-> f[x]]
           One == {s} \X (1 .. f[s])
<1>1. Units(f) = One \cup Units(g)
  BY DEF Units
<1>2. One \cap Units(g) = {}
  BY DEF Units
<1>3. IsFiniteSet(One) /\ Cardinality(One) = f[s]
  BY UnitsOfOne
<1>4. IsFiniteSet(S \ {s}) /\ g \in [S \ {s} -> Nat]
  BY FS_RemoveElement
<1>5. IsFiniteSet(Units(g)) /\ Total(g) \in Nat
  BY <1>4, UnitsFinite, TotalType
<1>6. Cardinality(One \cup Units(g))
        = Cardinality(One) + Cardinality(Units(g)) - Cardinality(One \cap Units(g))
  BY <1>3, <1>5, FS_Union
<1>7. Cardinality(One \cap Units(g)) = 0
  BY <1>2, FS_EmptySet
<1> QED
  BY <1>1, <1>3, <1>5, <1>6, <1>7 DEF Total

\* Terms of nothing, and no terms, add up to nothing.
LEMMA TotalZero ==
  ASSUME NEW f, \A s \in DOMAIN f : f[s] = 0
  PROVE  Total(f) = 0
<1>1. Units(f) = {}
  BY DEF Units
<1> QED
  BY <1>1, FS_EmptySet DEF Total

\* Terms of nothing can be left out.
LEMMA TotalPad ==
  ASSUME NEW U, NEW S \in SUBSET U, NEW f \in [U -> Nat], \A x \in U \ S : f[x] = 0
  PROVE  Total(f) = Total([x \in S |-> f[x]])
<1>1. Units(f) = Units([x \in S |-> f[x]])
  BY DEF Units
<1> QED
  BY <1>1 DEF Total

\* Two sums that differ in one term differ by what it changes.
LEMMA TotalChange ==
  ASSUME NEW S, IsFiniteSet(S), NEW f \in [S -> Nat], NEW g \in [S -> Nat],
         NEW s \in S, \A x \in S \ {s} : g[x] = f[x]
  PROVE  Total(g) + f[s] = Total(f) + g[s]
<1>1. [x \in S \ {s} |-> g[x]] = [x \in S \ {s} |-> f[x]]
  OBVIOUS
<1>2. Total(f) = f[s] + Total([x \in S \ {s} |-> f[x]])
  BY TotalSplit
<1>3. Total(g) = g[s] + Total([x \in S \ {s} |-> g[x]])
  BY TotalSplit
<1>4. Total([x \in S \ {s} |-> f[x]]) \in Nat
  BY FS_RemoveElement, TotalType
<1> QED
  BY <1>1, <1>2, <1>3, <1>4

\* Two sums that differ in two terms.
LEMMA TotalTwoChanges ==
  ASSUME NEW S, IsFiniteSet(S), NEW f \in [S -> Nat], NEW g \in [S -> Nat],
         NEW s \in S, NEW t \in S, s # t, \A x \in S \ {s, t} : g[x] = f[x]
  PROVE  Total(g) + f[s] + f[t] = Total(f) + g[s] + g[t]
<1> DEFINE h == [f EXCEPT ![s] = g[s]]
<1>1. /\ h \in [S -> Nat] /\ h[s] = g[s] /\ h[t] = f[t]
      /\ \A x \in S \ {s} : h[x] = f[x]
      /\ \A x \in S \ {t} : g[x] = h[x]
  OBVIOUS
<1> HIDE DEF h
<1>2. Total(h) + f[s] = Total(f) + h[s]
  BY <1>1, TotalChange
<1>3. Total(g) + h[t] = Total(h) + g[t]
  BY <1>1, TotalChange
<1>4. Total(f) \in Nat /\ Total(g) \in Nat /\ Total(h) \in Nat
  BY <1>1, TotalType
<1> QED
  BY <1>1, <1>2, <1>3, <1>4

\* A sum with one more term.
LEMMA TotalExtend ==
  ASSUME NEW S, IsFiniteSet(S), NEW f \in [S -> Nat], NEW s, s \notin S,
         NEW g \in [S \cup {s} -> Nat], \A x \in S : g[x] = f[x]
  PROVE  Total(g) = Total(f) + g[s]
<1>1. IsFiniteSet(S \cup {s})
  BY FS_AddElement
<1>2. Total(g) = g[s] + Total([x \in (S \cup {s}) \ {s} |-> g[x]])
  BY <1>1, TotalSplit
<1>3. [x \in (S \cup {s}) \ {s} |-> g[x]] = f
  OBVIOUS
<1>4. Total(f) \in Nat
  BY TotalType
<1> QED
  BY <1>2, <1>3, <1>4

\* The terms of f are those of g and those of h, and these share none.
Joins(f, g, h) ==
  /\ IsFiniteSet(DOMAIN g) /\ IsFiniteSet(DOMAIN h) /\ DOMAIN g \cap DOMAIN h = {}
  /\ f \in [DOMAIN g \cup DOMAIN h -> Nat] /\ g \in [DOMAIN g -> Nat] /\ h \in [DOMAIN h -> Nat]
  /\ \A x \in DOMAIN g : g[x] = f[x]
  /\ \A x \in DOMAIN h : h[x] = f[x]

LEMMA TotalUnion ==
  ASSUME NEW f, NEW g, NEW h, Joins(f, g, h)
  PROVE  Total(f) = Total(g) + Total(h)
<1>1. Units(f) = Units(g) \cup Units(h) /\ Units(g) \cap Units(h) = {}
  BY DEF Units, Joins
<1>2. IsFiniteSet(Units(g)) /\ IsFiniteSet(Units(h))
  <2>1. IsFiniteSet(Units(g))
    BY UnitsFinite DEF Joins
  <2>2. IsFiniteSet(Units(h))
    BY UnitsFinite DEF Joins
  <2> QED
    BY <2>1, <2>2
<1>3. /\ Cardinality(Units(g) \cup Units(h))
           = Cardinality(Units(g)) + Cardinality(Units(h)) - Cardinality(Units(g) \cap Units(h))
      /\ Cardinality(Units(g)) \in Nat /\ Cardinality(Units(h)) \in Nat
  BY <1>2, FS_Union, FS_CardinalityType
<1>4. Cardinality({}) = 0
  BY FS_EmptySet
<1> QED
  <2> DEFINE u == Units(f)
             v == Units(g)
             w == Units(h)
  <2>1. u = v \cup w /\ v \cap w = {}
    BY <1>1
  <2> HIDE DEF u, v, w
  <2>2. Cardinality(u) = Cardinality(v) + Cardinality(w) - 0
    BY <1>3, <1>4, <2>1 DEF v, w
  <2> QED
    BY <1>3, <2>2 DEF u, v, w, Total

\* A sum of one term.
LEMMA TotalOne ==
  ASSUME NEW s, NEW f \in [{s} -> Nat]
  PROVE  Total(f) = f[s]
<1>1. Units(f) = {s} \X (1 .. f[s]) /\ f[s] \in Nat
  BY DEF Units
<1> QED
  BY ZenonT(30), <1>1, UnitsOfOne DEF Total
=============================================================================
