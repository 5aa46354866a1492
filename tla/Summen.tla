------------------------------- MODULE Summen -------------------------------
(***************************************************************************)
(* Sums over finite sets.  The models add up with MapThenSumSet, a fold of *)
(* which a prover knows nothing; Summe is the same sum of a function's     *)
(* values, and the lemmas say that it exists, is unique, and what it is    *)
(* after one member was added or taken away.                               *)
(***************************************************************************)
EXTENDS Integers, FiniteSets, FiniteSetTheorems, NaturalsInduction, WellFoundedInduction, TLAPS

\* A collection of subsets of a finite set has a member without smaller members.
LEMMA KleinsteMenge ==
  ASSUME NEW T, IsFiniteSet(T), NEW B \in SUBSET SUBSET T,
         \A s \in B : \E x \in s : s \ {x} \in B
  PROVE  B = {}
<1> SUFFICES ASSUME B # {} PROVE FALSE
  OBVIOUS
<1>1. IsWellFoundedOn(StrictSubsetOrdering(T), FiniteSubsetsOf(T))
  BY FS_StrictSubsetOrderingWellFounded
<1>2. FiniteSubsetsOf(T) = SUBSET T
  BY FS_FiniteSubsetsOfFinite
<1>3. PICK s \in B : \A u \in B : <<u, s>> \notin StrictSubsetOrdering(T)
  BY <1>1, <1>2, WFMin
<1>4. PICK x \in s : s \ {x} \in B
  OBVIOUS
<1>5. <<s \ {x}, s>> \in StrictSubsetOrdering(T)
  BY <1>4 DEF StrictSubsetOrdering
<1>6. QED
  BY <1>3, <1>4, <1>5

IstSumme(g, w, S) ==
    g = [s \in SUBSET S |-> IF s = {} THEN 0
                            ELSE LET x == CHOOSE x \in s : TRUE IN w[x] + g[s \ {x}]]

Kleinste(Z) == \E n \in Z : \A m \in Z : n <= m

LEMMA KleinsteZahl == ASSUME NEW Z \in SUBSET Nat, Z # {} PROVE Kleinste(Z)
<1>1. PICK n \in Z : \A m \in Z : <<m, n>> \notin OpToRel(<, Nat)
  BY NatLessThanWellFounded, WFMin
<1>2. \A m \in Z : ~(m < n)
  BY <1>1 DEF OpToRel
<1>3. QED
  BY <1>2 DEF Kleinste

\* The recursive function behind a sum exists, and there is only one.
LEMMA SummeEindeutig ==
  ASSUME NEW T, IsFiniteSet(T), NEW w, NEW g, NEW h, IstSumme(g, w, T), IstSumme(h, w, T)
  PROVE  g = h
<1> DEFINE B == {s \in SUBSET T : g[s] # h[s]}
<1>1. ASSUME NEW s \in B PROVE \E x \in s : s \ {x} \in B
  <2>1. s # {} /\ s \in SUBSET T
    BY DEF IstSumme
  <2> DEFINE x == CHOOSE x \in s : TRUE
  <2>2. x \in s
    BY <2>1
  <2>3. g[s] = w[x] + g[s \ {x}] /\ h[s] = w[x] + h[s \ {x}]
    BY <2>1 DEF IstSumme
  <2> HIDE DEF x
  <2>4. g[s \ {x}] # h[s \ {x}]
    BY <2>3
  <2>5. QED
    BY <2>1, <2>2, <2>4
<1>2. B = {}
  <2> HIDE DEF B
  <2>1. B \in SUBSET SUBSET T
    BY DEF B
  <2>2. QED
    BY <1>1, <2>1, KleinsteMenge
<1>3. \A s \in SUBSET T : g[s] = h[s]
  BY <1>2
<1>4. QED
  BY <1>3 DEF IstSumme

\* g computes the sums over the subsets of T with at most n members.
SummeBis(g, w, T, n) ==
    \A s \in SUBSET T : Cardinality(s) <= n =>
        g[s] = IF s = {} THEN 0 ELSE LET x == CHOOSE x \in s : TRUE IN w[x] + g[s \ {x}]

LEMMA SummeWeiter ==
  ASSUME NEW T, IsFiniteSet(T), NEW w, NEW n \in Nat, NEW g, SummeBis(g, w, T, n)
  PROVE  \E h : SummeBis(h, w, T, n + 1)
<1> DEFINE f(s) == IF s = {} THEN 0 ELSE LET x == CHOOSE x \in s : TRUE IN w[x] + g[s \ {x}]
           h == [s \in SUBSET T |-> f(s)]
<1>1. \A s \in SUBSET T : h[s] = f(s)
  OBVIOUS
<1>2. \A s \in SUBSET T : Cardinality(s) <= n => g[s] = f(s)
  BY DEF SummeBis
<1> HIDE DEF h
<1>3. ASSUME NEW s \in SUBSET T, Cardinality(s) <= n + 1, s # {}
      PROVE  LET x == CHOOSE x \in s : TRUE IN h[s] = w[x] + h[s \ {x}]
  <2> DEFINE x == CHOOSE x \in s : TRUE
  <2>1. x \in s
    BY <1>3
  <2>2. f(s) = w[x] + g[s \ {x}]
    BY <1>3
  <2> HIDE DEF x, f
  <2>3. IsFiniteSet(s)
    BY FS_Subset
  <2>4. Cardinality(s) \in Nat /\ Cardinality(s \ {x}) = Cardinality(s) - 1
    BY <2>1, <2>3, FS_CardinalityType, FS_RemoveElement
  <2>5. Cardinality(s \ {x}) <= n /\ s \ {x} \in SUBSET T
    BY <1>3, <2>4
  <2>6. g[s \ {x}] = h[s \ {x}]
    BY <1>1, <1>2, <2>5
  <2>7. h[s] = w[x] + h[s \ {x}]
    BY <1>1, <2>2, <2>6
  <2>8. QED
    BY <2>7 DEF x
<1>4. SummeBis(h, w, T, n + 1)
  BY <1>1, <1>3 DEF SummeBis
<1>5. QED
  BY <1>4

LEMMA SummeGibtEs == ASSUME NEW T, IsFiniteSet(T), NEW w PROVE \E g : IstSumme(g, w, T)
<1> DEFINE Z == {n \in Nat : ~ \E g : SummeBis(g, w, T, n)}
<1>1. Z = {}
  <2> SUFFICES ASSUME Z # {} PROVE FALSE
    OBVIOUS
  <2>1. PICK n \in Z : \A m \in Z : n <= m
    BY KleinsteZahl DEF Kleinste
  <2>2. n # 0
    <3> DEFINE g == [s \in SUBSET T |-> 0]
    <3>1. \A s \in SUBSET T : Cardinality(s) <= 0 => s = {}
      <4> SUFFICES ASSUME NEW s \in SUBSET T, Cardinality(s) <= 0 PROVE s = {}
        OBVIOUS
      <4>1. IsFiniteSet(s)
        BY FS_Subset
      <4>2. Cardinality(s) \in Nat
        BY <4>1, FS_CardinalityType
      <4>3. QED
        BY <4>1, <4>2, FS_EmptySet
    <3>2. SummeBis(g, w, T, 0)
      BY <3>1 DEF SummeBis
    <3>3. QED
      BY <3>2
  <2>3. n - 1 \in Nat /\ n - 1 \notin Z
    BY <2>1, <2>2
  <2>4. PICK g : SummeBis(g, w, T, n - 1)
    BY <2>3
  <2>5. \E h : SummeBis(h, w, T, (n - 1) + 1)
    BY <2>3, <2>4, SummeWeiter
  <2>6. (n - 1) + 1 = n
    BY <2>3
  <2>7. QED
    BY <2>5, <2>6
<1>2. Cardinality(T) \in Nat
  BY FS_CardinalityType
<1>3. PICK g : SummeBis(g, w, T, Cardinality(T))
  BY <1>1, <1>2
<1> DEFINE h == [s \in SUBSET T |-> g[s]]
<1>4. \A s \in SUBSET T : Cardinality(s) <= Cardinality(T)
  BY FS_Subset
<1>5. \A s \in SUBSET T : h[s] = IF s = {} THEN 0 ELSE LET x == CHOOSE x \in s : TRUE IN w[x] + h[s \ {x}]
  BY <1>3, <1>4 DEF SummeBis
<1>6. IstSumme(h, w, T)
  BY <1>5 DEF IstSumme
<1>7. QED
  BY <1>6

\* A sum of natural numbers is one, and any member can be taken out of it.
LEMMA SummeNat ==
  ASSUME NEW T, IsFiniteSet(T), NEW w, \A x \in T : w[x] \in Nat, NEW g, IstSumme(g, w, T)
  PROVE  \A s \in SUBSET T : g[s] \in Nat
<1> DEFINE B == {s \in SUBSET T : g[s] \notin Nat}
<1>1. ASSUME NEW s \in B PROVE \E x \in s : s \ {x} \in B
  <2>1. s # {} /\ s \in SUBSET T
    BY DEF IstSumme
  <2> DEFINE x == CHOOSE x \in s : TRUE
  <2>2. x \in s
    BY <2>1
  <2>3. g[s] = w[x] + g[s \ {x}]
    BY <2>1 DEF IstSumme
  <2> HIDE DEF x
  <2>4. g[s \ {x}] \notin Nat
    BY <2>1, <2>2, <2>3
  <2>5. QED
    BY <2>1, <2>2, <2>4
<1>2. B = {}
  <2> HIDE DEF B
  <2>1. B \in SUBSET SUBSET T
    BY DEF B
  <2>2. QED
    BY <1>1, <2>1, KleinsteMenge
<1>3. QED
  BY <1>2

LEMMA SummeOhne ==
  ASSUME NEW T, IsFiniteSet(T), NEW w, \A x \in T : w[x] \in Nat, NEW g, IstSumme(g, w, T)
  PROVE  \A s \in SUBSET T : \A b \in s : g[s] = w[b] + g[s \ {b}]
<1> DEFINE B == {s \in SUBSET T : \E b \in s : g[s] # w[b] + g[s \ {b}]}
<1>0. \A s \in SUBSET T : g[s] \in Nat
  BY SummeNat
<1>1. ASSUME NEW s \in B PROVE \E x \in s : s \ {x} \in B
  <2>1. PICK b \in s : g[s] # w[b] + g[s \ {b}]
    OBVIOUS
  <2>2. s \in SUBSET T /\ s # {}
    OBVIOUS
  <2> DEFINE x == CHOOSE x \in s : TRUE
  <2>3. x \in s
    BY <2>2
  <2>4. g[s] = w[x] + g[s \ {x}]
    BY <2>2 DEF IstSumme
  <2> HIDE DEF x
  <2>5. x # b
    BY <2>1, <2>4
  <2>6. (s \ {x}) \ {b} = (s \ {b}) \ {x}
    OBVIOUS
  <2>7. /\ s \ {x} \in SUBSET T /\ s \ {b} \in SUBSET T /\ (s \ {x}) \ {b} \in SUBSET T
        /\ b \in s \ {x} /\ x \in s \ {b}
    BY <2>2, <2>3, <2>5
  <2>8. s \ {x} \notin B => g[s \ {x}] = w[b] + g[(s \ {x}) \ {b}]
    BY <2>7
  <2>9. s \ {b} \notin B => g[s \ {b}] = w[x] + g[(s \ {x}) \ {b}]
    BY <2>6, <2>7
  <2> HIDE DEF B
  <2>10. w[x] \in Nat /\ w[b] \in Nat /\ g[(s \ {x}) \ {b}] \in Nat
    BY <1>0, <2>2, <2>3, <2>7
  <2>11. CASE s \ {x} \notin B /\ s \ {b} \notin B
    BY <2>1, <2>4, <2>8, <2>9, <2>10, <2>11
  <2>12. QED
    BY <2>3, <2>11
<1>2. B = {}
  <2> HIDE DEF B
  <2>1. B \in SUBSET SUBSET T
    BY DEF B
  <2>2. QED
    BY <1>1, <2>1, KleinsteMenge
<1>3. QED
  BY <1>2

\* The sum itself.
Summe(w, S) == (CHOOSE g : IstSumme(g, w, S))[S]

LEMMA SummeIst == ASSUME NEW S, IsFiniteSet(S), NEW w, NEW g, IstSumme(g, w, S) PROVE Summe(w, S) = g[S]
<1>1. IstSumme((CHOOSE h : IstSumme(h, w, S)), w, S)
  OBVIOUS
<1>2. QED
  BY <1>1, SummeEindeutig DEF Summe

LEMMA SummeTeil ==
  ASSUME NEW T, IsFiniteSet(T), NEW S \in SUBSET T, NEW w, NEW v, \A x \in S : v[x] = w[x],
         NEW g, IstSumme(g, w, T)
  PROVE  Summe(v, S) = g[S]
<1> DEFINE h == [s \in SUBSET S |-> g[s]]
<1>1. \A s \in SUBSET S : s \in SUBSET T /\ \A x : s \ {x} \in SUBSET S
  OBVIOUS
<1>2. \A s \in SUBSET S : h[s] = IF s = {} THEN 0 ELSE LET x == CHOOSE x \in s : TRUE IN v[x] + h[s \ {x}]
  <2> SUFFICES ASSUME NEW s \in SUBSET S
               PROVE  h[s] = IF s = {} THEN 0 ELSE LET x == CHOOSE x \in s : TRUE IN v[x] + h[s \ {x}]
    OBVIOUS
  <2> DEFINE x == CHOOSE x \in s : TRUE
  <2>1. h[s] = IF s = {} THEN 0 ELSE w[x] + g[s \ {x}]
    BY <1>1 DEF IstSumme
  <2>2. s # {} => x \in s
    OBVIOUS
  <2>3. h[s \ {x}] = g[s \ {x}]
    BY <1>1
  <2> HIDE DEF h, x
  <2>4. s # {} => h[s] = v[x] + h[s \ {x}]
    BY <2>1, <2>2, <2>3
  <2>5. QED
    BY <2>1, <2>4 DEF x
<1>3. IstSumme(h, v, S)
  BY <1>2 DEF IstSumme
<1>4. Summe(v, S) = h[S]
  <2> HIDE DEF h
  <2>1. IsFiniteSet(S)
    BY FS_Subset
  <2>2. QED
    BY <1>3, <2>1, SummeIst
<1>5. QED
  BY <1>4

\* What the sum is of more, of fewer, and of the same numbers.
LEMMA SummeFakten ==
  ASSUME NEW T, IsFiniteSet(T), NEW w, \A x \in T : w[x] \in Nat
  PROVE  /\ Summe(w, T) \in Nat /\ Summe(w, {}) = 0
         /\ \A b \in T : Summe(w, T) = w[b] + Summe(w, T \ {b})
<1>1. PICK g : IstSumme(g, w, T)
  BY SummeGibtEs
<1>2. \A S \in SUBSET T : Summe(w, S) = g[S]
  BY <1>1, SummeTeil
<1>3. g[{}] = 0
  BY <1>1 DEF IstSumme
<1>4. g[T] \in Nat /\ \A b \in T : g[T] = w[b] + g[T \ {b}]
  BY <1>1, SummeNat, SummeOhne
<1>5. Summe(w, T) = g[T] /\ Summe(w, {}) = g[{}] /\ \A b \in T : Summe(w, T \ {b}) = g[T \ {b}]
  BY <1>2
<1>6. QED
  BY <1>3, <1>4, <1>5

\* A sum of integers is one.
LEMMA SummeGanz ==
  ASSUME NEW T, IsFiniteSet(T), NEW w, \A x \in T : w[x] \in Int
  PROVE  Summe(w, T) \in Int
<1>1. PICK g : IstSumme(g, w, T)
  BY SummeGibtEs
<1> DEFINE B == {s \in SUBSET T : g[s] \notin Int}
<1>2. ASSUME NEW s \in B PROVE \E x \in s : s \ {x} \in B
  <2>1. s # {} /\ s \in SUBSET T
    BY <1>1 DEF IstSumme
  <2> DEFINE x == CHOOSE x \in s : TRUE
  <2>2. x \in s
    BY <2>1
  <2>3. g[s] = w[x] + g[s \ {x}]
    BY <1>1, <2>1 DEF IstSumme
  <2> HIDE DEF x
  <2>4. g[s \ {x}] \notin Int
    BY <2>1, <2>2, <2>3
  <2>5. QED
    BY <2>1, <2>2, <2>4
<1>3. B = {}
  <2> HIDE DEF B
  <2>1. B \in SUBSET SUBSET T
    BY DEF B
  <2>2. QED
    BY <1>2, <2>1, KleinsteMenge
<1>4. Summe(w, T) = g[T]
  BY <1>1, SummeTeil
<1>5. QED
  BY <1>3, <1>4

LEMMA SummeGleich ==
  ASSUME NEW S, IsFiniteSet(S), NEW w, NEW v, \A x \in S : v[x] = w[x]
  PROVE  Summe(v, S) = Summe(w, S)
<1>1. PICK g : IstSumme(g, w, S)
  BY SummeGibtEs
<1>2. QED
  BY <1>1, SummeTeil

LEMMA SummeMonoton ==
  ASSUME NEW T, IsFiniteSet(T), NEW S \in SUBSET T, NEW w, \A x \in T : w[x] \in Nat
  PROVE  Summe(w, S) <= Summe(w, T)
<1>1. PICK g : IstSumme(g, w, T)
  BY SummeGibtEs
<1> DEFINE B == {s \in SUBSET T : S \subseteq s /\ ~(g[S] <= g[s])}
<1>2. \A s \in SUBSET T : g[s] \in Nat
  BY <1>1, SummeNat
<1>3. ASSUME NEW s \in B PROVE \E x \in s : s \ {x} \in B
  <2>1. s # S /\ S \subseteq s
    BY <1>2
  <2>2. PICK x \in s : x \notin S
    BY <2>1
  <2>3. g[s] = w[x] + g[s \ {x}]
    BY <1>1, SummeOhne
  <2>4. w[x] \in Nat /\ g[s] \in Nat /\ g[s \ {x}] \in Nat /\ g[S] \in Nat
    BY <1>2
  <2>5. ~(g[S] <= g[s \ {x}])
    BY <2>3, <2>4
  <2>6. QED
    BY <2>1, <2>2, <2>5
<1>4. B = {}
  <2> HIDE DEF B
  <2>1. B \in SUBSET SUBSET T
    BY DEF B
  <2>2. QED
    BY <1>3, <2>1, KleinsteMenge
<1>5. g[S] <= g[T]
  BY <1>4
<1>6. Summe(w, S) = g[S]
  BY <1>1, SummeTeil
<1>7. Summe(w, T) = g[T]
  BY <1>1, SummeTeil
<1>8. QED
  BY <1>5, <1>6, <1>7
=============================================================================
