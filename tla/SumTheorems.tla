---------------------------- MODULE SumTheorems -----------------------------
(***************************************************************************)
(* Facts about sums over finite sets (SumFunction of the community         *)
(* modules), for the proofs about bills: a sum is a natural number, any    *)
(* term may be taken first, and renaming the terms leaves it alone.        *)
(*                                                                         *)
(* A sum is a recursive function over subsets.  Induction is by taking a   *)
(* least number, or a smallest subset, of which a statement fails.         *)
(***************************************************************************)
EXTENDS Functions, FiniteSetTheorems, WellFoundedInduction, TLAPS

\* A set of natural numbers that has any has a least one.
LEMMA Least ==
  ASSUME NEW T \in SUBSET Nat, T # {}
  PROVE  \E x \in T : \A y \in T : x <= y
<1> DEFINE R == {ss \in Nat \X Nat : ss[1] < ss[2]}
<1>1. OpToRel(<, Nat) = R
  BY Zenon DEF OpToRel
<1>2. IsWellFoundedOn(R, Nat)
  BY Zenon, <1>1, NatLessThanWellFounded
<1> HIDE DEF R
<1>3. PICK x \in T : \A y \in T : ~(<<y, x>> \in R)
  BY <1>2, WFMin
<1>4. ASSUME NEW y \in T PROVE x <= y
  <2>1. <<y, x>> \notin R
    BY <1>3
  <2> QED BY <2>1 DEF R
<1> QED BY <1>4

\* Of the subsets of a finite set with some property, one is smallest.
LEMMA SmallestSubset ==
  ASSUME NEW S, IsFiniteSet(S), NEW F \in SUBSET (SUBSET S), F # {}
  PROVE  \E T \in F : \A U \in F : ~(U \subseteq T /\ U # T)
<1> DEFINE R == StrictSubsetOrdering(S)
<1>1. IsWellFoundedOn(R, FiniteSubsetsOf(S))
  BY FS_StrictSubsetOrderingWellFounded
<1>2. F \subseteq FiniteSubsetsOf(S)
  BY FS_Subset DEF FiniteSubsetsOf
<1> HIDE DEF R
<1>3. \E x \in F : \A y \in F : ~(<<y, x>> \in R)
  BY <1>1, <1>2, WFMin
<1> QED BY <1>3 DEF R, StrictSubsetOrdering

-----------------------------------------------------------------------------
\* The term that the sum of a set takes first.
First(s) == CHOOSE x \in s : TRUE

\* g gives every subset of S its sum.
Sums(f, g, S) ==
  g = [s \in SUBSET S |-> IF s = {} THEN 0 ELSE f[First(s)] + g[s \ {First(s)}]]

LEMMA FirstIsIn ==
  ASSUME NEW s, s # {} PROVE First(s) \in s
BY DEF First

LEMMA SumUnfolds ==
  ASSUME NEW f, NEW S
  PROVE  SumFunctionOnSet(f, S) = (CHOOSE g : Sums(f, g, S))[S]
BY Zenon DEF SumFunctionOnSet, FoldFunctionOnSet, MapThenFoldSet, Sums, First

LEMMA SumsOf ==
  ASSUME NEW f, NEW g, NEW S, Sums(f, g, S), NEW s \in SUBSET S
  PROVE  /\ s = {} => g[s] = 0
         /\ s # {} => g[s] = f[First(s)] + g[s \ {First(s)}]
<1> DEFINE h == [t \in SUBSET S |-> IF t = {} THEN 0 ELSE f[First(t)] + g[t \ {First(t)}]]
<1>1. g = h
  BY DEF Sums
<1>2. h[s] = IF s = {} THEN 0 ELSE f[First(s)] + g[s \ {First(s)}]
  OBVIOUS
<1> QED BY <1>1, <1>2

\* Two such functions agree on the subsets they share.
LEMMA SumsUnique ==
  ASSUME NEW f, NEW S, IsFiniteSet(S), NEW T,
         NEW g, Sums(f, g, S), NEW h, Sums(f, h, T),
         NEW U \in SUBSET (S \cap T)
  PROVE  g[U] = h[U]
<1> DEFINE F == {V \in SUBSET (S \cap T) : g[V] # h[V]}
<1> SUFFICES ASSUME F # {} PROVE FALSE
  OBVIOUS
<1>1. F \in SUBSET (SUBSET S)
  OBVIOUS
<1>2. PICK V \in F : \A W \in F : ~(W \subseteq V /\ W # V)
  <2> HIDE DEF F
  <2> QED BY <1>1, SmallestSubset
<1> DEFINE x == First(V)
<1>3. V \in SUBSET S /\ V \in SUBSET T
  BY <1>2
<1>4. V # {}
  BY <1>2, <1>3, SumsOf
<1>5. x \in V
  BY <1>4, FirstIsIn
<1>6. V \ {x} \in SUBSET (S \cap T) /\ V \ {x} \notin F
  BY <1>2, <1>5
<1>7. g[V \ {x}] = h[V \ {x}]
  BY <1>6
<1>8. g[V] = f[x] + g[V \ {x}] /\ h[V] = f[x] + h[V \ {x}]
  BY <1>3, <1>4, SumsOf
<1> QED BY <1>2, <1>7, <1>8

\* There is one, on a finite set.
LEMMA SumsExist ==
  ASSUME NEW f, NEW S, IsFiniteSet(S)
  PROVE  \E g : Sums(f, g, S)
<1> DEFINE F == {V \in SUBSET S : ~ \E g : Sums(f, g, V)}
<1> SUFFICES ASSUME F # {} PROVE FALSE
  OBVIOUS
<1>0. F \in SUBSET (SUBSET S)
  OBVIOUS
<1>1. PICK V \in F : \A W \in F : ~(W \subseteq V /\ W # V)
  <2> HIDE DEF F
  <2> QED BY <1>0, SmallestSubset
<1> DEFINE sums(W) == CHOOSE g : Sums(f, g, W)
           h == [s \in SUBSET V |->
                   IF s = {} THEN 0 ELSE f[First(s)] + sums(s \ {First(s)})[s \ {First(s)}]]
<1>2. ASSUME NEW W \in SUBSET V, W # V PROVE Sums(f, sums(W), W)
  <2>1. W \notin F /\ W \in SUBSET S
    BY <1>1, <1>2
  <2>2. \E g : Sums(f, g, W)
    BY <2>1
  <2> QED BY <2>2
<1>3. ASSUME NEW s \in SUBSET V, s # {}
      PROVE  h[s] = f[First(s)] + h[s \ {First(s)}]
  <2> DEFINE v == s \ {First(s)}
  <2>1. First(s) \in s
    BY <1>3, FirstIsIn
  <2>2. v \in SUBSET V /\ v # V
    BY <2>1
  <2>3. Sums(f, sums(v), v)
    BY <2>2, <1>2
  <2>4. h[v] = sums(v)[v]
    <3>1. CASE v = {}
      <4>1. sums(v)[v] = 0
        BY <3>1, <2>3, SumsOf
      <4> QED BY <4>1, <3>1, <2>2
    <3>2. CASE v # {}
      <4> DEFINE w == v \ {First(v)}
      <4>1. First(v) \in v
        BY <3>2, FirstIsIn
      <4>2. w \in SUBSET V /\ w # V /\ w \in SUBSET v
        BY <2>2, <4>1
      <4>3. Sums(f, sums(w), w)
        BY <4>2, <1>2
      <4>5. IsFiniteSet(v)
        BY <1>1, <2>2, FS_Subset
      <4>6. w \in SUBSET (v \cap w) /\ v \in SUBSET v
        BY <4>2
      <4> HIDE DEF sums, v
      <4>4. sums(v)[v] = f[First(v)] + sums(v)[w]
        BY <2>3, <3>2, <4>6, SumsOf
      <4> HIDE DEF w
      <4>7. sums(v)[w] = sums(w)[w]
        BY <4>3, <2>3, <4>5, <4>6, SumsUnique
      <4>8. h[v] = f[First(v)] + sums(w)[w]
        BY <2>2, <3>2 DEF w
      <4> QED BY <4>4, <4>7, <4>8
    <3> QED BY <3>1, <3>2
  <2>5. h[s] = f[First(s)] + sums(v)[v]
    BY <1>3
  <2> QED BY <2>4, <2>5
<1>4. h = [s \in SUBSET V |-> IF s = {} THEN 0 ELSE f[First(s)] + h[s \ {First(s)}]]
  <2>1. \A s \in SUBSET V : h[s] = IF s = {} THEN 0 ELSE f[First(s)] + h[s \ {First(s)}]
    <3> TAKE s \in SUBSET V
    <3>1. CASE s = {}
      BY <3>1
    <3>2. CASE s # {}
      <4> HIDE DEF h
      <4> QED BY <3>2, <1>3
    <3> QED BY <3>1, <3>2
  <2>2. h = [s \in SUBSET V |-> h[s]]
    OBVIOUS
  <2> HIDE DEF h
  <2> QED BY <2>1, <2>2
<1> HIDE DEF h
<1>5. Sums(f, h, V)
  BY Zenon, <1>4 DEF Sums
<1> QED BY <1>1, <1>5

-----------------------------------------------------------------------------
\* The sum of nothing, and of a set from the term the definition takes first.
LEMMA SumFirst ==
  ASSUME NEW f, NEW S, IsFiniteSet(S)
  PROVE  /\ S = {} => SumFunctionOnSet(f, S) = 0
         /\ S # {} => SumFunctionOnSet(f, S) = f[First(S)] + SumFunctionOnSet(f, S \ {First(S)})
<1> DEFINE sums(W) == CHOOSE g : Sums(f, g, W)
           x == First(S)
<1>1. Sums(f, sums(S), S) /\ SumFunctionOnSet(f, S) = sums(S)[S]
  BY SumsExist, SumUnfolds
<1>2. CASE S = {}
  BY <1>1, <1>2, SumsOf
<1>3. CASE S # {}
  <2>1. IsFiniteSet(S \ {x}) /\ S \ {x} \in SUBSET (S \cap (S \ {x}))
    BY FS_RemoveElement
  <2>2. /\ Sums(f, sums(S \ {x}), S \ {x})
        /\ SumFunctionOnSet(f, S \ {x}) = sums(S \ {x})[S \ {x}]
    BY <2>1, SumsExist, SumUnfolds
  <2>3. sums(S)[S] = f[x] + sums(S)[S \ {x}]
    BY <1>1, <1>3, SumsOf
  <2> HIDE DEF sums
  <2>4. sums(S)[S \ {x}] = sums(S \ {x})[S \ {x}]
    BY <1>1, <2>1, <2>2, SumsUnique
  <2> QED BY <1>1, <1>3, <2>2, <2>3, <2>4
<1> QED BY <1>2, <1>3

LEMMA SumOfNone ==
  ASSUME NEW f PROVE SumFunctionOnSet(f, {}) = 0
BY SumFirst, FS_EmptySet

LEMMA SumType ==
  ASSUME NEW f, NEW S, IsFiniteSet(S), \A x \in S : f[x] \in Nat
  PROVE  SumFunctionOnSet(f, S) \in Nat
<1> DEFINE F == {V \in SUBSET S : SumFunctionOnSet(f, V) \notin Nat}
<1> SUFFICES ASSUME F # {} PROVE FALSE
  OBVIOUS
<1>0. F \in SUBSET (SUBSET S)
  OBVIOUS
<1>1. PICK V \in F : \A W \in F : ~(W \subseteq V /\ W # V)
  <2> HIDE DEF F
  <2> QED BY <1>0, SmallestSubset
<1> DEFINE x == First(V)
<1>2. IsFiniteSet(V)
  BY <1>1, FS_Subset
<1>3. V # {}
  <2>1. SumFunctionOnSet(f, V) \notin Nat
    BY <1>1
  <2> QED BY <2>1, SumOfNone
<1>4. x \in V /\ x \in S
  BY <1>1, <1>3, FirstIsIn
<1>5. V \ {x} \in SUBSET S /\ V \ {x} \notin F
  BY <1>1, <1>4
<1>6. SumFunctionOnSet(f, V) = f[x] + SumFunctionOnSet(f, V \ {x})
  BY <1>2, <1>3, SumFirst
<1> QED BY <1>1, <1>4, <1>5, <1>6

\* Any term may be the first.
LEMMA SumOfOneMore ==
  ASSUME NEW f, NEW S, IsFiniteSet(S), \A x \in S : f[x] \in Nat, NEW a \in S
  PROVE  SumFunctionOnSet(f, S) = f[a] + SumFunctionOnSet(f, S \ {a})
<1> DEFINE total(V) == SumFunctionOnSet(f, V)
           F == {V \in SUBSET S : \E b \in V : total(V) # f[b] + total(V \ {b})}
<1> SUFFICES ASSUME F # {} PROVE FALSE
  OBVIOUS
<1>0. F \in SUBSET (SUBSET S)
  OBVIOUS
<1>1. PICK V \in F : \A W \in F : ~(W \subseteq V /\ W # V)
  <2> HIDE DEF F
  <2> QED BY <1>0, SmallestSubset
<1>2. PICK b \in V : total(V) # f[b] + total(V \ {b})
  BY <1>1
<1> DEFINE x == First(V)
<1>3. x \in V /\ V \in SUBSET S /\ IsFiniteSet(V)
  BY <1>1, <1>2, FS_Subset, FirstIsIn
<1>4. total(V) = f[x] + total(V \ {x})
  BY <1>2, <1>3, SumFirst
<1>5. b # x
  BY <1>2, <1>4
<1>6. /\ V \ {x} \in SUBSET S /\ V \ {x} \notin F
      /\ V \ {b} \in SUBSET S /\ V \ {b} \notin F
  BY <1>1, <1>2, <1>3
<1>7. total(V \ {x}) = f[b] + total((V \ {x}) \ {b})
  BY <1>5, <1>6, <1>2
<1>8. total(V \ {b}) = f[x] + total((V \ {b}) \ {x})
  BY <1>5, <1>6, <1>3
<1>9. (V \ {x}) \ {b} = (V \ {b}) \ {x}
  OBVIOUS
<1>10. total((V \ {x}) \ {b}) \in Nat /\ f[x] \in Nat /\ f[b] \in Nat
  <2>1. IsFiniteSet((V \ {x}) \ {b})
    BY <1>3, FS_Subset
  <2> QED BY <2>1, <1>2, <1>3, SumType
<1> HIDE DEF total, x, F
<1> QED BY <1>2, <1>4, <1>7, <1>8, <1>9, <1>10

\* What a function takes the members of a finite set to is finite.
LEMMA FiniteImage ==
  ASSUME NEW S, IsFiniteSet(S), NEW m
  PROVE  IsFiniteSet({m[x] : x \in S})
<1> DEFINE T == {m[x] : x \in S}
           h == [x \in S |-> m[x]]
<1>1. h \in Surjection(S, T)
  BY DEF Surjection
<1> HIDE DEF h, T
<1>2. IsFiniteSet(T)
  BY <1>1, FS_Surjection
<1> QED BY <1>2 DEF T

\* The terms may be named otherwise: m gives each its other name.
LEMMA SumRenamed ==
  ASSUME NEW S, IsFiniteSet(S), NEW f, NEW g, NEW m,
         \A x \in S : f[x] \in Nat /\ g[m[x]] = f[x],
         \A x, y \in S : m[x] = m[y] => x = y
  PROVE  SumFunctionOnSet(g, {m[x] : x \in S}) = SumFunctionOnSet(f, S)
<1> DEFINE named(V) == {m[x] : x \in V}
           F == {V \in SUBSET S : SumFunctionOnSet(g, named(V)) # SumFunctionOnSet(f, V)}
<1> SUFFICES ASSUME F # {} PROVE FALSE
  OBVIOUS
<1>0. F \in SUBSET (SUBSET S)
  OBVIOUS
<1>1. PICK V \in F : \A W \in F : ~(W \subseteq V /\ W # V)
  <2> HIDE DEF F
  <2> QED BY <1>0, SmallestSubset
<1>2. V \in SUBSET S /\ IsFiniteSet(V)
  BY <1>1, FS_Subset
<1>3. V # {}
  <2>1. named({}) = {}
    OBVIOUS
  <2> QED BY <2>1, <1>1, SumOfNone
<1>4. PICK x \in V : TRUE
  BY <1>3
<1>5. V \ {x} \in SUBSET S /\ V \ {x} \notin F
  BY <1>1, <1>4
<1>6. SumFunctionOnSet(f, V) = f[x] + SumFunctionOnSet(f, V \ {x})
  BY <1>2, <1>4, SumOfOneMore
<1>7. named(V) \ {m[x]} = named(V \ {x}) /\ m[x] \in named(V)
  BY <1>2, <1>4
<1>8. IsFiniteSet(named(V)) /\ \A y \in named(V) : g[y] \in Nat
  <2>1. IsFiniteSet(named(V))
    BY <1>2, FiniteImage
  <2> QED BY <2>1, <1>2
<1>9. SumFunctionOnSet(g, named(V)) = g[m[x]] + SumFunctionOnSet(g, named(V) \ {m[x]})
  BY <1>7, <1>8, SumOfOneMore
<1> QED BY <1>1, <1>2, <1>4, <1>5, <1>6, <1>7, <1>9

\* A sum is of its terms only.
LEMMA SumOfSameTerms ==
  ASSUME NEW S, IsFiniteSet(S), NEW f, NEW g,
         \A x \in S : f[x] \in Nat /\ g[x] = f[x]
  PROVE  SumFunctionOnSet(g, S) = SumFunctionOnSet(f, S)
<1> DEFINE m == [x \in S |-> x]
<1>1. {m[x] : x \in S} = S
  OBVIOUS
<1>2. \A x \in S : m[x] = x
  OBVIOUS
<1> HIDE DEF m
<1> QED BY <1>1, <1>2, SumRenamed

=============================================================================
