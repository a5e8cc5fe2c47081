----------------------------- MODULE SumProofs -----------------------------
(***************************************************************************)
(* What the proofs need of the sum of a function over a finite set, which  *)
(* the models use for cash, quantities and reservations.  The library      *)
(* defines it by a recursive function over the subsets of the set, taking  *)
(* out one element after the other in an unspecified order; here it is     *)
(* shown that such a function exists, that the order does not matter, and  *)
(* how a sum changes with its set and with its function.                   *)
(*                                                                         *)
(* Induction on the size of a set is done by taking a smallest set for     *)
(* which the fact would fail.                                              *)
(***************************************************************************)
EXTENDS Functions, FiniteSetTheorems, SequenceTheorems, NaturalsInduction, WellFoundedInduction, TLAPS

Chosen(s) == CHOOSE x \in s : TRUE

Rest(s) == s \ {Chosen(s)}

\* g gives the sum of f over every subset of S.
Summing(f, S, g) ==
  g = [s \in SUBSET S |-> IF s = {} THEN 0 ELSE f[Chosen(s)] + g[Rest(s)]]

SumsOf(f, S) == CHOOSE g : Summing(f, S, g)

-----------------------------------------------------------------------------
\* Sets of a smallest size

\* A property of some finite subset of D holds of one of the smallest size.
LEMMA SmallestSet ==
  ASSUME NEW D, NEW Bad, Bad \subseteq SUBSET D, Bad # {},
         \A S \in Bad : IsFiniteSet(S)
  PROVE  \E S \in Bad : \A T \in Bad : Cardinality(S) <= Cardinality(T)
<1> DEFINE sizes == {Cardinality(S) : S \in Bad}
<1>1. \A S \in Bad : Cardinality(S) \in Nat
  BY FS_CardinalityType
<1>2. sizes \subseteq Nat /\ sizes # {}
  BY <1>1
<1>3. IsWellFoundedOn(OpToRel(<, Nat), Nat)
  BY NatLessThanWellFounded
<1>4. \E n \in sizes : \A m \in sizes : ~(<<m, n>> \in OpToRel(<, Nat))
  <2> HIDE DEF sizes
  <2> QED BY <1>2, <1>3, WFMin
<1>5. PICK n \in sizes : \A m \in sizes : ~(m < n)
  BY <1>2, <1>4 DEF OpToRel
<1>6. PICK S \in Bad : n = Cardinality(S)
  BY <1>5
<1>7. \A T \in Bad : Cardinality(S) <= Cardinality(T)
  BY <1>1, <1>5, <1>6
<1> QED BY <1>7

LEMMA ChosenProperties ==
  ASSUME NEW S, S # {}, IsFiniteSet(S)
  PROVE  /\ Chosen(S) \in S
         /\ Rest(S) \subseteq S
         /\ IsFiniteSet(Rest(S))
         /\ Cardinality(Rest(S)) < Cardinality(S)
<1>1. Chosen(S) \in S
  BY DEF Chosen
<1>2. IsFiniteSet(Rest(S)) /\ Cardinality(Rest(S)) = Cardinality(S) - 1
  BY <1>1, FS_RemoveElement DEF Rest
<1>3. Cardinality(S) \in Nat
  BY FS_CardinalityType
<1> QED BY <1>1, <1>2, <1>3 DEF Rest

\* Induction: of the sets for which a fact fails, none of them empty, there is one
\* that is made so by any of its elements.
LEMMA SmallestFailure ==
  ASSUME NEW S, IsFiniteSet(S), NEW Bad, Bad \subseteq SUBSET S, Bad # {}, {} \notin Bad
  PROVE  \E V \in Bad :
           /\ V # {} /\ IsFiniteSet(V)
           /\ Chosen(V) \in V /\ IsFiniteSet(Rest(V))
           /\ Rest(V) \in SUBSET S /\ Rest(V) \notin Bad
           /\ \A e \in V : V \ {e} \notin Bad
<1>1. \A V \in SUBSET S : IsFiniteSet(V)
  BY FS_Subset
<1>2. PICK V \in Bad : \A W \in Bad : Cardinality(V) <= Cardinality(W)
  BY <1>1, SmallestSet
<1>3. V # {} /\ IsFiniteSet(V)
  BY <1>1
<1>4. ASSUME NEW e \in V
      PROVE  V \ {e} \notin Bad /\ IsFiniteSet(V \ {e})
  <2>1. /\ IsFiniteSet(V \ {e}) /\ Cardinality(V \ {e}) = Cardinality(V) - 1
        /\ Cardinality(V) \in Nat
    BY <1>3, FS_RemoveElement, FS_CardinalityType
  <2> QED BY <1>2, <2>1
<1>5. Chosen(V) \in V
  BY <1>3 DEF Chosen
<1> QED BY <1>3, <1>4, <1>5 DEF Rest

-----------------------------------------------------------------------------
\* The recursive function exists and is unique

LEMMA SumsAgree ==
  ASSUME NEW f, NEW S, NEW T, NEW g, NEW h, Summing(f, S, g), Summing(f, T, h),
         NEW U, U \subseteq S, U \subseteq T, IsFiniteSet(U)
  PROVE  g[U] = h[U]
<1> DEFINE Bad == {V \in SUBSET U : g[V] # h[V]}
<1> SUFFICES ASSUME Bad # {} PROVE FALSE
  OBVIOUS
<1>1. \A V \in SUBSET U : IsFiniteSet(V)
  BY FS_Subset
<1>2. PICK V \in Bad : \A W \in Bad : Cardinality(V) <= Cardinality(W)
  <2>1. Bad \subseteq SUBSET U /\ \A V \in Bad : IsFiniteSet(V)
    BY <1>1
  <2> HIDE DEF Bad
  <2> QED BY <2>1, SmallestSet
<1>3. /\ g[V] = IF V = {} THEN 0 ELSE f[Chosen(V)] + g[Rest(V)]
      /\ h[V] = IF V = {} THEN 0 ELSE f[Chosen(V)] + h[Rest(V)]
  <2>1. V \in SUBSET S /\ V \in SUBSET T
    OBVIOUS
  <2> QED BY <2>1 DEF Summing
<1>4. V # {}
  BY <1>3
<1>5. Rest(V) \subseteq U /\ Cardinality(Rest(V)) < Cardinality(V)
  BY <1>1, <1>4, ChosenProperties
<1>6. Rest(V) \notin Bad
  <2>1. IsFiniteSet(V) /\ IsFiniteSet(Rest(V))
    BY <1>1, <1>5
  <2>2. Cardinality(V) \in Nat /\ Cardinality(Rest(V)) \in Nat
    BY <2>1, FS_CardinalityType
  <2> QED BY <1>2, <1>5, <2>2
<1> QED BY <1>3, <1>4, <1>5, <1>6

LEMMA SumsExist ==
  ASSUME NEW f, NEW S, IsFiniteSet(S)
  PROVE  Summing(f, S, SumsOf(f, S))
<1> DEFINE Bad == {V \in SUBSET S : ~Summing(f, V, SumsOf(f, V))}
<1> SUFFICES ASSUME Bad # {} PROVE FALSE
  OBVIOUS
<1>1. \A V \in SUBSET S : IsFiniteSet(V)
  BY FS_Subset
<1>2. PICK V \in Bad : \A W \in Bad : Cardinality(V) <= Cardinality(W)
  <2>1. Bad \subseteq SUBSET S /\ \A V \in Bad : IsFiniteSet(V)
    BY <1>1
  <2> HIDE DEF Bad
  <2> QED BY <2>1, SmallestSet
<1> DEFINE g == [s \in SUBSET V |->
                   IF s = {} THEN 0 ELSE f[Chosen(s)] + SumsOf(f, Rest(s))[Rest(s)]]
<1>3. ASSUME NEW s \in SUBSET V, s # {}
      PROVE  /\ Rest(s) \in SUBSET V
             /\ Summing(f, Rest(s), SumsOf(f, Rest(s)))
             /\ IsFiniteSet(Rest(s))
  <2>1. IsFiniteSet(s) /\ IsFiniteSet(V)
    BY <1>1
  <2>2. /\ Rest(s) \subseteq s /\ IsFiniteSet(Rest(s))
        /\ Cardinality(Rest(s)) < Cardinality(s)
    BY <1>3, <2>1, ChosenProperties
  <2>3. Cardinality(s) <= Cardinality(V)
    BY <2>1, FS_Subset
  <2>4. Cardinality(V) \in Nat /\ Cardinality(s) \in Nat /\ Cardinality(Rest(s)) \in Nat
    BY <2>1, <2>2, FS_CardinalityType
  <2>5. Rest(s) \notin Bad
    BY <1>2, <2>2, <2>3, <2>4
  <2> QED BY <2>2, <2>5
<1>4. ASSUME NEW s \in SUBSET V
      PROVE  g[s] = IF s = {} THEN 0 ELSE f[Chosen(s)] + g[Rest(s)]
  <2>1. CASE s = {}
    BY <2>1
  <2>2. CASE s # {}
    <3> DEFINE r == Rest(s)
    <3>1. r \in SUBSET V /\ Summing(f, r, SumsOf(f, r)) /\ IsFiniteSet(r)
      BY <1>3, <2>2
    <3>2. g[s] = f[Chosen(s)] + SumsOf(f, r)[r]
      BY <2>2
    <3>3. g[r] = IF r = {} THEN 0 ELSE f[Chosen(r)] + SumsOf(f, Rest(r))[Rest(r)]
      BY <3>1
    <3> HIDE DEF g, r
    <3>4. SumsOf(f, r)[r] = IF r = {} THEN 0 ELSE f[Chosen(r)] + SumsOf(f, r)[Rest(r)]
      <4>1. r \in SUBSET r
        OBVIOUS
      <4> QED BY <3>1, <4>1 DEF Summing
    <3>5. r # {} => SumsOf(f, r)[Rest(r)] = SumsOf(f, Rest(r))[Rest(r)]
      <4> SUFFICES ASSUME r # {}
                   PROVE  SumsOf(f, r)[Rest(r)] = SumsOf(f, Rest(r))[Rest(r)]
        OBVIOUS
      <4>1. /\ Summing(f, Rest(r), SumsOf(f, Rest(r)))
            /\ IsFiniteSet(Rest(r))
        BY <1>3, <3>1
      <4>2. Rest(r) \subseteq r
        BY DEF Rest
      <4> QED BY <3>1, <4>1, <4>2, SumsAgree
    <3> QED BY <2>2, <3>2, <3>3, <3>4, <3>5 DEF r
  <2> QED BY <2>1, <2>2
<1>5. Summing(f, V, g)
  <2>1. g = [s \in SUBSET V |-> g[s]]
    OBVIOUS
  <2> HIDE DEF g
  <2>2. g = [s \in SUBSET V |-> IF s = {} THEN 0 ELSE f[Chosen(s)] + g[Rest(s)]]
    BY <1>4, <2>1
  <2> QED BY <2>2 DEF Summing
<1>6. Summing(f, V, SumsOf(f, V))
  BY <1>5 DEF SumsOf
<1> QED BY <1>2, <1>6

-----------------------------------------------------------------------------
\* The sum as the library defines it, one element at a time

LEMMA SumUnfolds ==
  ASSUME NEW f, NEW S
  PROVE  SumFunctionOnSet(f, S) = SumsOf(f, S)[S]
BY DEF SumFunctionOnSet, FoldFunctionOnSet, MapThenFoldSet, SumsOf, Summing, Rest, Chosen

LEMMA SumRecursive ==
  ASSUME NEW f, NEW S, IsFiniteSet(S)
  PROVE  SumFunctionOnSet(f, S) =
           IF S = {} THEN 0 ELSE f[Chosen(S)] + SumFunctionOnSet(f, Rest(S))
<1>1. SumsOf(f, S)[S] = IF S = {} THEN 0 ELSE f[Chosen(S)] + SumsOf(f, S)[Rest(S)]
  <2> DEFINE g == SumsOf(f, S)
  <2>1. S \in SUBSET S /\ Summing(f, S, g)
    BY SumsExist
  <2> HIDE DEF g
  <2>2. g[S] = IF S = {} THEN 0 ELSE f[Chosen(S)] + g[Rest(S)]
    BY <2>1 DEF Summing
  <2> QED BY <2>2 DEF g
<1>2. S # {} => SumsOf(f, S)[Rest(S)] = SumsOf(f, Rest(S))[Rest(S)]
  <2> SUFFICES ASSUME S # {} PROVE SumsOf(f, S)[Rest(S)] = SumsOf(f, Rest(S))[Rest(S)]
    OBVIOUS
  <2>1. Rest(S) \subseteq S /\ IsFiniteSet(Rest(S))
    BY ChosenProperties
  <2>2. Summing(f, S, SumsOf(f, S)) /\ Summing(f, Rest(S), SumsOf(f, Rest(S)))
    BY <2>1, SumsExist
  <2> DEFINE r == Rest(S)
             g == SumsOf(f, S)
             h == SumsOf(f, Rest(S))
  <2> HIDE DEF r, g, h
  <2>3. g[r] = h[r]
    BY <2>1, <2>2, SumsAgree DEF r, g, h
  <2> QED BY <2>3 DEF r, g, h
<1> QED BY <1>1, <1>2, SumUnfolds, ChosenProperties

-----------------------------------------------------------------------------
\* Sums of integers

\* Nothing sums to 0.
LEMMA SumOfNothing == ASSUME NEW f PROVE SumFunctionOnSet(f, {}) = 0
BY SumRecursive, FS_EmptySet

LEMMA SumType ==
  ASSUME NEW f, NEW S, IsFiniteSet(S), \A x \in S : f[x] \in Int
  PROVE  SumFunctionOnSet(f, S) \in Int
<1> DEFINE Bad == {V \in SUBSET S : SumFunctionOnSet(f, V) \notin Int}
<1> SUFFICES ASSUME Bad # {} PROVE FALSE
  OBVIOUS
<1>2. {} \notin Bad
  BY SumOfNothing
<1>3. PICK V \in Bad : /\ V # {} /\ IsFiniteSet(V)
                      /\ Chosen(V) \in V /\ IsFiniteSet(Rest(V))
                      /\ Rest(V) \in SUBSET S /\ Rest(V) \notin Bad
  <2> HIDE DEF Bad
  <2>1. Bad \subseteq SUBSET S
    BY DEF Bad
  <2> QED BY <1>2, <2>1, SmallestFailure
<1>4. SumFunctionOnSet(f, V) = f[Chosen(V)] + SumFunctionOnSet(f, Rest(V))
  BY <1>3, SumRecursive
<1>5. f[Chosen(V)] \in Int /\ SumFunctionOnSet(f, Rest(V)) \in Int
  BY <1>3
<1> QED BY <1>4, <1>5

\* The order does not matter: any element can be taken out first.
LEMMA SumRemove ==
  ASSUME NEW f, NEW S, IsFiniteSet(S), \A x \in S : f[x] \in Int, NEW e \in S
  PROVE  SumFunctionOnSet(f, S) = f[e] + SumFunctionOnSet(f, S \ {e})
<1> DEFINE Wrong(V) == \E x \in V :
             SumFunctionOnSet(f, V) # f[x] + SumFunctionOnSet(f, V \ {x})
           Bad == {V \in SUBSET S : Wrong(V)}
<1> SUFFICES ASSUME Bad # {} PROVE FALSE
  OBVIOUS
<1>1. PICK V \in Bad : /\ V # {} /\ IsFiniteSet(V)
                      /\ Chosen(V) \in V
                      /\ \A y \in V : V \ {y} \notin Bad
  <2>1. Bad \subseteq SUBSET S /\ {} \notin Bad
    OBVIOUS
  <2> HIDE DEF Bad
  <2>2. \E V \in Bad :
          /\ V # {} /\ IsFiniteSet(V)
          /\ Chosen(V) \in V /\ IsFiniteSet(Rest(V))
          /\ Rest(V) \in SUBSET S /\ Rest(V) \notin Bad
          /\ \A y \in V : V \ {y} \notin Bad
    BY <2>1, SmallestFailure
  <2> QED BY <2>2
<1>2. PICK x \in V : SumFunctionOnSet(f, V) # f[x] + SumFunctionOnSet(f, V \ {x})
  OBVIOUS
<1> DEFINE c == Chosen(V)
           W == (V \ {c}) \ {x}
<1>3. c \in V /\ f[x] \in Int /\ f[c] \in Int
  BY <1>1
<1>4. SumFunctionOnSet(f, V) = f[c] + SumFunctionOnSet(f, V \ {c})
  BY <1>1, SumRecursive DEF Rest
<1>5. x # c
  BY <1>2, <1>4
<1>6. \A y \in V : ~Wrong(V \ {y})
  BY <1>1
<1>7. SumFunctionOnSet(f, V \ {c}) = f[x] + SumFunctionOnSet(f, W)
  BY <1>3, <1>5, <1>6
<1>8. SumFunctionOnSet(f, V \ {x}) = f[c] + SumFunctionOnSet(f, W)
  <2>1. (V \ {x}) \ {c} = W
    OBVIOUS
  <2>2. SumFunctionOnSet(f, V \ {x}) = f[c] + SumFunctionOnSet(f, (V \ {x}) \ {c})
    BY <1>3, <1>5, <1>6
  <2> QED BY <2>1, <2>2
<1>9. SumFunctionOnSet(f, W) \in Int
  <2>1. W \in SUBSET S
    OBVIOUS
  <2>2. IsFiniteSet(W) /\ \A y \in W : f[y] \in Int
    BY <2>1, FS_Subset
  <2> HIDE DEF W
  <2> QED BY <2>2, SumType
<1> HIDE DEF c, W
<1> QED BY <1>2, <1>3, <1>4, <1>7, <1>8, <1>9

\* One more element.
LEMMA SumInsert ==
  ASSUME NEW f, NEW S, IsFiniteSet(S), NEW e, e \notin S, \A x \in S \cup {e} : f[x] \in Int
  PROVE  SumFunctionOnSet(f, S \cup {e}) = f[e] + SumFunctionOnSet(f, S)
<1>1. IsFiniteSet(S \cup {e})
  BY FS_AddElement
<1>2. (S \cup {e}) \ {e} = S /\ e \in S \cup {e}
  OBVIOUS
<1> QED BY <1>1, <1>2, SumRemove

\* The sum depends on nothing but the values on the set.
LEMMA SumSame ==
  ASSUME NEW f, NEW g, NEW S, IsFiniteSet(S), \A x \in S : f[x] = g[x]
  PROVE  SumFunctionOnSet(f, S) = SumFunctionOnSet(g, S)
<1> DEFINE Bad == {V \in SUBSET S : SumFunctionOnSet(f, V) # SumFunctionOnSet(g, V)}
<1> SUFFICES ASSUME Bad # {} PROVE FALSE
  OBVIOUS
<1>2. {} \notin Bad
  BY SumOfNothing
<1>3. PICK V \in Bad : /\ V # {} /\ IsFiniteSet(V)
                      /\ Chosen(V) \in V /\ IsFiniteSet(Rest(V))
                      /\ Rest(V) \in SUBSET S /\ Rest(V) \notin Bad
  <2> HIDE DEF Bad
  <2>1. Bad \subseteq SUBSET S
    BY DEF Bad
  <2> QED BY <1>2, <2>1, SmallestFailure
<1>4. /\ SumFunctionOnSet(f, V) = f[Chosen(V)] + SumFunctionOnSet(f, Rest(V))
      /\ SumFunctionOnSet(g, V) = g[Chosen(V)] + SumFunctionOnSet(g, Rest(V))
  BY <1>3, SumRecursive
<1>5. f[Chosen(V)] = g[Chosen(V)] /\ SumFunctionOnSet(f, Rest(V)) = SumFunctionOnSet(g, Rest(V))
  BY <1>3
<1>6. SumFunctionOnSet(f, V) = SumFunctionOnSet(g, V)
  BY <1>4, <1>5
<1> QED BY <1>6

\* A smaller function has a smaller sum.
LEMMA SumMonotone ==
  ASSUME NEW f, NEW g, NEW S, IsFiniteSet(S),
         \A x \in S : f[x] \in Int /\ g[x] \in Int /\ f[x] <= g[x]
  PROVE  SumFunctionOnSet(f, S) <= SumFunctionOnSet(g, S)
<1> DEFINE Bad == {V \in SUBSET S : ~(SumFunctionOnSet(f, V) <= SumFunctionOnSet(g, V))}
<1> SUFFICES ASSUME Bad # {} PROVE FALSE
  OBVIOUS
<1>2. {} \notin Bad
  BY SumOfNothing
<1>3. PICK V \in Bad : /\ V # {} /\ IsFiniteSet(V)
                      /\ Chosen(V) \in V /\ IsFiniteSet(Rest(V))
                      /\ Rest(V) \in SUBSET S /\ Rest(V) \notin Bad
  <2> HIDE DEF Bad
  <2>1. Bad \subseteq SUBSET S
    BY DEF Bad
  <2> QED BY <1>2, <2>1, SmallestFailure
<1>4. /\ SumFunctionOnSet(f, V) = f[Chosen(V)] + SumFunctionOnSet(f, Rest(V))
      /\ SumFunctionOnSet(g, V) = g[Chosen(V)] + SumFunctionOnSet(g, Rest(V))
  BY <1>3, SumRecursive
<1>5. /\ f[Chosen(V)] <= g[Chosen(V)] /\ f[Chosen(V)] \in Int /\ g[Chosen(V)] \in Int
      /\ SumFunctionOnSet(f, Rest(V)) <= SumFunctionOnSet(g, Rest(V))
  BY <1>3
<1>6. SumFunctionOnSet(f, Rest(V)) \in Int /\ SumFunctionOnSet(g, Rest(V)) \in Int
  BY <1>3, SumType
<1>7. SumFunctionOnSet(f, V) <= SumFunctionOnSet(g, V)
  BY <1>4, <1>5, <1>6
<1> QED BY <1>7

\* Sums of functions that are 0, or not negative.
LEMMA SumOfZeros ==
  ASSUME NEW f, NEW S, IsFiniteSet(S), \A x \in S : f[x] = 0
  PROVE  SumFunctionOnSet(f, S) = 0
<1> DEFINE Bad == {V \in SUBSET S : SumFunctionOnSet(f, V) # 0}
<1> SUFFICES ASSUME Bad # {} PROVE FALSE
  OBVIOUS
<1>2. {} \notin Bad
  BY SumOfNothing
<1>3. PICK V \in Bad : /\ V # {} /\ IsFiniteSet(V)
                      /\ Chosen(V) \in V /\ IsFiniteSet(Rest(V))
                      /\ Rest(V) \in SUBSET S /\ Rest(V) \notin Bad
  <2> HIDE DEF Bad
  <2>1. Bad \subseteq SUBSET S
    BY DEF Bad
  <2> QED BY <1>2, <2>1, SmallestFailure
<1>4. SumFunctionOnSet(f, V) = f[Chosen(V)] + SumFunctionOnSet(f, Rest(V))
  BY <1>3, SumRecursive
<1>5. f[Chosen(V)] = 0 /\ SumFunctionOnSet(f, Rest(V)) = 0
  BY <1>3
<1> QED BY <1>4, <1>5

LEMMA SumNatural ==
  ASSUME NEW f, NEW S, IsFiniteSet(S), \A x \in S : f[x] \in Nat
  PROVE  SumFunctionOnSet(f, S) \in Nat
<1> DEFINE Bad == {V \in SUBSET S : SumFunctionOnSet(f, V) \notin Nat}
<1> SUFFICES ASSUME Bad # {} PROVE FALSE
  OBVIOUS
<1>2. {} \notin Bad
  BY SumOfNothing
<1>3. PICK V \in Bad : /\ V # {} /\ IsFiniteSet(V)
                      /\ Chosen(V) \in V /\ IsFiniteSet(Rest(V))
                      /\ Rest(V) \in SUBSET S /\ Rest(V) \notin Bad
  <2> HIDE DEF Bad
  <2>1. Bad \subseteq SUBSET S
    BY DEF Bad
  <2> QED BY <1>2, <2>1, SmallestFailure
<1>4. SumFunctionOnSet(f, V) = f[Chosen(V)] + SumFunctionOnSet(f, Rest(V))
  BY <1>3, SumRecursive
<1>5. f[Chosen(V)] \in Nat /\ SumFunctionOnSet(f, Rest(V)) \in Nat
  BY <1>3
<1> QED BY <1>4, <1>5

\* The sum over a part of a set is no more than the sum over the set.
LEMMA SumOfPart ==
  ASSUME NEW f, NEW S, NEW T, IsFiniteSet(S), IsFiniteSet(T), S \subseteq T,
         \A x \in T : f[x] \in Nat
  PROVE  SumFunctionOnSet(f, S) <= SumFunctionOnSet(f, T)
<1> DEFINE With(V) == S \cup V
           Bad == {V \in SUBSET T : ~(SumFunctionOnSet(f, S) <= SumFunctionOnSet(f, With(V)))}
<1> SUFFICES T \notin Bad
  BY S \cup T = T
<1> SUFFICES ASSUME Bad # {} PROVE FALSE
  OBVIOUS
<1>1. SumFunctionOnSet(f, S) \in Nat
  BY SumNatural
<1>2. {} \notin Bad
  <2>1. With({}) = S
    OBVIOUS
  <2> QED BY <1>1, <2>1
<1>3. PICK V \in Bad : /\ V # {} /\ IsFiniteSet(V)
                      /\ Chosen(V) \in V /\ IsFiniteSet(Rest(V))
                      /\ Rest(V) \in SUBSET T /\ Rest(V) \notin Bad
  <2> HIDE DEF Bad
  <2>1. Bad \subseteq SUBSET T
    BY DEF Bad
  <2> QED BY <1>2, <2>1, SmallestFailure
<1> DEFINE U == With(Rest(V))
<1>4. SumFunctionOnSet(f, S) <= SumFunctionOnSet(f, U)
  BY <1>3
<1>5. IsFiniteSet(U) /\ U \subseteq T
  BY <1>3, FS_Union
<1>6. SumFunctionOnSet(f, U) \in Nat
  <2> HIDE DEF U
  <2> QED BY <1>5, SumNatural
<1>7. With(V) = U \cup {Chosen(V)} /\ f[Chosen(V)] \in Nat
  BY <1>3 DEF Rest
<1>8. CASE Chosen(V) \in U
  <2>1. With(V) = U
    BY <1>7, <1>8
  <2> QED BY <1>3, <1>4, <2>1
<1>9. CASE Chosen(V) \notin U
  <2> PICK e \in T : e = Chosen(V)
    BY <1>3
  <2> HIDE DEF U
  <2>1. \A x \in U \cup {e} : f[x] \in Int
    BY <1>5
  <2>2. SumFunctionOnSet(f, U \cup {e}) = f[e] + SumFunctionOnSet(f, U)
    BY <1>5, <1>9, <2>1, SumInsert
  <2>3. SumFunctionOnSet(f, S) <= SumFunctionOnSet(f, With(V))
    BY <1>1, <1>4, <1>6, <1>7, <2>2
  <2> QED BY <1>3, <2>3
<1> QED BY <1>8, <1>9

\* Changing one value changes the sum by as much.
LEMMA SumUpdate ==
  ASSUME NEW f, NEW g, NEW S, IsFiniteSet(S), NEW e \in S,
         \A x \in S : f[x] \in Int /\ g[x] \in Int /\ (x # e => f[x] = g[x])
  PROVE  SumFunctionOnSet(g, S) = SumFunctionOnSet(f, S) - f[e] + g[e]
<1> DEFINE R == S \ {e}
<1>1. IsFiniteSet(R) /\ \A x \in R : f[x] \in Int /\ f[x] = g[x]
  BY FS_RemoveElement
<1>2. /\ SumFunctionOnSet(f, S) = f[e] + SumFunctionOnSet(f, R)
      /\ SumFunctionOnSet(g, S) = g[e] + SumFunctionOnSet(g, R)
  BY SumRemove
<1> HIDE DEF R
<1>3. SumFunctionOnSet(f, R) = SumFunctionOnSet(g, R) /\ SumFunctionOnSet(f, R) \in Int
  BY <1>1, SumSame, SumType
<1> QED BY <1>2, <1>3

\* The sum of a function that is 0 everywhere but at one element.
LEMMA SumAtOne ==
  ASSUME NEW f, NEW S, IsFiniteSet(S), NEW e \in S, f[e] \in Int,
         \A x \in S : x # e => f[x] = 0
  PROVE  SumFunctionOnSet(f, S) = f[e]
<1> DEFINE R == S \ {e}
<1>1. IsFiniteSet(R) /\ \A x \in R : f[x] = 0
  BY FS_RemoveElement
<1>2. SumFunctionOnSet(f, S) = f[e] + SumFunctionOnSet(f, R)
  BY SumRemove
<1> HIDE DEF R
<1>3. SumFunctionOnSet(f, R) = 0
  BY <1>1, SumOfZeros
<1> QED BY <1>2, <1>3

\* Sums add up.
LEMMA SumOfSums ==
  ASSUME NEW f, NEW g, NEW h, NEW S, IsFiniteSet(S),
         \A x \in S : f[x] \in Int /\ g[x] \in Int /\ h[x] = f[x] + g[x]
  PROVE  SumFunctionOnSet(h, S) = SumFunctionOnSet(f, S) + SumFunctionOnSet(g, S)
<1> DEFINE Bad == {V \in SUBSET S :
                     SumFunctionOnSet(h, V) # SumFunctionOnSet(f, V) + SumFunctionOnSet(g, V)}
<1> SUFFICES ASSUME Bad # {} PROVE FALSE
  OBVIOUS
<1>2. {} \notin Bad
  <2>1. \A k : SumFunctionOnSet(k, {}) = 0
    BY SumOfNothing
  <2> QED BY <2>1
<1>3. PICK V \in Bad : /\ V # {} /\ IsFiniteSet(V)
                      /\ Chosen(V) \in V /\ IsFiniteSet(Rest(V))
                      /\ Rest(V) \in SUBSET S /\ Rest(V) \notin Bad
  <2> HIDE DEF Bad
  <2>1. Bad \subseteq SUBSET S
    BY DEF Bad
  <2> QED BY <1>2, <2>1, SmallestFailure
<1>4. /\ SumFunctionOnSet(f, V) = f[Chosen(V)] + SumFunctionOnSet(f, Rest(V))
      /\ SumFunctionOnSet(g, V) = g[Chosen(V)] + SumFunctionOnSet(g, Rest(V))
      /\ SumFunctionOnSet(h, V) = h[Chosen(V)] + SumFunctionOnSet(h, Rest(V))
  BY <1>3, SumRecursive
<1>5. /\ h[Chosen(V)] = f[Chosen(V)] + g[Chosen(V)]
      /\ f[Chosen(V)] \in Int /\ g[Chosen(V)] \in Int
      /\ SumFunctionOnSet(h, Rest(V)) =
           SumFunctionOnSet(f, Rest(V)) + SumFunctionOnSet(g, Rest(V))
  BY <1>3
<1>6. SumFunctionOnSet(f, Rest(V)) \in Int /\ SumFunctionOnSet(g, Rest(V)) \in Int
  BY <1>3, SumType
<1>7. SumFunctionOnSet(h, V) = SumFunctionOnSet(f, V) + SumFunctionOnSet(g, V)
  BY <1>4, <1>5, <1>6
<1> QED BY <1>7

\* A sum over two parts.
LEMMA SumUnion ==
  ASSUME NEW f, NEW S, NEW T, IsFiniteSet(S), IsFiniteSet(T), S \cap T = {},
         \A x \in S \cup T : f[x] \in Int
  PROVE  SumFunctionOnSet(f, S \cup T) = SumFunctionOnSet(f, S) + SumFunctionOnSet(f, T)
<1> DEFINE With(V) == S \cup V
           Bad == {V \in SUBSET T : SumFunctionOnSet(f, With(V))
                                      # SumFunctionOnSet(f, S) + SumFunctionOnSet(f, V)}
<1> SUFFICES T \notin Bad
  OBVIOUS
<1> SUFFICES ASSUME Bad # {} PROVE FALSE
  OBVIOUS
<1>1. SumFunctionOnSet(f, S) \in Int
  BY SumType
<1>2. {} \notin Bad
  <2>1. With({}) = S
    OBVIOUS
  <2> QED BY <1>1, <2>1, SumOfNothing
<1>3. PICK V \in Bad : /\ V # {} /\ IsFiniteSet(V)
                      /\ Chosen(V) \in V /\ IsFiniteSet(Rest(V))
                      /\ Rest(V) \in SUBSET T /\ Rest(V) \notin Bad
  <2> HIDE DEF Bad
  <2>1. Bad \subseteq SUBSET T
    BY DEF Bad
  <2> QED BY <1>2, <2>1, SmallestFailure
<1> DEFINE U == With(Rest(V))
<1>4. SumFunctionOnSet(f, U) = SumFunctionOnSet(f, S) + SumFunctionOnSet(f, Rest(V))
  BY <1>3
<1> PICK e \in T : e = Chosen(V)
  BY <1>3
<1>5. IsFiniteSet(U) /\ e \notin U /\ With(V) = U \cup {e}
  BY <1>3, FS_Union DEF Rest
<1>6. \A x \in U \cup {e} : f[x] \in Int
  BY <1>3
<1>7. SumFunctionOnSet(f, U \cup {e}) = f[e] + SumFunctionOnSet(f, U)
  <2> HIDE DEF U
  <2> QED BY <1>5, <1>6, SumInsert
<1>8. SumFunctionOnSet(f, V) = f[e] + SumFunctionOnSet(f, Rest(V))
  BY <1>3, SumRecursive
<1>9. SumFunctionOnSet(f, Rest(V)) \in Int /\ f[e] \in Int
  <2>1. \A x \in Rest(V) : f[x] \in Int
    BY <1>3
  <2> QED BY <1>3, <2>1, SumType
<1>10. SumFunctionOnSet(f, With(V)) = SumFunctionOnSet(f, S) + SumFunctionOnSet(f, V)
  <2>1. SumFunctionOnSet(f, With(V)) = SumFunctionOnSet(f, U \cup {e})
    BY <1>5
  <2> HIDE DEF U, With
  <2> QED BY <1>1, <1>4, <1>7, <1>8, <1>9, <2>1
<1> QED BY <1>3, <1>10

\* The places at which a function is 0 do not count.
LEMMA SumOfSupport ==
  ASSUME NEW f, NEW S, NEW T, IsFiniteSet(T), S \subseteq T, \A x \in T : f[x] \in Int,
         \A x \in T \ S : f[x] = 0
  PROVE  SumFunctionOnSet(f, T) = SumFunctionOnSet(f, S)
<1> DEFINE R == T \ S
<1>1. IsFiniteSet(S) /\ IsFiniteSet(R) /\ S \cap R = {} /\ T = S \cup R
  BY FS_Subset, FS_Difference
<1>2. \A x \in R : f[x] = 0
  OBVIOUS
<1> HIDE DEF R
<1>3. SumFunctionOnSet(f, T) = SumFunctionOnSet(f, S) + SumFunctionOnSet(f, R)
  BY <1>1, SumUnion
<1>4. SumFunctionOnSet(f, R) = 0
  BY <1>1, <1>2, SumOfZeros
<1>5. SumFunctionOnSet(f, S) \in Int
  BY <1>1, SumType
<1> QED BY <1>3, <1>4, <1>5

\* A sum does not depend on how its terms are named.
LEMMA SumRenamed ==
  ASSUME NEW f, NEW g, NEW S, NEW T, IsFiniteSet(S), NEW h \in [S -> T],
         \A x, y \in S : h[x] = h[y] => x = y,
         \A y \in T : \E x \in S : h[x] = y,
         \A x \in S : g[x] \in Int /\ f[h[x]] = g[x]
  PROVE  SumFunctionOnSet(f, T) = SumFunctionOnSet(g, S)
<1> DEFINE Image(V) == {h[x] : x \in V}
           Bad == {V \in SUBSET S :
                     SumFunctionOnSet(f, Image(V)) # SumFunctionOnSet(g, V)}
<1> SUFFICES S \notin Bad
  <2>1. Image(S) = T
    OBVIOUS
  <2> QED BY <2>1
<1> SUFFICES ASSUME Bad # {} PROVE FALSE
  OBVIOUS
<1>1. {} \notin Bad
  <2>1. Image({}) = {}
    OBVIOUS
  <2>2. \A k : SumFunctionOnSet(k, {}) = 0
    BY SumOfNothing
  <2> QED BY <2>1, <2>2
<1>2. PICK V \in Bad : /\ V # {} /\ IsFiniteSet(V)
                      /\ Chosen(V) \in V /\ IsFiniteSet(Rest(V))
                      /\ Rest(V) \in SUBSET S /\ Rest(V) \notin Bad
  <2> HIDE DEF Bad
  <2>1. Bad \subseteq SUBSET S
    BY DEF Bad
  <2> QED BY <1>1, <2>1, SmallestFailure
<1> DEFINE U == Image(Rest(V))
<1>3. SumFunctionOnSet(f, U) = SumFunctionOnSet(g, Rest(V))
  BY <1>2
<1> PICK x \in S : x = Chosen(V)
  BY <1>2
<1>4. IsFiniteSet(U)
  <2> DEFINE k == [y \in Rest(V) |-> h[y]]
  <2>1. k \in Surjection(Rest(V), U)
    BY DEF Surjection
  <2> HIDE DEF U, k
  <2> QED BY <1>2, <2>1, FS_Surjection
<1>5. h[x] \notin U /\ Image(V) = U \cup {h[x]}
  BY <1>2 DEF Rest
<1>6. \A y \in U \cup {h[x]} : f[y] \in Int
  BY <1>2
<1>7. SumFunctionOnSet(f, U \cup {h[x]}) = f[h[x]] + SumFunctionOnSet(f, U)
  <2> HIDE DEF U
  <2> QED BY <1>4, <1>5, <1>6, SumInsert
<1>8. SumFunctionOnSet(g, V) = g[x] + SumFunctionOnSet(g, Rest(V))
  BY <1>2, SumRecursive
<1>9. SumFunctionOnSet(f, Image(V)) = SumFunctionOnSet(g, V)
  <2> HIDE DEF U
  <2> QED BY <1>3, <1>5, <1>7, <1>8
<1> QED BY <1>2, <1>9

-----------------------------------------------------------------------------
\* Sums of sequences

\* The sum of a sequence of numbers.
LEMMA SumIs ==
  ASSUME NEW f PROVE SumFunction(f) = SumFunctionOnSet(f, DOMAIN f)
BY DEF SumFunction

\* A set is as large as the sum of its elements, each worth 1.
LEMMA SumOfOnes ==
  ASSUME NEW f, NEW S, IsFiniteSet(S), \A x \in S : f[x] = 1
  PROVE  SumFunctionOnSet(f, S) = Cardinality(S)
<1> DEFINE Bad == {V \in SUBSET S : SumFunctionOnSet(f, V) # Cardinality(V)}
<1> SUFFICES ASSUME Bad # {} PROVE FALSE
  OBVIOUS
<1>2. {} \notin Bad
  BY SumOfNothing, FS_EmptySet
<1>3. PICK V \in Bad : /\ V # {} /\ IsFiniteSet(V)
                      /\ Chosen(V) \in V /\ IsFiniteSet(Rest(V))
                      /\ Rest(V) \in SUBSET S /\ Rest(V) \notin Bad
  <2> HIDE DEF Bad
  <2>1. Bad \subseteq SUBSET S
    BY DEF Bad
  <2> QED BY <1>2, <2>1, SmallestFailure
<1>4. SumFunctionOnSet(f, V) = f[Chosen(V)] + SumFunctionOnSet(f, Rest(V))
  BY <1>3, SumRecursive
<1>5. f[Chosen(V)] = 1 /\ SumFunctionOnSet(f, Rest(V)) = Cardinality(Rest(V))
  BY <1>3
<1>6. Cardinality(Rest(V)) = Cardinality(V) - 1 /\ Cardinality(V) \in Nat
  BY <1>3, FS_RemoveElement, FS_CardinalityType DEF Rest
<1> QED BY <1>3, <1>4, <1>5, <1>6

\* The sum of what the elements of a sequence are worth.
SumOver(v, q) == SumFunction([i \in DOMAIN q |-> v[q[i]]])

LEMMA SumOverIs ==
  ASSUME NEW E, NEW v \in [E -> Int], NEW q \in Seq(E)
  PROVE  /\ SumOver(v, q) = SumFunctionOnSet([i \in 1 .. Len(q) |-> v[q[i]]], 1 .. Len(q))
         /\ SumOver(v, q) \in Int
<1> DEFINE n == Len(q)
           f == [i \in 1 .. n |-> v[q[i]]]
<1>1. DOMAIN q = 1 .. n /\ n \in Nat
  OBVIOUS
<1>2. SumOver(v, q) = SumFunction(f) /\ DOMAIN f = 1 .. n
  BY <1>1 DEF SumOver
<1>3. \A i \in 1 .. n : f[i] \in Int
  <2> SUFFICES ASSUME NEW i \in 1 .. n PROVE v[q[i]] \in Int
    OBVIOUS
  <2>1. q[i] \in E
    OBVIOUS
  <2> QED BY <2>1
<1>4. IsFiniteSet(1 .. n)
  BY <1>1, FS_Interval
<1> HIDE DEF f, n
<1>5. SumOver(v, q) = SumFunctionOnSet(f, 1 .. n)
  BY <1>2, SumIs
<1>6. SumFunctionOnSet(f, 1 .. n) \in Int
  BY <1>3, <1>4, SumType
<1> QED BY <1>5, <1>6 DEF f, n

LEMMA SumOverNone ==
  ASSUME NEW v PROVE SumOver(v, <<>>) = 0
<1> DEFINE f == [i \in DOMAIN <<>> |-> v[<<>>[i]]]
<1>1. DOMAIN f = {}
  OBVIOUS
<1>2. SumOver(v, <<>>) = SumFunction(f)
  BY DEF SumOver
<1> HIDE DEF f
<1> QED BY <1>1, <1>2, SumIs, SumOfNothing

LEMMA SumOverOne ==
  ASSUME NEW E, NEW v \in [E -> Int], NEW e \in E
  PROVE  SumOver(v, <<e>>) = v[e]
<1> DEFINE q == <<e>>
           f == [i \in 1 .. Len(q) |-> v[q[i]]]
<1>1. q \in Seq(E) /\ Len(q) = 1 /\ q[1] = e
  OBVIOUS
<1>2. f[1] = v[e] /\ v[e] \in Int /\ 1 .. Len(q) = {1}
  BY <1>1
<1>3. SumOver(v, q) = SumFunctionOnSet(f, 1 .. Len(q))
  BY <1>1, SumOverIs
<1>4. IsFiniteSet({1})
  BY FS_Singleton
<1> HIDE DEF f, q
<1>5. SumFunctionOnSet(f, {1}) = f[1]
  BY <1>2, <1>4, SumAtOne
<1> QED BY <1>2, <1>3, <1>5 DEF q

LEMMA SumOverBoth ==
  ASSUME NEW E, NEW v \in [E -> Int], NEW p \in Seq(E), NEW q \in Seq(E)
  PROVE  SumOver(v, p \o q) = SumOver(v, p) + SumOver(v, q)
<1> DEFINE n == Len(p)
           m == Len(q)
           r == p \o q
           S == 1 .. n
           T == n + 1 .. n + m
           f == [i \in 1 .. Len(r) |-> v[r[i]]]
           g == [i \in S |-> v[p[i]]]
           h == [i \in 1 .. m |-> v[q[i]]]
           k == [i \in 1 .. m |-> n + i]
<1>1. /\ n \in Nat /\ m \in Nat /\ r \in Seq(E) /\ Len(r) = n + m
      /\ \A i \in S : r[i] = p[i]
      /\ \A i \in 1 .. m : r[n + i] = q[i]
  OBVIOUS
<1>2. 1 .. Len(r) = S \cup T /\ S \cap T = {}
  BY <1>1
<1>3. IsFiniteSet(S) /\ IsFiniteSet(T) /\ IsFiniteSet(1 .. m)
  BY <1>1, FS_Interval
<1>4. /\ SumOver(v, r) = SumFunctionOnSet(f, 1 .. Len(r))
      /\ SumOver(v, p) = SumFunctionOnSet(g, S)
      /\ SumOver(v, q) = SumFunctionOnSet(h, 1 .. m)
  <2> HIDE DEF r, f
  <2>1. SumOver(v, r) = SumFunctionOnSet([i \in 1 .. Len(r) |-> v[r[i]]], 1 .. Len(r))
    BY <1>1, SumOverIs
  <2> QED BY <2>1, SumOverIs DEF f
<1>5. \A i \in 1 .. Len(r) : f[i] \in Int
  <2> SUFFICES ASSUME NEW i \in 1 .. Len(r) PROVE v[r[i]] \in Int
    OBVIOUS
  <2>1. r[i] \in E
    BY <1>1
  <2> QED BY <2>1
<1>6. \A i \in S : f[i] = g[i]
  BY <1>1, <1>2
<1>7. \A i \in 1 .. m : n + i \in T /\ f[n + i] = h[i] /\ h[i] \in Int
  <2> SUFFICES ASSUME NEW i \in 1 .. m PROVE n + i \in T /\ f[n + i] = h[i] /\ h[i] \in Int
    OBVIOUS
  <2>1. n + i \in T
    BY <1>1
  <2>2. n + i \in 1 .. Len(r)
    BY <1>2, <2>1
  <2>3. f[n + i] = v[r[n + i]] /\ r[n + i] = q[i] /\ q[i] \in E
    BY <1>1, <2>2
  <2> QED BY <2>1, <2>3
<1>8. /\ k \in [1 .. m -> T]
      /\ \A i, j \in 1 .. m : k[i] = k[j] => i = j
      /\ \A y \in T : \E i \in 1 .. m : k[i] = y
  <2>1. \A y \in T : y - n \in 1 .. m /\ n + (y - n) = y
    BY <1>1
  <2>2. k \in [1 .. m -> T]
    BY <1>7
  <2>3. \A i, j \in 1 .. m : k[i] = k[j] => i = j
    BY <1>1
  <2> QED BY <2>1, <2>2, <2>3
<1>9. \A i \in 1 .. m : h[i] \in Int /\ f[k[i]] = h[i]
  BY <1>7
<1> HIDE DEF f, g, h, k, S, T, r
<1>10. SumFunctionOnSet(f, S \cup T) = SumFunctionOnSet(f, S) + SumFunctionOnSet(f, T)
  BY <1>2, <1>3, <1>5, SumUnion
<1>11. SumFunctionOnSet(f, S) = SumFunctionOnSet(g, S)
  BY <1>3, <1>6, SumSame
<1>12. SumFunctionOnSet(f, T) = SumFunctionOnSet(h, 1 .. m)
  <2> DEFINE M == 1 .. m
  <2> HIDE DEF M
  <2>1. /\ IsFiniteSet(M) /\ k \in [M -> T]
        /\ \A i, j \in M : k[i] = k[j] => i = j
        /\ \A y \in T : \E i \in M : k[i] = y
        /\ \A i \in M : h[i] \in Int /\ f[k[i]] = h[i]
    BY <1>3, <1>8, <1>9 DEF M
  <2>2. SumFunctionOnSet(f, T) = SumFunctionOnSet(h, M)
    BY <2>1, SumRenamed
  <2> QED BY <2>2 DEF M
<1> QED BY <1>2, <1>4, <1>10, <1>11, <1>12 DEF r

\* What the first element of a sequence adds to the others.
LEMMA SumOverFirst ==
  ASSUME NEW E, NEW v \in [E -> Int], NEW q \in Seq(E), q # <<>>
  PROVE  /\ Head(q) \in E /\ Tail(q) \in Seq(E)
         /\ SumOver(v, q) = v[Head(q)] + SumOver(v, Tail(q))
<1>1. Head(q) \in E /\ Tail(q) \in Seq(E)
  BY HeadTailProperties
<1> DEFINE e == Head(q)
           t == Tail(q)
<1>2. q = <<e>> \o t
  OBVIOUS
<1> HIDE DEF e, t
<1>3. <<e>> \in Seq(E) /\ e \in E /\ t \in Seq(E)
  BY <1>1 DEF e, t
<1>4. SumOver(v, q) = SumOver(v, <<e>>) + SumOver(v, t)
  BY <1>2, <1>3, SumOverBoth
<1> QED BY <1>1, <1>3, <1>4, SumOverOne DEF e, t

\* Of a sequence of elements that are worth the same, nothing or 1.
LEMMA SumOverSame ==
  ASSUME NEW E, NEW v \in [E -> Int], NEW q \in Seq(E)
  PROVE  /\ (\A i \in 1 .. Len(q) : v[q[i]] = 0) => SumOver(v, q) = 0
         /\ (\A i \in 1 .. Len(q) : v[q[i]] = 1) => SumOver(v, q) = Len(q)
<1> DEFINE f == [i \in 1 .. Len(q) |-> v[q[i]]]
<1>1. \A i \in 1 .. Len(q) : f[i] = v[q[i]]
  OBVIOUS
<1>2. SumOver(v, q) = SumFunctionOnSet(f, 1 .. Len(q))
  BY SumOverIs
<1>3. IsFiniteSet(1 .. Len(q)) /\ Cardinality(1 .. Len(q)) = Len(q)
  BY FS_Interval
<1> HIDE DEF f
<1>4. (\A i \in 1 .. Len(q) : v[q[i]] = 0) => SumFunctionOnSet(f, 1 .. Len(q)) = 0
  BY <1>1, <1>3, SumOfZeros
<1>5. (\A i \in 1 .. Len(q) : v[q[i]] = 1) => SumFunctionOnSet(f, 1 .. Len(q)) = Len(q)
  BY <1>1, <1>3, SumOfOnes
<1> QED BY <1>2, <1>4, <1>5

-----------------------------------------------------------------------------
\* Ranks

\* In a finite set whose elements follow one another, the number of those ahead tells
\* them apart, and every number below the size of the set is the rank of one.
LEMMA Ranks ==
  ASSUME NEW S, IsFiniteSet(S), NEW ahead \in [S -> SUBSET S],
         \A r \in S : r \notin ahead[r],
         \A r \in S : \A a \in ahead[r] : ahead[a] \subseteq ahead[r],
         \A r, a \in S : r # a => a \in ahead[r] \/ r \in ahead[a]
  PROVE  /\ \A r, a \in S : Cardinality(ahead[r]) = Cardinality(ahead[a]) => r = a
         /\ \A k \in 1 .. Cardinality(S) : \E r \in S : Cardinality(ahead[r]) = k - 1
<1>0. Cardinality(S) \in Nat /\ \A r \in S : IsFiniteSet(ahead[r])
  <2>1. \A r \in S : ahead[r] \in SUBSET S
    OBVIOUS
  <2> QED BY <2>1, FS_Subset, FS_CardinalityType
<1>1. ASSUME NEW r \in S, NEW a \in ahead[r]
      PROVE  Cardinality(ahead[a]) < Cardinality(ahead[r])
  <2>1. a \in S /\ ahead[a] \subseteq ahead[r] /\ a \notin ahead[a]
    OBVIOUS
  <2>2. /\ IsFiniteSet(ahead[r]) /\ IsFiniteSet(ahead[a])
        /\ Cardinality(ahead[a]) \in Nat /\ Cardinality(ahead[r]) \in Nat
    BY <1>0, <2>1, FS_CardinalityType
  <2>3. Cardinality(ahead[a]) <= Cardinality(ahead[r])
        /\ (Cardinality(ahead[a]) = Cardinality(ahead[r]) => ahead[a] = ahead[r])
    BY <2>1, <2>2, FS_Subset
  <2> QED BY <2>1, <2>2, <2>3
<1>2. ASSUME NEW r \in S, NEW a \in S, Cardinality(ahead[r]) = Cardinality(ahead[a]), r # a
      PROVE  FALSE
  <2>0. Cardinality(ahead[r]) \in Nat
    BY <1>0, FS_CardinalityType
  <2>1. CASE a \in ahead[r]
    BY <1>1, <1>2, <2>0, <2>1
  <2>2. CASE r \in ahead[a]
    BY <1>1, <1>2, <2>0, <2>2
  <2> QED BY <1>2, <2>1, <2>2
<1>3. ASSUME NEW r \in S
      PROVE  Cardinality(ahead[r]) + 1 \in 1 .. Cardinality(S)
  <2>1. ahead[r] \in SUBSET S /\ ahead[r] # S
    OBVIOUS
  <2>2. /\ Cardinality(ahead[r]) \in Nat /\ Cardinality(ahead[r]) <= Cardinality(S)
        /\ Cardinality(ahead[r]) # Cardinality(S)
    BY <1>0, <2>1, FS_Subset, FS_CardinalityType
  <2> QED BY <1>0, <2>2
<1> DEFINE T == 1 .. Cardinality(S)
           f == [r \in S |-> Cardinality(ahead[r]) + 1]
<1>4. f \in Injection(S, T)
  <2>1. f \in [S -> T]
    BY <1>3
  <2>2. ASSUME NEW r \in S, NEW a \in S, f[r] = f[a] PROVE r = a
    <3>1. Cardinality(ahead[r]) \in Nat /\ Cardinality(ahead[a]) \in Nat
      BY <1>0, FS_CardinalityType
    <3>2. Cardinality(ahead[r]) = Cardinality(ahead[a])
      BY <2>2, <3>1
    <3> QED BY <1>2, <3>2
  <2> QED BY <2>1, <2>2 DEF Injection, IsInjective
<1>5. IsFiniteSet(T) /\ Cardinality(T) = Cardinality(S)
  <2>1. Cardinality(S) \in Int /\ 1 \in Int
    BY <1>0
  <2>2. IsFiniteSet(T) /\ Cardinality(T) = IF 1 > Cardinality(S) THEN 0 ELSE Cardinality(S) - 1 + 1
    BY <2>1, FS_Interval
  <2> QED BY <1>0, <2>2
<1>6. f \in Surjection(S, T)
  <2> HIDE DEF f, T
  <2> QED BY <1>4, <1>5, FS_Injection
<1>7. ASSUME NEW k \in T PROVE \E r \in S : Cardinality(ahead[r]) = k - 1
  <2>1. PICK r \in S : f[r] = k
    BY <1>6 DEF Surjection
  <2>2. Cardinality(ahead[r]) \in Nat
    BY <1>0, FS_CardinalityType
  <2> QED BY <2>1, <2>2
<1> QED BY <1>2, <1>7

\* A set of numbers from 1 on without gaps is counted by its greatest.
LEMMA Initial ==
  ASSUME NEW n \in Nat, NEW E \in SUBSET (1 .. n),
         \A j \in E : \A i \in 1 .. j : i \in E
  PROVE  Cardinality(E) \in 0 .. n /\ E = 1 .. Cardinality(E)
<1> DEFINE Out == {1 .. i : i \in {i \in 0 .. n : E \subseteq 1 .. i}}
<1>1. 1 .. n \in Out
  OBVIOUS
<1>2. \A S \in Out : IsFiniteSet(S)
  <2>1. \A i \in 0 .. n : IsFiniteSet(1 .. i)
    BY FS_Interval
  <2> QED BY <2>1
<1>3. Out \subseteq SUBSET (1 .. n) /\ Out # {}
  BY <1>1
<1>4. PICK S \in Out : \A T \in Out : Cardinality(S) <= Cardinality(T)
  <2> HIDE DEF Out
  <2> QED BY <1>2, <1>3, SmallestSet
<1>5. PICK m \in 0 .. n : S = 1 .. m /\ E \subseteq 1 .. m
  OBVIOUS
<1>6. \A i \in 0 .. n : Cardinality(1 .. i) = i
  BY FS_Interval
<1>7. CASE m = 0
  <2>1. E = {} /\ 1 .. 0 = {} /\ Cardinality({}) = 0
    BY <1>5, <1>7, FS_EmptySet
  <2> QED BY <2>1
<1>8. CASE m # 0
  <2>1. m - 1 \in 0 .. n /\ 1 .. m - 1 \notin Out
    <3>1. m - 1 \in 0 .. n /\ m \in 0 .. n
      BY <1>8
    <3>2. Cardinality(1 .. m - 1) = m - 1 /\ Cardinality(S) = m
      BY <1>5, <1>6, <3>1
    <3>3. ~(m <= m - 1)
      BY <1>8
    <3> HIDE DEF Out
    <3> QED BY <1>4, <3>1, <3>2, <3>3
  <2>2. m \in E
    <3>1. ~(E \subseteq 1 .. m - 1)
      BY <2>1
    <3>2. PICK e \in E : e \notin 1 .. m - 1
      BY <3>1
    <3>3. e \in 1 .. m
      BY <1>5
    <3>4. e = m
      BY <3>2, <3>3
    <3> QED BY <3>4
  <2>3. E = 1 .. m
    BY <1>5, <2>2
  <2> QED BY <1>6, <2>3
<1> QED BY <1>7, <1>8
=============================================================================
