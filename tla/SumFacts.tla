------------------------------ MODULE SumFacts ------------------------------
(***************************************************************************)
(* What SumFunctionOnSet computes on finite sets.  The operator is a fold  *)
(* that takes the elements in an order CHOOSE fixes; these facts say that  *)
(* the order does not matter.  Each is proved from a smallest              *)
(* counterexample, in the strict subset order of a finite set.             *)
(***************************************************************************)
EXTENDS Integers, Functions, FiniteSetTheorems, WellFoundedInduction, TLAPS

\* A nonempty collection of subsets of a finite set has a smallest member.
LEMMA SmallestSubset ==
    ASSUME NEW S, IsFiniteSet(S), NEW Bad \in SUBSET SUBSET S, Bad # {}
    PROVE  \E T \in Bad : \A U \in Bad : U \subseteq T => U = T
  <1>1. IsWellFoundedOn(StrictSubsetOrdering(S), FiniteSubsetsOf(S))
    BY FS_StrictSubsetOrderingWellFounded
  <1>2. FiniteSubsetsOf(S) = SUBSET S
    BY FS_FiniteSubsetsOfFinite
  <1>3. \E T \in Bad : \A U \in Bad : <<U, T>> \notin StrictSubsetOrdering(S)
    BY <1>1, <1>2, WFMin
  <1>4. PICK T \in Bad : \A U \in Bad : <<U, T>> \notin StrictSubsetOrdering(S)
    BY <1>3
  <1>5. ASSUME NEW U \in Bad, U \subseteq T PROVE U = T
    <2>1. <<U, T>> \notin StrictSubsetOrdering(S)
      BY <1>4
    <2>2. <<U, T>> \in (SUBSET S) \X (SUBSET S)
      OBVIOUS
    <2> QED BY <1>5, <2>1, <2>2 DEF StrictSubsetOrdering
  <1> QED BY <1>4, <1>5

-----------------------------------------------------------------------------
\* The fold over SUBSET S: Fold(f, S) is the equation its function satisfies.
Pick(T) == CHOOSE x \in T : TRUE

Body(f, S, g) == [T \in SUBSET S |-> IF T = {} THEN 0 ELSE f[Pick(T)] + g[T \ {Pick(T)}]]

Fold(f, S) == CHOOSE g : g = Body(f, S, g)

\* The chosen element of a set is one of its elements.
LEMMA PickMember == ASSUME NEW T, T # {} PROVE Pick(T) \in T
  BY DEF Pick

\* The sum of the community modules is the fold studied here.
LEMMA SumIsFold == ASSUME NEW f, NEW S PROVE SumFunctionOnSet(f, S) = Fold(f, S)[S]
  BY DEF SumFunctionOnSet, FoldFunctionOnSet, MapThenFoldSet, Fold, Body, Pick

\* Two solutions of the equation agree where both are defined.
LEMMA FoldAgrees ==
    ASSUME NEW f, NEW S, NEW U, NEW g, NEW h, g = Body(f, S, g), h = Body(f, U, h),
           NEW T, T \subseteq S, T \subseteq U, IsFiniteSet(T)
    PROVE  g[T] = h[T]
  <1> DEFINE Bad == {V \in SUBSET T : g[V] # h[V]}
  <1> SUFFICES ASSUME Bad # {} PROVE FALSE
    OBVIOUS
  <1>1. PICK V \in Bad : \A W \in Bad : W \subseteq V => W = V
    <2>1. Bad \in SUBSET SUBSET T /\ Bad # {}
      OBVIOUS
    <2> HIDE DEF Bad
    <2> QED BY <2>1, SmallestSubset
  <1>2. V \in SUBSET S /\ V \in SUBSET U
    OBVIOUS
  <1>3. /\ g[V] = IF V = {} THEN 0 ELSE f[Pick(V)] + g[V \ {Pick(V)}]
        /\ h[V] = IF V = {} THEN 0 ELSE f[Pick(V)] + h[V \ {Pick(V)}]
    BY <1>2 DEF Body
  <1>4. V # {}
    BY <1>1, <1>3
  <1>5. V \ {Pick(V)} \in SUBSET T /\ V \ {Pick(V)} # V
    BY <1>4, PickMember
  <1>6. g[V \ {Pick(V)}] = h[V \ {Pick(V)}]
    BY <1>1, <1>5
  <1> QED BY <1>1, <1>3, <1>6

\* On a finite set the equation has a solution, so Fold is one.
LEMMA FoldIsDefined ==
    ASSUME NEW f, NEW S, IsFiniteSet(S) PROVE Fold(f, S) = Body(f, S, Fold(f, S))
  <1> DEFINE Bad == {T \in SUBSET S : Fold(f, T) # Body(f, T, Fold(f, T))}
  <1> SUFFICES ASSUME Bad # {} PROVE FALSE
    OBVIOUS
  <1>1. PICK T \in Bad : \A U \in Bad : U \subseteq T => U = T
    <2>1. Bad \in SUBSET SUBSET S /\ Bad # {}
      OBVIOUS
    <2> HIDE DEF Bad
    <2> QED BY <2>1, SmallestSubset
  <1>2. ASSUME NEW U \in SUBSET T, U # T PROVE Fold(f, U) = Body(f, U, Fold(f, U))
    BY <1>1, <1>2
  <1> DEFINE Rest(V) == V \ {Pick(V)}
             Sol(U)  == Fold(f, U)[U]
             F       == [V \in SUBSET T |-> IF V = {} THEN 0 ELSE f[Pick(V)] + Sol(Rest(V))]
  <1>3. ASSUME NEW V \in SUBSET T, V # {} PROVE F[Rest(V)] = Sol(Rest(V))
    <2> DEFINE U == Rest(V)
    <2>1. U \in SUBSET T /\ U # T
      BY <1>3, PickMember
    <2>2. Fold(f, U) = Body(f, U, Fold(f, U))
      BY <1>2, <2>1
    <2>3. Sol(U) = IF U = {} THEN 0 ELSE f[Pick(U)] + Fold(f, U)[Rest(U)]
      <3> HIDE DEF U
      <3>1. Fold(f, U)[U] = Body(f, U, Fold(f, U))[U]
        BY <2>2
      <3> QED BY <3>1 DEF Body
    <2>4. CASE U = {}
      BY <2>1, <2>3, <2>4
    <2>5. CASE U # {}
      <3>1. Rest(U) \in SUBSET T /\ Rest(U) # T /\ Rest(U) \subseteq U
        BY <2>1
      <3>2. Fold(f, Rest(U)) = Body(f, Rest(U), Fold(f, Rest(U)))
        BY <1>2, <3>1
      <3>3. IsFiniteSet(Rest(U))
        BY <3>1, FS_Subset
      <3>4. Fold(f, U)[Rest(U)] = Fold(f, Rest(U))[Rest(U)]
        <4> HIDE DEF U, Rest
        <4> QED BY <2>2, <3>1, <3>2, <3>3, FoldAgrees
      <3>5. F[U] = f[Pick(U)] + Sol(Rest(U))
        BY <2>1, <2>5
      <3> QED BY <2>3, <2>5, <3>4, <3>5
    <2> QED BY <2>4, <2>5
  <1>4. F = Body(f, T, F)
    <2>1. ASSUME NEW V \in SUBSET T PROVE F[V] = Body(f, T, F)[V]
      <3>1. CASE V = {}
        BY <3>1 DEF Body
      <3>2. CASE V # {}
        <4>1. F[V] = f[Pick(V)] + Sol(Rest(V))
          BY <3>2
        <4>2. Body(f, T, F)[V] = f[Pick(V)] + F[Rest(V)]
          BY <3>2 DEF Body
        <4> QED BY <1>3, <3>2, <4>1, <4>2
      <3> QED BY <3>1, <3>2
    <2> QED BY <2>1 DEF Body
  <1>5. Fold(f, T) = Body(f, T, Fold(f, T))
    <2> HIDE DEF F
    <2> QED BY <1>4 DEF Fold
  <1> QED BY <1>1, <1>5

\* The sum of a nonempty finite set, its chosen element apart.
LEMMA SumUnfolds ==
    ASSUME NEW f, NEW S, IsFiniteSet(S), S # {}
    PROVE  SumFunctionOnSet(f, S) = f[Pick(S)] + SumFunctionOnSet(f, S \ {Pick(S)})
  <1> DEFINE R == S \ {Pick(S)}
  <1>1. IsFiniteSet(R) /\ R \subseteq S
    BY FS_Subset
  <1>2. Fold(f, S) = Body(f, S, Fold(f, S)) /\ Fold(f, R) = Body(f, R, Fold(f, R))
    BY <1>1, FoldIsDefined
  <1>3. Fold(f, S)[R] = Fold(f, R)[R]
    <2> HIDE DEF R
    <2> QED BY <1>1, <1>2, FoldAgrees
  <1>4. Fold(f, S)[S] = f[Pick(S)] + Fold(f, S)[R]
    <2>1. Fold(f, S)[S] = Body(f, S, Fold(f, S))[S]
      BY <1>2
    <2> QED BY <2>1 DEF Body
  <1> QED BY <1>3, <1>4, SumIsFold

-----------------------------------------------------------------------------
\* The empty sum.
LEMMA SumEmpty == ASSUME NEW f PROVE SumFunctionOnSet(f, {}) = 0
  BY DEF SumFunctionOnSet, FoldFunctionOnSet, MapThenFoldSet

\* A sum of naturals is a natural.
LEMMA SumType ==
    ASSUME NEW S, IsFiniteSet(S), NEW f, \A x \in S : f[x] \in Nat
    PROVE  SumFunctionOnSet(f, S) \in Nat
  <1> DEFINE Bad == {T \in SUBSET S : SumFunctionOnSet(f, T) \notin Nat}
  <1> SUFFICES ASSUME Bad # {} PROVE FALSE
    OBVIOUS
  <1>1. PICK T \in Bad : \A U \in Bad : U \subseteq T => U = T
    <2>1. Bad \in SUBSET SUBSET S /\ Bad # {}
      OBVIOUS
    <2> HIDE DEF Bad
    <2> QED BY <2>1, SmallestSubset
  <1>2. T # {}
    <2> SUFFICES ASSUME T = {} PROVE FALSE
      OBVIOUS
    <2>1. SumFunctionOnSet(f, T) \notin Nat
      BY <1>1
    <2>2. SumFunctionOnSet(f, T) = 0
      BY SumEmpty
    <2> QED BY <2>1, <2>2
  <1>3. IsFiniteSet(T) /\ Pick(T) \in T
    BY <1>2, FS_Subset, PickMember
  <1>4. SumFunctionOnSet(f, T \ {Pick(T)}) \in Nat
    BY <1>1, <1>3
  <1>5. f[Pick(T)] \in Nat
    BY <1>3
  <1>6. SumFunctionOnSet(f, T) = f[Pick(T)] + SumFunctionOnSet(f, T \ {Pick(T)})
    BY <1>2, <1>3, SumUnfolds
  <1> QED BY <1>1, <1>4, <1>5, <1>6

\* A sum of integers is an integer.
LEMMA SumIsInt ==
    ASSUME NEW S, IsFiniteSet(S), NEW f, \A x \in S : f[x] \in Int
    PROVE  SumFunctionOnSet(f, S) \in Int
  <1> DEFINE Bad == {T \in SUBSET S : SumFunctionOnSet(f, T) \notin Int}
  <1> SUFFICES ASSUME Bad # {} PROVE FALSE
    OBVIOUS
  <1>1. PICK T \in Bad : \A U \in Bad : U \subseteq T => U = T
    <2>1. Bad \in SUBSET SUBSET S /\ Bad # {}
      OBVIOUS
    <2> HIDE DEF Bad
    <2> QED BY <2>1, SmallestSubset
  <1>2. T # {}
    <2> SUFFICES ASSUME T = {} PROVE FALSE
      OBVIOUS
    <2>1. SumFunctionOnSet(f, T) \notin Int
      BY <1>1
    <2>2. SumFunctionOnSet(f, T) = 0
      BY SumEmpty
    <2> QED BY <2>1, <2>2
  <1>3. IsFiniteSet(T) /\ Pick(T) \in T
    BY <1>2, FS_Subset, PickMember
  <1>4. SumFunctionOnSet(f, T \ {Pick(T)}) \in Int
    BY <1>1, <1>3
  <1>5. f[Pick(T)] \in Int
    BY <1>3
  <1>6. SumFunctionOnSet(f, T) = f[Pick(T)] + SumFunctionOnSet(f, T \ {Pick(T)})
    BY <1>2, <1>3, SumUnfolds
  <1> QED BY <1>1, <1>4, <1>5, <1>6

\* Any element may be taken apart, not the chosen one only.
LEMMA SumRemove ==
    ASSUME NEW S, IsFiniteSet(S), NEW f, \A x \in S : f[x] \in Int, NEW y \in S
    PROVE  SumFunctionOnSet(f, S) = f[y] + SumFunctionOnSet(f, S \ {y})
  <1> DEFINE Bad == {T \in SUBSET S : \E z \in T :
                       SumFunctionOnSet(f, T) # f[z] + SumFunctionOnSet(f, T \ {z})}
  <1> SUFFICES ASSUME Bad # {} PROVE FALSE
    OBVIOUS
  <1>1. PICK T \in Bad : \A U \in Bad : U \subseteq T => U = T
    <2>1. Bad \in SUBSET SUBSET S /\ Bad # {}
      OBVIOUS
    <2> HIDE DEF Bad
    <2> QED BY <2>1, SmallestSubset
  <1>2. PICK z \in T : SumFunctionOnSet(f, T) # f[z] + SumFunctionOnSet(f, T \ {z})
    BY <1>1
  <1> DEFINE c == Pick(T)
  <1>3. IsFiniteSet(T) /\ T # {} /\ c \in T
    BY <1>2, FS_Subset, PickMember
  <1>4. SumFunctionOnSet(f, T) = f[c] + SumFunctionOnSet(f, T \ {c})
    BY <1>3, SumUnfolds
  <1>5. z # c
    BY <1>2, <1>4
  <1>6. T \ {c} \notin Bad /\ T \ {z} \notin Bad /\ T \ {c} \in SUBSET S /\ T \ {z} \in SUBSET S
    BY <1>1, <1>3
  <1>7. SumFunctionOnSet(f, T \ {c}) = f[z] + SumFunctionOnSet(f, (T \ {c}) \ {z})
    BY <1>5, <1>6
  <1>8. SumFunctionOnSet(f, T \ {z}) = f[c] + SumFunctionOnSet(f, (T \ {z}) \ {c})
    BY <1>3, <1>5, <1>6
  <1>9. (T \ {c}) \ {z} = (T \ {z}) \ {c}
    OBVIOUS
  <1>10. SumFunctionOnSet(f, (T \ {c}) \ {z}) \in Int
    <2>1. IsFiniteSet((T \ {c}) \ {z}) /\ \A x \in (T \ {c}) \ {z} : f[x] \in Int
      BY <1>3, FS_Subset
    <2> QED BY <2>1, SumIsInt
  <1>11. f[c] \in Int /\ f[z] \in Int
    BY <1>3
  <1> HIDE DEF c
  <1>12. f[c] + (f[z] + SumFunctionOnSet(f, (T \ {c}) \ {z})) =
         f[z] + (f[c] + SumFunctionOnSet(f, (T \ {c}) \ {z}))
    BY <1>10, <1>11
  <1> QED BY <1>2, <1>4, <1>7, <1>8, <1>9, <1>12

\* The sum over a disjoint union is the sum of the sums.
THEOREM SumDisjointUnion ==
    ASSUME NEW S, IsFiniteSet(S), NEW f, \A x \in S : f[x] \in Nat,
           NEW A \in SUBSET S, NEW B \in SUBSET S, A \cap B = {}
    PROVE  SumFunctionOnSet(f, A \cup B) = SumFunctionOnSet(f, A) + SumFunctionOnSet(f, B)
  <1> DEFINE Bad == {T \in SUBSET B :
                       SumFunctionOnSet(f, A \cup T) # SumFunctionOnSet(f, A) + SumFunctionOnSet(f, T)}
  <1> SUFFICES ASSUME Bad # {} PROVE FALSE
    OBVIOUS
  <1>1. IsFiniteSet(A) /\ IsFiniteSet(B)
    BY FS_Subset
  <1>2. PICK T \in Bad : \A U \in Bad : U \subseteq T => U = T
    <2>1. Bad \in SUBSET SUBSET B /\ Bad # {}
      OBVIOUS
    <2> HIDE DEF Bad
    <2> QED BY <1>1, <2>1, SmallestSubset
  <1>3. SumFunctionOnSet(f, A) \in Nat
    BY <1>1, SumType
  <1>4. T # {}
    <2> SUFFICES ASSUME T = {} PROVE FALSE
      OBVIOUS
    <2>1. A \cup T = A
      OBVIOUS
    <2> QED BY <1>2, <1>3, <2>1, SumEmpty
  <1>5. PICK y \in T : TRUE
    BY <1>4
  <1>6. SumFunctionOnSet(f, A \cup (T \ {y})) = SumFunctionOnSet(f, A) + SumFunctionOnSet(f, T \ {y})
    BY <1>2
  <1>7. SumFunctionOnSet(f, T) = f[y] + SumFunctionOnSet(f, T \ {y})
    <2>1. IsFiniteSet(T) /\ \A x \in T : f[x] \in Nat
      BY <1>1, FS_Subset
    <2> QED BY <2>1, SumRemove
  <1>8. SumFunctionOnSet(f, A \cup T) = f[y] + SumFunctionOnSet(f, A \cup (T \ {y}))
    <2>1. IsFiniteSet(A \cup T) /\ \A x \in A \cup T : f[x] \in Nat
      BY FS_Subset
    <2>2. (A \cup T) \ {y} = A \cup (T \ {y})
      OBVIOUS
    <2> QED BY <2>1, <2>2, SumRemove
  <1>9. SumFunctionOnSet(f, T \ {y}) \in Nat /\ f[y] \in Nat
    <2>1. IsFiniteSet(T \ {y}) /\ \A x \in T \ {y} : f[x] \in Nat
      BY <1>1, FS_Subset
    <2> QED BY <2>1, SumType
  <1> QED BY <1>2, <1>3, <1>6, <1>7, <1>8, <1>9
=============================================================================
