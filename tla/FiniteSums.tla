------------------------------ MODULE FiniteSums ------------------------------
(***************************************************************************)
(* Laws of MapThenSumSet, which the models use to add up rows and votes.   *)
(*                                                                         *)
(* The provers cannot instantiate a theorem with an operator parameter, so *)
(* the laws are about the sum of a function over a finite set, which is an *)
(* ordinary value; a lemma next to the use turns MapThenSumSet of an       *)
(* expression into it.  Induction over finite sets is used in the form "a  *)
(* nonempty set of finite sets has a minimal member", for the same reason. *)
(***************************************************************************)
EXTENDS Integers, FiniteSets, FiniteSetsExt, FiniteSetTheorems, WellFoundedInduction, TLAPS

SumOver(f, S) == MapThenSumSet(LAMBDA x : f[x], S)

\* The element a fold takes next.
Pick(S) == CHOOSE x \in S : TRUE

LEMMA PickType == ASSUME NEW S, S # {} PROVE Pick(S) \in S
BY DEF Pick

\* The equation by which the sums over the subsets of S are defined.
IsSum(f, S, sums) ==
  sums = [s \in SUBSET S |-> IF s = {} THEN 0 ELSE f[Pick(s)] + sums[s \ {Pick(s)}]]

LEMMA SumUnfolds ==
  ASSUME NEW f, NEW S
  PROVE  SumOver(f, S) = (CHOOSE sums : IsSum(f, S, sums))[S]
BY DEF SumOver, MapThenSumSet, MapThenFoldSet, IsSum, Pick

-----------------------------------------------------------------------------
(* Induction over finite sets                                              *)

\* A set of subsets of a finite set has a member none of whose proper subsets
\* is a member.
LEMMA MinimalSet ==
  ASSUME NEW S, IsFiniteSet(S), NEW C, C \subseteq SUBSET S, C # {}
  PROVE  \E T \in C : \A U \in C : ~(U \subseteq T /\ U # T)
<1>1. IsWellFoundedOn(StrictSubsetOrdering(S), FiniteSubsetsOf(S))
  BY FS_StrictSubsetOrderingWellFounded
<1>2. C \subseteq FiniteSubsetsOf(S)
  BY FS_Subset DEF FiniteSubsetsOf
<1>3. PICK T \in C : \A U \in C : ~(<<U, T>> \in StrictSubsetOrdering(S))
  BY <1>1, <1>2, WFMin
<1>4. ASSUME NEW U \in C, U \subseteq T, U # T PROVE FALSE
  <2>1. <<U, T>> \in (SUBSET S) \X (SUBSET S)
    OBVIOUS
  <2>2. <<U, T>> \in StrictSubsetOrdering(S)
    BY <1>4, <2>1 DEF StrictSubsetOrdering
  <2> QED
    BY <1>3, <2>2
<1> QED
  BY <1>4

-----------------------------------------------------------------------------
(* The sum as an equation                                                  *)

\* Functions that satisfy the equation agree.
LEMMA SumUnique ==
  ASSUME NEW f, NEW S, IsFiniteSet(S), NEW g, NEW h, IsSum(f, S, g), IsSum(f, S, h)
  PROVE  \A T \in SUBSET S : g[T] = h[T]
<1> DEFINE C == {T \in SUBSET S : g[T] # h[T]}
<1> SUFFICES ASSUME C # {} PROVE FALSE
  OBVIOUS
<1>0. C \subseteq SUBSET S
  OBVIOUS
<1>1. PICK T \in C : \A U \in C : ~(U \subseteq T /\ U # T)
  <2> HIDE DEF C
  <2> QED
    BY <1>0, MinimalSet
<1>2. g[T] = IF T = {} THEN 0 ELSE f[Pick(T)] + g[T \ {Pick(T)}]
  BY DEF IsSum
<1>3. h[T] = IF T = {} THEN 0 ELSE f[Pick(T)] + h[T \ {Pick(T)}]
  BY DEF IsSum
<1>4. CASE T = {}
  BY <1>1, <1>2, <1>3, <1>4
<1>5. CASE T # {}
  <2>1. Pick(T) \in T
    BY <1>5, PickType
  <2>2. g[T \ {Pick(T)}] = h[T \ {Pick(T)}]
    BY <1>1, <2>1
  <2> QED
    BY <1>1, <1>2, <1>3, <1>5, <2>2
<1> QED
  BY <1>4, <1>5

\* What the definition says of one set: it takes one element and goes on.
Recurs(f, T) == SumOver(f, T) = IF T = {} THEN 0 ELSE f[Pick(T)] + SumOver(f, T \ {Pick(T)})

\* When the definition is sound below a set, it is sound there: the sums over
\* the smaller sets make up a function that satisfies the equation.
LEMMA SumRecursStep ==
  ASSUME NEW f, NEW T, IsFiniteSet(T), \A U \in SUBSET T : U # T => Recurs(f, U)
  PROVE  Recurs(f, T)
<1> DEFINE first == IF T = {} THEN 0 ELSE f[Pick(T)] + SumOver(f, T \ {Pick(T)})
           g == [s \in SUBSET T |-> IF s = T THEN first ELSE SumOver(f, s)]
<1>1. ASSUME NEW s \in SUBSET T
      PROVE  g[s] = IF s = {} THEN 0 ELSE f[Pick(s)] + g[s \ {Pick(s)}]
  <2>1. CASE s = {}
    BY <2>1 DEF Recurs
  <2>2. CASE s # {}
    <3>1. Pick(s) \in s
      BY <2>2, PickType
    <3>2. s \ {Pick(s)} \in SUBSET T /\ s \ {Pick(s)} # T
      BY <3>1
    <3>3. g[s \ {Pick(s)}] = SumOver(f, s \ {Pick(s)})
      BY <3>2
    <3>4. CASE s = T
      BY <2>2, <3>3, <3>4
    <3>5. CASE s # T
      <4>1. g[s] = SumOver(f, s)
        BY <3>5
      <4>2. Recurs(f, s)
        BY <3>5
      <4> QED
        BY <2>2, <3>3, <4>1, <4>2 DEF Recurs
    <3> QED
      BY <3>4, <3>5
  <2> QED
    BY <2>1, <2>2
<1>2. IsSum(f, T, g)
  <2>1. g = [s \in SUBSET T |-> g[s]]
    OBVIOUS
  <2> HIDE DEF g
  <2> QED
    BY <1>1, <2>1 DEF IsSum
<1>3. PICK c : c = CHOOSE sums : IsSum(f, T, sums)
  OBVIOUS
<1>4. IsSum(f, T, c)
  BY <1>2, <1>3
<1>5. c[T] = g[T]
  <2> HIDE DEF g
  <2>1. \A U \in SUBSET T : c[U] = g[U]
    BY <1>2, <1>4, SumUnique
  <2> QED
    BY <2>1
<1>6. SumOver(f, T) = c[T]
  BY <1>3, SumUnfolds
<1> QED
  BY <1>5, <1>6 DEF Recurs

\* The sum over a finite set is that of one element and the rest.
LEMMA SumRecurs == ASSUME NEW f, NEW S, IsFiniteSet(S) PROVE Recurs(f, S)
<1> DEFINE C == {T \in SUBSET S : ~Recurs(f, T)}
<1> SUFFICES ASSUME C # {} PROVE FALSE
  OBVIOUS
<1>0. C \subseteq SUBSET S
  OBVIOUS
<1>1. PICK T \in C : \A U \in C : ~(U \subseteq T /\ U # T)
  <2> HIDE DEF C
  <2> QED
    BY <1>0, MinimalSet
<1>2. IsFiniteSet(T)
  BY FS_Subset
<1>3. \A U \in SUBSET T : U # T => Recurs(f, U)
  BY <1>1
<1>4. Recurs(f, T)
  BY <1>2, <1>3, SumRecursStep
<1> QED
  BY <1>1, <1>4

\* The equation has a solution, and each gives the sum.
LEMMA SumIs ==
  ASSUME NEW f, NEW S, IsFiniteSet(S)
  PROVE  /\ \E g : IsSum(f, S, g)
         /\ \A g : IsSum(f, S, g) => g[S] = SumOver(f, S)
<1> DEFINE sums == [s \in SUBSET S |-> SumOver(f, s)]
<1>1. ASSUME NEW s \in SUBSET S
      PROVE  sums[s] = IF s = {} THEN 0 ELSE f[Pick(s)] + sums[s \ {Pick(s)}]
  <2>1. Recurs(f, s)
    BY FS_Subset, SumRecurs
  <2> QED
    BY <2>1 DEF Recurs
<1>2. IsSum(f, S, sums)
  <2>1. sums = [s \in SUBSET S |-> sums[s]]
    OBVIOUS
  <2> HIDE DEF sums
  <2> QED
    BY <1>1, <2>1 DEF IsSum
<1>3. ASSUME NEW g, IsSum(f, S, g) PROVE g[S] = SumOver(f, S)
  <2>1. sums[S] = SumOver(f, S)
    OBVIOUS
  <2> HIDE DEF sums
  <2>2. \A T \in SUBSET S : g[T] = sums[T]
    BY <1>2, <1>3, SumUnique
  <2> QED
    BY <2>1, <2>2
<1> QED
  BY <1>2, <1>3

LEMMA SumOfNone == ASSUME NEW f PROVE SumOver(f, {}) = 0
BY FS_EmptySet, SumRecurs DEF Recurs

-----------------------------------------------------------------------------
(* Sums of numbers                                                         *)

LEMMA SumInt ==
  ASSUME NEW f, NEW S, IsFiniteSet(S), \A x \in S : f[x] \in Int
  PROVE  SumOver(f, S) \in Int
<1> DEFINE C == {T \in SUBSET S : SumOver(f, T) \notin Int}
<1> SUFFICES ASSUME C # {} PROVE FALSE
  OBVIOUS
<1>0. C \subseteq SUBSET S
  OBVIOUS
<1>1. PICK T \in C : \A U \in C : ~(U \subseteq T /\ U # T)
  <2> HIDE DEF C
  <2> QED
    BY <1>0, MinimalSet
<1>2. Recurs(f, T)
  BY FS_Subset, SumRecurs
<1>3. T # {}
  BY SumOfNone
<1>4. Pick(T) \in T
  BY <1>3, PickType
<1>5. SumOver(f, T \ {Pick(T)}) \in Int
  BY <1>1, <1>4
<1> QED
  BY <1>2, <1>3, <1>4, <1>5 DEF Recurs

\* It does not matter which element is taken first.
LEMMA SumTake ==
  ASSUME NEW f, NEW S, IsFiniteSet(S), \A x \in S : f[x] \in Int, NEW x \in S
  PROVE  SumOver(f, S) = f[x] + SumOver(f, S \ {x})
<1> DEFINE C == {T \in SUBSET S : \E y \in T : SumOver(f, T) # f[y] + SumOver(f, T \ {y})}
<1> SUFFICES ASSUME C # {} PROVE FALSE
  OBVIOUS
<1>0. C \subseteq SUBSET S
  OBVIOUS
<1>1. PICK T \in C : \A U \in C : ~(U \subseteq T /\ U # T)
  <2> HIDE DEF C
  <2> QED
    BY <1>0, MinimalSet
<1>2. PICK y \in T : SumOver(f, T) # f[y] + SumOver(f, T \ {y})
  BY <1>1
<1>3. PICK p : p = Pick(T)
  OBVIOUS
<1>4. p \in T
  BY <1>2, <1>3, PickType
<1>5. SumOver(f, T) = f[p] + SumOver(f, T \ {p})
  BY <1>2, <1>3, FS_Subset, SumRecurs DEF Recurs
<1>6. p # y
  BY <1>2, <1>5
<1>7. SumOver(f, T \ {p}) = f[y] + SumOver(f, (T \ {p}) \ {y})
  <2>1. T \ {p} \in SUBSET S /\ T \ {p} \subseteq T /\ T \ {p} # T /\ y \in T \ {p}
    BY <1>4, <1>6
  <2> QED
    BY <1>1, <2>1
<1>8. SumOver(f, T \ {y}) = f[p] + SumOver(f, (T \ {y}) \ {p})
  <2>1. T \ {y} \in SUBSET S /\ T \ {y} \subseteq T /\ T \ {y} # T /\ p \in T \ {y}
    BY <1>2, <1>4, <1>6
  <2> QED
    BY <1>1, <2>1
<1>9. (T \ {p}) \ {y} = (T \ {y}) \ {p}
  OBVIOUS
<1>10. IsFiniteSet((T \ {p}) \ {y})
  BY FS_Subset
<1>11. SumOver(f, (T \ {p}) \ {y}) \in Int
  BY <1>10, SumInt
<1>12. f[p] \in Int /\ f[y] \in Int
  BY <1>4
<1>13. SumOver(f, T) = f[y] + SumOver(f, T \ {y})
  <2> DEFINE rest == SumOver(f, (T \ {p}) \ {y})
  <2>1. SumOver(f, T \ {p}) = f[y] + rest /\ SumOver(f, T \ {y}) = f[p] + rest /\ rest \in Int
    BY <1>7, <1>8, <1>9, <1>11
  <2> HIDE DEF rest, C
  <2> QED
    BY <1>5, <1>12, <2>1
<1> QED
  BY <1>2, <1>13

LEMMA SumAdd ==
  ASSUME NEW f, NEW S, IsFiniteSet(S), NEW x, x \notin S, \A y \in S \cup {x} : f[y] \in Int
  PROVE  SumOver(f, S \cup {x}) = f[x] + SumOver(f, S)
<1>1. IsFiniteSet(S \cup {x}) /\ x \in S \cup {x} /\ (S \cup {x}) \ {x} = S
  BY FS_AddElement
<1> QED
  BY <1>1, SumTake

\* The sum of a larger function is no smaller.
LEMMA SumMonotonic ==
  ASSUME NEW f, NEW g, NEW S, IsFiniteSet(S),
         \A x \in S : f[x] \in Int /\ g[x] \in Int /\ f[x] <= g[x]
  PROVE  SumOver(f, S) <= SumOver(g, S)
<1> DEFINE C == {T \in SUBSET S : ~(SumOver(f, T) <= SumOver(g, T))}
<1> SUFFICES ASSUME C # {} PROVE FALSE
  OBVIOUS
<1>0. C \subseteq SUBSET S
  OBVIOUS
<1>1. PICK T \in C : \A U \in C : ~(U \subseteq T /\ U # T)
  <2> HIDE DEF C
  <2> QED
    BY <1>0, MinimalSet
<1>2. T # {}
  BY SumOfNone
<1>3. PICK x : x \in T
  BY <1>2
<1>4. SumOver(f, T \ {x}) <= SumOver(g, T \ {x})
  BY <1>1, <1>3
<1>5. IsFiniteSet(T) /\ IsFiniteSet(T \ {x})
  BY FS_Subset
<1>6. SumOver(f, T \ {x}) \in Int /\ SumOver(g, T \ {x}) \in Int
  BY <1>5, SumInt
<1>7. SumOver(f, T) = f[x] + SumOver(f, T \ {x}) /\ SumOver(g, T) = g[x] + SumOver(g, T \ {x})
  BY <1>3, <1>5, SumTake
<1>8. f[x] \in Int /\ g[x] \in Int /\ f[x] <= g[x]
  BY <1>3
<1> QED
  BY <1>1, <1>4, <1>6, <1>7, <1>8

\* Functions that agree on the set have the same sum.
LEMMA SumSame ==
  ASSUME NEW f, NEW g, NEW S, IsFiniteSet(S), \A x \in S : f[x] \in Int /\ g[x] = f[x]
  PROVE  SumOver(g, S) = SumOver(f, S)
<1>1. SumOver(f, S) <= SumOver(g, S) /\ SumOver(g, S) <= SumOver(f, S)
  BY SumMonotonic
<1>2. SumOver(f, S) \in Int /\ SumOver(g, S) \in Int
  BY SumInt
<1> QED
  BY <1>1, <1>2

\* One more at one element is one more in the sum.
LEMMA SumOneMore ==
  ASSUME NEW f, NEW g, NEW S, IsFiniteSet(S), NEW x \in S,
         \A y \in S : f[y] \in Int /\ g[y] = f[y] + (IF y = x THEN 1 ELSE 0)
  PROVE  SumOver(g, S) = SumOver(f, S) + 1
<1>1. IsFiniteSet(S \ {x})
  BY FS_Subset
<1>2. SumOver(g, S \ {x}) = SumOver(f, S \ {x})
  BY <1>1, SumSame
<1>3. SumOver(f, S \ {x}) \in Int
  BY <1>1, SumInt
<1>4. SumOver(f, S) = f[x] + SumOver(f, S \ {x}) /\ SumOver(g, S) = g[x] + SumOver(g, S \ {x})
  BY SumTake
<1> QED
  BY <1>2, <1>3, <1>4

\* A sum of sums is the sum of both.
LEMMA SumPlus ==
  ASSUME NEW f, NEW g, NEW h, NEW S, IsFiniteSet(S),
         \A x \in S : f[x] \in Int /\ g[x] \in Int /\ h[x] = f[x] + g[x]
  PROVE  SumOver(h, S) = SumOver(f, S) + SumOver(g, S)
<1> DEFINE C == {T \in SUBSET S : SumOver(h, T) # SumOver(f, T) + SumOver(g, T)}
<1> SUFFICES ASSUME C # {} PROVE FALSE
  OBVIOUS
<1>0. C \subseteq SUBSET S
  OBVIOUS
<1>1. PICK T \in C : \A U \in C : ~(U \subseteq T /\ U # T)
  <2> HIDE DEF C
  <2> QED
    BY <1>0, MinimalSet
<1>2. T # {}
  <2>1. SumOver(h, {}) = SumOver(f, {}) + SumOver(g, {})
    BY SumOfNone
  <2>2. SumOver(h, T) # SumOver(f, T) + SumOver(g, T)
    BY <1>1
  <2> QED
    BY <2>1, <2>2
<1>3. PICK x : x \in T
  BY <1>2
<1>4. SumOver(h, T \ {x}) = SumOver(f, T \ {x}) + SumOver(g, T \ {x})
  BY <1>1, <1>3
<1>5. IsFiniteSet(T) /\ IsFiniteSet(T \ {x})
  BY FS_Subset
<1>6. SumOver(f, T \ {x}) \in Int /\ SumOver(g, T \ {x}) \in Int
  BY <1>5, SumInt
<1>7. /\ SumOver(f, T) = f[x] + SumOver(f, T \ {x})
      /\ SumOver(g, T) = g[x] + SumOver(g, T \ {x})
      /\ SumOver(h, T) = h[x] + SumOver(h, T \ {x})
  BY <1>3, <1>5, SumTake
<1>8. f[x] \in Int /\ g[x] \in Int /\ h[x] = f[x] + g[x]
  BY <1>3
<1> QED
  BY <1>1, <1>4, <1>6, <1>7, <1>8

\* A part of a sum of natural numbers is no larger than the whole.
LEMMA SumSubset ==
  ASSUME NEW f, NEW S, IsFiniteSet(S), \A x \in S : f[x] \in Nat, NEW R, R \subseteq S
  PROVE  SumOver(f, R) <= SumOver(f, S)
<1> DEFINE C == {T \in SUBSET S : ~(SumOver(f, R \cap T) <= SumOver(f, T))}
<1> SUFFICES ASSUME C # {} PROVE FALSE
  <2>1. R \cap S = R
    OBVIOUS
  <2> QED
    BY <2>1
<1>0. C \subseteq SUBSET S
  OBVIOUS
<1>1. PICK T \in C : \A U \in C : ~(U \subseteq T /\ U # T)
  <2> HIDE DEF C
  <2> QED
    BY <1>0, MinimalSet
<1>2. T # {}
  <2>1. R \cap {} = {}
    OBVIOUS
  <2> QED
    BY <2>1, SumOfNone
<1>3. PICK x : x \in T
  BY <1>2
<1>4. SumOver(f, R \cap (T \ {x})) <= SumOver(f, T \ {x})
  BY <1>1, <1>3
<1>5. IsFiniteSet(T) /\ IsFiniteSet(T \ {x}) /\ IsFiniteSet(R \cap T)
      /\ IsFiniteSet(R \cap (T \ {x}))
  BY FS_Subset
<1>6. SumOver(f, T \ {x}) \in Int /\ SumOver(f, R \cap (T \ {x})) \in Int
  BY <1>5, SumInt
<1>7. SumOver(f, T) = f[x] + SumOver(f, T \ {x})
  BY <1>3, <1>5, SumTake
<1>8. f[x] \in Nat
  BY <1>3
<1>9. CASE x \in R
  <2>1. x \in R \cap T /\ (R \cap T) \ {x} = R \cap (T \ {x})
    BY <1>3, <1>9
  <2>2. SumOver(f, R \cap T) = f[x] + SumOver(f, R \cap (T \ {x}))
    BY <1>5, <2>1, SumTake
  <2> QED
    BY <1>1, <1>4, <1>6, <1>7, <1>8, <2>2
<1>10. CASE x \notin R
  <2>1. R \cap T = R \cap (T \ {x})
    BY <1>10
  <2>2. SumOver(f, R \cap T) <= SumOver(f, T \ {x}) /\ SumOver(f, R \cap T) \in Int
    BY <1>4, <1>6, <2>1
  <2>3. SumOver(f, R \cap T) <= SumOver(f, T)
    BY <1>6, <1>7, <1>8, <2>2
  <2> QED
    BY <1>1, <2>3
<1> QED
  BY <1>9, <1>10

-----------------------------------------------------------------------------
(* Sums of cardinalities                                                   *)

\* The members of a set whose key is in another.
With(B, key, S) == {b \in B : key[b] \in S}

\* The members of a finite set, counted by a key, add up to the members whose
\* key is among those summed over.
LEMMA SumOfCardinalities ==
  ASSUME NEW B, IsFiniteSet(B), NEW key, NEW S, IsFiniteSet(S), NEW f,
         \A x \in S : f[x] = Cardinality(With(B, key, {x}))
  PROVE  SumOver(f, S) = Cardinality(With(B, key, S))
<1> DEFINE Of(T) == With(B, key, T)
           At(x) == With(B, key, {x})
           C == {T \in SUBSET S : SumOver(f, T) # Cardinality(Of(T))}
<1> SUFFICES ASSUME C # {} PROVE FALSE
  OBVIOUS
<1>0. C \subseteq SUBSET S
  OBVIOUS
<1>1. PICK T \in C : \A U \in C : ~(U \subseteq T /\ U # T)
  <2> HIDE DEF C
  <2> QED
    BY <1>0, MinimalSet
<1>2. T # {}
  <2>1. Of({}) = {}
    BY DEF With
  <2> QED
    BY <2>1, SumOfNone, FS_EmptySet
<1>3. PICK x : x \in T
  BY <1>2
<1>4. SumOver(f, T \ {x}) = Cardinality(Of(T \ {x}))
  BY <1>1, <1>3
<1>5. \A y \in S : IsFiniteSet(At(y)) /\ Cardinality(At(y)) \in Nat /\ f[y] = Cardinality(At(y))
  BY FS_Subset, FS_CardinalityType DEF With
<1>6. IsFiniteSet(Of(T \ {x})) /\ Cardinality(Of(T \ {x})) \in Nat
  BY FS_Subset, FS_CardinalityType DEF With
<1>7. IsFiniteSet(T) /\ x \in S /\ \A y \in T : f[y] \in Int
  <2>1. T \in SUBSET S
    OBVIOUS
  <2>2. \A y \in T : f[y] \in Int
    <3> HIDE DEF At, C
    <3> QED
      BY <1>5, <2>1
  <2> QED
    BY <1>3, <2>1, <2>2, FS_Subset
<1>8. SumOver(f, T) = f[x] + SumOver(f, T \ {x})
  <2> HIDE DEF Of, At
  <2> QED
    BY <1>3, <1>7, SumTake
<1>9. Of(T) = At(x) \cup Of(T \ {x}) /\ At(x) \cap Of(T \ {x}) = {}
  BY <1>3 DEF With
<1>10. Cardinality(Of(T)) = Cardinality(At(x)) + Cardinality(Of(T \ {x}))
  <2> HIDE DEF Of, At
  <2>1. Cardinality(At(x) \cup Of(T \ {x})) =
          Cardinality(At(x)) + Cardinality(Of(T \ {x})) - Cardinality(At(x) \cap Of(T \ {x}))
    BY <1>5, <1>6, <1>7, FS_Union
  <2>2. Cardinality(At(x)) \in Nat
    BY <1>5, <1>7
  <2>3. Cardinality(At(x) \cap Of(T \ {x})) = 0
    BY <1>9, FS_EmptySet
  <2>4. Cardinality(Of(T)) = Cardinality(At(x) \cup Of(T \ {x}))
    BY <1>9
  <2> HIDE DEF C
  <2> QED
    BY <1>6, <2>1, <2>2, <2>3, <2>4
<1>11. f[x] = Cardinality(At(x))
  BY <1>5, <1>7
<1> HIDE DEF Of, At
<1> QED
  BY <1>1, <1>4, <1>8, <1>10, <1>11

=============================================================================
