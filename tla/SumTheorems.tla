------------------------------ MODULE SumTheorems ------------------------------
(***************************************************************************)
(* Facts about SumFunctionOnSet: what the sum of a function over a finite  *)
(* set does when the set gains an element or the function a value.  The    *)
(* fold chooses the order; the facts say that it does not matter.  The     *)
(* induction over subsets is by a smallest counterexample.                 *)
(***************************************************************************)
EXTENDS Integers, Functions, FiniteSetTheorems, WellFoundedInduction, TLAPS

Pick(s) == CHOOSE x \in s : TRUE

\* iter is what the fold over the subsets of S computes.
Sums(f, S, iter) ==
  iter = [s \in SUBSET S |-> IF s = {} THEN 0 ELSE f[Pick(s)] + iter[s \ {Pick(s)}]]

Summed(f, S) == CHOOSE iter : Sums(f, S, iter)

\* Some set of B has no proper subset in B.
LEMMA SmallestSet ==
  ASSUME NEW S, IsFiniteSet(S), NEW B, B \subseteq SUBSET S, B # {}
  PROVE  \E T \in B : \A U \in B : U \subseteq T => U = T
  <1>1. B \subseteq FiniteSubsetsOf(S)
    BY FS_Subset DEF FiniteSubsetsOf
  <1>2. PICK T \in B : \A U \in B : <<U, T>> \notin StrictSubsetOrdering(S)
    BY <1>1, FS_StrictSubsetOrderingWellFounded, WFMin
  <1>3. ASSUME NEW U \in B, U \subseteq T PROVE U = T
    BY <1>2, <1>3 DEF StrictSubsetOrdering
  <1>. QED
    BY <1>3

\* The library's sum is that function's value.
LEMMA SumIsSummed ==
  ASSUME NEW f, NEW S
  PROVE  SumFunctionOnSet(f, S) = Summed(f, S)[S]
  BY Zenon DEF SumFunctionOnSet, FoldFunctionOnSet, MapThenFoldSet, Summed, Sums, Pick

\* There is such a function: it can be built up to the sets of any size.
LEMMA SummedExists ==
  ASSUME NEW f, NEW S, IsFiniteSet(S)
  PROVE  Sums(f, S, Summed(f, S))
  <1> DEFINE
    Body(iter, s) == IF s = {} THEN 0 ELSE f[Pick(s)] + iter[s \ {Pick(s)}]
    UpTo(iter, n) == /\ iter = [s \in SUBSET S |-> iter[s]]
                     /\ \A s \in SUBSET S : Cardinality(s) <= n => iter[s] = Body(iter, s)
    Reached == {n \in Nat : \E iter : UpTo(iter, n)}
  <1>1. \A s \in SUBSET S : Cardinality(s) \in Nat
    BY FS_Subset, FS_CardinalityType
  <1>2. \A s \in SUBSET S : s # {} => /\ Pick(s) \in s
                                      /\ s \ {Pick(s)} \in SUBSET S
                                      /\ Cardinality(s \ {Pick(s)}) = Cardinality(s) - 1
    <2>. SUFFICES ASSUME NEW s \in SUBSET S, s # {}
                  PROVE  /\ Pick(s) \in s
                         /\ Cardinality(s \ {Pick(s)}) = Cardinality(s) - 1
      OBVIOUS
    <2>1. Pick(s) \in s
      BY DEF Pick
    <2>2. IsFiniteSet(s)
      BY FS_Subset
    <2>. QED
      BY <2>1, <2>2, FS_RemoveElement
  <1>3. 0 \in Reached
    <2> DEFINE zero == [s \in SUBSET S |-> 0]
    <2>1. \A s \in SUBSET S : Cardinality(s) <= 0 => s = {}
      BY <1>1, FS_Subset, FS_EmptySet
    <2>2. UpTo(zero, 0)
      BY <2>1
    <2>. QED
      BY <2>2
  <1>4. ASSUME NEW n \in Reached PROVE n + 1 \in Reached
    <2>1. PICK iter : UpTo(iter, n)
      OBVIOUS
    <2> DEFINE next == [s \in SUBSET S |-> IF Cardinality(s) <= n THEN iter[s]
                                           ELSE Body(iter, s)]
    <2>2. \A s \in SUBSET S : Cardinality(s) <= n + 1 => next[s] = Body(iter, s)
      BY <2>1
    <2>3. \A s \in SUBSET S : Cardinality(s) <= n + 1 => Body(next, s) = Body(iter, s)
      <3>. SUFFICES ASSUME NEW s \in SUBSET S, Cardinality(s) <= n + 1, s # {}
                    PROVE  next[s \ {Pick(s)}] = iter[s \ {Pick(s)}]
        OBVIOUS
      <3>1. s \ {Pick(s)} \in SUBSET S /\ Cardinality(s \ {Pick(s)}) <= n
        BY <1>1, <1>2
      <3>. QED
        BY <3>1
    <2>4. UpTo(next, n + 1)
      BY <2>2, <2>3
    <2>5. n + 1 \in Nat
      OBVIOUS
    <2> HIDE DEF UpTo, next
    <2>. QED
      BY <2>4, <2>5
  <1>5. Cardinality(S) \in Reached
    <2> DEFINE Missing == {n \in Nat : n \notin Reached}
    <2> HIDE DEF Reached
    <2>. SUFFICES ASSUME Missing # {} PROVE FALSE
      BY FS_CardinalityType
    <2>1. PICK m \in Missing : \A k \in Missing : <<k, m>> \notin OpToRel(<, Nat)
      BY NatLessThanWellFounded, WFMin
    <2>2. m # 0 /\ m - 1 \in Nat /\ m - 1 < m
      BY <1>3
    <2>3. <<m - 1, m>> \in OpToRel(<, Nat)
      BY <2>2 DEF OpToRel
    <2>4. m - 1 \in Reached
      BY <2>1, <2>2, <2>3
    <2>5. (m - 1) + 1 \in Reached
      BY <1>4, <2>4
    <2>. QED
      BY <2>2, <2>5
  <1>6. PICK iter : UpTo(iter, Cardinality(S))
    BY <1>5
  <1>7. Sums(f, S, iter)
    <2>1. \A s \in SUBSET S : iter[s] = Body(iter, s)
      BY <1>6, FS_Subset
    <2>. QED
      BY <1>6, <2>1 DEF Sums
  <1>. QED
    BY <1>7 DEF Summed


\* Two functions with the same values on a set have the same sums of its subsets,
\* whatever larger sets the sums are taken in.
LEMMA SummedAgree ==
  ASSUME NEW f, NEW S, IsFiniteSet(S), NEW g, NEW R, IsFiniteSet(R),
         NEW T, T \subseteq S, T \subseteq R, \A x \in T : f[x] = g[x]
  PROVE  Summed(f, S)[T] = Summed(g, R)[T]
  <1> DEFINE
    F == Summed(f, S)
    G == Summed(g, R)
    Differ == {U \in SUBSET T : F[U] # G[U]}
  <1>1. /\ F = [s \in SUBSET S |-> IF s = {} THEN 0 ELSE f[Pick(s)] + F[s \ {Pick(s)}]]
        /\ G = [s \in SUBSET R |-> IF s = {} THEN 0 ELSE g[Pick(s)] + G[s \ {Pick(s)}]]
    <2>1. Sums(f, S, F) /\ Sums(g, R, G)
      BY SummedExists
    <2> HIDE DEF F, G
    <2>. QED
      BY <2>1 DEF Sums
  <1> HIDE DEF F, G
  <1>. SUFFICES ASSUME Differ # {} PROVE FALSE
    BY DEF F, G
  <1>2. IsFiniteSet(T)
    BY FS_Subset
  <1>3. PICK U \in Differ : \A W \in Differ : W \subseteq U => W = U
    <2>1. Differ \subseteq SUBSET T
      OBVIOUS
    <2> HIDE DEF Differ
    <2>. QED
      BY <1>2, <2>1, SmallestSet
  <1>4. U \in SUBSET S /\ U \in SUBSET R /\ U # {}
    BY <1>1
  <1>5. Pick(U) \in U
    BY <1>4 DEF Pick
  <1>6. F[U \ {Pick(U)}] = G[U \ {Pick(U)}]
    BY <1>3, <1>5
  <1>7. f[Pick(U)] = g[Pick(U)]
    BY <1>5
  <1>8. F[U] = f[Pick(U)] + F[U \ {Pick(U)}]
    BY <1>1, <1>4
  <1>9. G[U] = g[Pick(U)] + G[U \ {Pick(U)}]
    BY <1>1, <1>4
  <1>. QED
    BY <1>6, <1>7, <1>8, <1>9

\* The sum depends on the values on the set alone.
LEMMA SumEqual ==
  ASSUME NEW f, NEW g, NEW S, IsFiniteSet(S), \A x \in S : f[x] = g[x]
  PROVE  SumFunctionOnSet(f, S) = SumFunctionOnSet(g, S)
  BY SumIsSummed, SummedAgree

LEMMA SumEmpty ==
  ASSUME NEW f
  PROVE  SumFunctionOnSet(f, {}) = 0
  <1>1. Sums(f, {}, Summed(f, {}))
    BY SummedExists, FS_EmptySet
  <1>. QED
    BY <1>1, SumIsSummed DEF Sums

LEMMA SumPick ==
  ASSUME NEW f, NEW S, IsFiniteSet(S), S # {}
  PROVE  /\ Pick(S) \in S
         /\ SumFunctionOnSet(f, S) = f[Pick(S)] + SumFunctionOnSet(f, S \ {Pick(S)})
  <1>1. Pick(S) \in S
    BY DEF Pick
  <1>2. Sums(f, S, Summed(f, S))
    BY SummedExists
  <1>3. Summed(f, S)[S] = f[Pick(S)] + Summed(f, S)[S \ {Pick(S)}]
    BY <1>2 DEF Sums
  <1>4. IsFiniteSet(S \ {Pick(S)})
    BY FS_RemoveElement
  <1>5. Summed(f, S)[S \ {Pick(S)}] = Summed(f, S \ {Pick(S)})[S \ {Pick(S)}]
    BY <1>4, SummedAgree
  <1>. QED
    BY <1>1, <1>3, <1>5, SumIsSummed

\* Sums of integers are integers.
LEMMA SumType ==
  ASSUME NEW f, NEW S, IsFiniteSet(S), \A x \in S : f[x] \in Int
  PROVE  SumFunctionOnSet(f, S) \in Int
  <1> DEFINE Odd == {T \in SUBSET S : SumFunctionOnSet(f, T) \notin Int}
  <1>. SUFFICES ASSUME Odd # {} PROVE FALSE
    OBVIOUS
  <1>1. PICK T \in Odd : \A U \in Odd : U \subseteq T => U = T
    <2>1. Odd \subseteq SUBSET S
      OBVIOUS
    <2> HIDE DEF Odd
    <2>. QED
      BY <2>1, SmallestSet
  <1>2. IsFiniteSet(T) /\ T # {}
    <2>1. T # {}
      BY SumEmpty
    <2>. QED
      BY <2>1, FS_Subset
  <1>3. Pick(T) \in T
    BY <1>2, SumPick
  <1>4. SumFunctionOnSet(f, T \ {Pick(T)}) \in Int
    BY <1>1, <1>3
  <1>5. f[Pick(T)] \in Int
    BY <1>3
  <1>. QED
    BY <1>2, <1>4, <1>5, SumPick

\* Any element can be taken out first.
LEMMA SumRemove ==
  ASSUME NEW f, NEW S, IsFiniteSet(S), \A x \in S : f[x] \in Int, NEW x \in S
  PROVE  SumFunctionOnSet(f, S) = f[x] + SumFunctionOnSet(f, S \ {x})
  <1> DEFINE Sum(T) == SumFunctionOnSet(f, T)
             Odd == {T \in SUBSET S : \E y \in T : Sum(T) # f[y] + Sum(T \ {y})}
  <1>. SUFFICES ASSUME Odd # {} PROVE FALSE
    OBVIOUS
  <1>1. PICK T \in Odd : \A U \in Odd : U \subseteq T => U = T
    <2>1. Odd \subseteq SUBSET S
      OBVIOUS
    <2> HIDE DEF Odd
    <2>. QED
      BY <2>1, SmallestSet
  <1>2. PICK y \in T : Sum(T) # f[y] + Sum(T \ {y})
    OBVIOUS
  <1> DEFINE z == Pick(T)
  <1>3. IsFiniteSet(T)
    BY FS_Subset
  <1>4. z \in T /\ Sum(T) = f[z] + Sum(T \ {z})
    BY <1>2, <1>3, SumPick
  <1> HIDE DEF z
  <1>5. y # z
    BY <1>2, <1>4
  <1>6. Sum(T \ {z}) = f[y] + Sum((T \ {z}) \ {y})
    <2>1. T \ {z} \notin Odd
      BY <1>1, <1>4
    <2>. QED
      BY <2>1, <1>5
  <1>7. Sum(T \ {y}) = f[z] + Sum((T \ {y}) \ {z})
    <2>1. T \ {y} \notin Odd
      BY <1>1, <1>2
    <2>. QED
      BY <2>1, <1>4, <1>5
  <1>8. (T \ {y}) \ {z} = (T \ {z}) \ {y}
    OBVIOUS
  <1>9. Sum((T \ {z}) \ {y}) \in Int /\ f[y] \in Int /\ f[z] \in Int
    <2>1. IsFiniteSet((T \ {z}) \ {y})
      BY <1>3, FS_Subset
    <2>. QED
      BY <1>4, <2>1, SumType
  <1> HIDE DEF Sum, Odd
  <1>10. Sum((T \ {y}) \ {z}) = Sum((T \ {z}) \ {y})
    BY <1>8, Zenon
  <1>11. Sum(T) = f[z] + (f[y] + Sum((T \ {z}) \ {y}))
    BY <1>4, <1>6
  <1>12. f[y] + Sum(T \ {y}) = f[y] + (f[z] + Sum((T \ {z}) \ {y}))
    BY <1>7, <1>10
  <1>. QED
    BY <1>2, <1>9, <1>11, <1>12

\* A set that gains an element gains its value.
LEMMA SumAdd ==
  ASSUME NEW f, NEW S, IsFiniteSet(S), NEW x, x \notin S,
         \A y \in S \cup {x} : f[y] \in Int
  PROVE  SumFunctionOnSet(f, S \cup {x}) = SumFunctionOnSet(f, S) + f[x]
  <1>1. IsFiniteSet(S \cup {x})
    BY FS_AddElement
  <1>2. (S \cup {x}) \ {x} = S
    OBVIOUS
  <1>3. SumFunctionOnSet(f, S) \in Int /\ f[x] \in Int
    BY SumType
  <1>4. SumFunctionOnSet(f, S \cup {x}) = f[x] + SumFunctionOnSet(f, (S \cup {x}) \ {x})
    BY <1>1, SumRemove
  <1>5. SumFunctionOnSet(f, S \cup {x}) = f[x] + SumFunctionOnSet(f, S)
    BY <1>2, <1>4, Zenon
  <1>. QED
    BY <1>3, <1>5

\* A function that changes at one element changes the sum by as much.
LEMMA SumChange ==
  ASSUME NEW f, NEW g, NEW S, IsFiniteSet(S), NEW x \in S,
         \A y \in S : f[y] \in Int /\ g[y] \in Int,
         \A y \in S \ {x} : f[y] = g[y]
  PROVE  SumFunctionOnSet(g, S) = SumFunctionOnSet(f, S) + (g[x] - f[x])
  <1>1. IsFiniteSet(S \ {x})
    BY FS_RemoveElement
  <1>2. SumFunctionOnSet(f, S \ {x}) = SumFunctionOnSet(g, S \ {x})
    BY <1>1, SumEqual
  <1>3. SumFunctionOnSet(f, S \ {x}) \in Int /\ f[x] \in Int /\ g[x] \in Int
    BY <1>1, SumType
  <1>4. /\ SumFunctionOnSet(f, S) = f[x] + SumFunctionOnSet(f, S \ {x})
        /\ SumFunctionOnSet(g, S) = g[x] + SumFunctionOnSet(g, S \ {x})
    BY SumRemove
  <1>. QED
    BY <1>2, <1>3, <1>4

================================================================================
