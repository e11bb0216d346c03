----------------------------- MODULE SumTheorems -----------------------------
(***************************************************************************)
(* Facts about the sums of the community modules over finite sets.  A sum  *)
(* is a recursive function over the subsets of its set; what holds of it   *)
(* is shown by looking at a least subset for which it would not hold.      *)
(***************************************************************************)
EXTENDS Integers, FiniteSets, Functions, FiniteSetTheorems, WellFoundedInduction, TLAPS

(* The element a sum takes next, and the equation it solves.               *)
Chosen(s) == CHOOSE x \in s : TRUE
Solves(g, f, T) ==
  g = [s \in SUBSET T |-> IF s = {} THEN 0 ELSE f[Chosen(s)] + g[s \ {Chosen(s)}]]

(* A set of subsets of a finite set has a minimal member.                  *)
LEMMA Minimal ==
  ASSUME NEW S, IsFiniteSet(S), NEW Bad \in SUBSET SUBSET S, Bad # {}
  PROVE  \E T \in Bad : \A U \in Bad : U \subseteq T => U = T
<1>1. Bad \subseteq FiniteSubsetsOf(S)
  BY FS_Subset DEF FiniteSubsetsOf
<1>2. IsWellFoundedOn(StrictSubsetOrdering(S), FiniteSubsetsOf(S))
  BY FS_StrictSubsetOrderingWellFounded
<1>3. PICK T \in Bad : \A U \in Bad : ~(<<U, T>> \in StrictSubsetOrdering(S))
  BY <1>1, <1>2, WFMin
<1>4. \A U \in Bad : U \subseteq T /\ U # T => <<U, T>> \in StrictSubsetOrdering(S)
  BY DEF StrictSubsetOrdering
<1>5. ASSUME NEW U \in Bad, U \subseteq T PROVE U = T
  BY <1>3, <1>4, <1>5
<1> QED
  BY <1>5

(* Two solutions agree where both are defined.                             *)
LEMMA SolutionsAgree ==
  ASSUME NEW f, NEW T, NEW U, NEW g, NEW h, Solves(g, f, T), Solves(h, f, U),
         NEW S, IsFiniteSet(S), S \subseteq T, S \subseteq U
  PROVE  g[S] = h[S]
<1> DEFINE Bad == {s \in SUBSET S : g[s] # h[s]}
<1>1. ASSUME Bad # {} PROVE FALSE
  <2>1. PICK s \in Bad : \A u \in Bad : u \subseteq s => u = s
    <3>1. Bad \in SUBSET SUBSET S
      OBVIOUS
    <3> HIDE DEF Bad
    <3> QED
      BY <1>1, <3>1, Minimal
  <2>2. s \in SUBSET T /\ s \in SUBSET U
    OBVIOUS
  <2>3. /\ g[s] = IF s = {} THEN 0 ELSE f[Chosen(s)] + g[s \ {Chosen(s)}]
        /\ h[s] = IF s = {} THEN 0 ELSE f[Chosen(s)] + h[s \ {Chosen(s)}]
    BY <2>2 DEF Solves
  <2>4. s # {} => s \ {Chosen(s)} # s
    BY DEF Chosen
  <2>5. s # {} => g[s \ {Chosen(s)}] = h[s \ {Chosen(s)}]
    BY <2>1, <2>4
  <2> QED
    BY <2>1, <2>3, <2>5
<1> QED
  BY <1>1

(* Over every finite set there is a solution.                              *)
LEMMA SolutionExists ==
  ASSUME NEW f, NEW S, IsFiniteSet(S)
  PROVE  \E g : Solves(g, f, S)
<1> DEFINE Bad == {T \in SUBSET S : \A g : ~Solves(g, f, T)}
           G(T) == CHOOSE g : Solves(g, f, T)
<1>1. ASSUME Bad # {} PROVE FALSE
  <2>1. PICK T \in Bad : \A U \in Bad : U \subseteq T => U = T
    <3>1. Bad \in SUBSET SUBSET S
      OBVIOUS
    <3> HIDE DEF Bad
    <3> QED
      BY <1>1, <3>1, Minimal
  <2>2. \A U \in SUBSET T : U # T => Solves(G(U), f, U)
    BY <2>1
  <2>3. \A s \in SUBSET T : s # {} => s \ {Chosen(s)} \in SUBSET T /\ s \ {Chosen(s)} # T
    BY DEF Chosen
  <2> DEFINE h == [s \in SUBSET T |->
                     IF s = {} THEN 0
                     ELSE f[Chosen(s)] + G(s \ {Chosen(s)})[s \ {Chosen(s)}]]
  <2>4. ASSUME NEW s \in SUBSET T, s # {}
        PROVE  h[s \ {Chosen(s)}] = G(s \ {Chosen(s)})[s \ {Chosen(s)}]
    <3> DEFINE u == s \ {Chosen(s)}
               v == u \ {Chosen(u)}
    <3>1. u \in SUBSET T /\ u # T /\ Solves(G(u), f, u)
      BY <2>2, <2>3, <2>4
    <3>2. G(u)[u] = IF u = {} THEN 0 ELSE f[Chosen(u)] + G(u)[v]
      <4> HIDE DEF u, G
      <4> QED
        BY <3>1 DEF Solves
    <3>3. h[u] = IF u = {} THEN 0 ELSE f[Chosen(u)] + G(v)[v]
      BY <3>1
    <3>4. u # {} => G(u)[v] = G(v)[v]
      <4>1. u # {} => v \in SUBSET T /\ v # T /\ v \subseteq u
        BY <2>3, <3>1
      <4>2. u # {} => Solves(G(v), f, v) /\ IsFiniteSet(v)
        BY <2>2, <4>1, FS_Subset
      <4> HIDE DEF u, v, G, h
      <4> QED
        BY <3>1, <4>1, <4>2, SolutionsAgree
    <3> HIDE DEF v, G, h
    <3> QED
      BY <3>2, <3>3, <3>4
  <2>5. Solves(h, f, T)
    <3> DEFINE A(s) == IF s = {} THEN 0 ELSE f[Chosen(s)] + G(s \ {Chosen(s)})[s \ {Chosen(s)}]
               B(s) == IF s = {} THEN 0 ELSE f[Chosen(s)] + h[s \ {Chosen(s)}]
    <3>1. \A s \in SUBSET T : A(s) = B(s)
      <4> HIDE DEF h, G
      <4> QED
        BY <2>4
    <3>2. h = [s \in SUBSET T |-> A(s)]
      OBVIOUS
    <3>3. h = [s \in SUBSET T |-> B(s)]
      <4> HIDE DEF h, G, A, B
      <4> QED
        BY <3>1, <3>2
    <3> HIDE DEF h, G
    <3> QED
      BY <3>3 DEF Solves
  <2> QED
    BY <2>1, <2>5
<1>2. S \notin Bad
  BY <1>1
<1> QED
  BY <1>2

(* What a sum is, over the subsets of a finite set.                        *)
LEMMA SumSolves ==
  ASSUME NEW f, NEW S, IsFiniteSet(S)
  PROVE  \E g : Solves(g, f, S) /\ \A T \in SUBSET S : SumFunctionOnSet(f, T) = g[T]
<1>1. PICK g : Solves(g, f, S)
  BY SolutionExists
<1>2. ASSUME NEW T \in SUBSET S PROVE SumFunctionOnSet(f, T) = g[T]
  <2>1. IsFiniteSet(T)
    BY FS_Subset
  <2>2. PICK h : Solves(h, f, T) /\ SumFunctionOnSet(f, T) = h[T]
    <3>1. \E h : Solves(h, f, T)
      BY <2>1, SolutionExists
    <3> QED
      BY <3>1 DEF SumFunctionOnSet, FoldFunctionOnSet, MapThenFoldSet, Solves, Chosen
  <2>3. h[T] = g[T]
    BY <1>1, <2>1, <2>2, SolutionsAgree
  <2> QED
    BY <2>2, <2>3
<1> QED
  BY <1>1, <1>2

(* A sum takes its elements one after the other.                           *)
LEMMA SumUnfolds ==
  ASSUME NEW f, NEW S, IsFiniteSet(S), NEW T \in SUBSET S
  PROVE  SumFunctionOnSet(f, T) =
           IF T = {} THEN 0 ELSE f[Chosen(T)] + SumFunctionOnSet(f, T \ {Chosen(T)})
<1>1. PICK g : Solves(g, f, S) /\ \A U \in SUBSET S : SumFunctionOnSet(f, U) = g[U]
  BY SumSolves
<1>2. g[T] = IF T = {} THEN 0 ELSE f[Chosen(T)] + g[T \ {Chosen(T)}]
  BY <1>1 DEF Solves
<1>3. T \ {Chosen(T)} \in SUBSET S
  OBVIOUS
<1> QED
  BY <1>1, <1>2, <1>3

(* A sum of naturals is a natural.                                         *)
LEMMA SumIsNat ==
  ASSUME NEW f, NEW S, IsFiniteSet(S), \A x \in S : f[x] \in Nat
  PROVE  SumFunctionOnSet(f, S) \in Nat
<1> DEFINE Bad == {T \in SUBSET S : SumFunctionOnSet(f, T) \notin Nat}
<1>1. ASSUME Bad # {} PROVE FALSE
  <2>1. PICK T \in Bad : \A U \in Bad : U \subseteq T => U = T
    <3>1. Bad \in SUBSET SUBSET S
      OBVIOUS
    <3> HIDE DEF Bad
    <3> QED
      BY <1>1, <3>1, Minimal
  <2>2. T # {} => Chosen(T) \in T
    BY DEF Chosen
  <2>3. T # {} => T \ {Chosen(T)} \notin Bad
    BY <2>1, <2>2
  <2>4. T # {} => f[Chosen(T)] \in Nat /\ SumFunctionOnSet(f, T \ {Chosen(T)}) \in Nat
    BY <2>2, <2>3
  <2>5. T \in SUBSET S /\ SumFunctionOnSet(f, T) \notin Nat
    BY <2>1
  <2>6. SumFunctionOnSet(f, T) =
          IF T = {} THEN 0 ELSE f[Chosen(T)] + SumFunctionOnSet(f, T \ {Chosen(T)})
    BY <2>5, SumUnfolds
  <2> QED
    BY <2>4, <2>5, <2>6
<1>2. S \notin Bad
  BY <1>1
<1> QED
  BY <1>2

(* It does not matter which element is taken first.                        *)
LEMMA SumTakes ==
  ASSUME NEW f, NEW S, IsFiniteSet(S), \A x \in S : f[x] \in Nat, NEW y \in S
  PROVE  SumFunctionOnSet(f, S) = f[y] + SumFunctionOnSet(f, S \ {y})
<1> DEFINE Takes(T, z) == SumFunctionOnSet(f, T) = f[z] + SumFunctionOnSet(f, T \ {z})
           Bad == {T \in SUBSET S : \E z \in T : ~Takes(T, z)}
<1>1. ASSUME Bad # {} PROVE FALSE
  <2>1. PICK T \in Bad : \A U \in Bad : U \subseteq T => U = T
    <3>1. Bad \in SUBSET SUBSET S
      OBVIOUS
    <3> HIDE DEF Bad
    <3> QED
      BY <1>1, <3>1, Minimal
  <2>2. PICK z \in T : ~Takes(T, z)
    BY <2>1
  <2> DEFINE x == Chosen(T)
  <2>3. x \in T /\ T \in SUBSET S
    BY <2>2 DEF Chosen
  <2> HIDE DEF x
  <2>4. Takes(T, x)
    BY <2>2, <2>3, SumUnfolds DEF x
  <2>5. z # x
    BY <2>2, <2>4
  <2>6. T \ {x} \notin Bad /\ T \ {z} \notin Bad
    BY <2>1, <2>2, <2>3
  <2>7. Takes(T \ {x}, z) /\ Takes(T \ {z}, x)
    BY <2>2, <2>3, <2>5, <2>6
  <2>8. (T \ {x}) \ {z} = (T \ {z}) \ {x}
    OBVIOUS
  <2>9. SumFunctionOnSet(f, (T \ {z}) \ {x}) \in Nat /\ f[x] \in Nat /\ f[z] \in Nat
    <3>1. IsFiniteSet((T \ {z}) \ {x}) /\ (T \ {z}) \ {x} \subseteq S
      BY <2>3, FS_Subset
    <3> QED
      BY <2>2, <2>3, <3>1, SumIsNat
  <2> DEFINE a == SumFunctionOnSet(f, T)
             b == SumFunctionOnSet(f, T \ {x})
             c == SumFunctionOnSet(f, T \ {z})
             d == SumFunctionOnSet(f, (T \ {z}) \ {x})
  <2>10. b = f[z] + d
    BY <2>7, <2>8
  <2>11. a = f[x] + b /\ c = f[x] + d /\ a # f[z] + c /\ d \in Nat
    BY <2>2, <2>4, <2>7, <2>9
  <2> HIDE DEF a, b, c, d
  <2> QED
    BY <2>9, <2>10, <2>11
<1>2. S \notin Bad
  BY <1>1
<1> QED
  BY <1>2

(* A sum depends on nothing but the values summed.                         *)
LEMMA SumsEqual ==
  ASSUME NEW f, NEW g, NEW S, IsFiniteSet(S), \A x \in S : f[x] = g[x]
  PROVE  SumFunctionOnSet(f, S) = SumFunctionOnSet(g, S)
<1> DEFINE Bad == {T \in SUBSET S : SumFunctionOnSet(f, T) # SumFunctionOnSet(g, T)}
<1>1. ASSUME Bad # {} PROVE FALSE
  <2>1. PICK T \in Bad : \A U \in Bad : U \subseteq T => U = T
    <3>1. Bad \in SUBSET SUBSET S
      OBVIOUS
    <3> HIDE DEF Bad
    <3> QED
      BY <1>1, <3>1, Minimal
  <2>2. T # {} => Chosen(T) \in T
    BY DEF Chosen
  <2>3. T # {} => T \ {Chosen(T)} \notin Bad
    BY <2>1, <2>2
  <2>4. T # {} => /\ f[Chosen(T)] = g[Chosen(T)]
                  /\ SumFunctionOnSet(f, T \ {Chosen(T)}) = SumFunctionOnSet(g, T \ {Chosen(T)})
    BY <2>2, <2>3
  <2>5. T \in SUBSET S /\ SumFunctionOnSet(f, T) # SumFunctionOnSet(g, T)
    BY <2>1
  <2> QED
    BY <2>4, <2>5, SumUnfolds
<1>2. S \notin Bad
  BY <1>1
<1> QED
  BY <1>2

(* A sum with one value changed.                                           *)
LEMMA SumChanges ==
  ASSUME NEW S, IsFiniteSet(S), NEW f, NEW g, NEW y \in S,
         \A x \in S : f[x] \in Nat /\ g[x] \in Nat,
         \A x \in S : x # y => f[x] = g[x]
  PROVE  SumFunctionOnSet(g, S) = SumFunctionOnSet(f, S) - f[y] + g[y]
<1> DEFINE R == S \ {y}
<1>1. IsFiniteSet(R) /\ R \subseteq S
  BY FS_Subset
<1>2. /\ SumFunctionOnSet(f, S) = f[y] + SumFunctionOnSet(f, R)
      /\ SumFunctionOnSet(g, S) = g[y] + SumFunctionOnSet(g, R)
  BY SumTakes
<1>3. SumFunctionOnSet(f, R) = SumFunctionOnSet(g, R) /\ SumFunctionOnSet(f, R) \in Nat
  BY <1>1, SumsEqual, SumIsNat
<1> HIDE DEF R
<1> QED
  BY <1>2, <1>3

(* A sum of zeros.                                                         *)
LEMMA SumOfZeros ==
  ASSUME NEW S, IsFiniteSet(S), NEW f, \A x \in S : f[x] = 0
  PROVE  SumFunctionOnSet(f, S) = 0
<1> DEFINE Bad == {T \in SUBSET S : SumFunctionOnSet(f, T) # 0}
<1>1. ASSUME Bad # {} PROVE FALSE
  <2>1. PICK T \in Bad : \A U \in Bad : U \subseteq T => U = T
    <3>1. Bad \in SUBSET SUBSET S
      OBVIOUS
    <3> HIDE DEF Bad
    <3> QED
      BY <1>1, <3>1, Minimal
  <2>2. T # {} => Chosen(T) \in T
    BY DEF Chosen
  <2>3. T # {} => T \ {Chosen(T)} \notin Bad
    BY <2>1, <2>2
  <2>4. T # {} => f[Chosen(T)] = 0 /\ SumFunctionOnSet(f, T \ {Chosen(T)}) = 0
    BY <2>2, <2>3
  <2>5. T \in SUBSET S /\ SumFunctionOnSet(f, T) # 0
    BY <2>1
  <2>6. SumFunctionOnSet(f, T) =
          IF T = {} THEN 0 ELSE f[Chosen(T)] + SumFunctionOnSet(f, T \ {Chosen(T)})
    BY <2>5, SumUnfolds
  <2> QED
    BY <2>4, <2>5, <2>6
<1>2. S \notin Bad
  BY <1>1
<1> QED
  BY <1>2

(* One more for each element of a subset.                                  *)
LEMMA SumGrows ==
  ASSUME NEW S, IsFiniteSet(S), NEW f, \A x \in S : f[x] \in Nat, NEW B \in SUBSET S
  PROVE  SumFunctionOnSet([x \in S |-> f[x] + IF x \in B THEN 1 ELSE 0], S)
           = SumFunctionOnSet(f, S) + Cardinality(B)
<1> DEFINE G(T) == [x \in S |-> f[x] + IF x \in T THEN 1 ELSE 0]
           Bad == {T \in SUBSET B :
                     SumFunctionOnSet(G(T), S) # SumFunctionOnSet(f, S) + Cardinality(T)}
<1>1. ASSUME Bad # {} PROVE FALSE
  <2>1. PICK T \in Bad : \A U \in Bad : U \subseteq T => U = T
    <3>1. Bad \in SUBSET SUBSET B /\ IsFiniteSet(B)
      BY FS_Subset
    <3> HIDE DEF Bad
    <3> QED
      BY <1>1, <3>1, Minimal
  <2>2. T \subseteq S /\ IsFiniteSet(T) /\ Cardinality(T) \in Nat
    BY FS_Subset, FS_CardinalityType
  <2>3. T # {}
    <3>1. \A x \in S : f[x] = G({})[x]
      OBVIOUS
    <3>2. SumFunctionOnSet(f, S) = SumFunctionOnSet(G({}), S)
      <4> HIDE DEF G
      <4> QED
        BY <3>1, SumsEqual
    <3>3. Cardinality({}) = 0 /\ SumFunctionOnSet(f, S) \in Nat
      BY FS_EmptySet, SumIsNat
    <3>4. SumFunctionOnSet(G(T), S) # SumFunctionOnSet(f, S) + Cardinality(T)
      BY <2>1
    <3> HIDE DEF G
    <3> QED
      BY <3>2, <3>3, <3>4
  <2>4. PICK y \in T : TRUE
    BY <2>3
  <2> DEFINE R == T \ {y}
  <2>5. R \in SUBSET B /\ R \notin Bad
    BY <2>1, <2>4
  <2>6. SumFunctionOnSet(G(R), S) = SumFunctionOnSet(f, S) + Cardinality(R)
    BY <2>5
  <2>7. Cardinality(T) = Cardinality(R) + 1 /\ Cardinality(R) \in Nat
    BY <2>2, <2>4, FS_RemoveElement, FS_Subset, FS_CardinalityType
  <2>8. SumFunctionOnSet(G(T), S) = SumFunctionOnSet(G(R), S) - G(R)[y] + G(T)[y]
    <3>1. \A x \in S : G(R)[x] \in Nat /\ G(T)[x] \in Nat
      OBVIOUS
    <3>2. \A x \in S : x # y => G(R)[x] = G(T)[x]
      OBVIOUS
    <3>3. y \in S
      BY <2>2, <2>4
    <3> HIDE DEF G, R
    <3> QED
      BY <3>1, <3>2, <3>3, SumChanges
  <2>9. G(T)[y] = G(R)[y] + 1 /\ G(R)[y] \in Nat
    BY <2>2, <2>4
  <2>10. /\ SumFunctionOnSet(f, S) \in Nat
         /\ SumFunctionOnSet(G(T), S) # SumFunctionOnSet(f, S) + Cardinality(T)
    BY <2>1, SumIsNat
  <2> HIDE DEF G, R
  <2> QED
    BY <2>6, <2>7, <2>8, <2>9, <2>10
<1>2. B \notin Bad
  BY <1>1
<1> QED
  BY <1>2
=============================================================================
