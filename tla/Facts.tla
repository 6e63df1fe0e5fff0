--------------------------------- MODULE Facts -------------------------------
(***************************************************************************)
(* What the proofs need to know of the naturals and of sums.  The models   *)
(* add up quantities with the community modules' MapThenSumSet and         *)
(* SumFunctionOnSet, which are one recursive function that picks an        *)
(* element of the set after the other; what such a sum is, whatever is     *)
(* picked first, is shown here by taking the smallest set that would be a  *)
(* counterexample.                                                         *)
(***************************************************************************)
EXTENDS Integers, FiniteSets, Functions, FiniteSetTheorems, WellFoundedInduction, TLAPS

(* A set of naturals has a least element.                                  *)
LEMMA LeastNat ==
  ASSUME NEW S \in SUBSET Nat, S # {}
  PROVE  \E m \in S : \A n \in S : m <= n
<1> DEFINE R == OpToRel(<, Nat)
<1>1. IsWellFoundedOn(R, Nat)
  BY NatLessThanWellFounded
<1>2. \A m, n \in Nat : <<n, m>> \in R <=> n < m
  BY DEF OpToRel
<1> HIDE DEF R
<1>3. PICK m \in S : \A n \in S : ~(<<n, m>> \in R)
  BY <1>1, WFMin
<1>4. ASSUME NEW n \in S PROVE m <= n
  <2>1. m \in Nat /\ n \in Nat
    OBVIOUS
  <2>2. ~(n < m)
    BY <1>2, <1>3, <2>1
  <2> QED  BY <2>1, <2>2
<1> QED  BY <1>4

(* A set with zero and, with every natural, the next one has them all.     *)
LEMMA UpFromZero ==
  ASSUME NEW I, 0 \in I, \A n \in Nat : n \in I => n + 1 \in I, NEW n \in Nat
  PROVE  n \in I
<1> SUFFICES ASSUME Nat \ I # {} PROVE FALSE
  OBVIOUS
<1>1. PICK m \in Nat \ I : \A k \in Nat \ I : m <= k
  BY LeastNat
<1>2. m # 0 /\ m - 1 \in Nat /\ (m - 1) + 1 = m
  BY <1>1
<1>3. m - 1 \in I
  BY <1>1, <1>2
<1> QED  BY <1>1, <1>2, <1>3

-----------------------------------------------------------------------------
(* The recursion by which the library adds up the weights w of a set.      *)
Pick(T) == CHOOSE x \in T : TRUE

AddUp(w, g, D) ==
  [T \in D |-> IF T = {} THEN 0 ELSE w[Pick(T)] + g[T \ {Pick(T)}]]

Adder(w, S) == CHOOSE g : g = AddUp(w, g, SUBSET S)

LEMMA SumIsAdder ==
  ASSUME NEW w, NEW S
  PROVE  SumFunctionOnSet(w, S) = Adder(w, S)[S]
BY DEF SumFunctionOnSet, FoldFunctionOnSet, MapThenFoldSet, Adder, AddUp, Pick

LEMMA PickIn ==
  ASSUME NEW T, T # {}
  PROVE  Pick(T) \in T
BY DEF Pick

(* Taking an element out leaves a smaller set.                             *)
LEMMA OneLess ==
  ASSUME NEW S, IsFiniteSet(S), NEW T \in SUBSET S, NEW x \in T
  PROVE  /\ IsFiniteSet(T) /\ IsFiniteSet(T \ {x})
         /\ T \ {x} \in SUBSET S
         /\ Cardinality(T) \in Nat /\ Cardinality(T \ {x}) \in Nat
         /\ Cardinality(T \ {x}) + 1 = Cardinality(T)
         /\ Cardinality(T \ {x}) < Cardinality(T)
<1>1. IsFiniteSet(T)
  BY FS_Subset
<1>2. IsFiniteSet(T \ {x}) /\ Cardinality(T \ {x}) = Cardinality(T) - 1
  BY <1>1, FS_RemoveElement
<1>3. Cardinality(T) \in Nat /\ Cardinality(T \ {x}) \in Nat
  BY <1>1, <1>2, FS_CardinalityType
<1> QED  BY <1>1, <1>2, <1>3

(* A function that obeys the recursion exists: the subsets with at most n  *)
(* elements have one for every n.                                          *)
LEMMA AdderExists ==
  ASSUME NEW w, NEW S, IsFiniteSet(S)
  PROVE  \E g : g = AddUp(w, g, SUBSET S)
<1> DEFINE Upto(n) == {T \in SUBSET S : Cardinality(T) <= n}
           Bad == {n \in Nat : ~\E g : g = AddUp(w, g, Upto(n))}
<1>1. Bad = {}
  <2> SUFFICES ASSUME Bad # {} PROVE FALSE
    OBVIOUS
  <2>1. PICK m \in Bad : \A n \in Bad : m <= n
    <3>1. Bad \in SUBSET Nat
      OBVIOUS
    <3> HIDE DEF Bad
    <3> QED  BY <3>1, LeastNat
  <2>0. m \in Nat
    BY <2>1
  <2>2. ASSUME NEW g, NEW D, g = AddUp(w, g, D),
               \A T \in Upto(m) : T # {} => T \ {Pick(T)} \in D
        PROVE  FALSE
    <3> DEFINE h == AddUp(w, g, Upto(m))
    <3>1. ASSUME NEW T \in Upto(m), T # {}, Pick(T) \in T
          PROVE  h[T \ {Pick(T)}] = g[T \ {Pick(T)}]
      <4>1. T \ {Pick(T)} \in D
        BY <2>2, <3>1
      <4>2. T \ {Pick(T)} \in Upto(m)
        <5>1. m \in Nat /\ T \in SUBSET S /\ Cardinality(T) <= m
          BY <3>1
        <5>2. /\ T \ {Pick(T)} \in SUBSET S
              /\ Cardinality(T) \in Nat /\ Cardinality(T \ {Pick(T)}) \in Nat
              /\ Cardinality(T \ {Pick(T)}) + 1 = Cardinality(T)
          BY <3>1, <5>1, OneLess
        <5> QED  BY <5>1, <5>2
      <4> HIDE DEF Upto
      <4> QED  BY <4>1, <4>2, <2>2 DEF AddUp
    <3>2. h = AddUp(w, h, Upto(m))
      <4>1. \A T \in Upto(m) : T # {} => h[T \ {Pick(T)}] = g[T \ {Pick(T)}]
        BY <3>1, PickIn
      <4> HIDE DEF Upto
      <4> QED  BY <4>1 DEF AddUp
    <3> QED  BY <2>1, <3>2
  <2>3. CASE m = 0
    <3>1. \A T \in Upto(m) : T = {}
      BY <2>3, FS_Subset, FS_EmptySet, FS_CardinalityType
    <3>2. AddUp(w, <<>>, {}) = AddUp(w, AddUp(w, <<>>, {}), {})
      BY DEF AddUp
    <3> HIDE DEF Upto
    <3> QED  BY <2>2, <3>1, <3>2
  <2>4. CASE m # 0
    <3>0. m - 1 \in Nat
      BY <2>4
    <3>1. m - 1 \notin Bad
      <4> HIDE DEF Bad
      <4> QED  BY <2>0, <2>1, <3>0
    <3>2. PICK g : g = AddUp(w, g, Upto(m - 1))
      BY <3>0, <3>1
    <3>3. ASSUME NEW T \in Upto(m), T # {}
          PROVE  T \ {Pick(T)} \in Upto(m - 1)
      <4>1. T \in SUBSET S /\ Cardinality(T) <= m /\ Pick(T) \in T
        BY <3>3, PickIn
      <4>2. /\ T \ {Pick(T)} \in SUBSET S
            /\ Cardinality(T) \in Nat /\ Cardinality(T \ {Pick(T)}) \in Nat
            /\ Cardinality(T \ {Pick(T)}) + 1 = Cardinality(T)
        BY <4>1, OneLess
      <4> QED  BY <2>0, <4>1, <4>2
    <3> HIDE DEF Upto
    <3> QED  BY <2>2, <3>2, <3>3
  <2> QED  BY <2>3, <2>4
<1>2. Cardinality(S) \in Nat
  BY FS_CardinalityType
<1>3. Upto(Cardinality(S)) = SUBSET S
  BY <1>2, FS_Subset
<1> QED  BY <1>1, <1>2, <1>3

LEMMA AdderObeys ==
  ASSUME NEW w, NEW S, IsFiniteSet(S)
  PROVE  \A T \in SUBSET S :
           Adder(w, S)[T] = IF T = {} THEN 0
                            ELSE w[Pick(T)] + Adder(w, S)[T \ {Pick(T)}]
<1>1. Adder(w, S) = AddUp(w, Adder(w, S), SUBSET S)
  BY AdderExists DEF Adder
<1> QED  BY <1>1 DEF AddUp

LEMMA AddersAgree ==
  ASSUME NEW w, NEW S, IsFiniteSet(S), NEW T \in SUBSET S
  PROVE  Adder(w, T)[T] = Adder(w, S)[T]
<1> DEFINE Differ == {U \in SUBSET T : Adder(w, T)[U] # Adder(w, S)[U]}
           Sizes == {Cardinality(U) : U \in Differ}
<1>0. IsFiniteSet(T)
  BY FS_Subset
<1>1. Differ = {}
  <2> SUFFICES ASSUME Differ # {} PROVE FALSE
    OBVIOUS
  <2>1. Sizes \in SUBSET Nat /\ Sizes # {}
    BY <1>0, FS_Subset, FS_CardinalityType
  <2>2. PICK U \in Differ : \A V \in Differ : Cardinality(U) <= Cardinality(V)
    <3>1. PICK m \in Sizes : \A n \in Sizes : m <= n
      <4> HIDE DEF Sizes
      <4> QED  BY <2>1, LeastNat
    <3> QED  BY <3>1
  <2>3. U \in SUBSET T /\ U \in SUBSET S
    OBVIOUS
  <2>4. U # {}
    BY <1>0, <2>3, AdderObeys
  <2>5. Pick(U) \in U
    BY <2>4, PickIn
  <2>6. /\ U \ {Pick(U)} \in SUBSET T
        /\ Cardinality(U) \in Nat /\ Cardinality(U \ {Pick(U)}) \in Nat
        /\ Cardinality(U \ {Pick(U)}) + 1 = Cardinality(U)
    BY <1>0, <2>3, <2>5, OneLess
  <2>7. U \ {Pick(U)} \notin Differ
    <3> HIDE DEF Differ
    <3> QED  BY <2>2, <2>6
  <2>8. Adder(w, T)[U \ {Pick(U)}] = Adder(w, S)[U \ {Pick(U)}]
    BY <2>6, <2>7
  <2>9. /\ Adder(w, T)[U] = w[Pick(U)] + Adder(w, T)[U \ {Pick(U)}]
        /\ Adder(w, S)[U] = w[Pick(U)] + Adder(w, S)[U \ {Pick(U)}]
    <3> HIDE DEF Differ
    <3>1. Adder(w, T)[U] = w[Pick(U)] + Adder(w, T)[U \ {Pick(U)}]
      BY <1>0, <2>3, <2>4, AdderObeys
    <3>2. Adder(w, S)[U] = w[Pick(U)] + Adder(w, S)[U \ {Pick(U)}]
      BY <2>3, <2>4, AdderObeys
    <3> QED  BY <3>1, <3>2
  <2> QED  BY <2>8, <2>9
<1> QED  BY <1>1

(* The sum of the empty set, and of a set by way of the element picked.    *)
LEMMA SumEmpty ==
  ASSUME NEW w
  PROVE  SumFunctionOnSet(w, {}) = 0
BY SumIsAdder, AdderObeys, FS_EmptySet

LEMMA SumPicked ==
  ASSUME NEW w, NEW S, IsFiniteSet(S), S # {}
  PROVE  SumFunctionOnSet(w, S) = w[Pick(S)] + SumFunctionOnSet(w, S \ {Pick(S)})
<1>1. S \ {Pick(S)} \in SUBSET S /\ S \in SUBSET S
  OBVIOUS
<1>2. Adder(w, S \ {Pick(S)})[S \ {Pick(S)}] = Adder(w, S)[S \ {Pick(S)}]
  BY <1>1, AddersAgree
<1> QED  BY <1>1, <1>2, AdderObeys, SumIsAdder

(* A set of sets that is not empty has one of the smallest size.           *)
LEMMA SmallestSet ==
  ASSUME NEW Sets, Sets # {}, \A T \in Sets : IsFiniteSet(T)
  PROVE  \E T \in Sets : \A U \in Sets : ~(Cardinality(U) < Cardinality(T))
<1> DEFINE Sizes == {Cardinality(T) : T \in Sets}
<1>1. Sizes \in SUBSET Nat /\ Sizes # {}
  BY FS_CardinalityType
<1>2. PICK m \in Sizes : \A n \in Sizes : m <= n
  <2> HIDE DEF Sizes
  <2> QED  BY <1>1, LeastNat
<1>3. PICK T \in Sets : m = Cardinality(T)
  BY <1>2
<1>4. ASSUME NEW U \in Sets PROVE ~(Cardinality(U) < Cardinality(T))
  BY <1>1, <1>2, <1>3
<1> QED  BY <1>4

(* Sums of integers are integers, sums of naturals are naturals.           *)
LEMMA SumIn ==
  ASSUME NEW w, NEW S, IsFiniteSet(S), NEW Typ, Typ = Int \/ Typ = Nat,
         \A x \in S : w[x] \in Typ
  PROVE  SumFunctionOnSet(w, S) \in Typ
<1> DEFINE Bad == {T \in SUBSET S : SumFunctionOnSet(w, T) \notin Typ}
<1>1. Bad = {}
  <2> SUFFICES ASSUME Bad # {} PROVE FALSE
    OBVIOUS
  <2>1. PICK T \in Bad : \A U \in Bad : ~(Cardinality(U) < Cardinality(T))
    <3>1. \A T \in Bad : IsFiniteSet(T)
      BY FS_Subset
    <3> HIDE DEF Bad
    <3> QED  BY <3>1, SmallestSet
  <2>2. T \in SUBSET S /\ SumFunctionOnSet(w, T) \notin Typ
    OBVIOUS
  <2>3. T # {} /\ IsFiniteSet(T)
    <3>1. SumFunctionOnSet(w, {}) \in Typ
      BY SumEmpty
    <3> QED  BY <2>2, <3>1, FS_Subset
  <2>4. Pick(T) \in T
    BY <2>3, PickIn
  <2>5. /\ T \ {Pick(T)} \in SUBSET S
        /\ Cardinality(T \ {Pick(T)}) < Cardinality(T)
    BY <2>2, <2>4, OneLess
  <2>6. T \ {Pick(T)} \notin Bad
    <3> HIDE DEF Bad
    <3> QED  BY <2>1, <2>5
  <2>7. SumFunctionOnSet(w, T) = w[Pick(T)] + SumFunctionOnSet(w, T \ {Pick(T)})
    BY <2>3, SumPicked
  <2> QED  BY <2>2, <2>4, <2>5, <2>6, <2>7
<1> QED  BY <1>1

(* Nothing adds up to nothing.                                             *)
LEMMA SumZero ==
  ASSUME NEW w, NEW S, IsFiniteSet(S), \A x \in S : w[x] = 0
  PROVE  SumFunctionOnSet(w, S) = 0
<1> DEFINE Bad == {T \in SUBSET S : SumFunctionOnSet(w, T) # 0}
<1>1. Bad = {}
  <2> SUFFICES ASSUME Bad # {} PROVE FALSE
    OBVIOUS
  <2>1. PICK T \in Bad : \A U \in Bad : ~(Cardinality(U) < Cardinality(T))
    <3>1. \A T \in Bad : IsFiniteSet(T)
      BY FS_Subset
    <3> HIDE DEF Bad
    <3> QED  BY <3>1, SmallestSet
  <2>2. T \in SUBSET S /\ SumFunctionOnSet(w, T) # 0
    OBVIOUS
  <2>3. T # {} /\ IsFiniteSet(T)
    BY <2>2, SumEmpty, FS_Subset
  <2>4. Pick(T) \in T
    BY <2>3, PickIn
  <2>5. /\ T \ {Pick(T)} \in SUBSET S
        /\ Cardinality(T \ {Pick(T)}) < Cardinality(T)
    BY <2>2, <2>4, OneLess
  <2>6. T \ {Pick(T)} \notin Bad
    <3> HIDE DEF Bad
    <3> QED  BY <2>1, <2>5
  <2>7. SumFunctionOnSet(w, T) = w[Pick(T)] + SumFunctionOnSet(w, T \ {Pick(T)})
    BY <2>3, SumPicked
  <2> QED  BY <2>2, <2>4, <2>5, <2>6, <2>7
<1> QED  BY <1>1

LEMMA SumInt ==
  ASSUME NEW w, NEW S, IsFiniteSet(S), \A x \in S : w[x] \in Int
  PROVE  SumFunctionOnSet(w, S) \in Int
BY SumIn

LEMMA SumNat ==
  ASSUME NEW w, NEW S, IsFiniteSet(S), \A x \in S : w[x] \in Nat
  PROVE  SumFunctionOnSet(w, S) \in Nat
BY SumIn

(* The sum does not depend on which element is taken first.                *)
LEMMA SumRemove ==
  ASSUME NEW w, NEW S, IsFiniteSet(S), \A x \in S : w[x] \in Int, NEW x \in S
  PROVE  SumFunctionOnSet(w, S) = w[x] + SumFunctionOnSet(w, S \ {x})
<1> DEFINE Right(T, e) == SumFunctionOnSet(w, T) = w[e] + SumFunctionOnSet(w, T \ {e})
           Bad == {T \in SUBSET S : \E e \in T : ~Right(T, e)}
<1>1. Bad = {}
  <2> SUFFICES ASSUME Bad # {} PROVE FALSE
    OBVIOUS
  <2>1. PICK T \in Bad : \A U \in Bad : ~(Cardinality(U) < Cardinality(T))
    <3>1. \A T \in Bad : IsFiniteSet(T)
      BY FS_Subset
    <3> HIDE DEF Bad
    <3> QED  BY <3>1, SmallestSet
  <2>2. PICK e \in T : ~Right(T, e)
    OBVIOUS
  <2> DEFINE p == Pick(T)
  <2>3. T \in SUBSET S /\ IsFiniteSet(T) /\ p \in T
    BY FS_Subset, PickIn
  <2>4. Right(T, p)
    BY <2>3, SumPicked
  <2>5. p # e
    BY <2>2, <2>4
  <2> HIDE DEF p, Right
  <2>6. ASSUME NEW a \in T, NEW b \in T \ {a} PROVE Right(T \ {a}, b)
    <3>1. T \ {a} \in SUBSET S /\ Cardinality(T \ {a}) < Cardinality(T)
      <4> HIDE DEF Bad
      <4> QED  BY <2>3, OneLess
    <3>2. T \ {a} \notin Bad
      <4> HIDE DEF Bad
      <4> QED  BY <2>1, <3>1
    <3> QED  BY <3>1, <3>2
  <2>7. Right(T \ {p}, e) /\ Right(T \ {e}, p)
    BY <2>3, <2>5, <2>6
  <2>8. (T \ {p}) \ {e} = (T \ {e}) \ {p}
    OBVIOUS
  <2>9. SumFunctionOnSet(w, (T \ {p}) \ {e}) \in Int /\ w[p] \in Int /\ w[e] \in Int
    <3>1. (T \ {p}) \ {e} \in SUBSET S
      BY <2>3
    <3>2. IsFiniteSet((T \ {p}) \ {e})
      BY <3>1, FS_Subset
    <3>3. \A y \in (T \ {p}) \ {e} : w[y] \in Int
      BY <3>1
    <3> QED  BY <2>2, <2>3, <3>2, <3>3, SumInt
  <2>10. /\ SumFunctionOnSet(w, T) = w[p] + (w[e] + SumFunctionOnSet(w, (T \ {p}) \ {e}))
         /\ SumFunctionOnSet(w, T \ {e}) = w[p] + SumFunctionOnSet(w, (T \ {p}) \ {e})
    BY <2>4, <2>7, <2>8 DEF Right
  <2>11. SumFunctionOnSet(w, T) = w[e] + SumFunctionOnSet(w, T \ {e})
    BY <2>9, <2>10
  <2> QED  BY <2>2, <2>11 DEF Right
<1> QED  BY <1>1

LEMMA SumAdd ==
  ASSUME NEW w, NEW S, IsFiniteSet(S), NEW x, x \notin S,
         \A y \in S \cup {x} : w[y] \in Int
  PROVE  SumFunctionOnSet(w, S \cup {x}) = w[x] + SumFunctionOnSet(w, S)
<1>1. IsFiniteSet(S \cup {x}) /\ (S \cup {x}) \ {x} = S
  BY FS_AddElement
<1> QED  BY <1>1, SumRemove

(* Only the weights of the elements of the set matter.                     *)
LEMMA SumSame ==
  ASSUME NEW w, NEW v, NEW S, \A x \in S : w[x] = v[x]
  PROVE  SumFunctionOnSet(w, S) = SumFunctionOnSet(v, S)
<1>1. ASSUME NEW T \in SUBSET S, T # {} PROVE w[Pick(T)] = v[Pick(T)]
  BY <1>1, PickIn
<1>2. ASSUME NEW g PROVE AddUp(w, g, SUBSET S) = AddUp(v, g, SUBSET S)
  BY <1>1 DEF AddUp
<1>3. Adder(w, S) = Adder(v, S)
  BY <1>2 DEF Adder
<1> QED  BY <1>3, SumIsAdder

(* A weight that changes changes the sum by as much.                       *)
LEMMA SumUpdate ==
  ASSUME NEW w, NEW v, NEW S, IsFiniteSet(S), NEW x \in S,
         \A y \in S : w[y] \in Int /\ v[y] \in Int,
         \A y \in S \ {x} : w[y] = v[y]
  PROVE  SumFunctionOnSet(v, S) = SumFunctionOnSet(w, S) - w[x] + v[x]
<1>1. SumFunctionOnSet(v, S \ {x}) = SumFunctionOnSet(w, S \ {x})
  BY SumSame
<1>2. /\ SumFunctionOnSet(w, S) = w[x] + SumFunctionOnSet(w, S \ {x})
      /\ SumFunctionOnSet(v, S) = v[x] + SumFunctionOnSet(v, S \ {x})
  BY SumRemove
<1>3. SumFunctionOnSet(w, S \ {x}) \in Int
  BY SumInt, FS_RemoveElement
<1> QED  BY <1>1, <1>2, <1>3

(* Disjoint sets.                                                          *)
LEMMA SumUnion ==
  ASSUME NEW w, NEW S, NEW T, IsFiniteSet(S), IsFiniteSet(T), S \cap T = {},
         \A x \in S \cup T : w[x] \in Int
  PROVE  SumFunctionOnSet(w, S \cup T) = SumFunctionOnSet(w, S) + SumFunctionOnSet(w, T)
<1> DEFINE Right(U) ==
             SumFunctionOnSet(w, S \cup U) = SumFunctionOnSet(w, S) + SumFunctionOnSet(w, U)
           Bad == {U \in SUBSET T : ~Right(U)}
<1>0. \A U \in SUBSET T : SumFunctionOnSet(w, U) \in Int
  BY SumInt, FS_Subset
<1>1. SumFunctionOnSet(w, S) \in Int
  BY SumInt
<1>2. Bad = {}
  <2> SUFFICES ASSUME Bad # {} PROVE FALSE
    OBVIOUS
  <2>1. PICK U \in Bad : \A V \in Bad : ~(Cardinality(V) < Cardinality(U))
    <3>1. \A U \in Bad : IsFiniteSet(U)
      BY FS_Subset
    <3> HIDE DEF Bad
    <3> QED  BY <3>1, SmallestSet
  <2>2. U \in SUBSET T /\ ~Right(U)
    OBVIOUS
  <2>3. U # {}
    <3>1. S \cup {} = S
      OBVIOUS
    <3> QED  BY <1>1, <2>2, <3>1, SumEmpty
  <2>4. PICK x : x \in U
    BY <2>3
  <2>5. /\ U \ {x} \in SUBSET T
        /\ Cardinality(U \ {x}) < Cardinality(U)
        /\ IsFiniteSet(U)
    BY <2>2, <2>4, OneLess
  <2>6. Right(U \ {x})
    <3>1. U \ {x} \notin Bad
      <4> HIDE DEF Bad
      <4> QED  BY <2>1, <2>5
    <3> QED  BY <2>5, <3>1
  <2>7. SumFunctionOnSet(w, U) = w[x] + SumFunctionOnSet(w, U \ {x})
    <3>1. \A y \in U : w[y] \in Int
      BY <2>2
    <3> QED  BY <2>4, <2>5, <3>1, SumRemove
  <2>8. SumFunctionOnSet(w, S \cup U) = w[x] + SumFunctionOnSet(w, S \cup (U \ {x}))
    <3>1. (S \cup U) \ {x} = S \cup (U \ {x}) /\ x \in S \cup U
      BY <2>2, <2>4
    <3>2. IsFiniteSet(S \cup U)
      BY <2>5, FS_Union
    <3>3. \A y \in S \cup U : w[y] \in Int
      BY <2>2
    <3> HIDE DEF Bad
    <3>4. SumFunctionOnSet(w, S \cup U) = w[x] + SumFunctionOnSet(w, (S \cup U) \ {x})
      BY <3>1, <3>2, <3>3, SumRemove
    <3> QED  BY <3>1, <3>4
  <2>9. w[x] \in Int /\ SumFunctionOnSet(w, U \ {x}) \in Int
    BY <1>0, <2>2, <2>4, <2>5
  <2> HIDE DEF Bad
  <2> QED  BY <1>1, <2>2, <2>6, <2>7, <2>8, <2>9
<1> QED  BY <1>2

(* A part weighs no more than the whole.                                   *)
LEMMA SumSubset ==
  ASSUME NEW w, NEW S, IsFiniteSet(S), NEW T \in SUBSET S, \A x \in S : w[x] \in Nat
  PROVE  SumFunctionOnSet(w, T) <= SumFunctionOnSet(w, S)
<1>1. IsFiniteSet(T) /\ IsFiniteSet(S \ T)
  BY FS_Subset
<1>2. T \cup (S \ T) = S /\ T \cap (S \ T) = {}
  OBVIOUS
<1>3. SumFunctionOnSet(w, T) \in Nat /\ SumFunctionOnSet(w, S \ T) \in Nat
  BY <1>1, SumNat
<1>4. SumFunctionOnSet(w, S) = SumFunctionOnSet(w, T) + SumFunctionOnSet(w, S \ T)
  <2>1. SumFunctionOnSet(w, T \cup (S \ T))
          = SumFunctionOnSet(w, T) + SumFunctionOnSet(w, S \ T)
    BY <1>1, <1>2, SumUnion
  <2> QED  BY <1>2, <2>1
<1> QED  BY <1>3, <1>4

(* Sums over the positions of a sequence: the last one more, the first one *)
(* less.                                                                   *)
LEMMA SumLast ==
  ASSUME NEW w, NEW n \in Nat, \A i \in 1 .. n + 1 : w[i] \in Int
  PROVE  /\ SumFunctionOnSet(w, 1 .. n + 1) = w[n + 1] + SumFunctionOnSet(w, 1 .. n)
         /\ SumFunctionOnSet(w, 1 .. n) \in Int
<1>1. IsFiniteSet(1 .. n)
  BY FS_Interval
<1>2. 1 .. n + 1 = (1 .. n) \cup {n + 1} /\ n + 1 \notin 1 .. n
  OBVIOUS
<1>3. \A i \in (1 .. n) \cup {n + 1} : w[i] \in Int
  BY <1>2
<1>4. SumFunctionOnSet(w, (1 .. n) \cup {n + 1}) = w[n + 1] + SumFunctionOnSet(w, 1 .. n)
  BY <1>1, <1>2, <1>3, SumAdd
<1>5. SumFunctionOnSet(w, 1 .. n) \in Int
  BY <1>1, SumInt
<1> QED  BY <1>2, <1>4, <1>5

LEMMA SumFirst ==
  ASSUME NEW w, NEW v, NEW n \in Nat, \A i \in 1 .. n + 1 : w[i] \in Int,
         \A i \in 1 .. n : v[i] = w[i + 1]
  PROVE  SumFunctionOnSet(w, 1 .. n + 1) = w[1] + SumFunctionOnSet(v, 1 .. n)
<1> DEFINE Right(k) == SumFunctionOnSet(w, 1 .. k + 1) = w[1] + SumFunctionOnSet(v, 1 .. k)
           I == {k \in Nat : k <= n => Right(k)}
<1>1. Right(0)
  <2>1. 1 .. 0 = {} /\ 1 .. 0 + 1 = {} \cup {1} /\ w[1] \in Int
    OBVIOUS
  <2>2. SumFunctionOnSet(w, {} \cup {1}) = w[1] + SumFunctionOnSet(w, {})
    BY <2>1, FS_EmptySet, SumAdd
  <2> QED  BY <2>1, <2>2, SumEmpty
<1>2. ASSUME NEW k \in Nat, k + 1 <= n, Right(k) PROVE Right(k + 1)
  <2>1. \A i \in 1 .. k + 1 : w[i] \in Int /\ v[i] \in Int
    BY <1>2
  <2>2. w[k + 2] \in Int /\ v[k + 1] = w[k + 2] /\ w[1] \in Int
    BY <1>2
  <2>3. \A i \in 1 .. (k + 1) + 1 : w[i] \in Int
    BY <1>2
  <2>4. /\ SumFunctionOnSet(w, 1 .. (k + 1) + 1)
             = w[(k + 1) + 1] + SumFunctionOnSet(w, 1 .. k + 1)
        /\ SumFunctionOnSet(w, 1 .. k + 1) \in Int
    BY <2>3, SumLast
  <2>5. /\ SumFunctionOnSet(v, 1 .. k + 1) = v[k + 1] + SumFunctionOnSet(v, 1 .. k)
        /\ SumFunctionOnSet(v, 1 .. k) \in Int
    BY <2>1, SumLast
  <2> QED  BY <1>2, <2>2, <2>4, <2>5
<1> HIDE DEF Right
<1>3. 0 \in I
  BY <1>1
<1>4. ASSUME NEW k \in Nat, k \in I PROVE k + 1 \in I
  BY <1>2, <1>4
<1> HIDE DEF I
<1>5. n \in I
  BY <1>3, <1>4, UpFromZero
<1> QED  BY <1>5 DEF I, Right

-----------------------------------------------------------------------------
(* The quantities of a set of records: child orders, fills, journal rows.  *)
Total(S) == SumFunctionOnSet([m \in S |-> m.qty], S)

LEMMA TotalOver ==
  ASSUME NEW S, NEW D, S \subseteq D
  PROVE  Total(S) = SumFunctionOnSet([m \in D |-> m.qty], S)
<1>1. \A m \in S : [n \in S |-> n.qty][m] = [n \in D |-> n.qty][m]
  OBVIOUS
<1> QED  BY <1>1, SumSame DEF Total

LEMMA TotalEmpty == Total({}) = 0
BY SumEmpty DEF Total

LEMMA TotalNat ==
  ASSUME NEW S, IsFiniteSet(S), \A m \in S : m.qty \in Nat
  PROVE  Total(S) \in Nat
BY SumNat DEF Total

LEMMA TotalRemove ==
  ASSUME NEW S, IsFiniteSet(S), \A m \in S : m.qty \in Nat, NEW x \in S
  PROVE  /\ Total(S) = x.qty + Total(S \ {x})
         /\ Total(S \ {x}) \in Nat
<1>1. Total(S \ {x}) = SumFunctionOnSet([m \in S |-> m.qty], S \ {x})
  BY TotalOver
<1>2. SumFunctionOnSet([m \in S |-> m.qty], S)
        = x.qty + SumFunctionOnSet([m \in S |-> m.qty], S \ {x})
  BY SumRemove
<1>3. Total(S \ {x}) \in Nat
  BY TotalNat, FS_RemoveElement
<1> QED  BY <1>1, <1>2, <1>3 DEF Total

LEMMA TotalAdd ==
  ASSUME NEW S, IsFiniteSet(S), NEW x, x \notin S, \A m \in S \cup {x} : m.qty \in Nat
  PROVE  Total(S \cup {x}) = x.qty + Total(S)
<1>1. IsFiniteSet(S \cup {x}) /\ (S \cup {x}) \ {x} = S
  BY FS_AddElement
<1> QED  BY <1>1, TotalRemove

LEMMA TotalSubset ==
  ASSUME NEW S, IsFiniteSet(S), NEW T \in SUBSET S, \A m \in S : m.qty \in Nat
  PROVE  Total(T) <= Total(S)
BY TotalOver, SumSubset DEF Total
=============================================================================
