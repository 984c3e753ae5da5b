---------------------------- MODULE SumTheorems -----------------------------
(***************************************************************************)
(* What SumFunctionOnSet of the community module Functions computes, for   *)
(* every finite set: the fold takes the elements in an unspecified order,  *)
(* and these theorems say that the order does not matter and how a sum     *)
(* changes with its set and with its function.                             *)
(*                                                                         *)
(* The induction principles of the library have an operator as parameter.  *)
(* Here induction is over the set of numbers, or of subsets, that have the *)
(* property, and rests on the well-foundedness of the order (WFMin).       *)
(***************************************************************************)
EXTENDS Integers, Functions, FiniteSets, FiniteSetTheorems, WellFoundedInduction, TLAPS

-----------------------------------------------------------------------------
(* Induction. *)

\* A set of natural numbers that holds 0 and every successor is all of them.
LEMMA SetInduction ==
  ASSUME NEW S \in SUBSET Nat, 0 \in S, \A n \in S : n + 1 \in S
  PROVE  S = Nat
<1> DEFINE T == Nat \ S
           R == OpToRel(<, Nat)
<1>1. SUFFICES ASSUME T # {} PROVE FALSE
  OBVIOUS
<1>2. PICK x \in T : \A y \in T : ~(<<y, x>> \in R)
  <2>1. IsWellFoundedOn(R, Nat)
    BY NatLessThanWellFounded
  <2> HIDE DEF R
  <2> QED BY <1>1, <2>1, WFMin
<1>3. x - 1 \in Nat /\ x - 1 \in S
  <2>1. x # 0 /\ x \in Nat
    OBVIOUS
  <2>2. x - 1 \in Nat /\ <<x - 1, x>> \in R
    BY <2>1 DEF OpToRel
  <2> QED BY <1>2, <2>2
<1>4. x - 1 + 1 \in S
  BY <1>3
<1> QED BY <1>3, <1>4

-----------------------------------------------------------------------------
(* The recursion behind the fold. *)

\* The element the fold takes first, and the value it gives a set when it has
\* values g for the smaller ones.
FirstOf(s) == CHOOSE x \in s : TRUE

FoldStep(f, g, s) == IF s = {} THEN 0 ELSE f[FirstOf(s)] + g[s \ {FirstOf(s)}]

\* g gives every set in D the value of the fold.
ComputesSum(f, g, D) == g = [s \in D |-> FoldStep(f, g, s)]

SubsetsUpTo(T, n) == {s \in SUBSET T : Cardinality(s) <= n}

\* The fold is the recursive function its definition chooses.
LEMMA Unfold ==
  ASSUME NEW f, NEW T
  PROVE SumFunctionOnSet(f, T) = (CHOOSE g : g = [s \in SUBSET T |-> FoldStep(f, g, s)])[T]
BY DEF SumFunctionOnSet, FoldFunctionOnSet, MapThenFoldSet, FoldStep, FirstOf

\* The element taken first is one of the set.
LEMMA FirstIn == ASSUME NEW s, s # {} PROVE FirstOf(s) \in s
BY DEF FirstOf

\* That function exists, for every finite set.
LEMMA RecursionExists ==
  ASSUME NEW f, NEW T, IsFiniteSet(T)
  PROVE  \E g : ComputesSum(f, g, SUBSET T)
<1> DEFINE Good == {n \in Nat : \E g : ComputesSum(f, g, SubsetsUpTo(T, n))}
<1>1. \A s \in SUBSET T : IsFiniteSet(s) /\ Cardinality(s) \in Nat
  BY FS_Subset, FS_CardinalityType
<1>2. \A s \in SUBSET T : s # {} => /\ s \ {FirstOf(s)} \in SUBSET T
                                    /\ Cardinality(s \ {FirstOf(s)}) = Cardinality(s) - 1
                                    /\ Cardinality(s) > 0
  <2> SUFFICES ASSUME NEW s \in SUBSET T, s # {}
               PROVE  /\ s \ {FirstOf(s)} \in SUBSET T
                      /\ Cardinality(s \ {FirstOf(s)}) = Cardinality(s) - 1
                      /\ Cardinality(s) > 0
    OBVIOUS
  <2>1. FirstOf(s) \in s
    BY FirstIn
  <2>2. Cardinality(s \ {FirstOf(s)}) = Cardinality(s) - 1 
    BY <1>1, <2>1, FS_RemoveElement
  <2>3. Cardinality(s \ {FirstOf(s)}) \in Nat
    BY <1>1
  <2> QED BY <1>1, <2>2, <2>3
<1>3. 0 \in Good
  <2> DEFINE g == [s \in SubsetsUpTo(T, 0) |-> 0]
  <2>1. \A s \in SubsetsUpTo(T, 0) : s = {}
    <3> SUFFICES ASSUME NEW s \in SubsetsUpTo(T, 0), s # {} PROVE FALSE
      OBVIOUS
    <3>1. s \in SUBSET T /\ Cardinality(s) <= 0
      BY DEF SubsetsUpTo
    <3>2. Cardinality(s) \in Nat
      BY <1>1, <3>1
    <3>3. Cardinality(s) > 0
      BY <1>2, <3>1
    <3> QED BY <3>1, <3>2, <3>3
  <2>2. ComputesSum(f, g, SubsetsUpTo(T, 0))
    BY <2>1 DEF ComputesSum, FoldStep
  <2> QED BY <2>2
<1>4. \A n \in Good : n + 1 \in Good
  <2> SUFFICES ASSUME NEW n \in Nat, NEW g, ComputesSum(f, g, SubsetsUpTo(T, n))
               PROVE  \E h : ComputesSum(f, h, SubsetsUpTo(T, n + 1))
    OBVIOUS
  <2> DEFINE h == [s \in SubsetsUpTo(T, n + 1) |-> FoldStep(f, g, s)]
  <2>1. \A s \in SubsetsUpTo(T, n) : s \in SubsetsUpTo(T, n + 1) /\ h[s] = g[s]
    <3>1. \A s \in SubsetsUpTo(T, n) : s \in SubsetsUpTo(T, n + 1)
      BY <1>1 DEF SubsetsUpTo
    <3>2. \A s \in SubsetsUpTo(T, n) : g[s] = FoldStep(f, g, s)
      BY DEF ComputesSum
    <3> QED BY <3>1, <3>2
  <2>2. \A s \in SubsetsUpTo(T, n + 1) : s # {} => s \ {FirstOf(s)} \in SubsetsUpTo(T, n)
    BY <1>1, <1>2 DEF SubsetsUpTo
  <2>3. \A s \in SubsetsUpTo(T, n + 1) : FoldStep(f, h, s) = FoldStep(f, g, s)
    <3> HIDE DEF h
    <3> QED BY <2>1, <2>2 DEF FoldStep
  <2>4. ComputesSum(f, h, SubsetsUpTo(T, n + 1))
    BY <2>3 DEF ComputesSum
  <2> QED BY <2>4
<1>5. Good = Nat
  <2> HIDE DEF Good
  <2> QED BY <1>3, <1>4, SetInduction DEF Good
<1>6. Cardinality(T) \in Good
  BY <1>5, FS_CardinalityType
<1>7. SubsetsUpTo(T, Cardinality(T)) = SUBSET T
  BY FS_Subset, FS_CardinalityType DEF SubsetsUpTo
<1> QED BY <1>6, <1>7

\* The fold computes the recursion it is defined by.
LEMMA SumUnfolds ==
  ASSUME NEW f, NEW T, IsFiniteSet(T)
  PROVE  \E g : /\ ComputesSum(f, g, SUBSET T)
               /\ SumFunctionOnSet(f, T) = g[T]
<1> DEFINE G == CHOOSE g : g = [s \in SUBSET T |-> FoldStep(f, g, s)]
<1>1. ComputesSum(f, G, SUBSET T)
  <2>1. \E g : g = [s \in SUBSET T |-> FoldStep(f, g, s)]
    BY RecursionExists DEF ComputesSum
  <2> QED BY <2>1 DEF ComputesSum
<1>2. SumFunctionOnSet(f, T) = G[T]
  BY Unfold
<1> QED BY <1>1, <1>2

\* On a smaller set the recursion has the same values.
LEMMA RecursionAgrees ==
  ASSUME NEW f, NEW T, NEW U, IsFiniteSet(T), IsFiniteSet(U), NEW g, NEW h,
         ComputesSum(f, g, SUBSET T), ComputesSum(f, h, SUBSET U)
  PROVE  \A s \in SUBSET (T \intersect U) : g[s] = h[s]
<1> DEFINE Good == {n \in Nat : \A s \in SUBSET (T \intersect U) : Cardinality(s) <= n => g[s] = h[s]}
<1>0. \A s \in SUBSET (T \intersect U) : IsFiniteSet(s) /\ Cardinality(s) \in Nat
  BY FS_Subset, FS_CardinalityType
<1>1. \A s \in SUBSET (T \intersect U) : g[s] = FoldStep(f, g, s) /\ h[s] = FoldStep(f, h, s)
  BY DEF ComputesSum
<1>2. ASSUME NEW s \in SUBSET (T \intersect U), s # {}
      PROVE  /\ s \ {FirstOf(s)} \in SUBSET (T \intersect U)
             /\ Cardinality(s \ {FirstOf(s)}) = Cardinality(s) - 1
             /\ Cardinality(s) > 0
  <2>1. FirstOf(s) \in s
    BY <1>2, FirstIn
  <2>2. Cardinality(s \ {FirstOf(s)}) = Cardinality(s) - 1
    BY <1>0, <2>1, FS_RemoveElement
  <2>3. Cardinality(s \ {FirstOf(s)}) \in Nat
    BY <1>0
  <2> QED BY <1>0, <2>2, <2>3
<1>3. 0 \in Good
  <2> SUFFICES ASSUME NEW s \in SUBSET (T \intersect U), Cardinality(s) <= 0
               PROVE  g[s] = h[s]
    OBVIOUS
  <2>1. s = {}
    <3>1. Cardinality(s) \in Nat
      BY <1>0
    <3>2. CASE s # {}
      <4>1. Cardinality(s) > 0
        BY <1>2, <3>2
      <4> QED BY <3>1, <4>1
    <3> QED BY <3>2
  <2> QED BY <1>1, <2>1 DEF FoldStep
<1>4. \A n \in Good : n + 1 \in Good
  <2> SUFFICES ASSUME NEW n \in Good, NEW s \in SUBSET (T \intersect U), Cardinality(s) <= n + 1
               PROVE  g[s] = h[s]
    OBVIOUS
  <2>1. CASE s = {}
    BY <1>1, <2>1 DEF FoldStep
  <2>2. CASE s # {}
    <3>1. s \ {FirstOf(s)} \in SUBSET (T \intersect U) /\ Cardinality(s \ {FirstOf(s)}) <= n
      BY <1>0, <1>2, <2>2
    <3>2. g[s \ {FirstOf(s)}] = h[s \ {FirstOf(s)}]
      BY <3>1
    <3> QED BY <1>1, <2>2, <3>2 DEF FoldStep
  <2> QED BY <2>1, <2>2
<1>5. Good = Nat
  <2> HIDE DEF Good
  <2> QED BY <1>3, <1>4, SetInduction DEF Good
<1> QED BY <1>0, <1>5

\* Nothing sums to zero.
THEOREM SumEmpty == ASSUME NEW f PROVE SumFunctionOnSet(f, {}) = 0
<1>1. PICK g : ComputesSum(f, g, SUBSET {}) /\ SumFunctionOnSet(f, {}) = g[{}]
  BY SumUnfolds, FS_EmptySet
<1> QED BY <1>1 DEF ComputesSum, FoldStep

\* Taking the first element out of a sum.
LEMMA SumFirst ==
  ASSUME NEW f, NEW T, IsFiniteSet(T), T # {}
  PROVE  SumFunctionOnSet(f, T) = f[FirstOf(T)] + SumFunctionOnSet(f, T \ {FirstOf(T)})
<1> DEFINE U == T \ {FirstOf(T)}
<1>1. PICK g : ComputesSum(f, g, SUBSET T) /\ SumFunctionOnSet(f, T) = g[T]
  BY SumUnfolds
<1>2. IsFiniteSet(U) /\ U \in SUBSET (T \intersect U)
  BY FS_Subset
<1>3. PICK h : ComputesSum(f, h, SUBSET U) /\ SumFunctionOnSet(f, U) = h[U]
  BY <1>2, SumUnfolds
<1>4. g[U] = h[U]
  <2> HIDE DEF U
  <2>1. \A s \in SUBSET (T \intersect U) : g[s] = h[s]
    BY <1>1, <1>2, <1>3, RecursionAgrees
  <2> QED BY <1>2, <2>1
<1>5. g[T] = FoldStep(f, g, T)
  BY <1>1 DEF ComputesSum
<1> QED BY <1>1, <1>3, <1>4, <1>5 DEF FoldStep

\* A set without its first element is smaller by one.
LEMMA TakeOneOut ==
  ASSUME NEW s, IsFiniteSet(s), s # {}
  PROVE  /\ FirstOf(s) \in s
         /\ IsFiniteSet(s \ {FirstOf(s)})
         /\ Cardinality(s) \in Nat
         /\ Cardinality(s \ {FirstOf(s)}) \in Nat
         /\ Cardinality(s) = Cardinality(s \ {FirstOf(s)}) + 1
<1>1. FirstOf(s) \in s
  BY FirstIn
<1>2. IsFiniteSet(s \ {FirstOf(s)}) /\ Cardinality(s \ {FirstOf(s)}) = Cardinality(s) - 1
  BY <1>1, FS_RemoveElement
<1>3. Cardinality(s) \in Nat /\ Cardinality(s \ {FirstOf(s)}) \in Nat
  BY <1>2, FS_CardinalityType
<1> QED BY <1>1, <1>2, <1>3

\* Induction on a finite set, over the sets that have the property.
THEOREM FiniteInduction ==
  ASSUME NEW T, IsFiniteSet(T), NEW Good \in SUBSET (SUBSET T),
         {} \in Good,
         \A s \in Good : \A x \in T \ s : s \union {x} \in Good
  PROVE  T \in Good
<1> DEFINE N == {n \in Nat : \A s \in SUBSET T : Cardinality(s) = n => s \in Good}
<1>1. 0 \in N
  <2> SUFFICES ASSUME NEW s \in SUBSET T, Cardinality(s) = 0 PROVE s \in Good
    OBVIOUS
  <2>1. s = {}
    BY FS_Subset, FS_EmptySet
  <2> QED BY <2>1
<1>2. \A n \in N : n + 1 \in N
  <2> SUFFICES ASSUME NEW n \in N, NEW s \in SUBSET T, Cardinality(s) = n + 1
               PROVE  s \in Good
    OBVIOUS
  <2>1. IsFiniteSet(s)
    BY FS_Subset
  <2>2. s # {}
    <3>1. Cardinality(s) # 0
      OBVIOUS
    <3> QED BY <3>1, FS_EmptySet
  <2> DEFINE x == FirstOf(s)
             u == s \ {x}
  <2>3. x \in s /\ Cardinality(u) \in Nat /\ Cardinality(s) = Cardinality(u) + 1
    BY <2>1, <2>2, TakeOneOut
  <2>4. Cardinality(u) = n
    BY <2>3
  <2>5. u \in Good
    BY <2>4
  <2>6. s = u \union {x} /\ x \in T \ u
    BY <2>3
  <2> QED BY <2>5, <2>6
<1>3. N = Nat
  <2> HIDE DEF N
  <2> QED BY <1>1, <1>2, SetInduction DEF N
<1> QED BY <1>3, FS_CardinalityType

\* A sum of integers is an integer.
THEOREM SumInt ==
  ASSUME NEW T, IsFiniteSet(T), NEW f, \A x \in T : f[x] \in Int
  PROVE  SumFunctionOnSet(f, T) \in Int
<1> DEFINE N == {n \in Nat : \A s \in SUBSET T :
                   Cardinality(s) = n => SumFunctionOnSet(f, s) \in Int}
<1>1. 0 \in N
  <2> SUFFICES ASSUME NEW s \in SUBSET T, Cardinality(s) = 0 PROVE SumFunctionOnSet(f, s) \in Int
    OBVIOUS
  <2>1. s = {}
    BY FS_Subset, FS_EmptySet
  <2> QED BY <2>1, SumEmpty
<1>2. \A n \in N : n + 1 \in N
  <2> SUFFICES ASSUME NEW n \in N, NEW s \in SUBSET T, Cardinality(s) = n + 1
               PROVE  SumFunctionOnSet(f, s) \in Int
    OBVIOUS
  <2>1. IsFiniteSet(s) /\ s # {}
    <3>1. IsFiniteSet(s)
      BY FS_Subset
    <3>2. Cardinality(s) # 0
      OBVIOUS
    <3> QED BY <3>1, <3>2, FS_EmptySet
  <2> DEFINE u == s \ {FirstOf(s)}
  <2>2. FirstOf(s) \in T /\ Cardinality(u) = n
    BY <2>1, TakeOneOut
  <2>3. SumFunctionOnSet(f, u) \in Int
    BY <2>2
  <2>4. SumFunctionOnSet(f, s) = f[FirstOf(s)] + SumFunctionOnSet(f, u)
    BY <2>1, SumFirst
  <2> QED BY <2>2, <2>3, <2>4
<1>3. N = Nat
  <2> HIDE DEF N
  <2> QED BY <1>1, <1>2, SetInduction DEF N
<1> QED BY <1>3, FS_CardinalityType

\* Any element may be summed first: the order in which the fold takes them
\* does not matter.
THEOREM SumRemove ==
  ASSUME NEW T, IsFiniteSet(T), NEW f, \A x \in T : f[x] \in Int, NEW a \in T
  PROVE  SumFunctionOnSet(f, T) = f[a] + SumFunctionOnSet(f, T \ {a})
<1> DEFINE Removes(n) == \A s \in SUBSET T : Cardinality(s) = n =>
                   \A x \in s : SumFunctionOnSet(f, s) = f[x] + SumFunctionOnSet(f, s \ {x})
           N == {n \in Nat : Removes(n)}
<1>0. \A s \in SUBSET T : IsFiniteSet(s) /\ SumFunctionOnSet(f, s) \in Int
  BY FS_Subset, SumInt
<1>1. 0 \in N
  <2> SUFFICES ASSUME NEW s \in SUBSET T, Cardinality(s) = 0 PROVE s = {}
    OBVIOUS
  <2> QED BY FS_Subset, FS_EmptySet
<1>2. \A n \in N : n + 1 \in N
  <2> SUFFICES ASSUME NEW n \in Nat, Removes(n) PROVE Removes(n + 1)
    <3> HIDE DEF Removes
    <3> QED OBVIOUS
  <2> SUFFICES ASSUME NEW s \in SUBSET T, Cardinality(s) = n + 1, NEW x \in s
               PROVE  SumFunctionOnSet(f, s) = f[x] + SumFunctionOnSet(f, s \ {x})
    OBVIOUS
  <2> DEFINE p == FirstOf(s)
             both == (s \ {p}) \ {x}
  <2>1. p \in s /\ SumFunctionOnSet(f, s) = f[p] + SumFunctionOnSet(f, s \ {p})
    BY <1>0, SumFirst, FirstIn
  <2>2. CASE x = p
    BY <2>1, <2>2
  <2>3. CASE x # p
    <3>1. Cardinality(s \ {p}) = n /\ Cardinality(s \ {x}) = n
      <4>1. IsFiniteSet(s)
        BY <1>0
      <4>2. \A y \in s : Cardinality(s \ {y}) = Cardinality(s) - 1
        BY <4>1, FS_RemoveElement
      <4>3. n + 1 - 1 = n
        OBVIOUS
      <4> QED BY <2>1, <4>2, <4>3
    <3>2. SumFunctionOnSet(f, s \ {p}) = f[x] + SumFunctionOnSet(f, both)
      <4>1. x \in s \ {p} /\ s \ {p} \in SUBSET T
        BY <2>3
      <4> QED BY <3>1, <4>1
    <3>3. SumFunctionOnSet(f, s \ {x}) = f[p] + SumFunctionOnSet(f, both)
      <4>1. p \in s \ {x} /\ s \ {x} \in SUBSET T /\ (s \ {x}) \ {p} = both
        BY <2>1, <2>3
      <4> QED BY <3>1, <4>1
    <3>4. f[p] \in Int /\ f[x] \in Int /\ SumFunctionOnSet(f, both) \in Int
      <4>1. p \in T /\ x \in T /\ both \in SUBSET T
        BY <2>1
      <4> QED BY <1>0, <4>1
    <3> HIDE DEF p, both
    <3> QED BY <2>1, <3>2, <3>3, <3>4
  <2> QED BY <2>2, <2>3
<1>3. N = Nat
  <2> HIDE DEF N
  <2> QED BY <1>1, <1>2, SetInduction DEF N
<1> QED BY <1>3, FS_CardinalityType

\* A new element adds its value.
THEOREM SumAdd ==
  ASSUME NEW T, IsFiniteSet(T), NEW a, a \notin T, NEW f, \A x \in T \union {a} : f[x] \in Int
  PROVE  SumFunctionOnSet(f, T \union {a}) = SumFunctionOnSet(f, T) + f[a]
<1> DEFINE U == T \union {a}
<1>1. IsFiniteSet(U) /\ a \in U /\ U \ {a} = T
  BY FS_AddElement
<1>2. \A x \in U : f[x] \in Int
  OBVIOUS
<1> HIDE DEF U
<1>3. SumFunctionOnSet(f, U) = f[a] + SumFunctionOnSet(f, T)
  BY <1>1, <1>2, SumRemove
<1>4. SumFunctionOnSet(f, T) \in Int /\ f[a] \in Int
  <2>1. SumFunctionOnSet(f, T) \in Int
    BY SumInt
  <2> QED BY <1>1, <1>2, <2>1
<1> QED BY <1>3, <1>4 DEF U

\* Only the values on the set matter.
THEOREM SumEqual ==
  ASSUME NEW T, IsFiniteSet(T), NEW f, NEW g, \A x \in T : f[x] \in Int /\ f[x] = g[x]
  PROVE  SumFunctionOnSet(f, T) = SumFunctionOnSet(g, T)
<1> DEFINE Good == {s \in SUBSET T : SumFunctionOnSet(f, s) = SumFunctionOnSet(g, s)}
<1>1. {} \in Good
  BY SumEmpty
<1>2. \A s \in Good : \A x \in T \ s : s \union {x} \in Good
  <2> SUFFICES ASSUME NEW s \in Good, NEW x \in T \ s
               PROVE  SumFunctionOnSet(f, s \union {x}) = SumFunctionOnSet(g, s \union {x})
    OBVIOUS
  <2>1. IsFiniteSet(s)
    BY FS_Subset
  <2>2. SumFunctionOnSet(f, s \union {x}) = SumFunctionOnSet(f, s) + f[x]
    BY <2>1, SumAdd
  <2>3. \A y \in s \union {x} : g[y] \in Int
    OBVIOUS
  <2>4. SumFunctionOnSet(g, s \union {x}) = SumFunctionOnSet(g, s) + g[x]
    BY <2>1, <2>3, SumAdd
  <2> QED BY <2>2, <2>4
<1> HIDE DEF Good
<1>3. Good \in SUBSET (SUBSET T)
  BY DEF Good
<1>4. T \in Good
  BY <1>1, <1>2, <1>3, FiniteInduction
<1> QED BY <1>4 DEF Good

\* A sum of natural numbers is one.
THEOREM SumNat ==
  ASSUME NEW T, IsFiniteSet(T), NEW f, \A x \in T : f[x] \in Nat
  PROVE  SumFunctionOnSet(f, T) \in Nat
<1> DEFINE Good == {s \in SUBSET T : SumFunctionOnSet(f, s) \in Nat}
<1>1. {} \in Good
  BY SumEmpty
<1>2. \A s \in Good : \A x \in T \ s : s \union {x} \in Good
  <2> SUFFICES ASSUME NEW s \in Good, NEW x \in T \ s
               PROVE  SumFunctionOnSet(f, s \union {x}) \in Nat
    OBVIOUS
  <2>1. IsFiniteSet(s)
    BY FS_Subset
  <2>2. \A y \in s \union {x} : f[y] \in Int
    OBVIOUS
  <2>3. SumFunctionOnSet(f, s \union {x}) = SumFunctionOnSet(f, s) + f[x]
    BY <2>1, <2>2, SumAdd
  <2> QED BY <2>3
<1> HIDE DEF Good
<1>3. Good \in SUBSET (SUBSET T)
  BY DEF Good
<1>4. T \in Good
  BY <1>1, <1>2, <1>3, FiniteInduction
<1> QED BY <1>4 DEF Good

\* Two sums over one set add up value by value.
THEOREM SumPlus ==
  ASSUME NEW T, IsFiniteSet(T), NEW f, NEW g, NEW h,
         \A x \in T : f[x] \in Int /\ g[x] \in Int /\ h[x] = f[x] + g[x]
  PROVE  SumFunctionOnSet(h, T) = SumFunctionOnSet(f, T) + SumFunctionOnSet(g, T)
<1> DEFINE Good == {s \in SUBSET T :
                      SumFunctionOnSet(h, s) = SumFunctionOnSet(f, s) + SumFunctionOnSet(g, s)}
<1>1. {} \in Good
  BY SumEmpty
<1>2. \A s \in Good : \A x \in T \ s : s \union {x} \in Good
  <2> SUFFICES ASSUME NEW s \in Good, NEW x \in T \ s
               PROVE  SumFunctionOnSet(h, s \union {x}) =
                        SumFunctionOnSet(f, s \union {x}) + SumFunctionOnSet(g, s \union {x})
    OBVIOUS
  <2>1. IsFiniteSet(s)
    BY FS_Subset
  <2>2. SumFunctionOnSet(f, s \union {x}) = SumFunctionOnSet(f, s) + f[x]
    BY <2>1, SumAdd
  <2>3. SumFunctionOnSet(g, s \union {x}) = SumFunctionOnSet(g, s) + g[x]
    BY <2>1, SumAdd
  <2>4. SumFunctionOnSet(h, s \union {x}) = SumFunctionOnSet(h, s) + h[x]
    <3>1. \A y \in s \union {x} : h[y] \in Int
      OBVIOUS
    <3> QED BY <2>1, <3>1, SumAdd
  <2>5. SumFunctionOnSet(f, s) \in Int /\ SumFunctionOnSet(g, s) \in Int
    BY <2>1, SumInt
  <2>6. f[x] \in Int /\ g[x] \in Int /\ h[x] = f[x] + g[x]
    OBVIOUS
  <2>7. SumFunctionOnSet(h, s) = SumFunctionOnSet(f, s) + SumFunctionOnSet(g, s)
    OBVIOUS
  <2> QED BY <2>2, <2>3, <2>4, <2>5, <2>6, <2>7
<1> HIDE DEF Good
<1>3. Good \in SUBSET (SUBSET T)
  BY DEF Good
<1>4. T \in Good
  BY <1>1, <1>2, <1>3, FiniteInduction
<1> QED BY <1>4 DEF Good

\* The sum over two disjoint sets.
THEOREM SumUnion ==
  ASSUME NEW S, IsFiniteSet(S), NEW T, IsFiniteSet(T), S \intersect T = {},
         NEW f, \A x \in S \union T : f[x] \in Int
  PROVE  SumFunctionOnSet(f, S \union T) = SumFunctionOnSet(f, S) + SumFunctionOnSet(f, T)
<1> DEFINE Good == {s \in SUBSET T :
                      SumFunctionOnSet(f, S \union s) = SumFunctionOnSet(f, S) + SumFunctionOnSet(f, s)}
<1>0. SumFunctionOnSet(f, S) \in Int
  BY SumInt
<1>1. {} \in Good
  <2>1. S \union {} = S
    OBVIOUS
  <2> QED BY <1>0, <2>1, SumEmpty
<1>2. \A s \in Good : \A x \in T \ s : s \union {x} \in Good
  <2> SUFFICES ASSUME NEW s \in Good, NEW x \in T \ s
               PROVE  SumFunctionOnSet(f, S \union (s \union {x})) =
                        SumFunctionOnSet(f, S) + SumFunctionOnSet(f, s \union {x})
    OBVIOUS
  <2>1. IsFiniteSet(s) /\ IsFiniteSet(S \union s)
    BY FS_Subset, FS_Union
  <2>2. SumFunctionOnSet(f, s \union {x}) = SumFunctionOnSet(f, s) + f[x]
    BY <2>1, SumAdd
  <2>3. S \union (s \union {x}) = (S \union s) \union {x} /\ x \notin S \union s
    OBVIOUS
  <2>4. SumFunctionOnSet(f, (S \union s) \union {x}) = SumFunctionOnSet(f, S \union s) + f[x]
    BY <2>1, <2>3, SumAdd
  <2>5. SumFunctionOnSet(f, s) \in Int
    BY <2>1, SumInt
  <2>6. f[x] \in Int
    OBVIOUS
  <2>7. SumFunctionOnSet(f, S \union s) = SumFunctionOnSet(f, S) + SumFunctionOnSet(f, s)
    OBVIOUS
  <2>8. SumFunctionOnSet(f, S \union (s \union {x})) = SumFunctionOnSet(f, (S \union s) \union {x})
    BY <2>3, Zenon
  <2> QED BY <1>0, <2>2, <2>4, <2>5, <2>6, <2>7, <2>8
<1> HIDE DEF Good
<1>3. Good \in SUBSET (SUBSET T)
  BY DEF Good
<1>4. T \in Good
  BY <1>1, <1>2, <1>3, FiniteInduction
<1> QED BY <1>4 DEF Good

\* A part of a sum of natural numbers is not more than the whole.
THEOREM SumPart ==
  ASSUME NEW T, IsFiniteSet(T), NEW S \in SUBSET T, NEW f, \A x \in T : f[x] \in Nat
  PROVE  /\ SumFunctionOnSet(f, S) \in Nat
         /\ SumFunctionOnSet(f, T \ S) \in Nat
         /\ SumFunctionOnSet(f, T) = SumFunctionOnSet(f, S) + SumFunctionOnSet(f, T \ S)
<1> DEFINE U == T \ S
<1>1. IsFiniteSet(S) /\ IsFiniteSet(U) /\ S \intersect U = {} /\ S \union U = T
  BY FS_Subset
<1>2. SumFunctionOnSet(f, S) \in Nat /\ SumFunctionOnSet(f, U) \in Nat
  BY <1>1, SumNat
<1>3. SumFunctionOnSet(f, S \union U) = SumFunctionOnSet(f, S) + SumFunctionOnSet(f, U)
  <2> HIDE DEF U
  <2>1. \A x \in S \union U : f[x] \in Int
    BY <1>1
  <2> QED BY <1>1, <2>1, SumUnion
<1> QED BY <1>1, <1>2, <1>3

\* One value changes.
THEOREM SumChange ==
  ASSUME NEW T, IsFiniteSet(T), NEW a \in T, NEW f, NEW g,
         \A x \in T : f[x] \in Int /\ g[x] \in Int,
         \A x \in T \ {a} : g[x] = f[x]
  PROVE  SumFunctionOnSet(g, T) = SumFunctionOnSet(f, T) + g[a] - f[a]
<1>1. SumFunctionOnSet(f, T) = f[a] + SumFunctionOnSet(f, T \ {a})
  BY SumRemove
<1>2. SumFunctionOnSet(g, T) = g[a] + SumFunctionOnSet(g, T \ {a})
  BY SumRemove
<1>3. IsFiniteSet(T \ {a})
  BY FS_Subset
<1>4. SumFunctionOnSet(f, T \ {a}) = SumFunctionOnSet(g, T \ {a})
  BY <1>3, SumEqual
<1>5. SumFunctionOnSet(f, T \ {a}) \in Int
  BY <1>3, SumInt
<1> QED BY <1>1, <1>2, <1>4, <1>5

\* Taking a part of the set away takes its sum away.
THEOREM SumLess ==
  ASSUME NEW T, IsFiniteSet(T), NEW S \in SUBSET T, NEW f, \A x \in T : f[x] \in Int
  PROVE  /\ SumFunctionOnSet(f, S) \in Int
         /\ SumFunctionOnSet(f, T \ S) \in Int
         /\ SumFunctionOnSet(f, T) = SumFunctionOnSet(f, S) + SumFunctionOnSet(f, T \ S)
<1> DEFINE U == T \ S
<1>1. IsFiniteSet(S) /\ IsFiniteSet(U) /\ S \intersect U = {} /\ S \union U = T
  BY FS_Subset
<1>2. SumFunctionOnSet(f, S) \in Int /\ SumFunctionOnSet(f, U) \in Int
  BY <1>1, SumInt
<1>3. SumFunctionOnSet(f, S \union U) = SumFunctionOnSet(f, S) + SumFunctionOnSet(f, U)
  <2> HIDE DEF U
  <2>1. \A x \in S \union U : f[x] \in Int
    BY <1>1
  <2> QED BY <1>1, <2>1, SumUnion
<1> QED BY <1>1, <1>2, <1>3

\* The set gets a new element, and the function may change outside the old set.
THEOREM SumGrows ==
  ASSUME NEW T, IsFiniteSet(T), NEW a, a \notin T, NEW f, NEW g,
         \A x \in T : f[x] \in Int /\ g[x] = f[x], g[a] \in Int
  PROVE  SumFunctionOnSet(g, T \union {a}) = SumFunctionOnSet(f, T) + g[a]
<1>1. \A x \in T \union {a} : g[x] \in Int
  OBVIOUS
<1>2. SumFunctionOnSet(g, T \union {a}) = SumFunctionOnSet(g, T) + g[a]
  BY <1>1, SumAdd
<1>3. SumFunctionOnSet(f, T) = SumFunctionOnSet(g, T)
  BY SumEqual
<1> QED BY <1>2, <1>3

\* The values on a part of the set are raised.
THEOREM SumRaise ==
  ASSUME NEW T, IsFiniteSet(T), NEW S \in SUBSET T, NEW f, NEW g, NEW h,
         \A x \in T : f[x] \in Int,
         \A x \in S : h[x] \in Int /\ g[x] = f[x] + h[x],
         \A x \in T \ S : g[x] = f[x]
  PROVE  SumFunctionOnSet(g, T) = SumFunctionOnSet(f, T) + SumFunctionOnSet(h, S)
<1>1. \A x \in T : g[x] \in Int
  OBVIOUS
<1>2. IsFiniteSet(S) /\ IsFiniteSet(T \ S)
  BY FS_Subset
<1>3. /\ SumFunctionOnSet(g, S) \in Int /\ SumFunctionOnSet(g, T \ S) \in Int
      /\ SumFunctionOnSet(g, T) = SumFunctionOnSet(g, S) + SumFunctionOnSet(g, T \ S)
  BY <1>1, SumLess
<1>4. /\ SumFunctionOnSet(f, S) \in Int /\ SumFunctionOnSet(f, T \ S) \in Int
      /\ SumFunctionOnSet(f, T) = SumFunctionOnSet(f, S) + SumFunctionOnSet(f, T \ S)
  BY SumLess
<1>5. SumFunctionOnSet(g, S) = SumFunctionOnSet(f, S) + SumFunctionOnSet(h, S)
  BY <1>2, SumPlus
<1>6. SumFunctionOnSet(f, T \ S) = SumFunctionOnSet(g, T \ S)
  BY <1>2, SumEqual
<1>7. SumFunctionOnSet(h, S) \in Int
  BY <1>2, SumInt
<1> QED BY <1>3, <1>4, <1>5, <1>6, <1>7

\* Equal amounts multiply.
THEOREM SumConstant ==
  ASSUME NEW T, IsFiniteSet(T), NEW k \in Int, NEW f, \A x \in T : f[x] = k
  PROVE  SumFunctionOnSet(f, T) = Cardinality(T) * k
<1> DEFINE Good == {s \in SUBSET T : SumFunctionOnSet(f, s) = Cardinality(s) * k}
<1>1. {} \in Good
  <2>1. Cardinality({}) = 0 /\ SumFunctionOnSet(f, {}) = 0
    BY FS_EmptySet, SumEmpty
  <2> QED BY <2>1
<1>2. \A s \in Good : \A x \in T \ s : s \union {x} \in Good
  <2> SUFFICES ASSUME NEW s \in Good, NEW x \in T \ s
               PROVE  SumFunctionOnSet(f, s \union {x}) = Cardinality(s \union {x}) * k
    OBVIOUS
  <2>1. IsFiniteSet(s) /\ Cardinality(s) \in Nat
    BY FS_Subset, FS_CardinalityType
  <2>2. Cardinality(s \union {x}) = Cardinality(s) + 1
    BY <2>1, FS_AddElement
  <2>3. \A y \in s \union {x} : f[y] \in Int
    OBVIOUS
  <2>4. SumFunctionOnSet(f, s \union {x}) = SumFunctionOnSet(f, s) + f[x]
    BY <2>1, <2>3, SumAdd
  <2>5. SumFunctionOnSet(f, s) = Cardinality(s) * k /\ f[x] = k
    OBVIOUS
  <2>6. (Cardinality(s) + 1) * k = Cardinality(s) * k + k
    BY <2>1
  <2> QED BY <2>2, <2>4, <2>5, <2>6
<1> HIDE DEF Good
<1>3. Good \in SUBSET (SUBSET T)
  BY DEF Good
<1>4. T \in Good
  BY <1>1, <1>2, <1>3, FiniteInduction
<1> QED BY <1>4 DEF Good
=============================================================================
