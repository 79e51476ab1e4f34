------------------------------ MODULE SumTheorems ------------------------------
(***************************************************************************)
(* Facts about sums over finite sets (SumFunctionOnSet of Functions), on   *)
(* which the proofs about capacities and costs rest.  Every induction is   *)
(* by a least counterexample: a natural number, or the size of a set.      *)
(***************************************************************************)
EXTENDS FiniteSetsExt, FiniteSetTheorems, TLAPS

\* A set of natural numbers that is not empty has a least member.
LEMMA LeastNatural ==
  ASSUME NEW S, S \subseteq Nat, S # {}
  PROVE  \E x \in S : \A y \in S : x <= y
  <1>1. OpToRel(<, Nat) = {ss \in Nat \X Nat : ss[1] < ss[2]}
    BY DEF OpToRel
  <1>2. IsWellFoundedOn({ss \in Nat \X Nat : ss[1] < ss[2]}, Nat)
    BY <1>1, NatLessThanWellFounded
  <1>3. PICK x \in S : \A y \in S : ~(<<y, x>> \in {ss \in Nat \X Nat : ss[1] < ss[2]})
    BY <1>2, WFMin
  <1>4. \A y \in S : x <= y
    <2> SUFFICES ASSUME NEW y \in S PROVE x <= y
      OBVIOUS
    <2> DEFINE p == <<y, x>>
    <2>1. p \in Nat \X Nat /\ p[1] = y /\ p[2] = x
      OBVIOUS
    <2>2. p \notin {ss \in Nat \X Nat : ss[1] < ss[2]}
      BY <1>3
    <2> HIDE DEF p
    <2>3. ~(p[1] < p[2])
      BY <2>1, <2>2
    <2> QED
      BY <2>1, <2>3
  <1> QED
    BY <1>4

\* Of some subsets of a finite set one is smallest: none of its own subsets is
\* among them.
LEMMA SmallestSubset ==
  ASSUME NEW S, IsFiniteSet(S), NEW B, B \subseteq SUBSET S, B # {}
  PROVE  \E T \in B : \A U \in SUBSET T : U # T => U \notin B
  <1> DEFINE Sizes == {Cardinality(T) : T \in B}
  <1>1. \A T \in SUBSET S : IsFiniteSet(T) /\ Cardinality(T) \in Nat
    BY FS_Subset, FS_CardinalityType
  <1>2. Sizes \subseteq Nat /\ Sizes # {}
    BY <1>1
  <1>3. PICK k \in Sizes : \A j \in Sizes : k <= j
    <2> HIDE DEF Sizes
    <2> QED
      BY <1>2, LeastNatural
  <1>4. PICK T \in B : Cardinality(T) = k
    BY <1>3
  <1>5. ASSUME NEW U \in SUBSET T, U # T PROVE U \notin B
    <2>1. U \in SUBSET S /\ T \in SUBSET S
      BY <1>4
    <2>2. Cardinality(U) <= Cardinality(T) /\ Cardinality(U) # Cardinality(T)
      BY <1>1, <1>5, <2>1, FS_Subset
    <2>3. ~(Cardinality(T) <= Cardinality(U))
      BY <1>1, <2>1, <2>2
    <2> QED
      BY <1>3, <1>4, <2>3
  <1> QED
    BY <1>5

-----------------------------------------------------------------------------
(* The recursion that defines a sum.                                       *)

\* The element a sum over s takes first.
First(s) == CHOOSE x \in s : TRUE

\* f gives the sums of w over the sets of D.
SumsUp(f, w, D) ==
  f = [s \in D |-> IF s = {} THEN 0 ELSE w[First(s)] + f[s \ {First(s)}]]

SumsOfSubsets(f, w, S) == SumsUp(f, w, SUBSET S)

\* The element a sum takes first is one of the set.
LEMMA FirstIsIn == ASSUME NEW s, s # {} PROVE First(s) \in s
  BY DEF First

\* What the sum is by definition: a choice among functions on the subsets.
LEMMA SumDefinition ==
  ASSUME NEW w, NEW S
  PROVE  SumFunctionOnSet(w, S) = (CHOOSE f : SumsOfSubsets(f, w, S))[S]
  BY DEF SumFunctionOnSet, FoldFunctionOnSet, MapThenFoldSet, SumsOfSubsets, SumsUp, First

\* The recursion is well-founded: there are such sums.
LEMMA SumsExist ==
  ASSUME NEW w, NEW S, IsFiniteSet(S)
  PROVE  \E f : SumsOfSubsets(f, w, S)
  <1> DEFINE UpTo(k) == {s \in SUBSET S : Cardinality(s) <= k}
             Bad == {k \in Nat : ~\E f : SumsUp(f, w, UpTo(k))}
  <1>1. \A s \in SUBSET S : IsFiniteSet(s) /\ Cardinality(s) \in Nat
                            /\ Cardinality(s) <= Cardinality(S)
    BY FS_Subset, FS_CardinalityType
  <1>2. Bad = {}
    <2> SUFFICES ASSUME Bad # {} PROVE FALSE
      OBVIOUS
    <2>1. PICK k \in Bad : \A j \in Bad : k <= j
      <3>1. Bad \subseteq Nat
        OBVIOUS
      <3> HIDE DEF Bad
      <3> QED
        BY <3>1, LeastNatural
    <2>2. k # 0
      <3>1. \A s \in UpTo(0) : s = {}
        BY <1>1, FS_EmptySet
      <3>2. SumsUp([s \in UpTo(0) |-> 0], w, UpTo(0))
        BY <3>1 DEF SumsUp
      <3> QED
        BY <2>1, <3>2
    <2>3. k \in Nat /\ k - 1 \in Nat /\ k - 1 \notin Bad
      <3>1. k \in Nat /\ \A j \in Bad : j \in Nat
        BY <2>1
      <3> HIDE DEF Bad
      <3> QED
        BY <2>1, <2>2, <3>1
    <2>4. PICK f : SumsUp(f, w, UpTo(k - 1))
      BY <2>3
    <2> DEFINE e == [s \in UpTo(k) |-> IF s = {} THEN 0 ELSE w[First(s)] + f[s \ {First(s)}]]
    <2>5. \A s \in UpTo(k - 1) : s \in UpTo(k) /\ e[s] = f[s]
      <3>1. \A s \in UpTo(k - 1) :
              f[s] = IF s = {} THEN 0 ELSE w[First(s)] + f[s \ {First(s)}]
        BY <2>4 DEF SumsUp
      <3>2. \A s \in UpTo(k - 1) : s \in UpTo(k)
        BY <1>1, <2>3
      <3> QED
        BY <3>1, <3>2
    <2>6. ASSUME NEW s \in UpTo(k), s # {}
          PROVE  s \ {First(s)} \in UpTo(k - 1)
      <3>1. s \ {First(s)} \in SUBSET S
        OBVIOUS
      <3>2. Cardinality(s \ {First(s)}) = Cardinality(s) - 1
        BY <1>1, <2>6, FirstIsIn, FS_RemoveElement
      <3>3. Cardinality(s) \in Nat /\ Cardinality(s) <= k
        BY <1>1
      <3> QED
        BY <2>3, <3>1, <3>2, <3>3
    <2>7. \A s \in UpTo(k) : s # {} => e[s \ {First(s)}] = f[s \ {First(s)}]
      BY <2>5, <2>6
    <2>8. e = [s \in UpTo(k) |-> IF s = {} THEN 0 ELSE w[First(s)] + e[s \ {First(s)}]]
      BY <2>7
    <2> HIDE DEF e, UpTo
    <2>9. SumsUp(e, w, UpTo(k))
      BY <2>8 DEF SumsUp
    <2> QED
      BY <2>1, <2>9
  <1>3. Cardinality(S) \in Nat /\ UpTo(Cardinality(S)) = SUBSET S
    BY <1>1
  <1> QED
    BY <1>2, <1>3 DEF SumsOfSubsets

\* Sums over the sets of two families agree on the sets of both.
LEMMA SumsAgree ==
  ASSUME NEW w, NEW S, NEW R, NEW f, NEW h, IsFiniteSet(S), R \subseteq S,
         SumsOfSubsets(f, w, S), SumsOfSubsets(h, w, R)
  PROVE  f[R] = h[R]
  <1> DEFINE B == {s \in SUBSET R : f[s] # h[s]}
  <1> SUFFICES ASSUME B # {} PROVE FALSE
    OBVIOUS
  <1>1. IsFiniteSet(R)
    BY FS_Subset
  <1>2. PICK T \in B : \A U \in SUBSET T : U # T => U \notin B
    <2>1. B \subseteq SUBSET R
      OBVIOUS
    <2> HIDE DEF B
    <2> QED
      BY <1>1, <2>1, SmallestSubset
  <1>3. T \in SUBSET S /\ T \in SUBSET R
    BY <1>2
  <1>4. /\ f[T] = IF T = {} THEN 0 ELSE w[First(T)] + f[T \ {First(T)}]
        /\ h[T] = IF T = {} THEN 0 ELSE w[First(T)] + h[T \ {First(T)}]
    BY <1>3 DEF SumsOfSubsets, SumsUp
  <1>5. T # {} => f[T \ {First(T)}] = h[T \ {First(T)}]
    <2>1. T # {} => First(T) \in T
      BY FirstIsIn
    <2> QED
      BY <1>2, <1>3, <2>1
  <1> QED
    BY <1>2, <1>4, <1>5

\* A sum takes out one element and goes on with the others.
LEMMA SumFirst ==
  ASSUME NEW w, NEW S, IsFiniteSet(S), S # {}
  PROVE  SumFunctionOnSet(w, S)
           = w[First(S)] + SumFunctionOnSet(w, S \ {First(S)})
  <1> DEFINE R == S \ {First(S)}
  <1>1. R \in SUBSET S /\ IsFiniteSet(R)
    BY FS_Subset
  <1>2. PICK f : f = CHOOSE e : SumsOfSubsets(e, w, S)
    OBVIOUS
  <1>3. PICK h : h = CHOOSE e : SumsOfSubsets(e, w, R)
    OBVIOUS
  <1>4. SumsOfSubsets(f, w, S) /\ SumsOfSubsets(h, w, R)
    BY <1>1, <1>2, <1>3, SumsExist
  <1>5. SumFunctionOnSet(w, S) = f[S] /\ SumFunctionOnSet(w, R) = h[R]
    BY <1>2, <1>3, SumDefinition
  <1>6. f[S] = w[First(S)] + f[R]
    BY <1>4 DEF SumsOfSubsets, SumsUp
  <1>7. f[R] = h[R]
    <2>1. R \subseteq S
      BY <1>1
    <2> HIDE DEF R
    <2> QED
      BY <1>4, <2>1, SumsAgree
  <1> QED
    BY <1>5, <1>6, <1>7

-----------------------------------------------------------------------------
(* What a sum does.                                                        *)

\* A sum of nothing.
LEMMA SumEmpty == ASSUME NEW w PROVE SumFunctionOnSet(w, {}) = 0
  <1>1. PICK f : f = CHOOSE e : SumsOfSubsets(e, w, {})
    OBVIOUS
  <1>2. SumsOfSubsets(f, w, {})
    BY <1>1, SumsExist, FS_EmptySet
  <1>3. f[{}] = 0
    BY <1>2 DEF SumsOfSubsets, SumsUp
  <1> QED
    BY <1>1, <1>3, SumDefinition

\* A sum of integers is one, whatever set it is over.
LEMMA SumInt ==
  ASSUME NEW S, IsFiniteSet(S), NEW w, \A x \in S : w[x] \in Int
  PROVE  SumFunctionOnSet(w, S) \in Int
  <1> DEFINE B == {s \in SUBSET S : SumFunctionOnSet(w, s) \notin Int}
  <1> SUFFICES ASSUME B # {} PROVE FALSE
    OBVIOUS
  <1>1. PICK T \in B : \A U \in SUBSET T : U # T => U \notin B
    <2>1. B \subseteq SUBSET S
      OBVIOUS
    <2> HIDE DEF B
    <2> QED
      BY <2>1, SmallestSubset
  <1>2. T # {}
    <2>1. T = {} => SumFunctionOnSet(w, T) = 0
      BY SumEmpty
    <2> QED
      BY <1>1, <2>1
  <1>3. First(T) \in T /\ IsFiniteSet(T) /\ T \in SUBSET S
    BY <1>1, <1>2, FirstIsIn, FS_Subset
  <1>4. T \ {First(T)} \in SUBSET T /\ T \ {First(T)} # T
    BY <1>3
  <1>5. SumFunctionOnSet(w, T \ {First(T)}) \in Int
    BY <1>1, <1>3, <1>4
  <1>6. SumFunctionOnSet(w, T) = w[First(T)] + SumFunctionOnSet(w, T \ {First(T)})
    BY <1>2, <1>3, SumFirst
  <1> QED
    BY <1>1, <1>3, <1>5, <1>6

\* It does not matter which element is taken first.
LEMMA SumRemove ==
  ASSUME NEW S, IsFiniteSet(S), NEW w, \A x \in S : w[x] \in Int, NEW a \in S
  PROVE  SumFunctionOnSet(w, S) = w[a] + SumFunctionOnSet(w, S \ {a})
  <1> DEFINE Sum(T) == SumFunctionOnSet(w, T)
             B == {T \in SUBSET S : \E x \in T : Sum(T) # w[x] + Sum(T \ {x})}
  <1> SUFFICES ASSUME B # {} PROVE FALSE
    OBVIOUS
  <1>1. PICK T \in B : \A U \in SUBSET T : U # T => U \notin B
    <2>1. B \subseteq SUBSET S
      OBVIOUS
    <2> HIDE DEF B
    <2> QED
      BY <2>1, SmallestSubset
  <1>2. PICK b \in T : Sum(T) # w[b] + Sum(T \ {b})
    BY <1>1
  <1> DEFINE c == First(T)
  <1>3. c \in T /\ IsFiniteSet(T) /\ T \in SUBSET S
    BY <1>1, <1>2, FirstIsIn, FS_Subset
  <1>4. Sum(T) = w[c] + Sum(T \ {c})
    BY <1>2, <1>3, SumFirst
  <1> HIDE DEF c
  <1>5. b # c
    BY <1>2, <1>4
  <1>6. Sum(T \ {c}) = w[b] + Sum((T \ {c}) \ {b})
    <2>1. T \ {c} \in SUBSET T /\ T \ {c} # T /\ b \in T \ {c} /\ T \ {c} \in SUBSET S
      BY <1>2, <1>3, <1>5
    <2> HIDE DEF Sum
    <2> QED
      BY <1>1, <2>1
  <1>7. Sum(T \ {b}) = w[c] + Sum((T \ {b}) \ {c})
    <2>1. T \ {b} \in SUBSET T /\ T \ {b} # T /\ c \in T \ {b} /\ T \ {b} \in SUBSET S
      BY <1>2, <1>3, <1>5
    <2> HIDE DEF Sum
    <2> QED
      BY <1>1, <2>1
  <1>8. (T \ {c}) \ {b} = (T \ {b}) \ {c}
    OBVIOUS
  <1>9. Sum((T \ {c}) \ {b}) \in Int
    <2>1. IsFiniteSet((T \ {c}) \ {b}) /\ \A x \in (T \ {c}) \ {b} : w[x] \in Int
      BY <1>3, FS_Subset
    <2> QED
      BY <2>1, SumInt
  <1>10. w[b] \in Int /\ w[c] \in Int
    BY <1>2, <1>3
  <1> HIDE DEF Sum
  <1> QED
    BY <1>2, <1>4, <1>6, <1>7, <1>8, <1>9, <1>10

\* One element more.
LEMMA SumAdd ==
  ASSUME NEW S, IsFiniteSet(S), NEW a, a \notin S,
         NEW w, \A x \in S \cup {a} : w[x] \in Int
  PROVE  SumFunctionOnSet(w, S \cup {a}) = SumFunctionOnSet(w, S) + w[a]
  <1>1. IsFiniteSet(S \cup {a}) /\ (S \cup {a}) \ {a} = S
    BY FS_AddElement
  <1>2. SumFunctionOnSet(w, S \cup {a}) = w[a] + SumFunctionOnSet(w, S)
    BY <1>1, SumRemove
  <1>3. SumFunctionOnSet(w, S) \in Int /\ w[a] \in Int
    BY SumInt
  <1> QED
    BY <1>2, <1>3

\* A sum over some set is determined by the values on that set; smaller values
\* give a smaller sum.
LEMMA SumMonotonic ==
  ASSUME NEW S, IsFiniteSet(S),
         NEW w, \A x \in S : w[x] \in Int,
         NEW u, \A x \in S : u[x] \in Int,
         \A x \in S : w[x] <= u[x]
  PROVE  SumFunctionOnSet(w, S) <= SumFunctionOnSet(u, S)
  <1> DEFINE B == {s \in SUBSET S : ~(SumFunctionOnSet(w, s) <= SumFunctionOnSet(u, s))}
  <1> SUFFICES ASSUME B # {} PROVE FALSE
    OBVIOUS
  <1>1. PICK T \in B : \A U \in SUBSET T : U # T => U \notin B
    <2>1. B \subseteq SUBSET S
      OBVIOUS
    <2> HIDE DEF B
    <2> QED
      BY <2>1, SmallestSubset
  <1>2. T # {}
    <2>1. T = {} => SumFunctionOnSet(w, T) = 0 /\ SumFunctionOnSet(u, T) = 0
      BY SumEmpty
    <2> QED
      BY <1>1, <2>1
  <1> DEFINE c == First(T)
             R == T \ {c}
  <1>3. c \in T /\ IsFiniteSet(T) /\ T \in SUBSET S
    BY <1>1, <1>2, FirstIsIn, FS_Subset
  <1>4. R \in SUBSET T /\ R # T /\ R \in SUBSET S /\ IsFiniteSet(R)
    BY <1>3, FS_Subset
  <1>5. SumFunctionOnSet(w, R) <= SumFunctionOnSet(u, R)
    BY <1>1, <1>4
  <1>6. /\ SumFunctionOnSet(w, T) = w[c] + SumFunctionOnSet(w, R)
        /\ SumFunctionOnSet(u, T) = u[c] + SumFunctionOnSet(u, R)
    BY <1>2, <1>3, SumFirst
  <1>7. SumFunctionOnSet(w, R) \in Int /\ SumFunctionOnSet(u, R) \in Int
    <2>1. \A x \in R : w[x] \in Int /\ u[x] \in Int
      BY <1>4
    <2> QED
      BY <1>4, <2>1, SumInt
  <1>8. w[c] \in Int /\ u[c] \in Int /\ w[c] <= u[c]
    BY <1>3
  <1>9. ~(SumFunctionOnSet(w, T) <= SumFunctionOnSet(u, T))
    BY <1>1
  <1> HIDE DEF c, R
  <1> QED
    BY <1>5, <1>6, <1>7, <1>8, <1>9

\* Equal values, equal sums.
LEMMA SumSame ==
  ASSUME NEW S, IsFiniteSet(S),
         NEW w, \A x \in S : w[x] \in Int,
         NEW u, \A x \in S : u[x] = w[x]
  PROVE  SumFunctionOnSet(u, S) = SumFunctionOnSet(w, S)
  <1>1. SumFunctionOnSet(u, S) <= SumFunctionOnSet(w, S)
        /\ SumFunctionOnSet(w, S) <= SumFunctionOnSet(u, S)
    BY SumMonotonic
  <1>2. SumFunctionOnSet(u, S) \in Int /\ SumFunctionOnSet(w, S) \in Int
    BY SumInt
  <1> QED
    BY <1>1, <1>2

\* One value changed.
LEMMA SumChanged ==
  ASSUME NEW S, IsFiniteSet(S), NEW a \in S,
         NEW w, \A x \in S : w[x] \in Int,
         NEW u, \A x \in S : u[x] \in Int,
         \A x \in S \ {a} : u[x] = w[x]
  PROVE  SumFunctionOnSet(u, S) = SumFunctionOnSet(w, S) + (u[a] - w[a])
  <1>1. IsFiniteSet(S \ {a})
    BY FS_RemoveElement
  <1>2. SumFunctionOnSet(u, S \ {a}) = SumFunctionOnSet(w, S \ {a})
    BY <1>1, SumSame
  <1>3. /\ SumFunctionOnSet(u, S) = u[a] + SumFunctionOnSet(u, S \ {a})
        /\ SumFunctionOnSet(w, S) = w[a] + SumFunctionOnSet(w, S \ {a})
    BY SumRemove
  <1>4. SumFunctionOnSet(w, S \ {a}) \in Int /\ w[a] \in Int /\ u[a] \in Int
    BY <1>1, SumInt
  <1> QED
    BY <1>2, <1>3, <1>4

\* A sum of zeros.
LEMMA SumZero ==
  ASSUME NEW S, IsFiniteSet(S), NEW w, \A x \in S : w[x] = 0
  PROVE  SumFunctionOnSet(w, S) = 0
  <1> DEFINE B == {s \in SUBSET S : SumFunctionOnSet(w, s) # 0}
  <1> SUFFICES ASSUME B # {} PROVE FALSE
    OBVIOUS
  <1>1. PICK T \in B : \A U \in SUBSET T : U # T => U \notin B
    <2>1. B \subseteq SUBSET S
      OBVIOUS
    <2> HIDE DEF B
    <2> QED
      BY <2>1, SmallestSubset
  <1>2. T # {}
    <2>1. T = {} => SumFunctionOnSet(w, T) = 0
      BY SumEmpty
    <2> QED
      BY <1>1, <2>1
  <1>3. First(T) \in T /\ IsFiniteSet(T) /\ T \in SUBSET S
    BY <1>1, <1>2, FirstIsIn, FS_Subset
  <1>4. T \ {First(T)} \in SUBSET T /\ T \ {First(T)} # T
    BY <1>3
  <1>5. SumFunctionOnSet(w, T \ {First(T)}) = 0
    BY <1>1, <1>3, <1>4
  <1>6. SumFunctionOnSet(w, T) = w[First(T)] + SumFunctionOnSet(w, T \ {First(T)})
    BY <1>2, <1>3, SumFirst
  <1> QED
    BY <1>1, <1>3, <1>5, <1>6

\* A sum of natural numbers is one.
LEMMA SumNat ==
  ASSUME NEW S, IsFiniteSet(S), NEW w, \A x \in S : w[x] \in Nat
  PROVE  SumFunctionOnSet(w, S) \in Nat
  <1>1. PICK z : z = [x \in S |-> 0]
    OBVIOUS
  <1>2. \A x \in S : z[x] = 0 /\ z[x] \in Int /\ w[x] \in Int /\ z[x] <= w[x]
    BY <1>1
  <1>3. SumFunctionOnSet(z, S) = 0 /\ SumFunctionOnSet(z, S) <= SumFunctionOnSet(w, S)
    BY <1>2, SumZero, SumMonotonic
  <1>4. SumFunctionOnSet(w, S) \in Int
    BY <1>2, SumInt
  <1> QED
    BY <1>3, <1>4

\* With no value below zero, a larger set has no smaller sum.
LEMMA SumOfMore ==
  ASSUME NEW S, IsFiniteSet(S), NEW w, \A x \in S : w[x] \in Nat, NEW R \in SUBSET S
  PROVE  SumFunctionOnSet(w, R) <= SumFunctionOnSet(w, S)
  <1> DEFINE B == {s \in SUBSET S : R \subseteq s
                                    /\ ~(SumFunctionOnSet(w, R) <= SumFunctionOnSet(w, s))}
  <1> SUFFICES ASSUME B # {} PROVE FALSE
    OBVIOUS
  <1>1. PICK T \in B : \A U \in SUBSET T : U # T => U \notin B
    <2>1. B \subseteq SUBSET S
      OBVIOUS
    <2> HIDE DEF B
    <2> QED
      BY <2>1, SmallestSubset
  <1>2. T \in SUBSET S /\ IsFiniteSet(T) /\ R \subseteq T
        /\ ~(SumFunctionOnSet(w, R) <= SumFunctionOnSet(w, T))
    BY <1>1, FS_Subset
  <1>3. IsFiniteSet(R) /\ SumFunctionOnSet(w, R) \in Nat
    BY FS_Subset, SumNat
  <1>4. PICK a \in T : a \notin R
    BY <1>2, <1>3
  <1>5. T \ {a} \in SUBSET T /\ T \ {a} # T /\ T \ {a} \in SUBSET S /\ R \subseteq T \ {a}
    BY <1>2, <1>4
  <1>6. SumFunctionOnSet(w, R) <= SumFunctionOnSet(w, T \ {a})
    BY <1>1, <1>5
  <1>7. IsFiniteSet(T \ {a}) /\ \A x \in T : w[x] \in Nat /\ w[x] \in Int
    BY <1>2, FS_RemoveElement
  <1>8. SumFunctionOnSet(w, T) = w[a] + SumFunctionOnSet(w, T \ {a})
    BY <1>2, <1>4, <1>7, SumRemove
  <1>9. SumFunctionOnSet(w, T \ {a}) \in Nat
    <2>1. \A x \in T \ {a} : w[x] \in Nat
      BY <1>7
    <2> QED
      BY <1>7, <2>1, SumNat
  <1>10. w[a] \in Nat
    BY <1>4, <1>7
  <1> QED
    BY <1>2, <1>3, <1>6, <1>8, <1>9, <1>10

\* A sum of numbers up to c.
LEMMA SumBounded ==
  ASSUME NEW S, IsFiniteSet(S), NEW c \in Nat,
         NEW w, \A x \in S : w[x] \in Nat /\ w[x] <= c
  PROVE  SumFunctionOnSet(w, S) <= Cardinality(S) * c
  <1> DEFINE B == {s \in SUBSET S : ~(SumFunctionOnSet(w, s) <= Cardinality(s) * c)}
  <1> SUFFICES ASSUME B # {} PROVE FALSE
    OBVIOUS
  <1>1. PICK T \in B : \A U \in SUBSET T : U # T => U \notin B
    <2>1. B \subseteq SUBSET S
      OBVIOUS
    <2> HIDE DEF B
    <2> QED
      BY <2>1, SmallestSubset
  <1>2. T \in SUBSET S /\ IsFiniteSet(T) /\ Cardinality(T) \in Nat
        /\ ~(SumFunctionOnSet(w, T) <= Cardinality(T) * c)
    BY <1>1, FS_Subset, FS_CardinalityType
  <1>3. T # {}
    <2>1. T = {} => SumFunctionOnSet(w, T) = 0 /\ Cardinality(T) * c = 0
      BY SumEmpty, FS_EmptySet
    <2> QED
      BY <1>2, <2>1
  <1>4. PICK a \in T : TRUE
    BY <1>3
  <1>5. PICK R : R = T \ {a}
    OBVIOUS
  <1>6. R \in SUBSET T /\ R # T /\ R \in SUBSET S /\ IsFiniteSet(R)
        /\ Cardinality(R) = Cardinality(T) - 1
    BY <1>2, <1>4, <1>5, FS_RemoveElement
  <1>7. SumFunctionOnSet(w, R) <= Cardinality(R) * c
    BY <1>1, <1>6
  <1>8. SumFunctionOnSet(w, T) = w[a] + SumFunctionOnSet(w, R)
    <2>1. \A x \in T : w[x] \in Int
      BY <1>2
    <2> QED
      BY <1>2, <1>4, <1>5, <2>1, SumRemove
  <1>9. SumFunctionOnSet(w, R) \in Nat
    <2>1. \A x \in R : w[x] \in Nat
      BY <1>6
    <2> QED
      BY <1>6, <2>1, SumNat
  <1>10. w[a] \in Nat /\ w[a] <= c
    BY <1>2, <1>4
  <1>11. \A r, n, x, y \in Nat : n = r + 1 /\ y <= r * c /\ x <= c => x + y <= n * c
    <2>1. \A r \in Nat : r * c \in Nat /\ (r + 1) * c = r * c + c
      OBVIOUS
    <2> QED
      BY <2>1
  <1>12. Cardinality(R) \in Nat /\ Cardinality(T) = Cardinality(R) + 1
    BY <1>2, <1>6, FS_CardinalityType
  <1> QED
    BY <1>2, <1>7, <1>8, <1>9, <1>10, <1>11, <1>12

=============================================================================
