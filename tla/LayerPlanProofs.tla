--------------------------- MODULE LayerPlanProofs ---------------------------
(***************************************************************************)
(* What the planners of LayerPlan compute, for every number of layers,     *)
(* every fleet and all weights.                                            *)
(*                                                                         *)
(* Sums and loops are recursive functions, so the proofs are inductions.   *)
(* They are carried by sets of numbers: a set that has 0 and, with each    *)
(* number, the next one, has all of them (Induction).                      *)
(***************************************************************************)
EXTENDS LayerPlan, FiniteSetTheorems, WellFoundedInduction, TLAPS

-----------------------------------------------------------------------------
(***************************************************************************)
(* Induction, and the extreme elements of finite sets.                     *)
(***************************************************************************)
LEMMA LeastNumber ==
  ASSUME NEW S \in SUBSET Nat, S # {}
  PROVE  \E m \in S : \A n \in S : m <= n
<1> DEFINE R == {ss \in Nat \X Nat : ss[1] < ss[2]}
<1>1. IsWellFoundedOn(R, Nat)
  BY NatLessThanWellFounded DEF OpToRel
<1>2. \E x \in S : \A y \in S : ~ (<<y, x>> \in R)
  <2> HIDE DEF R
  <2> QED
    BY <1>1, WFMin
<1>3. PICK m \in S : \A y \in S : ~ (<<y, m>> \in R)
  BY <1>2
<1>4. \A y \in S : ~ (y < m)
  BY <1>3
<1> QED
  BY <1>4

LEMMA Induction ==
  ASSUME NEW T \in SUBSET Nat, 0 \in T, \A n \in T : n + 1 \in T
  PROVE  T = Nat
<1>1. SUFFICES ASSUME Nat \ T # {} PROVE FALSE
  OBVIOUS
<1>2. PICK m \in Nat \ T : \A n \in Nat \ T : m <= n
  BY <1>1, LeastNumber
<1>3. m # 0 /\ m - 1 \in Nat /\ m - 1 \notin Nat \ T
  BY <1>2
<1>4. m - 1 \in T
  BY <1>3
<1> QED
  BY <1>2, <1>4

\* By induction on the size of the set.
LEMMA LargestOfFinite ==
  ASSUME NEW S \in SUBSET Int, IsFiniteSet(S), S # {}
  PROVE  Max(S) \in S /\ \A y \in S : Max(S) >= y
<1> DEFINE HasMax(X) == \E x \in X : \A y \in X : x >= y
           T == {n \in Nat : \A X \in SUBSET Int :
                   IsFiniteSet(X) /\ Cardinality(X) = n + 1 => HasMax(X)}
<1>1. 0 \in T
  <2> SUFFICES ASSUME NEW X \in SUBSET Int, IsFiniteSet(X), Cardinality(X) = 0 + 1
               PROVE  HasMax(X)
    OBVIOUS
  <2>1. PICK x : X = {x}
    <3>1. Cardinality(X) = 1
      OBVIOUS
    <3> QED
      BY <3>1, FS_Singleton
  <2> QED
    BY <2>1
<1>2. \A n \in T : n + 1 \in T
  <2> SUFFICES ASSUME NEW n \in T, NEW X \in SUBSET Int, IsFiniteSet(X),
                      Cardinality(X) = (n + 1) + 1
               PROVE  HasMax(X)
    OBVIOUS
  <2>1. PICK x \in X : TRUE
    <3>1. n \in Nat /\ Cardinality(X) # 0
      OBVIOUS
    <3> QED
      BY <3>1, FS_EmptySet
  <2>2. IsFiniteSet(X \ {x}) /\ Cardinality(X \ {x}) = n + 1
    BY FS_RemoveElement
  <2>3. PICK z \in X \ {x} : \A y \in X \ {x} : z >= y
    BY <2>2
  <2>4. CASE x >= z
    BY <2>3, <2>4
  <2>5. CASE ~ (x >= z)
    BY <2>3, <2>5
  <2> QED
    BY <2>4, <2>5
<1>3. T = Nat
  <2> HIDE DEF T
  <2>1. T \in SUBSET Nat
    BY DEF T
  <2> QED
    BY <1>1, <1>2, <2>1, Induction
<1>4. Cardinality(S) \in Nat \ {0}
  BY FS_CardinalityType, FS_EmptySet
<1>5. Cardinality(S) - 1 \in T
  BY <1>3, <1>4
<1>6. HasMax(S)
  BY <1>4, <1>5
<1> QED
  BY <1>6 DEF Max

LEMMA SmallestOfFinite ==
  ASSUME NEW S \in SUBSET Int, IsFiniteSet(S), S # {}
  PROVE  Min(S) \in S /\ \A y \in S : Min(S) <= y
<1> DEFINE M == {0 - y : y \in S}
<1>1. M \in SUBSET Int /\ M # {}
  OBVIOUS
<1>2. IsFiniteSet(M)
  <2> DEFINE f == [y \in S |-> 0 - y]
  <2>1. f \in Surjection(S, M)
    BY DEF Surjection
  <2> QED
    BY <2>1, FS_Surjection
<1>3. Max(M) \in M /\ \A y \in M : Max(M) >= y
  <2> HIDE DEF M
  <2> QED
    BY <1>1, <1>2, LargestOfFinite
<1>4. PICK x \in S : Max(M) = 0 - x
  BY <1>3
<1>5. \A y \in S : x <= y
  <2> SUFFICES ASSUME NEW y \in S PROVE x <= y
    OBVIOUS
  <2>1. 0 - y \in M
    OBVIOUS
  <2> QED
    BY <1>3, <1>4, <2>1
<1> QED
  BY <1>5 DEF Min

-----------------------------------------------------------------------------
(***************************************************************************)
(* Sums.  SumFunctionOnSet(f, S) is the value at S of a function on the    *)
(* subsets of S, which takes the elements off one after the other.         *)
(***************************************************************************)
One(s) == CHOOSE x \in s : TRUE

\* g holds the sums of f over the subsets of S.
AddsUp(f, S, g) ==
  g = [s \in SUBSET S |-> IF s = {} THEN 0 ELSE f[One(s)] + g[s \ {One(s)}]]

LEMMA SumIsChosen ==
  ASSUME NEW f, NEW S
  PROVE  SumFunctionOnSet(f, S) = (CHOOSE g : AddsUp(f, S, g))[S]
BY DEF SumFunctionOnSet, FoldFunctionOnSet, MapThenFoldSet, AddsUp, One

LEMMA OneIsLess ==
  ASSUME NEW S, IsFiniteSet(S), NEW s \in SUBSET S, s # {}
  PROVE  /\ One(s) \in s /\ s \ {One(s)} \in SUBSET S
         /\ Cardinality(s) \in Nat \ {0}
         /\ Cardinality(s \ {One(s)}) = Cardinality(s) - 1
<1>1. One(s) \in s
  BY DEF One
<1>2. IsFiniteSet(s)
  BY FS_Subset
<1> QED
  BY <1>1, <1>2, FS_RemoveElement, FS_CardinalityType, FS_EmptySet

LEMMA SumsExist ==
  ASSUME NEW f, NEW S, IsFiniteSet(S)
  PROVE  \E g : AddsUp(f, S, g)
<1> DEFINE Small(n) == {s \in SUBSET S : Cardinality(s) <= n}
           UpTo(n, g) == g = [s \in Small(n) |->
                                IF s = {} THEN 0 ELSE f[One(s)] + g[s \ {One(s)}]]
           T == {n \in Nat : \E g : UpTo(n, g)}
<1>0. \A s \in SUBSET S : Cardinality(s) \in Nat /\ (Cardinality(s) = 0 <=> s = {})
  BY FS_Subset, FS_CardinalityType, FS_EmptySet
<1>1. 0 \in T
  <2> DEFINE g == [s \in Small(0) |-> 0]
  <2>1. \A s \in Small(0) : s = {}
    BY <1>0
  <2>2. g = [s \in Small(0) |-> IF s = {} THEN 0 ELSE f[One(s)] + g[s \ {One(s)}]]
    BY <2>1
  <2> QED
    BY <2>2
<1>2. ASSUME NEW n \in Nat, NEW g, UpTo(n, g) PROVE \E h : UpTo(n + 1, h)
  <2> DEFINE h == [s \in Small(n + 1) |->
                     IF s = {} THEN 0 ELSE f[One(s)] + g[s \ {One(s)}]]
  <2>1. \A s \in Small(n) : s \in Small(n + 1) /\ h[s] = g[s]
    <3>1. \A s \in Small(n) : s \in Small(n + 1)
      BY <1>0
    <3> HIDE DEF Small
    <3> QED
      BY <1>2, <3>1
  <2>4. \A s \in Small(n + 1) : s # {} => s \ {One(s)} \in Small(n)
    BY OneIsLess
  <2>5. h = [s \in Small(n + 1) |-> IF s = {} THEN 0 ELSE f[One(s)] + h[s \ {One(s)}]]
    <3> HIDE DEF Small
    <3>1. \A s \in Small(n + 1) : s # {} => h[s \ {One(s)}] = g[s \ {One(s)}]
      BY <2>1, <2>4
    <3> QED
      BY <3>1
  <2> QED
    BY <2>5
<1>3. T = Nat
  <2>1. \A n \in T : n + 1 \in T
    <3> HIDE DEF UpTo
    <3> QED
      BY <1>2
  <2> HIDE DEF T
  <2>2. T \in SUBSET Nat
    BY DEF T
  <2> QED
    BY <1>1, <2>1, <2>2, Induction
<1>4. Cardinality(S) \in T
  BY <1>3, FS_CardinalityType
<1>5. PICK g : UpTo(Cardinality(S), g)
  BY <1>4
<1>6. Small(Cardinality(S)) = SUBSET S
  BY FS_Subset
<1> QED
  BY <1>5, <1>6 DEF AddsUp

\* The sums over a set are the same seen from a larger set.
LEMMA SumsAgree ==
  ASSUME NEW f, NEW S, IsFiniteSet(S), NEW R \in SUBSET S,
         NEW g, AddsUp(f, S, g), NEW h, AddsUp(f, R, h)
  PROVE  \A s \in SUBSET R : g[s] = h[s]
<1> DEFINE T == {n \in Nat : \A s \in SUBSET R : Cardinality(s) = n => g[s] = h[s]}
<1>0. /\ IsFiniteSet(R)
      /\ \A s \in SUBSET R : Cardinality(s) \in Nat /\ (Cardinality(s) = 0 <=> s = {})
  BY FS_Subset, FS_CardinalityType, FS_EmptySet
<1>1. 0 \in T
  BY <1>0 DEF AddsUp
<1>2. \A n \in T : n + 1 \in T
  <2> SUFFICES ASSUME NEW n \in T, NEW s \in SUBSET R, Cardinality(s) = n + 1
               PROVE  g[s] = h[s]
    OBVIOUS
  <2>1. n \in Nat /\ s # {}
    BY <1>0
  <2>2. s \ {One(s)} \in SUBSET R /\ Cardinality(s \ {One(s)}) = n
    BY <1>0, <2>1, OneIsLess
  <2>3. g[s \ {One(s)}] = h[s \ {One(s)}]
    BY <2>2
  <2>4. g[s] = f[One(s)] + g[s \ {One(s)}] /\ h[s] = f[One(s)] + h[s \ {One(s)}]
    BY <2>1 DEF AddsUp
  <2> QED
    BY <2>3, <2>4
<1>3. T = Nat
  <2> HIDE DEF T
  <2>1. T \in SUBSET Nat
    BY DEF T
  <2> QED
    BY <1>1, <1>2, <2>1, Induction
<1> QED
  BY <1>0, <1>3

LEMMA SumByOne ==
  ASSUME NEW f, NEW S, IsFiniteSet(S)
  PROVE  SumFunctionOnSet(f, S) =
           IF S = {} THEN 0 ELSE f[One(S)] + SumFunctionOnSet(f, S \ {One(S)})
<1> DEFINE R == S \ {One(S)}
           g == CHOOSE g : AddsUp(f, S, g)
           h == CHOOSE h : AddsUp(f, R, h)
<1>1. AddsUp(f, S, g)
  BY SumsExist
<1>2. IsFiniteSet(R)
  BY FS_RemoveElement
<1>3. AddsUp(f, R, h)
  BY <1>2, SumsExist
<1>4. g[R] = h[R]
  <2>1. R \in SUBSET S /\ R \in SUBSET R
    OBVIOUS
  <2> HIDE DEF g, h, R
  <2> QED
    BY <1>1, <1>3, <2>1, SumsAgree
<1>5. g[S] = IF S = {} THEN 0 ELSE f[One(S)] + g[S \ {One(S)}]
  <2> HIDE DEF g
  <2> QED
    BY <1>1 DEF AddsUp
<1> QED
  BY <1>4, <1>5, SumIsChosen

LEMMA SumOfNothing == \A f : SumFunctionOnSet(f, {}) = 0
BY SumByOne, FS_EmptySet

LEMMA SumType ==
  ASSUME NEW f, NEW S, IsFiniteSet(S), \A x \in S : f[x] \in Int
  PROVE  SumFunctionOnSet(f, S) \in Int
<1> DEFINE T == {n \in Nat : \A s \in SUBSET S :
                   Cardinality(s) = n => SumFunctionOnSet(f, s) \in Int}
<1>0. \A s \in SUBSET S : /\ IsFiniteSet(s)
                          /\ Cardinality(s) \in Nat /\ (Cardinality(s) = 0 <=> s = {})
  BY FS_Subset, FS_CardinalityType, FS_EmptySet
<1>1. 0 \in T
  BY <1>0, SumOfNothing
<1>2. \A n \in T : n + 1 \in T
  <2> SUFFICES ASSUME NEW n \in T, NEW s \in SUBSET S, Cardinality(s) = n + 1
               PROVE  SumFunctionOnSet(f, s) \in Int
    OBVIOUS
  <2>1. n \in Nat /\ s # {}
    BY <1>0
  <2>2. One(s) \in S /\ s \ {One(s)} \in SUBSET S /\ Cardinality(s \ {One(s)}) = n
    BY <2>1, OneIsLess
  <2>3. SumFunctionOnSet(f, s \ {One(s)}) \in Int /\ f[One(s)] \in Int
    BY <2>2
  <2> QED
    BY <1>0, <2>1, <2>3, SumByOne
<1>3. T = Nat
  <2> HIDE DEF T
  <2>1. T \in SUBSET Nat
    BY DEF T
  <2> QED
    BY <1>1, <1>2, <2>1, Induction
<1> QED
  BY <1>0, <1>3

\* Which element is taken off first makes no difference.
LEMMA SumOfMore ==
  ASSUME NEW f, NEW S, IsFiniteSet(S), NEW x, x \notin S,
         \A y \in S \cup {x} : f[y] \in Int
  PROVE  SumFunctionOnSet(f, S \cup {x}) = SumFunctionOnSet(f, S) + f[x]
<1> DEFINE U == S \cup {x}
           T == {n \in Nat : \A s \in SUBSET U : \A y \in U :
                   Cardinality(s) = n /\ y \notin s =>
                     SumFunctionOnSet(f, s \cup {y}) = SumFunctionOnSet(f, s) + f[y]}
<1>0. /\ IsFiniteSet(U)
      /\ \A s \in SUBSET U : /\ IsFiniteSet(s)
                             /\ Cardinality(s) \in Nat /\ (Cardinality(s) = 0 <=> s = {})
  BY FS_AddElement, FS_Subset, FS_CardinalityType, FS_EmptySet
<1>1. \A s \in SUBSET U : SumFunctionOnSet(f, s) \in Int
  BY <1>0, SumType
<1>2. 0 \in T
  <2> SUFFICES ASSUME NEW y \in U
               PROVE  SumFunctionOnSet(f, {} \cup {y}) = SumFunctionOnSet(f, {}) + f[y]
    BY <1>0
  <2>1. {} \cup {y} = {y} /\ One({y}) = y /\ {y} \ {y} = {} /\ IsFiniteSet({y})
    BY FS_Singleton DEF One
  <2>2. SumFunctionOnSet(f, {y}) = f[y] + SumFunctionOnSet(f, {})
    BY <2>1, SumByOne
  <2> QED
    BY <2>1, <2>2, SumOfNothing
<1>3. \A n \in T : n + 1 \in T
  <2> SUFFICES ASSUME NEW n \in T, NEW s \in SUBSET U, NEW y \in U,
                      Cardinality(s) = n + 1, y \notin s
               PROVE  SumFunctionOnSet(f, s \cup {y}) = SumFunctionOnSet(f, s) + f[y]
    OBVIOUS
  <2> DEFINE z == One(s \cup {y})
             r == s \ {z}
  <2>1. s \cup {y} \in SUBSET U /\ s \cup {y} # {} /\ n \in Nat
    OBVIOUS
  <2>2. z \in s \cup {y}
    BY <2>1 DEF One
  <2>3. SumFunctionOnSet(f, s \cup {y}) = f[z] + SumFunctionOnSet(f, (s \cup {y}) \ {z})
    BY <2>1, <1>0, SumByOne
  <2>4. CASE z = y
    <3>1. (s \cup {y}) \ {z} = s
      BY <2>4
    <3>2. SumFunctionOnSet(f, s) \in Int /\ f[y] \in Int
      BY <1>1
    <3> HIDE DEF z
    <3> QED
      BY <2>3, <2>4, <3>1, <3>2
  <2>5. CASE z # y
    <3>1. /\ z \in s /\ z \in U /\ (s \cup {y}) \ {z} = r \cup {y} /\ r \cup {z} = s
          /\ r \in SUBSET U /\ y \notin r /\ z \notin r
      BY <2>2, <2>5
    <3>2. Cardinality(r) = n
      <4>1. IsFiniteSet(s) /\ n \in Nat /\ z \in s
        BY <1>0, <2>1, <3>1
      <4>2. Cardinality(s \ {z}) = Cardinality(s) - 1
        <5> HIDE DEF z
        <5> QED
          BY <4>1, FS_RemoveElement
      <4> QED
        BY <4>1, <4>2
    <3>3. SumFunctionOnSet(f, r \cup {y}) = SumFunctionOnSet(f, r) + f[y]
      BY <3>1, <3>2
    <3>4. SumFunctionOnSet(f, r \cup {z}) = SumFunctionOnSet(f, r) + f[z]
      BY <3>1, <3>2
    <3>5. SumFunctionOnSet(f, r) \in Int /\ f[y] \in Int /\ f[z] \in Int
      BY <1>1, <3>1
    <3> HIDE DEF z, r
    <3> QED
      BY <2>3, <3>1, <3>3, <3>4, <3>5
  <2> QED
    BY <2>4, <2>5
<1>4. T = Nat
  <2> HIDE DEF T
  <2>1. T \in SUBSET Nat
    BY DEF T
  <2> QED
    BY <1>2, <1>3, <2>1, Induction
<1>5. Cardinality(S) \in T /\ S \in SUBSET U /\ x \in U
  BY <1>4, FS_CardinalityType
<1> QED
  BY <1>5

LEMMA SubsetInduction ==
  ASSUME NEW S, IsFiniteSet(S), NEW P \in SUBSET SUBSET S, {} \in P,
         \A s \in P : \A x \in S \ s : s \cup {x} \in P
  PROVE  S \in P
<1> DEFINE T == {n \in Nat : \A s \in SUBSET S : Cardinality(s) = n => s \in P}
<1>0. \A s \in SUBSET S : /\ IsFiniteSet(s)
                          /\ Cardinality(s) \in Nat /\ (Cardinality(s) = 0 <=> s = {})
  BY FS_Subset, FS_CardinalityType, FS_EmptySet
<1>1. 0 \in T
  BY <1>0
<1>2. \A n \in T : n + 1 \in T
  <2> SUFFICES ASSUME NEW n \in T, NEW s \in SUBSET S, Cardinality(s) = n + 1
               PROVE  s \in P
    OBVIOUS
  <2>1. n \in Nat /\ s # {}
    BY <1>0
  <2>2. /\ One(s) \in s /\ s \ {One(s)} \in SUBSET S
        /\ Cardinality(s \ {One(s)}) = n
    BY <2>1, OneIsLess
  <2>3. s \ {One(s)} \in P /\ One(s) \in S \ (s \ {One(s)})
    BY <2>2
  <2>4. (s \ {One(s)}) \cup {One(s)} = s
    BY <2>2
  <2> QED
    BY <2>3, <2>4
<1>3. T = Nat
  <2> HIDE DEF T
  <2>1. T \in SUBSET Nat
    BY DEF T
  <2> QED
    BY <1>1, <1>2, <2>1, Induction
<1> QED
  BY <1>0, <1>3

\* The sum of a sum.
LEMMA SumOfPairs ==
  ASSUME NEW f, NEW g, NEW h, NEW S, IsFiniteSet(S), NEW c \in Int,
         \A x \in S : f[x] \in Int /\ g[x] \in Int /\ h[x] = c * f[x] + g[x]
  PROVE  SumFunctionOnSet(h, S) = c * SumFunctionOnSet(f, S) + SumFunctionOnSet(g, S)
<1> DEFINE P == {s \in SUBSET S : SumFunctionOnSet(h, s) =
                                   c * SumFunctionOnSet(f, s) + SumFunctionOnSet(g, s)}
<1>1. {} \in P
  BY SumOfNothing
<1>2. \A s \in P : \A x \in S \ s : s \cup {x} \in P
  <2> SUFFICES ASSUME NEW s \in P, NEW x \in S \ s
               PROVE  SumFunctionOnSet(h, s \cup {x}) =
                        c * SumFunctionOnSet(f, s \cup {x}) + SumFunctionOnSet(g, s \cup {x})
    OBVIOUS
  <2>1. IsFiniteSet(s) /\ s \in SUBSET S
    BY FS_Subset
  <2>2. /\ SumFunctionOnSet(f, s \cup {x}) = SumFunctionOnSet(f, s) + f[x]
        /\ SumFunctionOnSet(g, s \cup {x}) = SumFunctionOnSet(g, s) + g[x]
        /\ SumFunctionOnSet(h, s \cup {x}) = SumFunctionOnSet(h, s) + h[x]
    <3>1. \A y \in s \cup {x} : f[y] \in Int /\ g[y] \in Int /\ h[y] \in Int
      BY <2>1
    <3> QED
      BY <2>1, <3>1, SumOfMore
  <2> DEFINE F == SumFunctionOnSet(f, s)
             G == SumFunctionOnSet(g, s)
  <2>3. F \in Int /\ G \in Int /\ f[x] \in Int /\ g[x] \in Int
    BY <2>1, SumType
  <2>4. SumFunctionOnSet(h, s) = c * F + G /\ h[x] = c * f[x] + g[x]
    OBVIOUS
  <2>5. (c * F + G) + (c * f[x] + g[x]) = c * (F + f[x]) + (G + g[x])
    <3> HIDE DEF F, G
    <3> QED
      BY <2>3
  <2> QED
    BY <2>2, <2>4, <2>5
<1>3. S \in P
  <2> HIDE DEF P
  <2>1. P \in SUBSET SUBSET S
    BY DEF P
  <2> QED
    BY <1>1, <1>2, <2>1, SubsetInduction
<1> QED
  BY <1>3

LEMMA SumAtMost ==
  ASSUME NEW f, NEW g, NEW S, IsFiniteSet(S),
         \A x \in S : f[x] \in Int /\ g[x] \in Int /\ f[x] <= g[x]
  PROVE  SumFunctionOnSet(f, S) <= SumFunctionOnSet(g, S)
<1> DEFINE P == {s \in SUBSET S : SumFunctionOnSet(f, s) <= SumFunctionOnSet(g, s)}
<1>1. {} \in P
  BY SumOfNothing
<1>2. \A s \in P : \A x \in S \ s : s \cup {x} \in P
  <2> SUFFICES ASSUME NEW s \in P, NEW x \in S \ s
               PROVE  SumFunctionOnSet(f, s \cup {x}) <= SumFunctionOnSet(g, s \cup {x})
    OBVIOUS
  <2>1. IsFiniteSet(s) /\ s \in SUBSET S
    BY FS_Subset
  <2>2. /\ SumFunctionOnSet(f, s \cup {x}) = SumFunctionOnSet(f, s) + f[x]
        /\ SumFunctionOnSet(g, s \cup {x}) = SumFunctionOnSet(g, s) + g[x]
    <3>1. \A y \in s \cup {x} : f[y] \in Int /\ g[y] \in Int
      BY <2>1
    <3> QED
      BY <2>1, <3>1, SumOfMore
  <2>3. SumFunctionOnSet(f, s) \in Int /\ SumFunctionOnSet(g, s) \in Int
    BY <2>1, SumType
  <2> QED
    BY <2>2, <2>3
<1>3. S \in P
  <2> HIDE DEF P
  <2>1. P \in SUBSET SUBSET S
    BY DEF P
  <2> QED
    BY <1>1, <1>2, <2>1, SubsetInduction
<1> QED
  BY <1>3

LEMMA SumOfEquals ==
  ASSUME NEW f, NEW g, NEW S, IsFiniteSet(S),
         \A x \in S : f[x] \in Int /\ g[x] = f[x]
  PROVE  SumFunctionOnSet(g, S) = SumFunctionOnSet(f, S)
BY SumAtMost, SumType

LEMMA SumOfConstant ==
  ASSUME NEW f, NEW S, IsFiniteSet(S), NEW c \in Int, \A x \in S : f[x] = c
  PROVE  SumFunctionOnSet(f, S) = c * Cardinality(S)
<1> DEFINE P == {s \in SUBSET S : SumFunctionOnSet(f, s) = c * Cardinality(s)}
<1>1. {} \in P
  BY SumOfNothing, FS_EmptySet
<1>2. \A s \in P : \A x \in S \ s : s \cup {x} \in P
  <2> SUFFICES ASSUME NEW s \in P, NEW x \in S \ s
               PROVE  SumFunctionOnSet(f, s \cup {x}) = c * Cardinality(s \cup {x})
    OBVIOUS
  <2>1. IsFiniteSet(s) /\ s \in SUBSET S
    BY FS_Subset
  <2>2. SumFunctionOnSet(f, s \cup {x}) = SumFunctionOnSet(f, s) + c
    BY <2>1, SumOfMore
  <2>3. Cardinality(s) \in Nat /\ Cardinality(s \cup {x}) = Cardinality(s) + 1
    BY <2>1, FS_AddElement, FS_CardinalityType
  <2>4. SumFunctionOnSet(f, s) = c * Cardinality(s)
    OBVIOUS
  <2>5. \A n \in Nat : c * n + c = c * (n + 1)
    OBVIOUS
  <2> QED
    BY <2>2, <2>3, <2>4, <2>5
<1>3. S \in P
  <2> HIDE DEF P
  <2>1. P \in SUBSET SUBSET S
    BY DEF P
  <2> QED
    BY <1>1, <1>2, <2>1, SubsetInduction
<1> QED
  BY <1>3

\* Taking one element out of a sum.
LEMMA SumWithout ==
  ASSUME NEW f, NEW S, IsFiniteSet(S), NEW x \in S, \A y \in S : f[y] \in Int
  PROVE  SumFunctionOnSet(f, S) = SumFunctionOnSet(f, S \ {x}) + f[x]
<1>1. IsFiniteSet(S \ {x}) /\ (S \ {x}) \cup {x} = S /\ x \notin S \ {x}
  BY FS_RemoveElement
<1> QED
  BY <1>1, SumOfMore

LEMMA SumIsSplit ==
  ASSUME NEW f, NEW S, IsFiniteSet(S), NEW u \in SUBSET S, \A y \in S : f[y] \in Int
  PROVE  SumFunctionOnSet(f, S) = SumFunctionOnSet(f, u) + SumFunctionOnSet(f, S \ u)
<1> DEFINE P == {s \in SUBSET u :
                   SumFunctionOnSet(f, S) = SumFunctionOnSet(f, s) + SumFunctionOnSet(f, S \ s)}
<1>0. IsFiniteSet(u)
  BY FS_Subset
<1>1. {} \in P
  <2>1. S \ {} = S /\ SumFunctionOnSet(f, S) \in Int
    BY SumType
  <2> QED
    BY <2>1, SumOfNothing
<1>2. \A s \in P : \A x \in u \ s : s \cup {x} \in P
  <2> SUFFICES ASSUME NEW s \in P, NEW x \in u \ s
               PROVE  SumFunctionOnSet(f, S) = SumFunctionOnSet(f, s \cup {x})
                                               + SumFunctionOnSet(f, S \ (s \cup {x}))
    OBVIOUS
  <2>1. /\ IsFiniteSet(s) /\ IsFiniteSet(S \ s) /\ IsFiniteSet(S \ (s \cup {x}))
        /\ s \in SUBSET S /\ x \in S \ s /\ S \ (s \cup {x}) = (S \ s) \ {x}
    BY FS_Subset
  <2>2. SumFunctionOnSet(f, s \cup {x}) = SumFunctionOnSet(f, s) + f[x]
    BY <2>1, SumOfMore
  <2>3. SumFunctionOnSet(f, S \ s) = SumFunctionOnSet(f, S \ (s \cup {x})) + f[x]
    BY <2>1, SumWithout
  <2>4. /\ SumFunctionOnSet(f, s) \in Int /\ f[x] \in Int
        /\ SumFunctionOnSet(f, S \ (s \cup {x})) \in Int
    BY <2>1, SumType
  <2> QED
    BY <2>2, <2>3, <2>4
<1>3. u \in P
  <2> HIDE DEF P
  <2>1. P \in SUBSET SUBSET u
    BY DEF P
  <2> QED
    BY <1>0, <1>1, <1>2, <2>1, SubsetInduction
<1> QED
  BY <1>3

LEMMA SumOfMarks ==
  ASSUME NEW f, NEW S, IsFiniteSet(S), NEW u \in SUBSET S,
         \A x \in S : f[x] = IF x \in u THEN 1 ELSE 0
  PROVE  SumFunctionOnSet(f, S) = Cardinality(u)
<1>1. /\ IsFiniteSet(u) /\ IsFiniteSet(S \ u)
      /\ Cardinality(u) \in Nat /\ Cardinality(S \ u) \in Nat
  BY FS_Subset, FS_CardinalityType
<1>2. SumFunctionOnSet(f, u) = 1 * Cardinality(u)
  BY <1>1, SumOfConstant
<1>3. SumFunctionOnSet(f, S \ u) = 0 * Cardinality(S \ u)
  BY <1>1, SumOfConstant
<1>4. SumFunctionOnSet(f, S) = SumFunctionOnSet(f, u) + SumFunctionOnSet(f, S \ u)
  BY SumIsSplit
<1> QED
  BY <1>1, <1>2, <1>3, <1>4

LEMMA SumIsNatural ==
  ASSUME NEW f, NEW S, IsFiniteSet(S), \A x \in S : f[x] \in Nat
  PROVE  SumFunctionOnSet(f, S) \in Nat
<1> DEFINE z == [x \in S |-> 0]
<1>1. SumFunctionOnSet(z, S) = 0 * Cardinality(S)
  BY SumOfConstant
<1>2. SumFunctionOnSet(z, S) <= SumFunctionOnSet(f, S)
  <2>1. \A x \in S : z[x] = 0
    OBVIOUS
  <2> HIDE DEF z
  <2> QED
    BY <2>1, SumAtMost
<1>3. SumFunctionOnSet(f, S) \in Int /\ Cardinality(S) \in Nat
  BY SumType, FS_CardinalityType
<1> HIDE DEF z
<1> QED
  BY <1>1, <1>2, <1>3

-----------------------------------------------------------------------------
(***************************************************************************)
(* Slots laid one after the other.                                         *)
(***************************************************************************)
Split(sizes, k) ==
  /\ k \in Nat \ {0}
  /\ DOMAIN sizes = 0 .. k - 1
  /\ \A i \in 0 .. k - 1 : sizes[i] \in Int

LEMMA SlotsInRow ==
  ASSUME NEW e \in Int, NEW k, NEW sizes, Split(sizes, k)
  PROVE  /\ DOMAIN Slots(e, sizes) = 0 .. k - 1
         /\ Slots(e, sizes)[0].first = e
         /\ Slots(e, sizes)[k - 1].last = e + SumOf(sizes)
         /\ \A i \in 0 .. k - 1 :
              /\ Slots(e, sizes)[i] \in [first : Int, last : Int]
              /\ Slots(e, sizes)[i].last = Slots(e, sizes)[i].first + sizes[i]
              /\ i > 0 => Slots(e, sizes)[i].first = Slots(e, sizes)[i - 1].last
<1> DEFINE D == 0 .. k - 1
           before(i) == {j \in D : j < i}
           sum(i) == SumFunctionOnSet(sizes, before(i))
           s == Slots(e, sizes)
<1>0. k \in Nat /\ k > 0 /\ D = DOMAIN sizes /\ IsFiniteSet(D)
  BY FS_Interval DEF Split
<1>1. \A i \in Int : before(i) \in SUBSET D /\ IsFiniteSet(before(i)) /\ sum(i) \in Int
  <2> SUFFICES ASSUME NEW i \in Int
               PROVE  before(i) \in SUBSET D /\ IsFiniteSet(before(i)) /\ sum(i) \in Int
    OBVIOUS
  <2>1. before(i) \in SUBSET D /\ \A j \in before(i) : sizes[j] \in Int
    BY DEF Split
  <2>2. IsFiniteSet(before(i))
    BY <1>0, <2>1, FS_Subset
  <2> HIDE DEF before
  <2> QED
    BY <2>1, <2>2, SumType
<1>2. s = [i \in D |-> Range2(e + sum(i), e + sum(i) + sizes[i])]
  BY <1>0 DEF Slots
<1>3. \A i \in D : sum(i + 1) = sum(i) + sizes[i]
  <2> SUFFICES ASSUME NEW i \in D PROVE sum(i + 1) = sum(i) + sizes[i]
    OBVIOUS
  <2>1. before(i + 1) = before(i) \cup {i} /\ i \notin before(i) /\ i \in Int
    OBVIOUS
  <2>2. \A j \in before(i) \cup {i} : sizes[j] \in Int
    BY DEF Split
  <2>3. IsFiniteSet(before(i))
    BY <1>1, <2>1
  <2> HIDE DEF before
  <2> QED
    BY <2>1, <2>2, <2>3, SumOfMore
<1>4. sum(0) = 0 /\ sum(k) = SumOf(sizes)
  <2>1. before(0) = {} /\ before(k) = D
    BY <1>0
  <2> HIDE DEF before
  <2> QED
    BY <1>0, <2>1, SumOfNothing DEF SumOf, SumFunction
<1>5. \A i \in D : i \in Int /\ sizes[i] \in Int /\ sum(i) \in Int
  <2>1. \A i \in D : i \in Int /\ sizes[i] \in Int
    BY DEF Split
  <2> HIDE DEF sum, before, D
  <2> QED
    BY <1>1, <2>1
<1>6. 0 \in D /\ k - 1 \in D /\ (k - 1) + 1 = k
  BY <1>0
<1> HIDE DEF sum, before, s
<1>7. DOMAIN s = D
  BY <1>2
<1>8. \A i \in D : /\ s[i].first = e + sum(i) /\ s[i].last = e + sum(i) + sizes[i]
                   /\ s[i] \in [first : Int, last : Int]
  BY <1>2, <1>5 DEF Range2
<1>9. s[0].first = e
  BY <1>4, <1>6, <1>8
<1>10. s[k - 1].last = e + SumOf(sizes)
  <2>1. sum(k) = sum(k - 1) + sizes[k - 1]
    BY <1>3, <1>6
  <2> QED
    BY <1>4, <1>5, <1>6, <1>8, <2>1
<1>11. \A i \in D : s[i].last = s[i].first + sizes[i]
  BY <1>5, <1>8
<1>12. \A i \in D : i > 0 => s[i].first = s[i - 1].last
  <2> SUFFICES ASSUME NEW i \in D, i > 0 PROVE s[i].first = s[i - 1].last
    OBVIOUS
  <2>1. i - 1 \in D /\ (i - 1) + 1 = i
    BY <1>0
  <2>2. sum(i) = sum(i - 1) + sizes[i - 1]
    BY <1>3, <2>1
  <2> QED
    BY <1>5, <1>8, <2>1, <2>2
<1> QED
  BY <1>7, <1>8, <1>9, <1>10, <1>11, <1>12 DEF s

LEMMA SlotsFollow ==
  ASSUME NEW e \in Int, NEW k, NEW sizes, Split(sizes, k), NEW i \in 0 .. k - 1
  PROVE  /\ Slots(e, sizes)[i].last = Slots(e, sizes)[i].first + sizes[i]
         /\ i > 0 => Slots(e, sizes)[i].first = Slots(e, sizes)[i - 1].last
BY SlotsInRow

\* Nothing lies before the first slot.
LEMMA SlotsAscend ==
  ASSUME NEW e \in Nat, NEW k, NEW sizes, Split(sizes, k),
         \A i \in 0 .. k - 1 : sizes[i] >= 0
  PROVE  Slots(e, sizes) \in [0 .. k - 1 -> [first : Nat, last : Nat]]
<1> DEFINE s == Slots(e, sizes)
           T == {n \in Nat : n \in 0 .. k - 1 => s[n].first \in Nat}
<1>0. k \in Nat /\ k > 0 /\ \A i \in 0 .. k - 1 : sizes[i] \in Nat
  BY DEF Split
<1>1. 0 \in T
  <2>1. s[0].first = e
    BY SlotsInRow
  <2> HIDE DEF s
  <2> QED
    BY <2>1
<1>2. \A n \in T : n + 1 \in T
  <2> SUFFICES ASSUME NEW n \in T, n + 1 \in 0 .. k - 1 PROVE s[n + 1].first \in Nat
    OBVIOUS
  <2>1. n \in Nat /\ n \in 0 .. k - 1 /\ n + 1 > 0 /\ (n + 1) - 1 = n
    BY <1>0
  <2>2. s[n].first \in Nat
    BY <2>1
  <2>3. s[n + 1].first = s[n].first + sizes[n]
    <3>1. \A i \in 0 .. k - 1 : /\ s[i].last = s[i].first + sizes[i]
                                /\ i > 0 => s[i].first = s[i - 1].last
      BY SlotsInRow
    <3> HIDE DEF s
    <3> QED
      BY <2>1, <3>1
  <2> HIDE DEF s, T
  <2> QED
    BY <1>0, <2>1, <2>2, <2>3
<1>3. T = Nat
  <2> HIDE DEF T
  <2>1. T \in SUBSET Nat
    BY DEF T
  <2> QED
    BY <1>1, <1>2, <2>1, Induction
<1>4. \A i \in 0 .. k - 1 : s[i] \in [first : Nat, last : Nat]
  <2> SUFFICES ASSUME NEW i \in 0 .. k - 1 PROVE s[i] \in [first : Nat, last : Nat]
    OBVIOUS
  <2>1. s[i].first \in Nat
    BY <1>0, <1>3
  <2>2. s[i] \in [first : Int, last : Int] /\ s[i].last = s[i].first + sizes[i]
    BY SlotsInRow
  <2>3. s[i].last \in Nat
    BY <1>0, <2>1, <2>2
  <2> HIDE DEF s
  <2> QED
    BY <2>1, <2>2, <2>3
<1>5. s = [i \in 0 .. k - 1 |-> s[i]]
  BY DEF Slots, Split
<1> HIDE DEF s
<1> QED
  BY <1>4, <1>5 DEF s

LEMMA BalancedAddsUp ==
  ASSUME NEW b \in Nat, NEW k \in Nat \ {0}
  PROVE  /\ Split(Balanced(b, k), k)
         /\ \A i \in 0 .. k - 1 : Balanced(b, k)[i] >= 0 /\ (k <= b => Balanced(b, k)[i] >= 1)
         /\ SumOf(Balanced(b, k)) = b
<1> DEFINE q == b \div k
           r == b % k
           D == 0 .. k - 1
           u == {i \in D : i < r}
           ones == [i \in D |-> 1]
           marks == [i \in D |-> IF i \in u THEN 1 ELSE 0]
           f == Balanced(b, k)
<1>1. q \in Nat /\ r \in 0 .. k - 1 /\ b = q * k + r
  OBVIOUS
<1>2. k <= b => q >= 1
  BY <1>1
<1>3. f = [i \in D |-> q + (IF i < r THEN 1 ELSE 0)]
  BY DEF Balanced
<1>4. IsFiniteSet(D) /\ Cardinality(D) = k /\ u \in SUBSET D /\ Cardinality(u) = r
  <2>1. u = 0 .. r - 1
    BY <1>1
  <2>2. IsFiniteSet(D) /\ Cardinality(D) = k
    BY FS_Interval
  <2>3. Cardinality(0 .. r - 1) = r
    BY <1>1, FS_Interval
  <2> QED
    BY <2>1, <2>2, <2>3
<1>5. \A i \in D : /\ ones[i] = 1 /\ marks[i] = (IF i \in u THEN 1 ELSE 0)
                   /\ f[i] = q * ones[i] + marks[i] /\ f[i] \in Int
                   /\ f[i] >= 0 /\ (k <= b => f[i] >= 1)
  <2> HIDE DEF q, r, f
  <2> QED
    BY <1>1, <1>2, <1>3
<1> HIDE DEF q, r, u, D, ones, marks, f
<1>6. SumFunctionOnSet(ones, D) = 1 * Cardinality(D)
  BY <1>4, <1>5, SumOfConstant
<1>7. SumFunctionOnSet(marks, D) = Cardinality(u)
  BY <1>4, <1>5, SumOfMarks
<1>8. SumFunctionOnSet(f, D) = q * SumFunctionOnSet(ones, D) + SumFunctionOnSet(marks, D)
  <2>1. \A i \in D : ones[i] \in Int /\ marks[i] \in Int /\ f[i] = q * ones[i] + marks[i]
    BY <1>5
  <2> QED
    BY <1>1, <1>4, <2>1, SumOfPairs
<1>9. DOMAIN f = D
  BY <1>3
<1>10. SumOf(f) = b
  BY <1>1, <1>4, <1>6, <1>7, <1>8, <1>9 DEF SumOf, SumFunction
<1>11. Split(f, k)
  BY <1>5, <1>9 DEF Split, D
<1> QED
  BY <1>5, <1>10, <1>11 DEF f, D

-----------------------------------------------------------------------------
(***************************************************************************)
(* Slices in proportion to weights.                                        *)
(***************************************************************************)
Weights(w, n) == Split(w, n) /\ \A i \in 0 .. n - 1 : w[i] > 0

\* A slice exceeds its share of the layers by less than one.
Fair(sizes, total, w, n) ==
  \A i \in 0 .. n - 1 : (sizes[i] - 1) * SumOf(w) < total * w[i]

LEMMA SumOfWeights ==
  ASSUME NEW n, NEW w, Weights(w, n)
  PROVE  /\ DOMAIN w = 0 .. n - 1 /\ IsFiniteSet(0 .. n - 1)
         /\ n \in Nat /\ n > 0 /\ Cardinality(0 .. n - 1) = n
         /\ SumOf(w) = SumFunctionOnSet(w, 0 .. n - 1)
         /\ SumOf(w) \in Nat /\ SumOf(w) > 0
<1> DEFINE D == 0 .. n - 1
           ones == [i \in D |-> 1]
<1>1. DOMAIN w = D /\ n \in Nat /\ n > 0
  BY DEF Weights, Split
<1>2. IsFiniteSet(D) /\ Cardinality(D) = n
  BY <1>1, FS_Interval
<1>3. SumOf(w) = SumFunctionOnSet(w, D)
  BY <1>1 DEF SumOf, SumFunction
<1>4. SumFunctionOnSet(ones, D) = 1 * n
  <2>1. \A i \in D : ones[i] = 1
    OBVIOUS
  <2> HIDE DEF D, ones
  <2> QED
    BY <1>2, <2>1, SumOfConstant
<1>5. SumFunctionOnSet(ones, D) <= SumFunctionOnSet(w, D)
  <2>1. \A i \in D : ones[i] \in Int /\ w[i] \in Int /\ ones[i] <= w[i]
    BY DEF Weights, Split
  <2> HIDE DEF D, ones
  <2> QED
    BY <1>2, <2>1, SumAtMost
<1>6. SumFunctionOnSet(w, D) \in Int
  <2>1. \A i \in D : w[i] \in Int
    BY DEF Weights, Split
  <2> HIDE DEF D
  <2> QED
    BY <1>2, <2>1, SumType
<1> HIDE DEF D, ones
<1>7. SumOf(w) \in Nat /\ SumOf(w) > 0
  BY <1>1, <1>3, <1>4, <1>5, <1>6
<1> QED
  BY <1>1, <1>2, <1>3, <1>7 DEF D

LEMMA Division ==
  ASSUME NEW a \in Nat, NEW b \in Nat \ {0}
  PROVE  \E q \in Nat, r \in 0 .. b - 1 :
           q = a \div b /\ r = a % b /\ a = b * q + r
<1>1. a \div b \in Nat
  OBVIOUS
<1>2. a % b \in 0 .. b - 1
  OBVIOUS
<1> DEFINE q == a \div b
           r == a % b
<1>3. a = q * b + r
  OBVIOUS
<1> HIDE DEF q, r
<1>4. q \in Nat /\ r \in 0 .. b - 1
  BY <1>1, <1>2 DEF q, r
<1>5. a = b * q + r
  BY <1>3, <1>4
<1> QED
  BY <1>4, <1>5 DEF q, r

\* Largest-remainder rounding: the slices add up to the total, because the
\* remainders add up to as many shares as there are layers left over; whoever
\* gets one of these had a remainder.
LEMMA RoundedAddsUp ==
  ASSUME NEW n, NEW w, Weights(w, n), NEW total \in Nat, NEW sizes \in Rounded(total, w)
  PROVE  /\ Split(sizes, n)
         /\ \A i \in 0 .. n - 1 : sizes[i] >= 0
         /\ SumOf(sizes) = total
         /\ Fair(sizes, total, w, n)
<1> DEFINE D == 0 .. n - 1
           W == SumOf(w)
           floor == [i \in D |-> (total * w[i]) \div W]
           fraction == [i \in D |-> (total * w[i]) % W]
           share == [i \in D |-> total * w[i]]
           F == SumFunctionOnSet(floor, D)
           R == SumFunctionOnSet(fraction, D)
<1>1. /\ DOMAIN w = D /\ IsFiniteSet(D) /\ n \in Nat /\ n > 0
      /\ W \in Nat /\ W > 0 /\ W = SumFunctionOnSet(w, D)
      /\ \A i \in D : w[i] \in Nat /\ w[i] > 0
  <2>1. \A i \in D : w[i] \in Nat /\ w[i] > 0
    BY DEF Weights, Split
  <2> QED
    BY <2>1, SumOfWeights
<1>2. PICK u \in SUBSET D :
        /\ Cardinality(u) = total - SumFunction(floor)
        /\ \A i \in u, j \in D \ u : fraction[i] >= fraction[j]
        /\ sizes = [i \in D |-> floor[i] + (IF i \in u THEN 1 ELSE 0)]
  BY <1>1 DEF Rounded, SumOf
<1>3. SumFunction(floor) = F
  BY DEF SumFunction
<1>4. \A i \in D : /\ share[i] = total * w[i] /\ share[i] \in Nat
                   /\ floor[i] \in Nat /\ fraction[i] \in 0 .. W - 1
                   /\ share[i] = W * floor[i] + fraction[i]
  <2> SUFFICES ASSUME NEW i \in D
               PROVE  /\ share[i] = total * w[i] /\ share[i] \in Nat
                      /\ floor[i] \in Nat /\ fraction[i] \in 0 .. W - 1
                      /\ share[i] = W * floor[i] + fraction[i]
    OBVIOUS
  <2> DEFINE a == total * w[i]
  <2>1. a \in Nat
    BY <1>1
  <2>2. share[i] = a /\ floor[i] = a \div W /\ fraction[i] = a % W
    OBVIOUS
  <2> HIDE DEF a, W, floor, fraction, share
  <2>3. PICK q \in Nat, r \in 0 .. W - 1 : q = a \div W /\ r = a % W /\ a = W * q + r
    <3>1. W \in Nat \ {0}
      BY <1>1
    <3> QED
      BY <2>1, <3>1, Division, Zenon
  <2>4. /\ share[i] = a /\ share[i] \in Nat
        /\ floor[i] \in Nat /\ fraction[i] \in 0 .. W - 1
        /\ share[i] = W * floor[i] + fraction[i]
    BY <2>1, <2>2, <2>3
  <2>5. a = total * w[i]
    BY DEF a
  <2> QED
    BY <2>4, <2>5
<1> HIDE DEF D, W, floor, fraction, share
<1>5. F \in Int /\ R \in Int
  BY <1>1, <1>4, SumType
<1>6. SumFunctionOnSet(share, D) = total * W
  <2> DEFINE zero == [i \in D |-> 0]
  <2>1. SumFunctionOnSet(zero, D) = 0 * Cardinality(D)
    BY <1>1, SumOfConstant
  <2>2. \A i \in D : w[i] \in Int /\ zero[i] \in Int /\ share[i] = total * w[i] + zero[i]
    BY <1>1, <1>4
  <2> HIDE DEF zero
  <2>3. SumFunctionOnSet(share, D)
          = total * SumFunctionOnSet(w, D) + SumFunctionOnSet(zero, D)
    BY <1>1, <2>2, SumOfPairs
  <2>4. Cardinality(D) \in Nat
    BY <1>1, FS_CardinalityType
  <2> QED
    BY <1>1, <2>1, <2>3, <2>4
<1>7. SumFunctionOnSet(share, D) = W * F + R
  <2>1. \A i \in D : floor[i] \in Int /\ fraction[i] \in Int
                     /\ share[i] = W * floor[i] + fraction[i]
    BY <1>4
  <2> QED
    BY <1>1, <2>1, SumOfPairs
<1> DEFINE left == total - F
<1>8. W * left = R
  <2>1. total * W = W * F + R
    BY <1>6, <1>7
  <2> HIDE DEF F, R
  <2>2. W * (total - F) = total * W - W * F
    BY <1>1, <1>5
  <2>3. total * W \in Int /\ W * F \in Int
    BY <1>1, <1>5
  <2> QED
    BY <1>5, <2>1, <2>2, <2>3
<1>9. /\ IsFiniteSet(u) /\ Cardinality(u) = left /\ left \in Nat
      /\ \A i \in D : sizes[i] = floor[i] + (IF i \in u THEN 1 ELSE 0)
  BY <1>1, <1>2, <1>3, FS_Subset, FS_CardinalityType
<1>10. Split(sizes, n) /\ \A i \in 0 .. n - 1 : sizes[i] >= 0
  <2>1. DOMAIN sizes = D
    BY <1>2
  <2>2. \A i \in D : sizes[i] \in Int /\ sizes[i] >= 0
    BY <1>4, <1>9
  <2> QED
    BY <1>1, <2>1, <2>2 DEF Split, D
<1>11. SumOf(sizes) = total
  <2> DEFINE marks == [i \in D |-> IF i \in u THEN 1 ELSE 0]
  <2>1. \A i \in D : /\ marks[i] = IF i \in u THEN 1 ELSE 0
                     /\ floor[i] \in Int /\ marks[i] \in Int
                     /\ sizes[i] = 1 * floor[i] + marks[i]
    BY <1>4, <1>9
  <2> HIDE DEF marks
  <2>2. SumFunctionOnSet(marks, D) = Cardinality(u)
    BY <1>1, <2>1, SumOfMarks
  <2>3. SumFunctionOnSet(sizes, D) = 1 * F + SumFunctionOnSet(marks, D)
    BY <1>1, <2>1, SumOfPairs
  <2>4. DOMAIN sizes = D
    BY <1>2
  <2> QED
    BY <1>5, <1>9, <2>2, <2>3, <2>4 DEF SumOf, SumFunction
<1>12. ASSUME NEW i \in u PROVE fraction[i] > 0
  <2>1. SUFFICES ASSUME fraction[i] = 0 PROVE FALSE
    BY <1>4
  <2> DEFINE top == [j \in u \ {i} |-> W - 1]
             zero == [j \in D |-> 0]
  <2>2. /\ IsFiniteSet(u \ {i}) /\ IsFiniteSet(D \ u)
        /\ Cardinality(u \ {i}) = left - 1 /\ left >= 1
    <3>1. IsFiniteSet(u \ {i}) /\ Cardinality(u \ {i}) = Cardinality(u) - 1
      BY <1>9, FS_RemoveElement
    <3>2. IsFiniteSet(D \ u)
      BY <1>1, FS_Subset
    <3>3. Cardinality(u \ {i}) \in Nat
      BY <3>1, FS_CardinalityType
    <3> HIDE DEF left
    <3> QED
      BY <1>9, <3>1, <3>2, <3>3
  <2>3. \A j \in D \ u : fraction[j] = 0
    BY <1>2, <1>4, <2>1
  <2>4. SumFunctionOnSet(fraction, D \ u) = 0 * Cardinality(D \ u)
    BY <2>2, <2>3, SumOfConstant
  <2>5. SumFunctionOnSet(fraction, u) = SumFunctionOnSet(fraction, u \ {i}) + 0
    <3>1. \A j \in u : fraction[j] \in Int
      BY <1>4
    <3> QED
      BY <1>9, <2>1, <3>1, SumWithout
  <2>6. SumFunctionOnSet(fraction, D)
          = SumFunctionOnSet(fraction, u) + SumFunctionOnSet(fraction, D \ u)
    <3>1. \A j \in D : fraction[j] \in Int
      BY <1>4
    <3> QED
      BY <1>1, <3>1, SumIsSplit
  <2>7. SumFunctionOnSet(fraction, u \ {i}) <= (W - 1) * (left - 1)
    <3>1. SumFunctionOnSet(top, u \ {i}) = (W - 1) * (left - 1)
      BY <1>1, <2>2, SumOfConstant
    <3>2. \A j \in u \ {i} : /\ fraction[j] \in Int /\ top[j] \in Int
                             /\ fraction[j] <= top[j]
      BY <1>1, <1>4
    <3> HIDE DEF top
    <3> QED
      BY <2>2, <3>1, <3>2, SumAtMost
  <2>8. /\ SumFunctionOnSet(fraction, u \ {i}) \in Int
        /\ Cardinality(D \ u) \in Nat
    <3>1. \A j \in u \ {i} : fraction[j] \in Int
      BY <1>4
    <3> QED
      BY <2>2, <3>1, SumType, FS_CardinalityType
  <2>9. R <= (W - 1) * (left - 1)
    <3> HIDE DEF left
    <3> QED
      BY <2>4, <2>5, <2>6, <2>7, <2>8
  <2>10. (W - 1) * (left - 1) = W * left - W - left + 1
    <3> HIDE DEF left
    <3> QED
      BY <1>1, <1>9
  <2>11. W * left \in Int
    BY <1>5, <1>8
  <2> HIDE DEF left
  <2> QED
    BY <1>1, <1>8, <1>9, <2>2, <2>9, <2>10, <2>11
<1>13. \A i \in D : (sizes[i] - 1) * W < total * w[i]
  <2> SUFFICES ASSUME NEW i \in D PROVE (sizes[i] - 1) * W < total * w[i]
    OBVIOUS
  <2>1. /\ floor[i] \in Nat /\ fraction[i] \in Nat
        /\ total * w[i] = W * floor[i] + fraction[i]
    BY <1>4
  <2>2. CASE i \in u
    <3>1. sizes[i] - 1 = floor[i] /\ fraction[i] > 0
      BY <1>9, <1>12, <2>1, <2>2
    <3>2. floor[i] * W = W * floor[i] /\ W * floor[i] \in Int
      BY <1>1, <2>1
    <3> QED
      BY <2>1, <3>1, <3>2
  <2>3. CASE i \notin u
    <3>1. sizes[i] - 1 = floor[i] - 1
      BY <1>9, <2>1, <2>3
    <3>2. (floor[i] - 1) * W = W * floor[i] - W /\ W * floor[i] \in Int
      BY <1>1, <2>1
    <3> QED
      BY <1>1, <2>1, <3>1, <3>2
  <2> QED
    BY <2>2, <2>3
<1>14. Fair(sizes, total, w, n)
  BY <1>13 DEF Fair, D, W
<1> QED
  BY <1>10, <1>11, <1>14

\* What a move of the stealing loop keeps, and what it gets done.
Sliced(sizes, n, total) ==
  /\ Split(sizes, n)
  /\ \A i \in 0 .. n - 1 : sizes[i] >= 0
  /\ SumOf(sizes) = total

Empty(sizes, n) == {i \in 0 .. n - 1 : sizes[i] < 1}

LEMMA SlicedFacts ==
  ASSUME NEW n, NEW total \in Nat, NEW sizes, Sliced(sizes, n, total)
  PROVE  /\ n \in Nat /\ n > 0 /\ DOMAIN sizes = 0 .. n - 1
         /\ IsFiniteSet(0 .. n - 1) /\ Cardinality(0 .. n - 1) = n
         /\ \A i \in 0 .. n - 1 : sizes[i] \in Nat
         /\ SumFunctionOnSet(sizes, 0 .. n - 1) = total
         /\ IsFiniteSet(Empty(sizes, n)) /\ Cardinality(Empty(sizes, n)) \in Nat
         /\ Cardinality(Empty(sizes, n)) <= n
<1>1. n \in Nat /\ n > 0 /\ DOMAIN sizes = 0 .. n - 1
  BY DEF Sliced, Split
<1>2. IsFiniteSet(0 .. n - 1) /\ Cardinality(0 .. n - 1) = n
  BY <1>1, FS_Interval
<1>3. Empty(sizes, n) \in SUBSET (0 .. n - 1)
  BY DEF Empty
<1>4. IsFiniteSet(Empty(sizes, n)) /\ Cardinality(Empty(sizes, n)) <= n
  BY <1>2, <1>3, FS_Subset
<1>5. Cardinality(Empty(sizes, n)) \in Nat
  BY <1>4, FS_CardinalityType
<1>6. \A i \in 0 .. n - 1 : sizes[i] \in Nat
  BY DEF Sliced, Split
<1>7. SumFunctionOnSet(sizes, 0 .. n - 1) = total
  BY <1>1 DEF Sliced, SumOf, SumFunction
<1> QED
  BY <1>1, <1>2, <1>4, <1>5, <1>6, <1>7

\* Where there are enough layers, an empty slice means one that can spare.
LEMMA SomebodyCanSpare ==
  ASSUME NEW n, NEW total \in Nat, total >= n, NEW sizes, Sliced(sizes, n, total),
         NEW i \in 0 .. n - 1, sizes[i] = 0
  PROVE  \E j \in 0 .. n - 1 : sizes[j] >= 2
<1> DEFINE D == 0 .. n - 1
           ones == [j \in D \ {i} |-> 1]
<1>0. \A j \in D : sizes[j] \in Nat
  BY SlicedFacts
<1>1. SUFFICES ASSUME \A j \in D : sizes[j] <= 1 PROVE FALSE
  BY <1>0
<1>2. /\ n \in Nat /\ IsFiniteSet(D) /\ Cardinality(D) = n
      /\ \A j \in D : sizes[j] \in Int
      /\ SumFunctionOnSet(sizes, D) = total
  BY SlicedFacts
<1>3. IsFiniteSet(D \ {i}) /\ Cardinality(D \ {i}) = n - 1
  <2> HIDE DEF D
  <2>1. i \in D
    BY DEF D
  <2> QED
    BY <1>2, <2>1, FS_RemoveElement
<1>4. SumFunctionOnSet(sizes, D) = SumFunctionOnSet(sizes, D \ {i}) + 0
  <2>1. i \in D
    OBVIOUS
  <2> HIDE DEF D
  <2> QED
    BY <1>2, <2>1, SumWithout
<1>5. SumFunctionOnSet(ones, D \ {i}) = 1 * (n - 1)
  <2>1. \A j \in D \ {i} : ones[j] = 1
    OBVIOUS
  <2> HIDE DEF D, ones
  <2> QED
    BY <1>3, <2>1, SumOfConstant
<1>6. SumFunctionOnSet(sizes, D \ {i}) <= SumFunctionOnSet(ones, D \ {i})
  <2>1. \A j \in D \ {i} : sizes[j] \in Int /\ ones[j] \in Int /\ sizes[j] <= ones[j]
    BY <1>1, <1>2
  <2> HIDE DEF D, ones
  <2> QED
    BY <1>3, <2>1, SumAtMost
<1>7. SumFunctionOnSet(sizes, D \ {i}) \in Int
  <2>1. \A j \in D \ {i} : sizes[j] \in Int
    BY <1>2
  <2> HIDE DEF D
  <2> QED
    BY <1>3, <2>1, SumType
<1> HIDE DEF D, ones
<1> QED
  BY <1>2, <1>4, <1>5, <1>6, <1>7

\* Moving one layer from one slice to another.
LEMMA MoveKeepsSum ==
  ASSUME NEW n, NEW total \in Nat, NEW sizes, Sliced(sizes, n, total),
         NEW lo \in 0 .. n - 1, NEW hi \in 0 .. n - 1, lo # hi, sizes[hi] >= 1
  PROVE  Sliced([sizes EXCEPT ![lo] = @ + 1, ![hi] = @ - 1], n, total)
<1> DEFINE D == 0 .. n - 1
           t == [sizes EXCEPT ![lo] = @ + 1, ![hi] = @ - 1]
           r == (D \ {lo}) \ {hi}
<1>1. /\ IsFiniteSet(D) /\ DOMAIN sizes = D /\ \A i \in D : sizes[i] \in Nat
      /\ SumFunctionOnSet(sizes, D) = total
  BY SlicedFacts
<1>2. /\ DOMAIN t = D
      /\ t[lo] = sizes[lo] + 1 /\ t[hi] = sizes[hi] - 1
      /\ \A i \in r : t[i] = sizes[i]
  BY <1>1
<1>3. lo \in D /\ hi \in D \ {lo} /\ n \in Nat \ {0}
  BY DEF Sliced, Split
<1> HIDE DEF D, t
<1>4. \A i \in D : t[i] \in Int /\ t[i] >= 0
  BY <1>1, <1>2, <1>3
<1>5. IsFiniteSet(D \ {lo}) /\ IsFiniteSet(r)
  BY <1>1, FS_Subset
<1>6. /\ SumFunctionOnSet(sizes, D) = SumFunctionOnSet(sizes, r) + sizes[hi] + sizes[lo]
      /\ SumFunctionOnSet(t, D) = SumFunctionOnSet(t, r) + t[hi] + t[lo]
  <2>0. \A y \in D : sizes[y] \in Int /\ t[y] \in Int
    BY <1>1, <1>4
  <2>1. SumFunctionOnSet(sizes, D) = SumFunctionOnSet(sizes, D \ {lo}) + sizes[lo]
    BY <1>1, <1>3, <2>0, SumWithout
  <2>2. SumFunctionOnSet(t, D) = SumFunctionOnSet(t, D \ {lo}) + t[lo]
    BY <1>1, <1>3, <2>0, SumWithout
  <2> DEFINE E == D \ {lo}
  <2>3. IsFiniteSet(E) /\ hi \in E /\ \A y \in E : sizes[y] \in Int /\ t[y] \in Int
    BY <1>3, <1>5, <2>0
  <2> HIDE DEF E
  <2>4. SumFunctionOnSet(sizes, E) = SumFunctionOnSet(sizes, E \ {hi}) + sizes[hi]
    BY <2>3, SumWithout
  <2>5. SumFunctionOnSet(t, E) = SumFunctionOnSet(t, E \ {hi}) + t[hi]
    BY <2>3, SumWithout
  <2> QED
    BY <2>1, <2>2, <2>4, <2>5 DEF E
<1>7. SumFunctionOnSet(t, r) = SumFunctionOnSet(sizes, r)
  BY <1>1, <1>2, <1>5, SumOfEquals
<1>8. SumFunctionOnSet(sizes, r) \in Int
  BY <1>1, <1>5, SumType
<1>9. SumFunctionOnSet(t, D) = total
  BY <1>1, <1>2, <1>3, <1>6, <1>7, <1>8
<1>10. Split(t, n)
  BY <1>2, <1>3, <1>4 DEF Split, D
<1> QED
  BY <1>2, <1>4, <1>9, <1>10 DEF Sliced, SumOf, SumFunction, D, t

\* A move fills one empty slice, if there is one, and makes none.
LEMMA StealHelps ==
  ASSUME NEW n, NEW total \in Nat, total >= n, NEW sizes, Sliced(sizes, n, total)
  PROVE  /\ Sliced(Steal(sizes, 1), n, total)
         /\ \A i \in 0 .. n - 1 : Steal(sizes, 1)[i] <= sizes[i] \/ Steal(sizes, 1)[i] <= 1
         /\ \/ Empty(sizes, n) = {} /\ Steal(sizes, 1) = sizes
            \/ /\ Empty(sizes, n) # {}
               /\ Cardinality(Empty(Steal(sizes, 1), n)) <= Cardinality(Empty(sizes, n)) - 1
<1> DEFINE D == 0 .. n - 1
           V == Range(sizes)
           lows == {i \in DOMAIN sizes : sizes[i] = Min(V)}
           highs == {i \in DOMAIN sizes : sizes[i] = Max(V)}
           lo == Min(lows)
           hi == Min(highs)
           t == Steal(sizes, 1)
<1>1. /\ n \in Nat /\ n > 0 /\ IsFiniteSet(D) /\ DOMAIN sizes = D
      /\ \A i \in D : sizes[i] \in Nat
      /\ IsFiniteSet(Empty(sizes, n)) /\ Cardinality(Empty(sizes, n)) \in Nat
  BY SlicedFacts
<1>2. V \in SUBSET Int /\ V # {} /\ IsFiniteSet(V) /\ \A i \in D : sizes[i] \in V
  <2>1. V = {sizes[i] : i \in D}
    BY <1>1 DEF Range
  <2>2. [i \in D |-> sizes[i]] \in Surjection(D, V)
    BY <2>1 DEF Surjection
  <2>3. IsFiniteSet(V)
    <3> HIDE DEF V, D
    <3> QED
      BY <1>1, <2>2, FS_Surjection
  <2>4. 0 \in D
    BY <1>1
  <2> QED
    BY <1>1, <2>1, <2>3, <2>4
<1>3. /\ Min(V) \in V /\ \A v \in V : Min(V) <= v
      /\ Max(V) \in V /\ \A v \in V : Max(V) >= v
  <2> HIDE DEF V
  <2> QED
    BY <1>2, SmallestOfFinite, LargestOfFinite
<1>4. lo \in D /\ sizes[lo] = Min(V) /\ hi \in D /\ sizes[hi] = Max(V)
  <2>1. lows # {} /\ highs # {}
    BY <1>3 DEF Range
  <2>2. lows \in SUBSET D /\ highs \in SUBSET D /\ D \in SUBSET Int
    BY <1>1
  <2>3. IsFiniteSet(lows) /\ IsFiniteSet(highs)
    <3> HIDE DEF D, lows, highs
    <3> QED
      BY <1>1, <2>2, FS_Subset
  <2>4. lo \in lows /\ hi \in highs
    <3> HIDE DEF D, lows, highs
    <3> QED
      BY <2>1, <2>2, <2>3, SmallestOfFinite
  <2> QED
    BY <1>1, <2>4
<1>5. t = IF sizes[lo] >= 1 \/ sizes[hi] - 1 < 1 THEN sizes
          ELSE [sizes EXCEPT ![lo] = @ + 1, ![hi] = @ - 1]
  BY DEF Steal
<1> HIDE DEF V, lows, highs, lo, hi, t
<1>6. CASE Empty(sizes, n) = {}
  <2>1. sizes[lo] >= 1
    BY <1>1, <1>4, <1>6 DEF Empty
  <2>2. t = sizes
    BY <1>5, <2>1
  <2> QED
    BY <1>1, <1>6, <2>2 DEF t
<1>7. CASE Empty(sizes, n) # {}
  <2>1. PICK i \in D : sizes[i] = 0
    BY <1>1, <1>7 DEF Empty
  <2>2. sizes[lo] = 0
    BY <1>1, <1>2, <1>3, <1>4, <2>1
  <2>3. PICK j \in D : sizes[j] >= 2
    BY <2>1, SomebodyCanSpare
  <2>4. sizes[hi] >= 2
    BY <1>1, <1>2, <1>3, <1>4, <2>3
  <2>5. t = [sizes EXCEPT ![lo] = @ + 1, ![hi] = @ - 1] /\ lo # hi
    BY <1>1, <1>4, <1>5, <2>2, <2>4
  <2>6. Sliced(t, n, total)
    <3>1. sizes[hi] >= 1
      BY <1>1, <1>4, <2>4
    <3> QED
      BY <1>4, <2>5, <3>1, MoveKeepsSum
  <2>7. /\ t[lo] = 1 /\ t[hi] = sizes[hi] - 1
        /\ \A k \in D : k # lo /\ k # hi => t[k] = sizes[k]
    <3> HIDE DEF D
    <3>1. lo \in DOMAIN sizes /\ hi \in DOMAIN sizes /\ DOMAIN sizes = D
      BY <1>1, <1>4
    <3>2. t[lo] = sizes[lo] + 1 /\ t[hi] = sizes[hi] - 1
      BY <2>5, <3>1
    <3>3. \A k \in D : k # lo /\ k # hi => t[k] = sizes[k]
      BY <2>5, <3>1
    <3> QED
      BY <2>2, <3>2, <3>3
  <2>8. Empty(t, n) = Empty(sizes, n) \ {lo} /\ lo \in Empty(sizes, n)
    <3>1. \A k \in D : t[k] < 1 <=> (sizes[k] < 1 /\ k # lo)
      BY <1>1, <1>4, <2>2, <2>4, <2>7
    <3> QED
      BY <1>4, <2>2, <3>1 DEF Empty
  <2>9. Cardinality(Empty(t, n)) = Cardinality(Empty(sizes, n)) - 1
    BY <1>1, <2>8, FS_RemoveElement
  <2>10. \A k \in D : t[k] <= sizes[k] \/ t[k] <= 1
    BY <1>1, <1>4, <2>7
  <2>11. Cardinality(Empty(t, n)) <= Cardinality(Empty(sizes, n)) - 1
    BY <1>1, <2>9
  <2> QED
    BY <1>7, <2>6, <2>10, <2>11 DEF t, D
<1> QED
  BY <1>6, <1>7

\* The loop's slices after each of its moves.
Moves(N, sizes, after) ==
  after = [g \in 0 .. N |-> IF g = 0 THEN sizes ELSE Steal(after[g - 1], 1)]

LEMMA MovesExist ==
  ASSUME NEW sizes, NEW N \in Nat
  PROVE  \E after : Moves(N, sizes, after)
<1> DEFINE T == {n \in Nat : \E after : Moves(n, sizes, after)}
<1>1. 0 \in T
  <2> DEFINE a == [g \in 0 .. 0 |-> sizes]
  <2>1. a = [g \in 0 .. 0 |-> IF g = 0 THEN sizes ELSE Steal(a[g - 1], 1)]
    OBVIOUS
  <2> QED
    BY <2>1 DEF Moves
<1>2. ASSUME NEW n \in Nat, NEW a, Moves(n, sizes, a)
      PROVE  \E b : Moves(n + 1, sizes, b)
  <2> DEFINE D == 0 .. n + 1
             b == [g \in D |-> IF g = 0 THEN sizes ELSE Steal(a[g - 1], 1)]
  <2>1. \A g \in 0 .. n : g \in D /\ b[g] = a[g]
    BY <1>2 DEF Moves
  <2>2. \A g \in D : g # 0 => b[g - 1] = a[g - 1]
    <3>1. \A g \in D : g # 0 => g - 1 \in 0 .. n
      OBVIOUS
    <3> HIDE DEF b, D
    <3> QED
      BY <2>1, <3>1
  <2>3. b = [g \in D |-> IF g = 0 THEN sizes ELSE Steal(b[g - 1], 1)]
    <3> HIDE DEF D
    <3> QED
      BY <2>2
  <2> QED
    BY <2>3 DEF Moves
<1>3. \A n \in T : n + 1 \in T
  BY <1>2
<1>4. T = Nat
  <2> HIDE DEF T
  <2>1. T \in SUBSET Nat
    BY DEF T
  <2> QED
    BY <1>1, <1>3, <2>1, Induction
<1> QED
  BY <1>4

LEMMA Multiplied ==
  ASSUME NEW a \in Int, NEW b \in Int, a <= b, NEW c \in Nat
  PROVE  a * c <= b * c
<1>1. PICK d \in Nat : b = a + d
  <2>1. b - a \in Nat /\ b = a + (b - a)
    OBVIOUS
  <2> QED
    BY <2>1
<1>2. b * c = a * c + d * c /\ d * c \in Nat /\ a * c \in Int
  BY <1>1
<1> QED
  BY <1>2

\* A move gives to a slice of at most one layer or takes away.
LEMMA StealIsFair ==
  ASSUME NEW n, NEW total \in Nat, total >= n, NEW sizes, Sliced(sizes, n, total),
         NEW w, Weights(w, n), Fair(sizes, total, w, n)
  PROVE  Fair(Steal(sizes, 1), total, w, n)
<1> DEFINE t == Steal(sizes, 1)
           W == SumOf(w)
<1>1. SUFFICES ASSUME NEW i \in 0 .. n - 1 PROVE (t[i] - 1) * W < total * w[i]
  BY DEF Fair
<1>2. /\ W \in Nat /\ W > 0 /\ n > 0 /\ n \in Nat /\ w[i] \in Nat /\ w[i] > 0
  <2>1. w[i] \in Nat /\ w[i] > 0
    BY DEF Weights, Split
  <2> QED
    BY <2>1, SumOfWeights
<1>3. sizes[i] \in Nat
  BY SlicedFacts
<1>4. t[i] \in Nat /\ (t[i] <= sizes[i] \/ t[i] <= 1)
  <2>1. Sliced(t, n, total) /\ \A j \in 0 .. n - 1 : t[j] <= sizes[j] \/ t[j] <= 1
    BY StealHelps
  <2> HIDE DEF t
  <2> QED
    BY <2>1, SlicedFacts
<1>5. (sizes[i] - 1) * W < total * w[i]
  BY DEF Fair
<1>6. total * w[i] \in Nat /\ total * w[i] > 0
  BY <1>2
<1> HIDE DEF t, W
<1>7. CASE t[i] <= sizes[i]
  <2>1. (t[i] - 1) * W <= (sizes[i] - 1) * W
    <3>1. t[i] - 1 \in Int /\ sizes[i] - 1 \in Int /\ t[i] - 1 <= sizes[i] - 1
      BY <1>3, <1>4, <1>7
    <3> QED
      BY <1>2, <3>1, Multiplied
  <2>2. (t[i] - 1) * W \in Int /\ (sizes[i] - 1) * W \in Int
    BY <1>2, <1>3, <1>4
  <2> QED
    BY <1>5, <1>6, <2>1, <2>2
<1>8. CASE t[i] <= 1
  <2>1. (t[i] - 1) * W <= 0 * W
    <3>1. t[i] - 1 \in Int /\ 0 \in Int /\ t[i] - 1 <= 0
      BY <1>4, <1>8
    <3> QED
      BY <1>2, <3>1, Multiplied
  <2>2. (t[i] - 1) * W \in Int /\ 0 * W = 0
    BY <1>2, <1>4
  <2> QED
    BY <1>6, <2>1, <2>2
<1> QED
  BY <1>4, <1>7, <1>8

\* The loop's bound suffices: with every move there is one empty slice less.
LEMMA RaisedFillsAll ==
  ASSUME NEW n, NEW total \in Nat, total >= n, NEW sizes, Sliced(sizes, n, total),
         NEW w, Weights(w, n), Fair(sizes, total, w, n)
  PROVE  /\ Sliced(Raised(sizes, 1), n, total)
         /\ \A i \in 0 .. n - 1 : Raised(sizes, 1)[i] >= 1
         /\ Fair(Raised(sizes, 1), total, w, n)
<1> DEFINE N == 10 * Cardinality(DOMAIN sizes)
           a == CHOOSE a : a = [g \in 0 .. N |->
                                 IF g = 0 THEN sizes ELSE Steal(a[g - 1], 1)]
           Good(g) == /\ Sliced(a[g], n, total)
                      /\ Fair(a[g], total, w, n)
                      /\ Empty(a[g], n) = {} \/ Cardinality(Empty(a[g], n)) <= n - g
           T == {g \in Nat : g \in 0 .. N => Good(g)}
<1>1. n \in Nat /\ n > 0 /\ N = 10 * n /\ N \in Nat
  BY SlicedFacts
<1>2. Moves(N, sizes, a)
  <2>1. \E b : Moves(N, sizes, b)
    <3> HIDE DEF N
    <3> QED
      BY <1>1, MovesExist
  <2> QED
    BY <2>1 DEF Moves
<1>3. Raised(sizes, 1) = a[N]
  BY DEF Raised
<1> HIDE DEF a, N
<1>4. 0 \in T
  <2>1. a[0] = sizes
    BY <1>1, <1>2 DEF Moves
  <2>2. Cardinality(Empty(sizes, n)) <= n
    BY SlicedFacts
  <2>3. n - 0 = n
    BY <1>1
  <2> QED
    BY <2>1, <2>2, <2>3
<1>5. \A g \in T : g + 1 \in T
  <2> SUFFICES ASSUME NEW g \in T, g + 1 \in 0 .. N PROVE Good(g + 1)
    OBVIOUS
  <2>1. g \in Nat /\ g \in 0 .. N /\ g + 1 # 0 /\ (g + 1) - 1 = g
    BY <1>1
  <2>2. Good(g)
    BY <2>1
  <2>3. a[g + 1] = Steal(a[g], 1)
    BY <1>2, <2>1 DEF Moves
  <2> DEFINE s == a[g]
             t == a[g + 1]
  <2>4. Sliced(s, n, total) /\ Fair(s, total, w, n) /\ t = Steal(s, 1)
    BY <2>2, <2>3
  <2>5. Empty(s, n) = {} \/ Cardinality(Empty(s, n)) <= n - g
    BY <2>2
  <2> HIDE DEF s, t
  <2>6. Sliced(t, n, total)
    BY <2>4, StealHelps
  <2>7. Fair(t, total, w, n)
    BY <2>4, StealIsFair
  <2>8. \/ Empty(s, n) = {} /\ t = s
        \/ Empty(s, n) # {} /\ Cardinality(Empty(t, n)) <= Cardinality(Empty(s, n)) - 1
    BY <2>4, StealHelps
  <2>9. Cardinality(Empty(t, n)) \in Nat /\ Cardinality(Empty(s, n)) \in Nat
    BY <2>4, <2>6, SlicedFacts
  <2>10. Empty(t, n) = {} \/ Cardinality(Empty(t, n)) <= n - (g + 1)
    BY <1>1, <2>1, <2>5, <2>8, <2>9
  <2> QED
    BY <2>6, <2>7, <2>10 DEF t
<1>6. T = Nat
  <2> HIDE DEF T
  <2>1. T \in SUBSET Nat
    BY DEF T
  <2> QED
    BY <1>4, <1>5, <2>1, Induction
<1>7. Good(N)
  <2>1. N \in T /\ N \in 0 .. N
    <3> HIDE DEF T
    <3> QED
      BY <1>1, <1>6
  <2> QED
    BY <2>1
<1> DEFINE z == a[N]
<1>8. Sliced(z, n, total) /\ Fair(z, total, w, n)
  BY <1>7
<1>9. Empty(z, n) = {} \/ Cardinality(Empty(z, n)) <= n - N
  BY <1>7
<1> HIDE DEF z
<1>10. Empty(z, n) = {}
  <2>1. IsFiniteSet(Empty(z, n)) /\ Cardinality(Empty(z, n)) \in Nat
    BY <1>8, SlicedFacts
  <2>2. n - N <= 0
    BY <1>1
  <2>3. n - N \in Int
    BY <1>1
  <2>4. Empty(z, n) = {} \/ Cardinality(Empty(z, n)) = 0
    BY <1>9, <2>1, <2>2, <2>3
  <2> QED
    BY <2>1, <2>4, FS_EmptySet
<1>11. \A i \in 0 .. n - 1 : z[i] >= 1
  <2>1. \A i \in 0 .. n - 1 : z[i] \in Nat
    BY <1>8, SlicedFacts
  <2>2. \A i \in 0 .. n - 1 : ~ (z[i] < 1)
    BY <1>10 DEF Empty
  <2> QED
    BY <2>1, <2>2
<1> QED
  BY <1>3, <1>8, <1>11 DEF z

\* plan_weighted_split hands out exactly the layers it was given, at least one
\* to each stage and to none a whole layer more than its share, whatever the
\* weights and however ties between remainders are broken.
THEOREM WeightedSplitsAddUp ==
  ASSUME NEW total \in Int, NEW n, NEW w, Split(w, n),
         NEW sizes \in WeightedSplits(total, w, 1)
  PROVE  /\ total \in Nat
         /\ Split(sizes, n)
         /\ \A i \in 0 .. n - 1 : sizes[i] >= 1
         /\ SumOf(sizes) = total
         /\ Fair(sizes, total, w, n)
<1>1. n \in Nat /\ n > 0 /\ DOMAIN w = 0 .. n - 1 /\ Cardinality(0 .. n - 1) = n
  BY FS_Interval DEF Split
<1>2. /\ total >= n /\ \A i \in 0 .. n - 1 : w[i] > 0
      /\ \E raw \in Rounded(total, w) : sizes = Raised(raw, 1)
  <2>1. ~ (total < n * 1 \/ \E i \in 0 .. n - 1 : w[i] <= 0)
    BY <1>1 DEF WeightedSplits
  <2>2. sizes \in {Raised(raw, 1) : raw \in Rounded(total, w)}
    BY <1>1, <2>1 DEF WeightedSplits
  <2>3. total >= n
    BY <1>1, <2>1
  <2>4. \A i \in 0 .. n - 1 : w[i] \in Int
    BY DEF Split
  <2>5. \A i \in 0 .. n - 1 : w[i] > 0
    BY <2>1, <2>4
  <2> QED
    BY <2>2, <2>3, <2>5
<1>3. total \in Nat /\ Weights(w, n)
  BY <1>1, <1>2 DEF Weights
<1>4. PICK raw \in Rounded(total, w) : sizes = Raised(raw, 1)
  BY <1>2
<1>5. Sliced(raw, n, total) /\ Fair(raw, total, w, n)
  BY <1>3, <1>4, RoundedAddsUp DEF Sliced
<1>6. /\ Sliced(sizes, n, total) /\ Fair(sizes, total, w, n)
      /\ \A i \in 0 .. n - 1 : sizes[i] >= 1
  BY <1>2, <1>3, <1>4, <1>5, RaisedFillsAll
<1> QED
  BY <1>3, <1>6 DEF Sliced

-----------------------------------------------------------------------------
(***************************************************************************)
(* A published catalog.  The slots of a layout string are its ranges from  *)
(* the second one on; of a manifest only the sizes are known.              *)
(***************************************************************************)
LEMMA CatalogFacts ==
  ASSUME NEW layers \in Int, NEW catalog \in Seq([first : Int, last : Int]),
         WellFormed(catalog), AcceptsCatalog(layers, catalog),
         NEW k \in Nat, Len(catalog) = k + 1
  PROVE  /\ k \in Nat /\ k > 0 /\ Len(catalog) = k + 1
         /\ \A i \in 1 .. k + 1 : catalog[i].first \in Int /\ catalog[i].last \in Int
         /\ \A i \in 2 .. k + 1 : /\ catalog[i].first < catalog[i].last
                                  /\ catalog[i].first = catalog[i - 1].last
         /\ catalog[k + 1].last = layers
         /\ CatalogEnd(catalog) = catalog[1].last
<1>1. Len(catalog) \in Nat /\ Len(catalog) > 1 /\ DOMAIN catalog = 1 .. Len(catalog)
  BY DEF AcceptsCatalog
<1>2. \A i \in 1 .. Len(catalog) : catalog[i] \in [first : Int, last : Int]
  <2> DEFINE R == [first : Int, last : Int]
  <2>1. catalog \in Seq(R)
    OBVIOUS
  <2> HIDE DEF R
  <2>2. \A i \in 1 .. Len(catalog) : catalog[i] \in R
    BY <2>1
  <2> QED
    BY <2>2 DEF R
<1>3. k \in Nat /\ k > 0 /\ Len(catalog) = k + 1
  BY <1>1
<1>4. \A i \in 1 .. k + 1 : catalog[i].first \in Int /\ catalog[i].last \in Int
  BY <1>2, <1>3
<1>5. /\ \A i \in 1 .. k + 1 : catalog[i].first < catalog[i].last
      /\ \A i \in 2 .. k + 1 : catalog[i].first = catalog[i - 1].last
      /\ catalog[k + 1].last = layers
  BY <1>1, <1>3 DEF AcceptsCatalog, WellFormed
<1>6. \A i \in 2 .. k + 1 : i \in 1 .. k + 1
  BY <1>3
<1> QED
  BY <1>3, <1>4, <1>5, <1>6 DEF CatalogEnd

LEMMA CatalogSplit ==
  ASSUME NEW layers \in Int, NEW catalog \in Seq([first : Int, last : Int]),
         WellFormed(catalog), AcceptsCatalog(layers, catalog),
         NEW k \in Nat, Len(catalog) = k + 1
  PROVE  /\ Split(CatalogSizes(catalog), k)
         /\ \A i \in 0 .. k - 1 : CatalogSizes(catalog)[i] >= 1
         /\ \A i \in 0 .. k - 1 :
              Slots(CatalogEnd(catalog), CatalogSizes(catalog))[i].first = catalog[i + 2].first
         /\ \A i \in 0 .. k - 1 :
              Slots(CatalogEnd(catalog), CatalogSizes(catalog))[i].last = catalog[i + 2].last
<1> DEFINE sizes == CatalogSizes(catalog)
           e == CatalogEnd(catalog)
           s == Slots(e, sizes)
           T == {n \in Nat : n \in 0 .. k - 1 =>
                   /\ s[n].first = catalog[n + 2].first
                   /\ s[n].last = catalog[n + 2].last}
<1>1. /\ k \in Nat /\ k > 0 /\ Len(catalog) = k + 1
      /\ \A i \in 1 .. k + 1 : catalog[i].first \in Int /\ catalog[i].last \in Int
      /\ \A i \in 2 .. k + 1 : /\ catalog[i].first < catalog[i].last
                               /\ catalog[i].first = catalog[i - 1].last
      /\ e = catalog[1].last
  BY CatalogFacts
<1>2. sizes = [i \in 0 .. k - 1 |-> catalog[i + 2].last - catalog[i + 2].first]
  <2>1. Len(catalog) - 2 = k - 1
    BY <1>1
  <2> QED
    BY <2>1 DEF CatalogSizes
<1>3. \A i \in 0 .. k - 1 : i + 2 \in 2 .. k + 1 /\ i + 2 \in 1 .. k + 1
  BY <1>1
<1> HIDE DEF sizes, s, e
<1>4. \A i \in 0 .. k - 1 : sizes[i] \in Int /\ sizes[i] >= 1
  <2> SUFFICES ASSUME NEW i \in 0 .. k - 1 PROVE sizes[i] \in Int /\ sizes[i] >= 1
    OBVIOUS
  <2> DEFINE a == catalog[i + 2].first
             b == catalog[i + 2].last
  <2>1. a \in Int /\ b \in Int /\ a < b
    BY <1>1, <1>3
  <2>2. sizes[i] = b - a
    BY <1>2
  <2> HIDE DEF a, b
  <2> QED
    BY <2>1, <2>2
<1>5. Split(sizes, k)
  <2>1. DOMAIN sizes = 0 .. k - 1
    BY <1>2
  <2>2. k \in Nat \ {0}
    BY <1>1
  <2> QED
    BY <1>4, <2>1, <2>2 DEF Split
<1>6. e \in Int
  <2>1. 1 \in 1 .. k + 1
    BY <1>1
  <2> QED
    BY <1>1, <2>1
<1>7. /\ s[0].first = e
      /\ \A i \in 0 .. k - 1 : /\ s[i].last = s[i].first + sizes[i]
                               /\ i > 0 => s[i].first = s[i - 1].last
  <2>1. s[0].first = e
    BY <1>5, <1>6, SlotsInRow DEF s
  <2>2. ASSUME NEW i \in 0 .. k - 1
        PROVE  /\ s[i].last = s[i].first + sizes[i]
               /\ i > 0 => s[i].first = s[i - 1].last
    <3>1. PICK d \in Int : d = e
      BY <1>6
    <3>2. /\ Slots(d, sizes)[i].last = Slots(d, sizes)[i].first + sizes[i]
          /\ i > 0 => Slots(d, sizes)[i].first = Slots(d, sizes)[i - 1].last
      BY <1>5, SlotsFollow
    <3> QED
      BY <3>1, <3>2 DEF s
  <2> QED
    BY <2>1, <2>2
<1>8. \A i \in 0 .. k - 1 :
        s[i].first = catalog[i + 2].first => s[i].last = catalog[i + 2].last
  <2> SUFFICES ASSUME NEW i \in 0 .. k - 1, s[i].first = catalog[i + 2].first
               PROVE  s[i].last = catalog[i + 2].last
    OBVIOUS
  <2> DEFINE a == catalog[i + 2].first
             b == catalog[i + 2].last
  <2>1. s[i].last = s[i].first + sizes[i]
    BY <1>7
  <2>2. sizes[i] = b - a
    BY <1>2
  <2>3. a \in Int /\ b \in Int /\ s[i].first = a
    BY <1>1, <1>3
  <2> HIDE DEF a, b, T
  <2>4. s[i].last = a + (b - a)
    BY <2>1, <2>2, <2>3
  <2>5. a + (b - a) = b
    BY <2>3
  <2>6. s[i].last = b
    BY <2>4, <2>5
  <2> QED
    BY <2>6 DEF b
<1>9. 0 \in T
  <2>1. 0 \in 0 .. k - 1 /\ 2 \in 2 .. k + 1 /\ 0 + 2 = 2 /\ 2 - 1 = 1
    BY <1>1
  <2>2. s[0].first = catalog[0 + 2].first
    <3>1. s[0].first = e
      BY <1>7
    <3>2. e = catalog[1].last
      BY <1>1
    <3>3. catalog[2].first = catalog[2 - 1].last
      BY <1>1, <2>1
    <3>4. catalog[0 + 2] = catalog[2] /\ catalog[2 - 1] = catalog[1]
      BY <2>1
    <3> HIDE DEF T
    <3> QED
      BY <3>1, <3>2, <3>3, <3>4
  <2> QED
    BY <1>8, <2>1, <2>2
<1>10. \A n \in T : n + 1 \in T
  <2> SUFFICES ASSUME NEW n \in T, n + 1 \in 0 .. k - 1
               PROVE  /\ s[n + 1].first = catalog[(n + 1) + 2].first
                      /\ s[n + 1].last = catalog[(n + 1) + 2].last
    OBVIOUS
  <2>1. /\ n \in Nat /\ n \in 0 .. k - 1 /\ n + 1 > 0 /\ (n + 1) - 1 = n
        /\ (n + 1) + 2 \in 2 .. k + 1 /\ ((n + 1) + 2) - 1 = n + 2
    BY <1>1
  <2>2. s[n].last = catalog[n + 2].last
    BY <2>1
  <2>3. s[n + 1].first = s[n].last
    BY <1>7, <2>1
  <2>4. catalog[(n + 1) + 2].first = catalog[n + 2].last
    BY <1>1, <2>1
  <2>5. s[n + 1].first = catalog[(n + 1) + 2].first
    BY <2>2, <2>3, <2>4
  <2> QED
    BY <1>8, <2>5
<1>11. T = Nat
  <2> HIDE DEF T
  <2>1. T \in SUBSET Nat
    BY DEF T
  <2> QED
    BY <1>9, <1>10, <2>1, Induction
<1>12. \A i \in 0 .. k - 1 : s[i].first = catalog[i + 2].first
                             /\ s[i].last = catalog[i + 2].last
  <2> SUFFICES ASSUME NEW i \in 0 .. k - 1
               PROVE  s[i].first = catalog[i + 2].first /\ s[i].last = catalog[i + 2].last
    OBVIOUS
  <2>1. i \in T
    <3> HIDE DEF T
    <3> QED
      BY <1>1, <1>11
  <2> QED
    BY <2>1
<1> QED
  BY <1>4, <1>5, <1>12 DEF s, e, sizes

-----------------------------------------------------------------------------
(***************************************************************************)
(* The layouts a control plane may start with.                             *)
(***************************************************************************)
\* The search for the fewest stages.
LEMMA FewestOrNone ==
  ASSUME NEW b \in Int, NEW caps, NEW rep, NEW k, k = PlanStages(b, caps, rep)
  PROVE  \/ k = None /\ (rep < 1 \/ \A j \in 1 .. b : ~ Covers(caps, Demand(Balanced(b, j), rep)))
         \/ /\ k # None /\ ~ (rep < 1) /\ k \in Nat /\ k \in 1 .. b
            /\ Covers(caps, Demand(Balanced(b, k), rep))
            /\ \A j \in 1 .. k - 1 : ~ Covers(caps, Demand(Balanced(b, j), rep))
<1> DEFINE enough == {j \in 1 .. b : Covers(caps, Demand(Balanced(b, j), rep))}
<1>1. k = IF rep < 1 \/ enough = {} THEN None ELSE Min(enough)
  BY DEF PlanStages
<1>2. CASE rep < 1 \/ enough = {}
  <2>1. k = None
    BY <1>1, <1>2
  <2> QED
    BY <1>2, <2>1
<1>3. CASE ~ (rep < 1) /\ enough # {}
  <2>1. enough \in SUBSET (1 .. b) /\ IsFiniteSet(1 .. b)
    BY FS_Interval
  <2>2. enough \in SUBSET Int /\ IsFiniteSet(enough)
    <3>1. enough \in SUBSET Int
      OBVIOUS
    <3> HIDE DEF enough
    <3> QED
      BY <2>1, <3>1, FS_Subset
  <2>3. k \in enough /\ \A j \in enough : k <= j
    <3>1. k = Min(enough)
      BY <1>1, <1>3
    <3> HIDE DEF enough
    <3> QED
      BY <1>3, <2>2, <3>1, SmallestOfFinite
  <2>4. k \in Nat /\ k \in 1 .. b /\ Covers(caps, Demand(Balanced(b, k), rep))
    BY <2>3
  <2>5. \A j \in 1 .. k - 1 : j \in 1 .. b /\ ~ (k <= j)
    BY <2>4
  <2>6. \A j \in 1 .. k - 1 : ~ Covers(caps, Demand(Balanced(b, j), rep))
    BY <2>3, <2>5
  <2>7. k # None
    BY <2>4, NoneAssumption
  <2> QED
    BY <1>3, <2>4, <2>6, <2>7
<1> QED
  BY <1>2, <1>3

\* k slots from layer e on, in a row.
InRow(lay, k, e) ==
  /\ k \in Nat /\ k > 0
  /\ lay \in [0 .. k - 1 -> [first : Nat, last : Nat]]
  /\ lay[0].first = e
  /\ \A i \in 0 .. k - 1 : i > 0 => lay[i].first = lay[i - 1].last

LEMMA SlotsTile ==
  ASSUME NEW e \in Nat, NEW k, NEW sizes, Split(sizes, k),
         \A i \in 0 .. k - 1 : sizes[i] >= 0
  PROVE  /\ InRow(Slots(e, sizes), k, e)
         /\ Slots(e, sizes)[k - 1].last = e + SumOf(sizes)
         /\ \A i \in 0 .. k - 1 :
              /\ Slots(e, sizes)[i].last - Slots(e, sizes)[i].first = sizes[i]
              /\ sizes[i] >= 1 => Slots(e, sizes)[i].first < Slots(e, sizes)[i].last
<1> DEFINE s == Slots(e, sizes)
<1>1. s \in [0 .. k - 1 -> [first : Nat, last : Nat]]
  BY SlotsAscend
<1>2. \A i \in 0 .. k - 1 : /\ s[i].last = s[i].first + sizes[i]
                            /\ i > 0 => s[i].first = s[i - 1].last
  <2>1. e \in Int
    OBVIOUS
  <2> QED
    BY <2>1, SlotsFollow
<1>3. s[0].first = e /\ s[k - 1].last = e + SumOf(sizes)
  BY SlotsInRow
<1>4. k \in Nat /\ k > 0 /\ \A i \in 0 .. k - 1 : sizes[i] \in Int
  BY DEF Split
<1> HIDE DEF s
<1>5. \A i \in 0 .. k - 1 : /\ s[i].last - s[i].first = sizes[i]
                            /\ sizes[i] >= 1 => s[i].first < s[i].last
  <2> SUFFICES ASSUME NEW i \in 0 .. k - 1
               PROVE  /\ s[i].last - s[i].first = sizes[i]
                      /\ sizes[i] >= 1 => s[i].first < s[i].last
    OBVIOUS
  <2> DEFINE x == s[i].first
             y == s[i].last
  <2>1. x \in Nat /\ y \in Nat /\ y = x + sizes[i] /\ sizes[i] \in Int
    BY <1>1, <1>2, <1>4
  <2> HIDE DEF x, y
  <2>2. y - x = sizes[i] /\ (sizes[i] >= 1 => x < y)
    BY <2>1
  <2> QED
    BY <2>2 DEF x, y
<1> QED
  BY <1>1, <1>2, <1>3, <1>4, <1>5 DEF InRow, s

\* What a layout has from the plan it was made by.
Tiles(plan, lay, k) ==
  /\ InRow(lay, k, CoordinatorEnd(plan))
  /\ lay[k - 1].last = plan.layers
  /\ (plan.by = "static" => plan.stages <= plan.layers - plan.end) =>
       \A i \in 0 .. k - 1 : lay[i].first < lay[i].last
  /\ plan.by = "catalog" =>
       \A i \in 0 .. k - 1 : \E j \in 2 .. Len(plan.catalog) : lay[i] = plan.catalog[j]
  /\ plan.by = "weights" =>
       \A i \in 0 .. k - 1 :
         (lay[i].last - lay[i].first - 1) * SumOf(plan.weights)
           < (plan.layers - plan.end) * plan.weights[i]
  /\ plan.by = "fleet" =>
       /\ k = PlanStages(plan.layers - plan.end, plan.caps, plan.rep)
       /\ \A i \in 0 .. k - 1 :
            lay[i].last - lay[i].first = Balanced(plan.layers - plan.end, k)[i]

LEMMA BalancedTiles ==
  ASSUME NEW plan, PlanTyped(plan), plan.by \in {"cap", "fleet", "static"},
         plan.end \in 0 .. plan.layers - 1, NEW k \in Nat, k >= 1,
         (plan.by = "static" => plan.stages <= plan.layers - plan.end)
           => k <= plan.layers - plan.end,
         plan.by = "fleet" => k = PlanStages(plan.layers - plan.end, plan.caps, plan.rep)
  PROVE  Tiles(plan, Layout(plan, Balanced(plan.layers - plan.end, k)), k)
<1> DEFINE b == plan.layers - plan.end
           e == plan.end
           sizes == Balanced(b, k)
           s == Slots(e, sizes)
<1>1. plan.layers \in Int /\ e \in Nat /\ b \in Nat /\ e + b = plan.layers
  BY DEF PlanTyped
<1>2. CoordinatorEnd(plan) = e /\ Layout(plan, sizes) = s
  BY DEF CoordinatorEnd, Layout
<1> HIDE DEF b
<1>3. /\ Split(sizes, k) /\ SumOf(sizes) = b
      /\ \A i \in 0 .. k - 1 : sizes[i] >= 0 /\ (k <= b => sizes[i] >= 1)
  BY <1>1, BalancedAddsUp
<1> HIDE DEF sizes, e
<1>4. /\ InRow(s, k, e) /\ s[k - 1].last = e + SumOf(sizes)
      /\ \A i \in 0 .. k - 1 : /\ s[i].last - s[i].first = sizes[i]
                               /\ sizes[i] >= 1 => s[i].first < s[i].last
  <2>1. PICK d \in Nat : d = e
    BY <1>1
  <2>2. /\ InRow(Slots(d, sizes), k, d) /\ Slots(d, sizes)[k - 1].last = d + SumOf(sizes)
        /\ \A i \in 0 .. k - 1 :
             /\ Slots(d, sizes)[i].last - Slots(d, sizes)[i].first = sizes[i]
             /\ sizes[i] >= 1 => Slots(d, sizes)[i].first < Slots(d, sizes)[i].last
    BY <1>3, SlotsTile
  <2> QED
    BY <2>1, <2>2
<1> HIDE DEF s
<1>5. s[k - 1].last = plan.layers
  BY <1>1, <1>3, <1>4
<1>6. ASSUME plan.by = "static" => plan.stages <= b
      PROVE  \A i \in 0 .. k - 1 : s[i].first < s[i].last
  <2>1. k <= b
    BY <1>6 DEF b
  <2> QED
    BY <1>3, <1>4, <2>1
<1> QED
  BY <1>2, <1>4, <1>5, <1>6 DEF Tiles, b, sizes

LEMMA CatalogTiles ==
  ASSUME NEW plan, PlanTyped(plan), plan.by = "catalog",
         WellFormed(plan.catalog), AcceptsCatalog(plan.layers, plan.catalog),
         CoordinatorEnd(plan) \in 0 .. plan.layers - 1
  PROVE  \E k \in Nat : Tiles(plan, Layout(plan, CatalogSizes(plan.catalog)), k)
<1> DEFINE c == plan.catalog
           layers == plan.layers
           e == CatalogEnd(c)
           sizes == CatalogSizes(c)
           s == Slots(e, sizes)
<1>1. /\ layers \in Int /\ c \in Seq([first : Int, last : Int])
      /\ WellFormed(c) /\ AcceptsCatalog(layers, c)
  BY DEF PlanTyped
<1>2. CoordinatorEnd(plan) = e /\ Layout(plan, sizes) = s /\ e \in Nat
  BY <1>1 DEF CoordinatorEnd, Layout
<1>3. PICK k \in Nat : Len(c) = k + 1
  <2>1. Len(c) \in Nat /\ Len(c) > 1
    BY <1>1 DEF AcceptsCatalog
  <2>2. Len(c) - 1 \in Nat /\ Len(c) = (Len(c) - 1) + 1
    BY <2>1
  <2> QED
    BY <2>2
<1> HIDE DEF c, layers, e, sizes, s
<1>4. /\ k > 0 /\ \A i \in 1 .. k + 1 : c[i].first \in Int /\ c[i].last \in Int
      /\ c[k + 1].last = layers
  BY <1>1, <1>3, CatalogFacts
<1>5. /\ Split(sizes, k) /\ \A i \in 0 .. k - 1 : sizes[i] >= 1
      /\ \A i \in 0 .. k - 1 : s[i].first = c[i + 2].first
      /\ \A i \in 0 .. k - 1 : s[i].last = c[i + 2].last
  BY <1>1, <1>3, CatalogSplit DEF sizes, s, e
<1>6. /\ InRow(s, k, e)
      /\ \A i \in 0 .. k - 1 : s[i].first < s[i].last
  <2>0. \A i \in 0 .. k - 1 : sizes[i] >= 0
    BY <1>5 DEF Split
  <2>1. PICK d \in Nat : d = e
    BY <1>2
  <2>2. /\ InRow(Slots(d, sizes), k, d)
        /\ \A i \in 0 .. k - 1 :
             sizes[i] >= 1 => Slots(d, sizes)[i].first < Slots(d, sizes)[i].last
    BY <1>5, <2>0, SlotsTile
  <2> QED
    BY <1>5, <2>1, <2>2 DEF s
<1>7. s[k - 1].last = layers
  <2>1. k - 1 \in 0 .. k - 1 /\ (k - 1) + 2 = k + 1
    BY <1>4
  <2> QED
    BY <1>4, <1>5, <2>1
<1>8. \A i \in 0 .. k - 1 : \E j \in 2 .. Len(c) : s[i] = c[j]
  <2> SUFFICES ASSUME NEW i \in 0 .. k - 1
               PROVE  \E j \in 2 .. Len(c) : s[i] = c[j]
    OBVIOUS
  <2>1. i + 2 \in 2 .. Len(c) /\ i + 2 \in 1 .. Len(c)
    BY <1>3
  <2>2. s[i] \in [first : Nat, last : Nat]
    BY <1>6 DEF InRow
  <2>3. c[i + 2] \in [first : Int, last : Int]
    <3> DEFINE R == [first : Int, last : Int]
    <3>1. c \in Seq(R)
      BY <1>1
    <3> HIDE DEF R
    <3>2. c[i + 2] \in R
      BY <2>1, <3>1
    <3> QED
      BY <3>2 DEF R
  <2>4. s[i] = c[i + 2]
    BY <1>5, <2>2, <2>3
  <2> QED
    BY <2>1, <2>4
<1>9. Tiles(plan, s, k)
  BY <1>2, <1>6, <1>7, <1>8 DEF Tiles, c, layers
<1> QED
  BY <1>2, <1>9 DEF sizes, c

\* What the constructor checks of the sizes is all there is to a manifest.
LEMMA ManifestTiles ==
  ASSUME NEW plan, PlanTyped(plan), plan.by = "manifest",
         AcceptsCatalog(plan.layers, plan.catalog),
         Admits(plan, CatalogSizes(plan.catalog))
  PROVE  \E k \in Nat : Tiles(plan, Layout(plan, CatalogSizes(plan.catalog)), k)
<1> DEFINE c == plan.catalog
           e == CoordinatorEnd(plan)
           sizes == CatalogSizes(c)
           s == Slots(e, sizes)
<1>1. /\ plan.layers \in Int /\ c \in Seq([first : Int, last : Int])
      /\ Layout(plan, sizes) = s /\ e \in Nat
      /\ \A i \in DOMAIN sizes : sizes[i] >= 1
      /\ SumOf(sizes) = plan.layers - e
  BY DEF PlanTyped, Admits, Layout
<1>2. PICK k \in Nat : Len(c) = k + 1 /\ k >= 1
  <2>1. Len(c) \in Nat /\ Len(c) > 1
    BY <1>1 DEF AcceptsCatalog
  <2>2. Len(c) - 1 \in Nat /\ Len(c) = (Len(c) - 1) + 1 /\ Len(c) - 1 >= 1
    BY <2>1
  <2> QED
    BY <2>2
<1>3. Split(sizes, k)
  <2>1. sizes = [i \in 0 .. k - 1 |-> c[i + 2].last - c[i + 2].first]
    <3>1. Len(c) - 2 = k - 1
      BY <1>2
    <3> QED
      BY <3>1 DEF CatalogSizes
  <2>2. ASSUME NEW i \in 0 .. k - 1 PROVE sizes[i] \in Int
    <3> DEFINE R == [first : Int, last : Int]
    <3>1. c \in Seq(R) /\ i + 2 \in 1 .. Len(c)
      BY <1>1, <1>2
    <3>2. c[i + 2] \in R
      <4> HIDE DEF R, c
      <4> QED
        BY <3>1
    <3>3. c[i + 2].first \in Int /\ c[i + 2].last \in Int
      BY <3>2
    <3> HIDE DEF sizes, c
    <3> QED
      BY <2>1, <3>3
  <2>3. DOMAIN sizes = 0 .. k - 1 /\ k \in Nat \ {0}
    BY <1>2, <2>1
  <2> HIDE DEF sizes
  <2> QED
    BY <2>2, <2>3 DEF Split
<1> HIDE DEF sizes, e
<1>4. \A i \in 0 .. k - 1 : sizes[i] >= 1 /\ sizes[i] >= 0 /\ sizes[i] \in Int
  <2>1. DOMAIN sizes = 0 .. k - 1 /\ \A i \in 0 .. k - 1 : sizes[i] \in Int
    BY <1>3 DEF Split
  <2> HIDE DEF e
  <2>2. \A i \in 0 .. k - 1 : sizes[i] >= 1
    BY <1>1, <2>1
  <2> QED
    BY <2>1, <2>2
<1>5. /\ InRow(s, k, e) /\ s[k - 1].last = e + SumOf(sizes)
      /\ \A i \in 0 .. k - 1 : s[i].first < s[i].last
  <2>1. PICK d \in Nat : d = e
    BY <1>1
  <2>2. /\ InRow(Slots(d, sizes), k, d) /\ Slots(d, sizes)[k - 1].last = d + SumOf(sizes)
        /\ \A i \in 0 .. k - 1 :
             sizes[i] >= 1 => Slots(d, sizes)[i].first < Slots(d, sizes)[i].last
    BY <1>3, <1>4, SlotsTile
  <2> QED
    BY <1>4, <2>1, <2>2
<1> HIDE DEF s
<1>6. s[k - 1].last = plan.layers
  BY <1>1, <1>5
<1>7. Tiles(plan, s, k)
  BY <1>5, <1>6 DEF Tiles, e
<1> QED
  BY <1>1, <1>7 DEF sizes, c

LEMMA WeightsTile ==
  ASSUME NEW plan, PlanTyped(plan), plan.by = "weights",
         plan.end \in 0 .. plan.layers - 1,
         NEW n \in Nat, n >= 1, DOMAIN plan.weights = 0 .. n - 1,
         NEW sizes \in WeightedSplits(plan.layers - plan.end, plan.weights, 1)
  PROVE  Tiles(plan, Layout(plan, sizes), n)
<1> DEFINE w == plan.weights
           b == plan.layers - plan.end
           e == plan.end
           s == Slots(e, sizes)
<1>1. plan.layers \in Int /\ e \in Nat /\ b \in Int /\ e + b = plan.layers
  BY DEF PlanTyped
<1>2. CoordinatorEnd(plan) = e /\ Layout(plan, sizes) = s
  BY DEF CoordinatorEnd, Layout
<1>3. Split(w, n)
  <2>1. DOMAIN w = 0 .. n - 1 /\ n \in Nat \ {0}
    OBVIOUS
  <2>2. \A i \in DOMAIN w : w[i] \in Int
    BY DEF PlanTyped
  <2> HIDE DEF w
  <2> QED
    BY <2>1, <2>2 DEF Split
<1> HIDE DEF w, b
<1>4. /\ Split(sizes, n) /\ SumOf(sizes) = b /\ Fair(sizes, b, w, n)
      /\ \A i \in 0 .. n - 1 : sizes[i] >= 1
  <2>1. PICK t \in Int : t = b
    BY <1>1
  <2>2. sizes \in WeightedSplits(t, w, 1)
    BY <2>1 DEF b, w
  <2> QED
    BY <1>3, <2>1, <2>2, WeightedSplitsAddUp
<1>5. \A i \in 0 .. n - 1 : sizes[i] >= 0
  BY <1>4 DEF Split
<1> HIDE DEF e
<1>6. /\ InRow(s, n, e) /\ s[n - 1].last = e + SumOf(sizes)
      /\ \A i \in 0 .. n - 1 : /\ s[i].last - s[i].first = sizes[i]
                               /\ sizes[i] >= 1 => s[i].first < s[i].last
  <2>1. PICK d \in Nat : d = e
    BY <1>1
  <2>2. /\ InRow(Slots(d, sizes), n, d) /\ Slots(d, sizes)[n - 1].last = d + SumOf(sizes)
        /\ \A i \in 0 .. n - 1 :
             /\ Slots(d, sizes)[i].last - Slots(d, sizes)[i].first = sizes[i]
             /\ sizes[i] >= 1 => Slots(d, sizes)[i].first < Slots(d, sizes)[i].last
    BY <1>4, <1>5, SlotsTile
  <2> QED
    BY <2>1, <2>2
<1> HIDE DEF s
<1>7. s[n - 1].last = plan.layers /\ \A i \in 0 .. n - 1 : s[i].first < s[i].last
  BY <1>1, <1>4, <1>6
<1>8. \A i \in 0 .. n - 1 : (s[i].last - s[i].first - 1) * SumOf(w) < b * w[i]
  BY <1>4, <1>6 DEF Fair
<1> QED
  BY <1>2, <1>6, <1>7, <1>8 DEF Tiles, b, w

\* Whatever the plan, what the constructor lets through tiles the layers.
LEMMA LayoutsTile ==
  ASSUME NEW plan, PlanTyped(plan), NEW lay \in Layouts(plan)
  PROVE  \E k \in Nat : Tiles(plan, lay, k)
<1> DEFINE b == plan.layers - plan.end
<1>1. PICK sizes \in Splits(plan) :
        /\ lay = Layout(plan, sizes) /\ Admits(plan, sizes)
        /\ CoordinatorEnd(plan) \in 0 .. plan.layers - 1
  BY DEF Layouts, Admits
<1>2. /\ plan.by \in {"catalog", "manifest", "cap", "fleet", "weights", "static"}
      /\ plan.layers \in Int /\ plan.end \in Int /\ plan.stages \in Int /\ b \in Int
      /\ plan.by \notin {"catalog", "manifest"} => plan.end \in 0 .. plan.layers - 1
  BY <1>1 DEF PlanTyped, CoordinatorEnd
<1>3. CASE plan.by = "catalog"
  <2>1. /\ WellFormed(plan.catalog) /\ AcceptsCatalog(plan.layers, plan.catalog)
        /\ sizes = CatalogSizes(plan.catalog)
    BY <1>1, <1>3 DEF Splits, Resolves
  <2> QED
    BY <1>1, <1>3, <2>1, CatalogTiles
<1>8. CASE plan.by = "manifest"
  <2>1. AcceptsCatalog(plan.layers, plan.catalog) /\ sizes = CatalogSizes(plan.catalog)
    BY <1>1, <1>8 DEF Splits
  <2> QED
    BY <1>1, <1>8, <2>1, ManifestTiles
<1>4. CASE plan.by = "cap"
  <2> DEFINE k == PlanStages(b, [i \in 1 .. b |-> plan.cap], 1)
  <2>1. k # None /\ sizes = Balanced(b, k)
    BY <1>1, <1>4 DEF Splits
  <2>2. k \in Nat /\ k \in 1 .. b
    <3> HIDE DEF b
    <3> QED
      BY <1>2, <2>1, FewestOrNone
  <2> HIDE DEF k
  <2>3. k >= 1 /\ k <= b
    BY <2>2
  <2>4. PICK j \in Nat : j = k
    BY <2>2
  <2> QED
    BY <1>1, <1>2, <1>4, <2>1, <2>3, <2>4, BalancedTiles
<1>5. CASE plan.by = "fleet"
  <2> DEFINE k == PlanStages(b, plan.caps, plan.rep)
  <2>1. k # None /\ sizes = Balanced(b, k)
    BY <1>1, <1>5 DEF Splits
  <2>2. k \in Nat /\ k \in 1 .. b
    <3> HIDE DEF b
    <3> QED
      BY <1>2, <2>1, FewestOrNone
  <2>3. PICK j \in Nat : j = k
    BY <2>2
  <2>4. j >= 1 /\ j <= b /\ sizes = Balanced(b, j)
    <3> HIDE DEF k, b
    <3> QED
      BY <1>2, <2>1, <2>2, <2>3
  <2>5. j = PlanStages(b, plan.caps, plan.rep)
    BY <2>3
  <2> QED
    BY <1>1, <1>2, <1>5, <2>4, <2>5, BalancedTiles
<1>6. CASE plan.by = "weights"
  <2> DEFINE n == Cardinality(DOMAIN plan.weights)
  <2>1. sizes \in WeightedSplits(b, plan.weights, 1) /\ n = PlanStages(b, plan.caps, plan.rep)
    BY <1>1, <1>6 DEF Splits
  <2>2. /\ n \in Nat /\ DOMAIN plan.weights = 0 .. n - 1
    BY FS_CardinalityType DEF PlanTyped
  <2>3. n >= 1
    <3>1. n # None
      BY <2>2, NoneAssumption
    <3>2. n \in 1 .. b
      <4> HIDE DEF b, n
      <4> QED
        BY <1>2, <2>1, <3>1, FewestOrNone
    <3> HIDE DEF n, b
    <3> QED
      BY <1>2, <3>2
  <2> HIDE DEF n
  <2>4. PICK j \in Nat : j = n
    BY <2>2
  <2> QED
    BY <1>1, <1>2, <1>6, <2>1, <2>2, <2>3, <2>4, WeightsTile
<1>7. CASE plan.by = "static"
  <2>1. ~ (plan.stages < 1) /\ sizes = Balanced(b, plan.stages)
    BY <1>1, <1>7 DEF Splits
  <2>2. PICK j \in Nat : j = plan.stages /\ j >= 1
    BY <1>2, <2>1
  <2> QED
    BY <1>1, <1>2, <1>7, <2>1, <2>2, BalancedTiles
<1> QED
  BY <1>2, <1>3, <1>4, <1>5, <1>6, <1>7, <1>8

-----------------------------------------------------------------------------
(***************************************************************************)
(* Staffing: comparing sorted demands with sorted capacities place by      *)
(* place is comparing, for every threshold, how many reach it; and where   *)
(* as many capacities as demands reach every threshold, every demand can   *)
(* have a capacity of its own.                                             *)
(***************************************************************************)
Reach(f, S, v) == {x \in S : f[x] >= v}

LEMMA ReachFacts ==
  ASSUME NEW f, NEW S, IsFiniteSet(S), NEW v
  PROVE  /\ Reach(f, S, v) \in SUBSET S
         /\ IsFiniteSet(Reach(f, S, v)) /\ Cardinality(Reach(f, S, v)) \in Nat
         /\ Cardinality(Reach(f, S, v)) <= Cardinality(S)
         /\ Cardinality(Reach(f, S, v)) = 0 <=> Reach(f, S, v) = {}
<1>1. Reach(f, S, v) \in SUBSET S
  BY DEF Reach
<1>2. IsFiniteSet(Reach(f, S, v)) /\ Cardinality(Reach(f, S, v)) <= Cardinality(S)
  BY <1>1, FS_Subset
<1> QED
  BY <1>1, <1>2, FS_CardinalityType, FS_EmptySet

LEMMA ValuesAreFinite ==
  ASSUME NEW f, NEW S, IsFiniteSet(S), \A x \in S : f[x] \in Int
  PROVE  {f[x] : x \in S} \in SUBSET Int /\ IsFiniteSet({f[x] : x \in S})
<1>1. [x \in S |-> f[x]] \in Surjection(S, {f[x] : x \in S})
  BY DEF Surjection
<1>2. IsFiniteSet({f[x] : x \in S})
  BY <1>1, FS_Surjection
<1> QED
  BY <1>2

LEMMA LargestIsThreshold ==
  ASSUME NEW f, IsFiniteSet(DOMAIN f), \A x \in DOMAIN f : f[x] \in Int,
         NEW r \in Nat, r < Cardinality(DOMAIN f)
  PROVE  /\ Largest(f, r) \in Int
         /\ \A w \in Int : Largest(f, r) >= w <=> Cardinality(Reach(f, DOMAIN f, w)) > r
<1> DEFINE D == DOMAIN f
           F == {f[x] : x \in D}
           V == {v \in F : Cardinality(Reach(f, D, v)) > r}
           M == Largest(f, r)
<1>1. M = Max(V)
  BY DEF Largest, Range, Reach
<1>2. F \in SUBSET Int /\ IsFiniteSet(F)
  <2> HIDE DEF D
  <2> QED
    BY ValuesAreFinite DEF D
<1>3. \A v : /\ Reach(f, D, v) \in SUBSET D
             /\ IsFiniteSet(Reach(f, D, v)) /\ Cardinality(Reach(f, D, v)) \in Nat
             /\ Cardinality(Reach(f, D, v)) = 0 <=> Reach(f, D, v) = {}
  <2> HIDE DEF D
  <2> QED
    BY ReachFacts DEF D
<1>4. F # {}
  <2>1. Cardinality(D) # 0
    BY FS_CardinalityType
  <2>2. D # {}
    BY <2>1, FS_EmptySet
  <2> QED
    BY <2>2
<1>5. V # {}
  <2> DEFINE m == Min(F)
  <2>1. m \in F /\ \A v \in F : m <= v
    <3> HIDE DEF F
    <3> QED
      BY <1>2, <1>4, SmallestOfFinite
  <2> HIDE DEF m
  <2>2. \A x \in D : f[x] >= m
    <3>1. \A x \in D : f[x] \in F /\ f[x] \in Int
      OBVIOUS
    <3>2. m \in Int
      BY <1>2, <2>1
    <3> HIDE DEF F
    <3> QED
      BY <2>1, <3>1, <3>2
  <2>3. Reach(f, D, m) = D
    BY <2>2 DEF Reach
  <2> QED
    BY <2>1, <2>3
<1>6. V \in SUBSET Int /\ IsFiniteSet(V)
  <2>1. V \in SUBSET F
    OBVIOUS
  <2> HIDE DEF V, F
  <2> QED
    BY <1>2, <2>1, FS_Subset
<1>7. M \in V /\ \A v \in V : M >= v
  <2> HIDE DEF V, M
  <2> QED
    BY <1>1, <1>5, <1>6, LargestOfFinite
<1>8. M \in Int /\ Cardinality(Reach(f, D, M)) > r
  BY <1>6, <1>7
<1> HIDE DEF M
<1>9. ASSUME NEW w \in Int, M >= w PROVE Cardinality(Reach(f, D, w)) > r
  <2>1. Reach(f, D, M) \in SUBSET Reach(f, D, w)
    BY <1>8, <1>9 DEF Reach
  <2>2. Cardinality(Reach(f, D, M)) <= Cardinality(Reach(f, D, w))
    <3>1. IsFiniteSet(Reach(f, D, w))
      BY <1>3
    <3> QED
      BY <2>1, <3>1, FS_Subset
  <2>3. Cardinality(Reach(f, D, M)) \in Nat /\ Cardinality(Reach(f, D, w)) \in Nat
    BY <1>3
  <2> QED
    BY <1>8, <2>2, <2>3
<1>10. ASSUME NEW w \in Int, Cardinality(Reach(f, D, w)) > r PROVE M >= w
  <2> DEFINE R == Reach(f, D, w)
             G == {f[x] : x \in R}
             v == Min(G)
  <2>1. R \in SUBSET D /\ IsFiniteSet(R) /\ R # {} /\ \A x \in R : f[x] \in Int /\ f[x] >= w
    <3>1. R \in SUBSET D /\ IsFiniteSet(R) /\ R # {}
      BY <1>3, <1>10
    <3> QED
      BY <3>1 DEF Reach
  <2>2. G \in SUBSET Int /\ IsFiniteSet(G) /\ G # {}
    <3> HIDE DEF R
    <3> QED
      BY <2>1, ValuesAreFinite
  <2>3. v \in G /\ \A y \in G : v <= y
    <3> HIDE DEF G
    <3> QED
      BY <2>2, SmallestOfFinite
  <2> HIDE DEF v
  <2>4. v \in Int /\ v >= w /\ v \in F
    BY <2>1, <2>3
  <2>5. Reach(f, D, v) = R
    <3>1. \A x \in R : f[x] >= v
      <4>1. \A x \in R : f[x] \in G
        OBVIOUS
      <4> QED
        BY <2>1, <2>3, <2>4, <4>1
    <3>2. \A x \in D : f[x] >= v => f[x] >= w
      BY <2>4
    <3> QED
      BY <2>1, <3>1, <3>2 DEF Reach
  <2>6. v \in V
    BY <1>10, <2>4, <2>5
  <2> HIDE DEF V
  <2> QED
    BY <1>7, <1>8, <2>4, <2>6
<1> QED
  BY <1>8, <1>9, <1>10 DEF M, D

Numbered(f) == IsFiniteSet(DOMAIN f) /\ \A x \in DOMAIN f : f[x] \in Int

LEMMA CoversIsReach ==
  ASSUME NEW c, Numbered(c), NEW d, Numbered(d)
  PROVE  Covers(c, d) <=>
           /\ Cardinality(DOMAIN d) <= Cardinality(DOMAIN c)
           /\ \A w \in Int : Cardinality(Reach(d, DOMAIN d, w))
                               <= Cardinality(Reach(c, DOMAIN c, w))
<1> DEFINE n == Cardinality(DOMAIN d)
           m == Cardinality(DOMAIN c)
           RD(w) == Cardinality(Reach(d, DOMAIN d, w))
           RC(w) == Cardinality(Reach(c, DOMAIN c, w))
<1>1. n \in Nat /\ m \in Nat
  BY FS_CardinalityType DEF Numbered
<1>2. SUFFICES ASSUME n <= m
               PROVE  (\A r \in 0 .. n - 1 : Largest(d, r) <= Largest(c, r))
                        <=> \A w \in Int : RD(w) <= RC(w)
  BY DEF Covers
<1>3. \A w \in Int : RD(w) \in Nat /\ RC(w) \in Nat /\ RD(w) <= n
  BY ReachFacts DEF Numbered
<1>4. \A r \in 0 .. n - 1 :
        /\ r \in Nat
        /\ Largest(d, r) \in Int /\ Largest(c, r) \in Int
        /\ \A w \in Int : Largest(d, r) >= w <=> RD(w) > r
        /\ \A w \in Int : Largest(c, r) >= w <=> RC(w) > r
  <2> SUFFICES ASSUME NEW r \in 0 .. n - 1
               PROVE  /\ r \in Nat
                      /\ Largest(d, r) \in Int /\ Largest(c, r) \in Int
                      /\ \A w \in Int : Largest(d, r) >= w <=> RD(w) > r
                      /\ \A w \in Int : Largest(c, r) >= w <=> RC(w) > r
    OBVIOUS
  <2>1. r \in Nat /\ r < n /\ r < m
    BY <1>1, <1>2
  <2>2. PICK q \in Nat : q = r
    BY <2>1
  <2>3. Largest(d, q) \in Int /\ \A w \in Int : Largest(d, q) >= w <=> RD(w) > q
    BY <2>1, <2>2, LargestIsThreshold DEF Numbered
  <2>4. Largest(c, q) \in Int /\ \A w \in Int : Largest(c, q) >= w <=> RC(w) > q
    BY <2>1, <2>2, LargestIsThreshold DEF Numbered
  <2> QED
    BY <2>1, <2>2, <2>3, <2>4
<1> HIDE DEF RD, RC, n, m
<1>5. ASSUME \A r \in 0 .. n - 1 : Largest(d, r) <= Largest(c, r), NEW w \in Int
      PROVE  RD(w) <= RC(w)
  <2>1. CASE RD(w) = 0
    BY <1>3, <2>1
  <2>2. CASE RD(w) # 0
    <3> DEFINE r == RD(w) - 1
    <3>1. r \in 0 .. n - 1 /\ RD(w) > r
      BY <1>1, <1>3, <2>2
    <3>2. Largest(d, r) >= w
      BY <1>4, <3>1
    <3>3. Largest(c, r) >= w
      <4> HIDE DEF r
      <4> QED
        BY <1>4, <1>5, <3>1, <3>2
    <3>4. RC(w) > r
      BY <1>4, <3>1, <3>3
    <3> QED
      BY <1>3, <3>4
  <2> QED
    BY <2>1, <2>2
<1>6. ASSUME \A w \in Int : RD(w) <= RC(w), NEW r \in 0 .. n - 1
      PROVE  Largest(d, r) <= Largest(c, r)
  <2> DEFINE w == Largest(d, r)
  <2>1. w \in Int /\ w >= w
    BY <1>4
  <2>2. RD(w) > r
    BY <1>4, <2>1
  <2>3. RC(w) > r
    <3> HIDE DEF w
    <3> QED
      BY <1>3, <1>4, <1>6, <2>1, <2>2
  <2>4. Largest(c, r) >= w
    BY <1>4, <2>1, <2>3
  <2> QED
    BY <1>4, <2>1, <2>4
<1> QED
  BY <1>5, <1>6

\* Every demand of S has a capacity of T to itself.
Served(d, S, c, T) ==
  \E g \in Injection(S, T) : \A x \in S : d[x] <= c[g[x]]

Dominated(d, S, c, T) ==
  \A w \in Int : Cardinality(Reach(d, S, w)) <= Cardinality(Reach(c, T, w))

LEMMA ReachWithout ==
  ASSUME NEW f, NEW S, IsFiniteSet(S), NEW x \in S, NEW w
  PROVE  /\ f[x] >= w =>
              Cardinality(Reach(f, S \ {x}, w)) = Cardinality(Reach(f, S, w)) - 1
         /\ ~ (f[x] >= w) => Reach(f, S \ {x}, w) = Reach(f, S, w)
<1>1. CASE f[x] >= w
  <2>1. Reach(f, S \ {x}, w) = Reach(f, S, w) \ {x} /\ x \in Reach(f, S, w)
    BY <1>1 DEF Reach
  <2>2. IsFiniteSet(Reach(f, S, w))
    BY ReachFacts
  <2> QED
    BY <1>1, <2>1, <2>2, FS_RemoveElement
<1>2. CASE ~ (f[x] >= w)
  BY <1>2 DEF Reach
<1> QED
  BY <1>1, <1>2

\* The largest demand takes any capacity that is large enough for it.
LEMMA ServeLargest ==
  ASSUME NEW d, NEW S, IsFiniteSet(S), S # {}, \A x \in S : d[x] \in Int,
         NEW c, NEW T, IsFiniteSet(T), \A y \in T : c[y] \in Int,
         Dominated(d, S, c, T)
  PROVE  \E x \in S, y \in T : d[x] <= c[y] /\ Dominated(d, S \ {x}, c, T \ {y})
<1> DEFINE F == {d[x] : x \in S}
<1>1. F \in SUBSET Int /\ IsFiniteSet(F) /\ F # {}
  BY ValuesAreFinite
<1>2. Max(F) \in F /\ \A v \in F : Max(F) >= v
  <2> HIDE DEF F
  <2> QED
    BY <1>1, LargestOfFinite
<1>3. PICK x \in S : Max(F) = d[x]
  BY <1>2
<1>4. d[x] \in Int /\ \A z \in S : d[x] >= d[z]
  <2>1. \A z \in S : d[z] \in F
    OBVIOUS
  <2> HIDE DEF F
  <2> QED
    BY <1>2, <1>3, <2>1
<1>5. Cardinality(Reach(d, S, d[x])) >= 1
  <2>1. x \in Reach(d, S, d[x])
    BY <1>4 DEF Reach
  <2> QED
    BY <2>1, ReachFacts
<1>6. Reach(c, T, d[x]) # {}
  <2>1. Cardinality(Reach(d, S, d[x])) <= Cardinality(Reach(c, T, d[x]))
    BY <1>4 DEF Dominated
  <2>2. /\ Cardinality(Reach(d, S, d[x])) \in Nat
        /\ Cardinality(Reach(c, T, d[x])) \in Nat
        /\ Cardinality(Reach(c, T, d[x])) = 0 <=> Reach(c, T, d[x]) = {}
    BY ReachFacts
  <2> QED
    BY <1>5, <2>1, <2>2
<1>7. PICK y \in T : c[y] >= d[x]
  BY <1>6 DEF Reach
<1>8. c[y] \in Int /\ d[x] <= c[y]
  BY <1>4, <1>7
<1>9. ASSUME NEW w \in Int
      PROVE  Cardinality(Reach(d, S \ {x}, w)) <= Cardinality(Reach(c, T \ {y}, w))
  <2> DEFINE ds == Cardinality(Reach(d, S, w))
             cs == Cardinality(Reach(c, T, w))
             dr == Cardinality(Reach(d, S \ {x}, w))
             cr == Cardinality(Reach(c, T \ {y}, w))
  <2>1. ds <= cs
    BY DEF Dominated
  <2>2. IsFiniteSet(S \ {x}) /\ IsFiniteSet(T \ {y})
    BY FS_RemoveElement
  <2>3. ds \in Nat /\ cs \in Nat
    BY ReachFacts
  <2>4. dr \in Nat /\ (dr = 0 <=> Reach(d, S \ {x}, w) = {})
    <3> DEFINE S1 == S \ {x}
    <3> HIDE DEF S1
    <3>1. Cardinality(Reach(d, S1, w)) \in Nat
          /\ (Cardinality(Reach(d, S1, w)) = 0 <=> Reach(d, S1, w) = {})
      BY <2>2, ReachFacts DEF S1
    <3> QED
      BY <3>1 DEF S1
  <2>5. cr \in Nat
    <3> DEFINE T1 == T \ {y}
    <3> HIDE DEF T1
    <3>1. Cardinality(Reach(c, T1, w)) \in Nat
      BY <2>2, ReachFacts DEF T1
    <3> QED
      BY <3>1 DEF T1
  <2>6. CASE d[x] >= w
    <3>1. c[y] >= w
      BY <1>4, <1>8, <2>6
    <3>2. dr = ds - 1
      BY <2>6, ReachWithout
    <3>3. cr = cs - 1
      BY <3>1, ReachWithout
    <3>4. dr <= cr
      <4> HIDE DEF ds, cs, dr, cr
      <4> QED
        BY <2>1, <2>3, <3>2, <3>3
    <3> QED
      BY <3>4
  <2>7. CASE ~ (d[x] >= w)
    <3>1. \A z \in S : ~ (d[z] >= w)
      BY <1>4, <2>7
    <3>2. Reach(d, S \ {x}, w) = {}
      BY <3>1 DEF Reach
    <3>3. dr = 0
      BY <2>4, <3>2
    <3>4. dr <= cr
      <4> HIDE DEF cr, dr
      <4> QED
        BY <2>5, <3>3
    <3> QED
      BY <3>4
  <2> QED
    BY <2>6, <2>7
<1> QED
  BY <1>8, <1>9 DEF Dominated

LEMMA ServeOneMore ==
  ASSUME NEW d, NEW S, NEW x \in S, NEW c, NEW T, NEW y \in T, d[x] <= c[y],
         Served(d, S \ {x}, c, T \ {y})
  PROVE  Served(d, S, c, T)
<1>1. PICK g \in Injection(S \ {x}, T \ {y}) : \A z \in S \ {x} : d[z] <= c[g[z]]
  BY DEF Served
<1> DEFINE h == [z \in S |-> IF z = x THEN y ELSE g[z]]
<1>2. /\ g \in [S \ {x} -> T \ {y}]
      /\ \A a, b \in S \ {x} : g[a] = g[b] => a = b
  BY DEF Injection, IsInjective
<1>3. h \in [S -> T] /\ \A a, b \in S : h[a] = h[b] => a = b
  <2>1. \A z \in S : z # x => z \in S \ {x} /\ g[z] \in T \ {y}
    BY <1>2
  <2>2. h \in [S -> T]
    BY <2>1
  <2>3. \A a, b \in S : h[a] = h[b] => a = b
    <3> SUFFICES ASSUME NEW a \in S, NEW b \in S, h[a] = h[b] PROVE a = b
      OBVIOUS
    <3> QED
      BY <1>2, <2>1
  <2> QED
    BY <2>2, <2>3
<1>4. h \in Injection(S, T)
  BY <1>3 DEF Injection, IsInjective
<1>5. \A z \in S : d[z] <= c[h[z]]
  BY <1>1
<1> QED
  BY <1>4, <1>5 DEF Served

LEMMA DominatedIsServed ==
  ASSUME NEW d, NEW S, IsFiniteSet(S), \A x \in S : d[x] \in Int,
         NEW c, NEW T, IsFiniteSet(T), \A y \in T : c[y] \in Int,
         Dominated(d, S, c, T)
  PROVE  Served(d, S, c, T)
<1> DEFINE P == {n \in Nat : \A A \in SUBSET S, B \in SUBSET T :
                   Cardinality(A) = n /\ Dominated(d, A, c, B) => Served(d, A, c, B)}
<1>0. /\ \A A \in SUBSET S : /\ IsFiniteSet(A)
                             /\ Cardinality(A) \in Nat /\ (Cardinality(A) = 0 <=> A = {})
      /\ \A B \in SUBSET T : IsFiniteSet(B)
  BY FS_Subset, FS_CardinalityType, FS_EmptySet
<1>1. 0 \in P
  <2> SUFFICES ASSUME NEW B \in SUBSET T PROVE Served(d, {}, c, B)
    BY <1>0
  <2>1. [x \in {} |-> 0] \in Injection({}, B)
    BY DEF Injection, IsInjective
  <2> QED
    BY <2>1 DEF Served
<1>2. \A n \in P : n + 1 \in P
  <2> SUFFICES ASSUME NEW n \in P, NEW A \in SUBSET S, NEW B \in SUBSET T,
                      Cardinality(A) = n + 1, Dominated(d, A, c, B)
               PROVE  Served(d, A, c, B)
    OBVIOUS
  <2>1. n \in Nat /\ A # {}
    BY <1>0
  <2>2. PICK x \in A, y \in B : d[x] <= c[y] /\ Dominated(d, A \ {x}, c, B \ {y})
    <3>1. \A z \in A : d[z] \in Int
      OBVIOUS
    <3>2. \A z \in B : c[z] \in Int
      OBVIOUS
    <3> QED
      BY <1>0, <2>1, <3>1, <3>2, ServeLargest
  <2>3. A \ {x} \in SUBSET S /\ B \ {y} \in SUBSET T /\ Cardinality(A \ {x}) = n
    <3>1. IsFiniteSet(A) /\ Cardinality(A \ {x}) = Cardinality(A) - 1
      BY <1>0, FS_RemoveElement
    <3> QED
      BY <2>1, <3>1
  <2>4. Served(d, A \ {x}, c, B \ {y})
    BY <2>2, <2>3
  <2> QED
    BY <2>2, <2>4, ServeOneMore
<1>3. P = Nat
  <2> HIDE DEF P
  <2>1. P \in SUBSET Nat
    BY DEF P
  <2> QED
    BY <1>1, <1>2, <2>1, Induction
<1> QED
  BY <1>0, <1>3

LEMMA ServedIsDominated ==
  ASSUME NEW d, NEW S, \A x \in S : d[x] \in Int,
         NEW c, NEW T, IsFiniteSet(T), \A y \in T : c[y] \in Int,
         Served(d, S, c, T)
  PROVE  Dominated(d, S, c, T)
<1> SUFFICES ASSUME NEW w \in Int
             PROVE  Cardinality(Reach(d, S, w)) <= Cardinality(Reach(c, T, w))
  BY DEF Dominated
<1>1. PICK g \in Injection(S, T) : \A x \in S : d[x] <= c[g[x]]
  BY DEF Served
<1>2. g \in [S -> T] /\ \A a, b \in S : g[a] = g[b] => a = b
  BY DEF Injection, IsInjective
<1> DEFINE RS == Reach(d, S, w)
           RT == Reach(c, T, w)
           h == [x \in RS |-> g[x]]
<1>3. \A x \in RS : x \in S /\ g[x] \in RT
  <2> SUFFICES ASSUME NEW x \in RS PROVE x \in S /\ g[x] \in RT
    OBVIOUS
  <2>1. x \in S /\ d[x] >= w
    BY DEF Reach
  <2>2. g[x] \in T /\ d[x] <= c[g[x]] /\ c[g[x]] \in Int /\ d[x] \in Int
    BY <1>1, <1>2, <2>1
  <2> QED
    BY <2>1, <2>2 DEF Reach
<1>4. IsFiniteSet(RT)
  BY ReachFacts
<1>5. h \in Injection(RS, RT)
  <2> HIDE DEF RS, RT
  <2> QED
    BY <1>2, <1>3 DEF Injection, IsInjective
<1> HIDE DEF RS, RT, h
<1>6. Cardinality(RS) <= Cardinality(RT)
  BY <1>4, <1>5, FS_Injection
<1> QED
  BY <1>6 DEF RS, RT

\* plan_stages looks at the right thing: sorted demands lie under sorted
\* capacities, place by place, exactly when the fleet can be assigned so that
\* every replica of every slot has a machine of its own that can hold it.
THEOREM CoversIsStaffable ==
  ASSUME NEW c, Numbered(c), NEW k, NEW sizes, Split(sizes, k),
         NEW rep \in Nat
  PROVE  Covers(c, Demand(sizes, rep)) <=> Staffable(sizes, rep, c)
<1> DEFINE D == (DOMAIN sizes) \X (1 .. rep)
           d == Demand(sizes, rep)
           C == DOMAIN c
<1>1. k \in Nat /\ DOMAIN sizes = 0 .. k - 1 /\ \A i \in DOMAIN sizes : sizes[i] \in Int
  BY DEF Split
<1>2. IsFiniteSet(D) /\ Cardinality(D) = Cardinality(DOMAIN sizes) * rep
  <2>1. IsFiniteSet(DOMAIN sizes)
    BY <1>1, FS_Interval
  <2>2. IsFiniteSet(1 .. rep) /\ Cardinality(1 .. rep) = rep
    BY FS_Interval
  <2> QED
    BY <2>1, <2>2, FS_Product
<1>3. DOMAIN d = D /\ \A x \in D : d[x] = sizes[x[1]] /\ d[x] \in Int
  BY <1>1 DEF Demand
<1>4. IsFiniteSet(C) /\ \A y \in C : c[y] \in Int
  BY DEF Numbered
<1>5. Covers(c, d) <=> /\ Cardinality(D) <= Cardinality(C)
                       /\ Dominated(d, D, c, C)
  <2>1. Numbered(d)
    <3> HIDE DEF d, D
    <3> QED
      BY <1>2, <1>3 DEF Numbered
  <2> HIDE DEF d, D
  <2> QED
    BY <1>3, <2>1, CoversIsReach DEF Dominated
<1>6. Dominated(d, D, c, C) <=> Served(d, D, c, C)
  <2> HIDE DEF d, D, C
  <2>1. \A x \in D : d[x] \in Int
    BY <1>3
  <2> QED
    BY <1>2, <1>4, <2>1, DominatedIsServed, ServedIsDominated
<1>7. Staffable(sizes, rep, c) <=> /\ Cardinality(D) <= Cardinality(C)
                                   /\ Served(d, D, c, C)
  <2>1. \A g \in Injection(D, C) : DOMAIN g = D
    BY DEF Injection
  <2>2. (\E g \in Injection(D, C) : \A x \in DOMAIN g : sizes[x[1]] <= c[g[x]])
          <=> Served(d, D, c, C)
    <3> HIDE DEF d, D, C
    <3> QED
      BY <1>3, <2>1 DEF Served
  <2> QED
    BY <1>2, <2>2 DEF Staffable
<1> QED
  BY <1>5, <1>6, <1>7

=============================================================================
