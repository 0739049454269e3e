-------------------------- MODULE SprayAndWaitProofs --------------------------
(***************************************************************************)
(* Proofs about SprayAndWait for any finite set of nodes, any links, modes, *)
(* number of copies and number of goroutines.                               *)
(*                                                                          *)
(* The argument: SprayInv weighs nodes, forwardings and messages, and no     *)
(* step adds to the whole.  What a node takes from its counter, the          *)
(* forwarding carries, then the message, then the counter of the receiver;   *)
(* a loss, a failed Send or a restart only takes away.  A binary node that   *)
(* gets the bundle pays for itself with one copy of its share, a basic node  *)
(* with the copy the origin took for it.                                     *)
(*                                                                          *)
(* The sums are folds over finite sets.  What they compute is proved by     *)
(* induction over the subsets of a finite set, and that from the least      *)
(* element of a set of numbers.                                              *)
(***************************************************************************)
EXTENDS SprayAndWait, FiniteSetTheorems, TLAPS

-----------------------------------------------------------------------------
(* Induction *)

\* Every set of numbers that is not empty has a least element.
LEMMA LeastNumber ==
    ASSUME NEW T \in SUBSET Nat, T # {}
    PROVE  \E n \in T : \A m \in T : n <= m
<1> DEFINE R == OpToRel(<, Nat)
<1>1. IsWellFoundedOn(R, Nat)
  BY NatLessThanWellFounded
<1>2. ASSUME NEW x \in Nat, NEW y \in Nat, <<y, x>> \notin R PROVE x <= y
  BY <1>2 DEF OpToRel
<1> HIDE DEF R
<1>3. PICK n \in T : \A y \in T : <<y, n>> \notin R
  BY <1>1, WFMin
<1>4. \A y \in T : n <= y
  BY <1>2, <1>3
<1> QED BY <1>4

\* Induction, for the numbers in a set.
LEMMA NumberInduction ==
    ASSUME NEW T, 0 \in T, \A n \in Nat : n \in T => n + 1 \in T
    PROVE  Nat \subseteq T
<1> SUFFICES ASSUME Nat \ T # {} PROVE FALSE
  OBVIOUS
<1>1. PICK n \in Nat \ T : \A m \in Nat \ T : n <= m
  BY LeastNumber
<1>2. n # 0 /\ n - 1 \in Nat /\ ~(n <= n - 1)
  OBVIOUS
<1> QED BY <1>1, <1>2

\* A property of all finite subsets of S that a set has if its subsets with one
\* element less have it.
LEMMA SubsetInduction ==
    ASSUME NEW S, IsFiniteSet(S), NEW P \in SUBSET SUBSET S,
           \A s \in SUBSET S : (\A x \in s : s \ {x} \in P) => s \in P
    PROVE  P = SUBSET S
<1> DEFINE T == {n \in Nat : \A s \in SUBSET S : Cardinality(s) = n => s \in P}
<1>0. ASSUME NEW s \in SUBSET S
      PROVE  /\ IsFiniteSet(s) /\ Cardinality(s) \in Nat
             /\ \A x \in s : Cardinality(s \ {x}) = Cardinality(s) - 1
  BY FS_Subset, FS_CardinalityType, FS_RemoveElement
<1>1. 0 \in T
  <2>1. ASSUME NEW s \in SUBSET S, Cardinality(s) = 0 PROVE s \in P
    <3>1. s = {}
      BY <2>1, <1>0, FS_EmptySet
    <3> QED BY <3>1
  <2> QED BY <2>1
<1>2. ASSUME NEW n \in Nat, n \in T PROVE n + 1 \in T
  <2>1. ASSUME NEW s \in SUBSET S, Cardinality(s) = n + 1 PROVE s \in P
    <3>1. ASSUME NEW x \in s PROVE s \ {x} \in P
      <4>1. s \ {x} \in SUBSET S /\ Cardinality(s \ {x}) = n
        BY <1>0, <2>1
      <4> QED BY <4>1, <1>2
    <3> QED BY <3>1
  <2> QED BY <2>1
<1>3. Nat \subseteq T
  <2> HIDE DEF T
  <2> QED BY <1>1, <1>2, NumberInduction
<1>4. ASSUME NEW s \in SUBSET S PROVE s \in P
  <2>1. Cardinality(s) \in T
    BY <1>0, <1>3
  <2> QED BY <2>1
<1> QED BY <1>4

-----------------------------------------------------------------------------
(* Sums *)

\* iter adds up the values of f, one element after another.
Adds(iter, f, S) ==
    iter = [s \in SUBSET S |-> IF s = {} THEN 0
                               ELSE f[CHOOSE x \in s : TRUE] + iter[s \ {CHOOSE x \in s : TRUE}]]

\* The fold of Functions is such a function.
LEMMA SumDef ==
    ASSUME NEW f, NEW S
    PROVE  SumFunctionOnSet(f, S) = (CHOOSE iter : Adds(iter, f, S))[S]
  BY DEF SumFunctionOnSet, FoldFunctionOnSet, MapThenFoldSet, Adds

\* One addition.
LEMMA AddsAt ==
    ASSUME NEW f, NEW S, NEW iter, Adds(iter, f, S), NEW s \in SUBSET S
    PROVE  /\ s = {} => iter[s] = 0
           /\ s # {} => LET x == CHOOSE x \in s : TRUE
                        IN  x \in s /\ s \ {x} \in SUBSET S /\ iter[s] = f[x] + iter[s \ {x}]
<1>1. iter[s] = IF s = {} THEN 0
                ELSE f[CHOOSE x \in s : TRUE] + iter[s \ {CHOOSE x \in s : TRUE}]
  BY DEF Adds
<1>2. s # {} => (CHOOSE x \in s : TRUE) \in s
  OBVIOUS
<1> QED BY <1>1, <1>2

\* There is such a function.
LEMMA AddsExists ==
    ASSUME NEW f, NEW S, IsFiniteSet(S)
    PROVE  \E iter : Adds(iter, f, S)
<1> DEFINE c(s) == CHOOSE x \in s : TRUE
           D(n) == {s \in SUBSET S : Cardinality(s) <= n}
           Step(g, s) == IF s = {} THEN 0 ELSE f[c(s)] + g[s \ {c(s)}]
           Good(g, n) == \A s \in D(n) : g[s] = Step(g, s)
           T == {n \in Nat : \E g : Good(g, n)}
<1>0. ASSUME NEW s \in SUBSET S
      PROVE  /\ Cardinality(s) \in Nat /\ Cardinality(s) <= Cardinality(S)
             /\ s # {} => c(s) \in s /\ Cardinality(s \ {c(s)}) = Cardinality(s) - 1
             /\ s \ {c(s)} \in SUBSET S /\ (Cardinality(s) = 0 => s = {})
  <2>1. IsFiniteSet(s)
    BY FS_Subset
  <2>2. s # {} => c(s) \in s
    OBVIOUS
  <2> HIDE DEF c
  <2> QED BY <2>1, <2>2, FS_Subset, FS_CardinalityType, FS_RemoveElement, FS_EmptySet
<1> HIDE DEF c
<1>1. 0 \in T
  <2> DEFINE g == [s \in SUBSET S |-> 0]
  <2>1. ASSUME NEW s \in D(0) PROVE s = {}
    <3>1. s \in SUBSET S /\ Cardinality(s) <= 0
      OBVIOUS
    <3>2. Cardinality(s) \in Nat /\ (Cardinality(s) = 0 => s = {})
      BY <1>0, <3>1
    <3> HIDE DEF D
    <3> QED BY <3>1, <3>2
  <2>2. Good(g, 0)
    BY <2>1
  <2> HIDE DEF g, Good
  <2> QED BY <2>2
<1>2. ASSUME NEW n \in Nat, n \in T PROVE n + 1 \in T
  <2>1. PICK g : Good(g, n)
    BY <1>2
  <2> DEFINE h == [s \in SUBSET S |-> Step(g, s)]
  <2>2. ASSUME NEW s \in D(n + 1) PROVE h[s] = Step(h, s)
    <3>1. CASE s = {}
      BY <3>1
    <3>2. CASE s # {}
      <4>1. s \ {c(s)} \in D(n)
        BY <1>0, <3>2
      <4>2. h[s \ {c(s)}] = g[s \ {c(s)}]
        BY <2>1, <4>1
      <4>3. h[s] = f[c(s)] + g[s \ {c(s)}]
        BY <3>2
      <4> HIDE DEF h
      <4> QED BY <3>2, <4>2, <4>3
    <3> QED BY <3>1, <3>2
  <2>3. Good(h, n + 1)
    BY <2>2
  <2> HIDE DEF h, Good
  <2> QED BY <2>3
<1>3. Cardinality(S) \in T
  <2> HIDE DEF T
  <2> QED BY <1>0, <1>1, <1>2, NumberInduction
<1>4. PICK g : Good(g, Cardinality(S))
  BY <1>3
<1> DEFINE i == [s \in SUBSET S |-> g[s]]
<1>5. ASSUME NEW s \in SUBSET S PROVE i[s] = Step(i, s)
  <2>1. s \in D(Cardinality(S)) /\ s \ {c(s)} \in SUBSET S
    BY <1>0
  <2>2. g[s] = Step(g, s) /\ i[s] = g[s] /\ i[s \ {c(s)}] = g[s \ {c(s)}]
    BY <1>4, <2>1
  <2> HIDE DEF i
  <2> QED BY <2>2
<1>6. i = [s \in SUBSET S |-> Step(i, s)]
  <2>1. i = [s \in SUBSET S |-> i[s]]
    OBVIOUS
  <2> HIDE DEF i
  <2> QED BY <1>5, <2>1
<1> HIDE DEF i
<1> QED BY <1>6 DEF Adds, c

\* Any such function, for whatever larger set, gives the sum.
LEMMA AddsIsSum ==
    ASSUME NEW f, NEW U, IsFiniteSet(U)
    PROVE  \A S \in SUBSET U : \A iter : Adds(iter, f, S) =>
               \A s \in SUBSET S : iter[s] = SumFunctionOnSet(f, s)
<1> DEFINE P == {s \in SUBSET U : \A S \in SUBSET U : \A iter :
                     Adds(iter, f, S) /\ s \subseteq S => iter[s] = SumFunctionOnSet(f, s)}
<1>1. ASSUME NEW s \in SUBSET U, \A x \in s : s \ {x} \in P PROVE s \in P
  <2> SUFFICES ASSUME NEW S \in SUBSET U, NEW iter, Adds(iter, f, S), s \subseteq S
               PROVE  iter[s] = SumFunctionOnSet(f, s)
    OBVIOUS
  <2> DEFINE own == CHOOSE i : Adds(i, f, s)
             c == CHOOSE x \in s : TRUE
  <2>1. Adds(own, f, s) /\ SumFunctionOnSet(f, s) = own[s]
    <3>1. IsFiniteSet(s)
      BY FS_Subset
    <3> QED BY <3>1, AddsExists, SumDef
  <2> HIDE DEF own, P
  <2>a. ASSUME NEW T, NEW i, Adds(i, f, T), s \in SUBSET T
        PROVE  i[s] = IF s = {} THEN 0 ELSE f[c] + i[s \ {c}]
    BY <2>a DEF Adds
  <2>b. s # {} => c \in s
    OBVIOUS
  <2> HIDE DEF c
  <2>c. iter[s] = IF s = {} THEN 0 ELSE f[c] + iter[s \ {c}]
    <3>1. s \in SUBSET S
      OBVIOUS
    <3> QED BY <2>a, <3>1
  <2>d. own[s] = IF s = {} THEN 0 ELSE f[c] + own[s \ {c}]
    <3>1. s \in SUBSET s
      OBVIOUS
    <3> QED BY <2>a, <2>1, <3>1
  <2>2. CASE s = {}
    BY <2>1, <2>2, <2>c, <2>d
  <2>3. CASE s # {}
    <3>1. c \in s /\ iter[s] = f[c] + iter[s \ {c}] /\ own[s] = f[c] + own[s \ {c}]
      BY <2>3, <2>b, <2>c, <2>d
    <3>2. iter[s \ {c}] = SumFunctionOnSet(f, s \ {c}) /\ own[s \ {c}] = SumFunctionOnSet(f, s \ {c})
      <4>1. s \ {c} \in P /\ s \ {c} \subseteq S /\ s \ {c} \subseteq s
        BY <1>1, <3>1
      <4>2. ASSUME NEW T \in SUBSET U, NEW i, Adds(i, f, T), s \ {c} \subseteq T
            PROVE  i[s \ {c}] = SumFunctionOnSet(f, s \ {c})
        BY <4>1, <4>2 DEF P
      <4> QED BY <2>1, <4>1, <4>2
    <3> QED BY <2>1, <3>1, <3>2
  <2> QED BY <2>2, <2>3
<1>2. P = SUBSET U
  <2>1. P \in SUBSET SUBSET U
    OBVIOUS
  <2> HIDE DEF P
  <2> QED BY <1>1, <2>1, SubsetInduction
<1> QED BY <1>2

\* A sum is the value of the element chosen and the sum of the rest.
LEMMA SumStep ==
    ASSUME NEW f, NEW S, IsFiniteSet(S)
    PROVE  /\ S = {} => SumFunctionOnSet(f, S) = 0
           /\ S # {} => LET x == CHOOSE x \in S : TRUE
                        IN  /\ x \in S
                            /\ SumFunctionOnSet(f, S) = f[x] + SumFunctionOnSet(f, S \ {x})
<1>1. PICK iter : Adds(iter, f, S)
  BY AddsExists
<1>2. S \in SUBSET S
  OBVIOUS
<1>3. \A T \in SUBSET S : \A i : Adds(i, f, T) =>
          \A s \in SUBSET T : i[s] = SumFunctionOnSet(f, s)
  BY AddsIsSum
<1>4. \A s \in SUBSET S : iter[s] = SumFunctionOnSet(f, s)
  BY <1>1, <1>2, <1>3
<1>5. CASE S = {}
  <2>1. iter[S] = 0
    BY <1>1, <1>2, <1>5, AddsAt
  <2> QED BY <1>2, <1>4, <1>5, <2>1
<1>6. CASE S # {}
  <2> DEFINE x == CHOOSE x \in S : TRUE
  <2>1. x \in S /\ S \ {x} \in SUBSET S /\ iter[S] = f[x] + iter[S \ {x}]
    BY <1>1, <1>2, <1>6, AddsAt
  <2> HIDE DEF x
  <2>2. x \in S /\ SumFunctionOnSet(f, S) = f[x] + SumFunctionOnSet(f, S \ {x})
    BY <1>2, <1>4, <2>1
  <2> QED BY <1>6, <2>2 DEF x
<1> QED BY <1>5, <1>6

\* A sum of numbers is a number.
LEMMA SumNat ==
    ASSUME NEW f, NEW S, IsFiniteSet(S), \A x \in S : f[x] \in Nat
    PROVE  \A s \in SUBSET S : IsFiniteSet(s) /\ SumFunctionOnSet(f, s) \in Nat
<1> DEFINE Sum(s) == SumFunctionOnSet(f, s)
           P == {s \in SUBSET S : Sum(s) \in Nat}
<1> HIDE DEF Sum
<1>0. \A s \in SUBSET S : IsFiniteSet(s)
  BY FS_Subset
<1>1. ASSUME NEW s \in SUBSET S, \A x \in s : s \ {x} \in P PROVE s \in P
  <2>1. CASE s = {}
    <3>1. Sum(s) = 0
      BY <1>0, <2>1, SumStep DEF Sum
    <3> QED BY <3>1
  <2>2. CASE s # {}
    <3>1. PICK c \in s : Sum(s) = f[c] + Sum(s \ {c})
      BY <1>0, <2>2, SumStep DEF Sum
    <3>2. Sum(s \ {c}) \in Nat /\ f[c] \in Nat
      BY <1>1, <3>1
    <3> QED BY <3>1, <3>2
  <2> QED BY <2>1, <2>2
<1>2. P = SUBSET S
  <2>1. P \in SUBSET SUBSET S
    OBVIOUS
  <2> HIDE DEF P
  <2> QED BY <1>1, <2>1, SubsetInduction
<1> QED BY <1>0, <1>2 DEF Sum

\* Any element may be taken out first.
LEMMA SumTakeOut ==
    ASSUME NEW f, NEW S, IsFiniteSet(S), \A x \in S : f[x] \in Nat
    PROVE  \A x \in S : SumFunctionOnSet(f, S) = f[x] + SumFunctionOnSet(f, S \ {x})
<1> DEFINE Sum(s) == SumFunctionOnSet(f, s)
           P == {s \in SUBSET S : \A x \in s : Sum(s) = f[x] + Sum(s \ {x})}
<1> HIDE DEF Sum
<1>0. \A s \in SUBSET S : IsFiniteSet(s) /\ Sum(s) \in Nat
  BY SumNat DEF Sum
<1>1. ASSUME NEW s \in SUBSET S, \A x \in s : s \ {x} \in P PROVE s \in P
  <2>1. CASE s = {}
    BY <2>1
  <2>2. CASE s # {}
    <3>1. PICK c \in s : Sum(s) = f[c] + Sum(s \ {c})
      BY <1>0, <2>2, SumStep DEF Sum
    <3>2. ASSUME NEW x \in s, x # c PROVE Sum(s) = f[x] + Sum(s \ {x})
      <4> DEFINE rest == Sum((s \ {c}) \ {x})
      <4>1. s \ {c} \in P /\ s \ {x} \in P /\ x \in s \ {c} /\ c \in s \ {x}
        BY <1>1, <3>2
      <4>2. Sum(s \ {c}) = f[x] + rest
        BY <4>1
      <4>3. Sum(s \ {x}) = f[c] + rest
        <5>1. (s \ {c}) \ {x} = (s \ {x}) \ {c}
          OBVIOUS
        <5>2. Sum(s \ {x}) = f[c] + Sum((s \ {x}) \ {c})
          BY <4>1
        <5> QED BY <5>1, <5>2
      <4>4. rest \in Nat /\ f[x] \in Nat /\ f[c] \in Nat
        BY <1>0
      <4> HIDE DEF rest
      <4>5. Sum(s) = f[c] + (f[x] + rest)
        BY <3>1, <4>2
      <4> QED BY <4>3, <4>4, <4>5
    <3> QED BY <3>1, <3>2
  <2> QED BY <2>1, <2>2
<1>2. P = SUBSET S
  <2>1. P \in SUBSET SUBSET S
    OBVIOUS
  <2> HIDE DEF P
  <2> QED BY <1>1, <2>1, SubsetInduction
<1>3. S \in P
  BY <1>2
<1> QED BY <1>3 DEF Sum

\* A sum grows with what is added and with the elements.
LEMMA SumGrows ==
    ASSUME NEW f, NEW g, NEW S, IsFiniteSet(S), NEW R \in SUBSET S,
           \A x \in S : g[x] \in Nat, \A x \in R : f[x] \in Nat /\ f[x] <= g[x]
    PROVE  /\ SumFunctionOnSet(f, R) \in Nat /\ SumFunctionOnSet(g, S) \in Nat
           /\ SumFunctionOnSet(f, R) <= SumFunctionOnSet(g, S)
<1> DEFINE F(s) == SumFunctionOnSet(f, s)
           G(s) == SumFunctionOnSet(g, s)
           P == {s \in SUBSET S : F(s \cap R) <= G(s)}
<1>0. \A s \in SUBSET S : IsFiniteSet(s) /\ IsFiniteSet(s \cap R) /\ G(s) \in Nat /\ F(s \cap R) \in Nat
  <2>1. IsFiniteSet(R)
    BY FS_Subset
  <2>2. \A s \in SUBSET R : IsFiniteSet(s) /\ F(s) \in Nat
    BY <2>1, SumNat
  <2>3. \A s \in SUBSET S : IsFiniteSet(s) /\ G(s) \in Nat
    BY SumNat
  <2> HIDE DEF F, G
  <2> QED BY <2>2, <2>3
<1>a. ASSUME NEW s \in SUBSET S, NEW x \in s PROVE G(s) = g[x] + G(s \ {x})
  <2>1. IsFiniteSet(s)
    BY <1>0
  <2>2. \A y \in s : g[y] \in Nat
    OBVIOUS
  <2> QED BY <2>1, <2>2, SumTakeOut
<1>b. ASSUME NEW s \in SUBSET R, NEW x \in s PROVE F(s) = f[x] + F(s \ {x})
  <2>1. IsFiniteSet(s)
    BY FS_Subset
  <2>2. \A y \in s : f[y] \in Nat
    OBVIOUS
  <2> QED BY <2>1, <2>2, SumTakeOut
<1>c. F({}) = 0
  BY SumStep, FS_EmptySet
<1> HIDE DEF F, G
<1>1. ASSUME NEW s \in SUBSET S, \A x \in s : s \ {x} \in P PROVE s \in P
  <2>1. CASE s = {}
    <3>1. F(s \cap R) = 0 /\ G(s) \in Nat
      BY <1>0, <1>c, <2>1
    <3> QED BY <3>1
  <2>2. CASE s # {}
    <3>1. PICK x \in s : TRUE
      BY <2>2
    <3>2. F((s \ {x}) \cap R) <= G(s \ {x}) /\ F((s \ {x}) \cap R) \in Nat /\ G(s \ {x}) \in Nat
      BY <1>0, <1>1
    <3>3. G(s) = g[x] + G(s \ {x}) /\ g[x] \in Nat
      BY <1>a
    <3>4. CASE x \in R
      <4>1. (s \cap R) \ {x} = (s \ {x}) \cap R
        OBVIOUS
      <4>2. F(s \cap R) = f[x] + F((s \ {x}) \cap R) /\ f[x] \in Nat /\ f[x] <= g[x]
        BY <1>b, <3>4, <4>1
      <4>3. F(s \cap R) <= G(s)
        BY <3>2, <3>3, <4>2
      <4> QED BY <4>3
    <3>5. CASE x \notin R
      <4>1. s \cap R = (s \ {x}) \cap R
        BY <3>5
      <4>a. F(s \cap R) = F((s \ {x}) \cap R)
        BY <4>1
      <4>2. F(s \cap R) <= G(s)
        BY <3>2, <3>3, <4>a
      <4> QED BY <4>2
    <3> QED BY <3>4, <3>5
  <2> QED BY <2>1, <2>2
<1>2. P = SUBSET S
  <2>1. P \in SUBSET SUBSET S
    OBVIOUS
  <2> HIDE DEF P
  <2> QED BY <1>1, <2>1, SubsetInduction
<1>3. S \in P /\ S \cap R = R
  BY <1>2
<1> QED BY <1>0, <1>3 DEF F, G

\* What a change at one element does to a sum.
LEMMA SumChange ==
    ASSUME NEW f, NEW g, NEW S, IsFiniteSet(S), NEW x \in S,
           \A y \in S : f[y] \in Nat /\ g[y] \in Nat, \A y \in S \ {x} : f[y] <= g[y]
    PROVE  /\ SumFunctionOnSet(f, S) \in Nat /\ SumFunctionOnSet(g, S) \in Nat
           /\ SumFunctionOnSet(f, S) + g[x] <= SumFunctionOnSet(g, S) + f[x]
<1> DEFINE F(s) == SumFunctionOnSet(f, s)
           G(s) == SumFunctionOnSet(g, s)
<1>1. F(S) = f[x] + F(S \ {x}) /\ G(S) = g[x] + G(S \ {x})
  BY SumTakeOut
<1>2. F(S \ {x}) \in Nat /\ G(S \ {x}) \in Nat /\ F(S \ {x}) <= G(S \ {x})
  <2>1. IsFiniteSet(S \ {x})
    BY FS_RemoveElement
  <2> QED BY <2>1, SumGrows
<1> HIDE DEF F, G
<1>3. f[x] \in Nat /\ g[x] \in Nat
  OBVIOUS
<1>4. F(S) \in Nat /\ G(S) \in Nat /\ F(S) + g[x] <= G(S) + f[x]
  BY <1>1, <1>2, <1>3
<1> QED BY <1>4 DEF F, G

\* A set has no more elements than a sum that counts each of them at least once.
LEMMA SumCounts ==
    ASSUME NEW f, NEW S, IsFiniteSet(S), \A x \in S : f[x] \in Nat, NEW R \in SUBSET S,
           \A x \in R : f[x] >= 1
    PROVE  Cardinality(R) \in Nat /\ Cardinality(R) <= SumFunctionOnSet(f, S)
<1> DEFINE F(s) == SumFunctionOnSet(f, s)
           P == {s \in SUBSET R : Cardinality(s) <= F(s)}
<1>0. IsFiniteSet(R)
  BY FS_Subset
<1>1. \A s \in SUBSET R : IsFiniteSet(s) /\ F(s) \in Nat /\ Cardinality(s) \in Nat
  BY <1>0, SumNat, FS_Subset, FS_CardinalityType
<1>2. ASSUME NEW s \in SUBSET R, NEW x \in s
      PROVE  F(s) = f[x] + F(s \ {x}) /\ Cardinality(s \ {x}) = Cardinality(s) - 1
  <2>1. IsFiniteSet(s) /\ \A y \in s : f[y] \in Nat
    BY <1>1
  <2>2. F(s) = f[x] + F(s \ {x})
    BY <2>1, SumTakeOut
  <2>3. Cardinality(s \ {x}) = Cardinality(s) - 1
    BY <2>1, FS_RemoveElement
  <2> QED BY <2>2, <2>3
<1>3. F({}) = 0 /\ Cardinality({}) = 0
  BY SumStep, FS_EmptySet
<1>4. F(R) \in Nat /\ F(S) \in Nat /\ F(R) <= F(S)
  <2>1. \A x \in S : f[x] <= f[x]
    OBVIOUS
  <2> QED BY <2>1, SumGrows
<1> HIDE DEF F
<1>5. ASSUME NEW s \in SUBSET R, \A x \in s : s \ {x} \in P PROVE s \in P
  <2>1. CASE s = {}
    BY <1>3, <2>1
  <2>2. CASE s # {}
    <3>1. PICK x \in s : TRUE
      BY <2>2
    <3>2. Cardinality(s \ {x}) <= F(s \ {x})
      BY <1>5
    <3>3. F(s \ {x}) \in Nat /\ Cardinality(s) \in Nat /\ f[x] \in Nat /\ f[x] >= 1
      BY <1>1
    <3>4. Cardinality(s) <= F(s)
      BY <1>2, <3>2, <3>3
    <3> QED BY <3>4
  <2> QED BY <2>1, <2>2
<1>6. P = SUBSET R
  <2>1. P \in SUBSET SUBSET R
    OBVIOUS
  <2> HIDE DEF P
  <2> QED BY <1>0, <1>5, <2>1, SubsetInduction
<1>7. Cardinality(R) <= F(R) /\ Cardinality(R) \in Nat
  BY <1>1, <1>6
<1>8. Cardinality(R) \in Nat /\ Cardinality(R) <= F(S)
  BY <1>4, <1>7
<1> QED BY <1>8 DEF F

\* Zeros add up to zero.
LEMMA SumZero ==
    ASSUME NEW f, NEW S, IsFiniteSet(S), \A x \in S : f[x] = 0
    PROVE  SumFunctionOnSet(f, S) = 0
<1> DEFINE F(s) == SumFunctionOnSet(f, s)
           P == {s \in SUBSET S : F(s) = 0}
<1>1. ASSUME NEW s \in SUBSET S, \A x \in s : s \ {x} \in P PROVE s \in P
  <2>1. IsFiniteSet(s)
    BY FS_Subset
  <2>2. CASE s = {}
    BY <2>1, <2>2, SumStep
  <2>3. CASE s # {}
    <3>1. PICK x \in s : F(s) = f[x] + F(s \ {x})
      BY <2>1, <2>3, SumStep
    <3>2. F(s \ {x}) = 0 /\ f[x] = 0
      BY <1>1
    <3> HIDE DEF F
    <3> QED BY <3>1, <3>2
  <2> QED BY <2>2, <2>3
<1>2. P \in SUBSET SUBSET S
  OBVIOUS
<1> HIDE DEF P
<1>3. P = SUBSET S
  BY <1>1, <1>2, SubsetInduction
<1>4. S \in P
  BY <1>3
<1> QED BY <1>4 DEF P

\* A sum with one term that is not zero is that term.
LEMMA SumOne ==
    ASSUME NEW f, NEW S, IsFiniteSet(S), NEW x \in S, f[x] \in Nat,
           \A y \in S \ {x} : f[y] = 0
    PROVE  SumFunctionOnSet(f, S) = f[x]
<1>1. \A y \in S : f[y] \in Nat
  OBVIOUS
<1>2. SumFunctionOnSet(f, S) = f[x] + SumFunctionOnSet(f, S \ {x})
  BY <1>1, SumTakeOut
<1>3. IsFiniteSet(S \ {x})
  BY FS_RemoveElement
<1>4. SumFunctionOnSet(f, S \ {x}) = 0
  BY <1>3, SumZero
<1> QED BY <1>2, <1>4

-----------------------------------------------------------------------------
(* Numbers and bags *)

\* No step changes the configuration, nor what is defined from it.
LEMMA ConfKept ==
    ASSUME conf' = conf
    PROVE  /\ Copies' = Copies /\ Count' = Count /\ Optional' = Optional
           /\ Transfer' = Transfer /\ ForwardState' = ForwardState
           /\ \A m : Uniform(m)' = Uniform(m)
           /\ \A m : Share(m)' = Share(m)
  BY DEF Copies, Count, Optional, Transfer, ForwardState, Uniform, Share

\* A number that may be missing is one up to the copies the bundle began with.
LEMMA OptionalFacts ==
    ASSUME SprayTypeOK, NEW k \in Optional
    PROVE  /\ Number(k) \in Nat /\ Number(k) <= Copies /\ Number(k) \in Count
           /\ k # {} => k = {Number(k)}
<1>1. Copies \in Nat
  BY SprayAssumption DEF SprayTypeOK, Copies
<1>2. CASE k = {}
  BY <1>1, <1>2 DEF Number, Count
<1>3. CASE k # {}
  <2>1. PICK i \in Count : k = {i}
    BY <1>3 DEF Optional
  <2>2. (CHOOSE j \in {i} : TRUE) = i
    OBVIOUS
  <2>3. Number(k) = i
    BY <2>1, <2>2 DEF Number
  <2> QED BY <1>1, <2>1, <2>3 DEF Count
<1> QED BY <1>2, <1>3

\* A number that is there.
LEMMA NumberOf == \A i : Number({i}) = i
<1>1. \A i : (CHOOSE j \in {i} : TRUE) = i
  OBVIOUS
<1> QED BY <1>1 DEF Number

\* A message is taken out of the bag.
LEMMA BagTake ==
    ASSUME NEW b, IsABag(b), NEW m \in DOMAIN b
    PROVE  LET c == b (-) SetToBag({m})
           IN  /\ IsABag(c) /\ DOMAIN c \subseteq DOMAIN b /\ DOMAIN b \subseteq DOMAIN c \cup {m}
               /\ \A x \in DOMAIN c : c[x] = IF x = m THEN b[x] - 1 ELSE b[x]
  BY DEF IsABag, (-), SetToBag

\* A message is put into the bag.
LEMMA BagPut ==
    ASSUME NEW b, IsABag(b), NEW m
    PROVE  LET c == b (+) SetToBag({m})
           IN  /\ IsABag(c) /\ DOMAIN c = DOMAIN b \cup {m}
               /\ \A x \in DOMAIN b \ {m} : c[x] = b[x]
               /\ c[m] = IF m \in DOMAIN b THEN b[m] + 1 ELSE 1
  BY DEF IsABag, (+), SetToBag

\* What the messages in a bag weigh.
Bulk(b, v) == SumFunctionOnSet([m \in DOMAIN b |-> b[m] * v[m]], DOMAIN b)

\* Products of natural numbers, one factor changed by one.
LEMMA Product ==
    ASSUME NEW a \in Nat, NEW c \in Nat
    PROVE  /\ a * c \in Nat /\ (a + 1) * c = a * c + c /\ 1 * c = c
           /\ a > 0 => (a - 1) * c \in Nat /\ a * c = (a - 1) * c + c
  OBVIOUS

\* Messages weigh a natural number together.
LEMMA BulkNat ==
    ASSUME NEW b, IsABag(b), IsFiniteSet(DOMAIN b), NEW v, \A x \in DOMAIN b : v[x] \in Nat
    PROVE  Bulk(b, v) \in Nat
<1> DEFINE g == [x \in DOMAIN b |-> b[x] * v[x]]
<1>1. \A x \in DOMAIN b : g[x] \in Nat
  <2>1. ASSUME NEW x \in DOMAIN b PROVE b[x] * v[x] \in Nat
    <3>1. b[x] \in Nat /\ v[x] \in Nat
      BY DEF IsABag
    <3> QED BY <3>1, Product
  <2> QED BY <2>1
<1> HIDE DEF g
<1>2. SumFunctionOnSet(g, DOMAIN b) \in Nat
  BY <1>1, SumNat
<1> QED BY <1>2 DEF Bulk, g

\* A message less.
LEMMA BulkTake ==
    ASSUME NEW b, IsABag(b), IsFiniteSet(DOMAIN b), NEW m \in DOMAIN b,
           NEW v, \A x \in DOMAIN b : v[x] \in Nat
    PROVE  LET c == b (-) SetToBag({m})
           IN  /\ IsABag(c) /\ IsFiniteSet(DOMAIN c) /\ DOMAIN c \subseteq DOMAIN b
               /\ Bulk(c, v) \in Nat /\ Bulk(b, v) \in Nat
               /\ Bulk(c, v) + v[m] <= Bulk(b, v)
<1> DEFINE c == b (-) SetToBag({m})
           D == DOMAIN b
           f == [x \in D |-> b[x] * v[x]]
           g == [x \in D |-> IF x = m THEN (b[x] - 1) * v[x] ELSE b[x] * v[x]]
           h == [x \in DOMAIN c |-> c[x] * v[x]]
<1>1. /\ IsABag(c) /\ DOMAIN c \subseteq D
      /\ \A x \in DOMAIN c : c[x] = IF x = m THEN b[x] - 1 ELSE b[x]
  BY BagTake
<1>2. IsFiniteSet(DOMAIN c)
  BY <1>1, FS_Subset
<1>3. \A x \in D : b[x] \in Nat /\ b[x] > 0
  BY DEF IsABag
<1> HIDE DEF c
<1>4. \A x \in D : f[x] \in Nat /\ g[x] \in Nat
  BY <1>3, Product
<1>5. f[m] = g[m] + v[m] /\ v[m] \in Nat
  BY <1>3, Product
<1>6. \A x \in D \ {m} : g[x] <= f[x]
  <2>1. \A x \in D \ {m} : g[x] = f[x]
    OBVIOUS
  <2> HIDE DEF f, g
  <2> QED BY <1>4, <2>1
<1>7. \A x \in DOMAIN c : h[x] \in Nat /\ h[x] <= g[x]
  <2>1. \A x \in DOMAIN c : h[x] = g[x]
    BY <1>1
  <2> HIDE DEF g, h
  <2> QED BY <1>1, <1>4, <2>1
<1> HIDE DEF f, g, h, D
<1>8. SumFunctionOnSet(g, D) \in Nat /\ SumFunctionOnSet(f, D) \in Nat
      /\ SumFunctionOnSet(g, D) + f[m] <= SumFunctionOnSet(f, D) + g[m]
  BY <1>4, <1>6, SumChange DEF D
<1>9. SumFunctionOnSet(h, DOMAIN c) \in Nat
      /\ SumFunctionOnSet(h, DOMAIN c) <= SumFunctionOnSet(g, D)
  <2>1. DOMAIN c \in SUBSET D /\ IsFiniteSet(D)
    BY <1>1 DEF D
  <2> QED BY <1>4, <1>7, <2>1, SumGrows
<1>10. g[m] \in Nat
  BY <1>4 DEF D
<1>11. SumFunctionOnSet(h, DOMAIN c) + v[m] <= SumFunctionOnSet(f, D)
  BY <1>5, <1>8, <1>9, <1>10
<1>12. Bulk(c, v) = SumFunctionOnSet(h, DOMAIN c) /\ Bulk(b, v) = SumFunctionOnSet(f, D)
  BY DEF Bulk, f, h, D
<1> QED BY <1>1, <1>2, <1>8, <1>9, <1>11, <1>12 DEF c, D

\* A message more.
LEMMA BulkPut ==
    ASSUME NEW b, IsABag(b), IsFiniteSet(DOMAIN b), NEW m,
           NEW v, \A x \in DOMAIN b : v[x] \in Nat, v[m] \in Nat
    PROVE  LET c == b (+) SetToBag({m})
           IN  /\ IsABag(c) /\ IsFiniteSet(DOMAIN c) /\ DOMAIN c = DOMAIN b \cup {m}
               /\ Bulk(c, v) \in Nat /\ Bulk(b, v) \in Nat
               /\ Bulk(c, v) <= Bulk(b, v) + v[m]
<1> DEFINE c == b (+) SetToBag({m})
           D == DOMAIN b
           E == D \cup {m}
           f == [x \in D |-> b[x] * v[x]]
           h == [x \in E |-> c[x] * v[x]]
<1>1. /\ IsABag(c) /\ DOMAIN c = E
      /\ \A x \in D \ {m} : c[x] = b[x]
      /\ c[m] = IF m \in D THEN b[m] + 1 ELSE 1
  BY BagPut
<1>2. IsFiniteSet(D) /\ IsFiniteSet(E) /\ IsFiniteSet(D \ {m}) /\ E \ {m} = D \ {m}
  BY FS_AddElement, FS_RemoveElement
<1>3. \A x \in D : b[x] \in Nat
  BY DEF IsABag
<1>4. \A x \in E : c[x] \in Nat /\ v[x] \in Nat
  BY <1>1 DEF IsABag
<1> HIDE DEF c
<1>5. \A x \in D : f[x] \in Nat
  BY <1>3, Product
<1>6. \A x \in E : h[x] \in Nat
  BY <1>4, Product
<1>7. \A x \in D \ {m} : h[x] = f[x]
  BY <1>1
<1>8. m \in D => h[m] = f[m] + v[m]
  BY <1>1, <1>3, Product
<1>9. m \notin D => h[m] = v[m]
  BY <1>1, Product
<1>10. Bulk(c, v) = SumFunctionOnSet(h, E) /\ Bulk(b, v) = SumFunctionOnSet(f, D)
  BY <1>1 DEF Bulk
<1> HIDE DEF f, h
<1> DEFINE H(s) == SumFunctionOnSet(h, s)
           F(s) == SumFunctionOnSet(f, s)
<1>11. H(E) = h[m] + H(D \ {m})
  BY <1>2, <1>6, SumTakeOut
<1>12. H(D \ {m}) \in Nat /\ F(D \ {m}) \in Nat /\ H(D \ {m}) <= F(D \ {m})
  <2>1. \A x \in D \ {m} : f[x] \in Nat
    BY <1>5
  <2>2. \A x \in D \ {m} : h[x] \in Nat /\ h[x] <= f[x]
    BY <1>6, <1>7, <2>1
  <2> QED BY <1>2, <2>1, <2>2, SumGrows
<1>13. F(D) \in Nat
  BY <1>2, <1>5, SumNat
<1>14. H(E) \in Nat /\ H(E) <= F(D) + v[m]
  <2>1. CASE m \in D
    <3>1. F(D) = f[m] + F(D \ {m})
      BY <1>2, <1>5, <2>1, SumTakeOut
    <3>2. f[m] \in Nat /\ h[m] = f[m] + v[m]
      BY <1>5, <1>8, <2>1
    <3> HIDE DEF F, H
    <3> QED BY <1>11, <1>12, <3>1, <3>2
  <2>2. CASE m \notin D
    <3>1. D \ {m} = D
      BY <2>2
    <3>2. H(D) \in Nat /\ F(D) \in Nat /\ H(D) <= F(D) /\ H(E) = v[m] + H(D)
      BY <1>9, <1>11, <1>12, <2>2, <3>1
    <3> HIDE DEF F, H
    <3> QED BY <3>2
  <2> QED BY <2>1, <2>2
<1>15. Bulk(c, v) \in Nat /\ Bulk(b, v) \in Nat /\ Bulk(c, v) <= Bulk(b, v) + v[m]
  BY <1>10, <1>13, <1>14
<1> QED BY <1>1, <1>2, <1>15 DEF c

\* Some messages are gone.
LEMMA BulkKeep ==
    ASSUME NEW b, IsABag(b), IsFiniteSet(DOMAIN b), NEW D \in SUBSET DOMAIN b,
           NEW v, \A x \in DOMAIN b : v[x] \in Nat
    PROVE  LET c == [m \in D |-> b[m]]
           IN  /\ IsABag(c) /\ IsFiniteSet(DOMAIN c) /\ DOMAIN c = D
               /\ Bulk(c, v) \in Nat /\ Bulk(b, v) \in Nat
               /\ Bulk(c, v) <= Bulk(b, v)
<1> DEFINE c == [m \in D |-> b[m]]
           f == [x \in DOMAIN b |-> b[x] * v[x]]
           h == [x \in D |-> c[x] * v[x]]
<1>1. IsABag(c) /\ DOMAIN c = D /\ IsFiniteSet(D)
  BY FS_Subset DEF IsABag
<1>2. \A x \in DOMAIN b : f[x] \in Nat
  BY Product DEF IsABag
<1>3. \A x \in D : h[x] = f[x]
  OBVIOUS
<1>4. Bulk(c, v) = SumFunctionOnSet(h, D) /\ Bulk(b, v) = SumFunctionOnSet(f, DOMAIN b)
  BY DEF Bulk
<1> HIDE DEF f, h
<1>5. \A x \in D : h[x] \in Nat /\ h[x] <= f[x]
  BY <1>2, <1>3
<1>6. SumFunctionOnSet(h, D) \in Nat /\ SumFunctionOnSet(f, DOMAIN b) \in Nat
      /\ SumFunctionOnSet(h, D) <= SumFunctionOnSet(f, DOMAIN b)
  BY <1>2, <1>5, SumGrows
<1> QED BY <1>1, <1>4, <1>6

-----------------------------------------------------------------------------
(* Weights *)

\* There are finitely many forwardings.
LEMMA ForwardsFinite == IsFiniteSet(Forwards)
<1> DEFINE G == {{n} \X (1 .. MaxForwards[n]) : n \in Nodes}
           h == [n \in Nodes |-> {n} \X (1 .. MaxForwards[n])]
<1>1. IsFiniteSet(G)
  <2>1. h \in Surjection(Nodes, G)
    BY DEF Surjection
  <2> QED BY <2>1, SprayAssumption, FS_Surjection
<1>2. ASSUME NEW n \in Nodes PROVE IsFiniteSet({n} \X (1 .. MaxForwards[n]))
  <2>1. IsFiniteSet({n})
    BY FS_Singleton
  <2>2. IsFiniteSet(1 .. MaxForwards[n])
    <3>1. MaxForwards[n] \in Int
      BY SprayAssumption
    <3> QED BY <3>1, FS_Interval
  <2> QED BY <2>1, <2>2, FS_Product
<1>3. \A T \in G : IsFiniteSet(T)
  BY <1>2
<1> HIDE DEF G
<1>4. IsFiniteSet(UNION G)
  BY <1>1, <1>3, FS_UNION
<1> QED BY <1>4 DEF Forwards, G

\* A forwarding belongs to a node.
LEMMA ForwardNode == \A f \in Forwards : f[1] \in Nodes
  BY DEF Forwards

\* Whoever there is has a forwarding.
LEMMA ForwardOf == \E f \in Forwards : TRUE
<1>1. <<Origin, 1>> \in {Origin} \X (1 .. MaxForwards[Origin])
  BY SprayAssumption
<1> QED BY <1>1, SprayAssumption DEF Forwards

\* The weights as functions.
NW(w) == [n \in Nodes |-> NodeWeight(w, n)]
FW(w) == [f \in Forwards |-> ForwardWeight(w, f)]
MW(w) == [m \in Transfer |-> MessageWeight(w, m)]

\* The bundle begins with at least one copy.
LEMMA CopiesNat == SprayTypeOK => Copies \in Nat /\ Copies > 0
  BY SprayAssumption DEF SprayTypeOK, Copies

\* The peers of a forwarding can be counted.
LEMMA PeersFinite ==
    ASSUME SprayTypeOK, NEW f \in Forwards
    PROVE  /\ IsFiniteSet(fw[f].peers) /\ Cardinality(fw[f].peers) \in Nat
           /\ fw[f].peers \subseteq Nodes /\ fw[f].block \in Optional
           /\ Number(fw[f].block) \in Nat /\ fw[f].seen \in Count
<1>1. fw[f].peers \in SUBSET Nodes /\ fw[f].block \in Optional /\ fw[f].seen \in Count
  BY DEF SprayTypeOK, ForwardState
<1>2. IsFiniteSet(fw[f].peers)
  BY <1>1, SprayAssumption, FS_Subset
<1> QED BY <1>1, <1>2, FS_CardinalityType, OptionalFacts

\* A node weighs a natural number, ...
LEMMA NodeWeightNat ==
    ASSUME SprayTypeOK, NEW w \in Weights
    PROVE  \A n \in Nodes : NodeWeight(w, n) \in Nat /\ NW(w)[n] = NodeWeight(w, n)
<1>1. ASSUME NEW n \in Nodes PROVE NodeWeight(w, n) \in Nat
  <2>1. Number(copies[n]) \in Nat
    BY OptionalFacts DEF SprayTypeOK
  <2> QED BY <2>1 DEF NodeWeight
<1> QED BY <1>1 DEF NW

\* ... so does a forwarding, ...
LEMMA ForwardWeightNat ==
    ASSUME SprayTypeOK, NEW w \in Weights
    PROVE  \A f \in Forwards : ForwardWeight(w, f) \in Nat /\ FW(w)[f] = ForwardWeight(w, f)
<1>1. ASSUME NEW f \in Forwards PROVE ForwardWeight(w, f) \in Nat
  BY PeersFinite, Product DEF ForwardWeight
<1> QED BY <1>1 DEF FW

\* What a message says its share is.
LEMMA ShareFacts ==
    ASSUME SprayTypeOK, NEW m \in Transfer
    PROVE  /\ Share(m) \in Optional /\ Share(m) # {} /\ Number(Share(m)) \in Nat
           /\ m.from # m.to => Number(Share(m)) = Number(m.block)
           /\ m.from = m.to => Number(Share(m)) = Copies
           /\ m.to \in Nodes /\ m.from \in Nodes /\ m.block \in Optional
<1>1. m.to \in Nodes /\ m.from \in Nodes /\ m.block \in Optional
  BY DEF Transfer
<1>2. {Copies} \in Optional /\ {0} \in Optional
  BY CopiesNat DEF Optional, Count
<1>3. Number({Copies}) = Copies /\ Number({0}) = 0 /\ Number({}) = 0
  BY NumberOf DEF Number
<1>4. Share(m) \in Optional /\ Share(m) # {}
  BY <1>1, <1>2 DEF Share
<1> QED BY <1>1, <1>3, <1>4, OptionalFacts DEF Share

\* ... and so does a message: a binary node never sends a share of 0.
LEMMA MessageWeightNat ==
    ASSUME SprayTypeOK, BinaryInv, NEW w \in Weights, Applies(w)
    PROVE  \A m \in DOMAIN net : MessageWeight(w, m) \in Nat
<1> SUFFICES ASSUME NEW m \in DOMAIN net PROVE MessageWeight(w, m) \in Nat
  OBVIOUS
<1>1. m \in Transfer
  BY DEF SprayTypeOK, BagToSet
<1>2. Number(Share(m)) \in Nat /\ Copies \in Nat /\ Copies > 0
  BY <1>1, ShareFacts, CopiesNat
<1>3. w = "binary" => Number(Share(m)) > 0
  BY <1>1, <1>2, ShareFacts DEF BinaryInv, Applies
<1> QED BY <1>2, <1>3 DEF MessageWeight

\* The weight is the sum of three sums.
LEMMA WeightSums ==
    ASSUME SprayTypeOK, NEW w \in Weights
    PROVE  Weight(w) = SumFunctionOnSet(NW(w), Nodes) + SumFunctionOnSet(FW(w), Forwards)
                       + Bulk(net, MW(w))
<1>1. DOMAIN net \subseteq Transfer
  BY DEF SprayTypeOK, BagToSet
<1> DEFINE a == [m \in DOMAIN net |-> net[m] * [k \in DOMAIN net |-> MessageWeight(w, k)][m]]
           b == [m \in DOMAIN net |-> net[m] * MW(w)[m]]
<1>2. a = b
  <2>1. \A m \in DOMAIN net : [k \in DOMAIN net |-> MessageWeight(w, k)][m] = MW(w)[m]
    BY <1>1 DEF MW
  <2> QED BY <2>1
<1>3. DOMAIN a = DOMAIN net /\ DOMAIN NW(w) = Nodes /\ DOMAIN FW(w) = Forwards
  BY DEF NW, FW
<1>4. Bulk(net, MW(w)) = SumFunctionOnSet(b, DOMAIN net)
  BY DEF Bulk
<1>5. Weight(w) = SumFunction(NW(w)) + SumFunction(FW(w)) + SumFunction(a)
  BY DEF Weight, Total, NW, FW
<1> HIDE DEF a, b
<1> QED BY <1>2, <1>3, <1>4, <1>5 DEF SumFunction

\* All of this in one formula.
WeightFacts ==
    \A w \in Weights :
        /\ Weight(w) = SumFunctionOnSet(NW(w), Nodes) + SumFunctionOnSet(FW(w), Forwards)
                       + Bulk(net, MW(w))
        /\ \A n \in Nodes : NodeWeight(w, n) \in Nat /\ NW(w)[n] = NodeWeight(w, n)
        /\ \A f \in Forwards : ForwardWeight(w, f) \in Nat /\ FW(w)[f] = ForwardWeight(w, f)
        /\ Applies(w) => \A m \in DOMAIN net : MessageWeight(w, m) \in Nat
        /\ DOMAIN net \subseteq Transfer

\* WeightFacts holds wherever the types and BinaryInv do.
LEMMA WeightFactsHold == SprayTypeOK /\ BinaryInv => WeightFacts
<1>1. SprayTypeOK => DOMAIN net \subseteq Transfer
  BY DEF SprayTypeOK, BagToSet
<1> QED BY <1>1, NodeWeightNat, ForwardWeightNat, MessageWeightNat, WeightSums DEF WeightFacts

\* A weight is a number.
WeightIsNat == \A w \in Weights : Applies(w) => Weight(w) \in Nat

\* The weight is a natural number wherever the types and BinaryInv hold.
LEMMA WeightNat ==
    SprayTypeOK /\ BinaryInv => WeightIsNat
<1> SUFFICES ASSUME SprayTypeOK, BinaryInv, NEW w \in Weights, Applies(w)
             PROVE  Weight(w) \in Nat
  BY DEF WeightIsNat
<1>1. SumFunctionOnSet(NW(w), Nodes) \in Nat
  BY NodeWeightNat, SprayAssumption, SumNat
<1>2. SumFunctionOnSet(FW(w), Forwards) \in Nat
  BY ForwardWeightNat, ForwardsFinite, SumNat
<1>3. Bulk(net, MW(w)) \in Nat
  <2>1. \A m \in DOMAIN net : MW(w)[m] \in Nat
    BY MessageWeightNat DEF MW, SprayTypeOK, BagToSet
  <2> QED BY <2>1, BulkNat DEF SprayTypeOK, BagToSet
<1>4. Weight(w) = SumFunctionOnSet(NW(w), Nodes) + SumFunctionOnSet(FW(w), Forwards)
                  + Bulk(net, MW(w))
  BY WeightSums
<1> QED BY <1>1, <1>2, <1>3, <1>4

\* A step that changes the weight of one node, of one forwarding and of the
\* messages does not add to the whole if these together do not grow.
LEMMA WeightStep ==
    ASSUME SprayTypeOK, SprayTypeOK', BinaryInv, BinaryInv', conf' = conf,
           NEW w \in Weights, Applies(w), Applies(w)',
           NEW n \in Nodes, NEW f \in Forwards, NEW x \in Nat, NEW y \in Nat,
           \A k \in Nodes \ {n} : NodeWeight(w, k)' <= NodeWeight(w, k),
           \A g \in Forwards \ {f} : ForwardWeight(w, g)' <= ForwardWeight(w, g),
           Bulk(net', MW(w)) + x <= Bulk(net, MW(w)) + y,
           NodeWeight(w, n)' + ForwardWeight(w, f)' + y <= NodeWeight(w, n) + ForwardWeight(w, f) + x
    PROVE  Weight(w)' <= Weight(w)
<1>0. WeightFacts /\ WeightFacts'
  BY WeightFactsHold, PTL
<1>1. MW(w)' = MW(w)
  <2>1. Transfer' = Transfer /\ \A m : MessageWeight(w, m)' = MessageWeight(w, m)
    BY ConfKept DEF MessageWeight
  <2> QED BY <2>1 DEF MW
<1>2. Weight(w) = SumFunctionOnSet(NW(w), Nodes) + SumFunctionOnSet(FW(w), Forwards)
                  + Bulk(net, MW(w))
  BY WeightSums
<1>3. Weight(w)' = SumFunctionOnSet(NW(w)', Nodes) + SumFunctionOnSet(FW(w)', Forwards)
                   + Bulk(net', MW(w))
  <2>1. (Weight(w) = SumFunctionOnSet(NW(w), Nodes) + SumFunctionOnSet(FW(w), Forwards)
                     + Bulk(net, MW(w)))'
    BY <1>0 DEF WeightFacts
  <2>2. Bulk(net, MW(w))' = Bulk(net', MW(w))
    BY <1>1 DEF Bulk
  <2> QED BY <2>1, <2>2
<1>4. /\ \A k \in Nodes : NW(w)[k] \in Nat /\ NW(w)[k] = NodeWeight(w, k)
      /\ \A g \in Forwards : FW(w)[g] \in Nat /\ FW(w)[g] = ForwardWeight(w, g)
  BY NodeWeightNat, ForwardWeightNat
<1>5. /\ \A k \in Nodes : NW(w)'[k] \in Nat /\ NW(w)'[k] = NodeWeight(w, k)'
      /\ \A g \in Forwards : FW(w)'[g] \in Nat /\ FW(w)'[g] = ForwardWeight(w, g)'
  <2>1. (\A k \in Nodes : NodeWeight(w, k) \in Nat /\ NW(w)[k] = NodeWeight(w, k))'
    BY <1>0 DEF WeightFacts
  <2>2. (\A g \in Forwards : ForwardWeight(w, g) \in Nat /\ FW(w)[g] = ForwardWeight(w, g))'
    BY <1>0 DEF WeightFacts
  <2> QED BY <2>1, <2>2
<1>6. Bulk(net, MW(w)) \in Nat /\ Bulk(net', MW(w)) \in Nat
  <2>1. \A m \in DOMAIN net : MessageWeight(w, m) \in Nat /\ m \in Transfer
    BY MessageWeightNat DEF SprayTypeOK, BagToSet
  <2>2. (\A m \in DOMAIN net : MessageWeight(w, m) \in Nat /\ m \in Transfer)'
    <3>1. (\A m \in DOMAIN net : MessageWeight(w, m) \in Nat)'
      BY <1>0 DEF WeightFacts
    <3> QED BY <3>1 DEF SprayTypeOK, BagToSet
  <2>3. \A m \in DOMAIN net : MW(w)[m] \in Nat
    BY <2>1 DEF MW
  <2>4. \A m \in DOMAIN net' : MW(w)[m] \in Nat
    <3>1. \A m \in DOMAIN net' : MW(w)'[m] \in Nat
      BY <2>2 DEF MW
    <3> QED BY <1>1, <3>1
  <2>5. /\ IsABag(net) /\ IsABag(net')
        /\ IsFiniteSet(DOMAIN net) /\ IsFiniteSet(DOMAIN net')
    BY DEF SprayTypeOK, BagToSet
  <2> QED BY <2>3, <2>4, <2>5, BulkNat
<1> DEFINE c == NW(w)
           d == NW(w)'
           s == FW(w)
           t == FW(w)'
<1>7. /\ SumFunctionOnSet(d, Nodes) \in Nat /\ SumFunctionOnSet(c, Nodes) \in Nat
      /\ SumFunctionOnSet(d, Nodes) + c[n] <= SumFunctionOnSet(c, Nodes) + d[n]
  <2>1. \A k \in Nodes \ {n} : d[k] <= c[k]
    BY <1>4, <1>5
  <2>2. \A k \in Nodes : d[k] \in Nat /\ c[k] \in Nat
    BY <1>4, <1>5
  <2> HIDE DEF c, d
  <2> QED BY <2>1, <2>2, SprayAssumption, SumChange
<1>8. /\ SumFunctionOnSet(t, Forwards) \in Nat /\ SumFunctionOnSet(s, Forwards) \in Nat
      /\ SumFunctionOnSet(t, Forwards) + s[f] <= SumFunctionOnSet(s, Forwards) + t[f]
  <2>1. \A g \in Forwards \ {f} : t[g] <= s[g]
    BY <1>4, <1>5
  <2>2. \A g \in Forwards : t[g] \in Nat /\ s[g] \in Nat
    BY <1>4, <1>5
  <2> HIDE DEF s, t
  <2> QED BY <2>1, <2>2, ForwardsFinite, SumChange
<1>9. d[n] + t[f] + y <= c[n] + s[f] + x
      /\ c[n] \in Nat /\ d[n] \in Nat /\ s[f] \in Nat /\ t[f] \in Nat
  BY <1>4, <1>5
<1>10. Weight(w) = SumFunctionOnSet(c, Nodes) + SumFunctionOnSet(s, Forwards) + Bulk(net, MW(w))
       /\ Weight(w)' = SumFunctionOnSet(d, Nodes) + SumFunctionOnSet(t, Forwards)
                       + Bulk(net', MW(w))
  BY <1>2, <1>3
<1> HIDE DEF c, d, s, t
<1> QED BY <1>6, <1>7, <1>8, <1>9, <1>10

\* A product grows with its factor.
LEMMA ProductGrows ==
    ASSUME NEW a \in Nat, NEW b \in Nat, NEW c \in Nat, b <= c
    PROVE  a * b \in Nat /\ a * c \in Nat /\ a * b <= a * c
<1>1. PICK d \in Nat : c = b + d
  <2>1. c - b \in Nat /\ c = b + (c - b)
    OBVIOUS
  <2> QED BY <2>1
<1>2. a * b \in Nat /\ a * d \in Nat /\ a * c \in Nat
  BY Product
<1>3. a * c = a * b + a * d
  BY <1>1
<1> QED BY <1>2, <1>3

\* What is under way weighs a number.
LEMMA BulkIsNat ==
    ASSUME SprayTypeOK, BinaryInv, NEW w \in Weights, Applies(w)
    PROVE  /\ Bulk(net, MW(w)) \in Nat /\ IsABag(net) /\ IsFiniteSet(DOMAIN net)
           /\ \A m \in DOMAIN net : /\ MW(w)[m] \in Nat /\ MW(w)[m] = MessageWeight(w, m)
                                    /\ m \in Transfer
<1>1. IsABag(net) /\ IsFiniteSet(DOMAIN net) /\ DOMAIN net \subseteq Transfer
  BY DEF SprayTypeOK, BagToSet
<1>2. \A m \in DOMAIN net : MW(w)[m] \in Nat /\ MW(w)[m] = MessageWeight(w, m)
  BY <1>1, MessageWeightNat DEF MW
<1> QED BY <1>1, <1>2, BulkNat

\* A step after which no weight has grown.
LEMMA WeightKept ==
    ASSUME SprayInv, SprayTypeOK', BinaryInv', conf' = conf,
           anomalies \subseteq anomalies',
           \A w \in Weights : Applies(w) /\ Applies(w)' => Weight(w)' <= Weight(w)
    PROVE  WeightInv'
<1> SUFFICES ASSUME NEW w \in Weights, Applies(w)' PROVE (Weight(w) <= Copies)'
  BY DEF WeightInv
<1>1. Applies(w)
  BY ConfKept DEF Applies
<1>2. Weight(w) <= Copies /\ Weight(w)' <= Weight(w)
  BY <1>1 DEF SprayInv, WeightInv
<1>3. Copies' = Copies /\ Copies \in Nat
  BY ConfKept, CopiesNat DEF SprayInv
<1>4. Weight(w) \in Nat
  BY <1>1, WeightNat DEF SprayInv, WeightIsNat
<1>5. Weight(w)' \in Nat
  <2>1. WeightIsNat'
    BY WeightNat, PTL
  <2> QED BY <2>1 DEF WeightIsNat
<1> QED BY <1>2, <1>3, <1>4, <1>5

\* A step of a forwarding that takes no copies and touches no counter.
LEMMA ForwardStep ==
    ASSUME SprayInv, NEW f \in Forwards, NEW s \in ForwardState, fw' = [fw EXCEPT ![f] = s],
           UNCHANGED <<conf, stored, block, copies, net, anomalies>>,
           pending' \subseteq stored, marked' \subseteq stored,
           holders' \in [Nodes -> SUBSET Nodes], \A n \in Nodes : holders[n] \subseteq holders'[n],
           s.pc # "none" => f[1] \in stored, s.pc # "select",
           s.pc \in {"load", "send"} =>
               fw[f].pc \in {"load", "send"} /\ s.block = fw[f].block /\ s.peers \subseteq fw[f].peers,
           s.pc = "load" => fw[f].pc = "load",
           s.block \in {fw[f].block, {}}
    PROVE  SprayInv'
<1>0. /\ conf' = conf /\ stored' = stored /\ block' = block /\ copies' = copies /\ net' = net
      /\ anomalies' = anomalies
  OBVIOUS
<1>1. fw \in [Forwards -> ForwardState] /\ fw'[f] = s /\ \A g \in Forwards \ {f} : fw'[g] = fw[g]
  BY DEF SprayInv, SprayTypeOK
<1>2. SprayTypeOK'
  <2>1. fw' \in [Forwards -> ForwardState]
    BY <1>1
  <2> QED BY <1>0, <2>1, ConfKept DEF SprayInv, SprayTypeOK
<1>3. PlaceInv'
  <2>1. \A g \in Forwards : fw'[g].pc # "none" => g[1] \in stored
    BY <1>1 DEF SprayInv, PlaceInv
  <2>2. \A g \in Forwards : fw'[g].pc \in {"load", "send"} => g[1] \notin fw'[g].peers
    BY <1>1 DEF SprayInv, PlaceInv
  <2>3. stored \subseteq Nodes /\ \A n \in stored : n \in holders'[n]
    BY DEF SprayInv, PlaceInv, SprayTypeOK
  <2> QED BY <1>0, <2>1, <2>2, <2>3 DEF SprayInv, PlaceInv
<1>4. BinaryInv'
  <2>1. ASSUME Uniform("binary"), NEW g \in Forwards
        PROVE  /\ fw'[g].pc # "load" /\ (fw'[g].pc = "select" => fw'[g].seen > 1)
               /\ fw'[g].pc = "send" => Number(fw'[g].block) > 0
    BY <1>1, <2>1 DEF SprayInv, BinaryInv
  <2>2. Uniform("binary")' = Uniform("binary")
    BY <1>0, ConfKept
  <2> QED BY <1>0, <2>1, <2>2 DEF SprayInv, BinaryInv
<1>5. BasicInv'
  <2>1. ASSUME Uniform("basic"), NEW g \in Forwards PROVE fw'[g].block = {}
    BY <1>1, <2>1 DEF SprayInv, BasicInv
  <2>2. ASSUME Uniform("basic"), anomalies = {}, NEW g \in Forwards, g[1] # Origin
        PROVE  fw'[g].pc \in {"none", "start", "read", "reset"}
    <3>1. fw[g].pc \in {"none", "start", "read", "reset"}
      BY <2>2 DEF SprayInv, BasicInv
    <3>2. s.pc \in {"none", "start", "read", "select", "load", "send", "reset"}
      BY DEF ForwardState
    <3> QED BY <1>1, <3>1, <3>2
  <2>3. Uniform("basic")' = Uniform("basic")
    BY <1>0, ConfKept
  <2> QED BY <1>0, <2>1, <2>2, <2>3 DEF SprayInv, BasicInv
<1>6. ASSUME NEW w \in Weights, Applies(w), Applies(w)' PROVE Weight(w)' <= Weight(w)
  <2>1. \A n \in Nodes : NodeWeight(w, n)' = NodeWeight(w, n) /\ NodeWeight(w, n) \in Nat
    BY <1>0, NodeWeightNat DEF NodeWeight, SprayInv
  <2>2. \A g \in Forwards \ {f} : ForwardWeight(w, g)' = ForwardWeight(w, g)
    BY <1>1 DEF ForwardWeight
  <2>3. \A g \in Forwards : ForwardWeight(w, g) \in Nat
    BY ForwardWeightNat DEF SprayInv
  <2>4. ForwardWeight(w, f)' <= ForwardWeight(w, f) /\ ForwardWeight(w, f)' \in Nat
    <3>1. CASE s.pc \notin {"load", "send"}
      <4>1. ForwardWeight(w, f)' = 0
        BY <1>1, <3>1 DEF ForwardWeight
      <4> QED BY <2>3, <4>1
    <3>2. CASE s.pc \in {"load", "send"}
      <4>1. /\ fw[f].pc \in {"load", "send"} /\ s.block = fw[f].block
            /\ s.peers \subseteq fw[f].peers
        BY <3>2
      <4>2. /\ IsFiniteSet(fw[f].peers) /\ Number(s.block) \in Nat
            /\ Cardinality(fw[f].peers) \in Nat
        BY <4>1, PeersFinite DEF SprayInv
      <4>3. Cardinality(s.peers) \in Nat /\ Cardinality(s.peers) <= Cardinality(fw[f].peers)
        BY <4>1, <4>2, FS_Subset, FS_CardinalityType
      <4>4. /\ ForwardWeight(w, f) = IF w = "basic" THEN Cardinality(fw[f].peers)
                                     ELSE Number(s.block) * Cardinality(fw[f].peers)
            /\ ForwardWeight(w, f)' = IF w = "basic" THEN Cardinality(s.peers)
                                      ELSE Number(s.block) * Cardinality(s.peers)
        BY <1>1, <3>2, <4>1 DEF ForwardWeight
      <4> QED BY <4>2, <4>3, <4>4, ProductGrows
    <3> QED BY <3>1, <3>2
  <2>5. /\ \A n \in Nodes \ {Origin} : NodeWeight(w, n)' <= NodeWeight(w, n)
        /\ \A g \in Forwards \ {f} : ForwardWeight(w, g)' <= ForwardWeight(w, g)
    BY <2>1, <2>2, <2>3
  <2>6. Bulk(net', MW(w)) + 0 <= Bulk(net, MW(w)) + 0
    BY <1>0, <1>6, BulkIsNat DEF SprayInv
  <2>7. Origin \in Nodes
    BY SprayAssumption
  <2>8. NodeWeight(w, Origin)' + ForwardWeight(w, f)' + 0
            <= NodeWeight(w, Origin) + ForwardWeight(w, f) + 0
    BY <2>1, <2>3, <2>4, <2>7
  <2> QED BY <1>0, <1>2, <1>4, <1>6, <2>5, <2>6, <2>7, <2>8, WeightStep DEF SprayInv
<1>7. WeightInv'
  BY <1>0, <1>2, <1>4, <1>6, WeightKept
<1> QED BY <1>2, <1>3, <1>4, <1>5, <1>7 DEF SprayInv

-----------------------------------------------------------------------------
(* Steps of forwardingAsync *)

\* The resting state of a forwarding.
LEMMA NoForwardState ==
    ASSUME SprayTypeOK
    PROVE  /\ NoForward \in ForwardState
           /\ NoForward.pc = "none" /\ NoForward.block = {}
<1>1. 0 \in Count /\ {} \in Optional
  BY CopiesNat DEF Count, Optional
<1> QED BY <1>1 DEF NoForward, ForwardAt, ForwardState

\* A forwarding's state and its node.
LEMMA ForwardFacts ==
    ASSUME SprayInv, NEW f \in Forwards
    PROVE  /\ fw[f] \in ForwardState /\ f[1] \in Nodes
           /\ fw[f].pc # "none" => f[1] \in stored
           /\ stored \subseteq Nodes /\ pending \subseteq stored /\ marked \subseteq stored
           /\ holders \in [Nodes -> SUBSET Nodes]
  BY ForwardNode DEF SprayInv, SprayTypeOK, PlaceInv

\* The steps of forwardingAsync that leave the counters and the network alone.
LEMMA QuietSteps ==
    ASSUME SprayInv, NEW f \in Forwards,
           \/ FwMark(f) \/ FwNoPeers(f) \/ FwLoad(f) \/ FwLoadFails(f) \/ FwReset(f) \/ FwDone(f)
           \/ \E p \in Nodes : FwSendFails(f, p) \/ FwAddKnownHolder(f, p)
    PROVE  SprayInv'
<1>0. /\ fw[f] \in ForwardState /\ f[1] \in Nodes /\ (fw[f].pc # "none" => f[1] \in stored)
      /\ stored \subseteq Nodes /\ pending \subseteq stored /\ marked \subseteq stored
      /\ holders \in [Nodes -> SUBSET Nodes]
  BY ForwardFacts
<1>1. CASE FwMark(f)
  <2> DEFINE s == [fw[f] EXCEPT !.pc = "read"]
  <2>1. s \in ForwardState /\ s.pc = "read" /\ s.block = fw[f].block
    BY <1>0 DEF ForwardState
  <2>2. /\ fw[f].pc = "start" /\ fw' = [fw EXCEPT ![f] = s]
        /\ UNCHANGED <<conf, stored, block, copies, net, anomalies>> /\ holders' = holders
        /\ marked' = marked \cup {f[1]} /\ pending' = pending \ {f[1]}
    BY <1>1 DEF FwMark, Goto
  <2>3. marked' \subseteq stored /\ pending' \subseteq stored
    BY <1>0, <2>2
  <2> HIDE DEF s
  <2> QED BY <1>0, <2>1, <2>2, <2>3, ForwardStep
<1>2. CASE FwNoPeers(f)
  <2> DEFINE s == [NoForward EXCEPT !.pc = "reset"]
  <2>1. s \in ForwardState /\ s.pc = "reset" /\ s.block = {}
    BY NoForwardState DEF ForwardState, SprayInv
  <2>2. /\ fw[f].pc = "select" /\ fw' = [fw EXCEPT ![f] = s]
        /\ UNCHANGED <<conf, stored, block, copies, net, anomalies>> /\ holders' = holders
        /\ marked' = marked /\ pending' = pending
    BY <1>2 DEF FwNoPeers, Goto
  <2> HIDE DEF s
  <2> QED BY <1>0, <2>1, <2>2, ForwardStep
<1>3. CASE FwLoad(f)
  <2> DEFINE s == [fw[f] EXCEPT !.pc = "send"]
  <2>1. s \in ForwardState /\ s.pc = "send" /\ s.block = fw[f].block /\ s.peers = fw[f].peers
    BY <1>0 DEF ForwardState
  <2>2. /\ fw[f].pc = "load" /\ fw' = [fw EXCEPT ![f] = s]
        /\ UNCHANGED <<conf, stored, block, copies, net, anomalies>> /\ holders' = holders
        /\ marked' = marked /\ pending' = pending
    BY <1>3 DEF FwLoad, Goto
  <2> HIDE DEF s
  <2> QED BY <1>0, <2>1, <2>2, ForwardStep
<1>4. CASE FwLoadFails(f) \/ FwReset(f) \/ FwDone(f)
  <2>1. NoForward \in ForwardState /\ NoForward.pc = "none" /\ NoForward.block = {}
    BY NoForwardState DEF SprayInv
  <2>2. /\ fw' = [fw EXCEPT ![f] = NoForward] /\ holders' = holders
        /\ UNCHANGED <<conf, stored, block, copies, net, anomalies>>
        /\ marked' \subseteq marked /\ pending' \subseteq pending
    BY <1>4 DEF FwLoadFails, FwReset, FwDone, Goto
  <2>3. marked' \subseteq stored /\ pending' \subseteq stored
    BY <1>0, <2>2
  <2> QED BY <1>0, <2>1, <2>2, <2>3, ForwardStep
<1>5. ASSUME NEW p \in Nodes, FwSendFails(f, p) PROVE SprayInv'
  <2> DEFINE s == [fw[f] EXCEPT !.peers = @ \ {p}]
  <2>1. /\ s \in ForwardState /\ s.pc = fw[f].pc /\ s.block = fw[f].block
        /\ s.peers \subseteq fw[f].peers
    BY <1>0 DEF ForwardState
  <2>2. /\ fw[f].pc = "send" /\ fw' = [fw EXCEPT ![f] = s]
        /\ UNCHANGED <<conf, stored, block, copies, net, anomalies>> /\ holders' = holders
        /\ marked' = marked /\ pending' = pending
    BY <1>5 DEF FwSendFails, Goto
  <2> HIDE DEF s
  <2> QED BY <1>0, <2>1, <2>2, ForwardStep
<1>6. ASSUME NEW p \in Nodes, FwAddKnownHolder(f, p) PROVE SprayInv'
  <2> DEFINE s == [fw[f] EXCEPT !.sent = @ \ {p}]
  <2>1. s \in ForwardState /\ s.pc = fw[f].pc /\ s.block = fw[f].block /\ s.peers = fw[f].peers
    BY <1>0 DEF ForwardState
  <2>2. /\ fw[f].pc = "send" /\ fw' = [fw EXCEPT ![f] = s]
        /\ UNCHANGED <<conf, stored, block, copies, net, anomalies>>
        /\ marked' = marked /\ pending' = pending
        /\ holders' = [holders EXCEPT ![f[1]] = @ \cup {p}]
    BY <1>6 DEF FwAddKnownHolder, Goto
  <2>3. holders' \in [Nodes -> SUBSET Nodes] /\ \A n \in Nodes : holders[n] \subseteq holders'[n]
    BY <1>0, <2>2
  <2> HIDE DEF s
  <2> QED BY <1>0, <2>1, <2>2, <2>3, ForwardStep
<1> QED BY <1>1, <1>2, <1>3, <1>4, <1>5, <1>6

\* What Start starts.
LEMMA Started ==
    ASSUME SprayTypeOK, NEW n \in Nodes, Idle(n) # {}
    PROVE  \E f \in Forwards, s \in ForwardState :
               /\ f[1] = n /\ fw[f].pc = "none" /\ s.pc = "start" /\ s.block = {}
               /\ Start(n) = [fw EXCEPT ![f] = s]
<1> DEFINE f == CHOOSE f \in Idle(n) : TRUE
           s == [NoForward EXCEPT !.pc = "start"]
<1>1. f \in Idle(n)
  OBVIOUS
<1>2. s \in ForwardState /\ s.pc = "start" /\ s.block = {}
  BY NoForwardState DEF ForwardState
<1>3. Start(n) = [fw EXCEPT ![f] = s]
  BY DEF Start
<1> HIDE DEF f, s
<1> QED BY <1>1, <1>2, <1>3 DEF Idle

\* Dispatch starts a forwarding that has taken nothing yet.
LEMMA DispatchNext ==
    ASSUME SprayInv, NEW n \in Nodes, Dispatch(n)
    PROVE  SprayInv'
<1>1. PICK f \in Forwards, s \in ForwardState :
          /\ f[1] = n /\ fw[f].pc = "none" /\ s.pc = "start" /\ s.block = {}
          /\ Start(n) = [fw EXCEPT ![f] = s]
  BY Started DEF SprayInv, Dispatch
<1>2. /\ fw' = [fw EXCEPT ![f] = s] /\ n \in stored
      /\ UNCHANGED <<conf, stored, block, copies, holders, pending, marked, net, anomalies>>
  BY <1>1 DEF Dispatch
<1> QED BY <1>1, <1>2, ForwardFacts, ForwardStep

\* SelectPeersForForwarding reads the counter.
LEMMA FwReadNext ==
    ASSUME SprayInv, NEW f \in Forwards, NEW peers \in SUBSET Nodes, FwRead(f, peers)
    PROVE  SprayInv'
<1> DEFINE n == f[1]
           seen == IF copies[n] = {} THEN Copies ELSE Number(copies[n])
           s == IF seen > Stop(n) THEN ForwardAt("select", seen, peers, {}, {})
                ELSE [fw[f] EXCEPT !.pc = "reset"]
<1>0. /\ fw[f].pc = "read" /\ copies' = [copies EXCEPT ![n] = {seen}]
      /\ anomalies' = anomalies \cup (IF copies[n] = {} THEN {"default"} ELSE {})
      /\ fw' = [fw EXCEPT ![f] = s]
      /\ conf' = conf /\ stored' = stored /\ block' = block /\ holders' = holders
      /\ pending' = pending /\ marked' = marked /\ net' = net
  BY DEF FwRead, Goto, Number
<1>1. /\ SprayTypeOK /\ fw[f] \in ForwardState /\ n \in Nodes /\ n \in stored
      /\ copies \in [Nodes -> Optional] /\ Copies \in Nat /\ Copies > 0
      /\ fw \in [Forwards -> ForwardState]
  BY <1>0, ForwardFacts, CopiesNat DEF SprayInv, SprayTypeOK
<1>2. seen \in Count /\ seen \in Nat /\ {seen} \in Optional /\ Number({seen}) = seen
  <2>1. Number(copies[n]) \in Count /\ Number(copies[n]) \in Nat
    BY <1>1, OptionalFacts
  <2>2. seen \in Count /\ seen \in Nat
    BY <1>1, <2>1 DEF Count
  <2> HIDE DEF seen
  <2> QED BY <2>2, NumberOf DEF Optional
<1>3. copies[n] # {} => copies' = copies
  <2>1. copies[n] # {} => copies[n] = {Number(copies[n])}
    BY <1>1, OptionalFacts
  <2>2. copies[n] # {} => {seen} = copies[n]
    BY <2>1
  <2> HIDE DEF seen
  <2> QED BY <1>0, <1>1, <2>2
<1>4. copies[n] = {} => anomalies' # {}
  BY <1>0
<1>5. anomalies' = {} => anomalies = {} /\ copies' = copies
  BY <1>0, <1>3, <1>4
<1>6. /\ copies' \in [Nodes -> Optional] /\ copies'[n] = {seen}
      /\ \A k \in Nodes \ {n} : copies'[k] = copies[k]
  <2> HIDE DEF seen
  <2> QED BY <1>0, <1>1, <1>2
<1>7. Stop(n) = IF conf.mode[n] = "basic" THEN 0 ELSE 1
  BY DEF Stop
<1>8. /\ s \in ForwardState /\ s.block \in {{}, fw[f].block} /\ s.pc \in {"select", "reset"}
      /\ s.pc = "select" => seen > Stop(n) /\ s.seen = seen /\ s.block = {}
  <2>1. {} \in Optional
    BY DEF Optional
  <2>2. ForwardAt("select", seen, peers, {}, {}) \in ForwardState
    <3> HIDE DEF seen
    <3> QED BY <1>2, <2>1 DEF ForwardAt, ForwardState
  <2>3. [fw[f] EXCEPT !.pc = "reset"] \in ForwardState
    BY <1>1 DEF ForwardState
  <2> HIDE DEF seen
  <2>4. CASE seen > Stop(n)
    BY <2>2, <2>4 DEF ForwardAt
  <2>5. CASE ~(seen > Stop(n))
    BY <1>1, <2>3, <2>5 DEF ForwardState
  <2> QED BY <2>4, <2>5
<1> HIDE DEF s
<1>9. fw'[f] = s /\ (\A g \in Forwards \ {f} : fw'[g] = fw[g]) /\ fw' \in [Forwards -> ForwardState]
  BY <1>0, <1>1, <1>8
<1>10. SprayTypeOK'
  <2>1. anomalies' \subseteq {"default", "stale"}
    BY <1>0 DEF SprayInv, SprayTypeOK
  <2> HIDE DEF seen, n
  <2> QED BY <1>0, <1>6, <1>9, <2>1, ConfKept DEF SprayInv, SprayTypeOK
<1>11. PlaceInv'
  <2>1. \A k \in Nodes : copies'[k] # {} => k \in stored
    BY <1>1, <1>6 DEF SprayInv, PlaceInv
  <2>2. \A g \in Forwards : fw'[g].pc # "none" => g[1] \in stored
    BY <1>1, <1>9 DEF SprayInv, PlaceInv
  <2>3. \A g \in Forwards : fw'[g].pc \in {"load", "send"} => g[1] \notin fw'[g].peers
    BY <1>8, <1>9 DEF SprayInv, PlaceInv
  <2> HIDE DEF seen, n
  <2> QED BY <1>0, <2>1, <2>2, <2>3 DEF SprayInv, PlaceInv
<1>12. BinaryInv'
  <2> SUFFICES ASSUME Uniform("binary") PROVE BinaryInv'
    BY <1>0, ConfKept DEF BinaryInv
  <2>1. seen > 0
    BY <1>1 DEF SprayInv, BinaryInv
  <2>2. Stop(n) = 1
    BY <1>1, <1>7 DEF Uniform
  <2> HIDE DEF seen, n
  <2>3. \A k \in Nodes : copies'[k] # {} => Number(copies'[k]) > 0
    BY <1>2, <1>6, <2>1 DEF SprayInv, BinaryInv
  <2>4. ASSUME NEW g \in Forwards
        PROVE  /\ fw'[g].pc # "load" /\ (fw'[g].pc = "select" => fw'[g].seen > 1)
               /\ fw'[g].pc = "send" => Number(fw'[g].block) > 0
    BY <1>8, <1>9, <2>2 DEF SprayInv, BinaryInv
  <2> QED BY <1>0, <2>3, <2>4 DEF SprayInv, BinaryInv
<1>13. BasicInv'
  <2> SUFFICES ASSUME Uniform("basic") PROVE BasicInv'
    BY <1>0, ConfKept DEF BasicInv
  <2>1. \A g \in Forwards : fw'[g].block = {}
    BY <1>8, <1>9 DEF SprayInv, BasicInv
  <2>2. ASSUME anomalies' = {}
        PROVE  /\ \A k \in Nodes \ {Origin} : copies'[k] \subseteq {0}
               /\ \A g \in Forwards : g[1] # Origin => fw'[g].pc \in {"none", "start", "read", "reset"}
    <3>1. /\ \A k \in Nodes \ {Origin} : copies'[k] \subseteq {0}
          /\ \A g \in Forwards : g[1] # Origin => fw[g].pc \in {"none", "start", "read", "reset"}
      BY <1>5, <2>2 DEF SprayInv, BasicInv
    <3>2. n # Origin => s.pc = "reset"
      <4>1. Stop(n) = 0
        BY <1>1, <1>7 DEF Uniform
      <4>2. n # Origin => seen = 0
        <5>1. n # Origin => {seen} \subseteq {0}
          BY <1>1, <1>6, <3>1
        <5> QED BY <5>1
      <4> HIDE DEF seen
      <4> QED BY <1>8, <4>1, <4>2
    <3> QED BY <1>9, <3>1, <3>2
  <2> HIDE DEF seen, n
  <2> QED BY <1>0, <2>1, <2>2 DEF SprayInv, BasicInv
<1>14. ASSUME NEW w \in Weights, Applies(w), Applies(w)' PROVE Weight(w)' <= Weight(w)
  <2>0. copies' = copies
    BY <1>5, <1>14 DEF Applies
  <2>1. \A k \in Nodes : NodeWeight(w, k)' = NodeWeight(w, k) /\ NodeWeight(w, k) \in Nat
    <3> HIDE DEF seen
    <3> QED BY <1>0, <1>1, <2>0, NodeWeightNat DEF NodeWeight
  <2>2. \A g \in Forwards : ForwardWeight(w, g) \in Nat
    BY <1>1, ForwardWeightNat
  <2>3. \A g \in Forwards : ForwardWeight(w, g)' = ForwardWeight(w, g)
    BY <1>0, <1>8, <1>9 DEF ForwardWeight
  <2> HIDE DEF seen
  <2>4. /\ \A k \in Nodes \ {n} : NodeWeight(w, k)' <= NodeWeight(w, k)
        /\ \A g \in Forwards \ {f} : ForwardWeight(w, g)' <= ForwardWeight(w, g)
        /\ NodeWeight(w, n)' + ForwardWeight(w, f)' + 0 <= NodeWeight(w, n) + ForwardWeight(w, f) + 0
    BY <1>1, <2>1, <2>2, <2>3
  <2>5. Bulk(net', MW(w)) + 0 <= Bulk(net, MW(w)) + 0
    BY <1>0, <1>14, BulkIsNat DEF SprayInv
  <2> QED BY <1>0, <1>1, <1>10, <1>12, <1>14, <2>4, <2>5, WeightStep DEF SprayInv
<1> HIDE DEF seen
<1>15. WeightInv'
  <2>1. anomalies \subseteq anomalies'
    BY <1>0
  <2> QED BY <1>0, <1>10, <1>12, <1>14, <2>1, WeightKept
<1> QED BY <1>10, <1>11, <1>12, <1>13, <1>15 DEF SprayInv

\* SelectPeersForForwarding takes from the counter what it gives away.
LEMMA SelectStep ==
    ASSUME SprayInv, NEW f \in Forwards, fw[f].pc = "select",
           NEW peers \in SUBSET filterPeers(f), NEW rest \in Count, NEW b \in Optional,
           NEW pc \in {"load", "send"}, Select(f, peers, rest, b, pc),
           Uniform("binary") => /\ pc = "send" /\ rest > 0 /\ Number(b) > 0
                                /\ rest + Number(b) * Cardinality(peers) <= fw[f].seen,
           Uniform("basic") => b = {} /\ rest + Cardinality(peers) <= fw[f].seen
    PROVE  SprayInv'
<1> DEFINE n == f[1]
           s == ForwardAt(pc, 0, peers, b, {})
<1>0. /\ copies' = [copies EXCEPT ![n] = {rest}] /\ fw' = [fw EXCEPT ![f] = s]
      /\ anomalies' = anomalies \cup (IF copies[n] # {fw[f].seen} THEN {"stale"} ELSE {})
      /\ conf' = conf /\ stored' = stored /\ block' = block /\ holders' = holders
      /\ pending' = pending /\ marked' = marked /\ net' = net
  BY DEF Select, Goto
<1>1. /\ SprayTypeOK /\ n \in Nodes /\ n \in stored /\ n \in holders[n]
      /\ copies \in [Nodes -> Optional] /\ fw \in [Forwards -> ForwardState]
      /\ IsFiniteSet(Nodes)
  BY ForwardFacts, SprayAssumption DEF SprayInv, SprayTypeOK, PlaceInv
<1>2. /\ peers \subseteq Nodes /\ n \notin peers /\ Cardinality(peers) \in Nat
  <2>1. peers \subseteq Nodes /\ n \notin peers
    BY <1>1, PeersFinite DEF filterPeers
  <2> QED BY <1>1, <2>1, FS_Subset, FS_CardinalityType
<1>3. /\ rest \in Nat /\ {rest} \in Optional /\ Number({rest}) = rest /\ Number(b) \in Nat
      /\ fw[f].seen \in Nat /\ 0 \in Count
  <2>1. Copies \in Nat /\ fw[f].seen \in Count
    BY <1>1, CopiesNat, PeersFinite
  <2>2. rest \in Nat /\ fw[f].seen \in Nat /\ 0 \in Count
    BY <2>1 DEF Count
  <2>3. {rest} \in Optional
    BY DEF Optional
  <2>4. Number(b) \in Nat
    BY <1>1, OptionalFacts
  <2> QED BY <2>2, <2>3, <2>4, NumberOf
<1>4. /\ s \in ForwardState /\ s.pc = pc /\ s.peers = peers /\ s.block = b
  BY <1>2, <1>3 DEF ForwardAt, ForwardState
<1>5. fw'[f] = s /\ (\A g \in Forwards \ {f} : fw'[g] = fw[g]) /\ fw' \in [Forwards -> ForwardState]
  BY <1>0, <1>1, <1>4
<1> HIDE DEF s
<1>6. /\ copies' \in [Nodes -> Optional] /\ copies'[n] = {rest}
      /\ \A k \in Nodes \ {n} : copies'[k] = copies[k]
  BY <1>0, <1>1, <1>3
<1>7. anomalies' = {} => anomalies = {} /\ copies[n] = {fw[f].seen}
  BY <1>0
<1>8. SprayTypeOK'
  <2>1. anomalies' \subseteq {"default", "stale"}
    BY <1>0 DEF SprayInv, SprayTypeOK
  <2> HIDE DEF n
  <2> QED BY <1>0, <1>5, <1>6, <2>1, ConfKept DEF SprayInv, SprayTypeOK
<1>9. PlaceInv'
  <2>1. \A k \in Nodes : copies'[k] # {} => k \in stored
    BY <1>1, <1>6 DEF SprayInv, PlaceInv
  <2>2. \A g \in Forwards : fw'[g].pc # "none" => g[1] \in stored
    BY <1>1, <1>5 DEF SprayInv, PlaceInv
  <2>3. \A g \in Forwards : fw'[g].pc \in {"load", "send"} => g[1] \notin fw'[g].peers
    BY <1>2, <1>4, <1>5 DEF SprayInv, PlaceInv
  <2> HIDE DEF n
  <2> QED BY <1>0, <2>1, <2>2, <2>3 DEF SprayInv, PlaceInv
<1>10. BinaryInv'
  <2> SUFFICES ASSUME Uniform("binary") PROVE BinaryInv'
    BY <1>0, ConfKept DEF BinaryInv
  <2>1. \A k \in Nodes : copies'[k] # {} => Number(copies'[k]) > 0
    BY <1>3, <1>6 DEF SprayInv, BinaryInv
  <2>2. ASSUME NEW g \in Forwards
        PROVE  /\ fw'[g].pc # "load" /\ (fw'[g].pc = "select" => fw'[g].seen > 1)
               /\ fw'[g].pc = "send" => Number(fw'[g].block) > 0
    BY <1>4, <1>5 DEF SprayInv, BinaryInv
  <2> HIDE DEF n
  <2> QED BY <1>0, <2>1, <2>2 DEF SprayInv, BinaryInv
<1>11. Uniform("basic") /\ anomalies = {} => n = Origin
  BY DEF SprayInv, BasicInv
<1>12. BasicInv'
  <2> SUFFICES ASSUME Uniform("basic") PROVE BasicInv'
    BY <1>0, ConfKept DEF BasicInv
  <2>1. \A g \in Forwards : fw'[g].block = {}
    BY <1>4, <1>5 DEF SprayInv, BasicInv
  <2>2. ASSUME anomalies' = {}
        PROVE  /\ \A k \in Nodes \ {Origin} : copies'[k] \subseteq {0}
               /\ \A g \in Forwards : g[1] # Origin => fw'[g].pc \in {"none", "start", "read", "reset"}
    BY <1>5, <1>6, <1>7, <1>11, <2>2 DEF SprayInv, BasicInv
  <2> HIDE DEF n
  <2> QED BY <1>0, <2>1, <2>2 DEF SprayInv, BasicInv
<1>13. ASSUME NEW w \in Weights, Applies(w), Applies(w)' PROVE Weight(w)' <= Weight(w)
  <2>0. copies[n] = {fw[f].seen} /\ anomalies = {}
    BY <1>7, <1>13 DEF Applies
  <2>1. \A k \in Nodes : NodeWeight(w, k) \in Nat
    BY <1>1, NodeWeightNat
  <2>2. \A g \in Forwards : ForwardWeight(w, g) \in Nat
    BY <1>1, ForwardWeightNat
  <2>3. \A k \in Nodes \ {n} : NodeWeight(w, k)' <= NodeWeight(w, k)
    <3>1. \A k \in Nodes \ {n} : NodeWeight(w, k)' = NodeWeight(w, k)
      BY <1>0, <1>6 DEF NodeWeight
    <3> QED BY <2>1, <3>1
  <2>4. \A g \in Forwards \ {f} : ForwardWeight(w, g)' <= ForwardWeight(w, g)
    <3>1. \A g \in Forwards \ {f} : ForwardWeight(w, g)' = ForwardWeight(w, g)
      BY <1>5 DEF ForwardWeight
    <3> QED BY <2>2, <3>1
  <2>5. ForwardWeight(w, f) = 0
    BY DEF ForwardWeight
  <2>6. ForwardWeight(w, f)' = IF w = "basic" THEN Cardinality(peers)
                               ELSE Number(b) * Cardinality(peers)
    BY <1>4, <1>5 DEF ForwardWeight
  <2>7. NodeWeight(w, n) = fw[f].seen /\ NodeWeight(w, n)' = rest
    <3>1. Number(copies[n]) = fw[f].seen /\ copies[n] # {} /\ Number(copies'[n]) = rest
          /\ copies'[n] # {}
      BY <1>3, <1>6, <2>0, NumberOf
    <3>2. w = "basic" => n = Origin
      BY <1>11, <1>13 DEF Applies
    <3> QED BY <1>0, <1>1, <3>1, <3>2 DEF NodeWeight, Weights
  <2>8. NodeWeight(w, n)' + ForwardWeight(w, f)' <= NodeWeight(w, n) + ForwardWeight(w, f)
    <3>1. CASE w = "basic"
      <4>1. rest + Cardinality(peers) <= fw[f].seen
        BY <1>13, <3>1 DEF Applies
      <4> QED BY <1>2, <1>3, <2>5, <2>6, <2>7, <3>1, <4>1
    <3>2. CASE w # "basic"
      <4>1. rest + Number(b) * Cardinality(peers) <= fw[f].seen
        BY <1>13, <3>2 DEF Applies
      <4> QED BY <1>2, <1>3, <2>5, <2>6, <2>7, <3>2, <4>1
    <3> QED BY <3>1, <3>2
  <2>9. NodeWeight(w, n)' + ForwardWeight(w, f)' + 0 <= NodeWeight(w, n) + ForwardWeight(w, f) + 0
    <3>1. ForwardWeight(w, f)' \in Nat
      BY <1>2, <1>3, <2>6, Product
    <3> QED BY <1>3, <2>5, <2>7, <2>8, <3>1
  <2>10. Bulk(net', MW(w)) + 0 <= Bulk(net, MW(w)) + 0
    BY <1>0, <1>13, BulkIsNat DEF SprayInv
  <2> QED BY <1>0, <1>1, <1>8, <1>10, <1>13, <2>3, <2>4, <2>9, <2>10, WeightStep DEF SprayInv
<1>14. WeightInv'
  <2>1. anomalies \subseteq anomalies'
    BY <1>0
  <2> QED BY <1>0, <1>8, <1>10, <1>13, <2>1, WeightKept
<1> QED BY <1>8, <1>9, <1>10, <1>12, <1>14 DEF SprayInv

\* Halving a number.
LEMMA Halves ==
    ASSUME NEW k \in Nat
    PROVE  /\ k \div 2 \in Nat /\ k % 2 \in Nat /\ k = 2 * (k \div 2) + (k % 2)
           /\ k > 1 => k \div 2 > 0
  OBVIOUS

\* Basic nodes take a copy for every peer, binary nodes half of the copies for one.
LEMMA FwSelectNext ==
    ASSUME SprayInv, NEW f \in Forwards, FwSelect(f)
    PROVE  SprayInv'
<1> DEFINE seen == fw[f].seen
           found == filterPeers(f)
<1>1. /\ fw[f].pc = "select" /\ f[1] \in Nodes /\ SprayTypeOK /\ block \in [Nodes -> Optional]
      /\ conf.mode \in [Nodes -> {"basic", "binary"}]
  BY ForwardFacts, SprayAssumption DEF FwSelect, SprayInv, SprayTypeOK
<1>2. seen \in Nat /\ seen \in Count /\ Copies \in Nat /\ seen <= Copies
  BY <1>1, PeersFinite, CopiesNat DEF Count
<1>3. found \subseteq Nodes /\ IsFiniteSet(found) /\ Cardinality(found) \in Nat
  <2>1. found \subseteq fw[f].peers
    BY DEF filterPeers
  <2> QED BY <1>1, <2>1, PeersFinite, FS_Subset, FS_CardinalityType
<1>4. CASE conf.mode[f[1]] = "basic"
  <2>0. ~Uniform("binary") /\ block[f[1]] \in Optional
    BY <1>1, <1>4 DEF Uniform
  <2>1. Uniform("basic") => block[f[1]] = {}
    BY <1>1 DEF SprayInv, BasicInv
  <2>2. selectBasicSpray(f)
    BY <1>4 DEF FwSelect
  <2>3. CASE /\ Cardinality(found) <= seen
             /\ Select(f, found, seen - Cardinality(found), block[f[1]], "load")
    <3>1. seen - Cardinality(found) \in Count
          /\ (seen - Cardinality(found)) + Cardinality(found) <= seen
      BY <1>2, <1>3, <2>3 DEF Count
    <3>2. found \in SUBSET filterPeers(f)
      OBVIOUS
    <3> QED BY <1>1, <2>0, <2>1, <2>3, <3>1, <3>2, SelectStep
  <2>4. ASSUME NEW peers \in kSubset(seen, found), Select(f, peers, 0, block[f[1]], "load")
        PROVE  SprayInv'
    <3>1. peers \in SUBSET filterPeers(f) /\ Cardinality(peers) = seen
      BY DEF kSubset
    <3>2. 0 \in Count /\ 0 + Cardinality(peers) <= seen
      BY <1>2, <3>1 DEF Count
    <3> QED BY <1>1, <2>0, <2>1, <2>4, <3>1, <3>2, SelectStep
  <2> QED BY <2>2, <2>3, <2>4 DEF selectBasicSpray
<1>5. CASE conf.mode[f[1]] # "basic"
  <2>0. ~Uniform("basic") /\ conf.mode[f[1]] = "binary"
    BY <1>1, <1>5 DEF Uniform
  <2> DEFINE half == seen \div 2
             rest == half + (seen % 2)
  <2>1. PICK p \in found : Select(f, {p}, rest, {half}, "send")
    BY <1>5 DEF FwSelect, selectBinarySpray
  <2>2. half \in Nat /\ rest \in Nat /\ rest + half = seen /\ (seen > 1 => half > 0 /\ rest > 0)
    <3> DEFINE r == seen % 2
    <3>1. half \in Nat /\ r \in Nat /\ seen = 2 * half + r /\ (seen > 1 => half > 0)
      BY <1>2, Halves
    <3>2. rest = half + r
      OBVIOUS
    <3> HIDE DEF half, rest, r, seen
    <3> QED BY <3>1, <3>2
  <2> HIDE DEF half, rest
  <2>3. rest \in Count /\ half \in Count /\ {half} \in Optional /\ Number({half}) = half
    <3>1. rest \in Count /\ half \in Count
      BY <1>2, <2>2 DEF Count
    <3> QED BY <3>1, NumberOf DEF Optional
  <2>4. Uniform("binary") => seen > 1
    BY <1>1 DEF SprayInv, BinaryInv
  <2>5. Cardinality({p}) = 1 /\ half * 1 = half
    <3>1. Cardinality({p}) = 1
      BY FS_Singleton
    <3>2. half * 1 = half
      BY <2>2
    <3> QED BY <3>1, <3>2
  <2>6. Uniform("binary") => /\ rest > 0 /\ Number({half}) > 0
                             /\ rest + Number({half}) * Cardinality({p}) <= seen
    <3>1. rest + half <= seen
      BY <1>2, <2>2
    <3> QED BY <2>2, <2>3, <2>4, <2>5, <3>1
  <2>7. {p} \in SUBSET filterPeers(f)
    BY <2>1
  <2> QED BY <1>1, <2>0, <2>1, <2>3, <2>6, <2>7, SelectStep
<1> QED BY <1>4, <1>5

\* Send: what has been taken from the counter goes to the network.
LEMMA FwSendNext ==
    ASSUME SprayInv, NEW f \in Forwards, NEW p \in Nodes, FwSend(f, p)
    PROVE  SprayInv'
<1> DEFINE m == [from |-> f[1], to |-> p, block |-> fw[f].block, kept |-> FALSE]
           s == ForwardAt("send", 0, fw[f].peers \ {p}, fw[f].block, fw[f].sent \cup {p})
<1>0. /\ fw[f].pc = "send" /\ p \in fw[f].peers /\ net' = net (+) SetToBag({m})
      /\ fw' = [fw EXCEPT ![f] = s]
      /\ conf' = conf /\ stored' = stored /\ block' = block /\ copies' = copies
      /\ holders' = holders /\ pending' = pending /\ marked' = marked /\ anomalies' = anomalies
  BY DEF FwSend, Goto
<1>1. /\ SprayTypeOK /\ f[1] \in Nodes /\ f[1] # p /\ fw \in [Forwards -> ForwardState]
      /\ IsABag(net) /\ IsFiniteSet(DOMAIN net) /\ DOMAIN net \subseteq Transfer
      /\ fw[f] \in ForwardState
  BY <1>0, ForwardFacts DEF SprayInv, SprayTypeOK, PlaceInv, BagToSet
<1>2. /\ fw[f].block \in Optional /\ IsFiniteSet(fw[f].peers) /\ Cardinality(fw[f].peers) \in Nat
      /\ Number(fw[f].block) \in Nat /\ fw[f].peers \subseteq Nodes
  BY <1>1, PeersFinite
<1>3. /\ m.from = f[1] /\ m.to = p /\ m.block = fw[f].block /\ m.kept = FALSE
      /\ m \in Transfer
  BY <1>1, <1>2 DEF Transfer
<1>4. /\ s \in ForwardState /\ s.pc = "send" /\ s.peers = fw[f].peers \ {p}
      /\ s.block = fw[f].block
  <2>1. 0 \in Count
    BY <1>1, CopiesNat DEF Count
  <2>2. fw[f].sent \cup {p} \subseteq Nodes
    BY <1>1 DEF ForwardState
  <2> QED BY <1>2, <2>1, <2>2 DEF ForwardAt, ForwardState
<1> HIDE DEF s, m
<1>5. fw'[f] = s /\ (\A g \in Forwards \ {f} : fw'[g] = fw[g]) /\ fw' \in [Forwards -> ForwardState]
  BY <1>0, <1>1, <1>4
<1>6. IsABag(net') /\ DOMAIN net' = DOMAIN net \cup {m} /\ IsFiniteSet(DOMAIN net')
  <2> DEFINE c == net (+) SetToBag({m})
  <2>1. IsABag(c) /\ DOMAIN c = DOMAIN net \cup {m}
    BY <1>1, BagPut
  <2>2. IsFiniteSet(DOMAIN net \cup {m})
    BY <1>1, FS_AddElement
  <2>3. net' = c
    BY <1>0
  <2> HIDE DEF c
  <2> QED BY <2>1, <2>2, <2>3
<1>7. SprayTypeOK'
  <2>1. BagToSet(net') \subseteq Transfer /\ IsFiniteSet(BagToSet(net'))
    BY <1>1, <1>3, <1>6 DEF BagToSet
  <2> QED BY <1>0, <1>5, <1>6, <2>1, ConfKept DEF SprayInv, SprayTypeOK
<1>8. PlaceInv'
  <2>1. \A g \in Forwards : fw'[g].pc # "none" => g[1] \in stored
    BY <1>0, <1>5 DEF SprayInv, PlaceInv
  <2>2. \A g \in Forwards : fw'[g].pc \in {"load", "send"} => g[1] \notin fw'[g].peers
    BY <1>0, <1>4, <1>5 DEF SprayInv, PlaceInv
  <2>3. \A k \in DOMAIN net' : /\ k.kept => k.to \in stored
                               /\ k.from = k.to => k.kept /\ k.to = Origin
    BY <1>1, <1>3, <1>6 DEF SprayInv, PlaceInv
  <2> QED BY <1>0, <2>1, <2>2, <2>3 DEF SprayInv, PlaceInv
<1>9. BinaryInv'
  <2> SUFFICES ASSUME Uniform("binary") PROVE BinaryInv'
    BY <1>0, ConfKept DEF BinaryInv
  <2>1. ASSUME NEW g \in Forwards
        PROVE  /\ fw'[g].pc # "load" /\ (fw'[g].pc = "select" => fw'[g].seen > 1)
               /\ fw'[g].pc = "send" => Number(fw'[g].block) > 0
    BY <1>0, <1>4, <1>5 DEF SprayInv, BinaryInv
  <2>2. \A k \in DOMAIN net' : k.from # k.to => Number(k.block) > 0
    BY <1>0, <1>3, <1>6 DEF SprayInv, BinaryInv
  <2> QED BY <1>0, <2>1, <2>2 DEF SprayInv, BinaryInv
<1>10. BasicInv'
  <2> SUFFICES ASSUME Uniform("basic") PROVE BasicInv'
    BY <1>0, ConfKept DEF BasicInv
  <2>1. \A g \in Forwards : fw'[g].block = {}
    BY <1>4, <1>5 DEF SprayInv, BasicInv
  <2>2. \A k \in DOMAIN net' : k.block = {}
    BY <1>3, <1>6 DEF SprayInv, BasicInv
  <2>3. ASSUME anomalies = {}, NEW g \in Forwards, g[1] # Origin
        PROVE  fw'[g].pc \in {"none", "start", "read", "reset"}
    BY <1>0, <1>5, <2>3 DEF SprayInv, BasicInv
  <2> QED BY <1>0, <2>1, <2>2, <2>3 DEF SprayInv, BasicInv
<1>11. ASSUME NEW w \in Weights, Applies(w), Applies(w)' PROVE Weight(w)' <= Weight(w)
  <2> DEFINE share == IF w = "basic" THEN 1 ELSE Number(fw[f].block)
  <2>1. MW(w)[m] = share /\ share \in Nat
    <3>1. Number(Share(m)) = Number(fw[f].block)
      BY <1>1, <1>3, ShareFacts
    <3> QED BY <1>1, <1>2, <1>3, <3>1 DEF MW, MessageWeight, Weights
  <2>2. \A k \in Nodes : NodeWeight(w, k)' = NodeWeight(w, k) /\ NodeWeight(w, k) \in Nat
    BY <1>0, <1>1, NodeWeightNat DEF NodeWeight
  <2>3. \A g \in Forwards \ {f} : ForwardWeight(w, g)' <= ForwardWeight(w, g)
    <3>1. \A g \in Forwards \ {f} : ForwardWeight(w, g)' = ForwardWeight(w, g)
      BY <1>5 DEF ForwardWeight
    <3> QED BY <1>1, <3>1, ForwardWeightNat
  <2>4. /\ ForwardWeight(w, f)' + share = ForwardWeight(w, f)
        /\ ForwardWeight(w, f)' \in Nat /\ ForwardWeight(w, f) \in Nat
    <3> DEFINE a == Number(fw[f].block)
               c == Cardinality(fw[f].peers)
    <3>1. Cardinality(fw[f].peers \ {p}) = c - 1 /\ c > 0
      <4>1. Cardinality(fw[f].peers \ {p}) = c - 1
        BY <1>0, <1>2, FS_RemoveElement
      <4>2. c # 0
        BY <1>0, <1>2, FS_EmptySet
      <4> QED BY <1>2, <4>1, <4>2
    <3>2. /\ ForwardWeight(w, f) = IF w = "basic" THEN c ELSE a * c
          /\ ForwardWeight(w, f)' = IF w = "basic" THEN c - 1 ELSE a * (c - 1)
      BY <1>0, <1>4, <1>5, <3>1 DEF ForwardWeight
    <3>3. a \in Nat /\ c \in Nat
      BY <1>2
    <3>4. share = IF w = "basic" THEN 1 ELSE a
      OBVIOUS
    <3> HIDE DEF a, c, share
    <3>5. c - 1 \in Nat /\ a * (c - 1) \in Nat /\ a * c \in Nat /\ a * (c - 1) + a = a * c
      <4>1. c - 1 \in Nat
        BY <3>1, <3>3
      <4>2. a * (c - 1) \in Nat /\ a * c \in Nat
        BY <3>3, <4>1, Product
      <4>3. a * (c - 1) + a = a * c
        BY <3>3
      <4> QED BY <4>1, <4>2, <4>3
    <3> QED BY <3>1, <3>2, <3>3, <3>4, <3>5
  <2> HIDE DEF share
  <2>5. Bulk(net', MW(w)) + 0 <= Bulk(net, MW(w)) + share
    <3>1. \A k \in DOMAIN net : MW(w)[k] \in Nat
      BY <1>11, BulkIsNat DEF SprayInv
    <3>2. Bulk(net', MW(w)) \in Nat /\ Bulk(net', MW(w)) <= Bulk(net, MW(w)) + MW(w)[m]
      BY <1>0, <1>1, <2>1, <3>1, BulkPut
    <3> QED BY <2>1, <3>2
  <2>6. \A k \in Nodes \ {Origin} : NodeWeight(w, k)' <= NodeWeight(w, k)
    BY <2>2
  <2>7. /\ Origin \in Nodes
        /\ NodeWeight(w, Origin)' + ForwardWeight(w, f)' + share
               <= NodeWeight(w, Origin) + ForwardWeight(w, f) + 0
    <3>1. Origin \in Nodes
      BY SprayAssumption
    <3> QED BY <2>1, <2>2, <2>4, <3>1
  <2> QED BY <1>0, <1>1, <1>7, <1>9, <1>11, <2>1, <2>3, <2>5, <2>6, <2>7, WeightStep DEF SprayInv
<1>12. WeightInv'
  BY <1>0, <1>7, <1>9, <1>11, WeightKept
<1> QED BY <1>7, <1>8, <1>9, <1>10, <1>12 DEF SprayInv

-----------------------------------------------------------------------------
(* Reception and losses *)

\* Insert: a message that is kept stays as heavy, but for the node that has the
\* bundle now.
LEMMA InsertNext ==
    ASSUME SprayInv, NEW m \in DOMAIN net, Insert(m)
    PROVE  SprayInv'
<1> DEFINE n == m.to
           o == [m EXCEPT !.kept = TRUE]
           c == net (-) SetToBag({m})
           d == c (+) SetToBag({o})
<1>0. /\ m.kept = FALSE /\ net' = d /\ stored' = stored \cup {n}
      /\ holders' = [holders EXCEPT ![n] = @ \cup {n, m.from}]
      /\ block' = IF n \in stored THEN block ELSE [block EXCEPT ![n] = m.block]
      /\ pending' = IF n \in stored THEN pending ELSE pending \cup {n}
      /\ conf' = conf /\ copies' = copies /\ marked' = marked /\ fw' = fw
      /\ anomalies' = anomalies
  <2>1. m \in Transfer
    BY DEF SprayInv, SprayTypeOK, BagToSet
  <2>2. m.kept \in BOOLEAN
    BY <2>1 DEF Transfer
  <2> QED BY <2>2 DEF Insert
<1>1. /\ SprayTypeOK /\ IsABag(net) /\ IsFiniteSet(DOMAIN net) /\ DOMAIN net \subseteq Transfer
      /\ stored \subseteq Nodes /\ holders \in [Nodes -> SUBSET Nodes]
      /\ block \in [Nodes -> Optional] /\ m \in Transfer
  BY DEF SprayInv, SprayTypeOK, BagToSet
<1>2. n \in Nodes /\ m.from \in Nodes /\ m.block \in Optional /\ m.from # n
  <2>1. m.from # n
    BY <1>0 DEF SprayInv, PlaceInv
  <2> QED BY <1>1, <2>1 DEF Transfer
<1>3. o.to = n /\ o.from = m.from /\ o.block = m.block /\ o.kept = TRUE /\ o \in Transfer
  BY <1>1 DEF Transfer
<1> HIDE DEF o
<1>4. IsABag(c) /\ DOMAIN c \subseteq DOMAIN net /\ IsFiniteSet(DOMAIN c)
  <2>1. IsABag(c) /\ DOMAIN c \subseteq DOMAIN net
    BY <1>1, BagTake
  <2> HIDE DEF c
  <2> QED BY <1>1, <2>1, FS_Subset
<1> HIDE DEF c
<1>5. IsABag(d) /\ DOMAIN d = DOMAIN c \cup {o}
  BY <1>4, BagPut
<1>6. IsABag(net') /\ DOMAIN net' \subseteq DOMAIN net \cup {o} /\ IsFiniteSet(DOMAIN net')
  <2>1. IsFiniteSet(DOMAIN c \cup {o})
    BY <1>4, FS_AddElement
  <2> HIDE DEF d
  <2> QED BY <1>0, <1>4, <1>5, <2>1
<1> HIDE DEF d
<1>7. /\ holders' \in [Nodes -> SUBSET Nodes] /\ n \in holders'[n]
      /\ \A k \in Nodes : holders[k] \subseteq holders'[k]
  BY <1>0, <1>1, <1>2
<1>8. block' \in [Nodes -> Optional] /\ \A k \in Nodes : block'[k] \in {block[k], m.block}
  BY <1>0, <1>1, <1>2
<1>9. SprayTypeOK'
  <2>1. BagToSet(net') \subseteq Transfer /\ IsFiniteSet(BagToSet(net'))
    BY <1>1, <1>3, <1>6 DEF BagToSet
  <2>2. stored' \subseteq Nodes /\ pending' \subseteq stored' /\ marked' \subseteq stored'
    BY <1>0, <1>2 DEF SprayInv, SprayTypeOK
  <2> QED BY <1>0, <1>6, <1>7, <1>8, <2>1, <2>2, ConfKept DEF SprayInv, SprayTypeOK
<1>10. PlaceInv'
  <2>1. \A k \in stored' : k \in holders'[k]
    BY <1>0, <1>1, <1>7 DEF SprayInv, PlaceInv
  <2>2. \A k \in DOMAIN net' : /\ k.kept => k.to \in stored'
                               /\ k.from = k.to => k.kept /\ k.to = Origin
    BY <1>0, <1>2, <1>3, <1>6 DEF SprayInv, PlaceInv
  <2> QED BY <1>0, <2>1, <2>2 DEF SprayInv, PlaceInv
<1>11. BinaryInv'
  <2> SUFFICES ASSUME Uniform("binary") PROVE BinaryInv'
    BY <1>0, ConfKept DEF BinaryInv
  <2>1. \A k \in DOMAIN net' : k.from # k.to => Number(k.block) > 0
    BY <1>2, <1>3, <1>6 DEF SprayInv, BinaryInv
  <2> QED BY <1>0, <2>1 DEF SprayInv, BinaryInv
<1>12. BasicInv'
  <2> SUFFICES ASSUME Uniform("basic") PROVE BasicInv'
    BY <1>0, ConfKept DEF BasicInv
  <2>1. \A k \in DOMAIN net' : k.block = {}
    BY <1>3, <1>6 DEF SprayInv, BasicInv
  <2>2. \A k \in Nodes : block'[k] = {}
    BY <1>8 DEF SprayInv, BasicInv
  <2> QED BY <1>0, <2>1, <2>2 DEF SprayInv, BasicInv
<1>13. ASSUME NEW w \in Weights, Applies(w), Applies(w)' PROVE Weight(w)' <= Weight(w)
  <2> DEFINE x == MW(w)[m]
             y == MW(w)[o]
             share == Number(Share(m))
  <2>1. x \in Nat /\ x = MessageWeight(w, m) /\ \A k \in DOMAIN net : MW(w)[k] \in Nat
    BY <1>13, BulkIsNat DEF SprayInv
  <2>2. share \in Nat /\ Number(Share(o)) = share
    BY <1>1, <1>2, <1>3, ShareFacts
  <2>3. w = "binary" => share > 0
    <3>1. share = Number(m.block)
      BY <1>1, <1>2, ShareFacts
    <3> QED BY <1>2, <1>13, <3>1 DEF SprayInv, BinaryInv, Applies
  <2>4. y = MessageWeight(w, o)
    BY <1>3 DEF MW
  <2> HIDE DEF x, y, share
  <2>5. /\ x = IF w = "basic" THEN 1 ELSE share
        /\ y = IF w = "basic" THEN 0 ELSE IF w = "binary" THEN share - 1 ELSE share
    BY <1>0, <1>2, <1>3, <2>1, <2>2, <2>4 DEF MessageWeight, Weights, share
  <2>6. y \in Nat
    BY <2>2, <2>3, <2>5
  <2>7. Bulk(net', MW(w)) + x <= Bulk(net, MW(w)) + y
    <3>1. /\ Bulk(c, MW(w)) \in Nat /\ Bulk(net, MW(w)) \in Nat
          /\ Bulk(c, MW(w)) + x <= Bulk(net, MW(w))
      BY <1>1, <2>1, BulkTake DEF c, x
    <3>2. \A k \in DOMAIN c : MW(w)[k] \in Nat
      BY <1>4, <2>1
    <3>3. Bulk(d, MW(w)) \in Nat /\ Bulk(d, MW(w)) <= Bulk(c, MW(w)) + y
      BY <1>4, <2>6, <3>2, BulkPut DEF d, y
    <3> QED BY <1>0, <2>1, <2>6, <3>1, <3>3
  <2>8. \A k \in Nodes : NodeWeight(w, k) \in Nat
    BY <1>1, NodeWeightNat
  <2>9. \A k \in Nodes \ {n} : NodeWeight(w, k)' <= NodeWeight(w, k)
    <3>1. \A k \in Nodes \ {n} : NodeWeight(w, k)' = NodeWeight(w, k)
      BY <1>0 DEF NodeWeight
    <3> QED BY <2>8, <3>1
  <2>10. \A g \in Forwards : ForwardWeight(w, g)' = ForwardWeight(w, g) /\ ForwardWeight(w, g) \in Nat
    BY <1>0, <1>1, ForwardWeightNat DEF ForwardWeight
  <2>11. NodeWeight(w, n)' \in Nat /\ NodeWeight(w, n)' + y <= NodeWeight(w, n) + x
    <3>1. CASE w = "copies" \/ n \in stored
      <4>1. NodeWeight(w, n)' = NodeWeight(w, n)
        BY <1>0, <3>1 DEF NodeWeight
      <4>2. y <= x
        BY <2>2, <2>5
      <4> QED BY <1>2, <2>1, <2>6, <2>8, <4>1, <4>2
    <3>2. CASE w # "copies" /\ n \notin stored
      <4>1. copies[n] = {} /\ n # Origin
        BY <1>2, <3>2 DEF SprayInv, PlaceInv
      <4>2. NodeWeight(w, n) = 0 /\ NodeWeight(w, n)' = 1
        BY <1>0, <3>2, <4>1 DEF NodeWeight
      <4>3. x = y + 1
        BY <2>2, <2>5, <3>2 DEF Weights
      <4> QED BY <2>6, <4>2, <4>3
    <3> QED BY <3>1, <3>2
  <2>12. PICK f \in Forwards : TRUE
    BY ForwardOf
  <2>13. /\ \A g \in Forwards \ {f} : ForwardWeight(w, g)' <= ForwardWeight(w, g)
         /\ NodeWeight(w, n)' + ForwardWeight(w, f)' + y
                <= NodeWeight(w, n) + ForwardWeight(w, f) + x
    BY <1>2, <2>1, <2>6, <2>8, <2>10, <2>11
  <2> QED BY <1>0, <1>1, <1>2, <1>9, <1>11, <1>13, <2>1, <2>6, <2>7, <2>9, <2>13, WeightStep
          DEF SprayInv
<1>14. WeightInv'
  BY <1>0, <1>9, <1>11, <1>13, WeightKept
<1> QED BY <1>9, <1>10, <1>11, <1>12, <1>14 DEF SprayInv

\* Notify: the counter takes over the share of the message.
LEMMA NotifyNext ==
    ASSUME SprayInv, NEW m \in DOMAIN net, Notify(m)
    PROVE  SprayInv'
<1> DEFINE n == m.to
           c == net (-) SetToBag({m})
<1>1. /\ SprayTypeOK /\ IsABag(net) /\ IsFiniteSet(DOMAIN net) /\ DOMAIN net \subseteq Transfer
      /\ copies \in [Nodes -> Optional] /\ fw \in [Forwards -> ForwardState] /\ m \in Transfer
  BY DEF SprayInv, SprayTypeOK, BagToSet
<1>2. /\ n \in Nodes /\ Share(m) \in Optional /\ Share(m) # {} /\ Number(Share(m)) \in Nat
      /\ m.from # n => Number(Share(m)) = Number(m.block)
      /\ m.from = n => Number(Share(m)) = Copies
      /\ Copies \in Nat /\ Copies > 0
  BY <1>1, ShareFacts, CopiesNat
<1>0. /\ m.kept = TRUE /\ net' = c /\ copies' = [copies EXCEPT ![n] = Share(m)]
      /\ conf' = conf /\ stored' = stored /\ block' = block /\ holders' = holders
      /\ pending' = pending /\ marked' = marked /\ anomalies' = anomalies
      /\ IF n \in pending THEN Idle(n) # {} /\ fw' = Start(n) ELSE fw' = fw
  <2>1. m.kept \in BOOLEAN
    BY <1>1 DEF Transfer
  <2> QED BY <2>1 DEF Notify
<1>3. IsABag(c) /\ DOMAIN c \subseteq DOMAIN net /\ IsFiniteSet(DOMAIN c)
  <2>1. IsABag(c) /\ DOMAIN c \subseteq DOMAIN net
    BY <1>1, BagTake
  <2> HIDE DEF c
  <2> QED BY <1>1, <2>1, FS_Subset
<1> HIDE DEF c
<1>4. n \in stored /\ (m.from = n => n = Origin)
  BY <1>0 DEF SprayInv, PlaceInv
<1>5. PICK f \in Forwards, s \in ForwardState :
          /\ fw' = [fw EXCEPT ![f] = s]
          /\ \/ s = fw[f]
             \/ f[1] = n /\ fw[f].pc = "none" /\ s.pc = "start" /\ s.block = {}
  <2>1. CASE n \in pending
    <3>1. Idle(n) # {} /\ fw' = Start(n)
      BY <1>0, <2>1
    <3>2. PICK f \in Forwards, s \in ForwardState :
              /\ f[1] = n /\ fw[f].pc = "none" /\ s.pc = "start" /\ s.block = {}
              /\ Start(n) = [fw EXCEPT ![f] = s]
      BY <1>1, <1>2, <3>1, Started
    <3> QED BY <3>1, <3>2
  <2>2. CASE n \notin pending
    <3>1. PICK f \in Forwards : TRUE
      BY ForwardOf
    <3>2. fw[f] \in ForwardState /\ fw' = [fw EXCEPT ![f] = fw[f]]
      BY <1>0, <1>1, <2>2
    <3> QED BY <3>2
  <2> QED BY <2>1, <2>2
<1>6. fw'[f] = s /\ (\A g \in Forwards \ {f} : fw'[g] = fw[g]) /\ fw' \in [Forwards -> ForwardState]
  BY <1>1, <1>5
<1>7. /\ copies' \in [Nodes -> Optional] /\ copies'[n] = Share(m)
      /\ \A k \in Nodes \ {n} : copies'[k] = copies[k]
  BY <1>0, <1>1, <1>2
<1>8. SprayTypeOK'
  <2>1. IsABag(net') /\ BagToSet(net') \subseteq Transfer /\ IsFiniteSet(BagToSet(net'))
    BY <1>0, <1>1, <1>3 DEF BagToSet
  <2> HIDE DEF n
  <2> QED BY <1>0, <1>6, <1>7, <2>1, ConfKept DEF SprayInv, SprayTypeOK
<1>9. PlaceInv'
  <2>1. \A k \in Nodes : copies'[k] # {} => k \in stored
    BY <1>4, <1>7 DEF SprayInv, PlaceInv
  <2>2. \A g \in Forwards : fw'[g].pc # "none" => g[1] \in stored
    BY <1>4, <1>5, <1>6 DEF SprayInv, PlaceInv
  <2>3. \A g \in Forwards : fw'[g].pc \in {"load", "send"} => g[1] \notin fw'[g].peers
    BY <1>5, <1>6 DEF SprayInv, PlaceInv
  <2>4. \A k \in DOMAIN net' : /\ k.kept => k.to \in stored
                               /\ k.from = k.to => k.kept /\ k.to = Origin
    BY <1>0, <1>3 DEF SprayInv, PlaceInv
  <2> HIDE DEF n
  <2> QED BY <1>0, <2>1, <2>2, <2>3, <2>4 DEF SprayInv, PlaceInv
<1>10. Uniform("binary") => Number(Share(m)) > 0
  BY <1>2 DEF SprayInv, BinaryInv
<1>11. BinaryInv'
  <2> SUFFICES ASSUME Uniform("binary") PROVE BinaryInv'
    BY <1>0, ConfKept DEF BinaryInv
  <2>1. \A k \in Nodes : copies'[k] # {} => Number(copies'[k]) > 0
    BY <1>7, <1>10 DEF SprayInv, BinaryInv
  <2>2. ASSUME NEW g \in Forwards
        PROVE  /\ fw'[g].pc # "load" /\ (fw'[g].pc = "select" => fw'[g].seen > 1)
               /\ fw'[g].pc = "send" => Number(fw'[g].block) > 0
    BY <1>5, <1>6 DEF SprayInv, BinaryInv
  <2>3. \A k \in DOMAIN net' : k.from # k.to => Number(k.block) > 0
    BY <1>0, <1>3 DEF SprayInv, BinaryInv
  <2> HIDE DEF n
  <2> QED BY <1>0, <2>1, <2>2, <2>3 DEF SprayInv, BinaryInv
<1>12. Uniform("basic") /\ m.from # n => Share(m) = {0}
  BY DEF SprayInv, BasicInv, Share
<1>13. BasicInv'
  <2> SUFFICES ASSUME Uniform("basic") PROVE BasicInv'
    BY <1>0, ConfKept DEF BasicInv
  <2>1. \A g \in Forwards : fw'[g].block = {}
    BY <1>5, <1>6 DEF SprayInv, BasicInv
  <2>2. \A k \in DOMAIN net' : k.block = {}
    BY <1>0, <1>3 DEF SprayInv, BasicInv
  <2>3. ASSUME anomalies = {}
        PROVE  /\ \A k \in Nodes \ {Origin} : copies'[k] \subseteq {0}
               /\ \A g \in Forwards : g[1] # Origin => fw'[g].pc \in {"none", "start", "read", "reset"}
    <3>1. \A k \in Nodes \ {Origin} : copies'[k] \subseteq {0}
      BY <1>4, <1>7, <1>12, <2>3 DEF SprayInv, BasicInv
    <3>2. \A g \in Forwards : g[1] # Origin => fw'[g].pc \in {"none", "start", "read", "reset"}
      BY <1>5, <1>6, <2>3 DEF SprayInv, BasicInv
    <3> QED BY <3>1, <3>2
  <2> HIDE DEF n
  <2> QED BY <1>0, <2>1, <2>2, <2>3 DEF SprayInv, BasicInv
<1>14. ASSUME NEW w \in Weights, Applies(w), Applies(w)' PROVE Weight(w)' <= Weight(w)
  <2> DEFINE x == MW(w)[m]
             share == Number(Share(m))
  <2>1. x \in Nat /\ x = MessageWeight(w, m) /\ \A k \in DOMAIN net : MW(w)[k] \in Nat
    BY <1>14, BulkIsNat DEF SprayInv
  <2>2. Bulk(net', MW(w)) + x <= Bulk(net, MW(w)) + 0
    <3>1. /\ Bulk(c, MW(w)) \in Nat /\ Bulk(net, MW(w)) \in Nat
          /\ Bulk(c, MW(w)) + x <= Bulk(net, MW(w))
      BY <1>1, <2>1, BulkTake DEF c
    <3> QED BY <1>0, <2>1, <3>1
  <2> HIDE DEF x, share
  <2>3. /\ x = IF w = "copies" THEN share ELSE IF w = "binary" THEN share - 1
               ELSE IF m.from = n THEN Copies ELSE 0
    BY <1>0, <2>1 DEF MessageWeight, Weights, share
  <2>4. \A k \in Nodes : NodeWeight(w, k) \in Nat
    BY <1>1, NodeWeightNat
  <2>5. \A k \in Nodes \ {n} : NodeWeight(w, k)' <= NodeWeight(w, k)
    <3>1. \A k \in Nodes \ {n} : NodeWeight(w, k)' = NodeWeight(w, k)
      BY <1>0, <1>7 DEF NodeWeight
    <3> QED BY <2>4, <3>1
  <2>6. \A g \in Forwards : ForwardWeight(w, g)' = ForwardWeight(w, g) /\ ForwardWeight(w, g) \in Nat
    <3>1. \A g \in Forwards : ForwardWeight(w, g)' = ForwardWeight(w, g)
      BY <1>5, <1>6 DEF ForwardWeight
    <3> QED BY <1>1, <3>1, ForwardWeightNat
  <2>7. share \in Nat /\ (w = "binary" => share > 0)
    BY <1>2, <1>10, <1>14 DEF share, Applies
  <2>8. NodeWeight(w, n)' \in Nat /\ NodeWeight(w, n)' <= NodeWeight(w, n) + x
    <3>1. Number(copies'[n]) = share /\ copies'[n] # {}
      BY <1>2, <1>7 DEF share
    <3>2. CASE w = "copies"
      <4>1. NodeWeight(w, n)' = share
        BY <3>1, <3>2 DEF NodeWeight
      <4> QED BY <1>2, <2>3, <2>4, <2>7, <3>2, <4>1
    <3>3. CASE w = "binary"
      <4>1. NodeWeight(w, n)' = share
        BY <1>0, <1>4, <3>1, <3>3 DEF NodeWeight
      <4>2. Number(copies[n]) \in Nat /\ (copies[n] # {} => Number(copies[n]) > 0)
        BY <1>1, <1>2, <1>14, <3>3, OptionalFacts DEF SprayInv, BinaryInv, Applies
      <4>3. NodeWeight(w, n) >= 1
        BY <1>4, <3>3, <4>2 DEF NodeWeight
      <4> QED BY <1>2, <2>3, <2>4, <2>7, <3>3, <4>1, <4>3
    <3>4. CASE w = "basic" /\ m.from = n
      <4>1. NodeWeight(w, n)' = Copies
        BY <1>0, <1>2, <1>4, <3>1, <3>4 DEF NodeWeight, share
      <4> QED BY <1>2, <2>3, <2>4, <3>4, <4>1
    <3>5. CASE w = "basic" /\ m.from # n
      <4>1. share = 0
        BY <1>12, <1>14, <3>5, NumberOf DEF share, Applies
      <4>2. NodeWeight(w, n)' = IF n = Origin THEN 0 ELSE 1
        BY <1>0, <1>4, <3>1, <3>5, <4>1 DEF NodeWeight
      <4>3. n # Origin => NodeWeight(w, n) = 1
        BY <1>4, <3>5 DEF NodeWeight
      <4> QED BY <1>2, <2>1, <2>3, <2>4, <3>5, <4>2, <4>3
    <3> QED BY <3>2, <3>3, <3>4, <3>5 DEF Weights
  <2>9. /\ \A g \in Forwards \ {f} : ForwardWeight(w, g)' <= ForwardWeight(w, g)
        /\ NodeWeight(w, n)' + ForwardWeight(w, f)' + 0
               <= NodeWeight(w, n) + ForwardWeight(w, f) + x
    BY <1>2, <2>1, <2>4, <2>6, <2>8
  <2> QED BY <1>0, <1>1, <1>2, <1>8, <1>11, <1>14, <2>1, <2>2, <2>5, <2>9, WeightStep
          DEF SprayInv
<1>15. WeightInv'
  BY <1>0, <1>8, <1>11, <1>14, WeightKept
<1> QED BY <1>8, <1>9, <1>11, <1>13, <1>15 DEF SprayInv

\* A step after which messages and forwardings are gone, and nothing else happened
\* to the copies.
LEMMA LossStep ==
    ASSUME SprayInv, UNCHANGED <<conf, stored, block, copies, holders, anomalies>>,
           pending' \subseteq stored, marked' \subseteq stored,
           IsABag(net'), DOMAIN net' \subseteq DOMAIN net,
           \A w \in Weights : Applies(w) => Bulk(net', MW(w)) \in Nat
                                            /\ Bulk(net', MW(w)) <= Bulk(net, MW(w)),
           fw' \in [Forwards -> ForwardState],
           \A g \in Forwards : fw'[g] \in {fw[g], NoForward}
    PROVE  SprayInv'
<1>0. /\ conf' = conf /\ stored' = stored /\ block' = block /\ copies' = copies
      /\ holders' = holders /\ anomalies' = anomalies
  OBVIOUS
<1>1. NoForward \in ForwardState /\ NoForward.pc = "none" /\ NoForward.block = {} /\ SprayTypeOK
  BY NoForwardState DEF SprayInv
<1>2. SprayTypeOK'
  <2>1. BagToSet(net') \subseteq Transfer /\ IsFiniteSet(BagToSet(net'))
    BY FS_Subset DEF SprayInv, SprayTypeOK, BagToSet
  <2> QED BY <1>0, <2>1, ConfKept DEF SprayInv, SprayTypeOK
<1>3. PlaceInv'
  <2>1. \A g \in Forwards : /\ fw'[g].pc # "none" => g[1] \in stored
                            /\ fw'[g].pc \in {"load", "send"} => g[1] \notin fw'[g].peers
    BY <1>1 DEF SprayInv, PlaceInv
  <2>2. \A k \in DOMAIN net' : /\ k.kept => k.to \in stored
                               /\ k.from = k.to => k.kept /\ k.to = Origin
    BY DEF SprayInv, PlaceInv
  <2> QED BY <1>0, <2>1, <2>2 DEF SprayInv, PlaceInv
<1>4. BinaryInv'
  <2> SUFFICES ASSUME Uniform("binary") PROVE BinaryInv'
    BY <1>0, ConfKept DEF BinaryInv
  <2>1. ASSUME NEW g \in Forwards
        PROVE  /\ fw'[g].pc # "load" /\ (fw'[g].pc = "select" => fw'[g].seen > 1)
               /\ fw'[g].pc = "send" => Number(fw'[g].block) > 0
    BY <1>1 DEF SprayInv, BinaryInv
  <2>2. \A k \in DOMAIN net' : k.from # k.to => Number(k.block) > 0
    BY DEF SprayInv, BinaryInv
  <2> QED BY <1>0, <2>1, <2>2 DEF SprayInv, BinaryInv
<1>5. BasicInv'
  <2> SUFFICES ASSUME Uniform("basic") PROVE BasicInv'
    BY <1>0, ConfKept DEF BasicInv
  <2>1. \A g \in Forwards : fw'[g].block = {}
    BY <1>1 DEF SprayInv, BasicInv
  <2>2. \A k \in DOMAIN net' : k.block = {}
    BY DEF SprayInv, BasicInv
  <2>3. ASSUME anomalies = {}, NEW g \in Forwards, g[1] # Origin
        PROVE  fw'[g].pc \in {"none", "start", "read", "reset"}
    <3>1. fw[g].pc \in {"none", "start", "read", "reset"}
      BY <2>3 DEF SprayInv, BasicInv
    <3> QED BY <1>1, <3>1
  <2> QED BY <1>0, <2>1, <2>2, <2>3 DEF SprayInv, BasicInv
<1>6. ASSUME NEW w \in Weights, Applies(w), Applies(w)' PROVE Weight(w)' <= Weight(w)
  <2>1. \A k \in Nodes : NodeWeight(w, k)' = NodeWeight(w, k) /\ NodeWeight(w, k) \in Nat
    BY <1>0, <1>1, NodeWeightNat DEF NodeWeight
  <2>2. \A g \in Forwards : ForwardWeight(w, g) \in Nat
    BY <1>1, ForwardWeightNat
  <2>3. \A g \in Forwards : ForwardWeight(w, g)' \in {ForwardWeight(w, g), 0}
    BY <1>1 DEF ForwardWeight
  <2>4. \A g \in Forwards : /\ ForwardWeight(w, g)' \in Nat
                            /\ ForwardWeight(w, g)' <= ForwardWeight(w, g)
    BY <2>2, <2>3
  <2>5. Bulk(net', MW(w)) + 0 <= Bulk(net, MW(w)) + 0
    <3>1. Bulk(net, MW(w)) \in Nat
      BY <1>6, BulkIsNat DEF SprayInv
    <3> QED BY <1>6, <3>1
  <2>6. PICK f \in Forwards : TRUE
    BY ForwardOf
  <2>7. Origin \in Nodes
    BY SprayAssumption
  <2>8. /\ \A k \in Nodes \ {Origin} : NodeWeight(w, k)' <= NodeWeight(w, k)
        /\ \A g \in Forwards \ {f} : ForwardWeight(w, g)' <= ForwardWeight(w, g)
        /\ NodeWeight(w, Origin)' + ForwardWeight(w, f)' + 0
               <= NodeWeight(w, Origin) + ForwardWeight(w, f) + 0
    BY <2>1, <2>2, <2>4, <2>7
  <2> QED BY <1>0, <1>1, <1>2, <1>4, <1>6, <2>5, <2>7, <2>8, WeightStep DEF SprayInv
<1>7. WeightInv'
  BY <1>0, <1>2, <1>4, <1>6, WeightKept
<1> QED BY <1>2, <1>3, <1>4, <1>5, <1>7 DEF SprayInv

\* Lose: the share of a lost message is lost.
LEMMA LoseNext ==
    ASSUME SprayInv, NEW m \in DOMAIN net, Lose(m)
    PROVE  SprayInv'
<1> DEFINE c == net (-) SetToBag({m})
<1>0. /\ net' = c /\ fw' = fw /\ pending' = pending /\ marked' = marked
      /\ UNCHANGED <<conf, stored, block, copies, holders, anomalies>>
  BY DEF Lose
<1>1. SprayTypeOK /\ IsABag(net) /\ IsFiniteSet(DOMAIN net)
  BY DEF SprayInv, SprayTypeOK, BagToSet
<1>2. IsABag(c) /\ DOMAIN c \subseteq DOMAIN net
  BY <1>1, BagTake
<1>3. ASSUME NEW w \in Weights, Applies(w)
      PROVE  Bulk(c, MW(w)) \in Nat /\ Bulk(c, MW(w)) <= Bulk(net, MW(w))
  <2>1. \A k \in DOMAIN net : MW(w)[k] \in Nat
    BY <1>3, BulkIsNat DEF SprayInv
  <2>2. /\ Bulk(c, MW(w)) \in Nat /\ Bulk(net, MW(w)) \in Nat
        /\ Bulk(c, MW(w)) + MW(w)[m] <= Bulk(net, MW(w))
    BY <1>1, <2>1, BulkTake
  <2> HIDE DEF c
  <2> QED BY <2>1, <2>2
<1> HIDE DEF c
<1>4. fw' \in [Forwards -> ForwardState] /\ \A g \in Forwards : fw'[g] \in {fw[g], NoForward}
  BY <1>0, <1>1 DEF SprayTypeOK
<1>5. pending' \subseteq stored /\ marked' \subseteq stored
  BY <1>0, <1>1 DEF SprayTypeOK
<1> QED BY <1>0, <1>2, <1>3, <1>4, <1>5, LossStep

\* Restart: so are the shares its goroutines had taken, and the messages a node
\* has kept and not been notified of.
LEMMA RestartNext ==
    ASSUME SprayInv, NEW n \in Nodes, Restart(n)
    PROVE  SprayInv'
<1> DEFINE D == {m \in DOMAIN net : ~(m.kept /\ m.to = n)}
           c == [m \in D |-> net[m]]
<1>0. /\ net' = c /\ fw' = [f \in Forwards |-> IF f[1] = n THEN NoForward ELSE fw[f]]
      /\ n \in stored /\ pending' = pending \cup {n} /\ marked' = marked \ {n}
      /\ UNCHANGED <<conf, stored, block, copies, holders, anomalies>>
  BY DEF Restart
<1>1. SprayTypeOK /\ IsABag(net) /\ IsFiniteSet(DOMAIN net) /\ NoForward \in ForwardState
  BY NoForwardState DEF SprayInv, SprayTypeOK, BagToSet
<1>2. D \in SUBSET DOMAIN net
  OBVIOUS
<1> HIDE DEF D
<1>3. IsABag(c) /\ DOMAIN c \subseteq DOMAIN net
  BY <1>1, <1>2 DEF IsABag
<1>4. ASSUME NEW w \in Weights, Applies(w)
      PROVE  Bulk(c, MW(w)) \in Nat /\ Bulk(c, MW(w)) <= Bulk(net, MW(w))
  <2>1. \A k \in DOMAIN net : MW(w)[k] \in Nat
    BY <1>4, BulkIsNat DEF SprayInv
  <2> QED BY <1>1, <1>2, <2>1, BulkKeep
<1> HIDE DEF c
<1>5. fw' \in [Forwards -> ForwardState] /\ \A g \in Forwards : fw'[g] \in {fw[g], NoForward}
  BY <1>0, <1>1 DEF SprayTypeOK
<1>6. pending' \subseteq stored /\ marked' \subseteq stored
  BY <1>0, <1>1 DEF SprayTypeOK
<1> QED BY <1>0, <1>3, <1>4, <1>5, <1>6, LossStep

-----------------------------------------------------------------------------
(* The invariant and what follows from it *)

\* The bundle begins with its copies.
LEMMA InitInv == SprayInit => SprayInv
<1> SUFFICES ASSUME SprayInit PROVE SprayInv
  OBVIOUS
<1> DEFINE m == [from |-> Origin, to |-> Origin, block |-> {}, kept |-> TRUE]
<1>1. /\ conf \in Configs /\ stored = {Origin} /\ pending = {Origin} /\ marked = {}
      /\ block = [n \in Nodes |-> {}] /\ copies = [n \in Nodes |-> {}]
      /\ holders = [n \in Nodes |-> IF n = Origin THEN {n} ELSE {}]
      /\ net = SetToBag({m}) /\ fw = [f \in Forwards |-> NoForward] /\ anomalies = {}
      /\ Origin \in Nodes /\ IsFiniteSet(Nodes)
  BY SprayAssumption DEF SprayInit
<1>2. Copies \in Nat /\ Copies > 0
  BY <1>1, SprayAssumption DEF Copies
<1>3. 0 \in Count /\ {} \in Optional
  BY <1>2 DEF Count, Optional
<1>4. NoForward \in ForwardState /\ NoForward.pc = "none" /\ NoForward.block = {}
  BY <1>3 DEF NoForward, ForwardAt, ForwardState
<1>5. m \in Transfer /\ m.from = Origin /\ m.to = Origin /\ m.block = {} /\ m.kept = TRUE
  BY <1>1, <1>3 DEF Transfer
<1> HIDE DEF m
<1>6. IsABag(net) /\ DOMAIN net = {m} /\ net[m] = 1 /\ IsFiniteSet({m})
  <2>1. IsFiniteSet({m})
    BY FS_Singleton
  <2>2. IsABag(net) /\ DOMAIN net = {m} /\ net[m] = 1
    BY <1>1 DEF IsABag, SetToBag
  <2> QED BY <2>1, <2>2
<1>7. SprayTypeOK
  <2>1. BagToSet(net) \subseteq Transfer /\ IsFiniteSet(BagToSet(net))
    BY <1>5, <1>6 DEF BagToSet
  <2>2. /\ block \in [Nodes -> Optional] /\ copies \in [Nodes -> Optional]
        /\ fw \in [Forwards -> ForwardState]
    BY <1>1, <1>3, <1>4
  <2>3. holders \in [Nodes -> SUBSET Nodes]
    BY <1>1
  <2> QED BY <1>1, <1>6, <2>1, <2>2, <2>3 DEF SprayTypeOK
<1>8. \A f \in Forwards : fw[f].pc = "none" /\ fw[f].block = {}
  BY <1>1, <1>4
<1>9. PlaceInv
  <2>1. \A n \in stored : n \in holders[n]
    BY <1>1
  <2>2. \A n \in Nodes : copies[n] = {}
    BY <1>1
  <2> QED BY <1>1, <1>5, <1>6, <1>8, <2>1, <2>2 DEF PlaceInv
<1>10. BinaryInv
  <2>1. \A n \in Nodes : copies[n] = {}
    BY <1>1
  <2> QED BY <1>5, <1>6, <1>8, <2>1 DEF BinaryInv
<1>11. BasicInv
  <2>1. \A n \in Nodes : copies[n] = {} /\ block[n] = {}
    BY <1>1
  <2> QED BY <1>5, <1>6, <1>8, <2>1 DEF BasicInv
<1>12. ASSUME NEW w \in Weights, Applies(w) PROVE Weight(w) <= Copies
  <2>1. SumFunctionOnSet(FW(w), Forwards) = 0
    <3>1. \A f \in Forwards : FW(w)[f] = 0
      BY <1>8 DEF FW, ForwardWeight
    <3> QED BY <3>1, ForwardsFinite, SumZero
  <2>2. Number({}) = 0
    BY DEF Number
  <2>3. /\ NW(w)[Origin] = IF w = "binary" THEN 1 ELSE 0
        /\ \A n \in Nodes \ {Origin} : NW(w)[n] = 0
    BY <1>1, <2>2 DEF NW, NodeWeight, Weights
  <2>4. SumFunctionOnSet(NW(w), Nodes) = NW(w)[Origin]
    <3>1. NW(w)[Origin] \in Nat
      BY <2>3
    <3> QED BY <1>1, <2>3, <3>1, SumOne
  <2>5. MW(w)[m] = IF w = "binary" THEN Copies - 1 ELSE Copies
    <3>1. Number(Share(m)) = Copies
      BY <1>5, <1>7, ShareFacts
    <3> QED BY <1>5, <3>1 DEF MW, MessageWeight, Weights
  <2>6. Bulk(net, MW(w)) = MW(w)[m]
    <3> DEFINE g == [k \in {m} |-> net[k] * MW(w)[k]]
    <3>1. MW(w)[m] \in Nat
      BY <1>2, <2>5
    <3>2. g[m] = MW(w)[m]
      BY <1>6, <3>1
    <3>3. Bulk(net, MW(w)) = SumFunctionOnSet(g, {m})
      BY <1>6 DEF Bulk
    <3> HIDE DEF g
    <3> QED BY <1>6, <3>1, <3>2, <3>3, SumOne
  <2>7. Weight(w) = SumFunctionOnSet(NW(w), Nodes) + SumFunctionOnSet(FW(w), Forwards)
                    + Bulk(net, MW(w))
    BY <1>7, WeightSums
  <2> QED BY <1>2, <2>1, <2>3, <2>4, <2>5, <2>6, <2>7
<1>13. WeightInv
  BY <1>12 DEF WeightInv
<1> QED BY <1>7, <1>9, <1>10, <1>11, <1>13 DEF SprayInv

\* Every step of the network keeps the invariant.
LEMMA NextInv == SprayInv /\ [SprayNext]_sprayVars => SprayInv'
<1> SUFFICES ASSUME SprayInv, [SprayNext]_sprayVars PROVE SprayInv'
  OBVIOUS
<1>1. ASSUME NEW m \in BagToSet(net), Insert(m) \/ Notify(m) \/ Lose(m) PROVE SprayInv'
  <2>1. m \in DOMAIN net
    BY DEF BagToSet
  <2> QED BY <1>1, <2>1, InsertNext, NotifyNext, LoseNext
<1>2. ASSUME NEW n \in Nodes, Dispatch(n) \/ Restart(n) PROVE SprayInv'
  BY <1>2, DispatchNext, RestartNext
<1>3. ASSUME NEW f \in Forwards, Forward(f) PROVE SprayInv'
  <2>1. CASE \/ FwMark(f) \/ FwNoPeers(f) \/ FwLoad(f) \/ FwLoadFails(f) \/ FwReset(f) \/ FwDone(f)
             \/ \E p \in Nodes : FwSendFails(f, p) \/ FwAddKnownHolder(f, p)
    BY <2>1, QuietSteps
  <2>2. CASE FwSelect(f)
    BY <2>2, FwSelectNext
  <2>3. ASSUME NEW peers \in SUBSET Neighbours[f[1]], FwRead(f, peers) PROVE SprayInv'
    <3>1. peers \in SUBSET Nodes
      BY ForwardNode, SprayAssumption
    <3> QED BY <2>3, <3>1, FwReadNext
  <2>4. ASSUME NEW p \in Nodes, FwSend(f, p) PROVE SprayInv'
    BY <2>4, FwSendNext
  <2> QED BY <1>3, <2>1, <2>2, <2>3, <2>4 DEF Forward
<1>4. CASE UNCHANGED sprayVars
  <2>0. /\ conf' = conf /\ stored' = stored /\ block' = block /\ copies' = copies
        /\ holders' = holders /\ pending' = pending /\ marked' = marked /\ net' = net
        /\ fw' = fw /\ anomalies' = anomalies
    BY <1>4 DEF sprayVars
  <2>1. SprayTypeOK /\ IsABag(net)
    BY DEF SprayInv, SprayTypeOK
  <2>2. ASSUME NEW w \in Weights, Applies(w)
        PROVE  Bulk(net', MW(w)) \in Nat /\ Bulk(net', MW(w)) <= Bulk(net, MW(w))
    <3>1. Bulk(net, MW(w)) \in Nat
      BY <2>2, BulkIsNat DEF SprayInv
    <3> QED BY <2>0, <3>1
  <2>3. fw' \in [Forwards -> ForwardState] /\ \A g \in Forwards : fw'[g] \in {fw[g], NoForward}
    BY <2>0, <2>1 DEF SprayTypeOK
  <2>4. /\ UNCHANGED <<conf, stored, block, copies, holders, anomalies>>
        /\ pending' \subseteq stored /\ marked' \subseteq stored
        /\ IsABag(net') /\ DOMAIN net' \subseteq DOMAIN net
    BY <2>0, <2>1 DEF SprayTypeOK
  <2> QED BY <2>2, <2>3, <2>4, LossStep
<1> QED BY <1>1, <1>2, <1>3, <1>4 DEF SprayNext

\* SprayInv is an invariant of the network, in every configuration and for every
\* number of nodes: the weights of what is stored, taken and under way never
\* exceed the copies the bundle began with.
THEOREM SprayInvAlways == SpraySpec => []SprayInv
<1> QED BY InitInv, NextInv, PTL DEF SpraySpec

\* All copies there are weigh what Weight("copies") says.
LEMMA CopiesAreWeight == AllCopies = Weight("copies")
<1>1. \A n \in Nodes : NodeWeight("copies", n) = Number(copies[n])
  BY DEF NodeWeight
<1>2. \A f \in Forwards : ForwardWeight("copies", f) = Taken(f)
  BY DEF ForwardWeight, Taken
<1>3. \A m \in DOMAIN net : MessageWeight("copies", m) = Number(Share(m))
  BY DEF MessageWeight
<1>4. /\ [n \in Nodes |-> NodeWeight("copies", n)] = [n \in Nodes |-> Number(copies[n])]
      /\ [f \in Forwards |-> ForwardWeight("copies", f)] = [f \in Forwards |-> Taken(f)]
      /\ [m \in DOMAIN net |-> MessageWeight("copies", m)]
             = [m \in DOMAIN net |-> Number(Share(m))]
  BY <1>1, <1>2, <1>3
<1> QED BY <1>4 DEF AllCopies, Weight

\* Binary spray and wait (selectBinarySpray, NotifyReceivedBundle) makes no copy:
\* counters, forwardings and messages together never hold more than router.copies,
\* as long as no node forwards before it is notified or with a stale counter.
THEOREM SprayConservesCopies == SpraySpec => []CopiesConserved
<1>1. SprayInv => CopiesConserved
  <2> SUFFICES ASSUME SprayInv, Uniform("binary"), anomalies = {} PROVE AllCopies <= Copies
    BY DEF CopiesConserved
  <2>1. "copies" \in Weights /\ Applies("copies")
    BY DEF Weights, Applies
  <2> QED BY <2>1, CopiesAreWeight DEF SprayInv, WeightInv
<1> QED BY <1>1, SprayInvAlways, PTL

\* So at most router.copies nodes ever have the bundle, in basic mode besides its
\* origin.
THEOREM SprayBoundsCarriers == SpraySpec => []CarriersBounded
<1>1. SprayInv => CarriersBounded
  <2> SUFFICES ASSUME SprayInv, anomalies = {} PROVE CarriersBounded
    BY DEF CarriersBounded
  <2>1. ASSUME NEW w \in Weights, Applies(w), NEW R \in SUBSET Nodes,
               \A n \in R : NodeWeight(w, n) >= 1
        PROVE  Cardinality(R) <= Copies
    <3>1. SumFunctionOnSet(FW(w), Forwards) \in Nat
      BY ForwardWeightNat, ForwardsFinite, SumNat DEF SprayInv
    <3>2. Bulk(net, MW(w)) \in Nat
      BY <2>1, BulkIsNat DEF SprayInv
    <3>3. \A n \in Nodes : NW(w)[n] \in Nat /\ NW(w)[n] = NodeWeight(w, n)
      BY NodeWeightNat DEF SprayInv
    <3>4. /\ SumFunctionOnSet(NW(w), Nodes) \in Nat /\ Cardinality(R) \in Nat
          /\ Cardinality(R) <= SumFunctionOnSet(NW(w), Nodes)
      <4>1. \A n \in R : NW(w)[n] >= 1
        BY <2>1, <3>3
      <4> QED BY <3>3, <4>1, SprayAssumption, SumNat, SumCounts
    <3>5. /\ Weight(w) <= Copies /\ Copies \in Nat
          /\ Weight(w) = SumFunctionOnSet(NW(w), Nodes) + SumFunctionOnSet(FW(w), Forwards)
                         + Bulk(net, MW(w))
      BY <2>1, WeightSums, CopiesNat DEF SprayInv, WeightInv
    <3> QED BY <3>1, <3>2, <3>4, <3>5
  <2>2. stored \subseteq Nodes
    BY DEF SprayInv, SprayTypeOK
  <2>3. ASSUME Uniform("binary") PROVE Cardinality(stored) <= Copies
    <3>1. "binary" \in Weights /\ Applies("binary")
      BY <2>3 DEF Weights, Applies
    <3>2. ASSUME NEW n \in stored PROVE NodeWeight("binary", n) >= 1
      <4>1. Number(copies[n]) \in Nat
        BY <2>2, OptionalFacts DEF SprayInv, SprayTypeOK
      <4>2. copies[n] # {} => Number(copies[n]) > 0
        BY <2>2, <2>3 DEF SprayInv, BinaryInv
      <4> QED BY <4>1, <4>2 DEF NodeWeight
    <3> QED BY <2>1, <2>2, <3>1, <3>2
  <2>4. ASSUME Uniform("basic") PROVE Cardinality(stored \ {Origin}) <= Copies
    <3>1. "basic" \in Weights /\ Applies("basic")
      BY <2>4 DEF Weights, Applies
    <3>2. \A n \in stored \ {Origin} : NodeWeight("basic", n) >= 1
      BY DEF NodeWeight
    <3> QED BY <2>1, <2>2, <3>1, <3>2
  <2> QED BY <2>3, <2>4 DEF CarriersBounded
<1> QED BY <1>1, SprayInvAlways, PTL
=============================================================================
