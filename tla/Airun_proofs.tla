------------------------------ MODULE Airun_proofs -----------------------------
(***************************************************************************)
(* The sessions.  What is stored is what a run, an import or a request     *)
(* made of its spans, for any processes, runs, payloads and commands       *)
(* (StoreInv), and what a command shows is what its operator makes of its  *)
(* argument or of what it has read (ShownInv).  The properties of what is  *)
(* shown then are facts about the operators; where these recurse, or sum,  *)
(* the argument is by a least counterexample.                              *)
(***************************************************************************)
EXTENDS Airun, FiniteSetTheorems, SequenceTheorems, TLAPS

----------
(* Natural numbers and finite sets *)

\* Every set of natural numbers that is not empty has a least element: what
\* stands for induction below.
LEMMA LeastOf ==
  ASSUME NEW S \in SUBSET Nat, S # {}
  PROVE  \E n \in S : \A m \in S : n <= m
<1>1. PICK n \in S : \A m \in S : ~ (<<m, n>> \in OpToRel(<, Nat))
  BY NatLessThanWellFounded, WFMin
<1>2. \A m \in S : ~ (m < n)
  BY <1>1 DEF OpToRel
<1> QED BY <1>2

\* A finite set of integers that is not empty has a greatest element.
LEMMA GreatestOf ==
  ASSUME NEW S \in SUBSET Int, IsFiniteSet(S), S # {}
  PROVE  \E n \in S : \A m \in S : m <= n
<1> DEFINE Above(n) == {m \in S : n < m}
<1> DEFINE T == {Cardinality(Above(n)) : n \in S}
<1>1. \A n \in S : IsFiniteSet(Above(n)) /\ Cardinality(Above(n)) \in Nat
  BY FS_Subset, FS_CardinalityType
<1>2. T \in SUBSET Nat /\ T # {}
  BY <1>1
<1>3. PICK c \in T : \A d \in T : c <= d
  BY <1>2, LeastOf
<1>4. PICK n \in S : c = Cardinality(Above(n))
  BY <1>3
<1>5. ASSUME NEW m \in S, n < m PROVE FALSE
  <2>4. m \in Int /\ n \in Int
    OBVIOUS
  <2>5. ASSUME NEW i \in S, m < i PROVE n < i
    <3>1. i \in Int
      OBVIOUS
    <3> QED BY <1>5, <2>4, <2>5, <3>1
  <2>6. Above(m) \subseteq Above(n)
    BY <2>5
  <2>7. m \in Above(n) /\ m \notin Above(m)
    BY <1>5, <2>4
  <2>1. Above(m) \subseteq Above(n) /\ m \in Above(n) /\ m \notin Above(m)
    BY <2>6, <2>7
  <2>2. /\ Cardinality(Above(m)) <= Cardinality(Above(n))
        /\ Cardinality(Above(m)) # Cardinality(Above(n))
    BY <2>1, <1>1, FS_Subset
  <2>3. c <= Cardinality(Above(m))
    BY <1>3
  <2> QED BY <2>2, <2>3, <1>4, <1>1
<1> QED BY <1>5

----------
(* Ranks *)

\* R puts the elements of K in a strict order.
Orders(R, K) ==
  /\ \A k \in K : <<k, k>> \notin R
  /\ \A j, k \in K : j # k => <<j, k>> \in R \/ <<k, j>> \in R
  /\ \A i, j, k \in K : <<i, j>> \in R /\ <<j, k>> \in R => <<i, k>> \in R

Below(K, R, k) == {j \in K : <<j, k>> \in R}

\* What comes before has a lower rank.
LEMMA RankGrows ==
  ASSUME NEW K, IsFiniteSet(K), NEW R, Orders(R, K),
         NEW j \in K, NEW k \in K, <<j, k>> \in R
  PROVE  Cardinality(Below(K, R, j)) < Cardinality(Below(K, R, k))
<1>1. Below(K, R, j) \in SUBSET Below(K, R, k)
  BY DEF Below, Orders
<1>2. j \in Below(K, R, k) /\ j \notin Below(K, R, j)
  BY DEF Below, Orders
<1>3. IsFiniteSet(Below(K, R, k))
  BY FS_Subset DEF Below
<1>4. /\ Cardinality(Below(K, R, j)) <= Cardinality(Below(K, R, k))
      /\ Cardinality(Below(K, R, k)) # Cardinality(Below(K, R, j))
  BY <1>1, <1>2, <1>3, FS_Subset
<1> QED BY <1>1, <1>3, <1>4, FS_CardinalityType, FS_Subset

\* The ranks of a finite set are the numbers below its cardinality.
LEMMA RanksAreTaken ==
  ASSUME NEW K, IsFiniteSet(K), NEW R, Orders(R, K),
         NEW n \in 1..Cardinality(K)
  PROVE  \E k \in K : Cardinality(Below(K, R, k)) = n - 1
<1> DEFINE N == Cardinality(K)
           f == [k \in K |-> Cardinality(Below(K, R, k)) + 1]
<1>0. N \in Nat
  BY FS_CardinalityType
<1>1. ASSUME NEW k \in K PROVE f[k] \in 1..N
  <2>1. Below(K, R, k) \in SUBSET K /\ k \in K \ Below(K, R, k)
    BY DEF Below, Orders
  <2>2. /\ IsFiniteSet(Below(K, R, k))
        /\ Cardinality(Below(K, R, k)) <= N /\ Cardinality(Below(K, R, k)) # N
    BY <2>1, FS_Subset
  <2>3. Cardinality(Below(K, R, k)) \in Nat
    BY <2>2, FS_CardinalityType
  <2> QED BY <2>2, <2>3, <1>0
<1>2. ASSUME NEW j \in K, NEW k \in K, j # k PROVE f[j] # f[k]
  <2>1. \A i \in K : Cardinality(Below(K, R, i)) \in Nat
    BY <1>1, FS_Subset, FS_CardinalityType DEF Below
  <2>2. CASE <<j, k>> \in R
    <3>1. Cardinality(Below(K, R, j)) < Cardinality(Below(K, R, k))
      BY <2>2, RankGrows
    <3> QED BY <3>1, <2>1
  <2>3. CASE <<k, j>> \in R
    <3>1. Cardinality(Below(K, R, k)) < Cardinality(Below(K, R, j))
      BY <2>3, RankGrows
    <3> QED BY <3>1, <2>1
  <2> QED BY <1>2, <2>2, <2>3 DEF Orders
<1>3. f \in Injection(K, 1..N)
  BY <1>1, <1>2 DEF Injection, IsInjective
<1>4. IsFiniteSet(1..N) /\ Cardinality(1..N) = N
  BY <1>0, FS_Interval
<1>5. f \in Surjection(K, 1..N)
  BY <1>3, <1>4, FS_Injection
<1>6. PICK k \in K : f[k] = n
  BY <1>5 DEF Surjection
<1>7. Cardinality(Below(K, R, k)) \in Nat
  BY FS_Subset, FS_CardinalityType DEF Below
<1> QED BY <1>6, <1>7

\* s lists the elements of K in the order R.
Lists(s, K, R) ==
  /\ s = [n \in 1..Cardinality(K) |-> s[n]]
  /\ Cardinality(K) \in Nat /\ Len(s) = Cardinality(K)
  /\ \A n \in 1..Cardinality(K) : s[n] \in K /\ Cardinality(Below(K, R, s[n])) = n - 1
  /\ \A m, n \in 1..Cardinality(K) : m < n <=> <<s[m], s[n]>> \in R
  /\ \A m, n \in 1..Cardinality(K) : s[m] = s[n] => m = n
  /\ \A k \in K : \E n \in 1..Cardinality(K) : s[n] = k

\* A sequence that has at each place what has that rank lists the set in order.
LEMMA ByRankLists ==
  ASSUME NEW K, IsFiniteSet(K), NEW R, Orders(R, K), NEW s,
         s = [n \in 1..Cardinality(K) |-> s[n]],
         \A n \in 1..Cardinality(K) :
           s[n] \in K /\ Cardinality(Below(K, R, s[n])) = n - 1
  PROVE  Lists(s, K, R)
<1>1. Cardinality(K) \in Nat
  BY FS_CardinalityType
<1>2. s \in Seq(K) /\ Len(s) = Cardinality(K)
  BY <1>1
<1>3. ASSUME NEW m \in 1..Cardinality(K), NEW n \in 1..Cardinality(K), <<s[m], s[n]>> \in R
      PROVE  m < n
  BY <1>3, RankGrows, <1>1
<1>4. ASSUME NEW m \in 1..Cardinality(K), NEW n \in 1..Cardinality(K), m < n
      PROVE  <<s[m], s[n]>> \in R
  <2>1. s[m] # s[n]
    BY <1>4, <1>1
  <2>2. m \in Nat /\ n \in Nat /\ ~ (n < m)
    BY <1>4, <1>1
  <2>3. <<s[n], s[m]>> \in R => n < m
    BY <1>3
  <2> QED BY <2>1, <2>2, <2>3 DEF Orders
<1>5. ASSUME NEW k \in K PROVE \E n \in 1..Cardinality(K) : s[n] = k
  <2>1. Cardinality(Below(K, R, k)) \in Nat /\ k \notin Below(K, R, k)
    BY FS_Subset, FS_CardinalityType DEF Below, Orders
  <2>2. /\ Cardinality(Below(K, R, k)) <= Cardinality(K)
        /\ Cardinality(Below(K, R, k)) # Cardinality(K)
    BY <2>1, FS_Subset DEF Below
  <2>5. Cardinality(Below(K, R, k)) + 1 \in 1..Cardinality(K)
    BY <2>1, <2>2, <1>1
  <2>3. PICK n \in 1..Cardinality(K) : n = Cardinality(Below(K, R, k)) + 1
    BY <2>5
  <2>4. s[n] # k => FALSE
    <3>1. CASE <<s[n], k>> \in R
      BY <3>1, <2>3, <2>1, RankGrows
    <3>2. CASE <<k, s[n]>> \in R
      BY <3>2, <2>3, <2>1, RankGrows
    <3> QED BY <3>1, <3>2, <1>1 DEF Orders
  <2> QED BY <2>4
<1>6. \A m, n \in 1..Cardinality(K) : s[m] = s[n] => m = n
  BY <1>1
<1> QED BY <1>1, <1>2, <1>3, <1>4, <1>5, <1>6 DEF Lists

----------
(* Places *)

\* The pairs of integers of which the first is the smaller.
Smaller == {x \in Int \X Int : x[1] < x[2]}

InOrder(K) == Ranked(K, <)

LEMMA SmallerOrders ==
  ASSUME NEW K \in SUBSET Int
  PROVE  Orders(Smaller, K)
  BY DEF Orders, Smaller

\* Ranked() by size lists a set of integers.
LEMMA InOrderLists ==
  ASSUME NEW K \in SUBSET Int, IsFiniteSet(K)
  PROVE  Lists(InOrder(K), K, Smaller)
<1>1. Orders(Smaller, K)
  BY SmallerOrders
<1>2. \A k \in K : {j \in K : j < k} = Below(K, Smaller, k)
  BY DEF Below, Smaller
<1>3. InOrder(K) = [n \in 1..Cardinality(K) |->
                      CHOOSE k \in K : Cardinality({j \in K : j < k}) = n - 1]
  BY DEF InOrder, Ranked
<1>4. ASSUME NEW n \in 1..Cardinality(K)
      PROVE  InOrder(K)[n] \in K /\ Cardinality(Below(K, Smaller, InOrder(K)[n])) = n - 1
  <2>0. PICK k \in K : Cardinality(Below(K, Smaller, k)) = n - 1
    BY <1>1, RanksAreTaken
  <2>1. \E i \in K : Cardinality({j \in K : j < i}) = n - 1
    BY <2>0, <1>2
  <2>2. InOrder(K)[n] \in K /\ Cardinality({j \in K : j < InOrder(K)[n]}) = n - 1
    BY <2>1, <1>3
  <2> QED BY <2>2, <1>2
<1>5. InOrder(K) = [n \in 1..Cardinality(K) |-> InOrder(K)[n]]
  BY <1>3
<1> QED BY <1>1, <1>4, <1>5, ByRankLists

----------
(* Sums *)

AnyOf(S) == CHOOSE x \in S : TRUE

\* What the fold of a sum does to a part S of the domain of g, if it is known of
\* smaller parts.
SumStep(sum, g, S) == IF S = {} THEN 0 ELSE g[AnyOf(S)] + sum[S \ {AnyOf(S)}]

SumsUp(sum, D, g) == sum = [S \in SUBSET D |-> SumStep(sum, g, S)]

\* The sum of the values that g has in S.
SumOver(g, S) == (CHOOSE sum : SumsUp(sum, DOMAIN g, g))[S]

\* Parts of a finite set with an element less.
LEMMA OneLess ==
  ASSUME NEW D, IsFiniteSet(D), NEW S \in SUBSET D, NEW x \in S
  PROVE  /\ IsFiniteSet(S) /\ S \ {x} \in SUBSET D
         /\ Cardinality(S) \in Nat /\ Cardinality(S) # 0
         /\ Cardinality(S \ {x}) = Cardinality(S) - 1
<1>1. IsFiniteSet(S)
  BY FS_Subset
<1>2. Cardinality(S) \in Nat /\ Cardinality(S) # 0
  BY <1>1, FS_CardinalityType, FS_EmptySet
<1>3. Cardinality(S \ {x}) = Cardinality(S) - 1
  BY <1>1, FS_RemoveElement
<1> QED BY <1>1, <1>2, <1>3

\* A set of parts of a finite set that is not empty has one of least size.
LEMMA SmallestPart ==
  ASSUME NEW D, IsFiniteSet(D), NEW T \in SUBSET SUBSET D, T # {}
  PROVE  \E S \in T : \A U \in SUBSET D : Cardinality(U) < Cardinality(S) => U \notin T
<1> DEFINE Sizes == {Cardinality(S) : S \in T}
<1>1. \A S \in T : Cardinality(S) \in Nat
  BY FS_Subset, FS_CardinalityType
<1>2. Sizes \in SUBSET Nat /\ Sizes # {}
  BY <1>1
<1>3. PICK c \in Sizes : \A d \in Sizes : c <= d
  BY <1>2, LeastOf
<1>4. PICK S \in T : c = Cardinality(S)
  BY <1>3
<1>5. ASSUME NEW U \in SUBSET D, Cardinality(U) < Cardinality(S), U \in T PROVE FALSE
  <2>1. c <= Cardinality(U)
    BY <1>5, <1>3
  <2> QED BY <2>1, <1>5, <1>4, <1>1
<1> QED BY <1>5

Parts(D, n) == {S \in SUBSET D : Cardinality(S) <= n}

\* The fold is defined: on the parts up to any size, hence on all.
LEMMA SumExists ==
  ASSUME NEW D, IsFiniteSet(D), NEW g
  PROVE  \E sum : SumsUp(sum, D, g)
<1> DEFINE Summed(n) == \E sum : sum = [S \in Parts(D, n) |-> SumStep(sum, g, S)]
           Bad == {n \in Nat : ~ Summed(n)}
<1>1. ASSUME Bad # {} PROVE FALSE
  <2>1. PICK n \in Bad : \A m \in Bad : n <= m
    BY <1>1, LeastOf
  <2>2. CASE n = 0
    <3>1. ASSUME NEW S \in Parts(D, 0) PROVE S = {}
      BY FS_Subset, FS_EmptySet, FS_CardinalityType DEF Parts
    <3> DEFINE sum == [S \in Parts(D, 0) |-> 0]
    <3>2. sum = [S \in Parts(D, 0) |-> SumStep(sum, g, S)]
      BY <3>1 DEF SumStep
    <3>3. Summed(0)
      BY <3>2
    <3> QED BY <3>3, <2>2, <2>1
  <2>3. CASE n # 0
    <3>1. n - 1 \in Nat /\ n - 1 \notin Bad
      BY <2>3, <2>1
    <3>2. PICK sum : sum = [S \in Parts(D, n - 1) |-> SumStep(sum, g, S)]
      BY <3>1
    <3> DEFINE more == [S \in Parts(D, n) |-> SumStep(sum, g, S)]
    <3>3. ASSUME NEW S \in Parts(D, n) PROVE more[S] = SumStep(more, g, S)
      <4>1. CASE S = {}
        BY <4>1 DEF SumStep
      <4>2. CASE S # {}
        <5>1. AnyOf(S) \in S
          BY <4>2 DEF AnyOf
        <5> DEFINE less == S \ {AnyOf(S)}
        <5>2. /\ less \in SUBSET D /\ Cardinality(S) \in Nat
              /\ Cardinality(less) = Cardinality(S) - 1 /\ Cardinality(S) <= n
          BY <5>1, OneLess DEF Parts
        <5>3. less \in Parts(D, n - 1) /\ less \in Parts(D, n)
          BY <5>2, <3>1 DEF Parts
        <5> HIDE DEF less
        <5>4. sum[less] = SumStep(sum, g, less)
          BY <5>3, <3>2
        <5>5. more[less] = sum[less]
          BY <5>3, <5>4
        <5>6. more[S] = g[AnyOf(S)] + sum[less]
          BY <4>2 DEF SumStep, less
        <5>7. SumStep(more, g, S) = g[AnyOf(S)] + more[less]
          BY <4>2 DEF SumStep, less
        <5> QED BY <5>5, <5>6, <5>7
      <4> QED BY <4>1, <4>2
    <3>4. more = [S \in Parts(D, n) |-> SumStep(more, g, S)]
      BY <3>3
    <3>5. Summed(n)
      BY <3>4
    <3> QED BY <3>5, <2>1
  <2> QED BY <2>2, <2>3
<1>2. Cardinality(D) \in Nat
  BY FS_CardinalityType
<1>3. PICK sum : sum = [S \in Parts(D, Cardinality(D)) |-> SumStep(sum, g, S)]
  BY <1>1, <1>2
<1>4. Parts(D, Cardinality(D)) = SUBSET D
  BY FS_Subset DEF Parts
<1> QED BY <1>3, <1>4 DEF SumsUp

\* ... and unique.
LEMMA SumUnique ==
  ASSUME NEW D, IsFiniteSet(D), NEW g, NEW a, NEW b, SumsUp(a, D, g), SumsUp(b, D, g)
  PROVE  a = b
<1> DEFINE Bad == {S \in SUBSET D : a[S] # b[S]}
<1>1. ASSUME Bad # {} PROVE FALSE
  <2>1. PICK S \in Bad : \A U \in SUBSET D : Cardinality(U) < Cardinality(S) => U \notin Bad
    BY <1>1, SmallestPart
  <2>2. a[S] = SumStep(a, g, S) /\ b[S] = SumStep(b, g, S)
    BY DEF SumsUp
  <2>3. S # {}
    BY <2>1, <2>2 DEF SumStep
  <2>4. AnyOf(S) \in S
    BY <2>3 DEF AnyOf
  <2>5. /\ S \ {AnyOf(S)} \in SUBSET D
        /\ Cardinality(S \ {AnyOf(S)}) = Cardinality(S) - 1 /\ Cardinality(S) \in Nat
    BY <2>4, OneLess
  <2>6. a[S \ {AnyOf(S)}] = b[S \ {AnyOf(S)}]
    BY <2>5, <2>1
  <2> QED BY <2>1, <2>2, <2>3, <2>6 DEF SumStep
<1>2. \A S \in SUBSET D : a[S] = b[S]
  BY <1>1
<1> QED BY <1>2 DEF SumsUp

\* The sum over an empty set, that it is an integer, and that any element may be
\* taken first.
LEMMA SumOverProperties ==
  ASSUME NEW D, IsFiniteSet(D), NEW g \in [D -> Int]
  PROVE  /\ SumOver(g, {}) = 0
         /\ \A S \in SUBSET D : SumOver(g, S) \in Int
         /\ \A S \in SUBSET D : \A x \in S : SumOver(g, S) = g[x] + SumOver(g, S \ {x})
<1> DEFINE sum == CHOOSE it : SumsUp(it, D, g)
<1>0. \A S : SumOver(g, S) = sum[S]
  BY DEF SumOver
<1>1. SumsUp(sum, D, g)
  BY SumExists
<1> HIDE DEF sum
<1>2. \A S \in SUBSET D : sum[S] = SumStep(sum, g, S)
  BY <1>1 DEF SumsUp
<1>3. sum[{}] = 0
  BY <1>2 DEF SumStep
<1>4. ASSUME NEW S \in SUBSET D, S # {}
      PROVE  /\ AnyOf(S) \in S /\ sum[S] = g[AnyOf(S)] + sum[S \ {AnyOf(S)}]
             /\ S \ {AnyOf(S)} \in SUBSET D
             /\ Cardinality(S \ {AnyOf(S)}) < Cardinality(S)
  <2>1. AnyOf(S) \in S
    BY <1>4 DEF AnyOf
  <2>2. sum[S] = g[AnyOf(S)] + sum[S \ {AnyOf(S)}]
    BY <1>4, <1>2 DEF SumStep
  <2>3. /\ S \ {AnyOf(S)} \in SUBSET D
        /\ Cardinality(S \ {AnyOf(S)}) = Cardinality(S) - 1 /\ Cardinality(S) \in Nat
    BY <2>1, OneLess
  <2> QED BY <2>1, <2>2, <2>3
<1>5. \A S \in SUBSET D : sum[S] \in Int
  <2> DEFINE Bad == {S \in SUBSET D : sum[S] \notin Int}
  <2>1. ASSUME Bad # {} PROVE FALSE
    <3>0. Bad \in SUBSET SUBSET D
      OBVIOUS
    <3>1. PICK S \in Bad : \A U \in SUBSET D : Cardinality(U) < Cardinality(S) => U \notin Bad
      <4> HIDE DEF Bad
      <4> QED BY <2>1, <3>0, SmallestPart
    <3>6. S \in SUBSET D /\ sum[S] \notin Int
      BY <3>1
    <3>2. S # {} /\ S \in SUBSET D
      BY <1>3, <3>6
    <3>4. /\ AnyOf(S) \in S /\ sum[S] = g[AnyOf(S)] + sum[S \ {AnyOf(S)}]
          /\ S \ {AnyOf(S)} \in SUBSET D /\ Cardinality(S \ {AnyOf(S)}) < Cardinality(S)
      BY <3>2, <1>4
    <3>3. sum[S \ {AnyOf(S)}] \in Int /\ g[AnyOf(S)] \in Int
      BY <3>1, <3>2, <3>4
    <3>5. sum[S] \in Int
      BY <3>3, <3>4
    <3> QED BY <3>1, <3>5
  <2> QED BY <2>1
<1>6. \A S \in SUBSET D : \A x \in S : sum[S] = g[x] + sum[S \ {x}]
  <2> DEFINE Bad == {S \in SUBSET D : \E x \in S : sum[S] # g[x] + sum[S \ {x}]}
  <2>1. ASSUME Bad # {} PROVE FALSE
    <3>0. Bad \in SUBSET SUBSET D
      OBVIOUS
    <3>1. PICK S \in Bad : \A U \in SUBSET D : Cardinality(U) < Cardinality(S) => U \notin Bad
      <4> HIDE DEF Bad
      <4> QED BY <2>1, <3>0, SmallestPart
    <3>2. PICK x \in S : sum[S] # g[x] + sum[S \ {x}]
      BY <3>1
    <3> DEFINE y == AnyOf(S)
    <3>3. /\ y \in S /\ sum[S] = g[y] + sum[S \ {y}] /\ S \ {y} \in SUBSET D
          /\ Cardinality(S \ {y}) < Cardinality(S)
      BY <3>2, <1>4
    <3> HIDE DEF y
    <3>4. x # y
      BY <3>2, <3>3
    <3>5. sum[S \ {y}] = g[x] + sum[(S \ {y}) \ {x}]
      BY <3>1, <3>3, <3>4
    <3>6. S \ {x} \in SUBSET D /\ Cardinality(S \ {x}) < Cardinality(S)
      BY OneLess
    <3>7. sum[S \ {x}] = g[y] + sum[(S \ {x}) \ {y}]
      BY <3>1, <3>3, <3>4, <3>6
    <3>8. (S \ {x}) \ {y} = (S \ {y}) \ {x}
      OBVIOUS
    <3>9. (S \ {y}) \ {x} \in SUBSET D
      OBVIOUS
    <3>10. sum[(S \ {y}) \ {x}] \in Int
      BY <3>9, <1>5
    <3>11. x \in D /\ y \in D /\ g[x] \in Int /\ g[y] \in Int
      BY <3>3
    <3>12. PICK a \in Int, b \in Int, c \in Int :
             a = g[x] /\ b = g[y] /\ c = sum[(S \ {y}) \ {x}]
      BY <3>10, <3>11
    <3>13. sum[S] = b + (a + c) /\ sum[S \ {x}] = b + c
      BY <3>3, <3>5, <3>7, <3>8, <3>12
    <3>14. sum[S] = a + sum[S \ {x}]
      BY <3>13
    <3>15. sum[S] = g[x] + sum[S \ {x}]
      BY <3>14, <3>12, Zenon
    <3> QED BY <3>2, <3>15, Zenon
  <2> QED BY <2>1
<1>7. SumOver(g, {}) = 0
  BY <1>0, <1>3
<1>8. \A S \in SUBSET D : SumOver(g, S) \in Int
  BY <1>0, <1>5
<1>9. ASSUME NEW S \in SUBSET D, NEW x \in S
      PROVE  SumOver(g, S) = g[x] + SumOver(g, S \ {x})
  <2>1. SumOver(g, S) = sum[S] /\ SumOver(g, S \ {x}) = sum[S \ {x}]
    BY <1>0
  <2> QED BY <2>1, <1>6
<1> QED BY <1>7, <1>8, <1>9

\* A sum lies between as many times the least and the greatest value.
LEMMA SumIsBounded ==
  ASSUME NEW D, IsFiniteSet(D), NEW g \in [D -> Int], NEW S \in SUBSET D,
         NEW lo \in Int, NEW hi \in Int, \A x \in D : lo <= g[x] /\ g[x] <= hi
  PROVE  /\ SumOver(g, S) \in Int
         /\ lo * Cardinality(S) <= SumOver(g, S)
         /\ SumOver(g, S) <= hi * Cardinality(S)
<1> DEFINE Good(U) == /\ lo * Cardinality(U) <= SumOver(g, U)
                      /\ SumOver(g, U) <= hi * Cardinality(U)
           Bad == {U \in SUBSET D : ~ Good(U)}
<1>1. ASSUME Bad # {} PROVE FALSE
  <2>0. Bad \in SUBSET SUBSET D
    OBVIOUS
  <2>1. PICK U \in Bad : \A V \in SUBSET D : Cardinality(V) < Cardinality(U) => V \notin Bad
    <3> HIDE DEF Bad
    <3> QED BY <1>1, <2>0, SmallestPart
  <2>2. CASE U = {}
    <3>1. SumOver(g, U) = 0 /\ Cardinality(U) = 0
      BY <2>2, SumOverProperties, FS_EmptySet
    <3> QED BY <3>1, <2>1
  <2>3. CASE U # {}
    <3>1. PICK x \in U : TRUE
      BY <2>3
    <3>2. /\ U \ {x} \in SUBSET D /\ Cardinality(U) \in Nat
          /\ Cardinality(U \ {x}) = Cardinality(U) - 1
      BY OneLess
    <3>3. Good(U \ {x})
      BY <3>2, <2>1
    <3>4. /\ SumOver(g, U) = g[x] + SumOver(g, U \ {x}) /\ SumOver(g, U \ {x}) \in Int
          /\ lo <= g[x] /\ g[x] <= hi /\ g[x] \in Int
      BY <3>2, SumOverProperties
    <3>5. PICK n \in Nat, s \in Int, v \in Int : n = Cardinality(U) /\ s = SumOver(g, U \ {x}) /\ v = g[x]
      BY <3>2, <3>4
    <3>6. lo * (n - 1) <= s /\ s <= hi * (n - 1) /\ lo <= v /\ v <= hi
      BY <3>5, <3>3, <3>2, <3>4
    <3>7. lo * n <= v + s /\ v + s <= hi * n
      BY <3>6, SMT
    <3>8. Good(U)
      BY <3>7, <3>5, <3>4
    <3> QED BY <3>8, <2>1
  <2> QED BY <2>2, <2>3
<1> QED BY <1>1, SumOverProperties

----------
(* Commands *)

\* The scenarios, and the rest of the sessions while another part works.
Plans ==
  (UNION {Scenarios[k] : k \in DOMAIN Scenarios})
    \cup {[runs |-> <<>>, commands |-> [p \in Processes |-> NoCommand],
           file |-> [p \in Processes |-> None]]}

LEMMA PlansAreWellFormed ==
  ASSUME NEW s \in Plans
  PROVE  /\ s.runs \in Seq(Runs) /\ s.file \in [Processes -> Nat \cup {None}]
         /\ \A p \in Processes : WellFormed(s.commands[p], s.runs)
<1>1. CASE s \in UNION {Scenarios[k] : k \in DOMAIN Scenarios}
  <2>1. PICK k \in DOMAIN Scenarios : s \in Scenarios[k]
    BY <1>1
  <2> QED BY <2>1, ScenariosAreWellFormed
<1>2. CASE s = [runs |-> <<>>, commands |-> [p \in Processes |-> NoCommand],
                file |-> [p \in Processes |-> None]]
  <2>1. NoCommand.op = "none" /\ NoCommand.runs = <<>> /\ NoCommand.exports = FALSE
    BY DEF NoCommand
  <2>2. <<>> \in Seq(Runs)
    OBVIOUS
  <2>3. \A p \in Processes : WellFormed(NoCommand, <<>>)
    BY <2>1, <2>2 DEF WellFormed
  <2> QED BY <1>2, <2>2, <2>3
<1> QED BY <1>1, <1>2 DEF Plans

\* What is left of a command is a record.
WorkFields ==
  {"cmd", "phase", "runs", "begun", "own", "imports", "refs", "ids", "records"}

IsWork(w) == w = [f \in WorkFields |-> w[f]]

Shape ==
  /\ work = [p \in Processes |-> work[p]] /\ \A p \in Processes : IsWork(work[p])
  /\ idFile = [p \in Processes |-> idFile[p]]
  /\ shown = [p \in Processes |-> shown[p]]

\* A step changes what is left of p's command, and of no other.
Became(p, phase, runs, begun, own, imports, refs, ids, records) ==
  /\ work' = [q \in Processes |-> work'[q]]
  /\ \A q \in Processes : q # p => work'[q] = work[q]
  /\ IsWork(work[p])' /\ work'[p].cmd = work[p].cmd
  /\ work'[p].phase = phase /\ work'[p].runs = runs /\ work'[p].begun = begun
  /\ work'[p].own = own /\ work'[p].imports = imports /\ work'[p].refs = refs
  /\ work'[p].ids = ids /\ work'[p].records = records

LEMMA BecameShape ==
  ASSUME Shape, NEW p \in Processes, NEW phase, NEW runs, NEW begun, NEW own, NEW imports,
         NEW refs, NEW ids, NEW records,
         Became(p, phase, runs, begun, own, imports, refs, ids, records)
  PROVE  /\ work' = [q \in Processes |-> work'[q]] /\ \A q \in Processes : IsWork(work[q])'
         /\ \A q \in Processes : work'[q].cmd = work[q].cmd
<1>1. ASSUME NEW q \in Processes PROVE IsWork(work[q])' /\ work'[q].cmd = work[q].cmd
  <2>1. CASE q = p
    BY <2>1 DEF Became
  <2>2. CASE q # p
    BY <2>2 DEF Shape, Became, IsWork
  <2> QED BY <2>1, <2>2
<1> QED BY <1>1 DEF Became

LEMMA BeginRunBecame ==
  ASSUME Shape, NEW p \in Processes, BeginRun(p)
  PROVE  Became(p, work[p].phase, work[p].runs, clock', Append(work[p].own, clock'),
                work[p].imports, work[p].refs, work[p].ids, work[p].records)
<1>1. /\ work'[p] = [[work[p] EXCEPT !.begun = clock'] EXCEPT !.own = Append(work[p].own, clock')]
      /\ work' = [q \in Processes |-> work'[q]]
      /\ \A q \in Processes : q # p => work'[q] = work[q]
  BY DEF Shape, BeginRun
<1>2. IsWork(work[p])
  BY DEF Shape
<1> QED BY <1>1, <1>2 DEF Became, IsWork, WorkFields

LEMMA RunLeftBecame ==
  ASSUME Shape, NEW p \in Processes, work' = RunLeft(p)
  PROVE  Became(p, work[p].phase, Tail(work[p].runs), None, work[p].own, work[p].imports,
                work[p].refs, work[p].ids, work[p].records)
<1>1. /\ work'[p] = [[work[p] EXCEPT !.runs = Tail(work[p].runs)] EXCEPT !.begun = None]
      /\ work' = [q \in Processes |-> work'[q]]
      /\ \A q \in Processes : q # p => work'[q] = work[q]
  BY DEF Shape, RunLeft
<1>2. IsWork(work[p])
  BY DEF Shape
<1> QED BY <1>1, <1>2 DEF Became, IsWork, WorkFields

LEMMA FailBecame ==
  ASSUME Shape, NEW p \in Processes, Fail(p)
  PROVE  Became(p, "failed", work[p].runs, work[p].begun, work[p].own, <<>>, work[p].refs,
                work[p].ids, work[p].records)
<1>1. /\ work'[p] = [[work[p] EXCEPT !.phase = "failed"] EXCEPT !.imports = <<>>]
      /\ work' = [q \in Processes |-> work'[q]]
      /\ \A q \in Processes : q # p => work'[q] = work[q]
  BY DEF Shape, Fail
<1>2. IsWork(work[p])
  BY DEF Shape
<1> QED BY <1>1, <1>2 DEF Became, IsWork, WorkFields

LEMMA ReceivedBecame ==
  ASSUME Shape, NEW p \in Processes, NEW got,
         work' = [work EXCEPT ![p].imports = got, ![p].phase = "importing"]
  PROVE  Became(p, "importing", work[p].runs, work[p].begun, work[p].own, got, work[p].refs,
                work[p].ids, work[p].records)
<1>1. /\ work'[p] = [[work[p] EXCEPT !.imports = got] EXCEPT !.phase = "importing"]
      /\ work' = [q \in Processes |-> work'[q]]
      /\ \A q \in Processes : q # p => work'[q] = work[q]
  BY DEF Shape
<1>2. IsWork(work[p])
  BY DEF Shape
<1> QED BY <1>1, <1>2 DEF Became, IsWork, WorkFields

LEMMA SavedBecame ==
  ASSUME Shape, NEW p \in Processes, NEW id,
         work' = [work EXCEPT ![p].imports = Tail(@), ![p].own = Append(@, id)]
  PROVE  Became(p, work[p].phase, work[p].runs, work[p].begun, Append(work[p].own, id),
                Tail(work[p].imports), work[p].refs, work[p].ids, work[p].records)
<1>1. /\ work'[p] = [[work[p] EXCEPT !.imports = Tail(work[p].imports)] EXCEPT !.own = Append(work[p].own, id)]
      /\ work' = [q \in Processes |-> work'[q]]
      /\ \A q \in Processes : q # p => work'[q] = work[q]
  BY DEF Shape
<1>2. IsWork(work[p])
  BY DEF Shape
<1> QED BY <1>1, <1>2 DEF Became, IsWork, WorkFields

LEMMA AnsweredBecame ==
  ASSUME Shape, NEW p \in Processes, work' = [work EXCEPT ![p].phase = "answered"]
  PROVE  Became(p, "answered", work[p].runs, work[p].begun, work[p].own, work[p].imports,
                work[p].refs, work[p].ids, work[p].records)
<1>1. /\ work'[p] = [work[p] EXCEPT !.phase = "answered"]
      /\ work' = [q \in Processes |-> work'[q]]
      /\ \A q \in Processes : q # p => work'[q] = work[q]
  BY DEF Shape
<1>2. IsWork(work[p])
  BY DEF Shape
<1> QED BY <1>1, <1>2 DEF Became, IsWork, WorkFields

LEMMA ResolvedBecame ==
  ASSUME Shape, NEW p \in Processes, NEW ids, Resolved(p, ids)
  PROVE  Became(p, work[p].phase, work[p].runs, work[p].begun, work[p].own, work[p].imports,
                Tail(work[p].refs), work[p].ids \o ids, work[p].records)
<1>1. /\ work'[p] = [[work[p] EXCEPT !.ids = work[p].ids \o ids] EXCEPT !.refs = Tail(work[p].refs)]
      /\ work' = [q \in Processes |-> work'[q]]
      /\ \A q \in Processes : q # p => work'[q] = work[q]
  BY DEF Shape, Resolved
<1>2. IsWork(work[p])
  BY DEF Shape
<1> QED BY <1>1, <1>2 DEF Became, IsWork, WorkFields

LEMMA DemoBecame ==
  ASSUME Shape, NEW p \in Processes, work' = [work EXCEPT ![p].runs = <<DemoRun>>]
  PROVE  Became(p, work[p].phase, <<DemoRun>>, work[p].begun, work[p].own, work[p].imports,
                work[p].refs, work[p].ids, work[p].records)
<1>1. /\ work'[p] = [work[p] EXCEPT !.runs = <<DemoRun>>]
      /\ work' = [q \in Processes |-> work'[q]]
      /\ \A q \in Processes : q # p => work'[q] = work[q]
  BY DEF Shape
<1>2. IsWork(work[p])
  BY DEF Shape
<1> QED BY <1>1, <1>2 DEF Became, IsWork, WorkFields

LEMMA LoadedBecame ==
  ASSUME Shape, NEW p \in Processes, NEW record,
         work' = [work EXCEPT ![p].records = Append(@, record)]
  PROVE  Became(p, work[p].phase, work[p].runs, work[p].begun, work[p].own, work[p].imports,
                work[p].refs, work[p].ids, Append(work[p].records, record))
<1>1. /\ work'[p] = [work[p] EXCEPT !.records = Append(work[p].records, record)]
      /\ work' = [q \in Processes |-> work'[q]]
      /\ \A q \in Processes : q # p => work'[q] = work[q]
  BY DEF Shape
<1>2. IsWork(work[p])
  BY DEF Shape
<1> QED BY <1>1, <1>2 DEF Became, IsWork, WorkFields

Aliases == {Own, Newest, Latest, Previous}

\* What the first reference of p's command stands for.
StandsFor(p, ids) ==
  /\ Head(work[p].refs) = Latest => NewestFirst # <<>> /\ ids = <<NewestFirst[1]>>
  /\ Head(work[p].refs) = Previous => ~ (Len(NewestFirst) < 2) /\ ids = <<NewestFirst[2]>>
  /\ Head(work[p].refs) \notin Aliases => ids = <<Head(work[p].refs)>>
  /\ Head(work[p].refs) # Newest => \E id : ids = <<id>>

\* What a step of Resolve() does.
LEMMA ResolveCases ==
  ASSUME NEW p \in Processes, Resolve(p)
  PROVE  /\ Working(p) /\ RunsDone(p) /\ work[p].refs # <<>>
         /\ \/ Fail(p)
            \/ /\ work[p].own = <<>> /\ work' = [work EXCEPT ![p].runs = <<DemoRun>>]
            \/ \E ids : Resolved(p, ids) /\ StandsFor(p, ids)
         /\ UNCHANGED <<clock, saved, posted, idFile, shown>>
<1> DEFINE ref == Head(work[p].refs)
<1>0. /\ Working(p) /\ RunsDone(p) /\ work[p].refs # <<>>
      /\ UNCHANGED <<clock, saved, posted, idFile, shown>>
  BY DEF Resolve
<1> DEFINE Does ==
      CASE ref = Own -> Resolved(p, <<Last(work[p].own)>>)
        [] ref = Newest ->
             Resolved(p, SubSeq(NewestFirst, 1, Lesser(1, Len(NewestFirst))))
        [] ref = Latest ->
             IF NewestFirst # <<>> THEN Resolved(p, <<NewestFirst[1]>>)
             ELSE IF work[p].own = <<>>
             THEN work' = [work EXCEPT ![p].runs = <<DemoRun>>]
             ELSE Fail(p)
        [] ref = Previous ->
             IF Len(NewestFirst) < 2 THEN Fail(p) ELSE Resolved(p, <<NewestFirst[2]>>)
        [] OTHER -> Resolved(p, <<ref>>)
<1>1. Does
  BY DEF Resolve
<1> HIDE DEF ref
<1>2. CASE ref = Own
  <2>1. Resolved(p, <<Last(work[p].own)>>)
    BY <1>1, <1>2, ReferencesAreNoIds
  <2> QED BY <2>1, <1>0, <1>2, ReferencesAreNoIds DEF Aliases, ref, StandsFor
<1>3. CASE ref = Newest
  <2>1. Resolved(p, SubSeq(NewestFirst, 1, Lesser(1, Len(NewestFirst))))
    BY <1>1, <1>3, ReferencesAreNoIds
  <2> QED BY <2>1, <1>0, <1>3, ReferencesAreNoIds DEF Aliases, ref, StandsFor
<1>4. CASE ref = Latest
  <2>1. IF NewestFirst # <<>> THEN Resolved(p, <<NewestFirst[1]>>)
        ELSE IF work[p].own = <<>>
        THEN work' = [work EXCEPT ![p].runs = <<DemoRun>>]
        ELSE Fail(p)
    BY <1>1, <1>4, ReferencesAreNoIds
  <2> QED BY <2>1, <1>0, <1>4, ReferencesAreNoIds DEF Aliases, ref, StandsFor
<1>5. CASE ref = Previous
  <2>1. IF Len(NewestFirst) < 2 THEN Fail(p) ELSE Resolved(p, <<NewestFirst[2]>>)
    BY <1>1, <1>5, ReferencesAreNoIds
  <2> QED BY <2>1, <1>0, <1>5, ReferencesAreNoIds DEF Aliases, ref, StandsFor
<1>6. CASE ref \notin Aliases
  <2>1. Resolved(p, <<ref>>)
    BY <1>1, <1>6 DEF Aliases
  <2> QED BY <2>1, <1>0, <1>6 DEF Aliases, ref, StandsFor
<1> QED BY <1>2, <1>3, <1>4, <1>5, <1>6 DEF Aliases

----------
(* What commands have shown *)

\* The commands are those of a plan.
Planned == \E s \in Plans : \A p \in Processes : work[p].cmd = s.commands[p]

\* What some commands have answered is computed from their arguments and a record.
Shows ==
  \A p \in Processes :
    /\ work[p].phase = "importing" => work[p].cmd.op = "ingest"
    /\ Answered(p, "map") => shown[p] = OfArguments("map", work[p].cmd.arg)
    /\ Answered(p, "detect") => shown[p] = OfArguments("detect", work[p].cmd.arg)
    /\ Answered(p, "correlate") =>
         \E record : shown[p] = OfTrace("correlate", work[p].cmd.arg, record)

ShownInv == Shape /\ Planned /\ Shows

LEMMA StartedIsWork ==
  ASSUME NEW c
  PROVE  /\ IsWork(Started(c)) /\ Started(c).cmd = c
         /\ Started(c).phase \in {"idle", "working"}
<1>1. IsWork(Started(c))
  BY DEF Started, IsWork, WorkFields
<1>2. Started(c).cmd = c /\ Started(c).phase \in {"idle", "working"}
  BY DEF Started
<1> QED BY <1>1, <1>2

LEMMA InitShown ==
  ASSUME Init
  PROVE  ShownInv
<1>1. \E s \in Plans : /\ work = [p \in Processes |-> Started(s.commands[p])]
                       /\ idFile = s.file
                       /\ shown = [p \in Processes |-> None]
  <2>1. CASE SessionsInit
    <3>1. PICK k \in DOMAIN Scenarios : \E s \in Scenarios[k] :
            /\ work = [p \in Processes |-> Started(s.commands[p])]
            /\ idFile = s.file
            /\ shown = [p \in Processes |-> None]
      BY <2>1 DEF SessionsInit
    <3> QED BY <3>1 DEF Plans
  <2>2. CASE SessionsRest
    <3> DEFINE rest == [runs |-> <<>>, commands |-> [p \in Processes |-> NoCommand],
                        file |-> [p \in Processes |-> None]]
    <3>1. rest \in Plans
      BY DEF Plans
    <3>2. \A p \in Processes : rest.commands[p] = NoCommand
      OBVIOUS
    <3>3. rest.file = [p \in Processes |-> None]
      OBVIOUS
    <3> HIDE DEF rest
    <3>4. work = [p \in Processes |-> Started(rest.commands[p])]
      BY <2>2, <3>2 DEF SessionsRest
    <3> QED BY <2>2, <3>1, <3>3, <3>4 DEF SessionsRest
  <2> QED BY <2>1, <2>2 DEF Init
<1>2. PICK s \in Plans : /\ work = [p \in Processes |-> Started(s.commands[p])]
                         /\ idFile = s.file
                         /\ shown = [p \in Processes |-> None]
  BY <1>1
<1>3. \A p \in Processes : work[p] = Started(s.commands[p])
  BY <1>2
<1>4. idFile = [p \in Processes |-> idFile[p]]
  BY <1>2, PlansAreWellFormed
<1>5. Shape
  BY <1>2, <1>3, <1>4, StartedIsWork DEF Shape
<1>6. Planned
  BY <1>3, StartedIsWork DEF Planned
<1>7. Shows
  BY <1>3, StartedIsWork DEF Shows, Answered
<1> QED BY <1>5, <1>6, <1>7 DEF ShownInv

\* A step of p that shows nothing.
LEMMA ShownStays ==
  ASSUME ShownInv, NEW p \in Processes, NEW phase, NEW runs, NEW begun, NEW own, NEW imports,
         NEW refs, NEW ids, NEW records,
         Became(p, phase, runs, begun, own, imports, refs, ids, records),
         shown' = shown, idFile' = [q \in Processes |-> idFile'[q]],
         \/ phase = work[p].phase \/ phase = "failed"
         \/ phase = "importing" /\ work[p].cmd.op = "ingest"
  PROVE  ShownInv'
<1> USE DEF ShownInv
<1>1. /\ work' = [q \in Processes |-> work'[q]] /\ \A q \in Processes : IsWork(work[q])'
      /\ \A q \in Processes : work'[q].cmd = work[q].cmd
  BY BecameShape
<1>2. Shape'
  BY <1>1 DEF Shape
<1>3. Planned'
  BY <1>1 DEF Planned
<1>4. ASSUME NEW q \in Processes
      PROVE  \/ work'[q].phase = work[q].phase
             \/ work'[q].phase = "failed"
             \/ work'[q].phase = "importing" /\ work[q].cmd.op = "ingest"
  <2>1. CASE q = p
    BY <2>1 DEF Became
  <2>2. CASE q # p
    BY <2>2 DEF Became
  <2> QED BY <2>1, <2>2
<1>5. ASSUME NEW q \in Processes
      PROVE  /\ work'[q].phase = "importing" => work'[q].cmd.op = "ingest"
             /\ Answered(q, "map")' => shown'[q] = OfArguments("map", work'[q].cmd.arg)
             /\ Answered(q, "detect")' => shown'[q] = OfArguments("detect", work'[q].cmd.arg)
             /\ Answered(q, "correlate")' =>
                  \E record : shown'[q] = OfTrace("correlate", work'[q].cmd.arg, record)
  <2>1. /\ Answered(q, "map")' => Answered(q, "map")
        /\ Answered(q, "detect")' => Answered(q, "detect")
        /\ Answered(q, "correlate")' => Answered(q, "correlate")
    BY <1>1, <1>4 DEF Answered
  <2>2. work'[q].phase = "importing" => work'[q].cmd.op = "ingest"
    BY <1>1, <1>4 DEF Shows
  <2> QED BY <1>1, <2>1, <2>2 DEF Shows
<1>6. Shows'
  BY <1>5 DEF Shows
<1> QED BY <1>2, <1>3, <1>6

\* A step in which p answers.
LEMMA AnswerShown ==
  ASSUME ShownInv, NEW p \in Processes, Answer(p)
  PROVE  ShownInv'
<1> USE DEF ShownInv
<1>1. Became(p, "answered", work[p].runs, work[p].begun, work[p].own, work[p].imports, work[p].refs, work[p].ids, work[p].records)
  BY AnsweredBecame DEF Answer
<1>2. /\ work' = [q \in Processes |-> work'[q]] /\ \A q \in Processes : IsWork(work[q])'
      /\ \A q \in Processes : work'[q].cmd = work[q].cmd
  BY <1>1, BecameShape
<1>3. /\ idFile' = [q \in Processes |-> idFile'[q]] /\ shown' = [q \in Processes |-> shown'[q]]
      /\ \A q \in Processes : q # p => shown'[q] = shown[q]
  BY DEF Answer, Summarize, Shape
<1>4. Shape' /\ Planned'
  BY <1>2, <1>3 DEF Shape, Planned
<1>5. work[p].cmd.op # "run" => shown'[p] = Output(work[p].cmd, work[p].records, work[p].own)
  BY DEF Answer, Shape
<1>6. ASSUME NEW op \in {"map", "detect", "correlate"}, work[p].cmd.op = op
      PROVE  shown'[p] = IF op = "correlate" THEN OfTrace(op, work[p].cmd.arg, work[p].records[1])
                         ELSE OfArguments(op, work[p].cmd.arg)
  <2>1. op # "run"
    OBVIOUS
  <2>2. shown'[p] = Output(work[p].cmd, work[p].records, work[p].own)
    BY <1>5, <1>6, <2>1
  <2>3. op \notin SummaryOps \cup PageOps /\ (op \in TraceOps <=> op = "correlate")
    BY DEF SummaryOps, PageOps, TraceOps
  <2>4. op \notin {"compare", "compare_page", "seed"}
    OBVIOUS
  <2> QED BY <1>6, <2>2, <2>3, <2>4 DEF Output
<1>7. ASSUME NEW q \in Processes
      PROVE  /\ work'[q].phase = "importing" => work'[q].cmd.op = "ingest"
             /\ Answered(q, "map")' => shown'[q] = OfArguments("map", work'[q].cmd.arg)
             /\ Answered(q, "detect")' => shown'[q] = OfArguments("detect", work'[q].cmd.arg)
             /\ Answered(q, "correlate")' =>
                  \E record : shown'[q] = OfTrace("correlate", work'[q].cmd.arg, record)
  <2>1. CASE q = p
    <3>1. work'[p].phase = "answered" /\ work'[p].cmd = work[p].cmd
      BY <1>1 DEF Became
    <3>2. work[p].cmd.op = "map" => shown'[p] = OfArguments("map", work[p].cmd.arg)
      BY <1>6
    <3>3. work[p].cmd.op = "detect" => shown'[p] = OfArguments("detect", work[p].cmd.arg)
      BY <1>6
    <3>4. work[p].cmd.op = "correlate" =>
            shown'[p] = OfTrace("correlate", work[p].cmd.arg, work[p].records[1])
      BY <1>6
    <3> QED BY <2>1, <3>1, <3>2, <3>3, <3>4 DEF Answered
  <2>2. CASE q # p
    BY <1>1, <1>2, <1>3, <2>2 DEF Became, Shows, Answered
  <2> QED BY <2>1, <2>2
<1>8. Shows'
  BY <1>7 DEF Shows
<1> QED BY <1>4, <1>8

\* So does a request with spans.
LEMMA AnswerImportShown ==
  ASSUME ShownInv, NEW p \in Processes, AnswerImport(p)
  PROVE  ShownInv'
<1> USE DEF ShownInv
<1>1. Became(p, "answered", work[p].runs, work[p].begun, work[p].own, work[p].imports, work[p].refs, work[p].ids, work[p].records)
  BY AnsweredBecame DEF AnswerImport
<1>2. /\ work' = [q \in Processes |-> work'[q]] /\ \A q \in Processes : IsWork(work[q])'
      /\ \A q \in Processes : work'[q].cmd = work[q].cmd
  BY <1>1, BecameShape
<1>3. /\ idFile' = [q \in Processes |-> idFile'[q]] /\ shown' = [q \in Processes |-> shown'[q]]
      /\ \A q \in Processes : q # p => shown'[q] = shown[q]
  BY DEF AnswerImport, Shape
<1>4. Shape' /\ Planned'
  BY <1>2, <1>3 DEF Shape, Planned
<1>5. work[p].cmd.op = "ingest"
  BY DEF AnswerImport, Shows
<1>6. ASSUME NEW q \in Processes
      PROVE  /\ work'[q].phase = "importing" => work'[q].cmd.op = "ingest"
             /\ Answered(q, "map")' => shown'[q] = OfArguments("map", work'[q].cmd.arg)
             /\ Answered(q, "detect")' => shown'[q] = OfArguments("detect", work'[q].cmd.arg)
             /\ Answered(q, "correlate")' =>
                  \E record : shown'[q] = OfTrace("correlate", work'[q].cmd.arg, record)
  <2>1. CASE q = p
    BY <1>1, <1>5, <2>1 DEF Became, Answered
  <2>2. CASE q # p
    BY <1>1, <1>2, <1>3, <2>2 DEF Became, Shows, Answered
  <2> QED BY <2>1, <2>2
<1>7. Shows'
  BY <1>6 DEF Shows
<1> QED BY <1>4, <1>7

LEMMA NextShown ==
  ASSUME ShownInv, [Next]_vars
  PROVE  ShownInv'
<1>1. CASE UNCHANGED sessionVars
  BY <1>1 DEF sessionVars, ShownInv, Shape, Planned, Shows, IsWork, Answered
<1>2. CASE SessionsNext
  <2>1. ASSUME NEW p \in Processes, BeginRun(p) PROVE ShownInv'
    BY <2>1, BeginRunBecame, ShownStays DEF BeginRun, ShownInv, Shape
  <2>2. ASSUME NEW p \in Processes, EndRun(p) PROVE ShownInv'
    BY <2>2, RunLeftBecame, ShownStays DEF EndRun, Finalize, ShownInv, Shape
  <2>3. ASSUME NEW p \in Processes, LoseRun(p) PROVE ShownInv'
    BY <2>3, RunLeftBecame, ShownStays DEF LoseRun, ShownInv, Shape
  <2>4. ASSUME NEW p \in Processes, Receive(p) PROVE ShownInv'
    <3>1. CASE work[p].cmd.arg = Broken
      BY <2>4, <3>1, FailBecame, ShownStays DEF Receive, ShownInv, Shape
    <3>2. CASE work[p].cmd.arg # Broken
      BY <2>4, <3>2, ReceivedBecame, ShownStays, ZenonT(40) DEF Receive, ShownInv, Shape
    <3> QED BY <3>1, <3>2
  <2>5. ASSUME NEW p \in Processes, SaveImport(p) PROVE ShownInv'
    BY <2>5, SavedBecame, ShownStays, ZenonT(40) DEF SaveImport, ShownInv, Shape
  <2>6. ASSUME NEW p \in Processes, ImportFails(p) PROVE ShownInv'
    BY <2>6, FailBecame, ShownStays DEF ImportFails, ShownInv, Shape
  <2>7. ASSUME NEW p \in Processes, AnswerImport(p) PROVE ShownInv'
    BY <2>7, AnswerImportShown
  <2>8. ASSUME NEW p \in Processes, Resolve(p) PROVE ShownInv'
    <3>1. shown' = shown /\ idFile' = idFile
      BY <2>8, ResolveCases
    <3>2. CASE Fail(p)
      BY <3>1, <3>2, FailBecame, ShownStays DEF ShownInv, Shape
    <3>3. CASE work' = [work EXCEPT ![p].runs = <<DemoRun>>]
      BY <3>1, <3>3, DemoBecame, ShownStays DEF ShownInv, Shape
    <3>4. ASSUME NEW ids, Resolved(p, ids) PROVE ShownInv'
      BY <3>1, <3>4, ResolvedBecame, ShownStays DEF ShownInv, Shape
    <3> QED BY <2>8, <3>2, <3>3, <3>4, ResolveCases
  <2>9. ASSUME NEW p \in Processes, Load(p) PROVE ShownInv'
    <3>1. shown' = shown /\ idFile' = idFile
      BY <2>9 DEF Load
    <3>2. CASE Fail(p)
      BY <3>1, <3>2, FailBecame, ShownStays DEF ShownInv, Shape
    <3>3. ASSUME NEW record, work' = [work EXCEPT ![p].records = Append(@, record)]
          PROVE ShownInv'
      BY <3>1, <3>3, LoadedBecame, ShownStays DEF ShownInv, Shape
    <3> QED BY <2>9, <3>2, <3>3 DEF Load
  <2>10. ASSUME NEW p \in Processes, Answer(p) PROVE ShownInv'
    BY <2>10, AnswerShown
  <2>11. ASSUME NEW payload \in posted, ReceiveExport(payload) PROVE ShownInv'
    BY <2>11 DEF ReceiveExport, ShownInv, Shape, Planned, Shows, IsWork, Answered
  <2> QED BY <1>2, <2>1, <2>2, <2>3, <2>4, <2>5, <2>6, <2>7, <2>8, <2>9, <2>10, <2>11
          DEF SessionsNext
<1> QED BY <1>1, <1>2 DEF Next, vars

\* The command of a process stays the one of its scenario, and what a drill, a detection
\* or a correlation has shown stays what its operator makes of its argument, whatever
\* the other processes do (main.py:384-439, server:164-186).
THEOREM ShownThm == Spec => []ShownInv
BY InitShown, NextShown, PTL DEF Spec

----------
(* Selections *)

\* The elements of s at the places in S, in order.
Picked(s, S) == [n \in DOMAIN InOrder(S) |-> s[InOrder(S)[n]]]

LEMMA WholeSubSeq ==
  ASSUME NEW n \in Nat, NEW f, f = [k \in 1..n |-> f[k]]
  PROVE  SubSeq(f, 1, n) = f
<1>1. SubSeq(f, 1, n) = [k \in 1..n |-> f[1 + k - 1]]
  OBVIOUS
<1>2. \A k \in 1..n : 1 + k - 1 = k
  OBVIOUS
<1>3. [k \in 1..n |-> f[1 + k - 1]] = [k \in 1..n |-> f[k]]
  BY <1>2
<1> QED BY <1>1, <1>3

LEMMA WiderSeq ==
  ASSUME NEW A, NEW B, A \subseteq B, NEW s \in Seq(A)
  PROVE  s \in Seq(B)
<1>1. Len(s) \in Nat /\ s = [n \in 1..Len(s) |-> s[n]]
  OBVIOUS
<1>2. \A n \in 1..Len(s) : s[n] \in B
  OBVIOUS
<1>3. s \in [1..Len(s) -> B]
  BY <1>1, <1>2
<1> QED BY <1>1, <1>3

LEMMA PickedIs ==
  ASSUME NEW X, NEW s \in Seq(X), NEW S \in SUBSET DOMAIN s
  PROVE  /\ IsFiniteSet(S) /\ Lists(InOrder(S), S, Smaller) /\ Cardinality(S) \in Nat
         /\ Picked(s, S) = [n \in 1..Cardinality(S) |-> s[InOrder(S)[n]]]
         /\ Picked(s, S) \in Seq(X) /\ Len(Picked(s, S)) = Cardinality(S)
         /\ \A n \in 1..Cardinality(S) : InOrder(S)[n] \in S
<1>1. IsFiniteSet(DOMAIN s) /\ DOMAIN s \subseteq Int
  BY FS_Interval
<1>2. IsFiniteSet(S) /\ S \in SUBSET Int
  BY <1>1, FS_Subset
<1>3. Lists(InOrder(S), S, Smaller)
  BY <1>2, InOrderLists
<1>4. Cardinality(S) \in Nat /\ \A n \in 1..Cardinality(S) : InOrder(S)[n] \in S
  BY <1>3 DEF Lists
<1>5. DOMAIN InOrder(S) = 1..Cardinality(S)
  BY <1>3 DEF Lists
<1>6. Picked(s, S) = [n \in 1..Cardinality(S) |-> s[InOrder(S)[n]]]
  BY <1>5 DEF Picked
<1>7. \A n \in 1..Cardinality(S) : s[InOrder(S)[n]] \in X
  BY <1>4
<1>8. Picked(s, S) \in [1..Cardinality(S) -> X]
  BY <1>6, <1>7
<1>9. Picked(s, S) \in Seq(X) /\ Len(Picked(s, S)) = Cardinality(S)
  BY <1>4, <1>8
<1> QED BY <1>2, <1>3, <1>4, <1>6, <1>9

\* All of it.
LEMMA PickedAll ==
  ASSUME NEW X, NEW s \in Seq(X)
  PROVE  Picked(s, DOMAIN s) = s
<1> DEFINE S == DOMAIN s
<1>1. S = 1..Len(s) /\ Len(s) \in Nat
  OBVIOUS
<1>2. Cardinality(S) = Len(s)
  BY <1>1, FS_Interval
<1>3. S \in SUBSET DOMAIN s
  OBVIOUS
<1> HIDE DEF S
<1>4. /\ Lists(InOrder(S), S, Smaller)
      /\ Picked(s, S) = [n \in 1..Cardinality(S) |-> s[InOrder(S)[n]]]
  BY <1>3, PickedIs
<1>5. ASSUME NEW n \in 1..Len(s) PROVE InOrder(S)[n] = n
  <2>1. InOrder(S)[n] \in S /\ Cardinality(Below(S, Smaller, InOrder(S)[n])) = n - 1
    BY <1>2, <1>4 DEF Lists
  <2>2. PICK k \in 1..Len(s) : k = InOrder(S)[n]
    BY <2>1, <1>1
  <2>3. Below(S, Smaller, k) = 1..(k - 1)
    BY <1>1 DEF Below, Smaller
  <2>4. Cardinality(1..(k - 1)) = k - 1
    BY FS_Interval
  <2> QED BY <2>1, <2>2, <2>3, <2>4
<1>6. Picked(s, S) = [n \in 1..Len(s) |-> s[n]]
  BY <1>2, <1>4, <1>5
<1>7. s = [n \in 1..Len(s) |-> s[n]]
  OBVIOUS
<1> QED BY <1>6, <1>7 DEF S

\* None of it.
LEMMA PickedNone ==
  ASSUME NEW s
  PROVE  Picked(s, {}) = <<>>
<1>1. Lists(InOrder({}), {}, Smaller) /\ Cardinality({}) = 0
  BY InOrderLists, FS_EmptySet
<1>2. DOMAIN InOrder({}) = 1..0
  BY <1>1 DEF Lists
<1>3. DOMAIN InOrder({}) = {}
  BY <1>2
<1> QED BY <1>3 DEF Picked

----------
(* Failover *)

Roles == STRING \cup {"user", "model", "assistant"}

Talk == [role : Roles, content : STRING, more : SUBSET STRING]

\* The places of the messages that a target takes apart, and of those of the system.
Apart(messages, target) ==
  {k \in DOMAIN messages :
     messages[k].role = "system" /\ target \in {"anthropic", "google"}}

Rest(messages, target) ==
  {k \in DOMAIN messages :
     ~ (messages[k].role = "system" /\ target \in {"anthropic", "google"})}

Turns(messages) == {k \in DOMAIN messages : messages[k].role # "system"}

\* The messages at the places in S, for a target.
Reworded(messages, S, target) ==
  [n \in 1..Cardinality(S) |-> Rebuilt(Picked(messages, S)[n], target)]

LEMMA MessagesForIs ==
  ASSUME NEW messages \in Seq(Talk), NEW target
  PROVE  MessagesFor(messages, target) =
           [messages |-> Reworded(messages, Rest(messages, target), target),
            system |-> Contents(Picked(messages, Apart(messages, target)))]
<1> DEFINE S == Rest(messages, target)
           P == Picked(messages, S)
           F == [n \in DOMAIN P |-> Rebuilt(P[n], target)]
<1>1. S \in SUBSET DOMAIN messages
  BY DEF Rest
<1>2. /\ Cardinality(S) \in Nat /\ P \in Seq(Talk) /\ Len(P) = Cardinality(S)
  BY <1>1, PickedIs
<1>3. MessagesFor(messages, target) =
        [messages |-> SubSeq(F, 1, Len(P)),
         system |-> Contents(Picked(messages, Apart(messages, target)))]
  BY DEF MessagesFor, Translated, Each, Selected, Places, InOrder, Picked, Rest, Apart
<1> HIDE DEF S, P
<1>4. F = [n \in 1..Cardinality(S) |-> Rebuilt(P[n], target)]
  BY <1>2
<1>5. SubSeq(F, 1, Len(P)) = F
  <2>1. F = [n \in 1..Len(P) |-> F[n]]
    BY <1>2
  <2> HIDE DEF F
  <2> QED BY <2>1, <1>2, WholeSubSeq
<1> HIDE DEF F
<1>6. MessagesFor(messages, target) =
        [messages |-> F,
         system |-> Contents(Picked(messages, Apart(messages, target)))]
  BY <1>3, <1>5
<1> QED BY <1>4, <1>6 DEF Reworded, S, P

\* To translate a role for one target and then another is to translate it for the
\* other, and the system role stays what it is.
LEMMA RoleTwice ==
  ASSUME NEW role \in Roles, NEW t, NEW u
  PROVE  /\ Role(role, t) \in Roles /\ Role(Role(role, t), u) = Role(role, u)
         /\ Role(role, t) = "system" <=> role = "system"
<1>1. Role(role, t) \in Roles
  <2>1. Role(role, t) \in {"user", "model", "assistant", role}
    BY DEF Role
  <2> QED BY <2>1 DEF Roles
<1>2. Role(Role(role, t), u) = Role(role, u)
  <2>1. CASE role \in {"user", "human"}
    BY <2>1 DEF Role
  <2>2. CASE role \notin {"user", "human"} /\ role \in {"assistant", "ai", "model"}
    BY <2>2 DEF Role
  <2>3. CASE role \notin {"user", "human"} /\ role \notin {"assistant", "ai", "model"}
    BY <2>3 DEF Role
  <2> QED BY <2>1, <2>2, <2>3
<1>3. Role(role, t) = "system" <=> role = "system"
  BY DEF Role
<1> QED BY <1>1, <1>2, <1>3

\* So is a message, which keeps its content.
LEMMA RebuiltTwice ==
  ASSUME NEW m \in Talk, NEW t, NEW u
  PROVE  /\ Rebuilt(m, t) \in Talk /\ Rebuilt(Rebuilt(m, t), u) = Rebuilt(m, u)
         /\ Rebuilt(m, t).role = "system" <=> m.role = "system"
         /\ Rebuilt(m, t).content = m.content
<1> DEFINE Spoken == {"system", "user", "human", "assistant", "ai", "model"}
<1>1. PICK role, content : role = m.role /\ content = m.content
  OBVIOUS
<1>2. role \in Roles /\ content \in STRING
  BY <1>1 DEF Talk
<1>3. PICK first, then, direct :
        first = Role(role, t) /\ then = Role(first, u) /\ direct = Role(role, u)
  OBVIOUS
<1>4. first \in Roles /\ then = direct /\ (first = "system" <=> role = "system")
  BY <1>2, <1>3, RoleTwice
<1>5. CASE role \in Spoken
  <2>1. first \in Spoken
    BY <1>3, <1>5 DEF Role
  <2>2. Rebuilt(m, t) = [role |-> first, content |-> content, more |-> {}]
    BY <1>1, <1>3, <1>5 DEF Rebuilt
  <2>3. Rebuilt(m, u) = [role |-> direct, content |-> content, more |-> {}]
    BY <1>1, <1>3, <1>5 DEF Rebuilt
  <2>4. Rebuilt([role |-> first, content |-> content, more |-> {}], u)
          = [role |-> then, content |-> content, more |-> {}]
    BY <1>3, <2>1 DEF Rebuilt
  <2>5. [role |-> first, content |-> content, more |-> {}] \in Talk
    BY <1>2, <1>4 DEF Talk
  <2>6. /\ [role |-> first, content |-> content, more |-> {}].role = first
        /\ [role |-> first, content |-> content, more |-> {}].content = content
    OBVIOUS
  <2>7. Rebuilt(m, t) \in Talk
    BY <2>2, <2>5
  <2>8. Rebuilt(Rebuilt(m, t), u) = Rebuilt(m, u)
    BY <1>4, <2>2, <2>3, <2>4
  <2>9. Rebuilt(m, t).role = first /\ Rebuilt(m, t).content = content
    BY <2>2, <2>6
  <2> QED BY <1>1, <1>4, <2>7, <2>8, <2>9
<1>6. CASE role \notin Spoken
  <2>1. Rebuilt(m, t) = m /\ Rebuilt(m, u) = m
    BY <1>1, <1>6 DEF Rebuilt
  <2>2. Rebuilt(Rebuilt(m, t), u) = Rebuilt(m, u)
    BY <2>1
  <2>3. /\ Rebuilt(m, t) \in Talk
        /\ Rebuilt(m, t).role = m.role
        /\ Rebuilt(m, t).content = m.content
    BY <2>1
  <2> QED BY <2>2, <2>3
<1> QED BY <1>5, <1>6

\* Messages K that were translated to W are translated again as they would have been.
Again(W, K, t) == \A n \in 1..Len(K) : W[n] = Rebuilt(K[n], t)

LEMMA RewordedAgain ==
  ASSUME NEW K \in Seq(Talk), NEW W \in Seq(Talk), NEW t, NEW u,
         Len(W) = Len(K), Again(W, K, t)
  PROVE  MessagesFor(W, u) = MessagesFor(K, u)
<1>1. DOMAIN W = 1..Len(K) /\ DOMAIN K = 1..Len(K)
  OBVIOUS
<1>2. \A n \in 1..Len(K) : K[n] \in Talk
  OBVIOUS
<1>3. ASSUME NEW n \in 1..Len(K)
      PROVE  /\ W[n].role = "system" <=> K[n].role = "system"
             /\ W[n].content = K[n].content /\ Rebuilt(W[n], u) = Rebuilt(K[n], u)
  <2>1. PICK m \in Talk : m = K[n]
    BY <1>2
  <2>2. W[n] = Rebuilt(m, t)
    BY <2>1 DEF Again
  <2> QED BY <2>1, <2>2, RebuiltTwice
<1>4. Apart(W, u) = Apart(K, u) /\ Rest(W, u) = Rest(K, u)
  BY <1>1, <1>3 DEF Apart, Rest
<1>5. ASSUME NEW S \in SUBSET (1..Len(K))
      PROVE  /\ Contents(Picked(W, S)) = Contents(Picked(K, S))
             /\ Reworded(W, S, u) = Reworded(K, S, u)
  <2>1. /\ Picked(W, S) = [n \in 1..Cardinality(S) |-> W[InOrder(S)[n]]]
        /\ Picked(K, S) = [n \in 1..Cardinality(S) |-> K[InOrder(S)[n]]]
        /\ \A n \in 1..Cardinality(S) : InOrder(S)[n] \in S
    <3>1. S \in SUBSET DOMAIN W /\ S \in SUBSET DOMAIN K
      BY <1>1
    <3> QED BY <3>1, PickedIs
  <2>2. ASSUME NEW n \in 1..Cardinality(S)
        PROVE  /\ Picked(W, S)[n].content = Picked(K, S)[n].content
               /\ Rebuilt(Picked(W, S)[n], u) = Rebuilt(Picked(K, S)[n], u)
    <3>1. PICK k \in 1..Len(K) : k = InOrder(S)[n]
      BY <2>1
    <3>2. Picked(W, S)[n] = W[k] /\ Picked(K, S)[n] = K[k]
      BY <2>1, <3>1
    <3> QED BY <1>3, <3>1, <3>2
  <2>3. Contents(Picked(W, S)) = Contents(Picked(K, S))
    BY <2>1, <2>2 DEF Contents
  <2>4. Reworded(W, S, u) = Reworded(K, S, u)
    BY <2>2 DEF Reworded
  <2> QED BY <2>3, <2>4
<1>6. Apart(K, u) \in SUBSET (1..Len(K)) /\ Rest(K, u) \in SUBSET (1..Len(K))
  BY <1>1 DEF Apart, Rest
<1>7. /\ Contents(Picked(W, Apart(W, u))) = Contents(Picked(K, Apart(K, u)))
      /\ Reworded(W, Rest(W, u), u) = Reworded(K, Rest(K, u), u)
  BY <1>4, <1>5, <1>6
<1> QED BY <1>7, MessagesForIs

\* What is left of the messages of a failover when the system prompt is out.
LEMMA TurnsOfFailover ==
  ASSUME NEW messages \in Seq(Talk), NEW u
  PROVE  LET D == MessagesFor(messages, u).messages
             K == Picked(messages, Turns(messages))
         IN  Picked(D, Turns(D)) = MessagesFor(K, u).messages
<1> DEFINE T == Turns(messages)
           K == Picked(messages, T)
           R == Rest(messages, u)
           D == Reworded(messages, R, u)
           N == Cardinality(T)
           L == Cardinality(R)
<1>1. T \in SUBSET DOMAIN messages /\ R \in SUBSET DOMAIN messages
  BY DEF Turns, Rest
<1>2. /\ IsFiniteSet(T) /\ N \in Nat /\ K \in Seq(Talk) /\ Len(K) = N
      /\ K = [n \in 1..N |-> messages[InOrder(T)[n]]]
      /\ \A n \in 1..N : InOrder(T)[n] \in T
  BY <1>1, PickedIs
<1>3. /\ L \in Nat /\ Picked(messages, R) \in Seq(Talk) /\ Len(Picked(messages, R)) = L
  BY <1>1, PickedIs
<1>4. \A k \in T : k \in DOMAIN messages /\ messages[k].role # "system"
  BY DEF Turns
<1>5. MessagesFor(messages, u).messages = D
  BY MessagesForIs
<1> DEFINE P == Picked(messages, R)
<1>6. /\ D = [n \in 1..L |-> Rebuilt(P[n], u)]
      /\ \A n \in 1..L : P[n] \in Talk
  <2>1. D = [n \in 1..L |-> Rebuilt(P[n], u)]
    BY DEF Reworded
  <2>2. P \in Seq(Talk) /\ Len(P) = L
    BY <1>3
  <2> HIDE DEF P, D
  <2>3. \A n \in 1..L : P[n] \in Talk
    BY <2>2
  <2> QED BY <2>1, <2>3
<1> HIDE DEF P, K, D, T, R, N, L
<1>7. \A n \in 1..L : Rebuilt(P[n], u) \in Talk
                      /\ (Rebuilt(P[n], u).role = "system" <=> P[n].role = "system")
  <2> SUFFICES ASSUME NEW n \in 1..L
               PROVE  /\ Rebuilt(P[n], u) \in Talk
                      /\ Rebuilt(P[n], u).role = "system" <=> P[n].role = "system"
    OBVIOUS
  <2>1. PICK m \in Talk : m = P[n]
    BY <1>6
  <2> QED BY <2>1, RebuiltTwice
<1>8. D \in Seq(Talk) /\ Len(D) = L /\ DOMAIN D = 1..L
  BY <1>3, <1>6, <1>7
<1>9. Turns(D) = {n \in 1..L : P[n].role # "system"}
  BY <1>6, <1>7, <1>8 DEF Turns
\* What a failover makes of the turns alone.
<1>10. MessagesFor(K, u).messages = [n \in 1..N |-> Rebuilt(K[n], u)]
  <2>1. \A n \in 1..N : K[n].role # "system"
    BY <1>2, <1>4
  <2>2. DOMAIN K = 1..N
    BY <1>2
  <2>3. Rest(K, u) = DOMAIN K
    BY <2>1, <2>2 DEF Rest
  <2>4. Picked(K, DOMAIN K) = K
    BY <1>2, PickedAll
  <2>5. Cardinality(DOMAIN K) = N
    BY <1>2, <2>2, FS_Interval
  <2>6. MessagesFor(K, u).messages = Reworded(K, Rest(K, u), u)
    <3>1. K \in Seq(Talk)
      BY <1>2
    <3> QED BY <3>1, MessagesForIs
  <2> QED BY <2>3, <2>4, <2>5, <2>6 DEF Reworded
<1>11. CASE u \in {"anthropic", "google"}
  <2>1. R = T
    BY <1>11 DEF R, T, Rest, Turns
  <2>2. P = K /\ L = N
    BY <2>1 DEF P, K, L, N
  <2>3. \A n \in 1..N : K[n].role # "system"
    BY <1>2, <1>4
  <2>4. Turns(D) = DOMAIN D
    BY <1>8, <1>9, <2>2, <2>3
  <2>5. Picked(D, Turns(D)) = D
    BY <1>8, <2>4, PickedAll
  <2>6. D = [n \in 1..N |-> Rebuilt(K[n], u)]
    BY <1>6, <2>2
  <2> QED BY <1>5, <1>10, <2>5, <2>6 DEF K, T
<1>12. CASE u \notin {"anthropic", "google"}
  <2>1. R = DOMAIN messages
    BY <1>12 DEF R, Rest
  <2>2. P = messages
    BY <2>1, PickedAll DEF P
  <2>3. L = Len(messages)
    <3>1. PICK l \in Nat : l = Len(messages) /\ DOMAIN messages = 1..l
      OBVIOUS
    <3>2. Cardinality(1..l) = l
      BY FS_Interval
    <3> QED BY <2>1, <3>1, <3>2 DEF L
  <2>4. Turns(D) = T
    BY <1>9, <2>2, <2>3 DEF T, Turns
  <2>5. T \in SUBSET DOMAIN D
    BY <1>1, <1>8, <2>3
  <2>6. Picked(D, T) = [n \in 1..N |-> D[InOrder(T)[n]]]
    BY <1>8, <2>5, PickedIs DEF N
  <2>7. ASSUME NEW n \in 1..N PROVE D[InOrder(T)[n]] = Rebuilt(K[n], u)
    <3>1. PICK k \in T : k = InOrder(T)[n]
      BY <1>2
    <3>2. k \in 1..L
      BY <1>8, <2>5
    <3>3. K[n] = messages[k]
      BY <1>2, <3>1
    <3> QED BY <1>6, <2>2, <3>1, <3>2, <3>3
  <2>8. Picked(D, T) = [n \in 1..N |-> Rebuilt(K[n], u)]
    BY <2>6, <2>7
  <2> QED BY <1>5, <1>10, <2>4, <2>8 DEF K, T
<1> QED BY <1>11, <1>12

\* What a target takes apart, and what it leaves.
LEMMA ApartOrRest ==
  ASSUME NEW messages \in Seq(Talk), NEW t
  PROVE  LET mapped == MessagesFor(messages, t)
             system == Selected(messages, LAMBDA m : m.role = "system")
         IN  /\ mapped.system \in {<<>>, Contents(system)}
             /\ Picked(messages, Rest(messages, t))
                  = IF mapped.system = <<>> THEN messages ELSE Picked(messages, Turns(messages))
<1> DEFINE S == {k \in DOMAIN messages : messages[k].role = "system"}
           O == Turns(messages)
           A == Apart(messages, t)
           got == MessagesFor(messages, t).system
<1>1. got = Contents(Picked(messages, A))
  BY MessagesForIs
<1>2. Selected(messages, LAMBDA m : m.role = "system") = Picked(messages, S)
  BY DEF Selected, Places, InOrder, Picked
<1>3. Contents(<<>>) = <<>>
  BY DEF Contents
<1>4. A = {} => Rest(messages, t) = DOMAIN messages /\ got = <<>>
  BY <1>1, <1>3, PickedNone DEF Apart, Rest
<1>5. A # {} => A = S /\ Rest(messages, t) = O
  BY DEF Apart, Rest, Turns
<1>6. A # {} => got # <<>>
  <2>1. A \in SUBSET DOMAIN messages
    BY DEF Apart
  <2>2. /\ IsFiniteSet(A) /\ Picked(messages, A) = [n \in 1..Cardinality(A) |-> messages[InOrder(A)[n]]]
        /\ Cardinality(A) \in Nat
    BY <2>1, PickedIs
  <2>3. A # {} => Cardinality(A) # 0
    BY <2>2, FS_EmptySet
  <2> HIDE DEF A
  <2>4. DOMAIN got = 1..Cardinality(A)
    BY <1>1, <2>2 DEF Contents
  <2> HIDE DEF got
  <2>5. A # {} => 1 \in DOMAIN got
    BY <2>2, <2>3, <2>4
  <2> QED BY <2>5
<1> HIDE DEF S, O, A
<1>7. CASE A = {}
  <2>1. Picked(messages, Rest(messages, t)) = messages
    BY <1>4, <1>7, PickedAll
  <2> QED BY <1>4, <1>7, <2>1 DEF got
<1>8. CASE A # {}
  BY <1>1, <1>2, <1>5, <1>6, <1>8 DEF got, O
<1> QED BY <1>7, <1>8

LEMMA ToolKept ==
  ASSUME NEW tool, NEW provider
  PROVE  LET mapped == MapToolSchema(tool, provider)
         IN  /\ mapped.name = tool.name
             /\ tool.params # "empty" => mapped.params = tool.params
  BY DEF MapToolSchema, ToolFor

LEMMA MapKeeps ==
  ASSUME NEW messages \in Seq(Talk), NEW name
  PROVE  LET mapped == MapMessages(messages, name)
             K == Picked(messages, Rest(messages, NormalizeProvider(name)))
         IN  /\ Contents(mapped.messages) = Contents(K)
             /\ \A u : MessagesFor(mapped.messages, u) = MessagesFor(K, u)
<1> DEFINE t == NormalizeProvider(name)
           S == Rest(messages, t)
           K == Picked(messages, S)
           W == MessagesFor(messages, t).messages
<1>1. S \in SUBSET DOMAIN messages
  BY DEF Rest
<1>2. K \in Seq(Talk) /\ Len(K) = Cardinality(S) /\ Cardinality(S) \in Nat
  BY <1>1, PickedIs
<1>3. W = Reworded(messages, S, t)
  BY MessagesForIs
<1>4. W = [n \in 1..Cardinality(S) |-> Rebuilt(K[n], t)]
  BY <1>3 DEF Reworded
<1> HIDE DEF W, K
<1>5. ASSUME NEW n \in 1..Cardinality(S)
      PROVE  Rebuilt(K[n], t) \in Talk /\ Rebuilt(K[n], t).content = K[n].content
  <2>1. PICK m \in Talk : m = K[n]
    BY <1>2
  <2> QED BY <2>1, RebuiltTwice
<1>6. W \in Seq(Talk) /\ Len(W) = Cardinality(S)
  BY <1>2, <1>4, <1>5
<1>7. Again(W, K, t)
  BY <1>2, <1>4 DEF Again
<1>8. \A u : MessagesFor(W, u) = MessagesFor(K, u)
  BY <1>2, <1>6, <1>7, RewordedAgain
<1>9. Contents(W) = Contents(K)
  <2>1. DOMAIN W = 1..Cardinality(S) /\ DOMAIN K = 1..Cardinality(S)
    BY <1>2, <1>6
  <2>2. \A n \in 1..Cardinality(S) : W[n].content = K[n].content
    BY <1>4, <1>5
  <2> QED BY <2>1, <2>2 DEF Contents
<1> QED BY <1>8, <1>9 DEF W, K, MapMessages

\* Of messages, those that are left if a prompt was taken apart from them.
LeftOf(messages, prompt) ==
  IF prompt = <<>> THEN messages ELSE Selected(messages, LAMBDA m : m.role # "system")

LEMMA LeftIs ==
  ASSUME NEW messages, NEW prompt, prompt # <<>>
  PROVE  LeftOf(messages, prompt) = Picked(messages, Turns(messages))
BY DEF LeftOf, Selected, Places, InOrder, Picked, Turns

LEMMA FailsOverAgain ==
  ASSUME NEW messages \in Seq(Talk), NEW name, NEW provider
  PROVE  LET mapped == MapMessages(messages, name)
             again == MapMessages(mapped.messages, provider)
             direct == MapMessages(messages, provider)
         IN  /\ Contents(mapped.messages) = Contents(LeftOf(messages, mapped.system))
             /\ again.messages = LeftOf(direct.messages, mapped.system)
             /\ mapped.system = <<>> => again.system = direct.system
<1> DEFINE t == NormalizeProvider(name)
           u == NormalizeProvider(provider)
           mapped == MessagesFor(messages, t)
           K == Picked(messages, Rest(messages, t))
<1>1. K = IF mapped.system = <<>> THEN messages ELSE Picked(messages, Turns(messages))
  BY ApartOrRest
<1>2. /\ Contents(mapped.messages) = Contents(K)
      /\ MessagesFor(mapped.messages, u) = MessagesFor(K, u)
  BY MapKeeps DEF MapMessages
<1> HIDE DEF K, mapped, u, t
<1>3. CASE mapped.system = <<>>
  <2>1. K = messages
    BY <1>1, <1>3
  <2>2. /\ Contents(mapped.messages) = Contents(messages)
        /\ MessagesFor(mapped.messages, u) = MessagesFor(messages, u)
    BY <1>2, <2>1
  <2> QED BY <1>3, <2>2 DEF mapped, u, t, MapMessages, LeftOf
<1>4. CASE mapped.system # <<>>
  <2>1. K = Picked(messages, Turns(messages))
    BY <1>1, <1>4
  <2>2. PICK D : D = MessagesFor(messages, u).messages
    OBVIOUS
  <2>3. Picked(D, Turns(D)) = MessagesFor(K, u).messages
    BY <2>1, <2>2, TurnsOfFailover
  <2>4. MessagesFor(mapped.messages, u).messages = Picked(D, Turns(D))
    BY <1>2, <2>3
  <2>5. Contents(mapped.messages) = Contents(LeftOf(messages, mapped.system))
    BY <1>2, <1>4, <2>1, LeftIs
  <2>6. MessagesFor(mapped.messages, u).messages = LeftOf(D, mapped.system)
    BY <1>4, <2>4, LeftIs
  <2> QED BY <1>4, <2>2, <2>5, <2>6 DEF mapped, u, t, MapMessages
<1> QED BY <1>3, <1>4

LEMMA ShownIsFailover ==
  ASSUME ShownInv
  PROVE  FailoverKeepsTheConversation
<1> SUFFICES ASSUME NEW p \in Processes, Answered(p, "map")
             PROVE  LET messages == work[p].cmd.arg.messages
                        mapped == shown[p].conversation
                        system == Selected(messages, LAMBDA m : m.role = "system")
                    IN  /\ mapped.system \in {<<>>, Contents(system)}
                        /\ Contents(mapped.messages) = Contents(LeftOf(messages, mapped.system))
                        /\ \A provider \in Range(Dialects) :
                             LET again == MapMessages(mapped.messages, provider)
                                 direct == MapMessages(messages, provider)
                             IN  /\ again.messages = LeftOf(direct.messages, mapped.system)
                                 /\ mapped.system = <<>> => again.system = direct.system
                        /\ shown[p].tool.name = work[p].cmd.arg.tool.name
                        /\ work[p].cmd.arg.tool.params # "empty" =>
                             shown[p].tool.params = work[p].cmd.arg.tool.params
  BY DEF FailoverKeepsTheConversation, LeftOf
<1> DEFINE arg == work[p].cmd.arg
<1>1. shown[p] = OfArguments("map", arg)
  BY DEF ShownInv, Shows
<1>2. OfArguments("map", arg) =
        [conversation |-> MapMessages(arg.messages, arg.provider),
         tool |-> MapToolSchema(arg.tool, arg.provider),
         parameters |-> MapParameters(arg.provider, arg.temperature)]
  BY DEF OfArguments
<1>3. /\ shown[p].conversation = MapMessages(arg.messages, arg.provider)
      /\ shown[p].tool = MapToolSchema(arg.tool, arg.provider)
  BY <1>1, <1>2
<1>4. PICK s \in Plans : \A q \in Processes : work[q].cmd = s.commands[q]
  BY DEF ShownInv, Planned
<1>5. WellFormed(work[p].cmd, s.runs) /\ work[p].cmd.op = "map"
  BY <1>4, PlansAreWellFormed DEF Answered
<1>6. arg.messages \in Seq([role : STRING, content : STRING, more : SUBSET STRING])
  BY <1>5 DEF WellFormed
<1> HIDE DEF arg
<1> DEFINE plain == [role : STRING, content : STRING, more : SUBSET STRING]
<1>7. plain \subseteq Talk
  BY DEF Talk, Roles
<1>8. arg.messages \in Seq(Talk)
  <2>1. arg.messages \in Seq(plain)
    BY <1>6
  <2> HIDE DEF plain
  <2> QED BY <1>7, <2>1, WiderSeq
<1>9. PICK messages, name, mapped :
        /\ messages = arg.messages /\ name = arg.provider
        /\ mapped = MapMessages(messages, name)
  OBVIOUS
<1>10. mapped.system \in {<<>>, Contents(Selected(messages, LAMBDA m : m.role = "system"))}
  BY <1>8, <1>9, ApartOrRest DEF MapMessages
<1>11. \A provider :
         /\ Contents(mapped.messages) = Contents(LeftOf(messages, mapped.system))
         /\ MapMessages(mapped.messages, provider).messages
              = LeftOf(MapMessages(messages, provider).messages, mapped.system)
         /\ mapped.system = <<>> => MapMessages(mapped.messages, provider).system
                                      = MapMessages(messages, provider).system
  BY <1>8, <1>9, FailsOverAgain
<1>12. /\ shown[p].tool.name = arg.tool.name
       /\ arg.tool.params # "empty" => shown[p].tool.params = arg.tool.params
  BY <1>3, ToolKept
<1>13. shown[p].conversation = mapped
  BY <1>3, <1>9
<1> QED BY <1>9, <1>10, <1>11, <1>12, <1>13 DEF arg

\* A conversation that fails over keeps the text of its messages and its system prompt;
\* to fail over again gives the turns that a failover from the start would, and the
\* prompt too unless it was taken apart; for any messages and tools
\* (semantic_mapper.py:32-140).
THEOREM FailoverKeepsTheConversationThm == Spec => []FailoverKeepsTheConversation
BY ShownThm, ShownIsFailover, PTL

----------
(* Means and peaks *)

\* Of values in order, some first one is the greatest.
LEMMA FirstOfGreatest ==
  ASSUME NEW n \in Nat \ {0}, NEW f \in [1..n -> Int]
  PROVE  \E k \in 1..n : \A j \in 1..n : f[j] <= f[k] /\ (j < k => f[j] < f[k])
<1> DEFINE V == {f[k] : k \in 1..n}
<1>1. V \in SUBSET Int /\ V # {}
  <2>1. f[1] \in V
    OBVIOUS
  <2> QED BY <2>1
<1>2. IsFiniteSet(V)
  <2>1. IsFiniteSet(1..n)
    BY FS_Interval
  <2>2. f \in Surjection(1..n, V)
    BY DEF Surjection
  <2> HIDE DEF V
  <2> QED BY <2>1, <2>2, FS_Surjection
<1> HIDE DEF V
<1>3. PICK v \in V : \A m \in V : m <= v
  BY <1>1, <1>2, GreatestOf
<1> DEFINE K == {k \in 1..n : f[k] = v}
<1>4. K \in SUBSET Nat /\ K # {}
  BY <1>3 DEF V
<1> HIDE DEF K
<1>5. PICK k \in K : \A j \in K : k <= j
  BY <1>4, LeastOf
<1>6. k \in 1..n /\ f[k] = v
  BY <1>5 DEF K
<1>7. ASSUME NEW j \in 1..n PROVE f[j] <= f[k] /\ (j < k => f[j] < f[k])
  <2>1. f[j] \in V
    BY DEF V
  <2>2. f[j] <= v /\ f[j] \in Int /\ v \in Int
    BY <2>1, <1>1, <1>3
  <2>3. f[j] = v => k <= j
    BY <1>5 DEF K
  <2> QED BY <1>6, <2>2, <2>3
<1> QED BY <1>6, <1>7

LEMMA MaxOfIs ==
  ASSUME NEW t \in Seq(PhysicalSamples), t # <<>>, NEW field \in {"pcie", "nccl"}
  PROVE  MaxOf(t, field) \in Int /\ \A k \in DOMAIN t : t[k][field] <= MaxOf(t, field)
<1>1. PICK n \in Nat \ {0} : n = Len(t) /\ DOMAIN t = 1..n
  OBVIOUS
<1> DEFINE f == [k \in 1..n |-> t[k][field]]
           c == CHOOSE k \in DOMAIN t :
                  \A j \in DOMAIN t : /\ t[j][field] <= t[k][field]
                                      /\ j < k => t[j][field] < t[k][field]
<1>2. f \in [1..n -> Int]
  <2>1. \A k \in 1..n : t[k] \in PhysicalSamples
    BY <1>1
  <2>2. \A k \in 1..n : t[k].pcie \in Nat /\ t[k].nccl \in Nat
    BY <2>1 DEF PhysicalSamples
  <2>3. \A k \in 1..n : t[k][field] \in Int
    BY <2>2
  <2> QED BY <2>3
<1>3. \A k \in 1..n : f[k] = t[k][field]
  OBVIOUS
<1> HIDE DEF f
<1>4. PICK k \in 1..n : \A j \in 1..n : f[j] <= f[k] /\ (j < k => f[j] < f[k])
  BY <1>2, FirstOfGreatest
<1>5. \E i \in DOMAIN t : \A j \in DOMAIN t : /\ t[j][field] <= t[i][field]
                                              /\ j < i => t[j][field] < t[i][field]
  BY <1>1, <1>3, <1>4
<1>6. /\ c \in DOMAIN t
      /\ \A j \in DOMAIN t : t[j][field] <= t[c][field]
  BY <1>5
<1>7. MaxOf(t, field) = t[c][field]
  BY DEF MaxOf, FirstGreatest
<1> HIDE DEF c
<1>8. t[c][field] \in Int
  BY <1>1, <1>2, <1>3, <1>6
<1> QED BY <1>6, <1>7, <1>8

\* The mean of a sequence of numbers that f gives.
LEMMA SumFunctionIs ==
  ASSUME NEW f
  PROVE  SumFunction(f) = SumOver(f, DOMAIN f)
  BY DEF SumFunction, SumFunctionOnSet, FoldFunctionOnSet, MapThenFoldSet, SumOver, SumsUp,
         SumStep, AnyOf

LEMMA MeanIs ==
  ASSUME NEW t \in Seq(PhysicalSamples), t # <<>>, NEW field \in {"sm", "cpu"}
  PROVE  Mean(t, field) \in Int
<1>1. PICK n \in Nat \ {0} : n = Len(t) /\ DOMAIN t = 1..n
  OBVIOUS
<1> DEFINE f == [k \in DOMAIN t |-> t[k][field]]
<1>2. f \in [1..n -> Int]
  <2>1. \A k \in 1..n : t[k] \in PhysicalSamples
    BY <1>1
  <2>2. \A k \in 1..n : t[k].sm \in Nat /\ t[k].cpu \in Nat
    BY <2>1 DEF PhysicalSamples
  <2>3. \A k \in 1..n : t[k][field] \in Int
    BY <2>2
  <2> QED BY <2>3, <1>1
<1>3. Mean(t, field) = (10 * SumFunction(f)) \div Len(t)
  BY DEF Mean
<1> HIDE DEF f
<1>4. SumFunction(f) = SumOver(f, 1..n)
  BY <1>2, SumFunctionIs
<1>5. IsFiniteSet(1..n)
  BY FS_Interval
<1>6. PICK x \in Int : x = SumOver(f, 1..n)
  <2>1. (1..n) \in SUBSET (1..n)
    OBVIOUS
  <2> DEFINE D == 1..n
  <2>2. D \in SUBSET D /\ f \in [D -> Int] /\ IsFiniteSet(D)
    BY <1>2, <1>5
  <2> HIDE DEF D
  <2>3. SumOver(f, D) \in Int
    BY <2>2, SumOverProperties
  <2> QED BY <2>3 DEF D
<1>7. (10 * x) \div n \in Int
  OBVIOUS
<1> QED BY <1>1, <1>3, <1>4, <1>6, <1>7

----------
(* Correlation *)

\* What the rules say of a mean utilization, peaks and a busy host.
LEMMA CategoryIs ==
  ASSUME NEW sm \in Int, NEW pcie \in Int, NEW nccl \in Int, NEW cpu \in Int
  PROVE  /\ CategoryOf(sm, pcie, nccl, cpu) \in
              {"dataloader_starvation", "nccl_overhead", "pcie_bottleneck",
               "framework_overhead", "healthy_optimal"}
         /\ CategoryOf(sm, pcie, nccl, cpu) = "healthy_optimal" => nccl <= 30 /\ pcie <= 7000
  BY DEF CategoryOf

\* Every category but that of a healthy run wastes a tenth of it at least.
LEMMA WasteIs ==
  ASSUME NEW t \in Seq(PhysicalSamples), t # <<>>,
         NEW category \in {"dataloader_starvation", "nccl_overhead", "pcie_bottleneck",
                           "framework_overhead", "healthy_optimal"}
  PROVE  /\ MeasuredWaste(category, t) \in Int
         /\ category = "healthy_optimal" => MeasuredWaste(category, t) = 0
         /\ category # "healthy_optimal" => MeasuredWaste(category, t) >= 10
<1>1. PICK sm \in Int : sm = Mean(t, "sm")
  BY MeanIs
<1>2. PICK nccl \in Int : nccl = MaxOf(t, "nccl")
  BY MaxOfIs
<1>3. PICK x \in Int : x = RoundDiv(550 - sm, 10)
  BY DEF RoundDiv
<1>4. PICK y \in Int : y = RoundDiv(nccl, 2)
  BY DEF RoundDiv
<1>5. MeasuredWaste("dataloader_starvation", t) = Greater(10, x)
  BY <1>1, <1>3 DEF MeasuredWaste
<1>6. MeasuredWaste("nccl_overhead", t) = Lesser(40, Greater(15, y))
  BY <1>2, <1>4 DEF MeasuredWaste
<1>7. /\ MeasuredWaste("pcie_bottleneck", t) = 25
      /\ MeasuredWaste("framework_overhead", t) = 20
      /\ MeasuredWaste("healthy_optimal", t) = 0
  BY DEF MeasuredWaste
<1>8. Greater(10, x) \in Int /\ Greater(10, x) >= 10
  BY DEF Greater
<1>9. Lesser(40, Greater(15, y)) \in Int /\ Lesser(40, Greater(15, y)) >= 15
  BY DEF Greater, Lesser
<1> QED BY <1>5, <1>6, <1>7, <1>8, <1>9

LEMMA BleedIs ==
  ASSUME NEW waste \in Int, waste = 0 \/ waste >= 10, NEW rate \in Int, rate >= 8
  PROVE  Bleed(RoundDiv(waste * rate, 100)).monthly = 0 <=> waste = 0
<1>1. PICK cents \in Int : cents = waste * rate
  OBVIOUS
<1>2. waste = 0 => cents = 0
  BY <1>1
<1>3. waste >= 10 => cents >= 80
  <2>1. ASSUME waste >= 10 PROVE cents >= 80
    <3>1. cents >= 10 * rate
      BY <1>1, <2>1
    <3> QED BY <3>1
  <2> QED BY <2>1
<1>4. PICK h \in Int : h = (2 * cents + 100) \div 200
  OBVIOUS
<1>5. cents = 0 => h = 0
  BY <1>4
<1>6. cents >= 80 => h >= 1
  BY <1>4
<1>7. Bleed(RoundDiv(waste * rate, 100)).monthly = 720 * h
  BY <1>1, <1>4 DEF Bleed, RoundDiv
<1> QED BY <1>2, <1>3, <1>5, <1>6, <1>7

\* A name is matched by one of the catalog, if at all.
LEMMA MatchIs ==
  ASSUME NEW catalog \in Seq(STRING), NEW name
  PROVE  FirstMatch(catalog, name) \in Range(catalog) \cup {None}
<1> DEFINE places == {k \in DOMAIN catalog : \/ <<catalog[k], name>> \in Similar
                                             \/ <<name, catalog[k]>> \in Similar}
           chosen == Picked(catalog, places)
<1>1. CASE name \in Range(catalog)
  BY <1>1 DEF FirstMatch
<1>2. CASE name \notin Range(catalog) /\ chosen = <<>>
  BY <1>2 DEF FirstMatch, First, Selected, Places, InOrder, Picked
<1>3. CASE name \notin Range(catalog) /\ chosen # <<>>
  <2>1. FirstMatch(catalog, name) = chosen[1]
    BY <1>3 DEF FirstMatch, First, Selected, Places, InOrder, Picked
  <2>2. places \in SUBSET DOMAIN catalog
    OBVIOUS
  <2>3. PICK c \in Nat : /\ c = Cardinality(places)
                         /\ chosen = [n \in 1..c |-> catalog[InOrder(places)[n]]]
                         /\ \A n \in 1..c : InOrder(places)[n] \in places
    BY <2>2, PickedIs, ZenonT(40)
  <2> HIDE DEF chosen, places
  <2>4. 1 \in 1..c
    BY <1>3, <2>3
  <2>5. chosen[1] = catalog[InOrder(places)[1]] /\ InOrder(places)[1] \in DOMAIN catalog
    BY <2>2, <2>3, <2>4
  <2>6. chosen[1] \in Range(catalog)
    BY <2>5 DEF Range
  <2> QED BY <2>1, <2>6
<1> QED BY <1>1, <1>2, <1>3

\* No accelerator is free.
LEMMA ProfileIs ==
  ASSUME NEW name
  PROVE  GetAcceleratorProfile(name) \in
           [idle : Nat, tdp : Nat, load : Nat, hourly : Nat \ {0}, peak : Nat \ {0}]
<1>1. FirstMatch(Accelerators, name) \in Range(Accelerators) \cup {None}
  BY TablesAreFull, MatchIs
<1> QED BY <1>1, TablesAreFull DEF GetAcceleratorProfile, Or

LEMMA DiagnosisIs ==
  ASSUME NEW category, NEW telemetry, telemetry # <<>>, NEW rate, NEW tdp, NEW rest,
         DOMAIN rest = {"fabric", "culprits"}
  PROVE  LET waste == MeasuredWaste(category, telemetry)
             report == rest ++ Diagnosis(category, Observed(category, telemetry, tdp), rate)
         IN  /\ report.category = category /\ report.waste = waste
             /\ report.monthly = Bleed(RoundDiv(waste * rate, 100)).monthly
<1>1. PICK waste, bleed : /\ waste = MeasuredWaste(category, telemetry)
                          /\ bleed = Bleed(RoundDiv(waste * rate, 100))
  OBVIOUS
<1>2. PICK f : /\ f = [category |-> category] /\ DOMAIN f = {"category"}
               /\ f["category"] = category
  <2> DEFINE f == [category |-> category]
  <2>1. DOMAIN f = {"category"} /\ f["category"] = category
    OBVIOUS
  <2> HIDE DEF f
  <2> QED BY <2>1 DEF f
<1>3. PICK g : /\ g = Observed(category, telemetry, tdp)
               /\ DOMAIN g = {"estimated", "waste", "sm", "watts"} /\ g["waste"] = waste
  <2> DEFINE g == Observed(category, telemetry, tdp)
  <2>1. DOMAIN g = {"estimated", "waste", "sm", "watts"}
    BY DEF Observed
  <2>2. g["waste"] = waste
    BY <1>1 DEF Observed
  <2> HIDE DEF g
  <2> QED BY <2>1, <2>2 DEF g
<1>4. DOMAIN bleed = {"hourly", "weekly", "monthly"}
  BY <1>1 DEF Bleed
<1>5. PICK fg : fg = f ++ g
  OBVIOUS
<1>6. DOMAIN fg = {"category", "estimated", "waste", "sm", "watts"}
  BY <1>2, <1>3, <1>5 DEF ++
<1>7. fg["category"] = category
  <2>1. "category" \in DOMAIN f
    BY <1>2
  <2> QED BY <1>2, <1>5, <2>1 DEF ++
<1>8. fg["waste"] = waste
  <2>1. "waste" \in DOMAIN g /\ "waste" \notin DOMAIN f
    BY <1>2, <1>3
  <2> QED BY <1>3, <1>5, <2>1 DEF ++
<1>9. PICK all : all = fg ++ bleed
  OBVIOUS
<1>10. /\ "category" \in DOMAIN fg /\ "waste" \in DOMAIN fg
       /\ "monthly" \in DOMAIN bleed /\ "monthly" \notin DOMAIN fg
  BY <1>4, <1>6
<1>11. DOMAIN all = DOMAIN fg \cup DOMAIN bleed
  BY <1>9 DEF ++
<1>12. all["category"] = category /\ all["waste"] = waste
  BY <1>7, <1>8, <1>9, <1>10 DEF ++
<1>13. all["monthly"] = bleed["monthly"]
  BY <1>9, <1>10 DEF ++
<1>14. /\ "category" \in DOMAIN all /\ "waste" \in DOMAIN all /\ "monthly" \in DOMAIN all
       /\ "category" \notin DOMAIN rest /\ "waste" \notin DOMAIN rest
       /\ "monthly" \notin DOMAIN rest
  BY <1>10, <1>11
<1>15. PICK report : report = rest ++ all
  OBVIOUS
<1>16. report["category"] = category
  BY <1>12, <1>14, <1>15 DEF ++
<1>17. report["waste"] = waste
  BY <1>12, <1>14, <1>15 DEF ++
<1>18. report["monthly"] = bleed["monthly"]
  BY <1>13, <1>14, <1>15 DEF ++
<1>19. report = rest ++ Diagnosis(category, Observed(category, telemetry, tdp), rate)
  BY <1>1, <1>2, <1>3, <1>5, <1>9, <1>15 DEF Diagnosis
<1> QED BY <1>1, <1>16, <1>17, <1>18, <1>19

LEMMA ShownIsHealthy ==
  ASSUME ShownInv
  PROVE  HealthyMeansNoWaste
<1> SUFFICES ASSUME NEW p \in Processes, Answered(p, "correlate"),
                    work[p].cmd.arg.telemetry # <<>>
             PROVE  LET telemetry == work[p].cmd.arg.telemetry
                        healthy == shown[p].category = "healthy_optimal"
                    IN  /\ healthy <=> shown[p].waste = 0
                        /\ healthy <=> shown[p].monthly = 0
                        /\ healthy => \A k \in DOMAIN telemetry :
                             telemetry[k].nccl <= 30 /\ telemetry[k].pcie <= 7000
  BY DEF HealthyMeansNoWaste
<1> DEFINE arg == work[p].cmd.arg
<1>1. PICK record : shown[p] = OfTrace("correlate", arg, record)
  BY DEF ShownInv, Shows
<1>2. PICK s \in Plans : \A q \in Processes : work[q].cmd = s.commands[q]
  BY DEF ShownInv, Planned
<1>3. WellFormed(work[p].cmd, s.runs) /\ work[p].cmd.op = "correlate"
  BY <1>2, PlansAreWellFormed DEF Answered
<1>4. arg.telemetry \in Seq(PhysicalSamples) /\ arg.telemetry # <<>>
  BY <1>3 DEF WellFormed
<1>5. OfTrace("correlate", arg, record)
        = DiagnoseTrace(record, arg.telemetry, arg.fabric, None, "h100", 8)
  BY DEF OfTrace
<1> HIDE DEF arg
<1>6. PICK t \in Seq(PhysicalSamples) : t = arg.telemetry /\ t # <<>>
  BY <1>4
<1>7. PICK rest : /\ rest = [fabric |-> FabricCongested(arg.fabric),
                             culprits |-> Culprits(record.spans)]
                  /\ DOMAIN rest = {"fabric", "culprits"}
  <2> DEFINE rest == [fabric |-> FabricCongested(arg.fabric),
                      culprits |-> Culprits(record.spans)]
  <2>1. DOMAIN rest = {"fabric", "culprits"}
    OBVIOUS
  <2> HIDE DEF rest
  <2> QED BY <2>1 DEF rest
<1>8. PICK profile \in [idle : Nat, tdp : Nat, load : Nat, hourly : Nat \ {0}, peak : Nat \ {0}] :
        profile = GetAcceleratorProfile("h100")
  BY ProfileIs
<1>9. PICK rate \in Int : rate = profile.hourly * 8 /\ rate >= 8
  OBVIOUS
<1>10. PICK category : category = MeasuredCategory(t)
  OBVIOUS
<1>11. shown[p] = rest ++ Diagnosis(category, Observed(category, t, profile.tdp), rate)
  BY <1>1, <1>5, <1>6, <1>7, <1>8, <1>9, <1>10 DEF DiagnoseTrace, DiagnoseAs, Or
<1>12. /\ shown[p].category = category /\ shown[p].waste = MeasuredWaste(category, t)
       /\ shown[p].monthly = Bleed(RoundDiv(MeasuredWaste(category, t) * rate, 100)).monthly
  BY <1>6, <1>7, <1>11, DiagnosisIs
<1>13. PICK sm \in Int, pcie \in Int, nccl \in Int, cpu \in Int :
         /\ sm = Mean(t, "sm") /\ pcie = MaxOf(t, "pcie")
         /\ nccl = MaxOf(t, "nccl") /\ cpu = Mean(t, "cpu")
  BY <1>6, MeanIs, MaxOfIs
<1>14. /\ category \in {"dataloader_starvation", "nccl_overhead", "pcie_bottleneck",
                        "framework_overhead", "healthy_optimal"}
       /\ category = "healthy_optimal" => nccl <= 30 /\ pcie <= 7000
  <2>1. category = CategoryOf(sm, pcie, nccl, cpu)
    BY <1>10, <1>13 DEF MeasuredCategory
  <2> QED BY <2>1, CategoryIs
<1>15. PICK waste \in Int : /\ waste = MeasuredWaste(category, t)
                            /\ category = "healthy_optimal" => waste = 0
                            /\ category # "healthy_optimal" => waste >= 10
  <2>1. /\ MeasuredWaste(category, t) \in Int
        /\ category = "healthy_optimal" => MeasuredWaste(category, t) = 0
        /\ category # "healthy_optimal" => MeasuredWaste(category, t) >= 10
    BY <1>6, <1>14, WasteIs
  <2> QED BY <2>1
<1>16. shown[p].monthly = 0 <=> waste = 0
  <2>1. waste = 0 \/ waste >= 10
    BY <1>15
  <2>2. Bleed(RoundDiv(waste * rate, 100)).monthly = 0 <=> waste = 0
    BY <1>9, <2>1, BleedIs
  <2> QED BY <1>12, <1>15, <2>2
<1>17. ASSUME category = "healthy_optimal", NEW k \in DOMAIN t
       PROVE  t[k].nccl <= 30 /\ t[k].pcie <= 7000
  <2>1. t[k]["nccl"] <= nccl /\ t[k]["pcie"] <= pcie
    BY <1>6, <1>13, MaxOfIs
  <2>2. t[k] \in PhysicalSamples
    OBVIOUS
  <2>3. t[k].nccl \in Nat /\ t[k].pcie \in Nat
    BY <2>2 DEF PhysicalSamples
  <2>4. t[k].nccl <= nccl /\ t[k].pcie <= pcie
    BY <2>1
  <2>5. nccl <= 30 /\ pcie <= 7000
    BY <1>14, <1>17
  <2> QED BY <2>3, <2>4, <2>5
<1>18. \/ waste = 0 /\ category = "healthy_optimal"
       \/ waste # 0 /\ category # "healthy_optimal"
  BY <1>15
<1>19. /\ shown[p].category = "healthy_optimal" <=> shown[p].waste = 0
       /\ shown[p].category = "healthy_optimal" <=> shown[p].monthly = 0
  BY <1>12, <1>15, <1>16, <1>18
<1>20. shown[p].category = "healthy_optimal" =>
         \A k \in DOMAIN t : t[k].nccl <= 30 /\ t[k].pcie <= 7000
  BY <1>12, <1>17
<1> QED BY <1>6, <1>19, <1>20 DEF arg

\* A trace is called healthy just if it is charged no waste, by the hour and by the
\* month, and never if GPUs wait for each other or the bus is saturated, for any trace
\* and any telemetry (correlation.py:184-278).
THEOREM HealthyMeansNoWasteThm == Spec => []HealthyMeansNoWaste
BY ShownThm, ShownIsHealthy, PTL

----------
(* Waste *)

AverageFields == {"sm", "pcie", "nccl", "cpu", "eager"}

LEMMA UpTo ==
  ASSUME NEW v, NEW hi \in Nat, v \in Nat, v <= hi
  PROVE  v \in 0..hi
OBVIOUS

LEMMA TenTimes ==
  ASSUME NEW x \in Int, NEW w \in Int, NEW z \in Int, z > 10 * w, z <= 10 * x
  PROVE  ~ (x <= w)
OBVIOUS

\* The mean lies between the least and the greatest value.
LEMMA MeanIsBounded ==
  ASSUME NEW t, NEW n \in Nat \ {0}, DOMAIN t = 1..n, Len(t) = n, NEW field,
         NEW hi \in Nat, \A k \in 1..n : t[k][field] \in 0..hi
  PROVE  Mean(t, field) \in Nat /\ Mean(t, field) <= 10 * hi
<1> DEFINE D == 1..n
           f == [k \in DOMAIN t |-> t[k][field]]
<1>1. f \in [D -> Int] /\ \A k \in D : 0 <= f[k] /\ f[k] <= hi
  OBVIOUS
<1>2. IsFiniteSet(D) /\ Cardinality(D) = n
  BY FS_Interval
<1>3. Mean(t, field) = (10 * SumFunction(f)) \div n
  BY DEF Mean
<1>4. DOMAIN f = D
  OBVIOUS
<1> HIDE DEF f, D
<1>5. D \in SUBSET D
  OBVIOUS
<1>6. /\ SumOver(f, D) \in Int
      /\ 0 * Cardinality(D) <= SumOver(f, D)
      /\ SumOver(f, D) <= hi * Cardinality(D)
  BY <1>1, <1>2, <1>5, SumIsBounded
<1>7. PICK x \in Int : x = SumOver(f, D) /\ 0 <= x /\ x <= hi * n
  BY <1>2, <1>6
<1>8. Mean(t, field) = (10 * x) \div n
  BY <1>3, <1>4, <1>7, SumFunctionIs
<1>9. PICK m \in Int : m = (10 * x) \div n
  OBVIOUS
<1>10. n * m <= 10 * x /\ 10 * x < n * (m + 1)
  BY <1>9
<1>11. m >= 0
  <2>1. ASSUME m < 0 PROVE FALSE
    <3>1. n * (m + 1) <= 0
      BY <2>1
    <3> QED BY <1>7, <1>10, <3>1
  <2> QED BY <2>1
<1>12. m <= 10 * hi
  <2>1. ASSUME m > 10 * hi PROVE FALSE
    <3>1. n * m > n * (10 * hi)
      BY <2>1
    <3>2. PICK w \in Int : w = hi * n
      OBVIOUS
    <3>3. n * (10 * hi) = 10 * w
      BY <3>2
    <3>4. PICK z \in Int : z = n * m
      OBVIOUS
    <3>5. z > 10 * w /\ z <= 10 * x /\ x <= w
      BY <1>7, <1>10, <3>1, <3>2, <3>3, <3>4
    <3> QED BY <3>5, TenTimes
  <2> QED BY <2>1
<1> QED BY <1>8, <1>9, <1>11, <1>12

\* Averages are numbers, and none is greater than all that it is an average of.
LEMMA AveragesAre ==
  ASSUME NEW t \in Seq(WasteSamples)
  PROVE  /\ Averages(t) \in [AverageFields -> Nat]
         /\ \A most \in Nat : most >= 25 /\ (\A k \in DOMAIN t : t[k].eager <= most) =>
                                Averages(t)["eager"] <= 10 * most
<1>1. CASE t = <<>>
  <2>1. Averages(t) = Baseline
    BY <1>1 DEF Averages
  <2>2. Baseline \in [AverageFields -> Nat] /\ Baseline["eager"] = 120
    BY DEF Baseline, AverageFields
  <2> QED BY <2>1, <2>2
<1>2. CASE t # <<>>
  <2>1. PICK n \in Nat \ {0} : n = Len(t) /\ DOMAIN t = 1..n
    BY <1>2
  <2>2. Averages(t) = [f \in AverageFields |-> Mean(t, f)]
    BY <1>2 DEF Averages, AverageFields
  <2>3. \A k \in 1..n : t[k] \in WasteSamples
    BY <2>1
  <2>4. \A k \in 1..n : \A field \in AverageFields : t[k][field] \in Nat
    BY <2>3 DEF WasteSamples, AverageFields
  <2>5. ASSUME NEW field \in AverageFields PROVE Mean(t, field) \in Nat
    <3> DEFINE f == [k \in 1..n |-> t[k][field]]
    <3>1. f \in [1..n -> Int] /\ \A k \in 1..n : f[k] = t[k][field]
      BY <2>4
    <3> HIDE DEF f
    <3>2. PICK k \in 1..n : \A j \in 1..n : f[j] <= f[k]
      BY <3>1, FirstOfGreatest
    <3>3. PICK hi \in Nat : hi = f[k]
      BY <2>4, <3>1
    <3>4. \A j \in 1..n : t[j][field] \in 0..hi
      <4>1. ASSUME NEW j \in 1..n PROVE t[j][field] \in 0..hi
        <5>1. t[j][field] \in Nat /\ t[j][field] <= hi
          BY <2>4, <3>1, <3>2, <3>3
        <5> QED BY <5>1
      <4> QED BY <4>1
    <3> QED BY <2>1, <3>4, MeanIsBounded
  <2>6. ASSUME NEW most \in Nat, \A k \in DOMAIN t : t[k].eager <= most
        PROVE  Mean(t, "eager") <= 10 * most
    <3>1. ASSUME NEW k \in 1..n PROVE t[k]["eager"] \in 0..most
      <4>1. t[k]["eager"] \in Nat
        BY <2>4 DEF AverageFields
      <4>2. t[k]["eager"] <= most
        BY <2>1, <2>6
      <4> QED BY <4>1, <4>2, UpTo
    <3> QED BY <2>1, <3>1, MeanIsBounded
  <2> QED BY <2>2, <2>5, <2>6 DEF AverageFields
<1> QED BY <1>1, <1>2

\* Shares of waste at a mean share e of eager steps.
FairShares(d, n, x, f, e) ==
  /\ d <= 413 /\ n <= 350 /\ x <= 180
  /\ d = 0 \/ x = 0
  /\ f <= 250 \/ f <= e

SharesRecord(d, n, x, f) ==
  [dataloader_starvation |-> d, nccl_overhead |-> n, pcie_bottleneck |-> x,
   framework_overhead |-> f]

LEMMA SharesAre ==
  ASSUME NEW a \in [AverageFields -> Nat], NEW gpus \in Nat
  PROVE  \E d, n, x, f \in Nat :
           FairShares(d, n, x, f, a["eager"]) /\ Shares(a, gpus) = SharesRecord(d, n, x, f)
<1>1. PICK sm \in Nat, pcie \in Nat, nccl \in Nat, cpu \in Nat, eager \in Nat :
        /\ sm = a.sm /\ pcie = a.pcie /\ nccl = a.nccl /\ cpu = a.cpu /\ eager = a.eager
  BY DEF AverageFields
<1>2. DataloaderWaste(a) \in 0..413
  <2>1. PICK x \in Int : x = (2 * (3 * (550 - sm)) + 4) \div 8
    OBVIOUS
  <2>2. PICK y \in Int : y = (2 * (2 * (700 - sm)) + 5) \div 10
    OBVIOUS
  <2>3. DataloaderWaste(a) = IF sm < 550 /\ pcie < 6000 THEN x
                             ELSE IF sm < 700 /\ pcie < 3000 THEN y ELSE 0
    BY <1>1, <2>1, <2>2 DEF DataloaderWaste, RoundDiv
  <2>4. sm < 550 => x \in 0..413
    BY <2>1
  <2>5. sm >= 550 /\ sm < 700 => y \in 0..413
    BY <2>2
  <2> QED BY <1>1, <2>3, <2>4, <2>5
<1>3. NcclWaste(a, gpus) \in 0..350
  BY <1>1 DEF NcclWaste, RoundDiv, Lesser
<1>4. PcieWaste(a) \in 0..180
  BY <1>1 DEF PcieWaste
<1>5. FrameworkWaste(a) \in Nat /\ (FrameworkWaste(a) <= 250 \/ FrameworkWaste(a) <= eager)
  BY <1>1 DEF FrameworkWaste, Greater, Lesser
<1>6. DataloaderWaste(a) = 0 \/ PcieWaste(a) = 0
  BY <1>1 DEF DataloaderWaste, PcieWaste
<1>7. PICK d \in Nat : d = DataloaderWaste(a) /\ d <= 413
  BY <1>2
<1>8. PICK n \in Nat : n = NcclWaste(a, gpus) /\ n <= 350
  BY <1>3
<1>11. PICK x \in Nat : x = PcieWaste(a) /\ x <= 180
  BY <1>4
<1>12. PICK f \in Nat : f = FrameworkWaste(a)
  BY <1>5
<1>9. FairShares(d, n, x, f, eager)
  BY <1>5, <1>6, <1>7, <1>8, <1>11, <1>12 DEF FairShares
<1>10. Shares(a, gpus) = SharesRecord(d, n, x, f)
  BY <1>7, <1>8, <1>11, <1>12 DEF Shares, SharesRecord
<1> QED BY <1>1, <1>9, <1>10

\* A share of a cost is that part of it, rounded.
Rounded(cents, share, cost) ==
  /\ ShareOfCost(share, cost) = 100 * cents
  /\ 200000 * cents <= 2 * (share * cost) + 100000
  /\ share = 0 => cents = 0

LEMMA ShareOfCostIs ==
  ASSUME NEW share \in Nat, NEW cost \in Nat
  PROVE  \E cents \in Nat : Rounded(cents, share, cost)
<1>1. PICK q \in Nat, r \in Nat : q = cost \div 100000 /\ r = cost % 100000 /\ cost = 100000 * q + r
  OBVIOUS
<1>2. PICK a \in Nat, b \in Nat : a = share * q /\ b = share * r
  OBVIOUS
<1>3. share * cost = 100000 * a + b
  <2>1. share * cost = share * (100000 * q + r)
    BY <1>1
  <2>2. share * (100000 * q + r) = 100000 * (share * q) + share * r
    OBVIOUS
  <2> QED BY <1>2, <2>1, <2>2
<1>4. PICK d \in Nat : d = (2 * b + 100000) \div 200000
  OBVIOUS
<1>5. 200000 * d <= 2 * b + 100000 /\ (b = 0 => d = 0)
  BY <1>4
<1>6. ShareOfCost(share, cost) = 100 * (a + d)
  BY <1>1, <1>2, <1>4 DEF ShareOfCost, RoundDiv
<1>7. 200000 * (a + d) <= 2 * (share * cost) + 100000
  <2>1. 200000 * (a + d) <= 200000 * a + 2 * b + 100000
    BY <1>5
  <2> QED BY <1>3, <2>1
<1>8. share = 0 => a + d = 0
  BY <1>2, <1>5
<1>9. a + d \in Nat
  OBVIOUS
<1> QED BY <1>6, <1>7, <1>8, <1>9 DEF Rounded

Covered(cents, cost, most) == 100 * cents <= (77 + most) * (cost \div 100) + 400 + most

\* No more than the run cost and 1.3 percent of it, or what is eager beyond that,
\* but for rounding.
LEMMA FourShares ==
  ASSUME NEW c \in Nat, NEW d \in Nat, NEW n \in Nat, NEW x \in Nat, NEW f \in Nat,
         NEW e \in Nat, FairShares(d, n, x, f, e),
         NEW most \in Nat, most >= 25, e <= 10 * most,
         NEW d1 \in Nat, NEW n1 \in Nat, NEW x1 \in Nat, NEW f1 \in Nat,
         Rounded(d1, d, c), Rounded(n1, n, c), Rounded(x1, x, c), Rounded(f1, f, c),
         NEW u \in Nat, u = d1 + n1 + x1 + f1
  PROVE  Covered(u, c, most)
<1>1. PICK s \in Nat : s = d + n + x + f
  OBVIOUS
<1>2. s <= 763 + 10 * most
  BY <1>1 DEF FairShares
<1>3. PICK dc \in Nat, nc \in Nat, xc \in Nat, fc \in Nat :
        dc = d * c /\ nc = n * c /\ xc = x * c /\ fc = f * c
  OBVIOUS
<1>4. s * c = dc + nc + xc + fc
  <2>1. (d + n + x + f) * c = d * c + n * c + x * c + f * c
    OBVIOUS
  <2> QED BY <1>1, <1>3, <2>1
<1>5. PICK b \in Nat : b = most * c
  OBVIOUS
<1>6. dc + nc + xc + fc <= 763 * c + 10 * b
  <2>1. s * c <= (763 + 10 * most) * c
    BY <1>2
  <2>2. (763 + 10 * most) * c = 763 * c + 10 * (most * c)
    OBVIOUS
  <2> QED BY <1>4, <1>5, <2>1, <2>2
<1>7. PICK m \in Nat : m = c \div 100 /\ c <= 100 * m + 99
  OBVIOUS
<1>8. PICK g \in Nat : g = most * m
  OBVIOUS
<1>9. b <= 100 * g + 99 * most
  <2>1. most * c <= most * (100 * m + 99)
    BY <1>7
  <2>2. most * (100 * m + 99) = 100 * (most * m) + 99 * most
    OBVIOUS
  <2> QED BY <1>5, <1>8, <2>1, <2>2
<1>10. /\ 200000 * d1 <= 2 * dc + 100000 /\ 200000 * n1 <= 2 * nc + 100000
       /\ 200000 * x1 <= 2 * xc + 100000 /\ 200000 * f1 <= 2 * fc + 100000
  BY <1>3 DEF Rounded
<1>11. 200000 * u <= 1526 * c + 20 * b + 400000
  BY <1>6, <1>10
<1>12. 100 * u <= 77 * m + g + 400 + most
  BY <1>7, <1>9, <1>11
<1>13. (77 + most) * m = 77 * m + g
  BY <1>8
<1> QED BY <1>7, <1>12, <1>13 DEF Covered

LEMMA RunCostIs ==
  ASSUME NEW duration \in Nat, NEW rate \in Nat
  PROVE  RunCost(duration, rate) \in Nat
<1>1. PICK q \in Nat, r \in Nat : q = duration \div 360 /\ r = duration % 360
  OBVIOUS
<1>2. PICK a \in Nat, b \in Nat : a = q * rate /\ b = r * rate
  OBVIOUS
<1>3. (2 * b + 360) \div 720 \in Nat
  OBVIOUS
<1>4. RunCost(duration, rate) = a + (2 * b + 360) \div 720
  BY <1>1, <1>2 DEF RunCost, RoundDiv
<1> QED BY <1>3, <1>4

----------
(* The component that wastes most *)

\* An order by one key, the greatest first, and among equals by another, which no
\* two have in common.
LEMMA KeysOrder ==
  ASSUME NEW K, NEW v \in [K -> Int], NEW w \in [K -> Int],
         \A j, k \in K : w[j] = w[k] => j = k
  PROVE  Orders({x \in K \X K : \/ v[x[1]] > v[x[2]]
                                \/ v[x[1]] = v[x[2]] /\ w[x[1]] < w[x[2]]}, K)
<1> DEFINE R == {x \in K \X K : \/ v[x[1]] > v[x[2]]
                                \/ v[x[1]] = v[x[2]] /\ w[x[1]] < w[x[2]]}
<1>1. ASSUME NEW j \in K, NEW k \in K
      PROVE  (<<j, k>> \in R) <=> (v[j] > v[k] \/ (v[j] = v[k] /\ w[j] < w[k]))
  <2>1. <<j, k>> \in K \X K /\ <<j, k>>[1] = j /\ <<j, k>>[2] = k
    OBVIOUS
  <2> QED BY <2>1
<1>0. \A k \in K : v[k] \in Int /\ w[k] \in Int
  OBVIOUS
<1> HIDE DEF R
<1>2. \A k \in K : <<k, k>> \notin R
  BY <1>0, <1>1
<1>3. ASSUME NEW j \in K, NEW k \in K, j # k PROVE <<j, k>> \in R \/ <<k, j>> \in R
  <2>1. w[j] # w[k]
    BY <1>3
  <2> QED BY <1>0, <1>1, <2>1
<1>4. ASSUME NEW i \in K, NEW j \in K, NEW k \in K, <<i, j>> \in R, <<j, k>> \in R
      PROVE  <<i, k>> \in R
  BY <1>0, <1>1, <1>4
<1>5. Orders(R, K)
  BY <1>2, <1>3, <1>4 DEF Orders
<1> QED BY <1>5 DEF R

PatternSet ==
  {"dataloader_starvation", "nccl_overhead", "pcie_bottleneck", "framework_overhead"}

LEMMA PatternsAre ==
  /\ Range(Patterns) = PatternSet /\ IsFiniteSet(PatternSet)
  /\ \A p \in PatternSet : Position(p) \in 1..4 /\ Patterns[Position(p)] = p
<1>1. DOMAIN Patterns = 1..4
  BY DEF Patterns
<1>2. /\ Patterns[1] = "dataloader_starvation" /\ Patterns[2] = "nccl_overhead"
      /\ Patterns[3] = "pcie_bottleneck" /\ Patterns[4] = "framework_overhead"
  BY DEF Patterns
<1>3. \A k \in 1..4 : k = 1 \/ k = 2 \/ k = 3 \/ k = 4
  OBVIOUS
<1>4. Range(Patterns) = PatternSet
  <2>1. Range(Patterns) \subseteq PatternSet
    BY <1>1, <1>2, <1>3 DEF Range, PatternSet
  <2>2. PatternSet \subseteq Range(Patterns)
    BY <1>1, <1>2 DEF Range, PatternSet
  <2> QED BY <2>1, <2>2
<1>5. IsFiniteSet(PatternSet)
  <2>1. Patterns \in Surjection(1..4, PatternSet)
    <3>1. Patterns = [k \in 1..4 |-> Patterns[k]]
      BY DEF Patterns
    <3>2. \A k \in 1..4 : Patterns[k] \in PatternSet
      BY <1>2, <1>3 DEF PatternSet
    <3>3. \A p \in PatternSet : \E k \in 1..4 : Patterns[k] = p
      BY <1>2 DEF PatternSet
    <3>4. Patterns \in [1..4 -> PatternSet]
      BY <3>1, <3>2
    <3> QED BY <3>3, <3>4, Zenon DEF Surjection
  <2>2. PICK four \in Int : four = 4
    OBVIOUS
  <2>3. IsFiniteSet(1..four)
    BY FS_Interval
  <2> QED BY <2>1, <2>2, <2>3, FS_Surjection
<1>6. ASSUME NEW p \in PatternSet
      PROVE  Position(p) \in 1..4 /\ Patterns[Position(p)] = p
  <2>1. \E k \in DOMAIN Patterns : Patterns[k] = p
    BY <1>1, <1>2 DEF PatternSet
  <2> QED BY <1>1, <2>1 DEF Position
<1> QED BY <1>4, <1>5, <1>6

\* If some pattern has a share there is a first component.
LEMMA TopIs ==
  ASSUME NEW shares \in [PatternSet -> Nat], NEW some \in PatternSet, shares[some] > 0
  PROVE  First(Components(shares)) # None
<1> DEFINE K == {p \in PatternSet : shares[p] > 0}
           v == [p \in K |-> shares[p]]
           w == [p \in K |-> Position(p)]
           R == {x \in K \X K : \/ v[x[1]] > v[x[2]]
                                \/ v[x[1]] = v[x[2]] /\ w[x[1]] < w[x[2]]}
           s == Components(shares)
<1>1. v \in [K -> Int] /\ w \in [K -> Int]
  BY PatternsAre
<1>2. \A j, k \in K : w[j] = w[k] => j = k
  BY PatternsAre
<1>3. /\ \A p \in K : v[p] = shares[p] /\ w[p] = Position(p)
      /\ K = {p \in Range(Patterns) : shares[p] > 0} /\ some \in K
      /\ K \subseteq PatternSet
  BY PatternsAre
<1> HIDE DEF K, v, w
<1>4. Orders(R, K)
  BY <1>1, <1>2, KeysOrder
<1>5. IsFiniteSet(K) /\ Cardinality(K) \in Nat /\ Cardinality(K) # 0
  BY <1>3, PatternsAre, FS_Subset, FS_CardinalityType, FS_EmptySet
<1>6. 1 \in 1..Cardinality(K)
  BY <1>5
<1>7. s = [n \in 1..Cardinality(K) |->
             CHOOSE k \in K : Cardinality({j \in K :
                \/ shares[j] > shares[k]
                \/ shares[j] = shares[k] /\ Position(j) < Position(k)}) = n - 1]
  BY <1>3 DEF Components, Ranked
<1>8. \A k \in K : Below(K, R, k) = {j \in K :
                \/ shares[j] > shares[k]
                \/ shares[j] = shares[k] /\ Position(j) < Position(k)}
  BY <1>3 DEF Below
<1>9. PICK k \in K : Cardinality(Below(K, R, k)) = 0
  <2> HIDE DEF R
  <2>1. \E k \in K : Cardinality(Below(K, R, k)) = 1 - 1
    BY <1>4, <1>5, <1>6, RanksAreTaken
  <2> QED BY <2>1
<1>14. \A i \in K : Below(K, R, i) = {j \in K :
                \/ shares[j] > shares[i]
                \/ shares[j] = shares[i] /\ Position(j) < Position(i)}
  BY <1>8
<1>10. \E i \in K : Cardinality({j \in K :
                \/ shares[j] > shares[i]
                \/ shares[j] = shares[i] /\ Position(j) < Position(i)}) = 0
  BY <1>8, <1>9
<1>11. s[1] \in K
  <2>1. s[1] = CHOOSE i \in K : Cardinality({j \in K :
                \/ shares[j] > shares[i]
                \/ shares[j] = shares[i] /\ Position(j) < Position(i)}) = 1 - 1
    BY <1>6, <1>7
  <2>2. 1 - 1 = 0
    OBVIOUS
  <2> HIDE DEF s
  <2> QED BY <1>10, <2>1, <2>2
<1>12. s # <<>>
  <2>1. DOMAIN s = 1..Cardinality(K)
    BY <1>7
  <2> HIDE DEF s
  <2>2. 1 \in DOMAIN s
    BY <1>6, <2>1
  <2> QED BY <2>2
<1>13. s[1] # None
  BY <1>3, <1>11, PatternsAre, NoneIsNoPattern
<1> QED BY <1>12, <1>13 DEF First

----------
(* The report *)

Accounted(report, e) ==
  /\ report.shares.dataloader_starvation = 0 \/ report.shares.pcie_bottleneck = 0
  /\ \A most \in Nat : most >= 25 /\ e <= 10 * most =>
       100 * (report.wasted \div 100) <= (77 + most) * (report.cost \div 100) + 400 + most
  /\ report.wasted + report.effective = Greater(report.cost, report.wasted)
  /\ report.wasted > 0 /\ report.cost > 0 => report.total > 0 /\ report.top # None

LEMMA WasteReportIs ==
  ASSUME NEW d \in Nat, NEW n \in Nat, NEW x \in Nat, NEW f \in Nat, NEW e \in Nat,
         FairShares(d, n, x, f, e), NEW cost \in Nat, NEW rate, NEW shares,
         shares = SharesRecord(d, n, x, f)
  PROVE  Accounted(WasteReport(shares, Components(shares), rate, cost), e)
<1> DEFINE report == WasteReport(shares, Components(shares), rate, cost)
<1>1. PICK d1 \in Nat : Rounded(d1, d, cost)
  BY ShareOfCostIs
<1>2. PICK n1 \in Nat : Rounded(n1, n, cost)
  BY ShareOfCostIs
<1>3. PICK x1 \in Nat : Rounded(x1, x, cost)
  BY ShareOfCostIs
<1>4. PICK f1 \in Nat : Rounded(f1, f, cost)
  BY ShareOfCostIs
<1>5. /\ shares.dataloader_starvation = d /\ shares.nccl_overhead = n
      /\ shares.pcie_bottleneck = x /\ shares.framework_overhead = f
      /\ DOMAIN shares = PatternSet /\ shares \in [PatternSet -> Nat]
  <2>1. /\ shares.dataloader_starvation = d /\ shares.nccl_overhead = n
        /\ shares.pcie_bottleneck = x /\ shares.framework_overhead = f
    BY DEF SharesRecord
  <2>2. DOMAIN shares = PatternSet
    BY DEF PatternSet, SharesRecord
  <2>3. shares = [p \in PatternSet |-> shares[p]]
    BY DEF PatternSet, SharesRecord
  <2>4. \A p \in PatternSet : shares[p] \in Nat
    BY <2>1 DEF PatternSet
  <2> QED BY <2>1, <2>2, <2>3, <2>4
<1>6. WastedOf(shares, cost) = 100 * d1 + 100 * n1 + 100 * x1 + 100 * f1
  <2> DEFINE costs == [p \in DOMAIN shares |-> ShareOfCost(shares[p], cost)]
  <2>1. /\ costs["dataloader_starvation"] = 100 * d1 /\ costs["nccl_overhead"] = 100 * n1
        /\ costs["pcie_bottleneck"] = 100 * x1 /\ costs["framework_overhead"] = 100 * f1
    <3>1. /\ ShareOfCost(d, cost) = 100 * d1 /\ ShareOfCost(n, cost) = 100 * n1
          /\ ShareOfCost(x, cost) = 100 * x1 /\ ShareOfCost(f, cost) = 100 * f1
      BY <1>1, <1>2, <1>3, <1>4 DEF Rounded
    <3> QED BY <3>1, <1>5 DEF PatternSet
  <2>2. WastedOf(shares, cost) = OverPatterns(costs)
    BY DEF WastedOf
  <2> HIDE DEF costs
  <2> QED BY <2>1, <2>2 DEF OverPatterns
<1>7. PICK w \in Nat : w = d1 + n1 + x1 + f1 /\ WastedOf(shares, cost) = 100 * w
  BY <1>6
<1>8. TotalShare(shares) = Lesser(1000, d + n + x + f)
  BY <1>5 DEF TotalShare, OverPatterns
<1>9. /\ report.shares = shares /\ report.cost = cost /\ report.total = TotalShare(shares)
      /\ report.wasted = WastedOf(shares, cost)
      /\ report.effective = Greater(0, cost - WastedOf(shares, cost))
      /\ report.top = First(Components(shares))
  BY DEF WasteReport
<1> HIDE DEF report
<1>10. report.shares.dataloader_starvation = 0 \/ report.shares.pcie_bottleneck = 0
  BY <1>5, <1>9 DEF FairShares
<1>11. ASSUME NEW most \in Nat, most >= 25, e <= 10 * most
       PROVE  100 * (report.wasted \div 100)
                <= (77 + most) * (report.cost \div 100) + 400 + most
  <2>0. most >= 25 /\ e <= 10 * most
    BY <1>11
  <2>1. w = d1 + n1 + x1 + f1
    BY <1>7
  <2>2. Covered(w, cost, most)
    BY <1>1, <1>2, <1>3, <1>4, <2>0, <2>1, FourShares
  <2>3. (100 * w) \div 100 = w
    OBVIOUS
  <2> QED BY <1>7, <1>9, <2>2, <2>3 DEF Covered
<1>12. report.wasted + report.effective = Greater(report.cost, report.wasted)
  BY <1>7, <1>9 DEF Greater
<1>13. ASSUME report.wasted > 0, report.cost > 0
       PROVE  report.total > 0 /\ report.top # None
  <2>1. w > 0
    BY <1>7, <1>9, <1>13
  <2>2. d # 0 \/ n # 0 \/ x # 0 \/ f # 0
    <3>1. /\ d = 0 => d1 = 0
          /\ n = 0 => n1 = 0
          /\ x = 0 => x1 = 0
          /\ f = 0 => f1 = 0
      BY <1>1, <1>2, <1>3, <1>4 DEF Rounded
    <3> QED BY <3>1, <1>7, <2>1
  <2>3. report.total > 0
    <3>1. PICK sum \in Nat : sum = d + n + x + f /\ sum > 0
      BY <2>2
    <3>2. Lesser(1000, sum) > 0
      BY <3>1 DEF Lesser
    <3> QED BY <1>8, <1>9, <3>1, <3>2
  <2>4. \E some \in PatternSet : shares[some] > 0
    BY <1>5, <2>2 DEF PatternSet
  <2>5. First(Components(shares)) # None
    BY <1>5, <2>4, TopIs
  <2> QED BY <1>9, <2>3, <2>5
<1>14. report.wasted > 0 /\ report.cost > 0 => report.total > 0 /\ report.top # None
  BY <1>13
<1>15. \A most \in Nat : most >= 25 /\ e <= 10 * most =>
         100 * (report.wasted \div 100) <= (77 + most) * (report.cost \div 100) + 400 + most
  BY <1>11
<1>16. Accounted(report, e)
  BY <1>10, <1>12, <1>14, <1>15 DEF Accounted
<1> QED BY <1>16 DEF report

LEMMA ShownIsAccounted ==
  ASSUME ShownInv
  PROVE  WasteIsAccounted
<1> SUFFICES ASSUME NEW p \in Processes, Answered(p, "detect")
             PROVE  LET report == shown[p]
                        samples == work[p].cmd.arg.samples
                        eager == {25} \cup {samples[k].eager : k \in DOMAIN samples}
                    IN  /\ \/ report.shares.dataloader_starvation = 0
                           \/ report.shares.pcie_bottleneck = 0
                        /\ \A most \in eager : (\A e \in eager : e <= most) =>
                             100 * (report.wasted \div 100)
                               <= (77 + most) * (report.cost \div 100) + 400 + most
                        /\ report.wasted + report.effective = Greater(report.cost, report.wasted)
                        /\ report.wasted > 0 /\ report.cost > 0 =>
                             report.total > 0 /\ report.top # None
  BY DEF WasteIsAccounted
<1> DEFINE arg == work[p].cmd.arg
<1>1. shown[p] = OfArguments("detect", arg)
  BY DEF ShownInv, Shows
<1>2. PICK s \in Plans : \A q \in Processes : work[q].cmd = s.commands[q]
  BY DEF ShownInv, Planned
<1>3. WellFormed(work[p].cmd, s.runs) /\ work[p].cmd.op = "detect"
  BY <1>2, PlansAreWellFormed DEF Answered
<1>4. /\ arg.samples \in Seq(WasteSamples) /\ arg.gpus \in Nat
      /\ arg.duration \in Nat /\ arg.cost \in Nat \cup {None}
  BY <1>3 DEF WellFormed
<1>5. OfArguments("detect", arg)
        = DetectComputeWaste(arg.samples, arg.accelerator, arg.gpus, arg.duration, arg.cost)
  BY DEF OfArguments
<1> HIDE DEF arg
<1>6. PICK samples \in Seq(WasteSamples) : samples = arg.samples
  BY <1>4
<1>7. PICK a \in [AverageFields -> Nat] :
        /\ a = Averages(samples)
        /\ \A most \in Nat : most >= 25 /\ (\A k \in DOMAIN samples : samples[k].eager <= most)
                               => a["eager"] <= 10 * most
  BY AveragesAre
<1>8. PICK gpus \in Nat \ {0} : gpus = Greater(1, arg.gpus)
  BY <1>4 DEF Greater
<1>9. PICK profile \in [idle : Nat, tdp : Nat, load : Nat, hourly : Nat \ {0}, peak : Nat \ {0}] :
        profile = GetAcceleratorProfile(arg.accelerator)
  BY ProfileIs
<1>10. PICK rate \in Nat : rate = profile.hourly * gpus
  OBVIOUS
<1>11. Rate(arg.accelerator, arg.gpus) = rate
  BY <1>8, <1>9, <1>10 DEF Rate
<1>12. PICK cost \in Nat : cost = Or(arg.cost, RunCost(arg.duration, rate))
  <2>1. RunCost(arg.duration, rate) \in Nat
    BY <1>4, RunCostIs
  <2> QED BY <1>4, <2>1 DEF Or
<1>13. PICK e \in Nat : e = a["eager"]
  BY DEF AverageFields
<1>14. PICK d \in Nat, n \in Nat, x \in Nat, f \in Nat :
         FairShares(d, n, x, f, e) /\ Shares(a, gpus) = SharesRecord(d, n, x, f)
  <2>1. gpus \in Nat
    OBVIOUS
  <2>2. \E d, n, x, f \in Nat :
          FairShares(d, n, x, f, a["eager"]) /\ Shares(a, gpus) = SharesRecord(d, n, x, f)
    BY <2>1, SharesAre
  <2> QED BY <2>2, <1>13
<1>15. PICK shares : shares = SharesRecord(d, n, x, f)
  OBVIOUS
<1>16. Shares(Averages(samples), Greater(1, arg.gpus)) = shares
  BY <1>7, <1>8, <1>14, <1>15
<1>17. shown[p] = WasteReport(shares, Components(shares), rate, cost)
  BY <1>1, <1>5, <1>6, <1>11, <1>12, <1>16 DEF DetectComputeWaste, ReportAt
<1>18. Accounted(WasteReport(shares, Components(shares), rate, cost), e)
  BY <1>14, <1>15, WasteReportIs
<1>19. Accounted(shown[p], e)
  BY <1>17, <1>18
<1> DEFINE eager == {25} \cup {samples[k].eager : k \in DOMAIN samples}
<1>20. ASSUME NEW most \in eager, \A y \in eager : y <= most
       PROVE  100 * (shown[p].wasted \div 100)
                <= (77 + most) * (shown[p].cost \div 100) + 400 + most
  <2>1. most \in Nat
    <3>1. \A k \in DOMAIN samples : samples[k] \in WasteSamples
      OBVIOUS
    <3>2. \A t \in WasteSamples : t.eager \in Nat
      BY DEF WasteSamples
    <3>3. most = 25 \/ \E k \in DOMAIN samples : most = samples[k].eager
      OBVIOUS
    <3> QED BY <3>1, <3>2, <3>3
  <2>2. most >= 25 /\ \A k \in DOMAIN samples : samples[k].eager <= most
    <3>1. \A y \in eager : y <= most
      BY <1>20
    <3>2. 25 \in eager /\ \A k \in DOMAIN samples : samples[k].eager \in eager
      OBVIOUS
    <3> HIDE DEF eager
    <3>3. 25 <= most /\ \A k \in DOMAIN samples : samples[k].eager <= most
      BY <3>1, <3>2
    <3> QED BY <3>3, <2>1
  <2>3. e <= 10 * most
    BY <1>7, <1>13, <2>1, <2>2
  <2> QED BY <1>19, <2>1, <2>2, <2>3 DEF Accounted
<1>21. \A most \in eager : (\A y \in eager : y <= most) =>
         100 * (shown[p].wasted \div 100)
           <= (77 + most) * (shown[p].cost \div 100) + 400 + most
  BY <1>20
<1>22. /\ \/ shown[p].shares.dataloader_starvation = 0
          \/ shown[p].shares.pcie_bottleneck = 0
       /\ shown[p].wasted + shown[p].effective = Greater(shown[p].cost, shown[p].wasted)
       /\ shown[p].wasted > 0 /\ shown[p].cost > 0 =>
            shown[p].total > 0 /\ shown[p].top # None
  BY <1>19 DEF Accounted
<1>23. samples = work[p].cmd.arg.samples
  BY <1>6 DEF arg
<1> QED
  <2>1. PICK E : E = {25} \cup {work[p].cmd.arg.samples[k].eager :
                                k \in DOMAIN work[p].cmd.arg.samples}
    OBVIOUS
  <2>2. E = eager
    BY <1>23, <2>1
  <2> HIDE DEF eager
  <2>3. \A most \in E : (\A y \in E : y <= most) =>
          100 * (shown[p].wasted \div 100)
            <= (77 + most) * (shown[p].cost \div 100) + 400 + most
    BY <1>21, <2>2
  <2> QED BY <1>22, <2>1, <2>3

\* An idle bus is not charged as a busy one too, what was wasted and what was effective
\* add up to the bill, and waste is at most 2 % beyond it, or, if some sample was eager
\* for more than 25 % of its time, as much as it was so beyond that; for any samples,
\* number of GPUs and bill (waste.py:203-354).
THEOREM WasteIsAccountedThm == Spec => []WasteIsAccounted
BY ShownThm, ShownIsAccounted, PTL

----------
(* Records *)

\* The spans of a run that began at instant id.
Moved(run, id) ==
  [k \in 1..Len(run) |-> [run[k] EXCEPT !.start = @ + id, !.end = IF @ = None THEN None ELSE @ + id]]

\* An export of such a run.
Export(run, id) == TraceToOtlpPayload(Traced(run, id))

LEMMA AtIs ==
  ASSUME NEW run \in Runs, NEW id
  PROVE  /\ Len(run) \in Nat /\ Len(run) >= 1 /\ DOMAIN run = 1..Len(run)
         /\ \A k \in 1..Len(run) : run[k] \in Spans
         /\ At(run, id) = Moved(run, id) /\ Moved(run, id) # <<>>
         /\ DOMAIN Moved(run, id) = 1..Len(run) /\ Len(Moved(run, id)) = Len(run)
<1>1. run \in Seq(Spans) /\ run # <<>>
  BY DEF Runs
<1>2. Len(run) \in Nat /\ Len(run) >= 1 /\ DOMAIN run = 1..Len(run)
      /\ \A k \in 1..Len(run) : run[k] \in Spans
  BY <1>1
<1>3. At(run, id) = SubSeq(Moved(run, id), 1, Len(run))
  BY <1>2 DEF At, Each, Moved
<1>4. Moved(run, id) = [k \in 1..Len(run) |-> Moved(run, id)[k]]
  BY DEF Moved
<1>5. SubSeq(Moved(run, id), 1, Len(run)) = Moved(run, id)
  BY <1>2, <1>4, WholeSubSeq
<1>6. DOMAIN Moved(run, id) = 1..Len(run)
  BY DEF Moved
<1>7. 1 \in DOMAIN Moved(run, id)
  BY <1>2, <1>6
<1>8. Moved(run, id) # <<>>
  BY <1>7
<1>9. Len(Moved(run, id)) = Len(run)
  BY <1>2, <1>6
<1> QED BY <1>2, <1>3, <1>5, <1>6, <1>8, <1>9

\* The spans of its record.
Concluded(run, id) == [k \in 1..Len(run) |-> Priced(Moved(run, id)[k])]

LEMMA TracedIs ==
  ASSUME NEW run \in Runs, NEW id
  PROVE  /\ Traced(run, id).trace = id
         /\ Traced(run, id).created = id + run[1].start
         /\ PricedSpans(At(run, id)) = Concluded(run, id)
         /\ DOMAIN Concluded(run, id) = 1..Len(run) /\ Len(Concluded(run, id)) = Len(run)
         /\ Traced(run, id).spans = Concluded(run, id)
         /\ Traced(run, id).summary =
              SummaryOf(Concluded(run, id), Aggregates(Concluded(run, id)),
                        RunFigures(Concluded(run, id), PrimaryRoot(Concluded(run, id))))
         /\ DOMAIN Traced(run, id) = {"trace", "created", "spans", "summary"}
<1>1. /\ Len(run) \in Nat /\ At(run, id) = Moved(run, id) /\ Moved(run, id) # <<>>
      /\ DOMAIN Moved(run, id) = 1..Len(run) /\ Len(Moved(run, id)) = Len(run)
  BY AtIs
<1>2. PricedSpans(At(run, id)) = SubSeq(Concluded(run, id), 1, Len(run))
  BY <1>1 DEF PricedSpans, Each, Concluded
<1>3. Concluded(run, id) = [k \in 1..Len(run) |-> Concluded(run, id)[k]]
  BY DEF Concluded
<1>4. SubSeq(Concluded(run, id), 1, Len(run)) = Concluded(run, id)
  BY <1>1, <1>3, WholeSubSeq
<1>5. AnalyzeSpans(At(run, id)) = Analyzed(Concluded(run, id))
  BY <1>1, <1>2, <1>4 DEF AnalyzeSpans
<1>6. /\ Traced(run, id).trace = id
      /\ Traced(run, id).created = id + run[1].start
      /\ DOMAIN Traced(run, id) = {"trace", "created"} \cup DOMAIN AnalyzeSpans(At(run, id))
      /\ Traced(run, id).spans = AnalyzeSpans(At(run, id)).spans
      /\ Traced(run, id).summary = AnalyzeSpans(At(run, id)).summary
  <2>1. DOMAIN Analyzed(Concluded(run, id)) = {"spans", "summary"}
    BY DEF Analyzed
  <2> QED BY <2>1, <1>5 DEF Traced, ++
<1>7. DOMAIN Concluded(run, id) = 1..Len(run)
  BY DEF Concluded
<1>8. Len(Concluded(run, id)) = Len(run)
  BY <1>1, <1>7
<1> QED BY <1>2, <1>4, <1>5, <1>6, <1>7, <1>8 DEF Analyzed

\* What the export of such a run holds.
LEMMA ExportIs ==
  ASSUME NEW run \in Runs, NEW id
  PROVE  /\ Export(run, id) = [k \in 1..Len(run) |-> SpanToOtlpDict(id, Concluded(run, id)[k])]
         /\ DOMAIN Export(run, id) = 1..Len(run) /\ Len(Export(run, id)) = Len(run)
         /\ Export(run, id) = [k \in 1..Len(run) |-> Export(run, id)[k]]
         /\ \A k \in 1..Len(run) : Export(run, id)[k].trace = id
<1> DEFINE f == [k \in 1..Len(run) |-> SpanToOtlpDict(id, Concluded(run, id)[k])]
<1>1. /\ Len(run) \in Nat
      /\ Traced(run, id).trace = id /\ Traced(run, id).spans = Concluded(run, id)
      /\ DOMAIN Concluded(run, id) = 1..Len(run) /\ Len(Concluded(run, id)) = Len(run)
  BY AtIs, TracedIs
<1>2. Export(run, id) = SubSeq(f, 1, Len(run))
  BY <1>1 DEF Export, TraceToOtlpPayload, Each
<1>3. f = [k \in 1..Len(run) |-> f[k]]
  OBVIOUS
<1>4. \A k \in 1..Len(run) : f[k].trace = id
  BY DEF SpanToOtlpDict
<1>5. DOMAIN f = 1..Len(run)
  OBVIOUS
<1> HIDE DEF f
<1>6. SubSeq(f, 1, Len(run)) = f
  BY <1>1, <1>3, WholeSubSeq
<1>7. Len(f) = Len(run)
  BY <1>1, <1>5
<1> QED BY <1>2, <1>3, <1>4, <1>5, <1>6, <1>7 DEF f

LEMMA RecordIs ==
  ASSUME NEW payload, NEW id, NEW now
  PROVE  /\ RecordOfTrace(payload, id, now).trace = id
         /\ Dated(RecordOfTrace(payload, id, now)).trace = id
         /\ Dated(RecordOfTrace(payload, id, now)).created =
              RecordOfTrace(payload, id, now).spans[1].start
         /\ Dated(RecordOfTrace(payload, id, now)).spans = RecordOfTrace(payload, id, now).spans
         /\ Dated(RecordOfTrace(payload, id, now)).summary =
              RecordOfTrace(payload, id, now).summary
         /\ DOMAIN Dated(RecordOfTrace(payload, id, now)) =
              {"trace", "created", "spans", "summary"}
  BY DEF RecordOfTrace, ImportedRecord, Dated, ++

\* What the store holds after a save.
LEMMA SaveIs ==
  ASSUME NEW record
  PROVE  Save(record) = [id \in {record.trace} \cup DOMAIN saved |->
                           IF id = record.trace THEN StoredRecord(record) ELSE saved[id]]
  BY DEF Save, ++

LEMMA StoredIs ==
  ASSUME NEW record, DOMAIN record = {"trace", "created", "spans", "summary"}
  PROVE  /\ StoredRecord(record).created = record.created
         /\ StoredRecord(record).summary = record.summary
         /\ StoredRecord(record).spans = Each(record.spans, StoredSpan)
  BY DEF StoredRecord

----------
(* Imports *)

\* The places of a payload's spans of some trace, and those that lead one.
PlacesOf(payload, id) == {k \in DOMAIN payload : payload[k].trace = id}
Leaders(payload) == {k \in DOMAIN payload : Leads(payload, k)}

\* What an import of a payload may save.
Deliveries(payload) ==
  {RecordOfTrace(payload, payload[x[1]].trace, x[2]) : x \in (DOMAIN payload) \X Nat}

LEMMA RecordOfTraceIs ==
  ASSUME NEW X, NEW payload \in Seq(X), NEW id, NEW now
  PROVE  LET mine == Picked(payload, PlacesOf(payload, id))
         IN  /\ RecordOfTrace(payload, id, now) =
                  ImportedRecord(id, [n \in 1..Len(mine) |-> ImportSpan(mine[n], now)])
             /\ mine \in Seq(X) /\ Selected(payload, LAMBDA w : w.trace = id) = mine
<1> DEFINE S == PlacesOf(payload, id)
           mine == Picked(payload, S)
           f == [n \in DOMAIN mine |-> ImportSpan(mine[n], now)]
<1>1. S \in SUBSET DOMAIN payload
  BY DEF PlacesOf
<1>2. mine \in Seq(X)
  BY <1>1, PickedIs
<1>3. Selected(payload, LAMBDA w : w.trace = id) = mine
  BY DEF Selected, Places, InOrder, Picked, PlacesOf
<1>4. RecordOfTrace(payload, id, now) = ImportedRecord(id, SubSeq(f, 1, Len(mine)))
  BY DEF RecordOfTrace, Each, Selected, Places, InOrder, Picked, PlacesOf
<1> HIDE DEF mine, S
<1>5. DOMAIN mine = 1..Len(mine) /\ Len(mine) \in Nat
  BY <1>2
<1>6. f = [n \in 1..Len(mine) |-> f[n]]
  BY <1>5
<1>7. f = [n \in 1..Len(mine) |-> ImportSpan(mine[n], now)]
  BY <1>5
<1> HIDE DEF f
<1>8. SubSeq(f, 1, Len(mine)) = f
  BY <1>5, <1>6, WholeSubSeq
<1>9. RecordOfTrace(payload, id, now) =
        ImportedRecord(id, [n \in 1..Len(mine) |-> ImportSpan(mine[n], now)])
  BY <1>4, <1>7, <1>8
<1> QED BY <1>2, <1>3, <1>9 DEF mine, S

LEMMA ReceivedIs ==
  ASSUME NEW X, NEW payload \in Seq(X), NEW now \in Nat
  PROVE  LET L == Leaders(payload)
             got == OtlpPayloadToTraceRecords(payload, now)
         IN  /\ got = [n \in 1..Cardinality(L) |->
                         RecordOfTrace(payload, payload[InOrder(L)[n]].trace, now)]
             /\ Cardinality(L) \in Nat /\ \A n \in 1..Cardinality(L) : InOrder(L)[n] \in L
             /\ got \in Seq(Deliveries(payload))
<1> DEFINE L == Leaders(payload)
           N == Cardinality(L)
           f == [n \in DOMAIN InOrder(L) |->
                   RecordOfTrace(payload, payload[InOrder(L)[n]].trace, now)]
<1>1. L \in SUBSET DOMAIN payload
  BY DEF Leaders
<1>2. /\ Lists(InOrder(L), L, Smaller) /\ N \in Nat
      /\ \A n \in 1..N : InOrder(L)[n] \in L
  BY <1>1, PickedIs
<1>3. OtlpPayloadToTraceRecords(payload, now) = SubSeq(f, 1, Len(InOrder(L)))
  BY DEF OtlpPayloadToTraceRecords, Each, Places, InOrder, Leaders
<1> HIDE DEF L
<1>4. DOMAIN InOrder(L) = 1..N /\ Len(InOrder(L)) = N
  BY <1>2 DEF Lists
<1>5. f = [n \in 1..N |-> f[n]]
  BY <1>4
<1>6. f = [n \in 1..N |-> RecordOfTrace(payload, payload[InOrder(L)[n]].trace, now)]
  BY <1>4
<1>7. ASSUME NEW n \in 1..N PROVE f[n] \in Deliveries(payload)
  <2>1. f[n] = RecordOfTrace(payload, payload[InOrder(L)[n]].trace, now)
    BY <1>6
  <2>2. InOrder(L)[n] \in DOMAIN payload
    BY <1>1, <1>2
  <2> DEFINE x == <<InOrder(L)[n], now>>
  <2>3. x \in (DOMAIN payload) \X Nat /\ x[1] = InOrder(L)[n] /\ x[2] = now
    BY <2>2
  <2>4. f[n] = RecordOfTrace(payload, payload[x[1]].trace, x[2])
    BY <2>1, <2>3
  <2> QED BY <2>3, <2>4 DEF Deliveries
<1> HIDE DEF f
<1>8. SubSeq(f, 1, N) = f
  BY <1>2, <1>5, WholeSubSeq
<1>9. f \in Seq(Deliveries(payload))
  <2>1. f \in [1..N -> Deliveries(payload)]
    BY <1>5, <1>7
  <2> QED BY <1>2, <2>1
<1> QED BY <1>2, <1>3, <1>4, <1>6, <1>8, <1>9 DEF L

LEMMA DeliveryIs ==
  ASSUME NEW payload, NEW record \in Deliveries(payload)
  PROVE  \E k \in DOMAIN payload, now \in Nat :
           record = RecordOfTrace(payload, payload[k].trace, now)
<1>1. PICK x \in (DOMAIN payload) \X Nat : record = RecordOfTrace(payload, payload[x[1]].trace, x[2])
  BY DEF Deliveries
<1>2. x[1] \in DOMAIN payload /\ x[2] \in Nat
  OBVIOUS
<1> QED BY <1>1, <1>2

\* The export of a run is one trace.
LEMMA ExportReceived ==
  ASSUME NEW run \in Runs, NEW id, NEW now \in Nat
  PROVE  /\ OtlpPayloadToTraceRecords(Export(run, id), now)[1] =
              RecordOfTrace(Export(run, id), id, now)
         /\ RecordOfTrace(Export(run, id), id, now) =
              ImportedRecord(id, [n \in 1..Len(run) |-> ImportSpan(Export(run, id)[n], now)])
<1> DEFINE payload == Export(run, id)
           X == {payload[k] : k \in 1..Len(run)}
           L == Leaders(payload)
<1>1. Len(run) \in Nat /\ Len(run) >= 1
  BY AtIs
<1>2. /\ payload = [k \in 1..Len(run) |-> payload[k]]
      /\ DOMAIN payload = 1..Len(run) /\ Len(payload) = Len(run)
      /\ \A k \in 1..Len(run) : payload[k].trace = id
  BY ExportIs
<1> HIDE DEF payload
<1>3. payload \in Seq(X)
  <2>0. \A k \in 1..Len(run) : payload[k] \in X
    OBVIOUS
  <2> HIDE DEF X
  <2>1. payload \in [1..Len(run) -> X]
    BY <1>2, <2>0
  <2> QED BY <1>1, <2>1
<1>4. L = {1}
  <2>1. Leads(payload, 1)
    BY DEF Leads
  <2>2. ASSUME NEW k \in 1..Len(run), Leads(payload, k) PROVE k = 1
    <3>1. 1 \in 1..(k - 1) => payload[1].trace # payload[k].trace
      BY <2>2 DEF Leads
    <3>2. 1 \in 1..Len(run)
      BY <1>1
    <3> QED BY <1>2, <3>1, <3>2
  <2> QED BY <1>1, <1>2, <2>1, <2>2 DEF Leaders
<1>5. Cardinality(L) = 1
  BY <1>4, FS_Singleton
<1>6. /\ OtlpPayloadToTraceRecords(payload, now) =
           [n \in 1..Cardinality(L) |->
              RecordOfTrace(payload, payload[InOrder(L)[n]].trace, now)]
      /\ \A n \in 1..Cardinality(L) : InOrder(L)[n] \in L
  BY <1>3, ReceivedIs
<1>7. InOrder(L)[1] = 1 /\ 1 \in 1..Cardinality(L)
  BY <1>4, <1>5, <1>6
<1>8. OtlpPayloadToTraceRecords(payload, now)[1] = RecordOfTrace(payload, id, now)
  <2>1. payload[1].trace = id
    BY <1>1, <1>2
  <2> QED BY <1>6, <1>7, <2>1
<1>9. PlacesOf(payload, id) = DOMAIN payload
  BY <1>2 DEF PlacesOf
<1>10. Picked(payload, PlacesOf(payload, id)) = payload
  BY <1>3, <1>9, PickedAll
<1>11. RecordOfTrace(payload, id, now) =
         ImportedRecord(id, [n \in 1..Len(payload) |-> ImportSpan(payload[n], now)])
  <2> HIDE DEF X
  <2>1. RecordOfTrace(payload, id, now) =
          ImportedRecord(id, [n \in 1..Len(Picked(payload, PlacesOf(payload, id))) |->
                                ImportSpan(Picked(payload, PlacesOf(payload, id))[n], now)])
    BY <1>3, RecordOfTraceIs
  <2> QED BY <1>10, <2>1
<1> QED BY <1>2, <1>8, <1>11 DEF payload

----------
(* The store *)

\* The runs of a command that have ended.
Ended(w) == IF w.begun = None THEN Len(w.own) ELSE Len(w.own) - 1

\* What is left to run are the last runs of the command.
Aligned(w) ==
  /\ Ended(w) + Len(w.runs) = Len(TracedBy(w.cmd))
  /\ \A j \in DOMAIN w.runs : w.runs[j] = TracedBy(w.cmd)[Ended(w) + j]

\* What is left of a command that traces runs, now that ids are saved.  Its runs began
\* one after the other, and the one that has not ended is the last and not saved.
TracerLeft(w, ids, now) ==
  /\ w.imports = <<>> /\ w.runs \in Seq(Runs) /\ w.own \in Seq(Nat)
  /\ \A k \in DOMAIN w.own : w.own[k] \in 1..now
  /\ \A j, k \in DOMAIN w.own : j < k => w.own[j] < w.own[k]
  /\ w.begun # None =>
       /\ w.own # <<>> /\ w.runs # <<>>
       /\ w.begun = w.own[Len(w.own)] /\ w.begun \notin ids
  /\ \/ w.cmd.runs = <<>> /\ w.runs = <<>> /\ w.own = <<>> /\ w.begun = None
     \/ Aligned(w)

\* What is left of a request with spans.
ReceiverLeft(w) ==
  /\ w.runs = <<>> /\ w.begun = None /\ w.refs = <<>>
  /\ w.imports = <<>> \/ (w.cmd.arg # Broken /\ w.imports \in Seq(Deliveries(w.cmd.arg)))

Traces(p) == work[p].cmd.op # "ingest"

IdsInv ==
  /\ clock \in Nat
  /\ saved = [id \in DOMAIN saved |-> saved[id]] /\ IsFiniteSet(DOMAIN saved)
  /\ \A id \in DOMAIN saved : id \in Nat => id \in 1..clock

LeftInv ==
  \A p \in Processes :
    /\ Traces(p) => TracerLeft(work[p], DOMAIN saved, clock)
    /\ ~ Traces(p) => ReceiverLeft(work[p])

\* No two commands have a run in common.
OwnInv ==
  \A p, q \in Processes : p # q /\ Traces(p) /\ Traces(q) =>
    \A j \in DOMAIN work[p].own, k \in DOMAIN work[q].own : work[p].own[j] # work[q].own[k]

\* The k-th run of p's command.
RunOf(p, k) == TracedBy(work[p].cmd)[k]

\* Run k of p is saved.
OwnSaved(p, k) == Traces(p) /\ k \in DOMAIN work[p].own /\ work[p].own[k] \in DOMAIN saved

\* A saved run keeps its beginning.
CreatedInv ==
  \A p \in Processes : \A k \in DOMAIN work[p].own :
    OwnSaved(p, k) => saved[work[p].own[k]].created = work[p].own[k] + RunOf(p, k)[1].start

\* Only saved runs are exported.
PostedInv ==
  \A payload \in posted : \E p \in Processes : \E k \in DOMAIN work[p].own :
    OwnSaved(p, k) /\ payload = Export(RunOf(p, k), work[p].own[k])

FromRun(id, record) == id \in Nat /\ \E run \in Runs : record = StoredRecord(Traced(run, id))

FromExport(id, record) ==
  \E p \in Processes : \E k \in DOMAIN work[p].own, now \in Nat :
    /\ OwnSaved(p, k) /\ work[p].own[k] = id
    /\ record = StoredRecord(Dated(RecordOfTrace(Export(RunOf(p, k), id), id, now)))

FromRequest(id, record) ==
  \E p \in Processes :
    /\ ~ Traces(p) /\ work[p].cmd.arg # Broken
    /\ \E k \in DOMAIN work[p].cmd.arg, now \in Nat :
         /\ id = work[p].cmd.arg[k].trace
         /\ record = StoredRecord(Dated(RecordOfTrace(work[p].cmd.arg, id, now)))

\* A record is that of a run, of its export or of one request.
KeptInv ==
  \A id \in DOMAIN saved :
    FromRun(id, saved[id]) \/ FromExport(id, saved[id]) \/ FromRequest(id, saved[id])

StoreInv == IdsInv /\ LeftInv /\ OwnInv /\ CreatedInv /\ PostedInv /\ KeptInv

LEMMA PlannedIs ==
  ASSUME ShownInv, NEW p \in Processes
  PROVE  /\ work[p].cmd.runs \in Seq(Runs)
         /\ TracedBy(work[p].cmd) \in Seq(Runs) /\ Len(TracedBy(work[p].cmd)) >= 1
         /\ ~ Traces(p) =>
              /\ work[p].cmd.arg # Broken => work[p].cmd.arg \in Seq(Wires(Foreign))
              /\ work[p].cmd.runs = <<>> /\ work[p].cmd.refs = <<>>
<1>1. PICK s \in Plans : \A q \in Processes : work[q].cmd = s.commands[q]
  BY DEF ShownInv, Planned
<1>2. WellFormed(work[p].cmd, s.runs)
  BY <1>1, PlansAreWellFormed
<1>3. work[p].cmd.runs \in Seq(Runs)
  BY <1>2 DEF WellFormed
<1>4. <<DemoRun>> \in Seq(Runs) /\ Len(<<DemoRun>>) >= 1
  BY ScenariosAreWellFormed
<1>5. TracedBy(work[p].cmd) \in Seq(Runs) /\ Len(TracedBy(work[p].cmd)) >= 1
  BY <1>3, <1>4 DEF TracedBy
<1>6. ~ Traces(p) =>
        /\ work[p].cmd.arg # Broken => work[p].cmd.arg \in Seq(Wires(Foreign))
        /\ work[p].cmd.runs = <<>> /\ work[p].cmd.refs = <<>>
  BY <1>2 DEF WellFormed, Traces
<1> QED BY <1>3, <1>5, <1>6

LEMMA LeftGrows ==
  ASSUME NEW w, NEW ids, NEW now \in Nat, TracerLeft(w, ids, now),
         NEW more, NEW later \in Nat, now <= later, w.begun # None => w.begun \notin more
  PROVE  TracerLeft(w, more, later)
<1>1. \A n \in 1..now : n \in 1..later
  OBVIOUS
<1> QED BY <1>1 DEF TracerLeft, Aligned

\* What was run is a run.
LEMMA RunOfIs ==
  ASSUME ShownInv, StoreInv, NEW p \in Processes, Traces(p), NEW k \in DOMAIN work[p].own
  PROVE  /\ RunOf(p, k) \in Runs /\ work[p].own[k] \in Nat /\ work[p].own[k] >= 1
         /\ work[p].own[k] \in 1..clock
<1>1. TracerLeft(work[p], DOMAIN saved, clock) /\ clock \in Nat
  BY DEF StoreInv, LeftInv, IdsInv
<1>2. TracedBy(work[p].cmd) \in Seq(Runs)
  BY PlannedIs
<1>3. Aligned(work[p]) /\ work[p].own \in Seq(Nat) /\ work[p].runs \in Seq(Runs)
      /\ (work[p].begun # None => work[p].runs # <<>>)
  BY <1>1 DEF TracerLeft
<1>4. Len(work[p].own) <= Len(TracedBy(work[p].cmd))
  <2>1. Ended(work[p]) + Len(work[p].runs) = Len(TracedBy(work[p].cmd))
    BY <1>3 DEF Aligned
  <2>2. PICK m, n, r \in Nat : /\ m = Len(work[p].own) /\ n = Len(TracedBy(work[p].cmd))
                               /\ r = Len(work[p].runs)
    BY <1>2, <1>3
  <2>3. Ended(work[p]) = m \/ (Ended(work[p]) = m - 1 /\ work[p].begun # None)
    BY <2>2 DEF Ended
  <2>4. work[p].begun # None => r >= 1
    BY <1>3, <2>2
  <2>5. Ended(work[p]) + r = n
    BY <2>1, <2>2
  <2>6. m <= n
    BY <2>3, <2>4, <2>5
  <2> QED BY <2>2, <2>6
<1>5. k \in 1..Len(TracedBy(work[p].cmd))
  BY <1>2, <1>3, <1>4
<1>6. RunOf(p, k) \in Runs
  BY <1>2, <1>5 DEF RunOf
<1>7. work[p].own[k] \in 1..clock
  BY <1>1 DEF TracerLeft
<1> QED BY <1>1, <1>6, <1>7

LEMMA StartedIs ==
  ASSUME NEW c
  PROVE  /\ Started(c).cmd = c /\ Started(c).runs = c.runs /\ Started(c).begun = None
         /\ Started(c).own = <<>> /\ Started(c).imports = <<>> /\ Started(c).refs = c.refs
         /\ Started(c).ids = <<>> /\ Started(c).records = <<>>
  BY DEF Started

LEMMA InitStore ==
  ASSUME Init
  PROVE  StoreInv
<1>0. ShownInv
  BY InitShown
<1>1. \E runs : /\ runs \in Seq(Runs) /\ clock = Len(runs) /\ posted = {}
                /\ saved = [i \in DOMAIN runs |-> StoredRecord(Traced(runs[i], i))]
                /\ \A p \in Processes : work[p] = Started(work[p].cmd)
  <2>1. CASE SessionsInit
    <3>1. PICK k \in DOMAIN Scenarios : \E s \in Scenarios[k] :
            /\ clock = Len(s.runs) /\ posted = {}
            /\ saved = [i \in DOMAIN s.runs |-> StoredRecord(Traced(s.runs[i], i))]
            /\ work = [p \in Processes |-> Started(s.commands[p])]
      BY <2>1 DEF SessionsInit
    <3>2. PICK s \in Scenarios[k] :
            /\ clock = Len(s.runs) /\ posted = {}
            /\ saved = [i \in DOMAIN s.runs |-> StoredRecord(Traced(s.runs[i], i))]
            /\ work = [p \in Processes |-> Started(s.commands[p])]
      BY <3>1
    <3>3. s.runs \in Seq(Runs)
      BY ScenariosAreWellFormed
    <3>4. \A p \in Processes : work[p] = Started(work[p].cmd)
      BY <3>2, StartedIs
    <3> QED BY <3>2, <3>3, <3>4
  <2>2. CASE SessionsRest
    <3>1. clock = 0 /\ saved = <<>> /\ posted = {}
          /\ \A p \in Processes : work[p] = Started(work[p].cmd)
      BY <2>2, StartedIs DEF SessionsRest
    <3>2. <<>> \in Seq(Runs) /\ Len(<<>>) = 0
          /\ <<>> = [i \in DOMAIN <<>> |-> StoredRecord(Traced(<<>>[i], i))]
      OBVIOUS
    <3> QED BY <3>1, <3>2
  <2> QED BY <2>1, <2>2 DEF Init
<1>2. PICK runs : /\ runs \in Seq(Runs) /\ clock = Len(runs) /\ posted = {}
                  /\ saved = [i \in DOMAIN runs |-> StoredRecord(Traced(runs[i], i))]
                  /\ \A p \in Processes : work[p] = Started(work[p].cmd)
  BY <1>1
<1>3. DOMAIN runs = 1..clock /\ clock \in Nat /\ DOMAIN saved = 1..clock
      /\ \A id \in 1..clock : runs[id] \in Runs /\ saved[id] = StoredRecord(Traced(runs[id], id))
  BY <1>2
<1>4. IdsInv
  <2>1. saved = [id \in DOMAIN saved |-> saved[id]]
    BY <1>2
  <2>2. IsFiniteSet(1..clock)
    BY <1>3, FS_Interval
  <2> QED BY <1>3, <2>1, <2>2 DEF IdsInv
<1>5. LeftInv
  <2> SUFFICES ASSUME NEW p \in Processes
               PROVE  /\ Traces(p) => TracerLeft(work[p], DOMAIN saved, clock)
                      /\ ~ Traces(p) => ReceiverLeft(work[p])
    BY DEF LeftInv
  <2>1. /\ work[p].runs = work[p].cmd.runs /\ work[p].begun = None
        /\ work[p].own = <<>> /\ work[p].imports = <<>> /\ work[p].refs = work[p].cmd.refs
    BY <1>2, StartedIs
  <2>2. work[p].cmd.runs \in Seq(Runs)
        /\ (~ Traces(p) => work[p].cmd.runs = <<>> /\ work[p].cmd.refs = <<>>)
    BY <1>0, PlannedIs
  <2>3. ~ Traces(p) => ReceiverLeft(work[p])
    BY <2>1, <2>2 DEF ReceiverLeft
  <2>4. ASSUME work[p].cmd.runs # <<>> PROVE Aligned(work[p])
    <3>1. TracedBy(work[p].cmd) = work[p].runs
      BY <2>1, <2>4 DEF TracedBy
    <3>2. Ended(work[p]) = 0
      BY <2>1 DEF Ended
    <3>3. Len(work[p].runs) \in Nat /\ \A j \in DOMAIN work[p].runs : 0 + j = j
      BY <2>1, <2>2
    <3> QED BY <3>1, <3>2, <3>3 DEF Aligned
  <2>5. <<>> \in Seq(Nat) /\ DOMAIN <<>> = {}
    OBVIOUS
  <2>6. Traces(p) => TracerLeft(work[p], DOMAIN saved, clock)
    BY <2>1, <2>2, <2>4, <2>5 DEF TracerLeft
  <2> QED BY <2>3, <2>6
<1>6. \A p \in Processes : DOMAIN work[p].own = {}
  BY <1>2, StartedIs
<1>7. OwnInv /\ CreatedInv /\ PostedInv
  BY <1>2, <1>6 DEF OwnInv, CreatedInv, PostedInv
<1>8. KeptInv
  BY <1>3 DEF KeptInv, FromRun
<1> QED BY <1>4, <1>5, <1>7, <1>8 DEF StoreInv

----------
(* Steps that save nothing *)

\* What a step leaves of the commands' runs.
SameOwn ==
  \A q \in Processes : work'[q].own = work[q].own /\ work'[q].cmd = work[q].cmd

LEMMA OwnStays ==
  ASSUME StoreInv, SameOwn, saved' = saved, posted' = posted
  PROVE  OwnInv' /\ CreatedInv' /\ PostedInv' /\ KeptInv'
<1>1. \A q \in Processes : Traces(q)' <=> Traces(q)
  BY DEF SameOwn, Traces
<1>2. \A q \in Processes : \A k : RunOf(q, k)' = RunOf(q, k)
  BY DEF SameOwn, RunOf
<1>3. \A q \in Processes : \A k : OwnSaved(q, k)' <=> OwnSaved(q, k)
  BY <1>1 DEF SameOwn, OwnSaved
<1>4. OwnInv'
  BY <1>1 DEF StoreInv, OwnInv, SameOwn
<1>5. CreatedInv'
  BY <1>2, <1>3 DEF StoreInv, CreatedInv, SameOwn
<1>6. PostedInv'
  BY <1>2, <1>3 DEF StoreInv, PostedInv, SameOwn
<1>7. \A id, record : /\ FromRun(id, record)' <=> FromRun(id, record)
                      /\ FromExport(id, record)' <=> FromExport(id, record)
                      /\ FromRequest(id, record)' <=> FromRequest(id, record)
  BY <1>1, <1>2, <1>3 DEF SameOwn, FromRun, FromExport, FromRequest
<1>8. KeptInv'
  BY <1>7 DEF StoreInv, KeptInv
<1> QED BY <1>4, <1>5, <1>6, <1>8

LEMMA QuietStore ==
  ASSUME Shape, StoreInv, NEW p \in Processes, NEW phase, NEW runs, NEW begun, NEW imports,
         NEW refs, NEW ids, NEW records,
         Became(p, phase, runs, begun, work[p].own, imports, refs, ids, records),
         saved' = saved, posted' = posted, clock' \in Nat, clock <= clock',
         Traces(p) => TracerLeft(work'[p], DOMAIN saved, clock),
         ~ Traces(p) => ReceiverLeft(work'[p])
  PROVE  StoreInv'
<1>1. SameOwn
  BY BecameShape DEF Became, SameOwn
<1>2. OwnInv' /\ CreatedInv' /\ PostedInv' /\ KeptInv'
  BY <1>1, OwnStays
<1>3. IdsInv'
  <2>1. clock \in Nat /\ \A n \in 1..clock : n \in 1..clock'
    BY DEF StoreInv, IdsInv
  <2> QED BY <2>1 DEF StoreInv, IdsInv
<1>4. LeftInv'
  <2> SUFFICES ASSUME NEW q \in Processes
               PROVE  /\ Traces(q)' => TracerLeft(work'[q], DOMAIN saved', clock')
                      /\ ~ Traces(q)' => ReceiverLeft(work'[q])
    BY DEF LeftInv
  <2>1. /\ Traces(q) => TracerLeft(work'[q], DOMAIN saved, clock)
        /\ ~ Traces(q) => ReceiverLeft(work'[q])
    <3>1. CASE q = p
      BY <3>1
    <3>2. CASE q # p
      BY <3>2 DEF StoreInv, LeftInv, Became
    <3> QED BY <3>1, <3>2
  <2>2. Traces(q)' <=> Traces(q)
    BY <1>1 DEF SameOwn, Traces
  <2>3. TracerLeft(work'[q], DOMAIN saved, clock) => TracerLeft(work'[q], DOMAIN saved', clock')
    <3> SUFFICES ASSUME TracerLeft(work'[q], DOMAIN saved, clock)
                 PROVE  TracerLeft(work'[q], DOMAIN saved', clock')
      OBVIOUS
    <3>1. PICK w, i, j, m, n : w = work'[q] /\ i = DOMAIN saved /\ j = DOMAIN saved'
                               /\ m = clock /\ n = clock'
      OBVIOUS
    <3>2. m \in Nat /\ n \in Nat /\ m <= n /\ TracerLeft(w, i, m) /\ i = j
      BY <3>1 DEF StoreInv, IdsInv
    <3>3. w.begun # None => w.begun \notin j
      BY <3>2 DEF TracerLeft
    <3>4. TracerLeft(w, j, n)
      BY <3>2, <3>3, LeftGrows
    <3> QED BY <3>1, <3>4
  <2> QED BY <2>1, <2>2, <2>3
<1> QED BY <1>2, <1>3, <1>4 DEF StoreInv

LEMMA BeginLeft ==
  ASSUME NEW w, NEW v, NEW ids, NEW now \in Nat, TracerLeft(w, ids, now),
         w.runs # <<>>, w.begun = None, now + 1 \notin ids,
         v.cmd = w.cmd, v.runs = w.runs, v.imports = w.imports,
         v.begun = now + 1, v.own = Append(w.own, now + 1)
  PROVE  TracerLeft(v, ids, now + 1)
<1>1. /\ w.own \in Seq(Nat) /\ \A k \in DOMAIN w.own : w.own[k] \in 1..now
      /\ \A j, k \in DOMAIN w.own : j < k => w.own[j] < w.own[k]
  BY DEF TracerLeft
<1>2. PICK n \in Nat : n = Len(w.own) /\ DOMAIN w.own = 1..n
  BY <1>1
<1>3. /\ v.own \in Seq(Nat) /\ DOMAIN v.own = 1..(n + 1) /\ Len(v.own) = n + 1
      /\ v.own[n + 1] = now + 1 /\ \A k \in 1..n : v.own[k] = w.own[k]
  BY <1>1, <1>2
<1>4. \A k \in 1..(n + 1) : k = n + 1 \/ k \in 1..n
  OBVIOUS
<1>5. ASSUME NEW k \in DOMAIN v.own PROVE v.own[k] \in 1..(now + 1)
  BY <1>1, <1>2, <1>3, <1>4
<1>6. ASSUME NEW j \in DOMAIN v.own, NEW k \in DOMAIN v.own, j < k PROVE v.own[j] < v.own[k]
  <2>1. j \in 1..n
    BY <1>3, <1>6
  <2>2. v.own[j] = w.own[j] /\ w.own[j] \in 1..now
    BY <1>1, <1>2, <1>3, <2>1
  <2>3. CASE k = n + 1
    BY <1>3, <2>2, <2>3
  <2>4. CASE k \in 1..n
    BY <1>1, <1>2, <1>3, <1>6, <2>1, <2>4
  <2> QED BY <1>3, <1>4, <2>3, <2>4
<1>7. Aligned(v)
  <2>1. Aligned(w)
    BY DEF TracerLeft
  <2>2. None # now + 1
    BY TablesAreFull
  <2>3. Ended(v) = n /\ Ended(w) = n
    BY <1>2, <1>3, <2>2 DEF Ended
  <2> QED BY <2>1, <2>3 DEF Aligned
<1>8. v.own # <<>>
  <2>1. n + 1 \in DOMAIN v.own
    BY <1>3
  <2> QED BY <2>1
<1> QED BY <1>3, <1>5, <1>6, <1>7, <1>8 DEF TracerLeft

LEMMA BeginStore ==
  ASSUME ShownInv, StoreInv, NEW p \in Processes, BeginRun(p)
  PROVE  StoreInv'
<1>0. Shape
  BY DEF ShownInv
<1>1. /\ Became(p, work[p].phase, work[p].runs, clock', Append(work[p].own, clock'),
                work[p].imports, work[p].refs, work[p].ids, work[p].records)
      /\ saved' = saved /\ posted' = posted /\ clock' = clock + 1
      /\ work[p].runs # <<>> /\ work[p].begun = None
  BY <1>0, BeginRunBecame DEF BeginRun
<1>2. \A q \in Processes : work'[q].cmd = work[q].cmd
  BY <1>0, <1>1, BecameShape
<1>3. Traces(p)
  BY <1>1 DEF StoreInv, LeftInv, ReceiverLeft
<1>4. \A q \in Processes : Traces(q)' <=> Traces(q)
  BY <1>2 DEF Traces
<1>5. clock \in Nat /\ clock' \in Nat /\ clock' \notin DOMAIN saved
  BY <1>1 DEF StoreInv, IdsInv
<1>6. IdsInv'
  <2>1. \A n \in 1..clock : n \in 1..clock'
    BY <1>1, <1>5
  <2> QED BY <1>1, <1>5, <2>1 DEF StoreInv, IdsInv
<1>7. TracerLeft(work[p], DOMAIN saved, clock)
  BY <1>3 DEF StoreInv, LeftInv
<1>8. work[p].own \in Seq(Nat)
  BY <1>7 DEF TracerLeft
<1>9. PICK n \in Nat : n = Len(work[p].own) /\ DOMAIN work[p].own = 1..n
  BY <1>8
<1>10. /\ DOMAIN work'[p].own = 1..(n + 1) /\ work'[p].own[n + 1] = clock'
       /\ \A k \in 1..n : work'[p].own[k] = work[p].own[k]
  BY <1>1, <1>8, <1>9 DEF Became
<1>11. LeftInv'
  <2> SUFFICES ASSUME NEW q \in Processes
               PROVE  /\ Traces(q)' => TracerLeft(work'[q], DOMAIN saved', clock')
                      /\ ~ Traces(q)' => ReceiverLeft(work'[q])
    BY DEF LeftInv
  <2>1. PICK now, ids : now = clock /\ ids = DOMAIN saved
    OBVIOUS
  <2>2. CASE q = p
    <3>1. PICK w, v : w = work[p] /\ v = work'[p]
      OBVIOUS
    <3>2. TracerLeft(w, ids, now) /\ now \in Nat /\ now + 1 \notin ids
      BY <1>1, <1>5, <1>7, <2>1, <3>1
    <3>3. /\ w.runs # <<>> /\ w.begun = None /\ v.cmd = w.cmd /\ v.runs = w.runs
          /\ v.imports = w.imports /\ v.begun = now + 1 /\ v.own = Append(w.own, now + 1)
      BY <1>1, <2>1, <3>1 DEF Became
    <3>4. TracerLeft(v, ids, now + 1)
      BY <3>2, <3>3, BeginLeft
    <3> QED BY <1>1, <1>3, <1>4, <2>1, <2>2, <3>1, <3>4
  <2>3. CASE q # p
    <3>1. work'[q] = work[q]
      BY <1>1, <2>3 DEF Became
    <3>2. ~ Traces(q) => ReceiverLeft(work'[q])
      BY <3>1 DEF StoreInv, LeftInv
    <3>3. ASSUME Traces(q) PROVE TracerLeft(work'[q], DOMAIN saved', clock')
      <4>1. PICK w : w = work[q]
        OBVIOUS
      <4>2. TracerLeft(w, ids, now) /\ now \in Nat
        BY <1>5, <2>1, <3>3, <4>1 DEF StoreInv, LeftInv
      <4>3. TracerLeft(w, ids, now + 1)
        <5>1. w.begun # None => w.begun \notin ids
          BY <4>2 DEF TracerLeft
        <5>2. now <= now + 1 /\ now + 1 \in Nat
          BY <4>2
        <5> QED BY <4>2, <5>1, <5>2, LeftGrows
      <4> QED BY <1>1, <2>1, <3>1, <4>1, <4>3
    <3> QED BY <1>4, <3>2, <3>3
  <2> QED BY <2>2, <2>3
<1>12. \A q \in Processes : \A k \in DOMAIN work[q].own :
         k \in DOMAIN work'[q].own /\ work'[q].own[k] = work[q].own[k]
  <2> SUFFICES ASSUME NEW q \in Processes, NEW k \in DOMAIN work[q].own
               PROVE  k \in DOMAIN work'[q].own /\ work'[q].own[k] = work[q].own[k]
    OBVIOUS
  <2>1. CASE q = p
    BY <1>9, <1>10, <2>1
  <2>2. CASE q # p
    BY <1>1, <2>2 DEF Became
  <2> QED BY <2>1, <2>2
<1>13. \A q \in Processes : \A k \in DOMAIN work'[q].own :
         \/ k \in DOMAIN work[q].own
         \/ q = p /\ k = n + 1 /\ work'[q].own[k] = clock'
  <2> SUFFICES ASSUME NEW q \in Processes, NEW k \in DOMAIN work'[q].own
               PROVE  \/ k \in DOMAIN work[q].own
                      \/ q = p /\ k = n + 1 /\ work'[q].own[k] = clock'
    OBVIOUS
  <2>1. CASE q = p
    BY <1>9, <1>10, <2>1
  <2>2. CASE q # p
    BY <1>1, <2>2 DEF Became
  <2> QED BY <2>1, <2>2
<1>14. \A q \in Processes : \A k : RunOf(q, k)' = RunOf(q, k)
  BY <1>2 DEF RunOf
<1>15. \A q \in Processes : \A k : OwnSaved(q, k) =>
         OwnSaved(q, k)' /\ work'[q].own[k] = work[q].own[k]
  BY <1>1, <1>4, <1>12 DEF OwnSaved
<1>16. \A q \in Processes : \A k : OwnSaved(q, k)' => OwnSaved(q, k)
  <2> SUFFICES ASSUME NEW q \in Processes, NEW k, OwnSaved(q, k)' PROVE OwnSaved(q, k)
    OBVIOUS
  <2>1. Traces(q) /\ k \in DOMAIN work'[q].own /\ work'[q].own[k] \in DOMAIN saved
    BY <1>1, <1>4 DEF OwnSaved
  <2>2. k \in DOMAIN work[q].own
    BY <1>5, <1>13, <2>1
  <2>3. work'[q].own[k] = work[q].own[k]
    BY <1>12, <2>2
  <2> QED BY <2>1, <2>2, <2>3 DEF OwnSaved
<1>17. OwnInv'
  <2>0. \A q \in Processes : Traces(q) => \A k \in DOMAIN work[q].own : work[q].own[k] # clock'
    <3> SUFFICES ASSUME NEW q \in Processes, Traces(q), NEW k \in DOMAIN work[q].own
                 PROVE  work[q].own[k] # clock'
      OBVIOUS
    <3>1. work[q].own[k] \in 1..clock
      BY RunOfIs
    <3> QED BY <1>1, <1>5, <3>1
  <2> SUFFICES ASSUME NEW q \in Processes, NEW r \in Processes, q # r, Traces(q)', Traces(r)',
                      NEW j \in DOMAIN work'[q].own, NEW k \in DOMAIN work'[r].own
               PROVE  work'[q].own[j] # work'[r].own[k]
    BY DEF OwnInv
  <2>1. CASE j \in DOMAIN work[q].own /\ k \in DOMAIN work[r].own
    BY <1>4, <1>12, <2>1 DEF StoreInv, OwnInv
  <2>2. CASE j \notin DOMAIN work[q].own
    <3>1. q = p /\ work'[q].own[j] = clock'
      BY <1>13, <2>2
    <3>2. k \in DOMAIN work[r].own
      BY <1>13, <3>1
    <3> QED BY <1>4, <1>12, <2>0, <3>1, <3>2
  <2>3. CASE k \notin DOMAIN work[r].own
    <3>1. r = p /\ work'[r].own[k] = clock'
      BY <1>13, <2>3
    <3>2. j \in DOMAIN work[q].own
      BY <1>13, <3>1
    <3> QED BY <1>4, <1>12, <2>0, <3>1, <3>2
  <2> QED BY <2>1, <2>2, <2>3
<1>18. CreatedInv'
  BY <1>1, <1>14, <1>15, <1>16 DEF StoreInv, CreatedInv, OwnSaved
<1>19. PostedInv'
  BY <1>1, <1>12, <1>14, <1>15 DEF StoreInv, PostedInv
<1>20. KeptInv'
  <2> SUFFICES ASSUME NEW id \in DOMAIN saved
               PROVE  \/ FromRun(id, saved[id])' \/ FromExport(id, saved[id])'
                      \/ FromRequest(id, saved[id])'
    BY <1>1 DEF KeptInv
  <2>1. CASE FromRun(id, saved[id])
    BY <1>1, <2>1 DEF FromRun
  <2>2. CASE FromExport(id, saved[id])
    BY <1>1, <1>12, <1>14, <1>15, <2>2 DEF FromExport
  <2>3. CASE FromRequest(id, saved[id])
    BY <1>1, <1>2, <1>4, <2>3 DEF FromRequest
  <2> QED BY <2>1, <2>2, <2>3 DEF StoreInv, KeptInv
<1> QED BY <1>6, <1>11, <1>17, <1>18, <1>19, <1>20 DEF StoreInv

----------
(* Saves *)

\* A record is saved under an id.
SavedAs(t, record) ==
  saved' = [id \in {t} \cup DOMAIN saved |-> IF id = t THEN record ELSE saved[id]]

\* The commands trace what they traced.
SameRuns ==
  \A q \in Processes :
    work'[q].cmd = work[q].cmd /\ (Traces(q) => work'[q].own = work[q].own)

LEMMA SaveMaps ==
  ASSUME SameRuns, NEW t, NEW record, SavedAs(t, record)
  PROVE  /\ DOMAIN saved' = {t} \cup DOMAIN saved /\ saved'[t] = record
         /\ \A id \in DOMAIN saved : id # t => saved'[id] = saved[id]
         /\ \A q \in Processes : Traces(q)' <=> Traces(q)
         /\ \A q \in Processes : \A k : RunOf(q, k)' = RunOf(q, k)
         /\ \A q \in Processes : \A k :
              OwnSaved(q, k) => OwnSaved(q, k)' /\ work'[q].own[k] = work[q].own[k]
         /\ \A q \in Processes : \A k :
              OwnSaved(q, k)' => /\ Traces(q) /\ k \in DOMAIN work[q].own
                                 /\ work'[q].own[k] = work[q].own[k]
                                 /\ work[q].own[k] # t => OwnSaved(q, k)
<1>1. /\ DOMAIN saved' = {t} \cup DOMAIN saved /\ saved'[t] = record
      /\ \A id \in DOMAIN saved : id # t => saved'[id] = saved[id]
  BY DEF SavedAs
<1>2. \A q \in Processes : Traces(q)' <=> Traces(q)
  BY DEF SameRuns, Traces
<1>3. \A q \in Processes : \A k : RunOf(q, k)' = RunOf(q, k)
  BY DEF SameRuns, RunOf
<1>4. \A q \in Processes : \A k :
        OwnSaved(q, k) => OwnSaved(q, k)' /\ work'[q].own[k] = work[q].own[k]
  BY <1>1, <1>2 DEF SameRuns, OwnSaved
<1>5. \A q \in Processes : \A k :
        OwnSaved(q, k)' => /\ Traces(q) /\ k \in DOMAIN work[q].own
                           /\ work'[q].own[k] = work[q].own[k]
                           /\ work[q].own[k] # t => OwnSaved(q, k)
  BY <1>1, <1>2 DEF SameRuns, OwnSaved
<1> QED BY <1>1, <1>2, <1>3, <1>4, <1>5

LEMMA SaveStore ==
  ASSUME StoreInv, SameRuns, NEW t, NEW record, SavedAs(t, record),
         clock' \in Nat, clock <= clock', t \in Nat => t \in 1..clock',
         FromRun(t, record)' \/ FromExport(t, record)' \/ FromRequest(t, record)',
         \A q \in Processes : Traces(q) => \A k \in DOMAIN work[q].own :
           work[q].own[k] = t => record.created = t + RunOf(q, k)[1].start
  PROVE  IdsInv' /\ OwnInv' /\ CreatedInv' /\ KeptInv'
<1>1. /\ DOMAIN saved' = {t} \cup DOMAIN saved /\ saved'[t] = record
      /\ \A id \in DOMAIN saved : id # t => saved'[id] = saved[id]
      /\ \A q \in Processes : Traces(q)' <=> Traces(q)
      /\ \A q \in Processes : \A k : RunOf(q, k)' = RunOf(q, k)
  <2>1. /\ DOMAIN saved' = {t} \cup DOMAIN saved /\ saved'[t] = record
        /\ \A id \in DOMAIN saved : id # t => saved'[id] = saved[id]
    BY DEF SavedAs
  <2>2. \A q \in Processes : Traces(q)' <=> Traces(q)
    BY SaveMaps
  <2>3. \A q \in Processes : \A k : RunOf(q, k)' = RunOf(q, k)
    BY SaveMaps
  <2> QED BY <2>1, <2>2, <2>3
<1>2. \A q \in Processes : \A k :
        OwnSaved(q, k) => OwnSaved(q, k)' /\ work'[q].own[k] = work[q].own[k]
  BY SaveMaps
<1>3. \A q \in Processes : \A k :
        OwnSaved(q, k)' => /\ Traces(q) /\ k \in DOMAIN work[q].own
                           /\ work'[q].own[k] = work[q].own[k]
                           /\ work[q].own[k] # t => OwnSaved(q, k)
  BY SaveMaps
<1>4. IdsInv'
  <2>1. saved' = [id \in DOMAIN saved' |-> saved'[id]]
    BY DEF SavedAs
  <2>2. IsFiniteSet(DOMAIN saved')
    BY <1>1, FS_AddElement DEF StoreInv, IdsInv
  <2>3. \A n \in 1..clock : n \in 1..clock'
    BY DEF StoreInv, IdsInv
  <2>4. \A id \in DOMAIN saved' : id \in Nat => id \in 1..clock'
    BY <1>1, <2>3 DEF StoreInv, IdsInv
  <2> QED BY <2>1, <2>2, <2>4 DEF IdsInv
<1>5. OwnInv'
  BY <1>1 DEF StoreInv, OwnInv, SameRuns
<1>6. CreatedInv'
  <2> SUFFICES ASSUME NEW q \in Processes, NEW k, OwnSaved(q, k)'
               PROVE  saved'[work'[q].own[k]].created = work'[q].own[k] + RunOf(q, k)'[1].start
    BY DEF CreatedInv
  <2>1. CASE work[q].own[k] = t
    BY <1>1, <1>3, <2>1
  <2>2. CASE work[q].own[k] # t
    <3>1. OwnSaved(q, k) /\ work'[q].own[k] = work[q].own[k]
      BY <1>3, <2>2
    <3>2. saved'[work[q].own[k]] = saved[work[q].own[k]]
      BY <1>1, <2>2, <3>1 DEF OwnSaved
    <3>3. saved[work[q].own[k]].created = work[q].own[k] + RunOf(q, k)[1].start
      BY <3>1 DEF StoreInv, CreatedInv, OwnSaved
    <3> QED BY <1>1, <3>1, <3>2, <3>3
  <2> QED BY <2>1, <2>2
<1>7. KeptInv'
  <2> SUFFICES ASSUME NEW id \in DOMAIN saved'
               PROVE  \/ FromRun(id, saved[id])' \/ FromExport(id, saved[id])'
                      \/ FromRequest(id, saved[id])'
    BY DEF KeptInv
  <2>1. CASE id = t
    BY <1>1, <2>1 DEF FromRun, FromExport, FromRequest
  <2>2. CASE id # t
    <3>1. id \in DOMAIN saved /\ saved'[id] = saved[id]
      BY <1>1, <2>2
    <3>2. CASE FromRun(id, saved[id])
      BY <3>1, <3>2 DEF FromRun
    <3>3. CASE FromExport(id, saved[id])
      <4>0. PICK q \in Processes : \E k \in DOMAIN work[q].own, now \in Nat :
              /\ OwnSaved(q, k) /\ work[q].own[k] = id
              /\ saved[id] = StoredRecord(Dated(RecordOfTrace(Export(RunOf(q, k), id), id, now)))
        BY <3>3 DEF FromExport
      <4>1. PICK k \in DOMAIN work[q].own, now \in Nat :
              /\ OwnSaved(q, k) /\ work[q].own[k] = id
              /\ saved[id] = StoredRecord(Dated(RecordOfTrace(Export(RunOf(q, k), id), id, now)))
        BY <4>0
      <4>2. OwnSaved(q, k)' /\ work'[q].own[k] = id /\ RunOf(q, k)' = RunOf(q, k)
        BY <1>1, <1>2, <4>1
      <4>3. k \in DOMAIN work'[q].own
        BY <4>2 DEF OwnSaved
      <4> QED BY <3>1, <4>1, <4>2, <4>3 DEF FromExport
    <3>4. CASE FromRequest(id, saved[id])
      <4>1. PICK q \in Processes :
              /\ ~ Traces(q) /\ work[q].cmd.arg # Broken
              /\ \E k \in DOMAIN work[q].cmd.arg, now \in Nat :
                   /\ id = work[q].cmd.arg[k].trace
                   /\ saved[id] = StoredRecord(Dated(RecordOfTrace(work[q].cmd.arg, id, now)))
        BY <3>4 DEF FromRequest
      <4>2. ~ Traces(q)' /\ work'[q].cmd = work[q].cmd
        BY <1>1, <4>1 DEF SameRuns
      <4> QED BY <3>1, <4>1, <4>2 DEF FromRequest
    <3> QED BY <3>1, <3>2, <3>3, <3>4 DEF StoreInv, KeptInv
  <2> QED BY <2>1, <2>2
<1> QED BY <1>4, <1>5, <1>6, <1>7

LEMMA SaveSaves ==
  ASSUME NEW record, saved' = Save(record)
  PROVE  SavedAs(record.trace, StoredRecord(record))
  BY SaveIs DEF SavedAs

\* A run that ends leaves the runs after it.
LEMMA EndLeft ==
  ASSUME NEW w, NEW v, NEW ids, NEW now \in Nat, TracerLeft(w, ids, now), w.begun # None,
         v.cmd = w.cmd, v.runs = Tail(w.runs), v.imports = w.imports, v.begun = None,
         v.own = w.own, NEW more
  PROVE  TracerLeft(v, more, now)
<1>1. w.runs \in Seq(Runs) /\ w.runs # <<>> /\ w.own \in Seq(Nat) /\ Aligned(w)
  BY DEF TracerLeft
<1>2. PICK n \in Nat : n = Len(w.runs) /\ DOMAIN w.runs = 1..n
  BY <1>1
<1>3. n >= 1
  BY <1>1, <1>2
<1>4. /\ v.runs \in Seq(Runs) /\ Len(v.runs) = n - 1 /\ DOMAIN v.runs = 1..(n - 1)
      /\ \A j \in 1..(n - 1) : v.runs[j] = w.runs[j + 1]
  BY <1>1, <1>2, <1>3
<1>5. PICK m \in Nat : m = Len(w.own)
  BY <1>1
<1>6. Ended(w) = m - 1 /\ Ended(v) = m
  BY <1>5 DEF Ended
<1>7. Aligned(v)
  <2>1. m - 1 + n = Len(TracedBy(w.cmd))
    BY <1>1, <1>2, <1>6 DEF Aligned
  <2>2. m + (n - 1) = Len(TracedBy(w.cmd))
    BY <2>1
  <2>3. ASSUME NEW j \in 1..(n - 1) PROVE v.runs[j] = TracedBy(w.cmd)[m + j]
    <3>1. j + 1 \in 1..n /\ m - 1 + (j + 1) = m + j
      BY <1>3
    <3>2. w.runs[j + 1] = TracedBy(w.cmd)[m - 1 + (j + 1)]
      BY <1>1, <1>2, <1>6, <3>1 DEF Aligned
    <3> QED BY <1>4, <3>1, <3>2
  <2> QED BY <1>4, <1>6, <2>2, <2>3 DEF Aligned
<1> QED BY <1>4, <1>7 DEF TracerLeft

\* The run that has begun.
LEMMA BegunIs ==
  ASSUME ShownInv, StoreInv, NEW p \in Processes, work[p].begun # None
  PROVE  LET n == Len(work[p].own)
         IN  /\ Traces(p) /\ TracerLeft(work[p], DOMAIN saved, clock)
             /\ n \in DOMAIN work[p].own /\ work[p].begun = work[p].own[n]
             /\ Head(work[p].runs) = RunOf(p, n)
             /\ \A q \in Processes : Traces(q) => \A k \in DOMAIN work[q].own :
                  work[q].own[k] = work[p].begun => q = p /\ k = n
<1> DEFINE n == Len(work[p].own)
<1>1. Traces(p)
  BY DEF StoreInv, LeftInv, ReceiverLeft
<1>2. TracerLeft(work[p], DOMAIN saved, clock)
  BY <1>1 DEF StoreInv, LeftInv
<1>3. /\ work[p].own \in Seq(Nat) /\ work[p].own # <<>> /\ work[p].begun = work[p].own[n]
      /\ work[p].runs # <<>> /\ work[p].runs \in Seq(Runs) /\ Aligned(work[p])
  BY <1>2 DEF TracerLeft
<1>4. n \in Nat /\ n >= 1 /\ DOMAIN work[p].own = 1..n
  BY <1>3
<1>5. Head(work[p].runs) = RunOf(p, n)
  <2>1. Ended(work[p]) = n - 1
    BY DEF Ended
  <2>2. 1 \in DOMAIN work[p].runs /\ Head(work[p].runs) = work[p].runs[1]
    BY <1>3
  <2>3. work[p].runs[1] = TracedBy(work[p].cmd)[n - 1 + 1]
    BY <1>3, <2>1, <2>2 DEF Aligned
  <2>4. n - 1 + 1 = n
    BY <1>4
  <2> QED BY <2>2, <2>3, <2>4 DEF RunOf
<1>6. ASSUME NEW q \in Processes, Traces(q), NEW k \in DOMAIN work[q].own,
             work[q].own[k] = work[p].begun
      PROVE  q = p /\ k = n
  <2>1. q = p
    BY <1>1, <1>3, <1>4, <1>6 DEF StoreInv, OwnInv
  <2>2. k < n => work[p].own[k] < work[p].own[n]
    <3>1. \A i, j \in DOMAIN work[p].own : i < j => work[p].own[i] < work[p].own[j]
      BY <1>2 DEF TracerLeft
    <3>2. k \in DOMAIN work[p].own /\ n \in DOMAIN work[p].own
      BY <1>4, <1>6, <2>1
    <3> QED BY <3>1, <3>2
  <2>3. work[p].own[n] \in Nat
    BY <1>3, <1>4
  <2>4. ~ (k < n)
    BY <1>3, <1>6, <2>1, <2>2, <2>3
  <2> QED BY <1>4, <1>6, <2>1, <2>4
<1> QED BY <1>1, <1>2, <1>3, <1>4, <1>5, <1>6

LEMMA EndStore ==
  ASSUME ShownInv, StoreInv, NEW p \in Processes, EndRun(p)
  PROVE  StoreInv'
<1>a. PICK n, t, run : /\ n = Len(work[p].own) /\ t = work[p].begun
                       /\ run = Head(work[p].runs)
  OBVIOUS
<1> DEFINE record == StoredRecord(Traced(run, t))
<1>0. Shape /\ work[p].begun # None
  BY DEF ShownInv, EndRun
<1>1. /\ Became(p, work[p].phase, Tail(work[p].runs), None, work[p].own,
                work[p].imports, work[p].refs, work[p].ids, work[p].records)
      /\ saved' = Save(Traced(run, t)) /\ clock' = clock
      /\ posted' = IF work[p].cmd.exports
                   THEN posted \cup {TraceToOtlpPayload(Traced(run, t))} ELSE posted
  BY <1>0, <1>a, RunLeftBecame DEF EndRun, Finalize
<1>2. /\ Traces(p) /\ TracerLeft(work[p], DOMAIN saved, clock)
      /\ n \in DOMAIN work[p].own /\ t = work[p].own[n] /\ run = RunOf(p, n)
      /\ \A q \in Processes : Traces(q) => \A k \in DOMAIN work[q].own :
           work[q].own[k] = t => q = p /\ k = n
  BY <1>0, <1>a, BegunIs
<1>3. run \in Runs /\ t \in Nat /\ t \in 1..clock
  BY <1>2, RunOfIs
<1>4. clock \in Nat
  BY DEF StoreInv, IdsInv
<1>5. SameRuns
  BY <1>0, <1>1, BecameShape DEF SameRuns, Became
<1>6. /\ Traced(run, t).trace = t /\ Traced(run, t).created = t + run[1].start
      /\ DOMAIN Traced(run, t) = {"trace", "created", "spans", "summary"}
  BY <1>3, TracedIs
<1>7. SavedAs(t, record)
  BY <1>1, <1>6, SaveSaves
<1>8. record.created = t + run[1].start
  BY <1>6, StoredIs
<1>9. FromRun(t, record)'
  BY <1>3 DEF FromRun
<1> HIDE DEF record
<1>10. IdsInv' /\ OwnInv' /\ CreatedInv' /\ KeptInv'
  <2>1. \A q \in Processes : Traces(q) => \A k \in DOMAIN work[q].own :
          work[q].own[k] = t => record.created = t + RunOf(q, k)[1].start
    BY <1>2, <1>8
  <2>2. clock' \in Nat /\ clock <= clock' /\ t \in 1..clock'
    BY <1>1, <1>3, <1>4
  <2> QED BY <1>5, <1>7, <1>9, <2>1, <2>2, SaveStore
<1>11. DOMAIN saved' = {t} \cup DOMAIN saved
  BY <1>7 DEF SavedAs
<1>12. \A q \in Processes : Traces(q)' <=> Traces(q)
  BY <1>5 DEF SameRuns, Traces
<1>13. LeftInv'
  <2> SUFFICES ASSUME NEW q \in Processes
               PROVE  /\ Traces(q)' => TracerLeft(work'[q], DOMAIN saved', clock')
                      /\ ~ Traces(q)' => ReceiverLeft(work'[q])
    BY DEF LeftInv
  <2>1. PICK now, ids, more : now = clock /\ ids = DOMAIN saved /\ more = DOMAIN saved'
    OBVIOUS
  <2>2. CASE q = p
    <3>1. PICK w, v : w = work[p] /\ v = work'[p]
      OBVIOUS
    <3>2. TracerLeft(w, ids, now) /\ now \in Nat /\ w.begun # None
      BY <1>0, <1>2, <1>4, <2>1, <3>1
    <3>3. /\ v.cmd = w.cmd /\ v.runs = Tail(w.runs)
          /\ v.imports = w.imports /\ v.begun = None /\ v.own = w.own
      BY <1>1, <3>1 DEF Became
    <3>4. TracerLeft(v, more, now)
      BY <3>2, <3>3, EndLeft
    <3> QED BY <1>1, <1>2, <1>12, <2>1, <2>2, <3>1, <3>4
  <2>3. CASE q # p
    <3>1. work'[q] = work[q]
      BY <1>1, <2>3 DEF Became
    <3>2. ~ Traces(q) => ReceiverLeft(work'[q])
      BY <3>1 DEF StoreInv, LeftInv
    <3>3. ASSUME Traces(q) PROVE TracerLeft(work'[q], DOMAIN saved', clock')
      <4>1. PICK w : w = work[q]
        OBVIOUS
      <4>2. TracerLeft(w, ids, now) /\ now \in Nat
        BY <1>4, <2>1, <3>3, <4>1 DEF StoreInv, LeftInv
      <4>3. ASSUME w.begun # None PROVE w.begun \notin more
        <5>1. work[q].begun = work[q].own[Len(work[q].own)]
              /\ Len(work[q].own) \in DOMAIN work[q].own
          BY <4>1, <4>3, BegunIs
        <5>2. w.begun # t
          BY <1>2, <2>3, <3>3, <4>1, <5>1
        <5> QED BY <1>11, <2>1, <4>2, <4>3, <5>2 DEF TracerLeft
      <4>4. TracerLeft(w, more, now)
        BY <4>2, <4>3, LeftGrows
      <4> QED BY <1>1, <2>1, <3>1, <4>1, <4>4
    <3> QED BY <1>12, <3>2, <3>3
  <2> QED BY <2>2, <2>3
<1>14. PostedInv'
  <2>1. \A q \in Processes : \A k : RunOf(q, k)' = RunOf(q, k)
    BY <1>5, <1>7, SaveMaps
  <2>2. \A q \in Processes : \A k :
          OwnSaved(q, k) => OwnSaved(q, k)' /\ work'[q].own[k] = work[q].own[k]
    BY <1>5, <1>7, SaveMaps
  <2> SUFFICES ASSUME NEW payload \in posted'
               PROVE  \E q \in Processes : \E k \in DOMAIN work'[q].own :
                        OwnSaved(q, k)' /\ payload = Export(RunOf(q, k)', work'[q].own[k])
    BY DEF PostedInv
  <2>3. CASE payload \in posted
    <3>1. PICK q \in Processes : \E k \in DOMAIN work[q].own :
            OwnSaved(q, k) /\ payload = Export(RunOf(q, k), work[q].own[k])
      BY <2>3 DEF StoreInv, PostedInv
    <3>2. PICK k \in DOMAIN work[q].own :
            OwnSaved(q, k) /\ payload = Export(RunOf(q, k), work[q].own[k])
      BY <3>1
    <3>3. OwnSaved(q, k)' /\ work'[q].own[k] = work[q].own[k] /\ RunOf(q, k)' = RunOf(q, k)
      BY <2>1, <2>2, <3>2
    <3>4. k \in DOMAIN work'[q].own
      BY <3>3 DEF OwnSaved
    <3> QED BY <3>2, <3>3, <3>4
  <2>4. CASE payload \notin posted
    <3>1. payload = Export(run, t)
      BY <1>1, <2>4 DEF Export
    <3>2. work'[p].own = work[p].own
      BY <1>1 DEF Became
    <3>3. OwnSaved(p, n)'
      BY <1>2, <1>11, <1>12, <3>2 DEF OwnSaved
    <3>4. RunOf(p, n)' = run
      BY <1>2, <2>1
    <3> QED BY <1>2, <3>1, <3>2, <3>3, <3>4
  <2> QED BY <2>3, <2>4
<1> QED BY <1>10, <1>13, <1>14 DEF StoreInv

\* The import that is saved.
LEMMA ImportIs ==
  ASSUME ShownInv, StoreInv, NEW p \in Processes, work[p].imports # <<>>
  PROVE  /\ ~ Traces(p) /\ work[p].cmd.arg # Broken
         /\ work[p].imports \in Seq(Deliveries(work[p].cmd.arg))
         /\ work[p].cmd.arg \in Seq(Wires(Foreign))
         /\ \E k \in DOMAIN work[p].cmd.arg, now \in Nat :
              /\ work[p].cmd.arg[k].trace \in Foreign /\ work[p].cmd.arg[k].trace \notin Nat
              /\ Head(work[p].imports)
                   = RecordOfTrace(work[p].cmd.arg, work[p].cmd.arg[k].trace, now)
<1>1. ~ Traces(p)
  BY DEF StoreInv, LeftInv, TracerLeft
<1>2. work[p].cmd.arg # Broken /\ work[p].imports \in Seq(Deliveries(work[p].cmd.arg))
  BY <1>1 DEF StoreInv, LeftInv, ReceiverLeft
<1>3. work[p].cmd.arg \in Seq(Wires(Foreign))
  BY <1>1, <1>2, PlannedIs
<1>4. Head(work[p].imports) \in Deliveries(work[p].cmd.arg)
  BY <1>2
<1>5. PICK k \in DOMAIN work[p].cmd.arg, now \in Nat :
        Head(work[p].imports) = RecordOfTrace(work[p].cmd.arg, work[p].cmd.arg[k].trace, now)
  BY <1>4, DeliveryIs
<1>6. work[p].cmd.arg[k] \in Wires(Foreign)
  BY <1>3
<1>7. work[p].cmd.arg[k].trace \in Foreign
  BY <1>6 DEF Wires
<1>8. work[p].cmd.arg[k].trace \notin Nat
  BY <1>7, ReferencesAreNoIds
<1> QED BY <1>1, <1>2, <1>3, <1>5, <1>7, <1>8

LEMMA ImportStore ==
  ASSUME ShownInv, StoreInv, NEW p \in Processes, SaveImport(p)
  PROVE  StoreInv'
<1>0. Shape /\ work[p].imports # <<>>
  BY DEF ShownInv, SaveImport
<1>1. /\ ~ Traces(p) /\ work[p].cmd.arg # Broken
      /\ work[p].imports \in Seq(Deliveries(work[p].cmd.arg))
  BY <1>0, ImportIs
<1>2. PICK k \in DOMAIN work[p].cmd.arg, now \in Nat :
        /\ work[p].cmd.arg[k].trace \notin Nat
        /\ Head(work[p].imports) = RecordOfTrace(work[p].cmd.arg, work[p].cmd.arg[k].trace, now)
  BY <1>0, ImportIs
<1>3. PICK t, got : t = work[p].cmd.arg[k].trace /\ got = RecordOfTrace(work[p].cmd.arg, t, now)
  OBVIOUS
<1> DEFINE record == StoredRecord(Dated(got))
<1>4. t \notin Nat /\ Head(work[p].imports) = got
  BY <1>2, <1>3
<1>5. /\ Became(p, work[p].phase, work[p].runs, work[p].begun, Append(work[p].own, got.trace),
                Tail(work[p].imports), work[p].refs, work[p].ids, work[p].records)
      /\ saved' = Save(Dated(got)) /\ clock' = clock /\ posted' = posted
  BY <1>0, <1>4, SavedBecame DEF SaveImport
<1>6. \A q \in Processes : work'[q].cmd = work[q].cmd
  BY <1>0, <1>5, BecameShape
<1>7. SameRuns
  BY <1>1, <1>5, <1>6 DEF SameRuns, Became
<1>8. Dated(got).trace = t
  BY <1>3, RecordIs
<1>9. SavedAs(t, record)
  BY <1>5, <1>8, SaveSaves
<1>10. \A q \in Processes : Traces(q)' <=> Traces(q)
  BY <1>6 DEF Traces
<1>11. FromRequest(t, record)'
  BY <1>1, <1>3, <1>6, <1>10 DEF FromRequest
<1> HIDE DEF record
<1>12. clock \in Nat
  BY DEF StoreInv, IdsInv
<1>13. IdsInv' /\ OwnInv' /\ CreatedInv' /\ KeptInv'
  <2>1. ASSUME NEW q \in Processes, Traces(q), NEW j \in DOMAIN work[q].own
        PROVE  work[q].own[j] # t
    BY <1>4, <2>1, RunOfIs
  <2>2. clock' \in Nat /\ clock <= clock'
    BY <1>5, <1>12
  <2> QED BY <1>4, <1>7, <1>9, <1>11, <2>1, <2>2, SaveStore
<1>14. DOMAIN saved' = {t} \cup DOMAIN saved
  BY <1>9 DEF SavedAs
<1>15. LeftInv'
  <2> SUFFICES ASSUME NEW q \in Processes
               PROVE  /\ Traces(q)' => TracerLeft(work'[q], DOMAIN saved', clock')
                      /\ ~ Traces(q)' => ReceiverLeft(work'[q])
    BY DEF LeftInv
  <2>1. PICK ids, more : ids = DOMAIN saved /\ more = DOMAIN saved'
    OBVIOUS
  <2>2. CASE q = p
    <3>1. ReceiverLeft(work[p])
      BY <1>1 DEF StoreInv, LeftInv
    <3>2. Tail(work[p].imports) \in Seq(Deliveries(work[p].cmd.arg))
      <4>1. PICK s, D : s = work[p].imports /\ D = Deliveries(work[p].cmd.arg)
        OBVIOUS
      <4>2. s \in Seq(D) /\ s # <<>>
        BY <1>0, <1>1, <4>1
      <4>3. Tail(s) \in Seq(D)
        BY <4>2
      <4> QED BY <4>1, <4>3
    <3>3. ReceiverLeft(work'[p])
      BY <1>1, <1>5, <3>1, <3>2 DEF ReceiverLeft, Became
    <3> QED BY <1>1, <1>10, <2>2, <3>3
  <2>3. CASE q # p
    <3>1. work'[q] = work[q]
      BY <1>5, <2>3 DEF Became
    <3>2. ~ Traces(q) => ReceiverLeft(work'[q])
      BY <3>1 DEF StoreInv, LeftInv
    <3>3. ASSUME Traces(q) PROVE TracerLeft(work'[q], DOMAIN saved', clock')
      <4>1. PICK w, m : w = work[q] /\ m = clock
        OBVIOUS
      <4>2. TracerLeft(w, ids, m) /\ m \in Nat
        BY <1>12, <2>1, <3>3, <4>1 DEF StoreInv, LeftInv
      <4>3. ASSUME w.begun # None PROVE w.begun \notin more
        <5>1. w.begun = w.own[Len(w.own)] /\ w.own \in Seq(Nat) /\ w.own # <<>>
              /\ w.begun \notin ids
          BY <4>2, <4>3 DEF TracerLeft
        <5>2. w.begun \in Nat
          BY <5>1
        <5> QED BY <1>4, <1>14, <2>1, <5>1, <5>2
      <4>4. TracerLeft(w, more, m)
        BY <4>2, <4>3, LeftGrows
      <4> QED BY <1>5, <2>1, <3>1, <4>1, <4>4
    <3> QED BY <1>10, <3>2, <3>3
  <2> QED BY <2>2, <2>3
<1>16. PostedInv'
  <2>1. \A q \in Processes : \A j : RunOf(q, j)' = RunOf(q, j)
    BY <1>7, <1>9, SaveMaps
  <2>2. \A q \in Processes : \A j :
          OwnSaved(q, j) => OwnSaved(q, j)' /\ work'[q].own[j] = work[q].own[j]
    BY <1>7, <1>9, SaveMaps
  <2> SUFFICES ASSUME NEW payload \in posted
               PROVE  \E q \in Processes : \E j \in DOMAIN work'[q].own :
                        OwnSaved(q, j)' /\ payload = Export(RunOf(q, j)', work'[q].own[j])
    BY <1>5 DEF PostedInv
  <2>3. PICK q \in Processes : \E j \in DOMAIN work[q].own :
          OwnSaved(q, j) /\ payload = Export(RunOf(q, j), work[q].own[j])
    BY DEF StoreInv, PostedInv
  <2>4. PICK j \in DOMAIN work[q].own :
          OwnSaved(q, j) /\ payload = Export(RunOf(q, j), work[q].own[j])
    BY <2>3
  <2>5. OwnSaved(q, j)' /\ work'[q].own[j] = work[q].own[j] /\ RunOf(q, j)' = RunOf(q, j)
    BY <2>1, <2>2, <2>4
  <2>6. j \in DOMAIN work'[q].own
    BY <2>5 DEF OwnSaved
  <2> QED BY <2>4, <2>5, <2>6
<1> QED BY <1>13, <1>15, <1>16 DEF StoreInv

\* What the store holds of an export is created when the run began.
LEMMA ExportCreated ==
  ASSUME NEW run \in Runs, NEW id \in Nat, id >= 1, NEW now \in Nat
  PROVE  /\ Dated(RecordOfTrace(Export(run, id), id, now)).trace = id
         /\ StoredRecord(Dated(RecordOfTrace(Export(run, id), id, now))).created
              = id + run[1].start
<1> DEFINE payload == Export(run, id)
           wire == payload[1]
           got == RecordOfTrace(payload, id, now)
<1>1. Len(run) \in Nat /\ 1 \in 1..Len(run) /\ run[1] \in Spans
  BY AtIs
<1>2. got = ImportedRecord(id, [n \in 1..Len(run) |-> ImportSpan(payload[n], now)])
  BY ExportReceived
<1>3. got.spans[1] = ImportSpan(wire, now)
  BY <1>1, <1>2 DEF ImportedRecord
<1>4. wire = SpanToOtlpDict(id, Concluded(run, id)[1])
  BY <1>1, ExportIs
<1>5. Concluded(run, id)[1] = Priced(Moved(run, id)[1])
  BY <1>1 DEF Concluded
<1>6. Moved(run, id)[1] = [run[1] EXCEPT !.start = @ + id, !.end = IF @ = None THEN None ELSE @ + id]
  BY <1>1 DEF Moved
<1>7. /\ run[1].start \in Nat /\ run[1].end \in Nat \cup {None} /\ run[1].dur \in Nat
      /\ {"start", "end", "dur"} \subseteq DOMAIN run[1]
      /\ {"cost", "energy"} \subseteq DOMAIN run[1]
  BY <1>1 DEF Spans
<1>8. /\ Moved(run, id)[1].start = run[1].start + id
      /\ Moved(run, id)[1].end = IF run[1].end = None THEN None ELSE run[1].end + id
      /\ Moved(run, id)[1].dur = run[1].dur
      /\ DOMAIN Moved(run, id)[1] = DOMAIN run[1]
  BY <1>6, <1>7
<1>9. /\ Concluded(run, id)[1].start = run[1].start + id
      /\ Concluded(run, id)[1].end = IF run[1].end = None THEN None ELSE run[1].end + id
      /\ Concluded(run, id)[1].dur = run[1].dur
  BY <1>5, <1>7, <1>8 DEF Priced
<1>10. run[1].end # None => run[1].start <= run[1].end
  BY <1>1 DEF Runs
<1>11. Timed(wire) /\ wire.start = run[1].start + id
  <2>1. wire.start = run[1].start + id
    BY <1>4, <1>9 DEF SpanToOtlpDict
  <2>2. wire.end = IF OrZero(Concluded(run, id)[1].end) # 0 THEN Concluded(run, id)[1].end
                   ELSE Concluded(run, id)[1].start + Concluded(run, id)[1].dur
    BY <1>4 DEF SpanToOtlpDict
  <2>3. CASE run[1].end = None
    <3>1. OrZero(Concluded(run, id)[1].end) = 0
      BY <1>9, <2>3 DEF OrZero, Or
    <3>2. wire.end = run[1].start + id + run[1].dur
      BY <1>9, <2>2, <3>1
    <3> QED BY <1>7, <2>1, <3>2 DEF Timed
  <2>4. CASE run[1].end # None
    <3>1. run[1].end \in Nat /\ Concluded(run, id)[1].end = run[1].end + id
      BY <1>7, <1>9, <2>4
    <3>2. run[1].end + id # None
      BY <3>1, TablesAreFull
    <3>3. OrZero(Concluded(run, id)[1].end) = run[1].end + id
      BY <3>1, <3>2 DEF OrZero, Or
    <3>4. wire.end = run[1].end + id
      BY <2>2, <3>1, <3>3
    <3> QED BY <1>7, <1>10, <2>1, <2>4, <3>1, <3>4 DEF Timed
  <2> QED BY <2>3, <2>4
<1>12. got.spans[1].start = run[1].start + id
  BY <1>3, <1>11 DEF ImportSpan
<1>13. /\ Dated(got).trace = id /\ Dated(got).created = got.spans[1].start
       /\ DOMAIN Dated(got) = {"trace", "created", "spans", "summary"}
  BY RecordIs
<1>14. StoredRecord(Dated(got)).created = Dated(got).created
  BY <1>13, StoredIs
<1> QED BY <1>7, <1>12, <1>13, <1>14

LEMMA ExportStore ==
  ASSUME ShownInv, StoreInv, NEW payload \in posted, ReceiveExport(payload)
  PROVE  StoreInv' /\ DOMAIN saved' = DOMAIN saved
<1>1. clock' = clock + 1 /\ work' = work /\ posted' \subseteq posted
      /\ saved' = Save(Dated(OtlpPayloadToTraceRecords(payload, clock')[1]))
  BY DEF ReceiveExport
<1>2. clock \in Nat /\ clock' \in Nat /\ clock <= clock'
  BY <1>1 DEF StoreInv, IdsInv
<1>3. PICK p \in Processes : \E k \in DOMAIN work[p].own :
        OwnSaved(p, k) /\ payload = Export(RunOf(p, k), work[p].own[k])
  BY DEF StoreInv, PostedInv
<1>4. PICK k \in DOMAIN work[p].own :
        OwnSaved(p, k) /\ payload = Export(RunOf(p, k), work[p].own[k])
  BY <1>3
<1>5. PICK t, run, now : t = work[p].own[k] /\ run = RunOf(p, k) /\ now = clock'
  OBVIOUS
<1>6. Traces(p) /\ t \in DOMAIN saved
  BY <1>4, <1>5 DEF OwnSaved
<1>7. run \in Runs /\ t \in Nat /\ t >= 1 /\ t \in 1..clock
  BY <1>5, <1>6, RunOfIs
<1> DEFINE record == StoredRecord(Dated(RecordOfTrace(Export(run, t), t, now)))
<1>8. OtlpPayloadToTraceRecords(payload, clock')[1] = RecordOfTrace(Export(run, t), t, now)
  BY <1>2, <1>4, <1>5, <1>7, ExportReceived
<1>9. /\ Dated(RecordOfTrace(Export(run, t), t, now)).trace = t
      /\ record.created = t + run[1].start
  BY <1>2, <1>5, <1>7, ExportCreated
<1>10. SavedAs(t, record)
  BY <1>1, <1>8, <1>9, SaveSaves
<1>11. SameRuns
  BY <1>1 DEF SameRuns
<1>12. DOMAIN saved' = DOMAIN saved
  BY <1>6, <1>10 DEF SavedAs
<1>13. \A q \in Processes : \A j : /\ RunOf(q, j)' = RunOf(q, j)
                                   /\ OwnSaved(q, j)' <=> OwnSaved(q, j)
  BY <1>1, <1>12 DEF RunOf, OwnSaved, Traces
<1>14. FromExport(t, record)'
  <2>1. OwnSaved(p, k)' /\ k \in DOMAIN work'[p].own /\ work'[p].own[k] = t
        /\ RunOf(p, k)' = run
    BY <1>1, <1>4, <1>5, <1>13
  <2>2. now \in Nat
    BY <1>2, <1>5
  <2> QED BY <2>1, <2>2 DEF FromExport
<1> HIDE DEF record
<1>15. IdsInv' /\ OwnInv' /\ CreatedInv' /\ KeptInv'
  <2>1. ASSUME NEW q \in Processes, Traces(q), NEW j \in DOMAIN work[q].own, work[q].own[j] = t
        PROVE  record.created = t + RunOf(q, j)[1].start
    <3>1. OwnSaved(q, j)
      BY <1>6, <2>1 DEF OwnSaved
    <3>2. /\ saved[t].created = t + RunOf(q, j)[1].start
          /\ saved[t].created = t + run[1].start
      BY <1>4, <1>5, <2>1, <3>1 DEF StoreInv, CreatedInv
    <3> QED BY <1>9, <3>2
  <2>2. t \in 1..clock'
    BY <1>2, <1>7
  <2> QED BY <1>2, <1>10, <1>11, <1>14, <2>1, <2>2, SaveStore
<1>16. LeftInv'
  <2> SUFFICES ASSUME NEW q \in Processes
               PROVE  /\ Traces(q)' => TracerLeft(work'[q], DOMAIN saved', clock')
                      /\ ~ Traces(q)' => ReceiverLeft(work'[q])
    BY DEF LeftInv
  <2>1. ~ Traces(q)' => ReceiverLeft(work'[q])
    BY <1>1 DEF StoreInv, LeftInv, Traces
  <2>2. ASSUME Traces(q)' PROVE TracerLeft(work'[q], DOMAIN saved', clock')
    <3>1. PICK w, m, n, ids : w = work[q] /\ m = clock /\ n = clock' /\ ids = DOMAIN saved
      OBVIOUS
    <3>2. TracerLeft(w, ids, m) /\ m \in Nat /\ n \in Nat /\ m <= n
      BY <1>1, <1>2, <2>2, <3>1 DEF StoreInv, LeftInv, Traces
    <3>3. w.begun # None => w.begun \notin ids
      BY <3>2 DEF TracerLeft
    <3>4. TracerLeft(w, ids, n)
      BY <3>2, <3>3, LeftGrows
    <3> QED BY <1>1, <1>12, <3>1, <3>4
  <2> QED BY <2>1, <2>2
<1>17. PostedInv'
  <2> SUFFICES ASSUME NEW other \in posted'
               PROVE  \E q \in Processes : \E j \in DOMAIN work'[q].own :
                        OwnSaved(q, j)' /\ other = Export(RunOf(q, j)', work'[q].own[j])
    BY DEF PostedInv
  <2>1. PICK q \in Processes : \E j \in DOMAIN work[q].own :
          OwnSaved(q, j) /\ other = Export(RunOf(q, j), work[q].own[j])
    BY <1>1 DEF StoreInv, PostedInv
  <2>2. PICK j \in DOMAIN work[q].own :
          OwnSaved(q, j) /\ other = Export(RunOf(q, j), work[q].own[j])
    BY <2>1
  <2> QED BY <1>1, <1>13, <2>2
<1> QED BY <1>12, <1>15, <1>16, <1>17 DEF StoreInv

\* The other steps.
LEMMA LoseStore ==
  ASSUME ShownInv, StoreInv, NEW p \in Processes, LoseRun(p)
  PROVE  StoreInv'
<1>0. Shape /\ work[p].begun # None
  BY DEF ShownInv, LoseRun
<1>1. Became(p, work[p].phase, Tail(work[p].runs), None, work[p].own,
             work[p].imports, work[p].refs, work[p].ids, work[p].records)
      /\ UNCHANGED <<clock, saved, posted>>
  BY <1>0, RunLeftBecame DEF LoseRun
<1>2. Traces(p) /\ TracerLeft(work[p], DOMAIN saved, clock) /\ clock \in Nat
  BY <1>0, BegunIs DEF StoreInv, IdsInv
<1>3. TracerLeft(work'[p], DOMAIN saved, clock)
  <2>1. PICK w, v, ids, now : w = work[p] /\ v = work'[p] /\ ids = DOMAIN saved /\ now = clock
    OBVIOUS
  <2>2. /\ TracerLeft(w, ids, now) /\ now \in Nat /\ w.begun # None
        /\ v.cmd = w.cmd /\ v.runs = Tail(w.runs) /\ v.imports = w.imports
        /\ v.begun = None /\ v.own = w.own
    BY <1>0, <1>1, <1>2, <2>1 DEF Became
  <2>3. TracerLeft(v, ids, now)
    BY <2>2, EndLeft
  <2> QED BY <2>1, <2>3
<1> QED BY <1>0, <1>1, <1>2, <1>3, QuietStore

\* A step that leaves what is to run, to import and to read, or less of it.
LEMMA IdleStore ==
  ASSUME ShownInv, StoreInv, NEW p \in Processes, NEW phase, NEW imports, NEW refs, NEW ids,
         NEW records,
         Became(p, phase, work[p].runs, work[p].begun, work[p].own, imports, refs, ids, records),
         UNCHANGED <<clock, saved, posted>>,
         imports \in {<<>>, work[p].imports}, refs = work[p].refs \/ Traces(p)
  PROVE  StoreInv'
<1>1. ~ Traces(p) => ReceiverLeft(work'[p])
  BY DEF StoreInv, LeftInv, ReceiverLeft, Became
<1>2. ASSUME Traces(p) PROVE TracerLeft(work'[p], DOMAIN saved, clock)
  <2>1. TracerLeft(work[p], DOMAIN saved, clock)
    BY <1>2 DEF StoreInv, LeftInv
  <2>2. /\ work'[p].cmd = work[p].cmd /\ work'[p].runs = work[p].runs
        /\ work'[p].begun = work[p].begun /\ work'[p].own = work[p].own
        /\ work'[p].imports = <<>>
    BY <2>1 DEF Became, TracerLeft
  <2>3. Ended(work'[p]) = Ended(work[p])
    BY <2>2 DEF Ended
  <2>4. Aligned(work[p]) => Aligned(work'[p])
    BY <2>2, <2>3 DEF Aligned
  <2> QED BY <2>1, <2>2, <2>4 DEF TracerLeft
<1>3. clock' \in Nat /\ clock <= clock' /\ saved' = saved /\ posted' = posted
  BY DEF StoreInv, IdsInv
<1> QED BY <1>1, <1>2, <1>3, QuietStore DEF ShownInv

LEMMA ReceiveStore ==
  ASSUME ShownInv, StoreInv, NEW p \in Processes, Receive(p)
  PROVE  StoreInv'
<1>0. Shape /\ ~ Traces(p)
  BY DEF ShownInv, Receive, Traces
<1>1. clock' \in Nat /\ clock <= clock' /\ saved' = saved /\ posted' = posted
  BY DEF StoreInv, IdsInv, Receive
<1>2. ReceiverLeft(work[p])
  BY <1>0 DEF StoreInv, LeftInv
<1>3. CASE work[p].cmd.arg = Broken
  <2>1. Became(p, "failed", work[p].runs, work[p].begun, work[p].own, <<>>, work[p].refs,
               work[p].ids, work[p].records)
    BY <1>0, <1>3, FailBecame DEF Receive
  <2>2. ReceiverLeft(work'[p])
    BY <1>2, <2>1 DEF ReceiverLeft, Became
  <2> QED BY <1>0, <1>1, <2>1, <2>2, QuietStore
<1>4. CASE work[p].cmd.arg # Broken
  <2>1. Became(p, "importing", work[p].runs, work[p].begun, work[p].own,
               OtlpPayloadToTraceRecords(work[p].cmd.arg, clock'), work[p].refs,
               work[p].ids, work[p].records)
    BY <1>0, <1>4, ReceivedBecame DEF Receive
  <2>2. work[p].cmd.arg \in Seq(Wires(Foreign))
    BY <1>0, <1>4, PlannedIs
  <2>3. OtlpPayloadToTraceRecords(work[p].cmd.arg, clock') \in Seq(Deliveries(work[p].cmd.arg))
    <3>1. PICK arg, now : arg = work[p].cmd.arg /\ now = clock'
      OBVIOUS
    <3>2. arg \in Seq(Wires(Foreign)) /\ now \in Nat
      BY <1>1, <2>2, <3>1
    <3>3. OtlpPayloadToTraceRecords(arg, now) \in Seq(Deliveries(arg))
      BY <3>2, ReceivedIs
    <3> QED BY <3>1, <3>3
  <2>4. ReceiverLeft(work'[p])
    BY <1>2, <1>4, <2>1, <2>3 DEF ReceiverLeft, Became
  <2> QED BY <1>0, <1>1, <2>1, <2>4, QuietStore
<1> QED BY <1>3, <1>4

LEMMA DemoStore ==
  ASSUME ShownInv, StoreInv, NEW p \in Processes, Traces(p), RunsDone(p), work[p].own = <<>>,
         work' = [work EXCEPT ![p].runs = <<DemoRun>>],
         UNCHANGED <<clock, saved, posted>>
  PROVE  StoreInv'
<1>0. Shape
  BY DEF ShownInv
<1>1. Became(p, work[p].phase, <<DemoRun>>, work[p].begun, work[p].own, work[p].imports,
             work[p].refs, work[p].ids, work[p].records)
  BY <1>0, DemoBecame
<1>2. TracerLeft(work[p], DOMAIN saved, clock) /\ work[p].runs = <<>> /\ work[p].begun = None
  BY DEF StoreInv, LeftInv, RunsDone
<1>3. work[p].cmd.runs = <<>>
  <2>1. Len(TracedBy(work[p].cmd)) >= 1 /\ Len(TracedBy(work[p].cmd)) \in Nat
    BY PlannedIs
  <2>2. Ended(work[p]) = 0 /\ Len(work[p].runs) = 0
    BY <1>2 DEF Ended
  <2>3. ~ Aligned(work[p])
    BY <2>1, <2>2 DEF Aligned
  <2> QED BY <1>2, <2>3 DEF TracerLeft
<1>4. TracerLeft(work'[p], DOMAIN saved, clock)
  <2>1. /\ work'[p].cmd = work[p].cmd /\ work'[p].runs = <<DemoRun>> /\ work'[p].begun = None
        /\ work'[p].own = <<>> /\ work'[p].imports = work[p].imports
    BY <1>1, <1>2 DEF Became
  <2>2. TracedBy(work'[p].cmd) = <<DemoRun>> /\ Ended(work'[p]) = 0
    BY <1>3, <2>1 DEF TracedBy, Ended
  <2>3. Len(<<DemoRun>>) = 1 /\ <<DemoRun>> \in Seq(Runs) /\ \A j \in DOMAIN <<DemoRun>> : 0 + j = j
    BY ScenariosAreWellFormed
  <2>4. Aligned(work'[p])
    <3>1. PICK s, e, v : s = <<DemoRun>> /\ e = Ended(v) /\ v = work'[p]
      OBVIOUS
    <3>2. /\ v.runs = s /\ TracedBy(v.cmd) = s /\ e = 0 /\ Len(s) = 1
          /\ \A j \in DOMAIN s : 0 + j = j
      BY <2>1, <2>2, <2>3, <3>1
    <3>3. e + Len(v.runs) = Len(TracedBy(v.cmd))
      BY <3>2
    <3>4. \A j \in DOMAIN v.runs : v.runs[j] = TracedBy(v.cmd)[e + j]
      BY <3>2
    <3>5. Aligned(v)
      BY <3>1, <3>3, <3>4 DEF Aligned
    <3> QED BY <3>1, <3>5
  <2> QED BY <1>2, <2>1, <2>3, <2>4 DEF TracerLeft
<1>5. clock' \in Nat /\ clock <= clock' /\ saved' = saved /\ posted' = posted
  BY DEF StoreInv, IdsInv
<1> QED BY <1>0, <1>1, <1>4, <1>5, QuietStore

LEMMA ResolveStore ==
  ASSUME ShownInv, StoreInv, NEW p \in Processes, Resolve(p)
  PROVE  StoreInv' /\ Traces(p)
<1>1. /\ Shape /\ RunsDone(p) /\ work[p].refs # <<>> /\ UNCHANGED <<clock, saved, posted>>
  BY ResolveCases DEF ShownInv
<1>2. Traces(p)
  BY <1>1 DEF StoreInv, LeftInv, ReceiverLeft
<1>3. CASE Fail(p)
  BY <1>1, <1>2, <1>3, FailBecame, IdleStore
<1>4. CASE work[p].own = <<>> /\ work' = [work EXCEPT ![p].runs = <<DemoRun>>]
  BY <1>1, <1>2, <1>4, DemoStore
<1>5. ASSUME NEW ids, Resolved(p, ids) PROVE StoreInv'
  BY <1>1, <1>2, <1>5, ResolvedBecame, IdleStore
<1> QED BY <1>2, <1>3, <1>4, <1>5, ResolveCases

LEMMA NextStore ==
  ASSUME ShownInv, StoreInv, [Next]_vars
  PROVE  StoreInv'
<1>0. Shape
  BY DEF ShownInv
<1>1. CASE UNCHANGED sessionVars
  <2>1. /\ clock' = clock /\ saved' = saved /\ posted' = posted /\ work' = work
    BY <1>1 DEF sessionVars
  <2> QED BY <2>1 DEF StoreInv, IdsInv, LeftInv, OwnInv, CreatedInv, PostedInv, KeptInv,
                      FromRun, FromExport, FromRequest, OwnSaved, RunOf, Traces
<1>2. CASE SessionsNext
  <2>1. ASSUME NEW p \in Processes, BeginRun(p) PROVE StoreInv'
    BY <2>1, BeginStore
  <2>2. ASSUME NEW p \in Processes, EndRun(p) PROVE StoreInv'
    BY <2>2, EndStore
  <2>3. ASSUME NEW p \in Processes, LoseRun(p) PROVE StoreInv'
    BY <2>3, LoseStore
  <2>4. ASSUME NEW p \in Processes, Receive(p) PROVE StoreInv'
    BY <2>4, ReceiveStore
  <2>5. ASSUME NEW p \in Processes, SaveImport(p) PROVE StoreInv'
    BY <2>5, ImportStore
  <2>6. ASSUME NEW p \in Processes, ImportFails(p) PROVE StoreInv'
    BY <1>0, <2>6, FailBecame, IdleStore DEF ImportFails
  <2>7. ASSUME NEW p \in Processes, AnswerImport(p) PROVE StoreInv'
    BY <1>0, <2>7, AnsweredBecame, IdleStore DEF AnswerImport
  <2>8. ASSUME NEW p \in Processes, Resolve(p) PROVE StoreInv'
    BY <2>8, ResolveStore
  <2>9. ASSUME NEW p \in Processes, Load(p) PROVE StoreInv'
    <3>1. UNCHANGED <<clock, saved, posted>>
      BY <2>9 DEF Load
    <3>2. CASE Fail(p)
      BY <1>0, <3>1, <3>2, FailBecame, IdleStore
    <3>3. ASSUME NEW record, work' = [work EXCEPT ![p].records = Append(@, record)]
          PROVE StoreInv'
      BY <1>0, <3>1, <3>3, LoadedBecame, IdleStore
    <3> QED BY <2>9, <3>2, <3>3 DEF Load
  <2>10. ASSUME NEW p \in Processes, Answer(p) PROVE StoreInv'
    BY <1>0, <2>10, AnsweredBecame, IdleStore DEF Answer
  <2>11. ASSUME NEW payload \in posted, ReceiveExport(payload) PROVE StoreInv'
    BY <2>11, ExportStore
  <2> QED BY <1>2, <2>1, <2>2, <2>3, <2>4, <2>5, <2>6, <2>7, <2>8, <2>9, <2>10, <2>11
          DEF SessionsNext
<1> QED BY <1>1, <1>2 DEF Next, vars

\* Every record of the store is what the analysis of a run, of its export or of one
\* trace of a request has made, under an id that is no other's, for any processes, runs
\* and payloads (tracer.py:130-156, server:164-186).
THEOREM StoreThm == Spec => [](ShownInv /\ StoreInv)
<1>1. Init => ShownInv /\ StoreInv
  BY InitShown, InitStore
<1>2. ShownInv /\ StoreInv /\ [Next]_vars => (ShownInv /\ StoreInv)'
  BY NextShown, NextStore
<1> QED BY <1>1, <1>2, PTL DEF Spec

----------
(* The id file *)

\* Run k of p is the last of p's that is saved.
LastSaved(p, k) ==
  /\ k \in DOMAIN work[p].own /\ work[p].own[k] \in DOMAIN saved
  /\ \A j \in DOMAIN work[p].own : j > k => work[p].own[j] \notin DOMAIN saved

FilesInv ==
  \A p \in Processes : \A k :
    work[p].cmd.op = "run" /\ LastSaved(p, k) => idFile[p] = work[p].own[k]

\* A step that neither begins nor ends a run, nor writes an id file.
LEMMA FilesStay ==
  ASSUME FilesInv, idFile' = idFile,
         \A q \in Processes : work'[q].cmd = work[q].cmd,
         \A q \in Processes : Traces(q) =>
           /\ work'[q].own = work[q].own
           /\ \A k \in DOMAIN work[q].own :
                work[q].own[k] \in DOMAIN saved <=> work[q].own[k] \in DOMAIN saved'
  PROVE  FilesInv'
<1> SUFFICES ASSUME NEW q \in Processes, NEW k, work'[q].cmd.op = "run", LastSaved(q, k)'
             PROVE  idFile'[q] = work'[q].own[k]
  BY DEF FilesInv
<1>1. Traces(q) /\ work[q].cmd.op = "run"
  BY DEF Traces
<1>2. LastSaved(q, k) /\ work'[q].own = work[q].own
  BY <1>1 DEF LastSaved
<1> QED BY <1>1, <1>2 DEF FilesInv

LEMMA BeginFiles ==
  ASSUME ShownInv, StoreInv, FilesInv, NEW p \in Processes, BeginRun(p)
  PROVE  FilesInv'
<1>0. Shape
  BY DEF ShownInv
<1>1. /\ Became(p, work[p].phase, work[p].runs, clock', Append(work[p].own, clock'),
                work[p].imports, work[p].refs, work[p].ids, work[p].records)
      /\ saved' = saved /\ clock' = clock + 1 /\ idFile' = idFile
      /\ work[p].runs # <<>> /\ work[p].begun = None
  BY <1>0, BeginRunBecame DEF BeginRun
<1>2. \A q \in Processes : work'[q].cmd = work[q].cmd
  BY <1>0, <1>1, BecameShape
<1>3. Traces(p)
  BY <1>1 DEF StoreInv, LeftInv, ReceiverLeft
<1>4. clock' \notin DOMAIN saved
  BY <1>1 DEF StoreInv, IdsInv
<1>5. work[p].own \in Seq(Nat)
  BY <1>3 DEF StoreInv, LeftInv, TracerLeft
<1>6. PICK n \in Nat : n = Len(work[p].own) /\ DOMAIN work[p].own = 1..n
  BY <1>5
<1>7. /\ DOMAIN work'[p].own = 1..(n + 1) /\ work'[p].own[n + 1] = clock'
      /\ \A k \in 1..n : work'[p].own[k] = work[p].own[k]
  BY <1>1, <1>5, <1>6 DEF Became
<1> SUFFICES ASSUME NEW q \in Processes, NEW k, work'[q].cmd.op = "run", LastSaved(q, k)'
             PROVE  idFile'[q] = work'[q].own[k]
  BY DEF FilesInv
<1>8. CASE q = p
  <2>1. k \in 1..n /\ work'[p].own[k] = work[p].own[k]
    BY <1>1, <1>4, <1>7, <1>8 DEF LastSaved
  <2>2. ASSUME NEW j \in 1..n, j > k PROVE work[p].own[j] \notin DOMAIN saved
    <3>1. j \in 1..(n + 1) /\ work'[p].own[j] = work[p].own[j]
      BY <1>7
    <3> QED BY <1>1, <1>7, <1>8, <2>2, <3>1 DEF LastSaved
  <2>3. work[p].own[k] \in DOMAIN saved
    BY <1>1, <1>8, <2>1 DEF LastSaved
  <2>4. LastSaved(p, k)
    BY <1>6, <2>1, <2>2, <2>3 DEF LastSaved
  <2> QED BY <1>1, <1>2, <1>8, <2>1, <2>4 DEF FilesInv
<1>9. CASE q # p
  <2>1. work'[q] = work[q]
    BY <1>1, <1>9 DEF Became
  <2> QED BY <1>1, <2>1 DEF FilesInv, LastSaved
<1> QED BY <1>8, <1>9

LEMMA EndFiles ==
  ASSUME ShownInv, StoreInv, FilesInv, NEW p \in Processes, EndRun(p)
  PROVE  FilesInv'
<1>0. Shape /\ work[p].begun # None
  BY DEF ShownInv, EndRun
<1>1. PICK n, t : n = Len(work[p].own) /\ t = work[p].begun
  OBVIOUS
<1>2. /\ Became(p, work[p].phase, Tail(work[p].runs), None, work[p].own,
                work[p].imports, work[p].refs, work[p].ids, work[p].records)
      /\ saved' = Save(Traced(Head(work[p].runs), t))
      /\ idFile' = IF work[p].cmd.op = "run" THEN [idFile EXCEPT ![p] = t] ELSE idFile
  <2>1. Traced(Head(work[p].runs), t).trace = t
    BY DEF Traced, ++
  <2> QED BY <1>0, <1>1, <2>1, RunLeftBecame DEF EndRun, Finalize
<1>3. /\ Traces(p) /\ TracerLeft(work[p], DOMAIN saved, clock)
      /\ n \in DOMAIN work[p].own /\ t = work[p].own[n]
      /\ \A q \in Processes : Traces(q) => \A k \in DOMAIN work[q].own :
           work[q].own[k] = t => q = p /\ k = n
  BY <1>0, <1>1, BegunIs
<1>4. DOMAIN saved' = {t} \cup DOMAIN saved
  <2>1. Traced(Head(work[p].runs), t).trace = t
    BY DEF Traced, ++
  <2> QED BY <1>2, <2>1, SaveIs
<1>5. \A q \in Processes : work'[q].cmd = work[q].cmd /\ work'[q].own = work[q].own
  BY <1>0, <1>2, BecameShape DEF Became
<1> SUFFICES ASSUME NEW q \in Processes, NEW k, work'[q].cmd.op = "run", LastSaved(q, k)'
             PROVE  idFile'[q] = work'[q].own[k]
  BY DEF FilesInv
<1>6. Traces(q) /\ work[q].cmd.op = "run" /\ k \in DOMAIN work[q].own
  BY <1>5 DEF LastSaved, Traces
<1>7. CASE q = p
  <2>1. work[p].own \in Seq(Nat)
    BY <1>3 DEF TracerLeft
  <2>2. n \in Nat /\ DOMAIN work[p].own = 1..n
    BY <1>1, <2>1
  <2>3. ~ (n > k)
    BY <1>3, <1>4, <1>5, <1>7 DEF LastSaved
  <2>4. k = n
    BY <1>6, <1>7, <2>2, <2>3
  <2>5. idFile'[p] = t
    BY <1>0, <1>2, <1>6, <1>7 DEF Shape
  <2> QED BY <1>3, <1>5, <1>7, <2>4, <2>5
<1>8. CASE q # p
  <2>1. \A j \in DOMAIN work[q].own : work[q].own[j] # t
    BY <1>3, <1>6, <1>8
  <2>2. LastSaved(q, k)
    BY <1>4, <1>5, <2>1 DEF LastSaved
  <2>3. idFile'[q] = idFile[q]
    BY <1>0, <1>2, <1>8 DEF Shape
  <2> QED BY <1>5, <1>6, <2>2, <2>3 DEF FilesInv
<1> QED BY <1>7, <1>8

LEMMA AnswerFiles ==
  ASSUME ShownInv, StoreInv, FilesInv, NEW p \in Processes, Answer(p)
  PROVE  FilesInv'
<1>0. Shape
  BY DEF ShownInv
<1>1. /\ Became(p, "answered", work[p].runs, work[p].begun, work[p].own, work[p].imports,
                work[p].refs, work[p].ids, work[p].records)
      /\ saved' = saved
  BY <1>0, AnsweredBecame DEF Answer
<1>2. \A q \in Processes : work'[q].cmd = work[q].cmd /\ work'[q].own = work[q].own
  BY <1>0, <1>1, BecameShape DEF Became
<1>3. \A q \in Processes : idFile[q] # None => idFile'[q] = idFile[q]
  BY <1>0 DEF Shape, Answer, Summarize, FileAfterRun
<1> SUFFICES ASSUME NEW q \in Processes, NEW k, work'[q].cmd.op = "run", LastSaved(q, k)'
             PROVE  idFile'[q] = work'[q].own[k]
  BY DEF FilesInv
<1>4. LastSaved(q, k) /\ work[q].cmd.op = "run"
  BY <1>1, <1>2 DEF LastSaved
<1>5. idFile[q] = work[q].own[k]
  BY <1>4 DEF FilesInv
<1>6. work[q].own[k] \in Nat
  BY <1>4, RunOfIs DEF Traces, LastSaved
<1> QED BY <1>2, <1>3, <1>5, <1>6, TablesAreFull

LEMMA NextFiles ==
  ASSUME ShownInv, StoreInv, FilesInv, [Next]_vars
  PROVE  FilesInv'
<1>0. Shape
  BY DEF ShownInv
<1>a. ASSUME NEW p \in Processes, NEW phase, NEW runs, NEW begun, NEW imports, NEW refs,
             NEW ids, NEW records, saved' = saved, idFile' = idFile,
             Became(p, phase, runs, begun, work[p].own, imports, refs, ids, records)
      PROVE  FilesInv'
  <2>1. \A q \in Processes : work'[q].cmd = work[q].cmd /\ work'[q].own = work[q].own
    BY <1>0, <1>a, BecameShape DEF Became
  <2> QED BY <1>a, <2>1, FilesStay
<1>1. CASE UNCHANGED sessionVars
  BY <1>1 DEF sessionVars, FilesInv, LastSaved
<1>2. CASE SessionsNext
  <2>1. ASSUME NEW p \in Processes, BeginRun(p) PROVE FilesInv'
    BY <2>1, BeginFiles
  <2>2. ASSUME NEW p \in Processes, EndRun(p) PROVE FilesInv'
    BY <2>2, EndFiles
  <2>3. ASSUME NEW p \in Processes, LoseRun(p) PROVE FilesInv'
    BY <1>0, <1>a, <2>3, RunLeftBecame DEF LoseRun
  <2>4. ASSUME NEW p \in Processes, Receive(p) PROVE FilesInv'
    <3>1. CASE work[p].cmd.arg = Broken
      BY <1>0, <1>a, <2>4, <3>1, FailBecame DEF Receive
    <3>2. CASE work[p].cmd.arg # Broken
      BY <1>0, <1>a, <2>4, <3>2, ReceivedBecame DEF Receive
    <3> QED BY <3>1, <3>2
  <2>5. ASSUME NEW p \in Processes, SaveImport(p) PROVE FilesInv'
    <3>1. work[p].imports # <<>> /\ idFile' = idFile
          /\ saved' = Save(Dated(Head(work[p].imports)))
      BY <2>5 DEF SaveImport
    <3>2. Became(p, work[p].phase, work[p].runs, work[p].begun,
                 Append(work[p].own, Head(work[p].imports).trace), Tail(work[p].imports),
                 work[p].refs, work[p].ids, work[p].records)
      BY <1>0, <2>5, SavedBecame DEF SaveImport
    <3>3. ~ Traces(p)
      BY <3>1, ImportIs
    <3>4. \A q \in Processes : /\ work'[q].cmd = work[q].cmd
                               /\ Traces(q) => work'[q].own = work[q].own
      BY <1>0, <3>2, <3>3, BecameShape DEF Became
    <3>5. Dated(Head(work[p].imports)).trace \notin Nat
      <4>1. PICK k \in DOMAIN work[p].cmd.arg, now \in Nat :
              /\ work[p].cmd.arg[k].trace \notin Nat
              /\ Head(work[p].imports)
                   = RecordOfTrace(work[p].cmd.arg, work[p].cmd.arg[k].trace, now)
        BY <3>1, ImportIs
      <4> QED BY <4>1, RecordIs
    <3>6. DOMAIN saved' = {Dated(Head(work[p].imports)).trace} \cup DOMAIN saved
      BY <3>1, SaveIs
    <3>7. \A q \in Processes : Traces(q) => \A k \in DOMAIN work[q].own :
            work[q].own[k] \in DOMAIN saved <=> work[q].own[k] \in DOMAIN saved'
      BY <3>5, <3>6, RunOfIs
    <3> QED BY <3>1, <3>4, <3>7, FilesStay
  <2>6. ASSUME NEW p \in Processes, ImportFails(p) PROVE FilesInv'
    BY <1>0, <1>a, <2>6, FailBecame DEF ImportFails
  <2>7. ASSUME NEW p \in Processes, AnswerImport(p) PROVE FilesInv'
    BY <1>0, <1>a, <2>7, AnsweredBecame DEF AnswerImport
  <2>8. ASSUME NEW p \in Processes, Resolve(p) PROVE FilesInv'
    <3>1. saved' = saved /\ idFile' = idFile
      BY <2>8, ResolveCases
    <3>2. CASE Fail(p)
      BY <1>0, <1>a, <3>1, <3>2, FailBecame
    <3>3. CASE work' = [work EXCEPT ![p].runs = <<DemoRun>>]
      BY <1>0, <1>a, <3>1, <3>3, DemoBecame
    <3>4. ASSUME NEW ids, Resolved(p, ids) PROVE FilesInv'
      BY <1>0, <1>a, <3>1, <3>4, ResolvedBecame
    <3> QED BY <2>8, <3>2, <3>3, <3>4, ResolveCases
  <2>9. ASSUME NEW p \in Processes, Load(p) PROVE FilesInv'
    <3>1. saved' = saved /\ idFile' = idFile
      BY <2>9 DEF Load
    <3>2. CASE Fail(p)
      BY <1>0, <1>a, <3>1, <3>2, FailBecame
    <3>3. ASSUME NEW record, work' = [work EXCEPT ![p].records = Append(@, record)]
          PROVE FilesInv'
      BY <1>0, <1>a, <3>1, <3>3, LoadedBecame
    <3> QED BY <2>9, <3>2, <3>3 DEF Load
  <2>10. ASSUME NEW p \in Processes, Answer(p) PROVE FilesInv'
    BY <2>10, AnswerFiles
  <2>11. ASSUME NEW payload \in posted, ReceiveExport(payload) PROVE FilesInv'
    <3>1. DOMAIN saved' = DOMAIN saved /\ work' = work /\ idFile' = idFile
      BY <2>11, ExportStore DEF ReceiveExport
    <3> QED BY <3>1 DEF FilesInv, LastSaved
  <2> QED BY <1>2, <2>1, <2>2, <2>3, <2>4, <2>5, <2>6, <2>7, <2>8, <2>9, <2>10, <2>11
          DEF SessionsNext
<1> QED BY <1>1, <1>2 DEF Next, vars

LEMMA FilesNameOwn ==
  ASSUME ShownInv, StoreInv, FilesInv
  PROVE  FileNamesOwnTrace
<1> SUFFICES ASSUME NEW p \in Processes, Answered(p, "run")
             PROVE  LET own == Selected(work[p].own, LAMBDA id : id \in DOMAIN saved)
                    IN  own # <<>> => idFile[p] = Last(own)
  BY DEF FileNamesOwnTrace
<1>1. Traces(p) /\ work[p].cmd.op = "run"
  BY DEF Answered, Traces
<1>2. PICK s : s = work[p].own /\ s \in Seq(Nat)
  BY <1>1 DEF StoreInv, LeftInv, TracerLeft
<1> DEFINE S == {k \in DOMAIN s : s[k] \in DOMAIN saved}
           N == Cardinality(S)
<1>3. Selected(work[p].own, LAMBDA id : id \in DOMAIN saved) = Picked(s, S)
  BY <1>2 DEF Selected, Places, InOrder, Picked
<1>4. /\ Lists(InOrder(S), S, Smaller) /\ N \in Nat
      /\ Picked(s, S) = [n \in 1..N |-> s[InOrder(S)[n]]]
      /\ Picked(s, S) \in Seq(Nat) /\ Len(Picked(s, S)) = N
  <2>1. s \in Seq(Nat) /\ S \in SUBSET DOMAIN s
    BY <1>2
  <2> HIDE DEF S
  <2> QED BY <2>1, PickedIs
<1> SUFFICES ASSUME Picked(s, S) # <<>> PROVE idFile[p] = Last(Picked(s, S))
  BY <1>3
<1>5. N >= 1
  BY <1>4
<1>6. PICK k : k = InOrder(S)[N]
  OBVIOUS
<1>7. Last(Picked(s, S)) = s[k] /\ N \in 1..N
  <2> HIDE DEF N, S
  <2>1. N \in 1..N
    BY <1>4, <1>5
  <2>2. Last(Picked(s, S)) = Picked(s, S)[N]
    BY <1>4 DEF Last
  <2> QED BY <1>4, <1>6, <2>1, <2>2
<1>8. k \in S /\ \A j \in S : ~ (j > k)
  <2>1. k \in S
    BY <1>4, <1>6, <1>7 DEF Lists
  <2>2. ASSUME NEW j \in S PROVE ~ (j > k)
    <3>1. PICK n \in 1..N : InOrder(S)[n] = j
      BY <1>4 DEF Lists
    <3>2. n = N \/ n < N
      BY <1>4
    <3>3. n < N => <<j, k>> \in Smaller
      BY <1>4, <1>6, <1>7, <3>1 DEF Lists
    <3>4. j \in Int /\ k \in Int
      BY <1>2, <2>1
    <3>5. <<j, k>> \in Smaller => j < k
      BY DEF Smaller
    <3> QED BY <1>6, <3>1, <3>2, <3>3, <3>4, <3>5
  <2> QED BY <2>1, <2>2
<1>9. LastSaved(p, k)
  BY <1>2, <1>8 DEF LastSaved
<1> QED BY <1>1, <1>2, <1>7, <1>9 DEF FilesInv

\* The id file of a script names the last trace that it saved, for any processes,
\* commands and runs: no id is another process's, and what is saved under the ids of a
\* script's runs is saved by their ends, which write the file (main.py:384-439,
\* tracer.py:140-145).
THEOREM FileNamesOwnTraceThm == Spec => []FileNamesOwnTrace
<1>1. Init => FilesInv
  <2>1. ASSUME Init PROVE \A p \in Processes : DOMAIN work[p].own = {}
    <3>1. CASE SessionsInit
      <4>1. PICK k \in DOMAIN Scenarios : \E s \in Scenarios[k] :
              work = [p \in Processes |-> Started(s.commands[p])]
        BY <3>1 DEF SessionsInit
      <4> QED BY <4>1, StartedIs
    <3>2. CASE SessionsRest
      BY <3>2, StartedIs DEF SessionsRest
    <3> QED BY <2>1, <3>1, <3>2 DEF Init
  <2> QED BY <2>1 DEF FilesInv, LastSaved
<1>2. ShownInv /\ StoreInv /\ FilesInv /\ [Next]_vars => FilesInv'
  BY NextFiles
<1>3. ShownInv /\ StoreInv /\ FilesInv => FileNamesOwnTrace
  BY FilesNameOwn
<1> QED BY <1>1, <1>2, <1>3, StoreThm, PTL DEF Spec

----------
(* Deliveries *)

\* What the import keeps of an exported span.
LEMMA StepKept ==
  ASSUME NEW w, NEW now
  PROVE  LET s == StoredSpan(ImportSpan(w, now))
         IN  /\ s.name = w.name /\ s.parent = w.parent /\ s.model = w.model
             /\ s.input = w.input /\ s.output = w.output /\ s.cost = ImportedCost(w)
             /\ s.status = IF w.code = 2 THEN "failure" ELSE "success"
<1> DEFINE i == ImportSpan(w, now)
<1>1. /\ i.name = w.name /\ i.parent = w.parent /\ i.model = w.model
      /\ i.input = w.input /\ i.output = w.output /\ i.cost = ImportedCost(w)
      /\ i.status = IF w.code = 2 THEN "failure" ELSE "success"
      /\ {"name", "parent", "model", "input", "output", "cost", "status"} \subseteq DOMAIN i
  BY DEF ImportSpan
<1>2. \A x : {"name", "parent", "model", "input", "output", "cost", "status"} \subseteq DOMAIN x =>
        /\ StoredSpan(x).name = x.name /\ StoredSpan(x).parent = x.parent
        /\ StoredSpan(x).model = x.model /\ StoredSpan(x).input = x.input
        /\ StoredSpan(x).output = x.output /\ StoredSpan(x).cost = x.cost
        /\ StoredSpan(x).status = x.status
  BY DEF StoredSpan
<1> HIDE DEF i
<1>3. /\ StoredSpan(i).name = i.name /\ StoredSpan(i).parent = i.parent
      /\ StoredSpan(i).model = i.model /\ StoredSpan(i).input = i.input
      /\ StoredSpan(i).output = i.output /\ StoredSpan(i).cost = i.cost
      /\ StoredSpan(i).status = i.status
  BY <1>1, <1>2
<1> QED BY <1>1, <1>3 DEF i

\* The spans of a stored import.
LEMMA ImportedSpans ==
  ASSUME NEW payload, NEW id, NEW now, NEW n \in Nat, NEW w, NEW g,
         RecordOfTrace(payload, id, now) = ImportedRecord(id, g),
         DOMAIN g = 1..n, \A k \in 1..n : g[k] = ImportSpan(w[k], now)
  PROVE  LET spans == StoredRecord(Dated(RecordOfTrace(payload, id, now))).spans
         IN  DOMAIN spans = 1..n /\ \A k \in 1..n : spans[k] = StoredSpan(ImportSpan(w[k], now))
<1> DEFINE record == RecordOfTrace(payload, id, now)
           f == [k \in 1..n |-> StoredSpan(g[k])]
<1>1. Dated(record).spans = g
  BY RecordIs DEF ImportedRecord
<1>2. StoredRecord(Dated(record)).spans = Each(g, StoredSpan)
  <2>1. DOMAIN Dated(record) = {"trace", "created", "spans", "summary"}
    BY RecordIs
  <2> QED BY <1>1, <2>1, StoredIs
<1>3. Len(g) = n
  OBVIOUS
<1>4. Each(g, StoredSpan) = SubSeq(f, 1, n)
  BY <1>3 DEF Each
<1>5. f = [k \in 1..n |-> f[k]] /\ DOMAIN f = 1..n /\ \A k \in 1..n : f[k] = StoredSpan(g[k])
  OBVIOUS
<1> HIDE DEF f, record
<1>6. SubSeq(f, 1, n) = f
  BY <1>5, WholeSubSeq
<1>7. StoredRecord(Dated(record)).spans = f
  BY <1>2, <1>4, <1>6
<1> QED BY <1>5, <1>7 DEF record

\* A request's record has the steps of the request.
LEMMA RequestSteps ==
  ASSUME NEW payload \in Seq(Wires(Foreign)), NEW id, NEW now
  PROVE  LET mine == Selected(payload, LAMBDA w : w.trace = id)
         IN  Steps(mine) = Steps(StoredRecord(Dated(RecordOfTrace(payload, id, now))).spans)
<1> DEFINE mine == Picked(payload, PlacesOf(payload, id))
           spans == StoredRecord(Dated(RecordOfTrace(payload, id, now))).spans
<1>1. /\ RecordOfTrace(payload, id, now) =
           ImportedRecord(id, [n \in 1..Len(mine) |-> ImportSpan(mine[n], now)])
      /\ mine \in Seq(Wires(Foreign)) /\ Selected(payload, LAMBDA w : w.trace = id) = mine
  BY RecordOfTraceIs
<1>2. Len(mine) \in Nat /\ DOMAIN mine = 1..Len(mine)
  BY <1>1
<1>3. /\ DOMAIN spans = 1..Len(mine)
      /\ \A k \in 1..Len(mine) : spans[k] = StoredSpan(ImportSpan(mine[k], now))
  <2> HIDE DEF mine
  <2> DEFINE g == [n \in 1..Len(mine) |-> ImportSpan(mine[n], now)]
  <2>1. RecordOfTrace(payload, id, now) = ImportedRecord(id, g)
    BY <1>1
  <2>2. DOMAIN g = 1..Len(mine) /\ \A k \in 1..Len(mine) : g[k] = ImportSpan(mine[k], now)
    OBVIOUS
  <2> HIDE DEF g
  <2> QED BY <1>2, <2>1, <2>2, ImportedSpans
<1> HIDE DEF mine, spans
<1>4. DOMAIN spans = DOMAIN mine
  BY <1>2, <1>3
<1>5. \A k \in DOMAIN mine :
        /\ spans[k].name = mine[k].name /\ spans[k].parent = mine[k].parent
        /\ spans[k].model = mine[k].model /\ spans[k].input = mine[k].input
        /\ spans[k].output = mine[k].output
  <2>1. \A k \in DOMAIN mine : spans[k] = StoredSpan(ImportSpan(mine[k], now))
    BY <1>2, <1>3
  <2> QED BY <2>1, StepKept
<1>6. Steps(mine) = Steps(spans)
  BY <1>4, <1>5 DEF Steps
<1> QED BY <1>1, <1>6 DEF spans

\* What the export keeps of a span of a run.
LEMMA StepExported ==
  ASSUME NEW run \in Runs, NEW id, NEW k \in 1..Len(run)
  PROVE  LET w == Export(run, id)[k]
             s == Priced(run[k])
         IN  /\ w.name = s.name /\ w.parent = s.parent /\ w.model = s.model
             /\ w.input = s.input /\ w.output = s.output /\ w.cost = OrZero(s.cost)
             /\ w.code = 2 <=> s.error
             /\ s.start = run[k].start
<1> DEFINE s == run[k]
           m == Moved(run, id)[k]
           w == Export(run, id)[k]
           fields == {"name", "parent", "model", "input", "output", "cost", "error", "dur",
                      "energy", "accel", "kind", "start", "end"}
<1>1. s \in Spans /\ fields \subseteq DOMAIN s
  BY AtIs DEF Spans
<1>2. m = [s EXCEPT !.start = @ + id, !.end = IF @ = None THEN None ELSE @ + id]
  BY DEF Moved
<1>3. w = SpanToOtlpDict(id, Priced(m))
  BY ExportIs DEF Concluded
<1> HIDE DEF s, m, w
<1>4. /\ m.name = s.name /\ m.parent = s.parent /\ m.model = s.model /\ m.input = s.input
      /\ m.output = s.output /\ m.cost = s.cost /\ m.error = s.error /\ m.dur = s.dur
      /\ fields \subseteq DOMAIN m
  BY <1>1, <1>2
<1>5. \A x : fields \subseteq DOMAIN x =>
        /\ Priced(x).name = x.name /\ Priced(x).parent = x.parent
        /\ Priced(x).model = x.model /\ Priced(x).input = x.input
        /\ Priced(x).output = x.output /\ Priced(x).error = x.error
        /\ Priced(x).start = x.start
        /\ Priced(x).cost = IF x.cost # None THEN x.cost
                            ELSE CalculateCost(x.model, x.input, x.output, x.dur)
  BY DEF Priced
<1>6. Priced(m).cost = Priced(s).cost
  BY <1>1, <1>4, <1>5
<1>7. s.error \in BOOLEAN
  BY <1>1 DEF Spans
<1> HIDE DEF fields
<1>8. /\ Priced(m).name = Priced(s).name /\ Priced(m).parent = Priced(s).parent
      /\ Priced(m).model = Priced(s).model /\ Priced(m).input = Priced(s).input
      /\ Priced(m).output = Priced(s).output /\ Priced(m).error = s.error
      /\ Priced(s).error = s.error /\ Priced(s).start = s.start
  BY <1>1, <1>4, <1>5
<1>9. /\ w.name = Priced(s).name /\ w.parent = Priced(s).parent /\ w.model = Priced(s).model
      /\ w.input = Priced(s).input /\ w.output = Priced(s).output
      /\ w.cost = OrZero(Priced(s).cost) /\ w.code = IF s.error THEN 2 ELSE 1
  BY <1>3, <1>6, <1>8 DEF SpanToOtlpDict
<1> QED BY <1>7, <1>8, <1>9 DEF s, w

\* What the store holds of a run whose export was received.
LEMMA ExportSteps ==
  ASSUME NEW run \in Runs, NEW id, NEW now \in Nat
  PROVE  LET spans == StoredRecord(Dated(RecordOfTrace(Export(run, id), id, now))).spans
             priced == PricedSpans(run)
         IN  /\ Steps(priced) = Steps(spans)
             /\ priced[1].start = run[1].start
             /\ \A i \in DOMAIN priced :
                  /\ OrZero(priced[i].cost) # 0 => spans[i].cost = priced[i].cost
                  /\ priced[i].error <=> spans[i].status = "failure"
<1> DEFINE spans == StoredRecord(Dated(RecordOfTrace(Export(run, id), id, now))).spans
           priced == PricedSpans(run)
           f == [k \in 1..Len(run) |-> Priced(run[k])]
<1>1. /\ Len(run) \in Nat /\ Len(run) >= 1 /\ DOMAIN run = 1..Len(run)
      /\ \A k \in 1..Len(run) : run[k] \in Spans
  BY AtIs
<1>2. priced = f
  <2>1. priced = SubSeq(f, 1, Len(run))
    BY <1>1 DEF PricedSpans, Each
  <2>2. f = [k \in 1..Len(run) |-> f[k]]
    OBVIOUS
  <2> HIDE DEF f, priced
  <2> QED BY <1>1, <2>1, <2>2, WholeSubSeq
<1>3. RecordOfTrace(Export(run, id), id, now) =
        ImportedRecord(id, [n \in 1..Len(run) |-> ImportSpan(Export(run, id)[n], now)])
  BY ExportReceived
<1>4. /\ DOMAIN spans = 1..Len(run)
      /\ \A k \in 1..Len(run) : spans[k] = StoredSpan(ImportSpan(Export(run, id)[k], now))
  <2> DEFINE g == [n \in 1..Len(run) |-> ImportSpan(Export(run, id)[n], now)]
  <2>1. RecordOfTrace(Export(run, id), id, now) = ImportedRecord(id, g)
    BY <1>3
  <2>2. DOMAIN g = 1..Len(run) /\ \A k \in 1..Len(run) : g[k] = ImportSpan(Export(run, id)[k], now)
    OBVIOUS
  <2> HIDE DEF g
  <2> QED BY <1>1, <2>1, <2>2, ImportedSpans
<1> HIDE DEF spans, priced
<1>5. ASSUME NEW k \in 1..Len(run)
      PROVE  /\ spans[k].name = priced[k].name /\ spans[k].parent = priced[k].parent
             /\ spans[k].model = priced[k].model /\ spans[k].input = priced[k].input
             /\ spans[k].output = priced[k].output
             /\ OrZero(priced[k].cost) # 0 => spans[k].cost = priced[k].cost
             /\ priced[k].error <=> spans[k].status = "failure"
             /\ priced[k].start = run[k].start
  <2> DEFINE w == Export(run, id)[k]
  <2>1. spans[k] = StoredSpan(ImportSpan(w, now)) /\ priced[k] = Priced(run[k])
    BY <1>2, <1>4
  <2>2. /\ w.name = priced[k].name /\ w.parent = priced[k].parent /\ w.model = priced[k].model
        /\ w.input = priced[k].input /\ w.output = priced[k].output
        /\ w.cost = OrZero(priced[k].cost)
        /\ w.code = 2 <=> priced[k].error
        /\ priced[k].start = run[k].start
    BY <2>1, StepExported
  <2> HIDE DEF w
  <2>3. /\ spans[k].name = w.name /\ spans[k].parent = w.parent /\ spans[k].model = w.model
        /\ spans[k].input = w.input /\ spans[k].output = w.output
        /\ spans[k].cost = ImportedCost(w)
        /\ spans[k].status = IF w.code = 2 THEN "failure" ELSE "success"
    BY <2>1, StepKept
  <2>4. OrZero(priced[k].cost) # 0 => OrZero(priced[k].cost) = priced[k].cost
    BY DEF OrZero, Or
  <2>5. OrZero(priced[k].cost) # 0 => spans[k].cost = priced[k].cost
    BY <2>2, <2>3, <2>4 DEF ImportedCost
  <2> QED BY <2>2, <2>3, <2>5
<1>6. DOMAIN spans = 1..Len(run) /\ DOMAIN priced = 1..Len(run)
  BY <1>2, <1>4
<1>7. Steps(priced) = Steps(spans)
  BY <1>5, <1>6 DEF Steps
<1> QED BY <1>1, <1>5, <1>6, <1>7 DEF spans, priced

\* The record of a run that no export has replaced has golden signals.
LEMMA RunIsGolden ==
  ASSUME NEW run \in Runs, NEW id
  PROVE  "golden" \in DOMAIN StoredRecord(Traced(run, id)).summary
<1> DEFINE c == Concluded(run, id)
           agg == Aggregates(c)
           figures == RunFigures(c, PrimaryRoot(c))
<1>1. /\ Traced(run, id).summary = SummaryOf(c, agg, figures)
      /\ DOMAIN Traced(run, id) = {"trace", "created", "spans", "summary"}
  BY TracedIs
<1>2. StoredRecord(Traced(run, id)).summary = SummaryOf(c, agg, figures)
  BY <1>1, StoredIs
<1> HIDE DEF c, agg, figures
<1>3. ASSUME NEW a, NEW r, NEW x, NEW y
      PROVE  "golden" \in DOMAIN Figures(a, r, x, y)
  BY DEF Figures, ++
<1>4. ASSUME NEW s, NEW sum, "golden" \in DOMAIN sum
      PROVE  "golden" \in DOMAIN WithFindings(s, sum)
  BY <1>4 DEF WithFindings, ++
<1>5. "golden" \in DOMAIN SummaryOf(c, agg, figures)
  BY <1>3, <1>4 DEF SummaryOf
<1> QED BY <1>2, <1>5

LEMMA StoredDeliveries ==
  ASSUME ShownInv, StoreInv
  PROVE  StoredIsOneDelivery
<1> SUFFICES ASSUME NEW id \in DOMAIN saved, "golden" \notin DOMAIN saved[id].summary
             PROVE  \/ \E p \in Processes :
                         /\ work[p].cmd.op = "ingest" /\ work[p].cmd.arg # Broken
                         /\ LET mine == Selected(work[p].cmd.arg, LAMBDA w : w.trace = id)
                            IN  Steps(mine) = Steps(saved[id].spans)
                    \/ \E p \in Processes : \E k \in DOMAIN work[p].own :
                         /\ work[p].own[k] = id /\ work[p].cmd.op # "ingest"
                         /\ LET run == PricedSpans(TracedBy(work[p].cmd)[k])
                            IN  /\ Steps(run) = Steps(saved[id].spans)
                                /\ saved[id].created = id + run[1].start
                                /\ \A i \in DOMAIN run :
                                     /\ OrZero(run[i].cost) # 0 =>
                                          saved[id].spans[i].cost = run[i].cost
                                     /\ run[i].error <=> saved[id].spans[i].status = "failure"
  BY DEF StoredIsOneDelivery
<1>1. ~ FromRun(id, saved[id])
  BY RunIsGolden DEF FromRun
<1>2. FromExport(id, saved[id]) \/ FromRequest(id, saved[id])
  BY <1>1 DEF StoreInv, KeptInv
<1>3. CASE FromRequest(id, saved[id])
  <2>1. PICK p \in Processes :
          /\ ~ Traces(p) /\ work[p].cmd.arg # Broken
          /\ \E k \in DOMAIN work[p].cmd.arg, now \in Nat :
               /\ id = work[p].cmd.arg[k].trace
               /\ saved[id] = StoredRecord(Dated(RecordOfTrace(work[p].cmd.arg, id, now)))
    BY <1>3 DEF FromRequest
  <2>2. PICK payload : payload = work[p].cmd.arg
    OBVIOUS
  <2>3. PICK now \in Nat : saved[id] = StoredRecord(Dated(RecordOfTrace(payload, id, now)))
    BY <2>1, <2>2
  <2>4. payload \in Seq(Wires(Foreign))
    BY <2>1, <2>2, PlannedIs
  <2>5. Steps(Selected(payload, LAMBDA w : w.trace = id)) = Steps(saved[id].spans)
    BY <2>3, <2>4, RequestSteps
  <2> QED BY <2>1, <2>2, <2>5, ZenonT(40) DEF Traces
<1>4. CASE FromExport(id, saved[id])
  <2>1. PICK p \in Processes : \E k \in DOMAIN work[p].own, now \in Nat :
          /\ OwnSaved(p, k) /\ work[p].own[k] = id
          /\ saved[id] = StoredRecord(Dated(RecordOfTrace(Export(RunOf(p, k), id), id, now)))
    BY <1>4 DEF FromExport
  <2>2. PICK k \in DOMAIN work[p].own, now \in Nat :
          /\ OwnSaved(p, k) /\ work[p].own[k] = id
          /\ saved[id] = StoredRecord(Dated(RecordOfTrace(Export(RunOf(p, k), id), id, now)))
    BY <2>1
  <2>3. PICK run : run = RunOf(p, k)
    OBVIOUS
  <2>4. Traces(p)
    BY <2>2 DEF OwnSaved
  <2>5. run \in Runs
    BY <2>3, <2>4, RunOfIs
  <2>6. saved[id] = StoredRecord(Dated(RecordOfTrace(Export(run, id), id, now)))
    BY <2>2, <2>3
  <2>7. saved[id].created = id + run[1].start
    BY <2>2, <2>3 DEF StoreInv, CreatedInv
  <2>8. /\ Steps(PricedSpans(run)) = Steps(saved[id].spans)
        /\ PricedSpans(run)[1].start = run[1].start
        /\ \A i \in DOMAIN PricedSpans(run) :
             /\ OrZero(PricedSpans(run)[i].cost) # 0 =>
                  saved[id].spans[i].cost = PricedSpans(run)[i].cost
             /\ PricedSpans(run)[i].error <=> saved[id].spans[i].status = "failure"
    BY <2>5, <2>6, ExportSteps
  <2>9. TracedBy(work[p].cmd)[k] = run
    BY <2>3 DEF RunOf
  <2>10. /\ work[p].own[k] = id /\ work[p].cmd.op # "ingest"
         /\ LET priced == PricedSpans(TracedBy(work[p].cmd)[k])
            IN  /\ Steps(priced) = Steps(saved[id].spans)
                /\ saved[id].created = id + priced[1].start
                /\ \A i \in DOMAIN priced :
                     /\ OrZero(priced[i].cost) # 0 => saved[id].spans[i].cost = priced[i].cost
                     /\ priced[i].error <=> saved[id].spans[i].status = "failure"
    BY <2>2, <2>4, <2>7, <2>8, <2>9 DEF Traces
  <2> QED BY <2>10
<1> QED BY <1>2, <1>3, <1>4

\* Of every trace that came by OTLP the store holds one delivery, whole, and of every
\* traced run its steps, their cost and its failures, also when its export has replaced
\* it, for any processes, payloads and runs: an import, a run and an export never get
\* each other's ids, and a record is made of the spans of one trace of one payload
\* (tracer.py:130-156, server:164-186).
THEOREM StoredIsOneDeliveryThm == Spec => []StoredIsOneDelivery
BY StoreThm, StoredDeliveries, PTL

----------
(* The listing *)

LEMMA EachIsListed ==
  ASSUME NEW S, IsFiniteSet(S)
  PROVE  LET s == SetToSeq(S)
         IN  /\ DOMAIN s = 1..Cardinality(S) /\ Cardinality(S) \in Nat
             /\ \A i, j \in DOMAIN s : s[i] = s[j] => i = j
             /\ \A c \in S : \E i \in DOMAIN s : s[i] = c
<1> DEFINE s == SetToSeq(S)
           N == Cardinality(S)
<1>1. N \in Nat /\ Bijection(1..N, S) # {}
  BY FS_CardinalityType DEF ExistsBijection
<1>2. PICK f \in [1..N -> S] : IsInjective(f)
  BY <1>1 DEF Bijection, Injection
<1>3. s \in [1..N -> S] /\ IsInjective(s)
  BY <1>2 DEF SetToSeq
<1> HIDE DEF s
<1>4. s \in Injection(1..N, S)
  BY <1>3 DEF Injection
<1>5. IsFiniteSet(1..N) /\ Cardinality(1..N) = N
  BY <1>1, FS_Interval
<1>6. s \in Surjection(1..N, S)
  BY <1>4, <1>5, FS_Injection
<1>7. \A c \in S : \E i \in 1..N : s[i] = c
  BY <1>6 DEF Surjection
<1> QED BY <1>1, <1>3, <1>7 DEF IsInjective, s

\* SQLite's listing has each record once, and the newest first.
LEMMA RanksAreNewest ==
  ASSUME IsFiniteSet(DOMAIN saved), \A id \in DOMAIN saved : saved[id].created \in Nat,
         Backend # "jsonl"
  PROVE  /\ NewestFirst # <<>> =>
              /\ NewestFirst[1] \in DOMAIN saved
              /\ \A c \in DOMAIN saved : saved[c].created <= saved[NewestFirst[1]].created
         /\ ~ (Len(NewestFirst) < 2) => NewestFirst[2] \in DOMAIN saved
<1>0. PICK K : K = DOMAIN saved
  OBVIOUS
<1> DEFINE t == SetToSeq(K)
           v == [c \in K |-> saved[c].created]
           w == [c \in K |-> CHOOSE i \in DOMAIN t : t[i] = c]
           R == {x \in K \X K : \/ v[x[1]] > v[x[2]]
                                \/ v[x[1]] = v[x[2]] /\ w[x[1]] < w[x[2]]}
           s == NewestFirst
           Before(c, d) == saved[c].created > saved[d].created \/ Tied(c, d)
<1>1. /\ DOMAIN t = 1..Cardinality(K) /\ Cardinality(K) \in Nat
      /\ \A i, j \in DOMAIN t : t[i] = t[j] => i = j
      /\ \A c \in K : \E i \in DOMAIN t : t[i] = c
  BY <1>0, EachIsListed
<1> HIDE DEF t
<1>2. \A c \in K : v[c] = saved[c].created /\ w[c] \in DOMAIN t /\ t[w[c]] = c
  BY <1>1
<1>3. v \in [K -> Int] /\ w \in [K -> Int]
  BY <1>0, <1>1, <1>2
<1>4. \A j, k \in K : w[j] = w[k] => j = k
  BY <1>2
<1> HIDE DEF v, w
<1>5. Orders(R, K)
  BY <1>3, <1>4, KeysOrder
<1>6. \A c, d \in K : Tied(c, d) <=> v[c] = v[d] /\ w[c] < w[d]
  <2> SUFFICES ASSUME NEW c \in K, NEW d \in K
               PROVE  Tied(c, d) <=> v[c] = v[d] /\ w[c] < w[d]
    OBVIOUS
  <2>1. Tied(c, d) <=> /\ saved[c].created = saved[d].created
                       /\ \E i, j \in DOMAIN t : i < j /\ t[i] = c /\ t[j] = d
    BY <1>0 DEF Tied, t
  <2>2. (\E i, j \in DOMAIN t : i < j /\ t[i] = c /\ t[j] = d) <=> w[c] < w[d]
    BY <1>1, <1>2
  <2> QED BY <1>2, <2>1, <2>2
<1>7. \A j, k \in K : <<j, k>> \in R <=> Before(j, k)
  <2>1. \A j, k \in K : <<j, k>> \in R <=> v[j] > v[k] \/ (v[j] = v[k] /\ w[j] < w[k])
    OBVIOUS
  <2> QED BY <1>2, <1>6, <2>1
<1>8. \A k \in K : Below(K, R, k) = {j \in K : saved[j].created > saved[k].created \/ Tied(j, k)}
  BY <1>7 DEF Below
<1>9. s = [n \in 1..Cardinality(K) |->
             CHOOSE k \in K : Cardinality({j \in K :
                saved[j].created > saved[k].created \/ Tied(j, k)}) = n - 1]
  BY <1>0 DEF NewestFirst, Ranked
<1> HIDE DEF R, s
<1>10. ASSUME NEW n \in 1..Cardinality(K)
       PROVE  s[n] \in K /\ Cardinality(Below(K, R, s[n])) = n - 1
  <2>1. PICK k \in K : Cardinality(Below(K, R, k)) = n - 1
    BY <1>0, <1>5, RanksAreTaken
  <2>2. \E i \in K : Cardinality({j \in K :
                saved[j].created > saved[i].created \/ Tied(j, i)}) = n - 1
    BY <1>8, <2>1
  <2>3. PICK c : c = s[n]
    OBVIOUS
  <2>4. c = CHOOSE i \in K : Cardinality({j \in K :
                saved[j].created > saved[i].created \/ Tied(j, i)}) = n - 1
    BY <1>9, <2>3
  <2>5. c \in K /\ Cardinality({j \in K :
                saved[j].created > saved[c].created \/ Tied(j, c)}) = n - 1
    BY <2>2, <2>4
  <2>6. Cardinality(Below(K, R, c)) = n - 1
    BY <1>8, <2>5
  <2> QED BY <2>3, <2>5, <2>6
<1>11. s = [n \in 1..Cardinality(K) |-> s[n]]
  <2>1. s \in [1..Cardinality(K) -> K]
    BY <1>9, <1>10
  <2> QED BY <2>1
<1>12. Lists(s, K, R)
  BY <1>0, <1>5, <1>10, <1>11, ByRankLists
<1>13. PICK N \in Nat : N = Cardinality(K)
  BY <1>1
<1>14. /\ Len(s) = N /\ \A n \in 1..N : s[n] \in K
       /\ \A m, n \in 1..N : m < n => <<s[m], s[n]>> \in R
       /\ \A c \in K : \E n \in 1..N : s[n] = c
       /\ s = [n \in 1..N |-> s[n]]
  BY <1>12, <1>13 DEF Lists
<1>15. ASSUME NEW c \in K PROVE s[1] \in K /\ v[c] <= v[s[1]]
  <2>1. PICK n \in 1..N : s[n] = c
    BY <1>14
  <2>2. 1 \in 1..N /\ (n = 1 \/ 1 < n)
    OBVIOUS
  <2>3. s[1] \in K
    BY <1>14, <2>2
  <2>4. v[c] \in Int /\ v[s[1]] \in Int
    BY <1>3, <2>3
  <2>5. 1 < n => Before(s[1], c)
    BY <1>7, <1>14, <2>1, <2>2, <2>3
  <2>6. Before(s[1], c) => v[c] <= v[s[1]]
    BY <1>2, <1>6, <2>3, <2>4
  <2> QED BY <2>1, <2>2, <2>3, <2>4, <2>5, <2>6
<1>16. s # <<>> => N >= 1
  BY <1>14
<1>17. s # <<>> => s[1] \in K
  BY <1>14, <1>16
<1>18. ~ (Len(s) < 2) => s[2] \in K
  BY <1>14
<1> QED BY <1>0, <1>2, <1>15, <1>17, <1>18 DEF s

\* The listing of files has no others than those of records.
ListedInv == files \in Seq(DOMAIN saved)

LEMMA NewestIs ==
  ASSUME ListedInv, IsFiniteSet(DOMAIN saved),
         \A id \in DOMAIN saved : saved[id].created \in Nat
  PROVE  /\ NewestFirst # <<>> =>
              /\ NewestFirst[1] \in DOMAIN saved
              /\ Backend # "jsonl" => \A c \in DOMAIN saved :
                                       saved[c].created <= saved[NewestFirst[1]].created
         /\ ~ (Len(NewestFirst) < 2) => NewestFirst[2] \in DOMAIN saved
<1>1. CASE Backend = "jsonl"
  <2>1. NewestFirst = files
    BY <1>1 DEF NewestFirst
  <2>2. /\ files # <<>> => files[1] \in DOMAIN saved
        /\ ~ (Len(files) < 2) => files[2] \in DOMAIN saved
    BY DEF ListedInv
  <2> QED BY <1>1, <2>1, <2>2
<1>2. CASE Backend # "jsonl"
  BY <1>2, RanksAreNewest
<1> QED BY <1>1, <1>2

\* What is listed after a save.
LEMMA ChangedIs ==
  ASSUME ListedInv, NEW record, saved' = Save(record), files' = Changed(record.trace)
  PROVE  ListedInv'
<1>1. PICK K, Q : K = DOMAIN saved /\ Q = DOMAIN saved'
  OBVIOUS
<1>2. K \subseteq Q /\ record.trace \in Q
  BY <1>1, SaveIs
<1>3. files \in Seq(Q)
  <2>1. files \in Seq(K)
    BY <1>1 DEF ListedInv
  <2> QED BY <1>2, <2>1, WiderSeq
<1> DEFINE S == {k \in DOMAIN files : files[k] # record.trace}
<1>4. Selected(files, LAMBDA f : f # record.trace) = Picked(files, S)
  BY DEF Selected, Places, InOrder, Picked
<1>5. Picked(files, S) \in Seq(Q)
  <2>1. S \in SUBSET DOMAIN files
    OBVIOUS
  <2> HIDE DEF S
  <2> QED BY <1>3, <2>1, PickedIs
<1>6. <<record.trace>> \o Picked(files, S) \in Seq(Q)
  <2>1. <<record.trace>> \in Seq(Q)
    BY <1>2
  <2> HIDE DEF S
  <2> QED BY <1>5, <2>1
<1>7. Changed(record.trace) = <<record.trace>> \o Picked(files, S) \/ Changed(record.trace) = files
  BY <1>4 DEF Changed
<1>8. files' \in Seq(Q)
  <2> HIDE DEF S
  <2> QED BY <1>3, <1>6, <1>7
<1> QED BY <1>1, <1>8 DEF ListedInv

\* The runs saved before are listed.
LEMMA InitListed ==
  ASSUME Init
  PROVE  ListedInv
<1>1. CASE SessionsInit
  <2>1. PICK k \in DOMAIN Scenarios : \E s \in Scenarios[k] :
          /\ saved = [i \in DOMAIN s.runs |-> StoredRecord(Traced(s.runs[i], i))]
          /\ files = IF Backend = "jsonl"
                     THEN [i \in DOMAIN s.runs |-> Len(s.runs) + 1 - i] ELSE <<>>
    BY <1>1 DEF SessionsInit
  <2>2. PICK s \in Scenarios[k] :
          /\ DOMAIN saved = DOMAIN s.runs
          /\ files = IF Backend = "jsonl"
                     THEN [i \in DOMAIN s.runs |-> Len(s.runs) + 1 - i] ELSE <<>>
    BY <2>1
  <2>3. PICK n \in Nat : n = Len(s.runs) /\ DOMAIN s.runs = 1..n
    BY ScenariosAreWellFormed
  <2>4. \A i \in 1..n : n + 1 - i \in 1..n
    OBVIOUS
  <2>5. [i \in 1..n |-> n + 1 - i] \in Seq(1..n)
    BY <2>4
  <2>6. files = [i \in 1..n |-> n + 1 - i] \/ files = <<>>
    BY <2>2, <2>3
  <2>7. DOMAIN saved = 1..n /\ <<>> \in Seq(1..n)
    BY <2>2, <2>3
  <2> QED BY <2>5, <2>6, <2>7 DEF ListedInv
<1>2. CASE SessionsRest
  BY <1>2 DEF SessionsRest, ListedInv
<1> QED BY <1>1, <1>2 DEF Init

LEMMA NextListed ==
  ASSUME ListedInv, [Next]_vars
  PROVE  ListedInv'
<1>1. ASSUME UNCHANGED <<saved, files>> PROVE ListedInv'
  BY <1>1 DEF ListedInv
<1>2. CASE UNCHANGED sessionVars
  BY <1>1, <1>2 DEF sessionVars
<1>3. CASE SessionsNext
  <2>1. ASSUME NEW p \in Processes, EndRun(p) PROVE ListedInv'
    BY <2>1, ChangedIs DEF EndRun, Finalize
  <2>2. ASSUME NEW p \in Processes, SaveImport(p) PROVE ListedInv'
    <3>1. PICK record : record = Dated(Head(work[p].imports))
      OBVIOUS
    <3>2. saved' = Save(record) /\ files' = Changed(record.trace)
      BY <2>2, <3>1 DEF SaveImport
    <3> QED BY <3>2, ChangedIs
  <2>3. ASSUME NEW payload \in posted, ReceiveExport(payload) PROVE ListedInv'
    <3>1. PICK record : record = Dated(OtlpPayloadToTraceRecords(payload, clock')[1])
      OBVIOUS
    <3>2. saved' = Save(record) /\ files' = Changed(record.trace)
      BY <2>3, <3>1 DEF ReceiveExport
    <3> QED BY <3>2, ChangedIs
  <2>4. ASSUME NEW p \in Processes,
               \/ BeginRun(p) \/ LoseRun(p) \/ Receive(p) \/ ImportFails(p)
               \/ AnswerImport(p) \/ Resolve(p) \/ Load(p) \/ Answer(p)
        PROVE  UNCHANGED <<saved, files>>
    BY <2>4 DEF BeginRun, LoseRun, Receive, ImportFails, AnswerImport, Resolve, Load, Answer
  <2> QED BY <1>1, <1>3, <2>1, <2>2, <2>3, <2>4 DEF SessionsNext
<1> QED BY <1>2, <1>3 DEF Next, vars

----------
(* The instants of creation *)

\* The i-th span of a payload begins its trace id.
Begins(payload, id, now, i) ==
  /\ Leads(payload, i) /\ payload[i].trace = id
  /\ StoredRecord(Dated(RecordOfTrace(payload, id, now))).created
       = ImportSpan(payload[i], now).start

\* A request's record was created when its trace's first span began.
LEMMA RequestCreated ==
  ASSUME NEW payload \in Seq(Wires(Foreign)), NEW id, NEW now, NEW k \in DOMAIN payload,
         payload[k].trace = id
  PROVE  \E i \in DOMAIN payload : Begins(payload, id, now, i)
<1> DEFINE S == PlacesOf(payload, id)
           mine == Picked(payload, S)
           g == [n \in 1..Len(mine) |-> ImportSpan(mine[n], now)]
           record == RecordOfTrace(payload, id, now)
<1>1. record = ImportedRecord(id, g)
  BY RecordOfTraceIs
<1>2. S \in SUBSET DOMAIN payload /\ k \in S /\ \A j \in DOMAIN payload :
        j \in S <=> payload[j].trace = id
  BY DEF PlacesOf
<1>3. DOMAIN payload \subseteq Int /\ \A i \in DOMAIN payload : 1..(i - 1) \subseteq DOMAIN payload
  OBVIOUS
<1> HIDE DEF S, record
<1>4. PICK N \in Nat : /\ N = Cardinality(S) /\ Lists(InOrder(S), S, Smaller)
                       /\ mine = [n \in 1..N |-> payload[InOrder(S)[n]]] /\ Len(mine) = N
  BY <1>2, PickedIs
<1>5. /\ \A n \in 1..N : InOrder(S)[n] \in S
      /\ \A m, n \in 1..N : m < n => <<InOrder(S)[m], InOrder(S)[n]>> \in Smaller
      /\ \A j \in S : \E n \in 1..N : InOrder(S)[n] = j
  BY <1>4 DEF Lists
<1>6. N >= 1 /\ 1 \in 1..N
  BY <1>2, <1>5
<1>7. PICK i : i = InOrder(S)[1]
  OBVIOUS
<1>8. i \in S /\ i \in DOMAIN payload /\ payload[i].trace = id
  BY <1>2, <1>5, <1>6, <1>7
<1>9. mine[1] = payload[i]
  BY <1>4, <1>6, <1>7
<1>10. Leads(payload, i)
  <2> SUFFICES ASSUME NEW j \in 1..(i - 1), payload[j].trace = id PROVE FALSE
    BY <1>8 DEF Leads
  <2>1. j \in S /\ j \in Int /\ i \in Int /\ j < i
    BY <1>2, <1>3, <1>8
  <2>2. PICK n \in 1..N : InOrder(S)[n] = j
    BY <1>5, <2>1
  <2>3. n = 1 \/ 1 < n
    OBVIOUS
  <2>4. 1 < n => <<i, j>> \in Smaller
    BY <1>5, <1>6, <1>7, <2>2
  <2>5. <<i, j>> \in Smaller => i < j
    BY DEF Smaller
  <2> QED BY <1>7, <2>1, <2>2, <2>3, <2>4, <2>5
<1>11. g[1] = ImportSpan(payload[i], now)
  BY <1>4, <1>6, <1>9
<1> HIDE DEF mine, g
<1>12. /\ Dated(record).created = record.spans[1]. start
       /\ DOMAIN Dated(record) = {"trace", "created", "spans", "summary"}
  BY RecordIs DEF record
<1>13. StoredRecord(Dated(record)).created = record.spans[1].start
  BY <1>12, StoredIs
<1>14. record.spans = g
  BY <1>1 DEF ImportedRecord
<1> QED BY <1>8, <1>10, <1>11, <1>13, <1>14 DEF record, Begins

LEMMA CreatedIsNat ==
  ASSUME ShownInv, StoreInv, NEW id \in DOMAIN saved
  PROVE  saved[id].created \in Nat
<1>1. FromRun(id, saved[id]) \/ FromExport(id, saved[id]) \/ FromRequest(id, saved[id])
  BY DEF StoreInv, KeptInv
<1>2. CASE FromRun(id, saved[id])
  <2>1. PICK run \in Runs : saved[id] = StoredRecord(Traced(run, id)) /\ id \in Nat
    BY <1>2 DEF FromRun
  <2>2. /\ Traced(run, id).created = id + run[1].start
        /\ DOMAIN Traced(run, id) = {"trace", "created", "spans", "summary"}
    BY TracedIs
  <2>3. saved[id].created = id + run[1].start
    BY <2>1, <2>2, StoredIs
  <2>4. run[1].start \in Nat
    <3>1. run[1] \in Spans
      BY AtIs
    <3> QED BY <3>1 DEF Spans
  <2> QED BY <2>1, <2>3, <2>4
<1>3. CASE FromExport(id, saved[id])
  <2>1. PICK p \in Processes : \E k \in DOMAIN work[p].own, now \in Nat :
          /\ OwnSaved(p, k) /\ work[p].own[k] = id
          /\ saved[id] = StoredRecord(Dated(RecordOfTrace(Export(RunOf(p, k), id), id, now)))
    BY <1>3 DEF FromExport
  <2>2. PICK k \in DOMAIN work[p].own : OwnSaved(p, k) /\ work[p].own[k] = id
    BY <2>1
  <2>3. PICK run : run = RunOf(p, k)
    OBVIOUS
  <2>4. run \in Runs /\ id \in Nat
    BY <2>2, <2>3, RunOfIs DEF OwnSaved
  <2>5. saved[id].created = id + run[1].start
    BY <2>2, <2>3 DEF StoreInv, CreatedInv
  <2>6. run[1].start \in Nat
    <3>1. run[1] \in Spans
      BY <2>4, AtIs
    <3> QED BY <3>1 DEF Spans
  <2> QED BY <2>4, <2>5, <2>6
<1>4. CASE FromRequest(id, saved[id])
  <2>1. PICK p \in Processes :
          /\ ~ Traces(p) /\ work[p].cmd.arg # Broken
          /\ \E k \in DOMAIN work[p].cmd.arg, now \in Nat :
               /\ id = work[p].cmd.arg[k].trace
               /\ saved[id] = StoredRecord(Dated(RecordOfTrace(work[p].cmd.arg, id, now)))
    BY <1>4 DEF FromRequest
  <2>2. PICK payload : payload = work[p].cmd.arg
    OBVIOUS
  <2>3. PICK k \in DOMAIN payload, now \in Nat :
          /\ id = payload[k].trace
          /\ saved[id] = StoredRecord(Dated(RecordOfTrace(payload, id, now)))
    BY <2>1, <2>2
  <2>4. payload \in Seq(Wires(Foreign))
    BY <2>1, <2>2, PlannedIs
  <2>5. PICK i \in DOMAIN payload : Begins(payload, id, now, i)
    BY <2>3, <2>4, RequestCreated
  <2>6. payload[i].start \in Nat
    <3>1. payload[i] \in Wires(Foreign)
      BY <2>4
    <3> QED BY <3>1 DEF Wires
  <2>7. ImportSpan(payload[i], now).start \in {payload[i].start, now}
    BY DEF ImportSpan
  <2> QED BY <2>3, <2>5, <2>6, <2>7 DEF Begins
<1> QED BY <1>1, <1>2, <1>3, <1>4

\* The listing may not place id by the instant of its creation, or that may change.
Moves(id) == Backend = "jsonl" \/ Resent(id)

CreatedStays ==
  \A id \in DOMAIN saved :
    id \in DOMAIN saved' /\ (Moves(id) \/ saved'[id].created = saved[id].created)

LEMMA EndCreated ==
  ASSUME ShownInv, StoreInv, NEW p \in Processes, EndRun(p)
  PROVE  CreatedStays
<1>1. PICK t, record : t = work[p].begun /\ record = Traced(Head(work[p].runs), t)
  OBVIOUS
<1>2. work[p].begun # None /\ saved' = Save(record)
  BY <1>1 DEF EndRun, Finalize
<1>3. t \notin DOMAIN saved
  BY <1>1, <1>2, BegunIs DEF TracerLeft
<1>4. record.trace = t
  BY <1>1 DEF Traced, ++
<1>5. SavedAs(t, StoredRecord(record))
  BY <1>2, <1>4, SaveSaves
<1> QED BY <1>3, <1>5 DEF SavedAs, CreatedStays

LEMMA ExportCreates ==
  ASSUME ShownInv, StoreInv, NEW payload \in posted, ReceiveExport(payload)
  PROVE  CreatedStays
<1>1. clock' = clock + 1
      /\ saved' = Save(Dated(OtlpPayloadToTraceRecords(payload, clock')[1]))
  BY DEF ReceiveExport
<1>2. clock' \in Nat
  BY <1>1 DEF StoreInv, IdsInv
<1>3. PICK p \in Processes : \E k \in DOMAIN work[p].own :
        OwnSaved(p, k) /\ payload = Export(RunOf(p, k), work[p].own[k])
  BY DEF StoreInv, PostedInv
<1>4. PICK k \in DOMAIN work[p].own :
        OwnSaved(p, k) /\ payload = Export(RunOf(p, k), work[p].own[k])
  BY <1>3
<1>5. PICK t, run, now : t = work[p].own[k] /\ run = RunOf(p, k) /\ now = clock'
  OBVIOUS
<1>6. run \in Runs /\ t \in Nat /\ t >= 1 /\ t \in DOMAIN saved
  BY <1>4, <1>5, RunOfIs DEF OwnSaved
<1> DEFINE record == StoredRecord(Dated(RecordOfTrace(Export(run, t), t, now)))
<1>7. OtlpPayloadToTraceRecords(payload, clock')[1] = RecordOfTrace(Export(run, t), t, now)
  BY <1>2, <1>4, <1>5, <1>6, ExportReceived
<1>8. /\ Dated(RecordOfTrace(Export(run, t), t, now)).trace = t
      /\ record.created = t + run[1].start
  BY <1>2, <1>5, <1>6, ExportCreated
<1>9. SavedAs(t, record)
  BY <1>1, <1>7, <1>8, SaveSaves
<1>10. saved[t].created = t + run[1].start
  BY <1>4, <1>5 DEF StoreInv, CreatedInv
<1> HIDE DEF record
<1> QED BY <1>6, <1>8, <1>9, <1>10 DEF SavedAs, CreatedStays

LEMMA ImportCreated ==
  ASSUME ShownInv, StoreInv, NEW p \in Processes, SaveImport(p)
  PROVE  CreatedStays
<1>1. work[p].imports # <<>> /\ saved' = Save(Dated(Head(work[p].imports)))
  BY DEF SaveImport
<1>2. PICK asked : asked = work[p].cmd.arg
  OBVIOUS
<1>3. /\ ~ Traces(p) /\ asked # Broken /\ asked \in Seq(Wires(Foreign))
      /\ \E k \in DOMAIN asked, now \in Nat :
           /\ asked[k].trace \notin Nat
           /\ Head(work[p].imports) = RecordOfTrace(asked, asked[k].trace, now)
  BY <1>1, <1>2, ImportIs
<1>4. PICK k \in DOMAIN asked, now \in Nat :
        /\ asked[k].trace \notin Nat
        /\ Head(work[p].imports) = RecordOfTrace(asked, asked[k].trace, now)
  BY <1>3
<1>5. PICK t : t = asked[k].trace
  OBVIOUS
<1> DEFINE record == StoredRecord(Dated(RecordOfTrace(asked, t, now)))
<1>6. Dated(RecordOfTrace(asked, t, now)).trace = t
  BY RecordIs
<1>7. SavedAs(t, record)
  BY <1>1, <1>4, <1>5, <1>6, SaveSaves
<1>8. ASSUME t \in DOMAIN saved, ~ Resent(t) PROVE record.created = saved[t].created
  <2>1. ~ FromRun(t, saved[t])
    BY <1>4, <1>5 DEF FromRun
  <2>2. ~ FromExport(t, saved[t])
    <3> SUFFICES ASSUME FromExport(t, saved[t]) PROVE FALSE
      OBVIOUS
    <3>1. PICK q \in Processes : \E j \in DOMAIN work[q].own :
            OwnSaved(q, j) /\ work[q].own[j] = t
      BY DEF FromExport
    <3>2. PICK j \in DOMAIN work[q].own : OwnSaved(q, j) /\ work[q].own[j] = t
      BY <3>1
    <3>3. t \in Nat
      BY <3>2, RunOfIs DEF OwnSaved
    <3> QED BY <1>4, <1>5, <3>3
  <2>3. FromRequest(t, saved[t])
    BY <1>8, <2>1, <2>2 DEF StoreInv, KeptInv
  <2>4. PICK q \in Processes :
          /\ ~ Traces(q) /\ work[q].cmd.arg # Broken
          /\ \E j \in DOMAIN work[q].cmd.arg, then \in Nat :
               /\ t = work[q].cmd.arg[j].trace
               /\ saved[t] = StoredRecord(Dated(RecordOfTrace(work[q].cmd.arg, t, then)))
    BY <2>3 DEF FromRequest
  <2>5. PICK came : came = work[q].cmd.arg
    OBVIOUS
  <2>6. PICK j \in DOMAIN came, then \in Nat :
          /\ t = came[j].trace
          /\ saved[t] = StoredRecord(Dated(RecordOfTrace(came, t, then)))
    BY <2>4, <2>5
  <2>7. came \in Seq(Wires(Foreign))
    BY <2>4, <2>5, PlannedIs
  <2>8. PICK a \in DOMAIN asked : Begins(asked, t, now, a)
    BY <1>3, <1>5, RequestCreated
  <2>9. PICK b \in DOMAIN came : Begins(came, t, then, b)
    BY <2>6, <2>7, RequestCreated
  <2> DEFINE R == {r \in Processes : work[r].cmd.op = "ingest" /\ work[r].cmd.arg # Broken}
  <2>10. p \in R /\ q \in R
    BY <1>2, <1>3, <2>4 DEF Traces
  <2>11. Timed(asked[a]) /\ Timed(came[b]) /\ asked[a].start = came[b].start
    <3>1. /\ Leads(asked, a) /\ asked[a].trace = t
          /\ Leads(came, b) /\ came[b].trace = t
      BY <2>8, <2>9 DEF Begins
    <3>2. Timed(asked[a]) /\ asked[a].start = came[b].start
      BY <1>2, <1>8, <2>5, <2>8, <2>9, <2>10, <3>1 DEF Resent
    <3>3. Timed(came[b])
      BY <1>2, <1>8, <2>5, <2>8, <2>9, <2>10, <3>1 DEF Resent
    <3> QED BY <3>2, <3>3
  <2>12. /\ ImportSpan(asked[a], now).start = asked[a].start
         /\ ImportSpan(came[b], then).start = came[b].start
    BY <2>11 DEF ImportSpan
  <2> QED BY <2>6, <2>8, <2>9, <2>11, <2>12 DEF Begins
<1> HIDE DEF record
<1> QED BY <1>7, <1>8 DEF SavedAs, CreatedStays, Moves

\* No trace changes the instant of its creation, unless it is sent again with another.
LEMMA NextCreated ==
  ASSUME ShownInv, StoreInv, SessionsNext
  PROVE  CreatedStays
<1>0. saved' = saved => CreatedStays
  BY DEF CreatedStays
<1>1. ASSUME NEW p \in Processes, Resolve(p) PROVE saved' = saved
  BY <1>1, ResolveCases
<1>2. ASSUME NEW p \in Processes, \/ BeginRun(p) \/ LoseRun(p) \/ Receive(p) \/ ImportFails(p)
                                  \/ AnswerImport(p) \/ Load(p) \/ Answer(p)
      PROVE  saved' = saved
  BY <1>2 DEF BeginRun, LoseRun, Receive, ImportFails, AnswerImport, Load, Answer
<1> QED BY <1>0, <1>1, <1>2, EndCreated, ImportCreated, ExportCreates DEF SessionsNext

----------
(* Comparisons *)

\* What has become of a comparison: nothing yet, one reference resolved, or both, and
\* some of the records read.  The ids in R may have moved.
Unresolved(w, store) ==
  /\ w.phase # "answered" /\ w.ids = <<>> /\ w.records = <<>>
  /\ \E ref : w.refs = <<ref, Latest>> /\ (ref = Previous \/ ref \in Nat \cap DOMAIN store)

HalfResolved(w, store) ==
  /\ w.phase # "answered" /\ w.records = <<>> /\ w.refs = <<Latest>>
  /\ \E c \in DOMAIN store : w.ids = <<c>>

InTurn(w, store, R, c, d) ==
  /\ w.ids = <<c, d>> /\ w.refs = <<>>
  /\ c \in R \/ d \in R \/ store[c].created <= store[d].created
  /\ \/ w.phase # "answered" /\ w.records = <<>>
     \/ w.phase # "answered" /\ \E a : /\ w.records = <<a>>
                                       /\ c \in R \/ a.created = store[c].created
     \/ \E a, b : /\ w.records = <<a, b>>
                  /\ c \in R \/ a.created = store[c].created
                  /\ d \in R \/ b.created = store[d].created

Compares(w, store, R) ==
  \/ Unresolved(w, store) \/ HalfResolved(w, store)
  \/ \E c, d \in DOMAIN store : InTurn(w, store, R, c, d)

Movers == {id \in DOMAIN saved : Moves(id)}

CompareInv ==
  \A p \in Processes : work[p].cmd.op = "compare" => Compares(work[p], saved, Movers)

\* Later records do not change what a comparison has done.
\* How a step changes what is left of a command from w to v: not what it looks up, or it
\* resolves a reference to ids, or it reads a record.
Rests(w, v) ==
  /\ v.ids = w.ids /\ v.refs = w.refs /\ v.records = w.records
  /\ v.phase = w.phase \/ v.phase # "answered"

LooksUp(w, v, ids) ==
  /\ w.refs # <<>> /\ v.ids = w.ids \o ids /\ v.refs = Tail(w.refs)
  /\ v.records = w.records /\ v.phase = w.phase

Reads(w, v, record) ==
  /\ w.refs = <<>> /\ Len(w.records) < Len(w.ids) /\ w.phase # "answered"
  /\ v.ids = w.ids /\ v.refs = w.refs /\ v.phase = w.phase
  /\ v.records = Append(w.records, record)

LEMMA ComparesStays ==
  ASSUME NEW w, NEW v, NEW store, NEW more, NEW R, NEW Q, Compares(w, store, R),
         R \subseteq Q,
         \A id \in DOMAIN store :
           id \in DOMAIN more /\ (id \in Q \/ more[id].created = store[id].created),
         Rests(w, v)
  PROVE  Compares(v, more, Q)
<1>1. CASE Unresolved(w, store)
  BY <1>1 DEF Compares, Unresolved, Rests
<1>2. CASE HalfResolved(w, store)
  BY <1>2 DEF Compares, HalfResolved, Rests
<1>3. ASSUME NEW c \in DOMAIN store, NEW d \in DOMAIN store, InTurn(w, store, R, c, d)
      PROVE  Compares(v, more, Q)
  <2>1. /\ c \in DOMAIN more /\ (c \in Q \/ more[c].created = store[c].created)
        /\ d \in DOMAIN more /\ (d \in Q \/ more[d].created = store[d].created)
        /\ (c \in R => c \in Q) /\ (d \in R => d \in Q)
    OBVIOUS
  <2>2. c \in Q \/ d \in Q \/ more[c].created <= more[d].created
    BY <1>3, <2>1 DEF InTurn
  <2>3. InTurn(v, more, Q, c, d)
    BY <1>3, <2>1, <2>2 DEF InTurn, Rests
  <2> QED BY <2>1, <2>3 DEF Compares
<1> QED BY <1>1, <1>2, <1>3 DEF Compares

LEMMA PairIs ==
  ASSUME NEW c, NEW d
  PROVE  <<c>> \o <<d>> = <<c, d>> /\ Append(<<c>>, d) = <<c, d>>
<1>1. PICK s, t, u : s = <<c>> /\ t = <<d>> /\ u = <<c, d>>
  OBVIOUS
<1>2. Len(s) = 1 /\ Len(t) = 1 /\ s[1] = c /\ t[1] = d
  BY <1>1
<1>3. s \o t = [i \in 1..2 |-> IF i <= 1 THEN s[i] ELSE t[i - 1]]
  BY <1>1, <1>2
<1>4. Append(s, d) = [i \in 1..2 |-> IF i = 2 THEN d ELSE s[i]]
  BY <1>1, <1>2
<1>5. u = [i \in 1..2 |-> u[i]] /\ u[1] = c /\ u[2] = d
  BY <1>1
<1>6. s \o t = u
  BY <1>2, <1>3, <1>5
<1>7. Append(s, d) = u
  BY <1>2, <1>4, <1>5
<1> QED BY <1>1, <1>6, <1>7

LEMMA ResolvesFirst ==
  ASSUME NEW w, NEW v, NEW store, NEW R, NEW c \in DOMAIN store, Unresolved(w, store),
         LooksUp(w, v, <<c>>)
  PROVE  Compares(v, store, R)
<1>1. v.ids = <<c>> /\ v.refs = <<Latest>>
  BY DEF Unresolved, LooksUp
<1> QED BY <1>1 DEF Compares, HalfResolved, Unresolved, LooksUp

LEMMA ResolvesSecond ==
  ASSUME NEW w, NEW v, NEW store, NEW R, NEW d \in DOMAIN store, HalfResolved(w, store),
         \A c \in DOMAIN store : c \in R \/ store[c].created <= store[d].created,
         LooksUp(w, v, <<d>>)
  PROVE  Compares(v, store, R)
<1>1. PICK c \in DOMAIN store : w.ids = <<c>>
  BY DEF HalfResolved, LooksUp
<1>2. v.ids = <<c, d>> /\ v.refs = <<>>
  <2>1. <<c>> \o <<d>> = <<c, d>>
    BY PairIs
  <2>2. Tail(<<Latest>>) = <<>>
    OBVIOUS
  <2> QED BY <1>1, <2>1, <2>2 DEF HalfResolved, LooksUp
<1>3. InTurn(v, store, R, c, d)
  BY <1>1, <1>2 DEF InTurn, LooksUp, HalfResolved
<1> QED BY <1>3 DEF Compares

LEMMA ReadsNext ==
  ASSUME NEW w, NEW v, NEW store, NEW R, Compares(w, store, R),
         Reads(w, v, store[w.ids[Len(w.records) + 1]])
  PROVE  Compares(v, store, R)
<1>1. <<Latest>> # <<>> /\ \A ref : <<ref, Latest>> # <<>>
  OBVIOUS
<1>2. PICK c \in DOMAIN store, d \in DOMAIN store : InTurn(w, store, R, c, d)
  BY <1>1 DEF Compares, Unresolved, HalfResolved, Reads
<1>3. Len(w.records) < 2 /\ w.ids[1] = c /\ w.ids[2] = d
  BY <1>2 DEF InTurn, Reads
<1>4. CASE w.records = <<>>
  <2>1. v.records = <<store[c]>>
    BY <1>3, <1>4 DEF Reads
  <2>2. InTurn(v, store, R, c, d)
    BY <1>2, <2>1 DEF InTurn, Reads
  <2> QED BY <2>2 DEF Compares
<1>5. ASSUME NEW a, w.records = <<a>>, (c \in R \/ a.created = store[c].created)
      PROVE  Compares(v, store, R)
  <2>1. v.records = <<a, store[d]>>
    <3>1. Len(<<a>>) + 1 = 2
      OBVIOUS
    <3>2. v.records = Append(<<a>>, store[d])
      BY <1>3, <1>5, <3>1 DEF Reads
    <3>3. Append(<<a>>, store[d]) = <<a, store[d]>>
      BY PairIs
    <3> QED BY <3>2, <3>3
  <2>2. InTurn(v, store, R, c, d)
    BY <1>2, <1>5, <2>1 DEF InTurn, Reads
  <2> QED BY <2>2 DEF Compares
<1>6. \A a, b : w.records # <<a, b>>
  BY <1>3 DEF Reads
<1> QED BY <1>2, <1>4, <1>5, <1>6 DEF InTurn, Reads

LEMMA AnswersAll ==
  ASSUME NEW w, NEW v, NEW store, NEW R, Compares(w, store, R), w.refs = <<>>,
         Len(w.records) = Len(w.ids),
         v.ids = w.ids, v.refs = w.refs, v.records = w.records
  PROVE  Compares(v, store, R)
<1>1. <<Latest>> # <<>> /\ \A ref : <<ref, Latest>> # <<>>
  OBVIOUS
<1>2. PICK c \in DOMAIN store, d \in DOMAIN store : InTurn(w, store, R, c, d)
  BY <1>1 DEF Compares, Unresolved, HalfResolved
<1>3. Len(w.records) = 2
  BY <1>2 DEF InTurn
<1>4. w.records # <<>> /\ \A a : w.records # <<a>>
  <2>1. ASSUME w.records = <<>> PROVE FALSE
    <3>1. Len(<<>>) = 2
      BY <1>3, <2>1
    <3>2. Len(<<>>) = 0
      OBVIOUS
    <3> QED BY <3>1, <3>2
  <2>2. ASSUME NEW a, w.records = <<a>> PROVE FALSE
    <3>1. Len(<<a>>) = 2
      BY <1>3, <2>2
    <3>2. Len(<<a>>) = 1
      OBVIOUS
    <3> QED BY <3>1, <3>2
  <2> QED BY <2>1, <2>2
<1>5. InTurn(v, store, R, c, d)
  BY <1>2, <1>4 DEF InTurn
<1> QED BY <1>5 DEF Compares

LEMMA InitCompares ==
  ASSUME Init
  PROVE  CompareInv
<1> SUFFICES ASSUME NEW p \in Processes, work[p].cmd.op = "compare"
             PROVE  Compares(work[p], saved, Movers)
  BY DEF CompareInv
<1>1. CASE SessionsInit
  <2>1. PICK k \in DOMAIN Scenarios : \E s \in Scenarios[k] :
          /\ saved = [i \in DOMAIN s.runs |-> StoredRecord(Traced(s.runs[i], i))]
          /\ work = [q \in Processes |-> Started(s.commands[q])]
    BY <1>1 DEF SessionsInit
  <2>2. PICK s \in Scenarios[k] :
          DOMAIN saved = DOMAIN s.runs /\ work[p] = Started(s.commands[p])
    BY <2>1
  <2>3. PICK c : c = s.commands[p] /\ work[p] = Started(c) /\ c.op = "compare"
    BY <2>2, StartedIs
  <2>4. WellFormed(c, s.runs) /\ DOMAIN s.runs \subseteq Nat
    BY <2>3, ScenariosAreWellFormed
  <2>5. PICK id \in (DOMAIN s.runs) \cup {Previous} : c.refs = <<id, Latest>>
    BY <2>3, <2>4 DEF WellFormed
  <2>6. id = Previous \/ id \in Nat \cap DOMAIN saved
    BY <2>2, <2>4
  <2>7. Unresolved(Started(c), saved)
    BY <2>5, <2>6, StartedIs, StartedIsWork DEF Unresolved
  <2> QED BY <2>3, <2>7 DEF Compares
<1>2. CASE SessionsRest
  BY <1>2, StartedIs DEF SessionsRest, NoCommand
<1> QED BY <1>1, <1>2 DEF Init

LEMMA LookupSteps ==
  ASSUME ShownInv, SessionsNext, NEW p \in Processes
  PROVE  /\ work'[p].cmd = work[p].cmd
         /\ \/ Rests(work[p], work'[p]) /\ shown'[p] = shown[p]
            \/ work[p].cmd.op = "ingest"
            \/ /\ saved' = saved /\ shown' = shown
               /\ \E ids : LooksUp(work[p], work'[p], ids) /\ StandsFor(p, ids)
            \/ \E id \in DOMAIN saved :
                 /\ id = work[p].ids[Len(work[p].records) + 1]
                 /\ Reads(work[p], work'[p], saved[id]) /\ saved' = saved /\ shown' = shown
            \/ /\ Answer(p) /\ work'[p].ids = work[p].ids
               /\ work'[p].refs = work[p].refs /\ work'[p].records = work[p].records
<1>0. Shape
  BY DEF ShownInv
<1> DEFINE Still ==
      /\ work'[p].cmd = work[p].cmd
      /\ Rests(work[p], work'[p]) /\ shown'[p] = shown[p]
<1>a. ASSUME NEW q \in Processes, NEW phase, NEW runs, NEW begun, NEW own, NEW imports,
             phase = work[q].phase \/ phase # "answered", shown' = shown,
             Became(q, phase, runs, begun, own, imports, work[q].refs, work[q].ids,
                    work[q].records)
      PROVE  Still
  <2>1. CASE q = p
    BY <1>a, <2>1 DEF Became, Rests
  <2>2. CASE q # p
    BY <1>a, <2>2 DEF Became, Rests
  <2> QED BY <2>1, <2>2
<1>b. ASSUME NEW q \in Processes, q # p, NEW phase, NEW runs, NEW begun, NEW own,
             NEW imports, NEW refs, NEW ids, NEW records, shown'[p] = shown[p],
             Became(q, phase, runs, begun, own, imports, refs, ids, records)
      PROVE  Still
  BY <1>b DEF Became, Rests
<1>c. ASSUME NEW q \in Processes, Fail(q), shown' = shown PROVE Still
  <2>1. PICK phase, none : phase = "failed" /\ none = <<>>
    OBVIOUS
  <2>2. Became(q, phase, work[q].runs, work[q].begun, work[q].own, none, work[q].refs,
               work[q].ids, work[q].records)
    BY <1>0, <1>c, <2>1, FailBecame
  <2>3. phase # "answered"
    BY <2>1
  <2> QED BY <1>a, <1>c, <2>2, <2>3
<1>1. ASSUME NEW q \in Processes, BeginRun(q) PROVE Still
  <2>1. shown' = shown
    BY <1>1 DEF BeginRun
  <2> QED BY <1>0, <1>1, <1>a, <2>1, BeginRunBecame
<1>2. ASSUME NEW q \in Processes, EndRun(q) \/ LoseRun(q) PROVE Still
  BY <1>0, <1>2, <1>a, RunLeftBecame DEF EndRun, LoseRun
<1>3. ASSUME NEW q \in Processes, Receive(q) PROVE Still
  <2>1. CASE work[q].cmd.arg = Broken
    BY <1>3, <1>c, <2>1 DEF Receive
  <2>2. CASE work[q].cmd.arg # Broken
    BY <1>0, <1>3, <1>a, <2>2, ReceivedBecame DEF Receive
  <2> QED BY <2>1, <2>2
<1>4. ASSUME NEW q \in Processes, SaveImport(q) PROVE Still
  BY <1>0, <1>4, <1>a, SavedBecame DEF SaveImport
<1>5. ASSUME NEW q \in Processes, ImportFails(q) PROVE Still
  BY <1>5, <1>c DEF ImportFails
<1>6. ASSUME NEW q \in Processes, AnswerImport(q)
      PROVE  work'[p].cmd = work[p].cmd /\ (work[p].cmd.op = "ingest" \/ Still)
  <2>1. Became(q, "answered", work[q].runs, work[q].begun, work[q].own, work[q].imports,
               work[q].refs, work[q].ids, work[q].records)
    BY <1>0, <1>6, AnsweredBecame DEF AnswerImport
  <2>2. CASE q = p
    BY <1>6, <2>1, <2>2 DEF AnswerImport, ShownInv, Shows, Became
  <2>3. CASE q # p
    <3>1. shown'[p] = shown[p]
      BY <1>0, <1>6, <2>3 DEF AnswerImport, Shape
    <3> QED BY <1>b, <2>1, <2>3, <3>1
  <2> QED BY <2>2, <2>3
<1>7. ASSUME NEW q \in Processes, Resolve(q)
      PROVE  \/ Still
             \/ /\ work'[p].cmd = work[p].cmd
                /\ saved' = saved /\ shown' = shown
                /\ \E ids : LooksUp(work[p], work'[p], ids) /\ StandsFor(p, ids)
  <2>1. saved' = saved /\ shown' = shown /\ work[q].refs # <<>>
    BY <1>7, ResolveCases
  <2>2. CASE Fail(q)
    BY <1>c, <2>1, <2>2
  <2>3. CASE work' = [work EXCEPT ![q].runs = <<DemoRun>>]
    BY <1>0, <1>a, <2>1, <2>3, DemoBecame
  <2>4. ASSUME NEW ids, Resolved(q, ids)
        PROVE  \/ Still
               \/ q = p /\ work'[p].cmd = work[p].cmd /\ LooksUp(work[p], work'[p], ids)
    <3>1. Became(q, work[q].phase, work[q].runs, work[q].begun, work[q].own,
                 work[q].imports, Tail(work[q].refs), work[q].ids \o ids, work[q].records)
      BY <1>0, <2>4, ResolvedBecame
    <3>2. CASE q = p
      BY <2>1, <3>1, <3>2 DEF Became, LooksUp
    <3>3. CASE q # p
      <4>1. shown'[p] = shown[p]
        BY <2>1
      <4> QED BY <1>b, <3>1, <3>3, <4>1
    <3> QED BY <3>2, <3>3
  <2> HIDE DEF Still
  <2> QED BY <1>7, <2>1, <2>2, <2>3, <2>4, ResolveCases
<1>8. ASSUME NEW q \in Processes, Load(q)
      PROVE  \/ Still
             \/ /\ work'[p].cmd = work[p].cmd
                /\ \E id \in DOMAIN saved :
                     /\ id = work[p].ids[Len(work[p].records) + 1]
                     /\ Reads(work[p], work'[p], saved[id]) /\ saved' = saved /\ shown' = shown
  <2>1. saved' = saved /\ shown' = shown /\ shown'[p] = shown[p]
    BY <1>8 DEF Load
  <2>2. CASE Fail(q)
    BY <1>c, <2>1, <2>2
  <2>3. ASSUME NEW id \in DOMAIN saved, id = work[q].ids[Len(work[q].records) + 1],
               work' = [work EXCEPT ![q].records = Append(@, saved[id])]
        PROVE  \/ Still
               \/ q = p /\ work'[p].cmd = work[p].cmd /\ Reads(work[p], work'[p], saved[id])
    <3>1. Became(q, work[q].phase, work[q].runs, work[q].begun, work[q].own,
                 work[q].imports, work[q].refs, work[q].ids,
                 Append(work[q].records, saved[id]))
      BY <1>0, <2>3, LoadedBecame
    <3>2. CASE q = p
      BY <1>8, <3>1, <3>2 DEF Became, Reads, Load, Working
    <3>3. CASE q # p
      BY <1>b, <2>1, <3>1, <3>3
    <3> QED BY <3>2, <3>3
  <2> HIDE DEF Still
  <2> QED BY <1>8, <2>1, <2>2, <2>3 DEF Load
<1>9. ASSUME NEW q \in Processes, Answer(q)
      PROVE  \/ Still
             \/ /\ Answer(p) /\ work'[p].cmd = work[p].cmd /\ work'[p].ids = work[p].ids
                /\ work'[p].refs = work[p].refs /\ work'[p].records = work[p].records
  <2>1. Became(q, "answered", work[q].runs, work[q].begun, work[q].own, work[q].imports,
               work[q].refs, work[q].ids, work[q].records)
    BY <1>0, <1>9, AnsweredBecame DEF Answer
  <2>2. CASE q = p
    BY <1>9, <2>1, <2>2 DEF Became
  <2>3. CASE q # p
    <3>1. shown'[p] = shown[p]
      BY <1>0, <1>9, <2>3 DEF Answer, Summarize, Shape
    <3> QED BY <1>b, <2>1, <2>3, <3>1
  <2> QED BY <2>2, <2>3
<1>10. ASSUME NEW payload \in posted, ReceiveExport(payload) PROVE Still
  BY <1>10 DEF ReceiveExport, Rests
<1> QED BY <1>1, <1>2, <1>3, <1>4, <1>5, <1>6, <1>7, <1>8, <1>9, <1>10 DEF SessionsNext

LEMMA ResolveCompares ==
  ASSUME ShownInv, StoreInv, ListedInv, NEW p \in Processes, NEW w, NEW v, w = work[p],
         Compares(w, saved, Movers), NEW ids, LooksUp(w, v, ids), StandsFor(p, ids)
  PROVE  Compares(v, saved, Movers)
<1>2. /\ NewestFirst # <<>> =>
           /\ NewestFirst[1] \in DOMAIN saved
           /\ \A c \in DOMAIN saved :
                c \in Movers \/ saved[c].created <= saved[NewestFirst[1]].created
      /\ ~ (Len(NewestFirst) < 2) => NewestFirst[2] \in DOMAIN saved
  <2>1. IsFiniteSet(DOMAIN saved) /\ \A id \in DOMAIN saved : saved[id].created \in Nat
    BY CreatedIsNat DEF StoreInv, IdsInv
  <2>2. Backend = "jsonl" => \A c \in DOMAIN saved : c \in Movers
    BY DEF Movers, Moves
  <2> QED BY <2>1, <2>2, NewestIs
<1>3. CASE Unresolved(w, saved)
  <2>1. PICK ref : /\ w.refs = <<ref, Latest>>
                   /\ ref = Previous \/ ref \in Nat \cap DOMAIN saved
    BY <1>3 DEF Unresolved
  <2>2. Head(w.refs) = ref
    BY <2>1
  <2>3. PICK c \in DOMAIN saved : ids = <<c>>
    <3>1. CASE ref = Previous
      BY <1>2, <2>2, <3>1 DEF StandsFor
    <3>2. CASE ref \in Nat \cap DOMAIN saved
      <4>1. ref \notin Aliases
        BY <3>2, ReferencesAreNoIds DEF Aliases
      <4> QED BY <2>2, <3>2, <4>1 DEF StandsFor
    <3> QED BY <2>1, <3>1, <3>2
  <2> QED BY <1>3, <2>3, ResolvesFirst
<1>4. CASE HalfResolved(w, saved)
  <2>1. Head(w.refs) = Latest
    BY <1>4 DEF HalfResolved
  <2>2. PICK d \in DOMAIN saved :
          /\ ids = <<d>>
          /\ \A c \in DOMAIN saved : c \in Movers \/ saved[c].created <= saved[d].created
    BY <1>2, <2>1 DEF StandsFor
  <2> QED BY <1>4, <2>2, ResolvesSecond
<1>5. ~ \E c, d \in DOMAIN saved : InTurn(w, saved, Movers, c, d)
  BY DEF InTurn, LooksUp
<1> QED BY <1>3, <1>4, <1>5 DEF Compares

LEMMA MoversStay ==
  ASSUME \A r \in Processes : work'[r].cmd = work[r].cmd, DOMAIN saved \subseteq DOMAIN saved'
  PROVE  /\ Movers \subseteq Movers'
         /\ \A id \in DOMAIN saved : Moves(id) => id \in Movers'
         /\ saved' = saved => Movers' = Movers
<1>1. {r \in Processes : work'[r].cmd.op = "ingest" /\ work'[r].cmd.arg # Broken}
        = {r \in Processes : work[r].cmd.op = "ingest" /\ work[r].cmd.arg # Broken}
  OBVIOUS
<1>2. ASSUME NEW id PROVE Resent(id)' <=> Resent(id)
  <2>1. PICK R : R = {r \in Processes : work[r].cmd.op = "ingest" /\ work[r].cmd.arg # Broken}
    OBVIOUS
  <2>2. \A r \in R : work'[r].cmd.arg = work[r].cmd.arg
    BY <2>1
  <2> DEFINE Differs(came, again) ==
        \E i \in DOMAIN came, j \in DOMAIN again :
          /\ Leads(came, i) /\ Leads(again, j) /\ came[i].trace = id /\ again[j].trace = id
          /\ ~ (Timed(came[i]) /\ came[i].start = again[j].start)
  <2>3. Resent(id) <=> \E p, q \in R : Differs(work[p].cmd.arg, work[q].cmd.arg)
    BY <2>1 DEF Resent
  <2>4. Resent(id)' <=> \E p, q \in R : Differs(work'[p].cmd.arg, work'[q].cmd.arg)
    BY <1>1, <2>1 DEF Resent
  <2> HIDE DEF Differs
  <2> QED BY <2>2, <2>3, <2>4
<1>3. ASSUME NEW id PROVE Moves(id)' <=> Moves(id)
  BY <1>2 DEF Moves
<1> QED BY <1>3 DEF Movers

LEMMA NextCompares ==
  ASSUME ShownInv, StoreInv, ListedInv, CompareInv, [Next]_vars
  PROVE  CompareInv'
<1>1. CASE UNCHANGED sessionVars
  <2>1. Movers' = Movers
    BY <1>1, MoversStay DEF sessionVars
  <2> QED BY <1>1, <2>1 DEF sessionVars, CompareInv
<1>2. CASE SessionsNext
  <2>0. \A r \in Processes : work'[r].cmd = work[r].cmd
    BY <1>2, LookupSteps
  <2> SUFFICES ASSUME NEW p \in Processes, work'[p].cmd.op = "compare"
               PROVE  Compares(work'[p], saved', Movers')
    BY DEF CompareInv
  <2>1. PICK w, v, store, more, R, Q :
          /\ w = work[p] /\ v = work'[p] /\ store = saved /\ more = saved'
          /\ R = Movers /\ Q = Movers'
    OBVIOUS
  <2>2. v.cmd = w.cmd
    BY <2>0, <2>1
  <2>3. CreatedStays
    BY <1>2, NextCreated
  <2>a. DOMAIN saved \subseteq DOMAIN saved'
    BY <2>3 DEF CreatedStays
  <2>b. /\ R \subseteq Q /\ \A id \in DOMAIN store : Moves(id) => id \in Q
        /\ more = store => Q = R
    BY <2>0, <2>1, <2>a, MoversStay
  <2>4. /\ Compares(w, store, R)
        /\ \A id \in DOMAIN store :
             id \in DOMAIN more /\ (id \in Q \/ more[id].created = store[id].created)
    BY <2>1, <2>2, <2>3, <2>b DEF CompareInv, CreatedStays
  <2>5. ASSUME Rests(w, v) PROVE Compares(v, more, Q)
    BY <2>b, <2>4, <2>5, ComparesStays
  <2>6. ASSUME NEW ids, LooksUp(w, v, ids), StandsFor(p, ids), saved' = saved
        PROVE  Compares(v, more, Q)
    <3>1. Compares(v, saved, Movers)
      BY <2>1, <2>4, <2>6, ResolveCompares
    <3> QED BY <2>1, <2>6, <2>b, <3>1
  <2>7. ASSUME NEW id, id = w.ids[Len(w.records) + 1], Reads(w, v, saved[id]), saved' = saved
        PROVE  Compares(v, more, Q)
    <3>1. Compares(v, store, R)
      BY <2>1, <2>4, <2>7, ReadsNext
    <3> QED BY <2>1, <2>7, <2>b, <3>1
  <2>8. ASSUME Answer(p), v.ids = w.ids, v.refs = w.refs, v.records = w.records
        PROVE  Compares(v, more, Q)
    <3>1. w.refs = <<>> /\ Len(w.records) = Len(w.ids) /\ more = store
      BY <2>1, <2>8 DEF Answer
    <3>2. Compares(v, store, R)
      BY <2>4, <2>8, <3>1, AnswersAll
    <3> QED BY <2>b, <3>1, <3>2
  <2>9. w.cmd.op # "ingest"
    BY <2>1, <2>2
  <2> QED BY <1>2, <2>1, <2>5, <2>6, <2>7, <2>8, <2>9, LookupSteps
<1> QED BY <1>1, <1>2 DEF Next, vars

\* With SQLite a comparison reads the older run first, for any processes, stores and
\* runs that end, are exported or are sent meanwhile: the second trace is the newest when
\* it is looked up, and no trace changes the instant of its creation but those that are
\* sent with different beginnings, for which nothing is said (main.py:120-147, 323-346).
THEOREM CompareIsForwardThm == Spec => []CompareIsForward
<1>1. Init => CompareInv /\ ListedInv
  BY InitCompares, InitListed
<1>2. ShownInv /\ StoreInv /\ ListedInv /\ CompareInv /\ [Next]_vars
        => ListedInv' /\ CompareInv'
  BY NextCompares, NextListed
<1>3. CompareInv => CompareIsForward
  <2> SUFFICES ASSUME CompareInv, NEW p \in Processes, Answered(p, "compare"),
                      Backend = "sqlite",
                      ~ Resent(work[p].ids[1]), ~ Resent(work[p].ids[2])
               PROVE  work[p].records[1].created <= work[p].records[2].created
    BY DEF CompareIsForward
  <2>1. PICK w, R : w = work[p] /\ R = Movers
    OBVIOUS
  <2>2. Compares(w, saved, R) /\ w.phase = "answered"
    BY <2>1 DEF CompareInv, Answered
  <2>3. PICK c \in DOMAIN saved, d \in DOMAIN saved : InTurn(w, saved, R, c, d)
    BY <2>2 DEF Compares, Unresolved, HalfResolved
  <2>4. w.ids[1] = c /\ w.ids[2] = d
    BY <2>3 DEF InTurn
  <2>5. c \notin R /\ d \notin R
    BY <2>1, <2>4 DEF Movers, Moves
  <2>6. PICK a, b : /\ w.records = <<a, b>>
                    /\ a.created = saved[c].created /\ b.created = saved[d].created
    BY <2>2, <2>3, <2>5 DEF InTurn
  <2>7. saved[c].created <= saved[d].created
    BY <2>3, <2>5 DEF InTurn
  <2> QED BY <2>1, <2>6, <2>7
<1> QED BY <1>1, <1>2, <1>3, StoreThm, PTL DEF Spec

----------
(* Costs *)

CostStep(it, spans, S) ==
  IF S = {} THEN 0 ELSE OrZero(spans[AnyOf(S)].cost) + it[S \ {AnyOf(S)}]

\* What the spans at the places in X have cost.
Charged(spans, X) == (CHOOSE it : it = [S \in SUBSET X |-> CostStep(it, spans, S)])[X]

LEMMA TotalIsCharged ==
  ASSUME NEW s
  PROVE  Total(s, LAMBDA x : OrZero(x.cost)) = Charged(s, DOMAIN s)
  BY DEF Total, FoldSeq, FoldFunction, FoldFunctionOnSet, MapThenFoldSet, Charged, CostStep,
         AnyOf

LEMMA SpentIsCharged ==
  ASSUME NEW s, NEW X
  PROVE  MapThenSumSet(LAMBDA i : OrZero(s[i].cost), X) = Charged(s, X)
  BY DEF MapThenSumSet, MapThenFoldSet, Charged, CostStep, AnyOf

\* The sums over the parts of a finite set exist, and are those that SumOver() gives.
LEMMA SumsAre ==
  ASSUME NEW D, IsFiniteSet(D), NEW w \in [D -> Int], NEW X \in SUBSET D
  PROVE  /\ \E f : SumsUp(f, X, w)
         /\ \A f : SumsUp(f, X, w) => f[X] = SumOver(w, X)
<1> DEFINE sum == [S \in SUBSET X |-> SumOver(w, S)]
<1>1. IsFiniteSet(X)
  BY FS_Subset
<1>2. ASSUME NEW S \in SUBSET X PROVE sum[S] = SumStep(sum, w, S)
  <2>1. CASE S = {}
    BY <2>1, SumOverProperties DEF SumStep
  <2>2. CASE S # {}
    <3>1. AnyOf(S) \in S /\ S \ {AnyOf(S)} \in SUBSET X /\ S \in SUBSET D
      BY <2>2 DEF AnyOf
    <3>2. SumOver(w, S) = w[AnyOf(S)] + SumOver(w, S \ {AnyOf(S)})
      BY <3>1, SumOverProperties
    <3>3. sum[S \ {AnyOf(S)}] = SumOver(w, S \ {AnyOf(S)}) /\ sum[S] = SumOver(w, S)
      BY <3>1
    <3> QED BY <2>2, <3>2, <3>3 DEF SumStep
  <2> QED BY <2>1, <2>2
<1>3. SumsUp(sum, X, w) /\ sum[X] = SumOver(w, X)
  BY <1>2 DEF SumsUp
<1> HIDE DEF sum
<1>4. ASSUME NEW f, SumsUp(f, X, w) PROVE f = sum
  BY <1>1, <1>3, <1>4, SumUnique
<1> QED BY <1>3, <1>4

\* What the spans have cost is a sum over their places.
LEMMA ChargedIsSum ==
  ASSUME NEW D, IsFiniteSet(D), NEW w \in [D -> Int], NEW s,
         \A i \in D : w[i] = OrZero(s[i].cost)
  PROVE  \A X \in SUBSET D : Charged(s, X) = SumOver(w, X)
<1> SUFFICES ASSUME NEW X \in SUBSET D PROVE Charged(s, X) = SumOver(w, X)
  OBVIOUS
<1> DEFINE AddsUp(f) == f = [S \in SUBSET X |-> CostStep(f, s, S)]
           it == CHOOSE f : AddsUp(f)
<1>1. \A S \in SUBSET X : S # {} => AnyOf(S) \in S
  BY DEF AnyOf
<1>2. ASSUME NEW f PROVE AddsUp(f) <=> SumsUp(f, X, w)
  <2>1. \A S \in SUBSET X : CostStep(f, s, S) = SumStep(f, w, S)
    BY <1>1 DEF CostStep, SumStep
  <2> QED BY <2>1 DEF SumsUp
<1> HIDE DEF AddsUp
<1>3. AddsUp(it)
  BY <1>2, SumsAre
<1>4. it[X] = SumOver(w, X)
  <2> HIDE DEF it
  <2> QED BY <1>2, <1>3, SumsAre
<1> QED BY <1>4 DEF Charged, AddsUp

\* A sum of costs is no less than that of some of them, and the same if the others are 0.
LEMMA SumOfSome ==
  ASSUME NEW D, IsFiniteSet(D), NEW w \in [D -> Nat], NEW X \in SUBSET D, NEW Y \in SUBSET D,
         X \subseteq Y
  PROVE  /\ SumOver(w, X) <= SumOver(w, Y)
         /\ (\A y \in Y \ X : w[y] = 0) => SumOver(w, X) = SumOver(w, Y)
<1>0. w \in [D -> Int]
  OBVIOUS
<1> DEFINE Good(U) == /\ SumOver(w, X) <= SumOver(w, U)
                      /\ (\A y \in U \ X : w[y] = 0) => SumOver(w, X) = SumOver(w, U)
           Bad == {U \in SUBSET D : X \subseteq U /\ ~ Good(U)}
<1>1. ASSUME Bad # {} PROVE FALSE
  <2>0. Bad \in SUBSET SUBSET D
    OBVIOUS
  <2>1. PICK U \in Bad : \A V \in SUBSET D : Cardinality(V) < Cardinality(U) => V \notin Bad
    <3> HIDE DEF Bad
    <3> QED BY <1>1, <2>0, SmallestPart
  <2>2. U # X
    BY <1>0, SumOverProperties
  <2>3. PICK y \in U \ X : TRUE
    BY <2>2
  <2>4. /\ U \ {y} \in SUBSET D /\ X \subseteq U \ {y}
        /\ Cardinality(U \ {y}) < Cardinality(U)
    BY <2>3, OneLess
  <2>5. Good(U \ {y})
    BY <2>1, <2>4
  <2>6. /\ SumOver(w, U) = w[y] + SumOver(w, U \ {y}) /\ SumOver(w, U \ {y}) \in Int
        /\ SumOver(w, X) \in Int /\ w[y] \in Nat
    BY <1>0, <2>3, <2>4, SumOverProperties
  <2>7. \A x \in (U \ {y}) \ X : x \in U \ X
    OBVIOUS
  <2>8. Good(U)
    BY <2>3, <2>5, <2>6, <2>7
  <2> QED BY <2>1, <2>8
<1> QED BY <1>1

\* Values that are those of another function at other places have the same sum.
LEMMA SumMoves ==
  ASSUME NEW D, IsFiniteSet(D), NEW E, IsFiniteSet(E), NEW w \in [E -> Int],
         NEW v \in [D -> Int], NEW b \in [D -> E],
         \A m, n \in D : b[m] = b[n] => m = n, \A n \in D : v[n] = w[b[n]]
  PROVE  SumOver(v, D) = SumOver(w, {b[n] : n \in D})
<1> DEFINE To(U) == {b[n] : n \in U}
           Bad == {U \in SUBSET D : SumOver(v, U) # SumOver(w, To(U))}
<1>1. ASSUME Bad # {} PROVE FALSE
  <2>0. Bad \in SUBSET SUBSET D
    OBVIOUS
  <2>1. PICK U \in Bad : \A V \in SUBSET D : Cardinality(V) < Cardinality(U) => V \notin Bad
    <3> HIDE DEF Bad
    <3> QED BY <1>1, <2>0, SmallestPart
  <2>2. CASE U = {}
    <3>1. To(U) = {}
      BY <2>2
    <3> QED BY <2>1, <2>2, <3>1, SumOverProperties
  <2>3. CASE U # {}
    <3>1. PICK n \in U : TRUE
      BY <2>3
    <3>2. U \ {n} \in SUBSET D /\ Cardinality(U \ {n}) < Cardinality(U)
      BY OneLess
    <3>3. SumOver(v, U \ {n}) = SumOver(w, To(U \ {n}))
      BY <2>1, <3>2
    <3>4. To(U) \in SUBSET E /\ b[n] \in To(U) /\ To(U) \ {b[n]} = To(U \ {n})
      BY <3>1
    <3>5. SumOver(v, U) = v[n] + SumOver(v, U \ {n})
      BY SumOverProperties
    <3>6. SumOver(w, To(U)) = w[b[n]] + SumOver(w, To(U) \ {b[n]})
      <4> HIDE DEF To
      <4> QED BY <3>4, SumOverProperties
    <3>7. v[n] = w[b[n]]
      OBVIOUS
    <3> QED BY <2>1, <3>3, <3>4, <3>5, <3>6, <3>7
  <2> QED BY <2>2, <2>3
<1>2. D \notin Bad
  BY <1>1
<1> QED BY <1>2

----------
(* Findings *)

Categories ==
  {"wasted_cost", "cost_concentration", "retry_storm", "retry_penalty", "step_failure",
   "token_bloat", "large_context", "model_selection", "local_inference",
   "concurrency_savings", "unknown_model", "energy_efficiency", "pareto_frontier",
   "financial_bleed"}

AFinding == [category : Categories, severity : {"critical", "warning", "info"}]

\* Where the findings f tell of a failed step.
StepsIn(f) == {k \in DOMAIN f : f[k].category = "step_failure"}

LEMMA StepsAreFinite ==
  ASSUME NEW X, NEW f \in Seq(X)
  PROVE  IsFiniteSet(StepsIn(f)) /\ Cardinality(StepsIn(f)) \in Nat
<1>1. StepsIn(f) \in SUBSET (1..Len(f)) /\ Len(f) \in Nat
  BY DEF StepsIn
<1>2. IsFiniteSet(1..Len(f))
  BY <1>1, FS_Interval
<1>3. IsFiniteSet(StepsIn(f))
  BY <1>1, <1>2, FS_Subset
<1> QED BY <1>3, FS_CardinalityType

LEMMA StepsAddUp ==
  ASSUME NEW X, NEW f \in Seq(X), NEW g \in Seq(X)
  PROVE  /\ f \o g \in Seq(X)
         /\ Cardinality(StepsIn(f \o g)) = Cardinality(StepsIn(f)) + Cardinality(StepsIn(g))
<1>1. PICK n \in Nat : n = Len(f)
  OBVIOUS
<1> DEFINE late == {n + k : k \in StepsIn(g)}
           shift == [k \in StepsIn(g) |-> n + k]
<1>2. /\ f \o g \in Seq(X) /\ DOMAIN (f \o g) = 1..(n + Len(g)) /\ Len(g) \in Nat
      /\ \A k \in 1..n : (f \o g)[k] = f[k]
      /\ \A k \in 1..Len(g) : (f \o g)[n + k] = g[k]
  BY <1>1
<1>3. /\ StepsIn(f) = {k \in 1..n : f[k].category = "step_failure"}
      /\ StepsIn(g) = {k \in 1..Len(g) : g[k].category = "step_failure"}
      /\ StepsIn(f \o g) = {k \in 1..(n + Len(g)) : (f \o g)[k].category = "step_failure"}
  BY <1>1, <1>2 DEF StepsIn
<1>4. ASSUME NEW k \in 1..(n + Len(g)) PROVE k \in 1..n \/ k - n \in 1..Len(g)
  BY <1>2
<1>5. StepsIn(f \o g) = StepsIn(f) \cup late
  <2>1. ASSUME NEW k \in StepsIn(f \o g) PROVE k \in StepsIn(f) \cup late
    <3>1. CASE k \in 1..n
      BY <1>2, <1>3, <3>1
    <3>2. CASE k - n \in 1..Len(g)
      <4>1. PICK j \in 1..Len(g) : j = k - n /\ k = n + j
        BY <1>2, <1>3, <3>2
      <4>2. j \in StepsIn(g)
        BY <1>2, <1>3, <4>1
      <4> QED BY <4>1, <4>2
    <3> QED BY <1>3, <1>4, <3>1, <3>2
  <2>2. ASSUME NEW k \in StepsIn(f) PROVE k \in StepsIn(f \o g)
    BY <1>2, <1>3
  <2>3. ASSUME NEW k \in StepsIn(g) PROVE n + k \in StepsIn(f \o g)
    BY <1>2, <1>3
  <2> QED BY <2>1, <2>2, <2>3
<1>6. StepsIn(f) \cap late = {}
  BY <1>2, <1>3
<1>7. /\ IsFiniteSet(StepsIn(f)) /\ IsFiniteSet(StepsIn(g))
      /\ Cardinality(StepsIn(f)) \in Nat /\ Cardinality(StepsIn(g)) \in Nat
  BY StepsAreFinite
<1>8. shift \in Bijection(StepsIn(g), late)
  BY <1>3 DEF Bijection, Injection, Surjection, IsInjective
<1> HIDE DEF late
<1>9. IsFiniteSet(late) /\ Cardinality(late) = Cardinality(StepsIn(g))
  BY <1>7, <1>8, FS_Bijection DEF ExistsBijection
<1>10. Cardinality(StepsIn(f) \cup late)
         = Cardinality(StepsIn(f)) + Cardinality(late) - Cardinality(StepsIn(f) \cap late)
  BY <1>7, <1>9, FS_Union
<1>11. Cardinality(StepsIn(f) \cap late) = 0
  BY <1>6, FS_EmptySet
<1> QED BY <1>2, <1>5, <1>7, <1>9, <1>10, <1>11

\* What FlattenSeq() has joined after i of n sequences.
Strung(flat, s, n) == flat = [i \in 1..n |-> IF i = 1 THEN s[i] ELSE flat[i - 1] \o s[i]]

LEMMA JoinedExists ==
  ASSUME NEW s, NEW n \in Nat
  PROVE  \E flat : Strung(flat, s, n)
<1> DEFINE Bad == {m \in Nat : ~ \E flat : Strung(flat, s, m)}
<1>1. ASSUME Bad # {} PROVE FALSE
  <2>1. PICK m \in Bad : \A k \in Bad : m <= k
    BY <1>1, LeastOf
  <2>2. CASE m = 0
    <3> DEFINE flat == [i \in 1..0 |-> 0]
    <3>1. Strung(flat, s, 0)
      BY DEF Strung
    <3> QED BY <2>1, <2>2, <3>1
  <2>3. CASE m # 0
    <3>1. m - 1 \in Nat /\ m - 1 \notin Bad
      BY <2>1, <2>3
    <3>2. PICK flat : Strung(flat, s, m - 1)
      BY <3>1
    <3> DEFINE more == [i \in 1..m |-> IF i < m THEN flat[i]
                                       ELSE IF i = 1 THEN s[i] ELSE flat[i - 1] \o s[i]]
    <3>3. ASSUME NEW i \in 1..m
          PROVE  more[i] = IF i = 1 THEN s[i] ELSE more[i - 1] \o s[i]
      <4>1. CASE i < m
        <5>1. i \in 1..(m - 1)
          BY <4>1
        <5>2. flat[i] = IF i = 1 THEN s[i] ELSE flat[i - 1] \o s[i]
          BY <3>2, <5>1 DEF Strung
        <5>3. i # 1 => i - 1 \in 1..m /\ i - 1 < m
          BY <4>1
        <5>4. more[i] = flat[i] /\ (i # 1 => more[i - 1] = flat[i - 1])
          BY <4>1, <5>3
        <5> QED BY <5>2, <5>4
      <4>2. CASE ~ i < m
        <5>1. i # 1 => i - 1 \in 1..m /\ i - 1 < m
          BY <4>2
        <5>2. i # 1 => more[i - 1] = flat[i - 1]
          BY <5>1
        <5>3. more[i] = IF i = 1 THEN s[i] ELSE flat[i - 1] \o s[i]
          BY <4>2
        <5> QED BY <5>2, <5>3
      <4> QED BY <4>1, <4>2
    <3>4. Strung(more, s, m)
      <4>1. more = [i \in 1..m |-> more[i]]
        OBVIOUS
      <4> HIDE DEF more
      <4>2. more = [i \in 1..m |-> IF i = 1 THEN s[i] ELSE more[i - 1] \o s[i]]
        BY <3>3, <4>1
      <4> QED BY <4>2 DEF Strung
    <3> QED BY <2>1, <3>4
  <2> QED BY <2>2, <2>3
<1> QED BY <1>1

\* Sequences of findings, those in F with one failed step, joined.
LEMMA FlatSteps ==
  ASSUME NEW X, NEW s \in Seq(Seq(X)), NEW F \in SUBSET DOMAIN s,
         \A i \in DOMAIN s : Cardinality(StepsIn(s[i])) = IF i \in F THEN 1 ELSE 0
  PROVE  /\ FlattenSeq(s) \in Seq(X)
         /\ Cardinality(StepsIn(FlattenSeq(s))) = Cardinality(F)
<1>1. PICK n \in Nat : n = Len(s) /\ DOMAIN s = 1..n
  OBVIOUS
<1>2. CASE n = 0
  <2>1. s = <<>> /\ FlattenSeq(s) = s
    BY <1>1, <1>2 DEF FlattenSeq
  <2>2. StepsIn(s) = {} /\ F = {}
    BY <1>1, <1>2 DEF StepsIn
  <2>3. <<>> \in Seq(X)
    OBVIOUS
  <2>5. FlattenSeq(s) = <<>>
    BY <2>1
  <2>6. FlattenSeq(s) \in Seq(X)
    BY <2>3, <2>5, Zenon
  <2>4. Cardinality(StepsIn(FlattenSeq(s))) = 0 /\ Cardinality(F) = 0
    BY <2>1, <2>2, FS_EmptySet
  <2> QED BY <2>4, <2>6
<1>3. CASE n # 0
  <2> DEFINE flat == CHOOSE f : Strung(f, s, n)
             Good(i) == /\ flat[i] \in Seq(X)
                        /\ Cardinality(StepsIn(flat[i])) = Cardinality(F \cap (1..i))
             Bad == {i \in 1..n : ~ Good(i)}
  <2>1. FlattenSeq(s) = flat[n]
    BY <1>1, <1>3 DEF FlattenSeq, Strung
  <2>2. Strung(flat, s, n)
    BY JoinedExists
  <2> HIDE DEF flat
  <2>3. \A i \in 1..n : flat[i] = IF i = 1 THEN s[i] ELSE flat[i - 1] \o s[i]
    BY <2>2 DEF Strung
  <2>4. \A i \in 1..n : IsFiniteSet(F \cap (1..i)) /\ Cardinality(F \cap (1..i)) \in Nat
    <3> SUFFICES ASSUME NEW i \in 1..n
                 PROVE  IsFiniteSet(F \cap (1..i)) /\ Cardinality(F \cap (1..i)) \in Nat
      OBVIOUS
    <3>1. IsFiniteSet(1..i) /\ F \cap (1..i) \in SUBSET (1..i)
      BY FS_Interval
    <3>2. IsFiniteSet(F \cap (1..i))
      BY <3>1, FS_Subset
    <3> QED BY <3>2, FS_CardinalityType
  <2>5. ASSUME Bad # {} PROVE FALSE
    <3>1. PICK i \in Bad : \A j \in Bad : i <= j
      <4>1. Bad \in SUBSET Nat
        OBVIOUS
      <4> HIDE DEF Bad
      <4> QED BY <2>5, <4>1, LeastOf
    <3>2. s[i] \in Seq(X) /\ i \in 1..n
      BY <1>1
    <3>3. CASE i = 1
      <4>1. flat[i] = s[i]
        BY <2>3, <3>3
      <4>2. F \cap (1..1) = IF 1 \in F THEN {1} ELSE {}
        OBVIOUS
      <4>3. Cardinality(F \cap (1..1)) = IF 1 \in F THEN 1 ELSE 0
        BY <4>2, FS_Singleton, FS_EmptySet, ZenonT(40)
      <4> QED BY <1>1, <3>1, <3>2, <3>3, <4>1, <4>3
    <3>4. CASE i # 1
      <4>1. i - 1 \in 1..n /\ i - 1 \notin Bad
        BY <3>1, <3>4
      <4>2. Good(i - 1)
        BY <4>1
      <4>3. flat[i] = flat[i - 1] \o s[i]
        BY <2>3, <3>4
      <4>4. /\ flat[i] \in Seq(X)
            /\ Cardinality(StepsIn(flat[i]))
                 = Cardinality(StepsIn(flat[i - 1])) + Cardinality(StepsIn(s[i]))
        BY <3>2, <4>2, <4>3, StepsAddUp
      <4>5. CASE i \in F
        <5>1. /\ F \cap (1..i) = (F \cap (1..(i - 1))) \cup {i}
              /\ i \notin F \cap (1..(i - 1))
          BY <4>5
        <5>2. Cardinality(F \cap (1..i)) = Cardinality(F \cap (1..(i - 1))) + 1
          BY <2>4, <4>1, <5>1, FS_AddElement, ZenonT(40)
        <5> QED BY <1>1, <3>1, <3>2, <4>2, <4>4, <4>5, <5>2
      <4>6. CASE i \notin F
        <5>1. F \cap (1..i) = F \cap (1..(i - 1))
          BY <4>6
        <5>2. Cardinality(StepsIn(s[i])) = 0 /\ Cardinality(F \cap (1..(i - 1))) \in Nat
          BY <1>1, <2>4, <3>2, <4>1, <4>6
        <5>3. PICK a \in Nat : a = Cardinality(F \cap (1..(i - 1)))
          BY <5>2
        <5>4. Cardinality(StepsIn(flat[i - 1])) = a
          BY <4>2, <5>3
        <5>5. Cardinality(StepsIn(flat[i])) = a
          BY <4>4, <5>2, <5>4
        <5>6. Good(i)
          BY <4>4, <5>1, <5>3, <5>5
        <5> QED BY <3>1, <5>6
      <4> QED BY <4>5, <4>6
    <3> QED BY <3>3, <3>4
  <2>6. F \cap (1..n) = F /\ n \in 1..n
    BY <1>1, <1>3
  <2>7. Good(n)
    BY <2>5, <2>6
  <2> QED BY <2>1, <2>6, <2>7
<1> QED BY <1>2, <1>3

\* Findings f tell of c failed steps.
Tells(f, c) == f \in Seq(AFinding) /\ Cardinality(StepsIn(f)) = c

LEMMA TellsBoth ==
  ASSUME NEW f, NEW g, NEW c \in Nat, NEW d \in Nat, Tells(f, c), Tells(g, d)
  PROVE  Tells(f \o g, c + d)
  BY StepsAddUp DEF Tells

LEMMA TellsNoMore ==
  ASSUME NEW f, NEW g, NEW c \in Nat, Tells(f, c), Tells(g, 0)
  PROVE  Tells(f \o g, c)
<1>1. Tells(f \o g, c + 0)
  BY TellsBoth
<1> QED BY <1>1

LEMMA NothingTold == Tells(<<>>, 0)
<1>1. StepsIn(<<>>) = {}
  BY DEF StepsIn
<1>2. <<>> \in Seq(AFinding)
  OBVIOUS
<1> QED BY <1>1, <1>2, FS_EmptySet DEF Tells

LEMMA FindingTells ==
  ASSUME NEW c \in Categories, NEW v \in {"critical", "warning", "info"}
  PROVE  Tells(Finding(c, v), IF c = "step_failure" THEN 1 ELSE 0)
<1>1. PICK one \in AFinding : one.category = c /\ Finding(c, v) = <<one>>
  BY DEF Finding, AFinding
<1>2. /\ <<one>> \in Seq(AFinding)
      /\ StepsIn(<<one>>) = IF one.category = "step_failure" THEN {1} ELSE {}
  BY <1>1 DEF StepsIn
<1> QED BY <1>1, <1>2, FS_Singleton, FS_EmptySet DEF Tells

LEMMA OtherTells ==
  ASSUME NEW c \in Categories \ {"step_failure"}, NEW v \in {"critical", "warning", "info"}
  PROVE  Tells(Finding(c, v), 0)
<1>1. Tells(Finding(c, v), IF c = "step_failure" THEN 1 ELSE 0)
  BY FindingTells
<1> QED BY <1>1

\* A finding on each of some spans.
LEMMA EachTells ==
  ASSUME NEW n \in Nat, NEW F \in SUBSET (1..n), NEW s, s = [i \in 1..n |-> s[i]],
         \A i \in 1..n : Tells(s[i], IF i \in F THEN 1 ELSE 0)
  PROVE  Tells(FlattenSeq(s), Cardinality(F))
<1>1. \A i \in 1..n : s[i] \in Seq(AFinding)
  BY DEF Tells
<1>2. s \in [1..n -> Seq(AFinding)]
  BY <1>1
<1>3. s \in Seq(Seq(AFinding)) /\ DOMAIN s = 1..n
  BY <1>2
<1>4. \A i \in DOMAIN s : Cardinality(StepsIn(s[i])) = IF i \in F THEN 1 ELSE 0
  BY <1>3 DEF Tells
<1> QED BY <1>3, <1>4, FlatSteps DEF Tells

\* None of them on a failed step.
LEMMA NoneTells ==
  ASSUME NEW n \in Nat, NEW s, s = [i \in 1..n |-> s[i]], \A i \in 1..n : Tells(s[i], 0)
  PROVE  Tells(FlattenSeq(s), 0)
<1>1. PICK F : F = {}
  OBVIOUS
<1>2. F \in SUBSET (1..n) /\ \A i \in 1..n : Tells(s[i], IF i \in F THEN 1 ELSE 0)
  BY <1>1
<1>3. Tells(FlattenSeq(s), Cardinality(F))
  BY <1>2, EachTells
<1> QED BY <1>1, <1>3, FS_EmptySet

\* There is a finding for each failed step.
LEMMA FindingsTell ==
  ASSUME NEW n \in Nat, NEW spans, spans = [i \in 1..n |-> spans[i]], NEW sum
  PROVE  Tells(Findings(spans, sum), Cardinality({i \in 1..n : Failed(spans[i])}))
<1> DEFINE F == {i \in 1..n : Failed(spans[i])}
           steps == [i \in 1..n |-> When(Failed(spans[i]), Finding("step_failure", "warning"))]
           large == [i \in 1..n |-> When(spans[i].input >= 3000,
                                         Finding("large_context", "info"))]
           models == [i \in 1..n |-> When(Overprovisioned(spans[i]),
                                          Finding("model_selection", "info"))]
<1>0. DOMAIN spans = 1..n
  OBVIOUS
<1>1. /\ Tells(Finding("wasted_cost", "critical"), 0)
      /\ Tells(Finding("cost_concentration", "critical"), 0)
      /\ Tells(Finding("cost_concentration", "warning"), 0)
      /\ Tells(Finding("retry_storm", "critical"), 0)
      /\ Tells(Finding("retry_penalty", "warning"), 0)
      /\ Tells(Finding("token_bloat", "warning"), 0)
      /\ Tells(Finding("large_context", "info"), 0)
      /\ Tells(Finding("model_selection", "info"), 0)
      /\ Tells(Finding("local_inference", "info"), 0)
      /\ Tells(Finding("concurrency_savings", "info"), 0)
      /\ Tells(Finding("unknown_model", "info"), 0)
      /\ Tells(Finding("energy_efficiency", "info"), 0)
      /\ Tells(Finding("pareto_frontier", "info"), 0)
      /\ Tells(Finding("financial_bleed", "warning"), 0)
  BY OtherTells DEF Categories
<1>2. Tells(Finding("step_failure", "warning"), 1)
  BY FindingTells DEF Categories
<1>3. Tells(<<>>, 0)
  BY NothingTold
<1>4. Tells(WastedCostFinding(sum), 0)
  BY <1>1, <1>3 DEF WastedCostFinding, When
<1>5. Tells(ConcentrationFinding(spans, sum), 0)
  BY <1>1, <1>3 DEF ConcentrationFinding, When
<1>6. Tells(RetryFinding(spans, sum), 0)
  BY <1>1, <1>3 DEF RetryFinding
<1>7. Tells(StepFindings(spans), Cardinality(F))
  <2>1. \A i \in 1..n : Tells(steps[i], IF i \in F THEN 1 ELSE 0)
    BY <1>2, <1>3 DEF When
  <2>2. StepFindings(spans) = FlattenSeq(steps)
    BY <1>0 DEF StepFindings
  <2>3. F \in SUBSET (1..n) /\ steps = [i \in 1..n |-> steps[i]]
    OBVIOUS
  <2> HIDE DEF steps, F
  <2> QED BY <2>1, <2>2, <2>3, EachTells
<1>8. Tells(ContextFindings(spans), 0)
  <2>1. \A i \in 1..n : Tells(large[i], 0)
    BY <1>1, <1>3 DEF When
  <2>2. large = [i \in 1..n |-> large[i]]
    OBVIOUS
  <2>3. Tells(FlattenSeq(large), 0)
    <3> HIDE DEF large
    <3> QED BY <2>1, <2>2, NoneTells
  <2> QED BY <1>0, <1>1, <1>3, <2>3 DEF ContextFindings, When
<1>9. Tells(ModelFindings(spans), 0)
  <2>1. \A i \in 1..n : Tells(models[i], 0)
    BY <1>1, <1>3 DEF When
  <2>2. models = [i \in 1..n |-> models[i]]
    OBVIOUS
  <2>3. ModelFindings(spans) = FlattenSeq(models)
    BY <1>0 DEF ModelFindings
  <2> HIDE DEF models
  <2> QED BY <2>1, <2>2, <2>3, NoneTells
<1>10. Tells(LocalFinding(spans), 0)
  BY <1>1, <1>3 DEF LocalFinding, Some, When
<1>11. Tells(ConcurrencyFinding(spans, sum), 0)
  BY <1>1, <1>3 DEF ConcurrencyFinding, When
<1>12. Tells(UnknownModelFinding(spans), 0)
  BY <1>1, <1>3 DEF UnknownModelFinding, Some, When
<1>13. Tells(When(sum.joules > 0, Finding("energy_efficiency", "info")), 0)
  BY <1>1, <1>3 DEF When
<1>14. Tells(ParetoFinding(spans), 0)
  BY <1>1, <1>3 DEF ParetoFinding, Some, When
<1>15. Tells(BleedFinding(sum.waste), 0)
  BY <1>1, <1>3 DEF BleedFinding, When
<1>16. Cardinality(F) \in Nat
  <2>1. F \in SUBSET (1..n)
    OBVIOUS
  <2>2. IsFiniteSet(1..n)
    BY FS_Interval
  <2> HIDE DEF F
  <2>3. IsFiniteSet(F)
    BY <2>1, <2>2, FS_Subset
  <2> QED BY <2>3, FS_CardinalityType
<1> DEFINE a == WastedCostFinding(sum) \o ConcentrationFinding(spans, sum)
           b == a \o RetryFinding(spans, sum)
           c == b \o StepFindings(spans)
           d == c \o ContextFindings(spans) \o ModelFindings(spans)
           e == d \o LocalFinding(spans) \o ConcurrencyFinding(spans, sum)
           f == e \o UnknownModelFinding(spans)
           g == f \o When(sum.joules > 0, Finding("energy_efficiency", "info"))
<1> HIDE DEF F
<1>17. Tells(a, 0)
  BY <1>4, <1>5, TellsNoMore
<1>18. Tells(b, 0)
  BY <1>6, <1>17, TellsNoMore
<1>19. Tells(c, Cardinality(F))
  <2>1. Tells(c, 0 + Cardinality(F))
    BY <1>7, <1>16, <1>18, TellsBoth
  <2> QED BY <1>16, <2>1
<1> HIDE DEF c
<1>20. Tells(d, Cardinality(F))
  BY <1>8, <1>9, <1>16, <1>19, TellsNoMore
<1> HIDE DEF d
<1>21. Tells(e, Cardinality(F))
  BY <1>10, <1>11, <1>16, <1>20, TellsNoMore
<1> HIDE DEF e
<1>22. Tells(f, Cardinality(F))
  BY <1>12, <1>16, <1>21, TellsNoMore
<1> HIDE DEF f
<1>23. Tells(g, Cardinality(F))
  BY <1>13, <1>16, <1>22, TellsNoMore
<1> HIDE DEF g
<1>24. Tells(g \o ParetoFinding(spans) \o BleedFinding(sum.waste), Cardinality(F))
  BY <1>14, <1>15, <1>16, <1>23, TellsNoMore
<1>25. Findings(spans, sum) = g \o ParetoFinding(spans) \o BleedFinding(sum.waste)
  BY DEF Findings, a, b, c, d, e, f, g
<1> QED BY <1>24, <1>25 DEF F

----------
(* Summaries *)

\* No model has a negative cost.
LEMMA CostIsNat ==
  ASSUME NEW model, NEW input \in Nat, NEW output \in Nat, NEW duration \in Nat
  PROVE  CalculateCost(model, input, output, duration) \in Nat \cup {None}
<1>1. FirstMatch(Models, model) \in Range(Models) \cup {None}
  BY TablesAreFull, MatchIs
<1>2. CASE PriceOf(model) = None
  BY <1>2 DEF CalculateCost, CostAt
<1>3. CASE PriceOf(model) # None
  <2>1. PriceOf(model) \in [input : Nat, output : Nat, perHour : Nat]
    BY <1>1, <1>3, TablesAreFull DEF PriceOf
  <2>2. PICK a \in Nat, b \in Nat, c \in Nat :
          a = PriceOf(model).input /\ b = PriceOf(model).output /\ c = PriceOf(model).perHour
    BY <2>1
  <2>3. PICK x \in Nat, y \in Nat : x = input * a + output * b /\ y = duration * c
    OBVIOUS
  <2>4. RoundDiv(x, 1000) \in Nat /\ RoundDiv(y, 3600000) \in Nat
    BY DEF RoundDiv
  <2>5. CalculateCost(model, input, output, duration) = RoundDiv(x, 1000) + RoundDiv(y, 3600000)
    BY <1>3, <2>2, <2>3 DEF CalculateCost, CostAt
  <2> QED BY <2>4, <2>5
<1> QED BY <1>2, <1>3

\* What the store keeps of a span of a run.
LEMMA SpanKept ==
  ASSUME NEW run \in Runs, NEW id, NEW k \in 1..Len(run)
  PROVE  LET s == Concluded(run, id)[k]
         IN  /\ StoredSpan(s).cost = s.cost /\ StoredSpan(s).status = s.status
             /\ StoredSpan(s).parent = s.parent /\ s.cost \in Nat \cup {None}
<1> DEFINE r == run[k]
           m == Moved(run, id)[k]
           fields == {"parent", "model", "input", "output", "cost", "dur", "status",
                      "energy", "accel", "kind", "start", "end", "quality"}
<1>1. r \in Spans /\ fields \subseteq DOMAIN r
  BY AtIs DEF Spans
<1>2. m = [r EXCEPT !.start = @ + id, !.end = IF @ = None THEN None ELSE @ + id]
  BY DEF Moved
<1>3. Concluded(run, id)[k] = Priced(m)
  BY DEF Concluded
<1> HIDE DEF r, m
<1>4. /\ m.model = r.model /\ m.input = r.input /\ m.output = r.output
      /\ m.cost = r.cost /\ m.dur = r.dur /\ fields \subseteq DOMAIN m
  BY <1>1, <1>2
<1>5. \A x : fields \subseteq DOMAIN x =>
        /\ fields \subseteq DOMAIN Priced(x)
        /\ Priced(x).cost = IF x.cost # None THEN x.cost
                            ELSE CalculateCost(x.model, x.input, x.output, x.dur)
  BY DEF Priced
<1>6. \A x : fields \subseteq DOMAIN x =>
        /\ StoredSpan(x).cost = x.cost /\ StoredSpan(x).status = x.status
        /\ StoredSpan(x).parent = x.parent
  BY DEF StoredSpan
<1>7. /\ r.input \in Nat /\ r.output \in Nat /\ r.dur \in Nat /\ r.cost \in Nat \cup {None}
  BY <1>1 DEF Spans
<1> HIDE DEF fields
<1>8. CalculateCost(m.model, m.input, m.output, m.dur) \in Nat \cup {None}
  BY <1>4, <1>7, CostIsNat
<1>9. Priced(m).cost \in Nat \cup {None}
  BY <1>4, <1>5, <1>7, <1>8
<1> QED BY <1>3, <1>4, <1>5, <1>6, <1>9

\* Two sequences of spans that agree in what a summary is checked against.
Alike(s, t, n) ==
  /\ s = [k \in 1..n |-> s[k]] /\ t = [k \in 1..n |-> t[k]] /\ Len(s) = n /\ Len(t) = n
  /\ \A k \in 1..n : /\ t[k].cost = s[k].cost /\ t[k].status = s[k].status
                     /\ t[k].parent = s[k].parent /\ s[k].cost \in Nat \cup {None}

\* The record of a run that no export has replaced.
LEMMA RunKept ==
  ASSUME NEW run \in Runs, NEW id
  PROVE  LET s == Concluded(run, id)
             record == StoredRecord(Traced(run, id))
         IN  /\ Alike(s, record.spans, Len(run)) /\ Len(run) \in Nat
             /\ \A k \in 1..Len(run) : record.spans[k] = StoredSpan(s[k])
             /\ record.summary = SummaryOf(s, Aggregates(s), RunFigures(s, PrimaryRoot(s)))
<1> DEFINE s == Concluded(run, id)
           record == StoredRecord(Traced(run, id))
           f == [k \in 1..Len(run) |-> StoredSpan(s[k])]
<1>1. Len(run) \in Nat /\ DOMAIN s = 1..Len(run) /\ Len(s) = Len(run)
  BY AtIs, TracedIs
<1>2. record.summary = SummaryOf(s, Aggregates(s), RunFigures(s, PrimaryRoot(s)))
      /\ record.spans = Each(s, StoredSpan)
  BY TracedIs, StoredIs
<1>3. Each(s, StoredSpan) = SubSeq(f, 1, Len(run))
  BY <1>1 DEF Each
<1>4. f = [k \in 1..Len(run) |-> f[k]]
  OBVIOUS
<1>5. \A k \in 1..Len(run) : f[k] = StoredSpan(s[k])
  OBVIOUS
<1>6. s = [k \in 1..Len(run) |-> s[k]]
  BY DEF Concluded
<1>7. \A k \in 1..Len(run) :
        /\ StoredSpan(s[k]).cost = s[k].cost /\ StoredSpan(s[k]).status = s[k].status
        /\ StoredSpan(s[k]).parent = s[k].parent /\ s[k].cost \in Nat \cup {None}
  BY SpanKept
<1> HIDE DEF f, s, record
<1>8. SubSeq(f, 1, Len(run)) = f
  BY <1>1, <1>4, WholeSubSeq
<1>9. record.spans = f
  BY <1>2, <1>3, <1>8
<1>10. Len(f) = Len(run)
  BY <1>1, <1>4
<1>11. Alike(s, record.spans, Len(run))
  BY <1>1, <1>4, <1>5, <1>6, <1>7, <1>9, <1>10 DEF Alike
<1> QED BY <1>1, <1>2, <1>5, <1>9, <1>11 DEF s, record

\* What a summary is made of.
LEMMA SummaryIs ==
  ASSUME NEW s
  PROVE  LET root == PrimaryRoot(s)
             agg == Aggregates(s)
             sum == SummaryOf(s, agg, RunFigures(s, root))
         IN  /\ sum.cost = agg.cost /\ sum.outcome = Outcome(s, root)
             /\ sum.wasted = WastedCost(Outcome(s, root), agg.cost, agg.failedCost)
             /\ sum.perSuccess = IF Useful(Outcome(s, root)) THEN agg.cost ELSE None
             /\ sum.drivers = CostDrivers(s)
             /\ \E figures : sum.findings = Findings(s, figures)
<1> DEFINE root == PrimaryRoot(s)
           agg == Aggregates(s)
           run == RunFigures(s, root)
<1>1. PICK waste : waste = DetectComputeWaste(<<>>, DominantAccelerator(s), 1, run.duration,
                                              agg.cost)
  OBVIOUS
<1>2. PICK wasted : wasted = WastedCost(run.outcome, agg.cost, agg.failedCost)
  OBVIOUS
<1>3. DOMAIN agg = {"cost", "failedCost", "joules", "energyCost", "tokens", "llm", "tools",
                    "external", "retries", "steps", "failures"}
  BY DEF Aggregates
<1>4. /\ DOMAIN run = {"outcome", "duration", "critical", "quality", "drivers"}
      /\ run.outcome = Outcome(s, root) /\ run.drivers = CostDrivers(s)
  BY DEF RunFigures
<1> DEFINE figures == Figures(agg, run, wasted, waste)
<1>5. SummaryOf(s, agg, run) = WithFindings(s, figures)
  BY <1>1, <1>2 DEF SummaryOf
<1> HIDE DEF agg, run
<1>6. /\ figures.cost = agg.cost /\ figures.outcome = run.outcome
      /\ figures.drivers = run.drivers /\ figures.wasted = wasted
      /\ figures.perSuccess = IF Useful(run.outcome) THEN agg.cost ELSE None
      /\ {"cost", "outcome", "drivers", "wasted", "perSuccess"} \subseteq DOMAIN figures
  BY <1>3, <1>4 DEF Figures, ++
<1> HIDE DEF figures
<1>7. \A x : /\ WithFindings(s, x).findings = Findings(s, x)
             /\ \A n \in DOMAIN x \ {"findings"} : WithFindings(s, x)[n] = x[n]
  BY DEF WithFindings, ++
<1>8. /\ WithFindings(s, figures).findings = Findings(s, figures)
      /\ WithFindings(s, figures).cost = agg.cost
      /\ WithFindings(s, figures).outcome = run.outcome
      /\ WithFindings(s, figures).drivers = run.drivers
      /\ WithFindings(s, figures).wasted = wasted
      /\ WithFindings(s, figures).perSuccess = IF Useful(run.outcome) THEN agg.cost ELSE None
  BY <1>6, <1>7
<1> QED BY <1>2, <1>4, <1>5, <1>8 DEF agg, run

----------
(* What the summary says of the spans *)

\* What each of the spans cost.
CostsOf(s, w, n) ==
  /\ s = [k \in 1..n |-> s[k]] /\ w \in [1..n -> Nat]
  /\ \A k \in 1..n : w[k] = OrZero(s[k].cost)

FailedIn(s) == {k \in DOMAIN s : Failed(s[k])}

LEMMA SpentIsSum ==
  ASSUME NEW n \in Nat, NEW s, NEW w, CostsOf(s, w, n), NEW X \in SUBSET (1..n)
  PROVE  MapThenSumSet(LAMBDA i : OrZero(s[i].cost), X) = SumOver(w, X)
<1>0. PICK D : D = 1..n
  OBVIOUS
<1>1. IsFiniteSet(D)
  BY <1>0, FS_Interval
<1>2. w \in [D -> Int] /\ X \in SUBSET D /\ \A i \in D : w[i] = OrZero(s[i].cost)
  BY <1>0 DEF CostsOf
<1>3. \A Y \in SUBSET D : Charged(s, Y) = SumOver(w, Y)
  <2>1. IsFiniteSet(D) /\ w \in [D -> Int] /\ \A i \in D : w[i] = OrZero(s[i].cost)
    BY <1>1, <1>2
  <2> QED BY <2>1, ChargedIsSum
<1> QED BY <1>2, <1>3, SpentIsCharged

LEMMA CostIsSum ==
  ASSUME NEW n \in Nat, NEW s, NEW w, CostsOf(s, w, n)
  PROVE  Aggregates(s).cost = SumOver(w, 1..n)
<1>1. Aggregates(s).cost = Charged(s, DOMAIN s)
  BY TotalIsCharged DEF Aggregates
<1>2. DOMAIN s = 1..n
  BY DEF CostsOf
<1>3. PICK D : D = 1..n
  OBVIOUS
<1>4. IsFiniteSet(D) /\ w \in [D -> Int] /\ \A i \in D : w[i] = OrZero(s[i].cost)
  BY <1>3, FS_Interval DEF CostsOf
<1>5. Charged(s, D) = SumOver(w, D)
  BY <1>4, ChargedIsSum
<1> QED BY <1>1, <1>2, <1>3, <1>5

LEMMA FailedCostIsSum ==
  ASSUME NEW n \in Nat, NEW s, NEW w, CostsOf(s, w, n)
  PROVE  Aggregates(s).failedCost = SumOver(w, FailedIn(s))
<1>0. DOMAIN s = 1..n /\ w \in [1..n -> Int]
  BY DEF CostsOf
<1>1. PICK F \in SUBSET (1..n) : F = FailedIn(s)
  BY <1>0 DEF FailedIn
<1> DEFINE X == {s[k] : k \in 1..n}
           b == InOrder(F)
           N == Cardinality(F)
           p == Picked(s, F)
           v == [k \in 1..N |-> w[b[k]]]
<1>2. Aggregates(s).failedCost = Charged(p, DOMAIN p)
  <2>1. Selected(s, Failed) = p
    BY <1>1 DEF Selected, Places, InOrder, Picked, FailedIn
  <2>2. Aggregates(s).failedCost = Total(Selected(s, Failed), LAMBDA x : OrZero(x.cost))
    BY DEF Aggregates, SumWhere
  <2>3. PICK q : q = p
    OBVIOUS
  <2>4. Total(q, LAMBDA x : OrZero(x.cost)) = Charged(q, DOMAIN q)
    BY TotalIsCharged
  <2>5. Selected(s, Failed) = q
    BY <2>1, <2>3
  <2>6. Aggregates(s).failedCost = Total(q, LAMBDA x : OrZero(x.cost))
    BY <2>2, <2>5
  <2> QED BY <2>3, <2>4, <2>6
<1>3. s \in Seq(X)
  <2>1. \A k \in 1..n : s[k] \in X
    OBVIOUS
  <2> HIDE DEF X
  <2>2. s \in [1..n -> X]
    BY <2>1 DEF CostsOf
  <2> QED BY <2>2
<1>4. /\ Lists(b, F, Smaller) /\ N \in Nat /\ p = [k \in 1..N |-> s[b[k]]]
      /\ \A k \in 1..N : b[k] \in F
  <2> HIDE DEF X
  <2>1. F \in SUBSET DOMAIN s
    BY <1>0
  <2>2. /\ Lists(InOrder(F), F, Smaller) /\ Cardinality(F) \in Nat
        /\ Picked(s, F) = [k \in 1..Cardinality(F) |-> s[InOrder(F)[k]]]
        /\ \A k \in 1..Cardinality(F) : InOrder(F)[k] \in F
    BY <1>3, <2>1, PickedIs
  <2> QED BY <2>2
<1> HIDE DEF p
<1>11. DOMAIN p = 1..N /\ \A k \in 1..N : p[k] = s[b[k]]
  BY <1>4
<1>5. /\ b \in [1..N -> F] /\ \A j, k \in 1..N : b[j] = b[k] => j = k
      /\ F = {b[k] : k \in 1..N}
  <2> HIDE DEF b
  <2>1. DOMAIN b = 1..N /\ b = [k \in 1..N |-> b[k]]
    BY <1>4 DEF Lists
  <2>2. \A j, k \in 1..N : b[j] = b[k] => j = k
    BY <1>4 DEF Lists
  <2>3. \A k \in F : \E j \in 1..N : b[j] = k
    BY <1>4 DEF Lists
  <2> QED BY <1>4, <2>1, <2>2, <2>3
<1> HIDE DEF b, N
<1>6. PICK D, E : D = 1..N /\ E = 1..n
  OBVIOUS
<1>7. \A k \in D : b[k] \in E /\ v[k] = w[b[k]] /\ w[b[k]] \in Int
  BY <1>0, <1>4, <1>6
<1>8. \A k \in D : w[b[k]] = OrZero(p[k].cost)
  BY <1>6, <1>7, <1>11 DEF CostsOf
<1>12. v \in [D -> Int]
  BY <1>6, <1>7
<1>13. w \in [E -> Int] /\ b \in [D -> E]
  BY <1>0, <1>5, <1>6
<1>14. IsFiniteSet(D) /\ IsFiniteSet(E)
  BY <1>4, <1>6, FS_Interval
<1>15. \A k \in D : v[k] = w[b[k]] /\ v[k] = OrZero(p[k].cost)
  BY <1>7, <1>8
<1>16. \A j, k \in D : b[j] = b[k] => j = k
  BY <1>5, <1>6
<1> HIDE DEF v
<1>9. Charged(p, D) = SumOver(v, D)
  BY <1>12, <1>14, <1>15, ChargedIsSum
<1>10. SumOver(v, D) = SumOver(w, {b[k] : k \in D})
  BY <1>12, <1>13, <1>14, <1>15, <1>16, SumMoves
<1> QED BY <1>1, <1>2, <1>5, <1>6, <1>9, <1>10, <1>11

\* The steps that drive the cost are, unless there are five or more, those that cost
\* something.
LEMMA DriversAre ==
  ASSUME NEW n \in Nat, NEW s, NEW w, CostsOf(s, w, n), Len(CostDrivers(s)) < 5
  PROVE  Range(CostDrivers(s)) = {k \in 1..n : w[k] > 0}
<1>0. DOMAIN s = 1..n /\ \A k \in 1..n : w[k] \in Nat /\ w[k] = OrZero(s[k].cost)
  BY DEF CostsOf
<1>1. PICK K : K = {k \in 1..n : w[k] > 0}
  OBVIOUS
<1>2. K = {k \in DOMAIN s : OrZero(s[k].cost) > 0}
  BY <1>0, <1>1
<1>3. \A k \in K : s[k].cost = w[k] /\ w[k] \in Nat
  BY <1>0, <1>1 DEF OrZero, Or
<1> DEFINE Dearer(i, j) == \/ s[i].cost > s[j].cost
                           \/ s[i].cost = s[j].cost /\ i < j
           R == {x \in K \X K : Dearer(x[1], x[2])}
           d == DearestFirst(s)
<1>4. \A k \in K : s[k].cost \in Int /\ k \in Int
  BY <1>1, <1>3
<1>7. \A j, k \in K : <<j, k>> \in R <=> Dearer(j, k)
  OBVIOUS
<1> HIDE DEF R
<1>6. Orders(R, K)
  <2>1. \A k \in K : <<k, k>> \notin R
    BY <1>4, <1>7
  <2>2. \A j, k \in K : j # k => <<j, k>> \in R \/ <<k, j>> \in R
    BY <1>4, <1>7
  <2>3. \A i, j, k \in K : <<i, j>> \in R /\ <<j, k>> \in R => <<i, k>> \in R
    BY <1>4, <1>7
  <2> QED BY <2>1, <2>2, <2>3 DEF Orders
<1>8. \A k \in K : Below(K, R, k) = {j \in K : Dearer(j, k)}
  BY <1>7 DEF Below
<1>9. d = [i \in 1..Cardinality(K) |->
             CHOOSE k \in K : Cardinality({j \in K : Dearer(j, k)}) = i - 1]
  BY <1>2 DEF DearestFirst, Ranked
<1>10. IsFiniteSet(K)
  <2>1. IsFiniteSet(1..n) /\ K \in SUBSET (1..n)
    BY <1>1, FS_Interval
  <2> QED BY <2>1, FS_Subset
<1> HIDE DEF d, Dearer
<1>11. ASSUME NEW i \in 1..Cardinality(K)
       PROVE  d[i] \in K /\ Cardinality(Below(K, R, d[i])) = i - 1
  <2>1. PICK k \in K : Cardinality(Below(K, R, k)) = i - 1
    BY <1>6, <1>10, RanksAreTaken
  <2>2. \E j \in K : Cardinality({x \in K : Dearer(x, j)}) = i - 1
    BY <1>8, <2>1
  <2>3. PICK c : c = d[i]
    OBVIOUS
  <2>4. c = CHOOSE m \in K : Cardinality({j \in K : Dearer(j, m)}) = i - 1
    BY <1>9, <2>3
  <2>5. c \in K /\ Cardinality({j \in K : Dearer(j, c)}) = i - 1
    BY <2>2, <2>4
  <2>6. Cardinality(Below(K, R, c)) = i - 1
    BY <1>8, <2>5
  <2> QED BY <2>3, <2>5, <2>6
<1>12. d = [i \in 1..Cardinality(K) |-> d[i]]
  <2>1. d \in [1..Cardinality(K) -> K]
    BY <1>9, <1>11
  <2> QED BY <2>1
<1>13. Lists(d, K, R)
  BY <1>6, <1>10, <1>11, <1>12, ByRankLists
<1>14. PICK N \in Nat : N = Cardinality(K)
  BY <1>10, FS_CardinalityType
<1>15. /\ Len(d) = N /\ d = [i \in 1..N |-> d[i]] /\ \A i \in 1..N : d[i] \in K
       /\ \A k \in K : \E i \in 1..N : d[i] = k
  BY <1>13, <1>14 DEF Lists
<1>16. CostDrivers(s) = SubSeq(d, 1, Lesser(5, N))
  BY <1>15 DEF CostDrivers, d
<1>17. d \in Seq(K)
  <2>1. d \in [1..N -> K]
    BY <1>15
  <2> QED BY <1>14, <2>1
<1>18. N < 5
  <2>1. ASSUME ~ N < 5 PROVE FALSE
    <3>1. Lesser(5, N) = 5
      BY <2>1, <1>14 DEF Lesser
    <3>2. Len(SubSeq(d, 1, 5)) = 5
      BY <1>14, <1>15, <1>17, <2>1
    <3> QED BY <1>16, <3>1, <3>2
  <2> QED BY <2>1
<1>19. CostDrivers(s) = d
  <2>1. Lesser(5, N) = N
    BY <1>14, <1>18 DEF Lesser
  <2>2. SubSeq(d, 1, N) = d
    BY <1>14, <1>15, WholeSubSeq
  <2> QED BY <1>16, <2>1, <2>2
<1>20. Range(d) = K
  BY <1>15 DEF Range
<1> QED BY <1>1, <1>19, <1>20

LEMMA AlikeCosts ==
  ASSUME NEW n \in Nat, NEW s, NEW t, Alike(s, t, n)
  PROVE  /\ \E w : CostsOf(s, w, n) /\ CostsOf(t, w, n)
         /\ DOMAIN s = 1..n /\ DOMAIN t = 1..n
         /\ FailedIn(s) = FailedIn(t) /\ FailedIn(s) \in SUBSET (1..n)
         /\ FailedIn(s) = {k \in 1..n : Failed(s[k])}
         /\ Roots(s) = Roots(t)
<1>1. DOMAIN s = 1..n /\ DOMAIN t = 1..n
  BY DEF Alike
<1>2. FailedIn(s) = FailedIn(t) /\ FailedIn(s) \in SUBSET (1..n)
      /\ FailedIn(s) = {k \in 1..n : Failed(s[k])}
  BY <1>1 DEF Alike, FailedIn, Failed
<1>3. Roots(s) = Roots(t)
  <2>1. Len(s) = n /\ Len(t) = n /\ \A k \in 1..n : s[k].parent = t[k].parent
    BY DEF Alike
  <2>2. PICK S : S = {k \in DOMAIN s : s[k].parent \notin Ids(s)}
    OBVIOUS
  <2>3. S = {k \in DOMAIN t : t[k].parent \notin Ids(t)}
    BY <1>1, <2>1, <2>2 DEF Ids
  <2>4. Roots(s) = InOrder(S)
    BY <2>2 DEF Roots, Places, InOrder
  <2>5. Roots(t) = InOrder(S)
    BY <2>3 DEF Roots, Places, InOrder
  <2> QED BY <2>4, <2>5
<1> DEFINE w == [k \in 1..n |-> OrZero(s[k].cost)]
<1>4. \A k \in 1..n : OrZero(s[k].cost) \in Nat /\ OrZero(t[k].cost) = OrZero(s[k].cost)
  BY DEF Alike, OrZero, Or
<1>5. w \in [1..n -> Nat] /\ \A k \in 1..n : w[k] = OrZero(s[k].cost)
  BY <1>4
<1> HIDE DEF w
<1>6. CostsOf(s, w, n) /\ CostsOf(t, w, n)
  BY <1>4, <1>5 DEF CostsOf, Alike
<1> QED BY <1>1, <1>2, <1>3, <1>6

\* The primary root is one of the spans, unless there is none.
LEMMA RootIs ==
  ASSUME NEW n \in Nat, NEW s, DOMAIN s = 1..n
  PROVE  /\ PrimaryRoot(s) = IF Roots(s) = <<>> THEN None ELSE Roots(s)[1]
         /\ Roots(s) # <<>> => Roots(s)[1] \in 1..n
         /\ None \notin 1..n
<1>1. PICK S : S = {k \in DOMAIN s : s[k].parent \notin Ids(s)}
  OBVIOUS
<1>2. Roots(s) = InOrder(S)
  BY <1>1 DEF Roots, Places, InOrder
<1>3. S \in SUBSET (1..n) /\ S \in SUBSET Int
  BY <1>1
<1>4. IsFiniteSet(1..n)
  BY FS_Interval
<1>5. IsFiniteSet(S)
  BY <1>3, <1>4, FS_Subset
<1>6. Lists(InOrder(S), S, Smaller)
  BY <1>3, <1>5, InOrderLists
<1>7. PICK N \in Nat : N = Cardinality(S)
  BY <1>5, FS_CardinalityType
<1>8. PICK r : r = Roots(s)
  OBVIOUS
<1>9. r = [k \in 1..N |-> r[k]] /\ Len(r) = N /\ \A k \in 1..N : r[k] \in S
  BY <1>2, <1>6, <1>7, <1>8 DEF Lists
<1>10. r # <<>> => r[1] \in S
  <2>1. r # <<>> => 1 \in 1..N
    BY <1>9
  <2> QED BY <1>9, <2>1
<1>11. None \notin 1..n
  BY TablesAreFull
<1> QED BY <1>3, <1>8, <1>10, <1>11 DEF PrimaryRoot, First

\* What is claimed of a summary.
SaysOf(spans, sum) ==
  LET spent(S) == MapThenSumSet(LAMBDA i : OrZero(spans[i].cost), S)
      failed == {i \in DOMAIN spans : spans[i].status \in {"failure", "timeout"}}
      rootFailed == Roots(spans) # <<>> /\ Roots(spans)[1] \in failed
  IN  /\ sum.cost = spent(DOMAIN spans)
      /\ Len(sum.drivers) < 5 => sum.cost = spent(Range(sum.drivers))
      /\ spent(failed) <= sum.wasted /\ sum.wasted <= sum.cost
      /\ rootFailed => sum.wasted = sum.cost
      /\ sum.outcome = "success" <=> failed = {}
      /\ sum.perSuccess = None <=> rootFailed
      /\ Len(Selected(sum.findings, LAMBDA f : f.category = "step_failure"))
           = Cardinality(failed)

LEMMA StepsTold ==
  ASSUME NEW f, NEW c \in Nat, Tells(f, c)
  PROVE  Len(Selected(f, LAMBDA x : x.category = "step_failure")) = c
<1>1. f \in Seq(AFinding) /\ Cardinality(StepsIn(f)) = c
  BY DEF Tells
<1>2. Selected(f, LAMBDA x : x.category = "step_failure") = Picked(f, StepsIn(f))
  BY DEF Selected, Places, InOrder, Picked, StepsIn
<1>3. StepsIn(f) \in SUBSET DOMAIN f
  BY DEF StepsIn
<1>4. Len(Picked(f, StepsIn(f))) = Cardinality(StepsIn(f))
  BY <1>1, <1>3, PickedIs
<1> QED BY <1>1, <1>2, <1>4

LEMMA SummaryFits ==
  ASSUME NEW n \in Nat, NEW s, NEW t, Alike(s, t, n), NEW sum,
         sum = SummaryOf(s, Aggregates(s), RunFigures(s, PrimaryRoot(s)))
  PROVE  SaysOf(t, sum)
<1>1. PICK w : CostsOf(s, w, n) /\ CostsOf(t, w, n)
  BY AlikeCosts
<1>2. /\ DOMAIN s = 1..n /\ DOMAIN t = 1..n /\ Roots(t) = Roots(s)
      /\ FailedIn(t) = FailedIn(s) /\ FailedIn(s) \in SUBSET (1..n)
      /\ FailedIn(s) = {k \in 1..n : Failed(s[k])}
  BY AlikeCosts
<1>3. PICK F : F = FailedIn(s)
  OBVIOUS
<1>4. PICK D : D = 1..n
  OBVIOUS
<1>5. PICK root : root = PrimaryRoot(s)
  OBVIOUS
<1>6. PICK total : total = SumOver(w, D)
  OBVIOUS
<1>7. PICK lost : lost = SumOver(w, F)
  OBVIOUS
<1>8. IsFiniteSet(D) /\ w \in [D -> Nat] /\ w \in [D -> Int] /\ F \in SUBSET D
  BY <1>1, <1>2, <1>3, <1>4, FS_Interval DEF CostsOf
<1>9. /\ SumOver(w, {}) = 0 /\ total \in Int /\ lost \in Int
  BY <1>6, <1>7, <1>8, SumOverProperties
<1>10. 0 <= lost /\ lost <= total
  <2>1. \A X, Y \in SUBSET D : X \subseteq Y => SumOver(w, X) <= SumOver(w, Y)
    BY <1>8, SumOfSome
  <2> QED BY <1>6, <1>7, <1>8, <1>9, <2>1
<1>11. /\ Aggregates(s).cost = total /\ Aggregates(s).failedCost = lost
  BY <1>1, <1>3, <1>4, <1>6, <1>7, CostIsSum, FailedCostIsSum
<1>12. /\ sum.cost = total /\ sum.outcome = Outcome(s, root)
       /\ sum.wasted = WastedCost(Outcome(s, root), total, lost)
       /\ sum.perSuccess = IF Useful(Outcome(s, root)) THEN total ELSE None
       /\ sum.drivers = CostDrivers(s)
       /\ \E figures : sum.findings = Findings(s, figures)
  BY <1>5, <1>11, SummaryIs
<1>13. PICK bad : bad <=> (Roots(s) # <<>> /\ Roots(s)[1] \in F)
  OBVIOUS
<1>14. bad <=> (root # None /\ Failed(s[root]))
  BY <1>2, <1>3, <1>5, <1>13, RootIs
<1>15. Outcome(s, root) = IF bad THEN s[root].status
                          ELSE IF F # {} THEN "partial_success" ELSE "success"
  BY <1>2, <1>3, <1>14 DEF Outcome
<1>16. bad => s[root].status \in {"failure", "timeout"} /\ F # {}
  BY <1>2, <1>3, <1>13, <1>14 DEF Failed
<1>17. \A X \in SUBSET D : MapThenSumSet(LAMBDA i : OrZero(t[i].cost), X) = SumOver(w, X)
  BY <1>1, <1>4, SpentIsSum
<1>18. {i \in DOMAIN t : t[i].status \in {"failure", "timeout"}} = F
  BY <1>2, <1>3 DEF FailedIn, Failed
<1>19. Len(sum.drivers) < 5 => total = SumOver(w, Range(sum.drivers))
                                /\ Range(sum.drivers) \in SUBSET D
  <2>1. SUFFICES ASSUME Len(CostDrivers(s)) < 5
                 PROVE  total = SumOver(w, Range(CostDrivers(s)))
                        /\ Range(CostDrivers(s)) \in SUBSET D
    BY <1>12
  <2>2. PICK K : K = {k \in D : w[k] > 0}
    OBVIOUS
  <2>3. Range(CostDrivers(s)) = K
    BY <1>1, <1>4, <2>1, <2>2, DriversAre
  <2>4. K \in SUBSET D /\ \A k \in D \ K : w[k] = 0
    BY <1>8, <2>2
  <2>5. \A X, Y \in SUBSET D : X \subseteq Y /\ (\A k \in Y \ X : w[k] = 0) =>
          SumOver(w, X) = SumOver(w, Y)
    BY <1>8, SumOfSome
  <2>6. SumOver(w, K) = SumOver(w, D)
    BY <2>4, <2>5
  <2> QED BY <1>6, <2>3, <2>4, <2>6
<1>20. Len(Selected(sum.findings, LAMBDA x : x.category = "step_failure")) = Cardinality(F)
  <2>1. PICK figures : sum.findings = Findings(s, figures)
    BY <1>12
  <2>2. s = [k \in 1..n |-> s[k]]
    BY DEF Alike
  <2>3. Tells(Findings(s, figures), Cardinality({k \in 1..n : Failed(s[k])}))
    BY <2>2, FindingsTell
  <2>4. PICK f : f = sum.findings
    OBVIOUS
  <2>5. Tells(f, Cardinality(F))
    BY <1>2, <1>3, <2>1, <2>3, <2>4
  <2>6. Cardinality(F) \in Nat
    BY <1>8, FS_Subset, FS_CardinalityType
  <2>7. Len(Selected(f, LAMBDA x : x.category = "step_failure")) = Cardinality(F)
    BY <2>5, <2>6, StepsTold
  <2> QED BY <2>4, <2>7
<1>21. /\ lost <= sum.wasted /\ sum.wasted <= total
       /\ bad => sum.wasted = total
       /\ sum.outcome = "success" <=> F = {}
       /\ sum.perSuccess = None <=> bad
  <2>1. total # None
    BY <1>9, <1>10, TablesAreFull
  <2>2. CASE bad
    BY <1>10, <1>9, <1>12, <1>15, <1>16, <2>2 DEF WastedCost, Useful
  <2>3. CASE ~ bad /\ F # {}
    BY <1>10, <1>9, <1>12, <1>15, <2>1, <2>3 DEF WastedCost, Useful
  <2>4. CASE ~ bad /\ F = {}
    BY <1>7, <1>10, <1>9, <1>12, <1>15, <2>1, <2>4 DEF WastedCost, Useful
  <2> QED BY <2>2, <2>3, <2>4
<1>22. /\ MapThenSumSet(LAMBDA i : OrZero(t[i].cost), DOMAIN t) = total
       /\ MapThenSumSet(LAMBDA i : OrZero(t[i].cost), F) = lost
       /\ Len(sum.drivers) < 5 =>
            MapThenSumSet(LAMBDA i : OrZero(t[i].cost), Range(sum.drivers)) = total
  BY <1>2, <1>4, <1>6, <1>7, <1>8, <1>17, <1>19
<1> QED BY <1>2, <1>12, <1>13, <1>18, <1>20, <1>21, <1>22 DEF SaysOf

LEMMA StoredFit ==
  ASSUME StoreInv
  PROVE  SummaryAgreesWithSpans
<1>1. SummaryAgreesWithSpans <=>
        \A id \in DOMAIN saved : "golden" \in DOMAIN saved[id].summary =>
          SaysOf(saved[id].spans, saved[id].summary)
  BY DEF SummaryAgreesWithSpans, SaysOf
<1> SUFFICES ASSUME NEW id \in DOMAIN saved, "golden" \in DOMAIN saved[id].summary
             PROVE  SaysOf(saved[id].spans, saved[id].summary)
  BY <1>1
<1>2. \A payload, now : "golden" \notin
        DOMAIN StoredRecord(Dated(RecordOfTrace(payload, id, now))).summary
  <2> SUFFICES ASSUME NEW payload, NEW now
               PROVE  "golden" \notin
                        DOMAIN StoredRecord(Dated(RecordOfTrace(payload, id, now))).summary
    OBVIOUS
  <2>1. \A spans : DOMAIN ImportedSummary(spans) = DOMAIN EmptySummary
    BY DEF ImportedSummary
  <2>2. "golden" \notin DOMAIN EmptySummary
    BY DEF EmptySummary
  <2>3. \E spans : RecordOfTrace(payload, id, now).summary = ImportedSummary(spans)
    BY DEF RecordOfTrace, ImportedRecord
  <2>4. PICK record : record = Dated(RecordOfTrace(payload, id, now))
    OBVIOUS
  <2>5. /\ DOMAIN record = {"trace", "created", "spans", "summary"}
        /\ record.summary = RecordOfTrace(payload, id, now).summary
    BY <2>4, RecordIs
  <2>6. StoredRecord(record).summary = record.summary
    BY <2>5, StoredIs
  <2> QED BY <2>1, <2>2, <2>3, <2>4, <2>5, <2>6
<1>3. FromRun(id, saved[id])
  <2>1. FromRun(id, saved[id]) \/ FromExport(id, saved[id]) \/ FromRequest(id, saved[id])
    BY DEF StoreInv, KeptInv
  <2> QED BY <1>2, <2>1 DEF FromExport, FromRequest
<1>4. PICK run \in Runs : saved[id] = StoredRecord(Traced(run, id))
  BY <1>3 DEF FromRun
<1>5. PICK s, t, sum, n : /\ s = Concluded(run, id) /\ t = saved[id].spans
                          /\ sum = saved[id].summary /\ n = Len(run)
  OBVIOUS
<1>6. /\ Alike(s, t, n) /\ n \in Nat
      /\ sum = SummaryOf(s, Aggregates(s), RunFigures(s, PrimaryRoot(s)))
  BY <1>4, <1>5, RunKept
<1>7. SaysOf(t, sum)
  BY <1>6, SummaryFits
<1> QED BY <1>5, <1>7

\* The summary of a trace that was analysed says what its spans say - the cost, what was
\* spent in vain, the outcome, the steps that drive the cost, a finding for each failed
\* step - for any processes, runs and prices (analyzer.py:270-586).
THEOREM SummaryAgreesWithSpansThm == Spec => []SummaryAgreesWithSpans
BY StoreThm, StoredFit, PTL

----------
(* The critical path *)

\* The spans at the places in B have run: they have a start, an end and a duration.
Ran(spans, B) ==
  \A i \in B : spans[i].start \in Int /\ spans[i].end \in Int /\ spans[i].dur \in Nat

\* The pairs of them of which the first comes first: by start, end and place.
Earlier(spans, B) ==
  {x \in B \X B :
     \/ spans[x[1]].start < spans[x[2]].start
     \/ spans[x[1]].start = spans[x[2]].start /\ spans[x[1]].end < spans[x[2]].end
     \/ /\ spans[x[1]].start = spans[x[2]].start /\ spans[x[1]].end = spans[x[2]].end
        /\ x[1] < x[2]}

\* ByTime() lists them in that order.
LEMMA ByTimeLists ==
  ASSUME NEW spans, NEW B \in SUBSET Int, Ran(spans, B), NEW K \in SUBSET B, IsFiniteSet(K)
  PROVE  Lists(ByTime(spans, K), K, Earlier(spans, B))
<1> DEFINE R == Earlier(spans, B)
           Before(j, k) ==
             \/ spans[j].start < spans[k].start
             \/ spans[j].start = spans[k].start /\ spans[j].end < spans[k].end
             \/ spans[j].start = spans[k].start /\ spans[j].end = spans[k].end /\ j < k
           s == ByTime(spans, K)
           OfRank(n) == CHOOSE k \in K : Cardinality({j \in K : Before(j, k)}) = n - 1
<1>1. s = [n \in 1..Cardinality(K) |-> OfRank(n)]
  BY DEF ByTime, Ranked
<1>2. ASSUME NEW j \in B, NEW k \in B PROVE <<j, k>> \in R <=> Before(j, k)
  <2>1. <<j, k>> \in B \X B /\ <<j, k>>[1] = j /\ <<j, k>>[2] = k
    OBVIOUS
  <2> QED BY <2>1 DEF Earlier
<1>3. Orders(R, K)
  <2>0. \A i \in B : spans[i].start \in Int /\ spans[i].end \in Int /\ i \in Int
    BY DEF Ran
  <2> HIDE DEF R
  <2>1. \A k \in K : <<k, k>> \notin R
    BY <1>2, <2>0
  <2>2. \A j, k \in K : j # k => <<j, k>> \in R \/ <<k, j>> \in R
    BY <1>2, <2>0
  <2>3. \A i, j, k \in K : <<i, j>> \in R /\ <<j, k>> \in R => <<i, k>> \in R
    BY <1>2, <2>0
  <2> QED BY <2>1, <2>2, <2>3 DEF Orders
<1> HIDE DEF R, Before, s, OfRank
<1>4. \A k \in K : {j \in K : Before(j, k)} = Below(K, R, k)
  BY <1>2 DEF Below
<1>5. ASSUME NEW n \in 1..Cardinality(K)
      PROVE  s[n] \in K /\ Cardinality(Below(K, R, s[n])) = n - 1
  <2>1. PICK i \in K : Cardinality(Below(K, R, i)) = n - 1
    BY <1>3, RanksAreTaken
  <2>2. \E k \in K : Cardinality({j \in K : Before(j, k)}) = n - 1
    BY <1>4, <2>1
  <2>3. s[n] \in K /\ Cardinality({j \in K : Before(j, s[n])}) = n - 1
    BY <1>1, <2>2 DEF OfRank
  <2> QED BY <1>4, <2>3
<1>6. s = [n \in 1..Cardinality(K) |-> s[n]]
  BY <1>1
<1>7. Lists(s, K, R)
  BY <1>3, <1>5, <1>6, ByRankLists
<1> QED BY <1>7 DEF R, s

\* In the set S, each element has ended when the next one in the order R starts.
InTurns(spans, R, S) ==
  \A a, b \in S :
    <<a, b>> \in R /\ (\A c \in S : ~ (<<a, c>> \in R /\ <<c, b>> \in R))
      => Follows(spans, b, a)

LEMMA SequentialIs ==
  ASSUME NEW spans, NEW B \in SUBSET Int, Ran(spans, B), NEW S \in SUBSET B, IsFiniteSet(S)
  PROVE  Sequential(spans, S) <=> InTurns(spans, Earlier(spans, B), S)
<1> DEFINE R == Earlier(spans, B)
           order == ByTime(spans, S)
<1>1. PICK N \in Nat : /\ Len(order) = N
                       /\ \A n \in 1..N : order[n] \in S
                       /\ \A m, n \in 1..N : m < n <=> <<order[m], order[n]>> \in R
                       /\ \A k \in S : \E n \in 1..N : order[n] = k
  <2>1. Lists(order, S, R)
    BY ByTimeLists
  <2> HIDE DEF R, order
  <2> QED BY <2>1 DEF Lists
<1>2. Sequential(spans, S) <=> \A k \in 1..(N - 1) : Follows(spans, order[k + 1], order[k])
  BY <1>1 DEF Sequential, Follows
<1> HIDE DEF R, order
<1>3. ASSUME \A k \in 1..(N - 1) : Follows(spans, order[k + 1], order[k]),
             NEW a \in S, NEW b \in S, <<a, b>> \in R,
             \A c \in S : ~ (<<a, c>> \in R /\ <<c, b>> \in R)
      PROVE  Follows(spans, b, a)
  <2>1. PICK m \in 1..N : order[m] = a
    BY <1>1
  <2>2. PICK n \in 1..N : order[n] = b
    BY <1>1
  <2>3. m < n
    BY <1>1, <1>3, <2>1, <2>2
  <2>4. n = m + 1
    <3> SUFFICES ASSUME m + 1 < n PROVE FALSE
      BY <2>3
    <3>1. m + 1 \in 1..N /\ m < m + 1
      BY <2>3
    <3>2. <<a, order[m + 1]>> \in R /\ <<order[m + 1], b>> \in R /\ order[m + 1] \in S
      BY <1>1, <2>1, <2>2, <3>1
    <3> QED BY <1>3, <3>2
  <2>5. m \in 1..(N - 1)
    BY <2>3
  <2> QED BY <1>3, <2>1, <2>2, <2>4, <2>5
<1>4. ASSUME InTurns(spans, R, S), NEW k \in 1..(N - 1)
      PROVE  Follows(spans, order[k + 1], order[k])
  <2>1. k \in 1..N /\ k + 1 \in 1..N /\ k < k + 1
    OBVIOUS
  <2>2. <<order[k], order[k + 1]>> \in R /\ order[k] \in S /\ order[k + 1] \in S
    BY <1>1, <2>1
  <2>3. ASSUME NEW c \in S, <<order[k], c>> \in R, <<c, order[k + 1]>> \in R PROVE FALSE
    <3>1. PICK n \in 1..N : order[n] = c
      BY <1>1
    <3>2. k < n /\ n < k + 1
      BY <1>1, <2>1, <2>3, <3>1
    <3> QED BY <3>2
  <2> QED BY <1>4, <2>2, <2>3 DEF InTurns
<1>5. (\A k \in 1..(N - 1) : Follows(spans, order[k + 1], order[k])) <=> InTurns(spans, R, S)
  BY <1>3, <1>4 DEF InTurns
<1> QED BY <1>2, <1>5 DEF R

\* The first of the greatest durations.
LEMMA GreatestIs ==
  ASSUME NEW n \in Nat, n # 0, NEW F, DOMAIN F = 1..n, \A k \in 1..n : F[k].dur \in Nat
  PROVE  \E k \in 1..n : /\ FirstGreatest(F, LAMBDA c : c.dur) = F[k]
                         /\ \A j \in 1..n : F[j].dur <= F[k].dur
<1> DEFINE f == [k \in 1..n |-> F[k].dur]
           IsFirst(k) == \A j \in DOMAIN F : F[j].dur <= F[k].dur /\ (j < k => F[j].dur < F[k].dur)
<1>1. f \in [1..n -> Int]
  OBVIOUS
<1>2. \E k \in 1..n : \A j \in 1..n : f[j] <= f[k] /\ (j < k => f[j] < f[k])
  <2> HIDE DEF f
  <2> QED BY <1>1, FirstOfGreatest
<1>3. \E k \in DOMAIN F : IsFirst(k)
  BY <1>2
<1>4. FirstGreatest(F, LAMBDA c : c.dur) = F[CHOOSE k \in DOMAIN F : IsFirst(k)]
  BY DEF FirstGreatest
<1>5. PICK k : k = CHOOSE i \in DOMAIN F : IsFirst(i)
  OBVIOUS
<1>6. k \in DOMAIN F /\ IsFirst(k)
  <2> HIDE DEF IsFirst
  <2> QED BY <1>3, <1>5
<1> QED BY <1>4, <1>5, <1>6

\* The chain that is gone on with took as long as any; none is, if none took time.
LEMMA LongestIs ==
  ASSUME NEW n \in Nat, NEW F, DOMAIN F = 1..n, \A k \in 1..n : F[k].dur \in Nat
  PROVE  \/ /\ LongestChain(F) = [dur |-> 0, path |-> <<>>]
            /\ \A k \in 1..n : F[k].dur = 0
         \/ \E k \in 1..n : LongestChain(F) = F[k] /\ \A j \in 1..n : F[j].dur <= F[k].dur
<1>1. CASE \A k \in 1..n : F[k].dur = 0
  BY <1>1 DEF LongestChain
<1>2. CASE ~ \A k \in 1..n : F[k].dur = 0
  <2>1. LongestChain(F) = FirstGreatest(F, LAMBDA c : c.dur)
    BY <1>2 DEF LongestChain
  <2>2. n # 0
    BY <1>2
  <2>3. \E k \in 1..n : /\ FirstGreatest(F, LAMBDA c : c.dur) = F[k]
                        /\ \A j \in 1..n : F[j].dur <= F[k].dur
    BY <2>2, GreatestIs
  <2> QED BY <2>1, <2>3
<1> QED BY <1>1, <1>2

\* The first k of the siblings, these being in order.
Firsts(order, k) == {order[j] : j \in 1..k}

Sorts(order, N, R) ==
  /\ \A m, n \in 1..N : m < n <=> <<order[m], order[n]>> \in R
  /\ \A m, n \in 1..N : order[m] = order[n] => m = n

\* Chain c is a longest that ends with the k-th.
Longest(spans, w, R, order, k, c) ==
  /\ c.path \in Seq(Firsts(order, k)) /\ c.path # <<>> /\ Last(c.path) = order[k]
  /\ order[k] \in Range(c.path) /\ Range(c.path) \in SUBSET Firsts(order, k)
  /\ InTurns(spans, R, Range(c.path))
  /\ c.dur = SumOver(w, Range(c.path)) /\ c.dur \in Nat
  /\ \A S \in SUBSET Firsts(order, k) :
       order[k] \in S /\ InTurns(spans, R, S) => SumOver(w, S) <= c.dur

\* The chain that goes on, with the k-th sibling, from the chains before it.
ChainAfter(spans, order, before, k) ==
  GoneOn(spans, LongestChain(Selected(before, LAMBDA c : Follows(spans, order[k], Last(c.path)))),
         order[k])

LEMMA PathAppends ==
  ASSUME NEW X, NEW s \in Seq(X), NEW x \in X
  PROVE  LET t == Append(s, x)
         IN  t \in Seq(X) /\ t # <<>> /\ Last(t) = x /\ x \in Range(t) /\ Range(t) = Range(s) \cup {x}
<1> DEFINE t == Append(s, x)
           n == Len(s)
<1>1. /\ n \in Nat /\ DOMAIN s = 1..n /\ DOMAIN t = 1..(n + 1) /\ Len(t) = n + 1
      /\ t[n + 1] = x /\ \A i \in 1..n : t[i] = s[i]
  OBVIOUS
<1>2. t \in Seq(X) /\ t # <<>> /\ Last(t) = x
  BY <1>1 DEF Last
<1> HIDE DEF t, n
<1>3. \A i : i \in 1..(n + 1) <=> i \in 1..n \/ i = n + 1
  BY <1>1
<1>4. Range(t) = Range(s) \cup {x}
  BY <1>1, <1>3 DEF Range
<1> QED BY <1>2, <1>4 DEF t

\* The chains that the k-th sibling may go on from, and the one that it does.
LEMMA GoneOnFrom ==
  ASSUME NEW spans, NEW order, NEW k \in Nat, k # 0, NEW before, before = [j \in 1..(k - 1) |-> before[j]],
         \A j \in 1..(k - 1) : Last(before[j].path) = order[j] /\ before[j].dur \in Nat
  PROVE  LET S == {j \in 1..(k - 1) : Follows(spans, order[k], order[j])}
         IN  \E c : /\ ChainAfter(spans, order, before, k) = GoneOn(spans, c, order[k])
                    /\ \/ /\ c = [dur |-> 0, path |-> <<>>]
                          /\ \A j \in S : before[j].dur = 0
                       \/ \E m \in S : c = before[m] /\ \A j \in S : before[j].dur <= c.dur
<1> DEFINE S == {j \in 1..(k - 1) : Follows(spans, order[k], order[j])}
           T == {j \in DOMAIN before : Follows(spans, order[k], Last(before[j].path))}
           F == Picked(before, T)
           X == {before[j] : j \in 1..(k - 1)}
<1>1. DOMAIN before = 1..(k - 1) /\ T = S /\ T \in SUBSET DOMAIN before
  OBVIOUS
<1>2. Selected(before, LAMBDA c : Follows(spans, order[k], Last(c.path))) = F
  BY DEF Selected, Places, InOrder, Picked
<1>3. before \in Seq(X)
  <2>1. PICK n \in Nat : n = k - 1
    OBVIOUS
  <2>2. before \in [1..n -> X]
    BY <2>1
  <2> HIDE DEF X
  <2> QED BY <2>2
<1>12. T \in SUBSET DOMAIN before
  BY <1>1
<1> HIDE DEF F, T, X
<1>13. /\ Lists(InOrder(T), T, Smaller) /\ Cardinality(T) \in Nat
       /\ F = [n \in 1..Cardinality(T) |-> before[InOrder(T)[n]]]
  BY <1>3, <1>12, PickedIs DEF F
<1>4. PICK N \in Nat : /\ DOMAIN F = 1..N
                       /\ \A n \in 1..N : \E m \in T : F[n] = before[m]
                       /\ \A m \in T : \E n \in 1..N : F[n] = before[m]
  <2>2. DOMAIN F = 1..Cardinality(T)
    BY <1>13
  <2>3. \A n \in 1..Cardinality(T) : InOrder(T)[n] \in T /\ F[n] = before[InOrder(T)[n]]
    BY <1>13 DEF Lists
  <2>4. \A m \in T : \E n \in 1..Cardinality(T) : InOrder(T)[n] = m
    BY <1>13 DEF Lists
  <2> QED BY <1>13, <2>2, <2>3, <2>4
<1>5. \A n \in 1..N : F[n].dur \in Nat
  BY <1>1, <1>4
<1>6. PICK c : c = LongestChain(F)
  OBVIOUS
<1>7. ChainAfter(spans, order, before, k) = GoneOn(spans, c, order[k])
  BY <1>2, <1>6 DEF ChainAfter
<1>8. \/ c = [dur |-> 0, path |-> <<>>] /\ \A n \in 1..N : F[n].dur = 0
      \/ \E n \in 1..N : c = F[n] /\ \A j \in 1..N : F[j].dur <= F[n].dur
  BY <1>4, <1>5, <1>6, LongestIs
<1>9. ASSUME \A n \in 1..N : F[n].dur = 0 PROVE \A j \in S : before[j].dur = 0
  BY <1>1, <1>4, <1>9
<1>10. ASSUME NEW n \in 1..N, c = F[n], \A j \in 1..N : F[j].dur <= F[n].dur
       PROVE  \E m \in S : c = before[m] /\ \A j \in S : before[j].dur <= c.dur
  BY <1>1, <1>4, <1>10
<1> HIDE DEF S
<1>11. \/ /\ c = [dur |-> 0, path |-> <<>>]
          /\ \A j \in S : before[j].dur = 0
       \/ \E m \in S : c = before[m] /\ \A j \in S : before[j].dur <= c.dur
  BY <1>8, <1>9, <1>10
<1> QED BY <1>7, <1>11 DEF S

LEMMA TurnsGoOn ==
  ASSUME NEW spans, NEW R, NEW order, NEW N \in Nat, Sorts(order, N, R),
         NEW k \in 1..N, NEW m \in 1..(k - 1), NEW S \in SUBSET Firsts(order, m), order[m] \in S,
         InTurns(spans, R, S), Follows(spans, order[k], order[m])
  PROVE  /\ InTurns(spans, R, S \cup {order[k]}) /\ order[k] \notin S
         /\ S \cup {order[k]} \in SUBSET Firsts(order, k)
<1>1. \A a \in S : \E i \in 1..N : i <= m /\ a = order[i]
  BY DEF Firsts
<1>2. m \in 1..N /\ m < k
  OBVIOUS
<1>3. order[k] \notin S
  BY <1>1, <1>2 DEF Sorts
<1>4. S \cup {order[k]} \in SUBSET Firsts(order, k)
  BY <1>1, <1>2 DEF Firsts
<1>5. ASSUME NEW a \in S \cup {order[k]}, NEW b \in S \cup {order[k]}, <<a, b>> \in R,
             \A c \in S \cup {order[k]} : ~ (<<a, c>> \in R /\ <<c, b>> \in R)
      PROVE  Follows(spans, b, a)
  <2>1. PICK i \in 1..N : a = order[i] /\ (a \in S => i <= m) /\ (a \notin S => i = k)
    BY <1>1
  <2>2. PICK j \in 1..N : b = order[j] /\ (b \in S => j <= m) /\ (b \notin S => j = k)
    BY <1>1
  <2>3. i < j
    BY <1>5, <2>1, <2>2 DEF Sorts
  <2>4. a \in S
    BY <1>2, <2>1, <2>2, <2>3
  <2>5. CASE b \in S
    BY <1>5, <2>4, <2>5 DEF InTurns
  <2>6. CASE b \notin S
    <3>1. i = m
      <4> SUFFICES ASSUME i < m PROVE FALSE
        BY <2>1, <2>4
      <4>1. <<a, order[m]>> \in R /\ <<order[m], b>> \in R
        BY <1>2, <2>1, <2>2, <2>6 DEF Sorts
      <4> QED BY <1>5, <4>1
    <3> QED BY <2>1, <2>2, <2>6, <3>1
  <2> QED BY <2>5, <2>6
<1>6. InTurns(spans, R, S \cup {order[k]})
  BY <1>5 DEF InTurns
<1> QED BY <1>3, <1>4, <1>6

LEMMA TurnsBefore ==
  ASSUME NEW spans, NEW R, NEW order, NEW N \in Nat, Sorts(order, N, R),
         NEW k \in 1..N, NEW S \in SUBSET Firsts(order, k), order[k] \in S,
         InTurns(spans, R, S), NEW V, V = S \ {order[k]}, V # {}
  PROVE  \E j \in 1..(k - 1) : /\ V \in SUBSET Firsts(order, j) /\ order[j] \in V
                               /\ InTurns(spans, R, V) /\ Follows(spans, order[k], order[j])
<1> DEFINE D == {j \in 1..(k - 1) : order[j] \in S}
<1>1. \A a \in S : \E i \in 1..N : i <= k /\ a = order[i]
  BY DEF Firsts
<1>2. ASSUME NEW a \in S \ {order[k]} PROVE \E i \in D : a = order[i]
  BY <1>1
<1>3. PICK j \in D : \A i \in D : i <= j
  <2>1. IsFiniteSet(1..(k - 1))
    BY FS_Interval
  <2>2. D \in SUBSET (1..(k - 1))
    OBVIOUS
  <2>3. IsFiniteSet(D)
    BY <2>1, <2>2, FS_Subset
  <2>4. D \in SUBSET Int /\ D # {}
    BY <1>2
  <2> HIDE DEF D
  <2> QED BY <2>3, <2>4, GreatestOf
<1>4. j \in 1..(k - 1) /\ j \in 1..N /\ k \in 1..N /\ j < k /\ order[j] \in S
  OBVIOUS
<1>5. order[j] \in S \ {order[k]}
  BY <1>4 DEF Sorts
<1>6. S \ {order[k]} \in SUBSET Firsts(order, j)
  <2> SUFFICES ASSUME NEW a \in S \ {order[k]} PROVE a \in Firsts(order, j)
    OBVIOUS
  <2>1. PICK i \in D : a = order[i]
    BY <1>2
  <2>2. i <= j /\ i \in 1..j
    BY <1>3
  <2> QED BY <2>1, <2>2 DEF Firsts
<1>7. ASSUME NEW a \in S \ {order[k]}, NEW b \in S \ {order[k]}, <<a, b>> \in R,
             \A c \in S \ {order[k]} : ~ (<<a, c>> \in R /\ <<c, b>> \in R)
      PROVE  Follows(spans, b, a)
  <2>1. PICK i \in D : b = order[i]
    BY <1>2
  <2>2. i \in 1..N /\ i < k
    BY <2>1
  <2>3. <<order[k], b>> \notin R
    BY <2>1, <2>2 DEF Sorts
  <2>4. \A c \in S : ~ (<<a, c>> \in R /\ <<c, b>> \in R)
    BY <1>7, <2>3
  <2> QED BY <1>7, <2>4 DEF InTurns
<1>8. Follows(spans, order[k], order[j])
  <2>1. <<order[j], order[k]>> \in R
    BY <1>4 DEF Sorts
  <2>2. ASSUME NEW c \in S, <<order[j], c>> \in R, <<c, order[k]>> \in R PROVE FALSE
    <3>1. PICK i \in 1..N : c = order[i]
      BY <1>1
    <3>2. j < i /\ i < k
      BY <1>4, <2>2, <3>1 DEF Sorts
    <3>3. i \in D
      BY <3>1, <3>2
    <3> QED BY <1>3, <3>2, <3>3
  <2> QED BY <1>4, <2>1, <2>2 DEF InTurns
<1>9. InTurns(spans, R, S \ {order[k]})
  BY <1>7 DEF InTurns
<1> QED BY <1>4, <1>5, <1>6, <1>8, <1>9

\* A chain that goes on from the longest ones is a longest one.
LEMMA ChainIsLongest ==
  ASSUME NEW spans, NEW B, IsFiniteSet(B), NEW w \in [B -> Nat], NEW R,
         NEW order, NEW N \in Nat, Sorts(order, N, R), \A n \in 1..N : order[n] \in B,
         NEW k \in 1..N, spans[order[k]].dur = w[order[k]],
         NEW before, before = [j \in 1..(k - 1) |-> before[j]],
         \A j \in 1..(k - 1) : Longest(spans, w, R, order, j, before[j])
  PROVE  Longest(spans, w, R, order, k, ChainAfter(spans, order, before, k))
<1>0. w \in [B -> Int] /\ k \in Nat /\ k # 0
  OBVIOUS
<1>1. PICK x : x = order[k] /\ x \in B
  OBVIOUS
<1>2. \A j \in 1..(k - 1) : Last(before[j].path) = order[j] /\ before[j].dur \in Nat
  BY DEF Longest
<1> DEFINE S == {j \in 1..(k - 1) : Follows(spans, order[k], order[j])}
<1>3. PICK c : /\ ChainAfter(spans, order, before, k) = GoneOn(spans, c, order[k])
               /\ \/ /\ c = [dur |-> 0, path |-> <<>>]
                     /\ \A j \in S : before[j].dur = 0
                  \/ \E m \in S : c = before[m] /\ \A j \in S : before[j].dur <= c.dur
  BY <1>0, <1>2, GoneOnFrom
<1>4. PICK T : T = Range(c.path)
  OBVIOUS
<1>5. PICK g : g = ChainAfter(spans, order, before, k)
  OBVIOUS
<1>6. g = [dur |-> c.dur + w[x], path |-> Append(c.path, x)]
  BY <1>1, <1>3, <1>5 DEF GoneOn
<1>7. ASSUME NEW U \in SUBSET Firsts(order, k) PROVE U \in SUBSET B
  BY DEF Firsts
<1>8. ASSUME NEW U \in SUBSET B, x \notin U
      PROVE  SumOver(w, U \cup {x}) = w[x] + SumOver(w, U) /\ SumOver(w, U) \in Int
  <2>1. PICK V : V = U \cup {x}
    OBVIOUS
  <2>2. V \in SUBSET B /\ V \ {x} = U /\ x \in V
    BY <1>1, <1>8, <2>1
  <2>3. SumOver(w, V) = w[x] + SumOver(w, V \ {x})
    BY <1>0, <2>2, SumOverProperties
  <2>4. SumOver(w, U) \in Int
    BY <1>0, SumOverProperties
  <2> QED BY <2>1, <2>2, <2>3, <2>4
<1>9. /\ c.path \in Seq(Firsts(order, k)) /\ x \notin T /\ T \in SUBSET Firsts(order, k)
      /\ T \cup {x} \in SUBSET Firsts(order, k) /\ InTurns(spans, R, T \cup {x})
      /\ c.dur = SumOver(w, T) /\ c.dur \in Nat
  <2>1. CASE c = [dur |-> 0, path |-> <<>>]
    <3>1. T = {} /\ c.path = <<>> /\ c.dur = 0
      BY <1>4, <2>1 DEF Range
    <3>2. c.path \in Seq(Firsts(order, k))
      BY <3>1
    <3>3. x \in Firsts(order, k)
      BY <1>1 DEF Firsts
    <3>4. <<x, x>> \notin R
      <4>1. <<order[k], order[k]>> \in R <=> k < k
        BY DEF Sorts
      <4> QED BY <1>1, <4>1
    <3>5. InTurns(spans, R, T \cup {x})
      BY <3>1, <3>4 DEF InTurns
    <3>6. SumOver(w, {}) = 0
      BY <1>0, SumOverProperties
    <3> QED BY <3>1, <3>2, <3>3, <3>5, <3>6
  <2>2. CASE \E m \in S : c = before[m]
    <3>1. PICK m \in 1..(k - 1) : c = before[m] /\ Follows(spans, order[k], order[m])
      BY <2>2
    <3>2. Longest(spans, w, R, order, m, c)
      BY <3>1
    <3>3. Firsts(order, m) \subseteq Firsts(order, k)
      BY <3>1 DEF Firsts
    <3>4. c.path \in Seq(Firsts(order, k))
      BY <3>2, <3>3, WiderSeq DEF Longest
    <3>5. T \in SUBSET Firsts(order, m) /\ order[m] \in T /\ InTurns(spans, R, T)
      BY <1>4, <3>2 DEF Longest
    <3>6. /\ InTurns(spans, R, T \cup {order[k]}) /\ order[k] \notin T
          /\ T \cup {order[k]} \in SUBSET Firsts(order, k)
      BY <3>1, <3>5, TurnsGoOn
    <3> QED BY <1>1, <1>4, <3>2, <3>4, <3>6 DEF Longest
  <2> QED BY <1>3, <2>1, <2>2
<1>10. x \in Firsts(order, k) /\ w[x] \in Nat
  BY <1>1 DEF Firsts
<1>11. /\ g.path \in Seq(Firsts(order, k)) /\ g.path # <<>> /\ Last(g.path) = x
       /\ x \in Range(g.path) /\ Range(g.path) = T \cup {x}
  <2>1. PICK p : p = c.path
    OBVIOUS
  <2>2. PICK q : q = Append(p, x)
    OBVIOUS
  <2>3. PICK X : X = Firsts(order, k)
    OBVIOUS
  <2>4. p \in Seq(X) /\ x \in X
    BY <1>9, <1>10, <2>1, <2>3
  <2>5. q \in Seq(X) /\ q # <<>> /\ Last(q) = x /\ x \in Range(q) /\ Range(q) = Range(p) \cup {x}
    BY <2>2, <2>4, PathAppends
  <2>6. g.path = q
    BY <1>6, <2>1, <2>2
  <2> QED BY <1>4, <2>1, <2>3, <2>5, <2>6
<1>12. g.dur = SumOver(w, T \cup {x}) /\ g.dur \in Nat
  BY <1>6, <1>7, <1>8, <1>9, <1>10
<1>14. ASSUME NEW j \in S PROVE before[j].dur <= c.dur
  <2>1. CASE \A i \in S : before[i].dur = 0
    BY <1>9, <2>1
  <2>2. CASE \A i \in S : before[i].dur <= c.dur
    BY <2>2
  <2> QED BY <1>3, <2>1, <2>2
<1>13. ASSUME NEW U, U \in SUBSET Firsts(order, k), x \in U, InTurns(spans, R, U)
       PROVE  SumOver(w, U) <= g.dur
  <2>4. PICK V : V = U \ {x}
    OBVIOUS
  <2>1. U = V \cup {x} /\ x \notin V /\ V \in SUBSET B
    BY <1>7, <1>13, <2>4
  <2>2. SumOver(w, U) = w[x] + SumOver(w, V) /\ SumOver(w, V) \in Int
    BY <1>8, <2>1
  <2>3. SumOver(w, V) <= c.dur
    <3>1. CASE V = {}
      <4>1. SumOver(w, V) = 0
        BY <1>0, <3>1, SumOverProperties
      <4> QED BY <1>9, <4>1
    <3>2. CASE V # {}
      <4>1. order[k] \in U /\ V = U \ {order[k]}
        BY <1>1, <1>13, <2>4
      <4>2. \E j \in 1..(k - 1) : /\ V \in SUBSET Firsts(order, j) /\ order[j] \in V
                                /\ InTurns(spans, R, V) /\ Follows(spans, order[k], order[j])
        BY <1>13, <3>2, <4>1, TurnsBefore
      <4>3. PICK j \in 1..(k - 1) : /\ V \in SUBSET Firsts(order, j) /\ order[j] \in V
                                    /\ InTurns(spans, R, V) /\ j \in S
        BY <4>2
      <4>4. Longest(spans, w, R, order, j, before[j])
        OBVIOUS
      <4>5. SumOver(w, V) <= before[j].dur
        BY <4>3, <4>4 DEF Longest
      <4>6. before[j].dur <= c.dur
        BY <1>14, <4>3
      <4> QED BY <1>2, <1>9, <2>2, <4>5, <4>6
    <3> QED BY <3>1, <3>2
  <2> QED BY <1>6, <1>9, <1>10, <2>2, <2>3
<1> QED BY <1>1, <1>5, <1>9, <1>11, <1>12, <1>13 DEF Longest

\* The chains up to the n-th.
ChainsUpTo(dp, spans, order, n) ==
  dp = [k \in 1..n |-> ChainAfter(spans, order, [j \in 1..(k - 1) |-> dp[j]], k)]

LEMMA ChainsExist ==
  ASSUME NEW spans, NEW order, NEW n \in Nat
  PROVE  \E dp : ChainsUpTo(dp, spans, order, n)
<1> DEFINE GoesOn(f, k) == ChainAfter(spans, order, [j \in 1..(k - 1) |-> f[j]], k)
           Bad == {m \in Nat : ~ \E dp : ChainsUpTo(dp, spans, order, m)}
<1>0. \A f, m : ChainsUpTo(f, spans, order, m) <=> f = [k \in 1..m |-> GoesOn(f, k)]
  BY DEF ChainsUpTo
<1>1. \A f, h : \A k \in Nat : (\A j \in 1..(k - 1) : f[j] = h[j]) => GoesOn(f, k) = GoesOn(h, k)
  <2> SUFFICES ASSUME NEW f, NEW h, NEW k \in Nat, \A j \in 1..(k - 1) : f[j] = h[j]
               PROVE  GoesOn(f, k) = GoesOn(h, k)
    OBVIOUS
  <2>1. [j \in 1..(k - 1) |-> f[j]] = [j \in 1..(k - 1) |-> h[j]]
    OBVIOUS
  <2> QED BY <2>1
<1> HIDE DEF GoesOn
<1>2. ASSUME Bad # {} PROVE FALSE
  <2>1. PICK m \in Bad : \A k \in Bad : m <= k
    BY <1>2, LeastOf
  <2>2. CASE m = 0
    <3> DEFINE dp == [k \in 1..0 |-> 0]
    <3>1. dp = [k \in 1..0 |-> GoesOn(dp, k)]
      OBVIOUS
    <3> QED BY <1>0, <2>1, <2>2, <3>1
  <2>3. CASE m # 0
    <3>1. m - 1 \in Nat /\ m - 1 \notin Bad
      BY <2>1, <2>3
    <3>2. PICK dp : dp = [k \in 1..(m - 1) |-> GoesOn(dp, k)]
      BY <1>0, <3>1
    <3> DEFINE more == [k \in 1..m |-> IF k < m THEN dp[k] ELSE GoesOn(dp, m)]
    <3>3. ASSUME NEW k \in 1..m PROVE more[k] = GoesOn(more, k)
      <4>1. \A j \in 1..(k - 1) : dp[j] = more[j]
        OBVIOUS
      <4>2. GoesOn(dp, k) = GoesOn(more, k)
        <5> HIDE DEF more
        <5> QED BY <1>1, <4>1
      <4>3. CASE k < m
        <5>1. k \in 1..(m - 1)
          BY <4>3
        <5>2. dp[k] = GoesOn(dp, k)
          BY <3>2, <5>1
        <5>3. more[k] = dp[k]
          BY <4>3
        <5> QED BY <4>2, <5>2, <5>3
      <4>4. CASE ~ k < m
        <5>1. more[k] = GoesOn(dp, m) /\ k = m
          BY <4>4
        <5> QED BY <4>2, <5>1
      <4> QED BY <4>3, <4>4
    <3>4. more = [k \in 1..m |-> more[k]]
      OBVIOUS
    <3> HIDE DEF more
    <3>5. more = [k \in 1..m |-> GoesOn(more, k)]
      BY <3>3, <3>4
    <3> QED BY <1>0, <2>1, <3>5
  <2> QED BY <2>2, <2>3
<1> QED BY <1>2

\* All the chains are longest ones.
LEMMA ChainsAreLongest ==
  ASSUME NEW spans, NEW B, IsFiniteSet(B), NEW w \in [B -> Nat], NEW R,
         NEW order, NEW N \in Nat, DOMAIN order = 1..N, Sorts(order, N, R),
         \A n \in 1..N : order[n] \in B /\ spans[order[n]].dur = w[order[n]]
  PROVE  LET dp == Chains(spans, order)
         IN  DOMAIN dp = 1..N /\ \A k \in 1..N : Longest(spans, w, R, order, k, dp[k])
<1> DEFINE dp == Chains(spans, order)
<1>1. dp = CHOOSE f : ChainsUpTo(f, spans, order, N)
  BY DEF Chains, ChainsUpTo, ChainAfter, Selected, Places
<1>2. ChainsUpTo(dp, spans, order, N)
  BY <1>1, ChainsExist
<1> HIDE DEF dp
<1>3. dp = [k \in 1..N |-> ChainAfter(spans, order, [j \in 1..(k - 1) |-> dp[j]], k)]
  BY <1>2 DEF ChainsUpTo
<1> DEFINE Bad == {k \in 1..N : ~ Longest(spans, w, R, order, k, dp[k])}
<1>4. ASSUME Bad # {} PROVE FALSE
  <2>1. PICK k \in Bad : \A j \in Bad : k <= j
    <3>1. Bad \in SUBSET Nat
      OBVIOUS
    <3> HIDE DEF Bad
    <3> QED BY <1>4, <3>1, LeastOf
  <2>2. k \in 1..N
    BY <2>1
  <2>3. PICK before : before = [j \in 1..(k - 1) |-> dp[j]]
    OBVIOUS
  <2>4. before = [j \in 1..(k - 1) |-> before[j]]
    BY <2>3
  <2>5. \A j \in 1..(k - 1) : Longest(spans, w, R, order, j, before[j])
    BY <2>1, <2>2, <2>3
  <2> HIDE DEF Bad
  <2>6. \A n \in 1..N : order[n] \in B
    OBVIOUS
  <2>7. spans[order[k]].dur = w[order[k]]
    BY <2>2
  <2>8. Longest(spans, w, R, order, k, ChainAfter(spans, order, before, k))
    BY <2>2, <2>4, <2>5, <2>6, <2>7, ChainIsLongest
  <2>9. dp[k] = ChainAfter(spans, order, before, k)
    BY <1>3, <2>2, <2>3
  <2> QED BY <2>1, <2>8, <2>9 DEF Bad
<1>5. DOMAIN dp = 1..N
  BY <1>3
<1> QED BY <1>4, <1>5 DEF dp

\* The siblings in K, all of which ended: their path is a longest in turns.
LEMMA PathIsLongest ==
  ASSUME NEW spans, NEW K \in SUBSET Int, IsFiniteSet(K), Ran(spans, K),
         \A i \in K : spans[i].end # None,
         NEW w \in [K -> Nat], \A i \in K : w[i] = spans[i].dur
  PROVE  LET R == Earlier(spans, K)
             taken == Range(SiblingPath(spans, InOrder(K)))
         IN  /\ taken \in SUBSET K /\ InTurns(spans, R, taken)
             /\ \A S \in SUBSET K : InTurns(spans, R, S) => SumOver(w, S) <= SumOver(w, taken)
<1> DEFINE R == Earlier(spans, K)
           siblings == InOrder(K)
           order == ByTime(spans, K)
           taken == Range(SiblingPath(spans, siblings))
<1>1. PICK N \in Nat : N = Cardinality(K)
  BY FS_CardinalityType
<1>2. /\ siblings = [n \in 1..N |-> siblings[n]] /\ Len(siblings) = N
      /\ \A n \in 1..N : siblings[n] \in K
      /\ \A i \in K : \E n \in 1..N : siblings[n] = i
  <2>1. Lists(siblings, K, Smaller)
    BY InOrderLists
  <2> HIDE DEF siblings
  <2> QED BY <1>1, <2>1 DEF Lists
<1>3. /\ order = [n \in 1..N |-> order[n]] /\ Sorts(order, N, R)
      /\ \A n \in 1..N : order[n] \in K
      /\ \A i \in K : \E n \in 1..N : order[n] = i
  <2>1. Lists(order, K, R)
    BY ByTimeLists
  <2> HIDE DEF order, R
  <2> QED BY <1>1, <2>1 DEF Lists, Sorts
<1>4. Range(siblings) = K
  <2> HIDE DEF siblings
  <2> QED BY <1>2 DEF Range
<1>5. \A i \in K : spans[i].end # None
  OBVIOUS
<1>6. w \in [K -> Int]
  OBVIOUS
<1>7. \A i \in K : <<i, i>> \notin R
  <2>1. ASSUME NEW i \in K, <<i, i>> \in R PROVE FALSE
    <3>1. <<i, i>>[1] = i /\ <<i, i>>[2] = i /\ spans[i].start \in Int /\ spans[i].end \in Int
      BY DEF Ran
    <3> QED BY <2>1, <3>1 DEF Earlier
  <2> QED BY <2>1
<1>8. CASE N < 2
  <2>1. taken = K
    BY <1>2, <1>4, <1>8 DEF SiblingPath
  <2>2. \A i, j \in K : i = j
    <3>1. SUFFICES ASSUME NEW i \in K, NEW j \in K PROVE i = j
      OBVIOUS
    <3>2. PICK m \in 1..N : siblings[m] = i
      BY <1>2
    <3>3. PICK n \in 1..N : siblings[n] = j
      BY <1>2
    <3>4. m = n
      BY <1>8
    <3> HIDE DEF siblings
    <3> QED BY <3>2, <3>3, <3>4
  <2> HIDE DEF R, taken
  <2>3. InTurns(spans, R, K)
    BY <1>7, <2>2 DEF InTurns
  <2>4. ASSUME NEW S, S \in SUBSET K PROVE SumOver(w, S) <= SumOver(w, K)
    <3>1. K \in SUBSET K /\ S \subseteq K
      BY <2>4
    <3> QED BY <2>4, <3>1, SumOfSome
  <2> QED BY <2>1, <2>3, <2>4 DEF R, taken
<1>9. CASE ~ N < 2
  <2> DEFINE dp == Chains(spans, order)
             F == InPlace(dp, siblings)
             OfSibling(i) == CHOOSE c \in Range(dp) : Last(c.path) = i
  <2>1. SiblingPath(spans, siblings) = FirstGreatest(F, LAMBDA c : c.dur).path
    BY <1>2, <1>4, <1>5, <1>9 DEF SiblingPath
  <2>2. DOMAIN dp = 1..N /\ \A k \in 1..N : Longest(spans, w, R, order, k, dp[k])
    <3>1. DOMAIN order = 1..N /\ \A n \in 1..N : spans[order[n]].dur = w[order[n]]
      BY <1>3
    <3> HIDE DEF R, order
    <3> QED BY <1>3, <3>1, ChainsAreLongest
  <2>3. F = [n \in 1..N |-> OfSibling(siblings[n])]
    BY <1>2 DEF InPlace, Each
  <2> HIDE DEF F, dp, siblings, order, R
  <2>4. ASSUME NEW n \in 1..N PROVE \E k \in 1..N : order[k] = siblings[n] /\ F[n] = dp[k]
    <3>1. PICK k \in 1..N : order[k] = siblings[n]
      BY <1>2, <1>3
    <3>2. \A c \in Range(dp) : Last(c.path) = siblings[n] => c = dp[k]
      <4> SUFFICES ASSUME NEW j \in 1..N, Last(dp[j].path) = siblings[n] PROVE j = k
        BY <2>2 DEF Range
      <4>1. Last(dp[j].path) = order[j]
        BY <2>2 DEF Longest
      <4> QED BY <1>3, <3>1, <4>1 DEF Sorts
    <3>3. dp[k] \in Range(dp) /\ Last(dp[k].path) = siblings[n]
      BY <2>2, <3>1 DEF Range, Longest
    <3>4. OfSibling(siblings[n]) = dp[k]
      BY <3>2, <3>3
    <3> QED BY <2>3, <3>1, <3>4
  <2>5. ASSUME NEW k \in 1..N PROVE \E n \in 1..N : F[n] = dp[k]
    <3>1. PICK n \in 1..N : siblings[n] = order[k]
      BY <1>2, <1>3
    <3>2. PICK j \in 1..N : order[j] = siblings[n] /\ F[n] = dp[j]
      BY <2>4
    <3>3. j = k
      BY <1>3, <3>1, <3>2 DEF Sorts
    <3> QED BY <3>2, <3>3
  <2>6. PICK n \in 1..N : /\ FirstGreatest(F, LAMBDA c : c.dur) = F[n]
                          /\ \A m \in 1..N : F[m].dur <= F[n].dur
    <3>1. DOMAIN F = 1..N /\ N # 0
      BY <1>9, <2>3
    <3>2. \A m \in 1..N : F[m].dur \in Nat
      BY <2>2, <2>4 DEF Longest
    <3> QED BY <3>1, <3>2, GreatestIs
  <2>7. PICK k \in 1..N : F[n] = dp[k]
    BY <2>4
  <2>8. SiblingPath(spans, siblings) = dp[k].path
    BY <2>1, <2>6, <2>7
  <2>9. taken = Range(dp[k].path)
    BY <2>8 DEF siblings
  <2> HIDE DEF taken
  <2>10. Longest(spans, w, R, order, k, dp[k])
    BY <2>2
  <2>11. /\ taken \in SUBSET Firsts(order, k) /\ InTurns(spans, R, taken)
         /\ dp[k].dur = SumOver(w, taken) /\ dp[k].dur \in Nat
    BY <2>9, <2>10 DEF Longest
  <2>12. taken \in SUBSET K
    BY <1>3, <2>11 DEF Firsts
  <2>13. ASSUME NEW S, S \in SUBSET K, InTurns(spans, R, S)
         PROVE  SumOver(w, S) <= SumOver(w, taken)
    <3>1. CASE S = {}
      <4>1. SumOver(w, S) = 0
        BY <1>6, <3>1, SumOverProperties
      <4> QED BY <2>11, <4>1
    <3>2. CASE S # {}
      <4> DEFINE D == {j \in 1..N : order[j] \in S}
      <4>1. PICK j \in D : \A i \in D : i <= j
        <5>1. IsFiniteSet(1..N) /\ D \in SUBSET (1..N)
          BY FS_Interval
        <5>2. IsFiniteSet(D)
          BY <5>1, FS_Subset
        <5>3. D # {} /\ D \in SUBSET Int
          BY <1>3, <2>13, <3>2
        <5> HIDE DEF D
        <5> QED BY <5>2, <5>3, GreatestOf
      <4>2. S \in SUBSET Firsts(order, j)
        <5> SUFFICES ASSUME NEW a \in S PROVE a \in Firsts(order, j)
          OBVIOUS
        <5>1. PICK i \in 1..N : order[i] = a
          BY <1>3, <2>13
        <5>2. i \in 1..j
          BY <4>1, <5>1
        <5> QED BY <5>1, <5>2 DEF Firsts
      <4>3. j \in 1..N /\ order[j] \in S
        OBVIOUS
      <4>4. Longest(spans, w, R, order, j, dp[j])
        BY <2>2, <4>3
      <4>5. SumOver(w, S) <= dp[j].dur /\ dp[j].dur \in Nat
        BY <2>13, <4>2, <4>3, <4>4 DEF Longest
      <4>6. PICK m \in 1..N : F[m] = dp[j]
        BY <2>5, <4>3
      <4>7. dp[j].dur <= dp[k].dur
        BY <2>6, <2>7, <4>6
      <4>8. SumOver(w, S) \in Int
        BY <1>6, <2>13, SumOverProperties
      <4> QED BY <2>11, <4>5, <4>7, <4>8
    <3> QED BY <3>1, <3>2
  <2> QED BY <2>11, <2>12, <2>13 DEF R, taken, siblings
<1> QED BY <1>8, <1>9

----------
(* The times of saved spans *)

\* A span has a start and a duration, and an end if it ended.
Clocked(s) == s.start \in Int /\ s.dur \in Nat /\ s.end \in Int \cup {None}

AllClocked(spans) ==
  \E n \in Nat : DOMAIN spans = 1..n /\ \A k \in 1..n : Clocked(spans[k])

Moments == {"start", "dur", "end"}

\* Neither the analysis nor the tables change them.
LEMMA TimesStay ==
  ASSUME NEW s, Moments \subseteq DOMAIN s, Clocked(s)
  PROVE  /\ Moments \subseteq DOMAIN Priced(s) /\ Clocked(Priced(s))
         /\ Moments \subseteq DOMAIN StoredSpan(s) /\ Clocked(StoredSpan(s))
<1>1. /\ DOMAIN Priced(s) = DOMAIN s /\ Priced(s).start = s.start /\ Priced(s).dur = s.dur
      /\ Priced(s).end = s.end
  BY DEF Priced, Moments
<1>2. /\ DOMAIN StoredSpan(s) = DOMAIN s /\ StoredSpan(s).start = s.start
      /\ StoredSpan(s).dur = s.dur /\ StoredSpan(s).end = s.end
  BY DEF StoredSpan, Moments
<1> QED BY <1>1, <1>2 DEF Clocked

LEMMA ConcludedClocked ==
  ASSUME NEW run \in Runs, NEW id \in Nat, NEW k \in 1..Len(run)
  PROVE  /\ Moments \subseteq DOMAIN Concluded(run, id)[k] /\ Clocked(Concluded(run, id)[k])
<1> DEFINE r == run[k]
           m == Moved(run, id)[k]
<1>1. /\ Moments \subseteq DOMAIN r
      /\ r.start \in Nat /\ r.dur \in Nat /\ r.end \in Nat \cup {None}
  <2>1. r \in Spans
    BY AtIs
  <2> HIDE DEF r
  <2> QED BY <2>1 DEF Spans, Moments
<1>2. m = [r EXCEPT !.start = @ + id, !.end = IF @ = None THEN None ELSE @ + id]
  BY DEF Moved
<1>3. Concluded(run, id)[k] = Priced(m)
  BY DEF Concluded
<1> HIDE DEF r, m
<1>4. /\ DOMAIN m = DOMAIN r /\ m.start = r.start + id /\ m.dur = r.dur
      /\ m.end = IF r.end = None THEN None ELSE r.end + id
  BY <1>1, <1>2 DEF Moments
<1>5. Moments \subseteq DOMAIN m /\ Clocked(m)
  BY <1>1, <1>4 DEF Clocked
<1> QED BY <1>3, <1>5, TimesStay

LEMMA ImportClocked ==
  ASSUME NEW w, w.start \in Int, w.end \in Int, NEW now \in Nat
  PROVE  Clocked(StoredSpan(ImportSpan(w, now)))
<1> DEFINE s == ImportSpan(w, now)
<1>1. /\ Moments \subseteq DOMAIN s
      /\ s.start = IF Timed(w) THEN w.start ELSE now
      /\ s.end = IF Timed(w) THEN w.end ELSE now
      /\ s.dur = IF Timed(w) THEN w.end - w.start ELSE 0
  BY DEF ImportSpan, Moments
<1> HIDE DEF s
<1>2. Clocked(s)
  BY <1>1 DEF Timed, Clocked
<1>3. Clocked(StoredSpan(s))
  BY <1>1, <1>2, TimesStay
<1> QED BY <1>3 DEF s

LEMMA ExportedClocked ==
  ASSUME NEW run \in Runs, NEW id \in Nat, NEW now \in Nat
  PROVE  AllClocked(StoredRecord(Dated(RecordOfTrace(Export(run, id), id, now))).spans)
<1> DEFINE w == Export(run, id)
           n == Len(run)
           g == [j \in 1..n |-> ImportSpan(w[j], now)]
           t == StoredRecord(Dated(RecordOfTrace(w, id, now))).spans
<1>1. n \in Nat /\ \A j \in 1..n : w[j] = SpanToOtlpDict(id, Concluded(run, id)[j])
  BY AtIs, ExportIs
<1>2. ASSUME NEW j \in 1..n PROVE w[j].start \in Int /\ w[j].end \in Int
  <2>1. PICK s : s = Concluded(run, id)[j]
    OBVIOUS
  <2>2. Clocked(s)
    BY <2>1, ConcludedClocked
  <2>3. w[j] = SpanToOtlpDict(id, s)
    BY <1>1, <2>1
  <2>4. /\ SpanToOtlpDict(id, s).start = s.start
        /\ SpanToOtlpDict(id, s).end = IF OrZero(s.end) # 0 THEN s.end ELSE s.start + s.dur
    BY DEF SpanToOtlpDict
  <2> QED BY <2>2, <2>3, <2>4 DEF Clocked, OrZero, Or
<1>3. RecordOfTrace(w, id, now) = ImportedRecord(id, g)
  BY ExportReceived
<1>4. DOMAIN g = 1..n /\ \A j \in 1..n : g[j] = ImportSpan(w[j], now)
  OBVIOUS
<1> HIDE DEF w, n, g
<1>5. DOMAIN t = 1..n /\ \A j \in 1..n : t[j] = StoredSpan(ImportSpan(w[j], now))
  BY <1>1, <1>3, <1>4, ImportedSpans
<1> HIDE DEF t
<1>6. \A j \in 1..n : Clocked(t[j])
  BY <1>2, <1>5, ImportClocked
<1>7. AllClocked(t)
  BY <1>1, <1>5, <1>6 DEF AllClocked
<1> QED BY <1>7 DEF t, w

\* Every saved trace has spans with times.
LEMMA SavedClocked ==
  ASSUME ShownInv, StoreInv, NEW id \in DOMAIN saved
  PROVE  AllClocked(saved[id].spans)
<1>1. FromRun(id, saved[id]) \/ FromExport(id, saved[id]) \/ FromRequest(id, saved[id])
  BY DEF StoreInv, KeptInv
<1>2. CASE FromRun(id, saved[id])
  <2>1. PICK run \in Runs : saved[id] = StoredRecord(Traced(run, id)) /\ id \in Nat
    BY <1>2 DEF FromRun
  <2>2. PICK s, t, n : s = Concluded(run, id) /\ t = saved[id].spans /\ n = Len(run)
    OBVIOUS
  <2>3. Alike(s, t, n) /\ n \in Nat /\ \A k \in 1..n : t[k] = StoredSpan(s[k])
    BY <2>1, <2>2, RunKept
  <2>4. \A k \in 1..n : Moments \subseteq DOMAIN s[k] /\ Clocked(s[k])
    BY <2>1, <2>2, ConcludedClocked
  <2>5. \A k \in 1..n : Clocked(t[k])
    BY <2>3, <2>4, TimesStay
  <2>6. DOMAIN t = 1..n
    BY <2>3 DEF Alike
  <2> QED BY <2>2, <2>3, <2>5, <2>6 DEF AllClocked
<1>3. CASE FromExport(id, saved[id])
  <2>1. PICK p \in Processes : \E k \in DOMAIN work[p].own, now \in Nat :
          /\ OwnSaved(p, k) /\ work[p].own[k] = id
          /\ saved[id] = StoredRecord(Dated(RecordOfTrace(Export(RunOf(p, k), id), id, now)))
    BY <1>3 DEF FromExport
  <2>2. PICK k \in DOMAIN work[p].own, now \in Nat :
          /\ OwnSaved(p, k) /\ work[p].own[k] = id
          /\ saved[id] = StoredRecord(Dated(RecordOfTrace(Export(RunOf(p, k), id), id, now)))
    BY <2>1
  <2>3. RunOf(p, k) \in Runs /\ id \in Nat
    BY <2>2, RunOfIs DEF OwnSaved
  <2> QED BY <2>2, <2>3, ExportedClocked
<1>4. CASE FromRequest(id, saved[id])
  <2>1. PICK p \in Processes :
          /\ ~ Traces(p) /\ work[p].cmd.arg # Broken
          /\ \E k \in DOMAIN work[p].cmd.arg, now \in Nat :
               /\ id = work[p].cmd.arg[k].trace
               /\ saved[id] = StoredRecord(Dated(RecordOfTrace(work[p].cmd.arg, id, now)))
    BY <1>4 DEF FromRequest
  <2>2. PICK payload : payload = work[p].cmd.arg
    OBVIOUS
  <2>3. PICK now \in Nat : saved[id] = StoredRecord(Dated(RecordOfTrace(payload, id, now)))
    BY <2>1, <2>2
  <2>4. payload \in Seq(Wires(Foreign))
    BY <2>1, <2>2, PlannedIs
  <2>5. PICK w, n : w = Picked(payload, PlacesOf(payload, id)) /\ n = Len(w)
    OBVIOUS
  <2>6. PICK g : g = [j \in 1..n |-> ImportSpan(w[j], now)]
    OBVIOUS
  <2>7. RecordOfTrace(payload, id, now) = ImportedRecord(id, g) /\ w \in Seq(Wires(Foreign))
    BY <2>4, <2>5, <2>6, RecordOfTraceIs
  <2>8. n \in Nat /\ DOMAIN w = 1..n
    BY <2>5, <2>7
  <2>9. \A j \in 1..n : w[j].start \in Int /\ w[j].end \in Int
    <3>1. \A j \in 1..n : w[j] \in Wires(Foreign)
      BY <2>7, <2>8
    <3> QED BY <3>1 DEF Wires
  <2>10. PICK t : t = StoredRecord(Dated(RecordOfTrace(payload, id, now))).spans
    OBVIOUS
  <2>11. DOMAIN t = 1..n /\ \A j \in 1..n : t[j] = StoredSpan(ImportSpan(w[j], now))
    <3>1. DOMAIN g = 1..n /\ \A j \in 1..n : g[j] = ImportSpan(w[j], now)
      BY <2>6
    <3> QED BY <2>7, <2>8, <2>10, <3>1, ImportedSpans
  <2>12. \A j \in 1..n : Clocked(t[j])
    BY <2>9, <2>11, ImportClocked
  <2>13. AllClocked(t)
    BY <2>8, <2>11, <2>12 DEF AllClocked
  <2> QED BY <2>3, <2>10, <2>13
<1> QED BY <1>1, <1>2, <1>3, <1>4

----------
(* Reports *)

\* What has become of a report: nothing yet, its reference resolved, or its record read.
Asked(w) ==
  /\ w.phase # "answered" /\ w.ids = <<>> /\ w.records = <<>>
  /\ \E ref : ref # Newest /\ w.refs = <<ref>>

Found(w) ==
  /\ w.phase # "answered" /\ w.refs = <<>> /\ w.records = <<>> /\ \E id : w.ids = <<id>>

HasRead(w) ==
  /\ w.refs = <<>> /\ \E id : w.ids = <<id>>
  /\ \E record : w.records = <<record>> /\ AllClocked(record.spans)

Reports(w, page) ==
  /\ Asked(w) \/ Found(w) \/ HasRead(w)
  /\ w.phase = "answered" => AllClocked(page.spans)

ReportInv == \A p \in Processes : work[p].cmd.op = "report" => Reports(work[p], shown[p])

LEMMA ReportsStays ==
  ASSUME NEW w, NEW v, NEW page, Reports(w, page), Rests(w, v)
  PROVE  Reports(v, page)
<1>1. CASE Asked(w)
  BY <1>1 DEF Reports, Asked, Rests
<1>2. CASE Found(w)
  BY <1>2 DEF Reports, Found, Rests
<1>3. CASE HasRead(w)
  BY <1>3 DEF Reports, HasRead, Rests
<1> QED BY <1>1, <1>2, <1>3 DEF Reports

LEMMA ReportResolves ==
  ASSUME NEW w, NEW v, NEW page, Reports(w, page), NEW ids, LooksUp(w, v, ids),
         Head(w.refs) # Newest => \E id : ids = <<id>>
  PROVE  Reports(v, page)
<1>1. Asked(w)
  BY DEF Reports, Found, HasRead, LooksUp
<1>2. PICK ref : ref # Newest /\ w.refs = <<ref>>
  BY <1>1 DEF Asked
<1>3. Head(w.refs) = ref /\ v.refs = <<>>
  BY <1>2 DEF LooksUp
<1>4. PICK id : ids = <<id>>
  BY <1>2, <1>3
<1>5. v.ids = <<id>>
  <2>1. <<>> \o <<id>> = <<id>>
    OBVIOUS
  <2> QED BY <1>1, <1>4, <2>1 DEF Asked, LooksUp
<1> QED BY <1>1, <1>3, <1>5 DEF Asked, Found, Reports, LooksUp

LEMMA ReportLoads ==
  ASSUME NEW w, NEW v, NEW page, Reports(w, page), NEW record, AllClocked(record.spans),
         Reads(w, v, record)
  PROVE  Reports(v, page)
<1>1. ~ Asked(w)
  <2>1. \A ref : <<ref>> # <<>>
    OBVIOUS
  <2> QED BY <2>1 DEF Asked, Reads
<1>2. ~ HasRead(w)
  BY DEF HasRead, Reads
<1>3. Found(w)
  BY <1>1, <1>2 DEF Reports
<1>4. v.records = <<record>>
  <2>1. Append(<<>>, record) = <<record>>
    OBVIOUS
  <2> QED BY <1>3, <2>1 DEF Found, Reads
<1> QED BY <1>3, <1>4 DEF Found, HasRead, Reports, Reads

LEMMA ReportAnswers ==
  ASSUME NEW w, NEW v, NEW page, Reports(w, page), w.refs = <<>>,
         Len(w.records) = Len(w.ids), NEW arg,
         v.ids = w.ids, v.refs = w.refs, v.records = w.records
  PROVE  Reports(v, OfTrace("report", arg, w.records[1]))
<1>1. ~ Asked(w)
  <2>1. \A ref : <<ref>> # <<>>
    OBVIOUS
  <2> QED BY <2>1 DEF Asked
<1>2. ~ Found(w)
  <2>1. Len(<<>>) = 0 /\ \A id : Len(<<id>>) = 1
    OBVIOUS
  <2>2. ASSUME Found(w) PROVE FALSE
    <3>1. PICK id : w.ids = <<id>> /\ w.records = <<>>
      BY <2>2 DEF Found
    <3>2. Len(<<>>) = Len(<<id>>)
      BY <3>1
    <3> QED BY <2>1, <3>2
  <2> QED BY <2>2
<1>3. HasRead(w)
  BY <1>1, <1>2 DEF Reports
<1>4. PICK record : w.records = <<record>> /\ AllClocked(record.spans)
  BY <1>3 DEF HasRead
<1>5. OfTrace("report", arg, record) = Report(record)
  BY DEF OfTrace
<1>6. Report(record).spans = record.spans
  BY DEF Report
<1>7. HasRead(v)
  BY <1>3 DEF HasRead
<1> QED BY <1>4, <1>5, <1>6, <1>7 DEF Reports

LEMMA InitReports ==
  ASSUME Init
  PROVE  ReportInv
<1> SUFFICES ASSUME NEW p \in Processes, work[p].cmd.op = "report"
             PROVE  Reports(work[p], shown[p])
  BY DEF ReportInv
<1>1. CASE SessionsInit
  <2>1. PICK k \in DOMAIN Scenarios : \E s \in Scenarios[k] :
          work = [q \in Processes |-> Started(s.commands[q])]
    BY <1>1 DEF SessionsInit
  <2>2. PICK s \in Scenarios[k] : work[p] = Started(s.commands[p])
    BY <2>1
  <2>3. PICK c : c = s.commands[p] /\ work[p] = Started(c) /\ c.op = "report"
    BY <2>2, StartedIs
  <2>4. c.refs = <<c.refs[1]>> /\ c.refs[1] # Newest
    BY <2>3, ScenariosAreWellFormed DEF WellFormed
  <2>5. Asked(Started(c))
    BY <2>4, StartedIs, StartedIsWork DEF Asked
  <2> QED BY <2>3, <2>5 DEF Reports, Asked
<1>2. CASE SessionsRest
  BY <1>2, StartedIs DEF SessionsRest, NoCommand
<1> QED BY <1>1, <1>2 DEF Init

LEMMA NextReports ==
  ASSUME ShownInv, StoreInv, ReportInv, [Next]_vars
  PROVE  ReportInv'
<1>1. CASE UNCHANGED sessionVars
  BY <1>1 DEF sessionVars, ReportInv
<1>2. CASE SessionsNext
  <2> SUFFICES ASSUME NEW p \in Processes, work'[p].cmd.op = "report"
               PROVE  Reports(work'[p], shown'[p])
    BY DEF ReportInv
  <2>1. PICK w, v, page, more : w = work[p] /\ v = work'[p] /\ page = shown[p] /\ more = shown'[p]
    OBVIOUS
  <2>2. v.cmd = w.cmd
    BY <1>2, <2>1, LookupSteps
  <2>3. Reports(w, page) /\ w.cmd.op = "report"
    BY <2>1, <2>2 DEF ReportInv
  <2>4. ASSUME Rests(w, v), more = page PROVE Reports(v, more)
    BY <2>3, <2>4, ReportsStays
  <2>5. ASSUME NEW ids, LooksUp(w, v, ids), StandsFor(p, ids), more = page
        PROVE  Reports(v, more)
    <3>1. Head(w.refs) # Newest => \E id : ids = <<id>>
      BY <2>1, <2>5 DEF StandsFor
    <3> QED BY <2>3, <2>5, <3>1, ReportResolves
  <2>6. ASSUME NEW id \in DOMAIN saved, Reads(w, v, saved[id]), more = page
        PROVE  Reports(v, more)
    <3>1. PICK record : record = saved[id]
      OBVIOUS
    <3>2. AllClocked(record.spans)
      BY <3>1, SavedClocked
    <3> QED BY <2>3, <2>6, <3>1, <3>2, ReportLoads
  <2>7. ASSUME Answer(p), v.ids = w.ids, v.refs = w.refs, v.records = w.records
        PROVE  Reports(v, more)
    <3>1. w.refs = <<>> /\ Len(w.records) = Len(w.ids)
      BY <2>1, <2>7 DEF Answer
    <3>2. more = Output(w.cmd, w.records, w.own)
      <4>1. shown' = [shown EXCEPT ![p] = Output(work[p].cmd, work[p].records, work[p].own)]
        BY <2>1, <2>3, <2>7 DEF Answer
      <4> QED BY <2>1, <4>1 DEF ShownInv, Shape
    <3>3. more = OfTrace("report", w.cmd.arg, w.records[1])
      BY <2>3, <3>2 DEF Output, SummaryOps, PageOps, TraceOps
    <3>4. Reports(v, OfTrace("report", w.cmd.arg, w.records[1]))
      BY <2>3, <2>7, <3>1, ReportAnswers
    <3> QED BY <3>3, <3>4
  <2>8. shown' = shown => more = page
    BY <2>1
  <2> QED BY <1>2, <2>1, <2>3, <2>4, <2>5, <2>6, <2>7, <2>8, LookupSteps
<1> QED BY <1>1, <1>2 DEF Next, vars

----------
(* The path of a report *)

LastedStep(it, spans, S) ==
  IF S = {} THEN 0 ELSE spans[AnyOf(S)].dur + it[S \ {AnyOf(S)}]

\* How long the spans at the places in X took.
Took(spans, X) == (CHOOSE it : it = [S \in SUBSET X |-> LastedStep(it, spans, S)])[X]

LEMMA LastedIsTook ==
  ASSUME NEW spans, NEW X
  PROVE  MapThenSumSet(LAMBDA i : spans[i].dur, X) = Took(spans, X)
  BY DEF MapThenSumSet, MapThenFoldSet, Took, LastedStep, AnyOf

LEMMA TookIsSum ==
  ASSUME NEW D, IsFiniteSet(D), NEW w \in [D -> Int], NEW s,
         \A i \in D : w[i] = s[i].dur
  PROVE  \A X \in SUBSET D : Took(s, X) = SumOver(w, X)
<1> SUFFICES ASSUME NEW X \in SUBSET D PROVE Took(s, X) = SumOver(w, X)
  OBVIOUS
<1> DEFINE AddsUp(f) == f = [S \in SUBSET X |-> LastedStep(f, s, S)]
           it == CHOOSE f : AddsUp(f)
<1>1. \A S \in SUBSET X : S # {} => AnyOf(S) \in S
  BY DEF AnyOf
<1>2. ASSUME NEW f PROVE AddsUp(f) <=> SumsUp(f, X, w)
  <2>1. \A S \in SUBSET X : LastedStep(f, s, S) = SumStep(f, w, S)
    BY <1>1 DEF LastedStep, SumStep
  <2> QED BY <2>1 DEF SumsUp
<1> HIDE DEF AddsUp
<1>3. AddsUp(it)
  BY <1>2, SumsAre
<1>4. it[X] = SumOver(w, X)
  <2> HIDE DEF it
  <2> QED BY <1>2, <1>3, SumsAre
<1> QED BY <1>4 DEF Took, AddsUp

\* What the property says of the spans below the i-th.
PathOf(spans, i) ==
  LET below == Range(Children(spans, i))
      taken == Range(SiblingPath(spans, Children(spans, i)))
  IN  (\A c \in below : spans[c].end # None) =>
        /\ Sequential(spans, taken)
        /\ \A S \in SUBSET below : Sequential(spans, S) =>
             MapThenSumSet(LAMBDA c : spans[c].dur, S)
               <= MapThenSumSet(LAMBDA c : spans[c].dur, taken)

LEMMA PathsAreLongest ==
  ASSUME NEW spans, AllClocked(spans), NEW i \in DOMAIN spans
  PROVE  PathOf(spans, i)
<1>1. PICK n \in Nat : DOMAIN spans = 1..n /\ \A k \in 1..n : Clocked(spans[k])
  BY DEF AllClocked
<1>2. PICK K : K = {c \in DOMAIN spans : spans[c].parent = i}
  OBVIOUS
<1>3. K \in SUBSET Int /\ IsFiniteSet(K) /\ K \in SUBSET (1..n)
  <2>1. IsFiniteSet(1..n) /\ K \in SUBSET (1..n)
    BY <1>1, <1>2, FS_Interval
  <2>2. IsFiniteSet(K)
    BY <2>1, FS_Subset
  <2> QED BY <2>1, <2>2
<1>4. Children(spans, i) = InOrder(K)
  BY <1>2 DEF Children, Places, InOrder
<1>5. Range(InOrder(K)) = K
  <2>1. Lists(InOrder(K), K, Smaller)
    BY <1>3, InOrderLists
  <2>2. PICK s, N : s = InOrder(K) /\ N = Cardinality(K)
    OBVIOUS
  <2>3. /\ s = [k \in 1..N |-> s[k]] /\ \A k \in 1..N : s[k] \in K
        /\ \A c \in K : \E k \in 1..N : s[k] = c
    BY <2>1, <2>2 DEF Lists
  <2>4. DOMAIN s = 1..N
    BY <2>3
  <2>5. Range(s) = K
    BY <2>3, <2>4 DEF Range
  <2> QED BY <2>2, <2>5
<1>6. PICK taken : taken = Range(SiblingPath(spans, InOrder(K)))
  OBVIOUS
<1>7. ASSUME \A c \in K : spans[c].end # None
      PROVE  /\ Sequential(spans, taken)
             /\ \A S \in SUBSET K : Sequential(spans, S) =>
                  MapThenSumSet(LAMBDA c : spans[c].dur, S)
                    <= MapThenSumSet(LAMBDA c : spans[c].dur, taken)
  <2>1. Ran(spans, K)
    BY <1>1, <1>3, <1>7 DEF Ran, Clocked
  <2>2. PICK w : w = [c \in K |-> spans[c].dur]
    OBVIOUS
  <2>3. w \in [K -> Nat] /\ w \in [K -> Int] /\ \A c \in K : w[c] = spans[c].dur
    BY <2>1, <2>2 DEF Ran
  <2>4. /\ taken \in SUBSET K /\ InTurns(spans, Earlier(spans, K), taken)
        /\ \A S \in SUBSET K :
             InTurns(spans, Earlier(spans, K), S) => SumOver(w, S) <= SumOver(w, taken)
    BY <1>3, <1>6, <1>7, <2>1, <2>3, PathIsLongest
  <2>5. ASSUME NEW S, S \in SUBSET K
        PROVE  Sequential(spans, S) <=> InTurns(spans, Earlier(spans, K), S)
    <3>1. IsFiniteSet(S)
      BY <1>3, <2>5, FS_Subset
    <3> QED BY <1>3, <2>1, <2>5, <3>1, SequentialIs
  <2>11. \A X \in SUBSET K : Took(spans, X) = SumOver(w, X)
    <3>1. IsFiniteSet(K) /\ w \in [K -> Int] /\ \A c \in K : w[c] = spans[c].dur
      BY <1>3, <2>3
    <3> QED BY <3>1, TookIsSum
  <2>6. ASSUME NEW S, S \in SUBSET K
        PROVE  MapThenSumSet(LAMBDA c : spans[c].dur, S) = SumOver(w, S)
    BY <2>6, <2>11, LastedIsTook
  <2>7. PICK total : total = MapThenSumSet(LAMBDA c : spans[c].dur, taken)
    OBVIOUS
  <2>8. total = SumOver(w, taken)
    BY <2>4, <2>6, <2>7
  <2>9. ASSUME NEW S, S \in SUBSET K, Sequential(spans, S)
        PROVE  MapThenSumSet(LAMBDA c : spans[c].dur, S) <= total
    <3>1. MapThenSumSet(LAMBDA c : spans[c].dur, S) = SumOver(w, S)
      BY <2>6, <2>9
    <3>2. SumOver(w, S) <= SumOver(w, taken)
      BY <2>4, <2>5, <2>9
    <3> QED BY <2>8, <3>1, <3>2
  <2>10. Sequential(spans, taken)
    BY <2>4, <2>5
  <2> QED BY <2>7, <2>9, <2>10
<1> QED BY <1>4, <1>5, <1>6, <1>7 DEF PathOf

\* Below every span of a reported trace the critical path takes siblings that ran one
\* after the other, and no others that did took longer, for any processes and any traces,
\* those that were imported included (critical_path.py:21-82).
THEOREM CriticalPathIsLongestThm == Spec => []CriticalPathIsLongest
<1>1. Init => ReportInv
  BY InitReports
<1>2. ShownInv /\ StoreInv /\ ReportInv /\ [Next]_vars => ReportInv'
  BY NextReports
<1>3. ReportInv => CriticalPathIsLongest
  <2> SUFFICES ASSUME ReportInv, NEW p \in Processes, Answered(p, "report"),
                      NEW i \in DOMAIN shown[p].spans
               PROVE  PathOf(shown[p].spans, i)
    BY DEF CriticalPathIsLongest, PathOf
  <2>1. Reports(work[p], shown[p]) /\ work[p].phase = "answered"
    BY DEF ReportInv, Answered
  <2>2. PICK spans : spans = shown[p].spans
    OBVIOUS
  <2>3. AllClocked(spans)
    BY <2>1, <2>2 DEF Reports
  <2> QED BY <2>2, <2>3, PathsAreLongest
<1> QED BY <1>1, <1>2, <1>3, StoreThm, PTL DEF Spec
================================================================================
