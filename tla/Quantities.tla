------------------------------- MODULE Quantities ------------------------------
(***************************************************************************)
(* Numbers that may be missing, and numbers that the code rounds.  Where   *)
(* the code computes with floats a model counts in the unit of the last    *)
(* digit that matters.  And what Python's comprehensions do to sequences.  *)
(***************************************************************************)
EXTENDS Integers, SequencesExt

CONSTANT None

\* Python's `x or y` of an x that may be missing.
Or(x, y) == IF x = None THEN y ELSE x
OrZero(x) == Or(x, 0)

Lesser(a, b) == IF a < b THEN a ELSE b
Greater(a, b) == IF a > b THEN a ELSE b

\* a / b, rounded to the nearest number.
RoundDiv(a, b) == (2 * a + b) \div (2 * b)

\* The first element of a sequence that may be empty.
First(s) == IF s = <<>> THEN None ELSE s[1]

\* The sequence of F(s[1]), F(s[2]) and so on.
Each(s, F(_)) == SubSeq([k \in DOMAIN s |-> F(s[k])], 1, Len(s))

\* f, and g where f is not defined.
f ++ g == [x \in DOMAIN f \cup DOMAIN g |-> IF x \in DOMAIN f THEN f[x] ELSE g[x]]

\* The elements of the set K, which Before orders, each at its rank.
Ranked(K, Before(_,_)) ==
  [n \in 1..Cardinality(K) |->
     CHOOSE k \in K : Cardinality({j \in K : Before(j, k)}) = n - 1]

\* The places of s that satisfy Test, in order.
Places(s, Test(_)) == Ranked({k \in DOMAIN s : Test(k)}, <)

\* The elements of s that satisfy Test, in order.
Selected(s, Test(_)) ==
  LET places == Places(s, LAMBDA k : Test(s[k]))
  IN  [n \in DOMAIN places |-> s[places[n]]]

Total(s, Value(_)) == FoldSeq(LAMBDA x, sum : Value(x) + sum, 0, s)
=============================================================================
