--------------------------- MODULE Collector_proofs ----------------------------
(***************************************************************************)
(* The ring buffer holds the newest samples, and a span that starts after  *)
(* the oldest of them is correlated with all samples of its time.  The     *)
(* second needs that samples are taken and pushed in the order of their    *)
(* times (IInv).  A diagnosis is about the average of a window: a lemma on *)
(* the library's fold says that some sample is below a bound that the      *)
(* average is below.  AgeInv bounds the age of the newest samples by what  *)
(* the loop still has to read and to post, and ToldInv relates all that    *)
(* was collected with all that was posted or is due, which change only in  *)
(* Collect.                                                                *)
(***************************************************************************)
EXTENDS Collector, FiniteSetTheorems, WellFoundedInduction, TLAPS

Types ==
  /\ now \in Nat
  /\ batch \in Seq(Samples) /\ ring \in Seq(Samples) /\ pushed \in Seq(Samples)

\* All samples, in the order they were taken.
Taken == pushed \o batch

NothingInHand == loop \in {"post", "done"} => batch = <<>>

InOrder ==
  /\ \A i \in 1..Len(Taken) : Taken[i].at <= now
  /\ \A i, j \in 1..Len(Taken) : i <= j => Taken[i].at <= Taken[j].at

IInv == Types /\ NothingInHand /\ InOrder /\ RingIsTheNewest

LEMMA InitIInv == Init => IInv
<1> USE CollectorAssumption
<1> SUFFICES ASSUME Init PROVE IInv
  OBVIOUS
<1>1. Types
  BY DEF Init, Types
<1>2. NothingInHand /\ InOrder
  BY DEF Init, NothingInHand, InOrder, Taken
<1>3. RingIsTheNewest
  BY DEF Init, RingIsTheNewest, IsNewest
<1>4. QED
  BY <1>1, <1>2, <1>3 DEF IInv

\* Pushing one sample keeps the newest.
LEMMA PushKeepsTheNewest ==
  ASSUME NEW buf \in Seq(Samples), NEW all \in Seq(Samples), IsNewest(buf, all),
         NEW s \in Samples
  PROVE  /\ PushSample(buf, s) \in Seq(Samples)
         /\ IsNewest(PushSample(buf, s), Append(all, s))
<1> USE CollectorAssumption
<1> DEFINE n == Len(all)
           k == Len(buf)
           new == PushSample(buf, s)
           more == Append(all, s)
<1>1. /\ n \in Nat /\ k \in Nat /\ Capacity \in Nat \ {0}
      /\ k = IF n < Capacity THEN n ELSE Capacity
  BY DEF IsNewest
<1>2. Len(more) = n + 1 /\ more[n + 1] = s
  OBVIOUS
<1>3. \A i \in 1..n : more[i] = all[i]
  OBVIOUS
<1>4. \A i \in 1..k : buf[i] = all[n - k + i]
  BY DEF IsNewest
<1>5. CASE k = Capacity
  <2>1. new = Append(Tail(buf), s)
    BY <1>1, <1>5 DEF PushSample
  <2>2. Tail(buf) \in Seq(Samples) /\ Len(Tail(buf)) = k - 1
    BY <1>1, <1>5
  <2>3. \A i \in 1..(k - 1) : Tail(buf)[i] = buf[i + 1]
    BY <1>1, <1>5
  <2>4. new \in Seq(Samples) /\ Len(new) = k /\ new[k] = s
    BY <2>1, <2>2, <1>1
  <2>5. \A i \in 1..(k - 1) : new[i] = buf[i + 1]
    BY <2>1, <2>2, <2>3
  <2>6. ASSUME NEW i \in 1..k PROVE new[i] = more[(n + 1) - k + i]
    <3>1. CASE i = k
      <4>1. (n + 1) - k + i = n + 1
        BY <3>1, <1>1
      <4>2. QED
        BY <4>1, <3>1, <2>4, <1>2
    <3>2. CASE i # k
      <4>1. i \in 1..(k - 1) /\ i + 1 \in 1..k
        BY <3>2, <1>1
      <4>2. new[i] = all[n - k + (i + 1)]
        BY <4>1, <2>5, <1>4
      <4>3. n - k + (i + 1) \in 1..n /\ n - k + (i + 1) = (n + 1) - k + i
        BY <4>1, <1>5, <1>1
      <4>4. QED
        BY <4>2, <4>3, <1>3
    <3>3. QED
      BY <3>1, <3>2
  <2>7. k = IF n + 1 < Capacity THEN n + 1 ELSE Capacity
    BY <1>1, <1>5
  <2>8. QED
    BY <2>4, <2>6, <2>7, <1>2 DEF IsNewest
<1>6. CASE k # Capacity
  <2>1. k = n /\ k < Capacity
    BY <1>1, <1>6
  <2>2. new = Append(buf, s)
    BY <2>1, <1>1 DEF PushSample
  <2>3. new \in Seq(Samples) /\ Len(new) = k + 1 /\ new[k + 1] = s
    BY <2>2
  <2>4. \A i \in 1..k : new[i] = buf[i]
    BY <2>2
  <2>5. ASSUME NEW i \in 1..(k + 1) PROVE new[i] = more[(n + 1) - (k + 1) + i]
    <3>1. (n + 1) - (k + 1) + i = i /\ n - k + i = i
      BY <2>1, <1>1
    <3>2. CASE i = k + 1
      BY <3>1, <3>2, <2>3, <2>1, <1>2
    <3>3. CASE i # k + 1
      <4>1. i \in 1..k /\ i \in 1..n
        BY <3>3, <2>1, <1>1
      <4>2. QED
        BY <4>1, <3>1, <2>4, <1>4, <1>3
    <3>4. QED
      BY <3>2, <3>3
  <2>6. k + 1 = IF n + 1 < Capacity THEN n + 1 ELSE Capacity
    BY <1>1, <2>1
  <2>7. QED
    BY <2>3, <2>5, <2>6, <1>2 DEF IsNewest
<1>7. QED
  BY <1>5, <1>6

LEMMA HeadThenTail ==
  ASSUME NEW X, NEW s \in Seq(X), NEW t \in Seq(X), t # <<>>
  PROVE  Append(s, Head(t)) \o Tail(t) = s \o t
<1> DEFINE u == Append(s, Head(t))
<1>1. u \in Seq(X) /\ Len(u) = Len(s) + 1
  OBVIOUS
<1>2. Tail(t) \in Seq(X) /\ Len(Tail(t)) = Len(t) - 1
  OBVIOUS
<1>3. u \o Tail(t) \in Seq(X) /\ s \o t \in Seq(X)
  BY <1>1, <1>2
<1>4. Len(u \o Tail(t)) = Len(s \o t)
  BY <1>1, <1>2
<1>5. ASSUME NEW i \in 1..Len(s \o t) PROVE (u \o Tail(t))[i] = (s \o t)[i]
  OBVIOUS
<1> QED BY <1>3, <1>4, <1>5

LEMMA TakenFacts ==
  ASSUME IInv
  PROVE  /\ Taken \in Seq(Samples) /\ Len(Taken) = Len(pushed) + Len(batch)
         /\ \A i \in 1..Len(pushed) : Taken[i] = pushed[i]
         /\ \A i \in 1..Len(batch) : Taken[Len(pushed) + i] = batch[i]
         /\ \A i \in 1..Len(Taken) : Taken[i].at \in Nat
<1>1. pushed \in Seq(Samples) /\ batch \in Seq(Samples)
  BY DEF IInv, Types
<1>2. /\ Taken \in Seq(Samples) /\ Len(Taken) = Len(pushed) + Len(batch)
      /\ \A i \in 1..Len(pushed) : Taken[i] = pushed[i]
      /\ \A i \in 1..Len(batch) : Taken[Len(pushed) + i] = batch[i]
  BY <1>1 DEF Taken
<1>3. \A s \in Samples : s.at \in Nat
  BY DEF Samples
<1>4. \A i \in 1..Len(Taken) : Taken[i] \in Samples
  BY <1>2
<1> QED BY <1>2, <1>3, <1>4

LEMMA PushedInOrder ==
  ASSUME IInv
  PROVE  /\ \A i \in 1..Len(pushed) : pushed[i].at <= now
         /\ \A i, j \in 1..Len(pushed) : i <= j => pushed[i].at <= pushed[j].at
<1>1. pushed \in Seq(Samples) /\ batch \in Seq(Samples)
  BY DEF IInv, Types
<1>2. \A i \in 1..Len(pushed) : i \in 1..Len(Taken) /\ Taken[i] = pushed[i]
  BY <1>1, TakenFacts
<1> QED BY <1>2 DEF IInv, InOrder

\* NVML's traffic as it is kept.
LEMMA ScrapedSample ==
  ASSUME NEW r \in Scraped, NEW g \in Gpus, now \in Nat
  PROVE  ScrapeSample(g, r) \in Samples /\ ScrapeSample(g, r).at = now
<1>1. r \in [sm : Nat, pcie : Nat, temp : Nat]
  BY CollectorAssumption DEF Scraped, Default, Emulated
<1>2. r.pcie % Word32 \in Nat
  BY <1>1 DEF Word32
<1> DEFINE kept == [r EXCEPT !.pcie = @ % Word32]
<1>3. kept \in [sm : Nat, pcie : Nat, temp : Nat] /\ kept.pcie = r.pcie % Word32
  BY <1>1, <1>2
<1> QED BY <1>1, <1>3 DEF ScrapeSample, Samples

LEMMA ScrapeFacts ==
  ASSUME IInv, ScrapeGpu
  PROVE  \E s \in Samples :
           /\ batch' = Append(batch, s) /\ s.at = now /\ s.gpu = Len(batch) + 1
           /\ now' \in {now, now + 1} /\ now \in Nat
           /\ Len(batch) < NumGpus /\ batch \in Seq(Samples)
           /\ loop = "collect" /\ UNCHANGED <<loop, count, ring, outbox, pushed, sent>>
<1>1. PICK r \in Scraped : batch' = Append(batch, ScrapeSample(Len(batch) + 1, r))
  BY DEF ScrapeGpu
<1>2. now \in Nat /\ batch \in Seq(Samples) /\ Len(batch) < NumGpus
  BY DEF IInv, Types, ScrapeGpu
<1>3. Len(batch) + 1 \in Gpus
  BY <1>2, CollectorAssumption DEF Gpus
<1> DEFINE s == ScrapeSample(Len(batch) + 1, r)
<1>4. s \in Samples /\ s.at = now
  BY <1>2, <1>3, ScrapedSample
<1>5. s.gpu = Len(batch) + 1
  BY DEF ScrapeSample
<1>6. now' \in {now, now + 1}
  BY <1>2, CollectorAssumption DEF ScrapeGpu
<1>7. loop = "collect" /\ UNCHANGED <<loop, count, ring, outbox, pushed, sent>>
  BY DEF ScrapeGpu
<1> HIDE DEF s
<1> QED BY <1>1, <1>2, <1>4, <1>5, <1>6, <1>7 DEF s

LEMMA ScrapeIInv == IInv /\ ScrapeGpu => IInv'
<1> SUFFICES ASSUME IInv, ScrapeGpu PROVE IInv'
  OBVIOUS
<1>1. PICK s \in Samples :
        /\ batch' = Append(batch, s) /\ s.at = now
        /\ now' \in {now, now + 1} /\ now \in Nat /\ batch \in Seq(Samples)
        /\ loop = "collect" /\ UNCHANGED <<loop, ring, pushed>>
  BY ScrapeFacts
<1>2. Types' /\ NothingInHand' /\ RingIsTheNewest'
  BY <1>1 DEF IInv, Types, NothingInHand, RingIsTheNewest
<1> DEFINE n == Len(Taken)
<1>3. /\ Taken \in Seq(Samples) /\ n \in Nat
      /\ \A i \in 1..n : Taken[i].at \in Nat /\ Taken[i].at <= now
      /\ \A i, j \in 1..n : i <= j => Taken[i].at <= Taken[j].at
  BY TakenFacts DEF IInv, InOrder
<1>4. Taken' = Append(Taken, s)
  <2>1. pushed \in Seq(Samples) /\ batch \in Seq(Samples)
    BY DEF IInv, Types
  <2>2. pushed \o Append(batch, s) = Append(pushed \o batch, s)
    BY <2>1
  <2> QED BY <1>1, <2>2 DEF Taken
<1>5. /\ Len(Taken') = n + 1 /\ Taken'[n + 1] = s
      /\ \A i \in 1..n : Taken'[i] = Taken[i]
  BY <1>3, <1>4
<1>6. \A i \in 1..(n + 1) : i \in 1..n \/ i = n + 1
  BY <1>3
<1> HIDE DEF n
<1>7. \A i \in 1..(n + 1) : Taken'[i].at \in Nat /\ Taken'[i].at <= now
  <2>1. \A i \in 1..n : Taken'[i].at \in Nat /\ Taken'[i].at <= now
    BY <1>3, <1>5
  <2>2. Taken'[n + 1].at \in Nat /\ Taken'[n + 1].at <= now
    BY <1>1, <1>5
  <2> QED BY <1>6, <2>1, <2>2
<1>8. \A i \in 1..(n + 1) : Taken'[i].at <= now'
  BY <1>1, <1>7
<1>9. \A i, j \in 1..(n + 1) : i <= j => Taken'[i].at <= Taken'[j].at
  <2> SUFFICES ASSUME NEW i \in 1..(n + 1), NEW j \in 1..(n + 1), i <= j
               PROVE  Taken'[i].at <= Taken'[j].at
    OBVIOUS
  <2>1. CASE j = n + 1
    BY <1>1, <1>5, <1>7, <2>1
  <2>2. CASE j # n + 1
    <3>1. i \in 1..n /\ j \in 1..n
      BY <1>3, <2>2
    <3> QED BY <1>3, <1>5, <3>1
  <2> QED BY <2>1, <2>2
<1>10. InOrder'
  BY <1>5, <1>8, <1>9 DEF InOrder
<1> QED BY <1>2, <1>10 DEF IInv

LEMMA CollectIInv == IInv /\ (Collect \/ Overflow) => IInv'
<1> SUFFICES ASSUME IInv, Collect \/ Overflow PROVE IInv'
  OBVIOUS
<1>1. UNCHANGED <<now, batch, ring, pushed>> /\ loop' \in {"push", "panicked"}
  BY DEF Collect, Overflow
<1> QED
  BY <1>1 DEF IInv, Types, NothingInHand, InOrder, Taken, RingIsTheNewest

LEMMA PushIInv == IInv /\ Push => IInv'
<1> SUFFICES ASSUME IInv, Push PROVE IInv'
  OBVIOUS
<1>1. CASE batch = <<>>
  <2>1. UNCHANGED <<now, batch, ring, pushed>>
    BY <1>1 DEF Push
  <2> QED
    BY <1>1, <2>1 DEF IInv, Types, NothingInHand, InOrder, Taken, RingIsTheNewest
<1>2. CASE batch # <<>>
  <2> DEFINE s == Head(batch)
  <2>1. /\ ring' = PushSample(ring, s) /\ pushed' = Append(pushed, s)
        /\ batch' = Tail(batch) /\ now' = now /\ loop = "push" /\ loop' = loop
    BY <1>2 DEF Push
  <2>2. /\ batch \in Seq(Samples) /\ ring \in Seq(Samples)
        /\ pushed \in Seq(Samples) /\ now \in Nat /\ RingIsTheNewest
    BY DEF IInv, Types
  <2>3. s \in Samples
    BY <1>2, <2>2
  <2>4. ring' \in Seq(Samples) /\ RingIsTheNewest'
    BY <2>1, <2>2, <2>3, PushKeepsTheNewest DEF RingIsTheNewest
  <2>5. Types'
    BY <1>2, <2>1, <2>2, <2>3, <2>4 DEF Types
  <2>6. NothingInHand'
    BY <2>1 DEF NothingInHand
  <2>7. Taken' = Taken
    <3>1. Append(pushed, Head(batch)) \o Tail(batch) = pushed \o batch
      BY <1>2, <2>2, HeadThenTail
    <3> QED BY <2>1, <3>1 DEF Taken
  <2>8. InOrder'
    BY <2>1, <2>7 DEF IInv, InOrder
  <2> QED BY <2>4, <2>5, <2>6, <2>8 DEF IInv
<1> QED BY <1>1, <1>2

LEMMA PostIInv == IInv /\ (Post \/ Pause) => IInv'
<1> USE CollectorAssumption
<1> SUFFICES ASSUME IInv, Post \/ Pause PROVE IInv'
  OBVIOUS
<1>1. /\ UNCHANGED <<batch, ring, pushed>> /\ loop = "post"
      /\ now' \in Nat /\ now' >= now /\ now \in Nat
  BY DEF Post, Pause, IInv, Types
<1>2. Types' /\ RingIsTheNewest'
  BY <1>1 DEF IInv, Types, RingIsTheNewest
<1>3. NothingInHand'
  BY <1>1 DEF IInv, NothingInHand
<1>4. Taken' = Taken
  BY <1>1 DEF Taken
<1>5. \A i \in 1..Len(Taken) : Taken[i].at <= now'
  <2>1. \A i \in 1..Len(Taken) : Taken[i].at \in Nat /\ Taken[i].at <= now
    BY TakenFacts DEF IInv, InOrder
  <2> QED BY <1>1, <2>1
<1>6. InOrder'
  BY <1>4, <1>5 DEF IInv, InOrder
<1> QED BY <1>2, <1>3, <1>6 DEF IInv

LEMMA NextIInv == IInv /\ [Next]_vars => IInv'
<1> SUFFICES ASSUME IInv, [Next]_vars PROVE IInv'
  OBVIOUS
<1>1. CASE UNCHANGED vars
  BY <1>1 DEF vars, IInv, Types, NothingInHand, InOrder, Taken, RingIsTheNewest
<1> QED
  BY <1>1, ScrapeIInv, CollectIInv, PushIInv, PostIInv DEF Next

\* The buffer holds the newest samples in their order, for any capacity, number
\* of GPUs, readings and delays.
THEOREM RingIsTheNewestThm == Spec => []RingIsTheNewest
<1>1. IInv => RingIsTheNewest
  BY DEF IInv
<1>2. QED
  BY <1>1, InitIInv, NextIInv, PTL DEF Spec

LEMMA RingIsTheEnd ==
  IInv => /\ Len(pushed) \in Nat /\ Len(ring) \in Nat /\ Len(ring) <= Len(pushed)
          /\ Len(ring) < Len(pushed) => Len(ring) = Capacity
          /\ \A i \in 1..Len(ring) : ring[i] = pushed[Len(pushed) - Len(ring) + i]
<1> USE CollectorAssumption
<1> DEFINE n == Len(pushed)
           k == Len(ring)
<1> SUFFICES ASSUME IInv
             PROVE  /\ n \in Nat /\ k \in Nat /\ k <= n /\ (k < n => k = Capacity)
                    /\ \A i \in 1..k : ring[i] = pushed[n - k + i]
  OBVIOUS
<1>1. n \in Nat /\ k \in Nat /\ Capacity \in Nat \ {0}
  BY DEF IInv, Types
<1>2. k = IF n < Capacity THEN n ELSE Capacity
  BY DEF IInv, RingIsTheNewest, IsNewest
<1>3. \A i \in 1..k : ring[i] = pushed[n - k + i]
  BY DEF IInv, RingIsTheNewest, IsNewest
<1>4. k <= n /\ (k < n => k = Capacity)
  BY <1>1, <1>2
<1> QED BY <1>1, <1>3, <1>4

\* A span that the buffer still covers is correlated with the samples of its
\* time and no others.
LEMMA IInvWindow == IInv => WindowIsComplete
<1> USE CollectorAssumption
<1> SUFFICES ASSUME IInv, NEW start \in Instants, NEW end \in Instants,
                    Covered(start)
             PROVE  QueryWindow(start, end) = During(start, end)
  BY DEF WindowIsComplete
<1> DEFINE n == Len(pushed)
           k == Len(ring)
<1>1. /\ n \in Nat /\ k \in Nat /\ k <= n /\ (k < n => k >= 1)
      /\ \A i \in 1..k : ring[i] = pushed[n - k + i]
  BY RingIsTheEnd
<1>2. \A i \in 1..n : pushed[i].at \in Nat
  <2>1. \A i \in 1..n : pushed[i] \in Samples
    BY DEF IInv, Types
  <2>2. \A s \in Samples : s.at \in Nat
    BY DEF Samples
  <2>3. QED
    BY <2>1, <2>2
<1>3. start \in Nat
  <2>1. \A s \in Pushed : s.at \in Nat
    BY <1>2 DEF Pushed, IInv, Types
  <2>2. now \in Nat
    BY DEF IInv, Types
  <2>3. QED
    BY <2>1, <2>2 DEF Instants
<1>4. Ring \subseteq Pushed
  <2>1. ASSUME NEW i \in 1..k PROVE ring[i] \in Pushed
    <3>1. n - k + i \in 1..n
      BY <1>1
    <3>2. ring[i] = pushed[n - k + i]
      BY <1>1
    <3>3. n - k + i \in DOMAIN pushed
      BY <3>1 DEF IInv, Types
    <3>4. QED
      BY <3>2, <3>3 DEF Pushed
  <2>2. QED
    BY <2>1 DEF Ring, IInv, Types
<1>5. ASSUME NEW j \in 1..n, start <= pushed[j].at PROVE pushed[j] \in Ring
  <2>1. j >= n - k + 1
    <3>1. SUFFICES ASSUME j <= n - k PROVE FALSE
      BY <1>1
    <3>2. k < n /\ 1 \in 1..k /\ n - k + 1 \in 1..n
      BY <3>1, <1>1
    <3>3. start > pushed[n - k + 1].at
      BY <3>2, <1>1 DEF Covered
    <3>4. pushed[j].at <= pushed[n - k + 1].at
      BY <3>1, <3>2, <1>1, PushedInOrder
    <3>5. QED
      BY <3>2, <3>3, <3>4, <1>5, <1>2, <1>3
  <2>2. j - (n - k) \in 1..k /\ n - k + (j - (n - k)) = j
    BY <2>1, <1>1
  <2>3. ring[j - (n - k)] = pushed[j]
    BY <2>2, <1>1
  <2>4. QED
    BY <2>2, <2>3 DEF Ring, IInv, Types
<1>6. \A s \in Pushed : start <= s.at => s \in Ring
  BY <1>5 DEF Pushed, IInv, Types
<1>7. QED
  BY <1>4, <1>6 DEF QueryWindow, During

\* The correlation of a span that the buffer covers misses no sample and adds
\* none, for any capacity, number of GPUs, readings and delays.
THEOREM WindowIsCompleteThm == Spec => []WindowIsComplete
BY IInvWindow, InitIInv, NextIInv, PTL DEF Spec

-----------------------------------------------------------------------------
(* Folds.  The library defines a fold by a recursive function on the        *)
(* subsets of a set; that there is such a function, and what it computes,   *)
(* follows from the smallest counterexample.                                *)

\* A set of naturals that is not empty has a smallest element.
LEMMA LeastNatural ==
  ASSUME NEW S \in SUBSET Nat, S # {}
  PROVE  \E m \in S : \A k \in S : ~(k < m)
<1>1. S \subseteq Nat /\ S # {}
  OBVIOUS
<1>2. PICK m \in S : \A k \in S : ~(<<k, m>> \in OpToRel(<, Nat))
  BY <1>1, NatLessThanWellFounded, WFMin
<1>3. \A k \in S : ~(k < m)
  BY <1>2 DEF OpToRel
<1> QED BY <1>3

\* Good holds the empty subset, and each that is one element larger than one of
\* its own.
Inductive(Good, S, pick) ==
  /\ {} \in Good
  /\ \A T \in SUBSET S :
       T # {} => pick[T] \in T /\ (T \ {pick[T]} \in Good => T \in Good)

LEMMA SubsetInduction ==
  ASSUME NEW S, IsFiniteSet(S), NEW pick, NEW Good, Inductive(Good, S, pick)
  PROVE  \A T \in SUBSET S : T \in Good
<1> DEFINE Bad == {n \in Nat : \E T \in SUBSET S : Cardinality(T) = n /\ T \notin Good}
<1>1. \A T \in SUBSET S : IsFiniteSet(T) /\ Cardinality(T) \in Nat
  BY FS_Subset, FS_CardinalityType
<1>2. Bad = {}
  <2> SUFFICES ASSUME Bad # {} PROVE FALSE
    OBVIOUS
  <2>1. PICK n \in Bad : \A k \in Bad : ~(k < n)
    <3>1. Bad \in SUBSET Nat /\ Bad # {}
      OBVIOUS
    <3> HIDE DEF Bad
    <3> QED BY <3>1, LeastNatural
  <2>2. PICK T \in SUBSET S : Cardinality(T) = n /\ T \notin Good
    OBVIOUS
  <2>3. T # {} /\ pick[T] \in T /\ T \ {pick[T]} \in SUBSET S
    <3>1. T # {}
      <4>1. {} \in Good
        BY DEF Inductive
      <4> QED BY <2>2, <4>1, Zenon
    <3>2. pick[T] \in T
      BY <3>1 DEF Inductive
    <3> QED BY <3>1, <3>2
  <2>4. Cardinality(T \ {pick[T]}) = n - 1
    <3>1. IsFiniteSet(T)
      BY <1>1
    <3>2. Cardinality(T \ {pick[T]}) = Cardinality(T) - 1
      BY <2>3, <3>1, FS_RemoveElement
    <3> QED BY <2>2, <3>2
  <2>5. n \in Nat /\ n - 1 \in Nat /\ n - 1 < n
    BY <1>1, <2>3, <2>4
  <2>6. T \ {pick[T]} \in Good
    BY <2>1, <2>3, <2>4, <2>5
  <2> QED BY <2>2, <2>3, <2>6 DEF Inductive
<1> QED BY <1>1, <1>2

\* The function that starts with base and takes one element of a set at a time.
IsFold(F, S, base, pick, step) ==
  \A T \in SUBSET S :
    F[T] = IF T = {} THEN base ELSE step[<<pick[T], F[T \ {pick[T]}]>>]

LEMMA FoldExists ==
  ASSUME NEW S, IsFiniteSet(S), NEW V, NEW base \in V, NEW pick, NEW step,
         \A T \in SUBSET S : T # {} => pick[T] \in T,
         \A x \in S, y \in V : step[<<x, y>>] \in V
  PROVE  \E F \in [SUBSET S -> V] : IsFold(F, S, base, pick, step)
<1> DEFINE Upto(n) == {T \in SUBSET S : Cardinality(T) <= n}
           Good(F, n) == \A T \in Upto(n) :
             F[T] = IF T = {} THEN base ELSE step[<<pick[T], F[T \ {pick[T]}]>>]
           Bad == {n \in Nat : ~ \E F \in [Upto(n) -> V] : Good(F, n)}
<1>1. \A T \in SUBSET S : IsFiniteSet(T) /\ Cardinality(T) \in Nat
  BY FS_Subset, FS_CardinalityType
<1>2. ASSUME NEW T \in SUBSET S, T # {}
      PROVE  /\ T \ {pick[T]} \in SUBSET S /\ pick[T] \in S
             /\ Cardinality(T \ {pick[T]}) = Cardinality(T) - 1
  BY <1>1, <1>2, FS_RemoveElement
<1>3. Bad = {}
  <2> SUFFICES ASSUME Bad # {} PROVE FALSE
    OBVIOUS
  <2>1. PICK n \in Bad : \A k \in Bad : ~(k < n)
    <3>1. Bad \in SUBSET Nat /\ Bad # {}
      OBVIOUS
    <3> HIDE DEF Bad
    <3> QED BY <3>1, LeastNatural
  <2>2. n \in Nat /\ ~ \E F \in [Upto(n) -> V] : Good(F, n)
    OBVIOUS
  <2>3. CASE n = 0
    <3> DEFINE F == [T \in Upto(n) |-> base]
    <3>1. \A T \in Upto(n) : T = {}
      <4> SUFFICES ASSUME NEW T \in Upto(n) PROVE T = {}
        OBVIOUS
      <4>1. Cardinality(T) = 0
        BY <1>1, <2>3
      <4> QED BY <1>1, <4>1, FS_EmptySet
    <3>2. F \in [Upto(n) -> V] /\ Good(F, n)
      BY <3>1
    <3> QED BY <2>2, <3>2
  <2>4. CASE n # 0
    <3>1. n - 1 \in Nat /\ n - 1 < n
      BY <2>2, <2>4
    <3>2. n - 1 \notin Bad
      BY <2>1, <3>1
    <3>3. PICK G \in [Upto(n - 1) -> V] : Good(G, n - 1)
      BY <3>1, <3>2
    <3> DEFINE F == [T \in Upto(n) |->
                       IF T = {} THEN base ELSE step[<<pick[T], G[T \ {pick[T]}]>>]]
    <3>4. \A T \in Upto(n) : T # {} => T \ {pick[T]} \in Upto(n - 1)
      BY <1>1, <1>2, <2>2
    <3>5. F \in [Upto(n) -> V]
      BY <1>2, <3>4
    <3>6. \A T \in Upto(n - 1) : T \in Upto(n) /\ F[T] = G[T]
      <4> SUFFICES ASSUME NEW T \in Upto(n - 1) PROVE T \in Upto(n) /\ F[T] = G[T]
        OBVIOUS
      <4>1. T \in Upto(n)
        BY <1>1, <2>2
      <4>2. G[T] = IF T = {} THEN base ELSE step[<<pick[T], G[T \ {pick[T]}]>>]
        BY <3>3
      <4> QED BY <4>1, <4>2
    <3>7. Good(F, n)
      <4> SUFFICES ASSUME NEW T \in Upto(n)
                   PROVE  F[T] = IF T = {} THEN base
                                 ELSE step[<<pick[T], F[T \ {pick[T]}]>>]
        OBVIOUS
      <4>1. T # {} => F[T \ {pick[T]}] = G[T \ {pick[T]}]
        BY <3>4, <3>6
      <4> QED BY <4>1
    <3> QED BY <2>2, <3>5, <3>7
  <2> QED BY <2>3, <2>4
<1>4. Cardinality(S) \in Nat /\ Upto(Cardinality(S)) = SUBSET S
  <2>1. \A T \in SUBSET S : Cardinality(T) <= Cardinality(S)
    BY FS_Subset
  <2> QED BY <1>1, <2>1
<1>5. PICK F \in [Upto(Cardinality(S)) -> V] : Good(F, Cardinality(S))
  BY <1>3, <1>4
<1> QED BY <1>4, <1>5 DEF IsFold

-----------------------------------------------------------------------------
(* The diagnosis.                                                            *)

SomeOf(T) == CHOOSE x \in T : TRUE

\* What the library's sum over S is: the sums over the subsets of S.
Sums(S) == CHOOSE iter :
  iter = [T \in SUBSET S |-> IF T = {} THEN 0
                             ELSE SomeOf(T).reading.sm + iter[T \ {SomeOf(T)}]]

LEMMA SumIsIterated ==
  ASSUME NEW S
  PROVE  MapThenSumSet(LAMBDA s : s.reading.sm, S) = Sums(S)[S]
BY Zenon DEF MapThenSumSet, MapThenFoldSet, Sums, SomeOf

LEMMA SumsUnfold ==
  ASSUME NEW S \in SUBSET Samples, IsFiniteSet(S)
  PROVE  /\ Sums(S) \in [SUBSET S -> Nat]
         /\ \A T \in SUBSET S :
              Sums(S)[T] = IF T = {} THEN 0
                           ELSE SomeOf(T).reading.sm + Sums(S)[T \ {SomeOf(T)}]
<1> DEFINE pick == [T \in SUBSET S |-> SomeOf(T)]
           step == [p \in S \X Nat |-> p[1].reading.sm + p[2]]
<1>1. \A T \in SUBSET S : T # {} => SomeOf(T) \in T
  BY DEF SomeOf
<1>2. \A x \in S : x.reading.sm \in Nat
  BY DEF Samples
<1>3. \A x \in S, y \in Nat :
        step[<<x, y>>] = x.reading.sm + y /\ step[<<x, y>>] \in Nat
  BY <1>2
<1>4. \A T \in SUBSET S : T # {} => pick[T] \in T
  BY <1>1
<1>5. PICK F \in [SUBSET S -> Nat] : IsFold(F, S, 0, pick, step)
  <2>1. 0 \in Nat
    OBVIOUS
  <2>2. \A x \in S, y \in Nat : step[<<x, y>>] \in Nat
    BY <1>3
  <2> HIDE DEF pick, step
  <2> QED BY <1>4, <2>1, <2>2, FoldExists, Zenon
<1>6. \A T \in SUBSET S :
        F[T] = IF T = {} THEN 0 ELSE SomeOf(T).reading.sm + F[T \ {SomeOf(T)}]
  <2> SUFFICES ASSUME NEW T \in SUBSET S
               PROVE  F[T] = IF T = {} THEN 0
                             ELSE SomeOf(T).reading.sm + F[T \ {SomeOf(T)}]
    OBVIOUS
  <2>1. F[T] = IF T = {} THEN 0 ELSE step[<<pick[T], F[T \ {pick[T]}]>>]
    BY <1>5, Zenon DEF IsFold
  <2>2. CASE T = {}
    BY <2>1, <2>2
  <2>3. CASE T # {}
    <3>1. pick[T] = SomeOf(T) /\ SomeOf(T) \in S /\ T \ {SomeOf(T)} \in SUBSET S
      BY <1>1, <2>3
    <3>2. F[T \ {SomeOf(T)}] \in Nat
      BY <3>1
    <3>3. step[<<SomeOf(T), F[T \ {SomeOf(T)}]>>]
            = SomeOf(T).reading.sm + F[T \ {SomeOf(T)}]
      BY <1>3, <3>1, <3>2
    <3> HIDE DEF pick, step
    <3> QED BY <2>1, <2>3, <3>1, <3>3
  <2> QED BY <2>2, <2>3
<1>7. F = [T \in SUBSET S |-> IF T = {} THEN 0
                              ELSE SomeOf(T).reading.sm + F[T \ {SomeOf(T)}]]
  BY <1>6
<1>8. Sums(S) = [T \in SUBSET S |-> IF T = {} THEN 0
                      ELSE SomeOf(T).reading.sm + Sums(S)[T \ {SomeOf(T)}]]
  BY <1>7, Zenon DEF Sums
<1>9. \A T \in SUBSET S :
        Sums(S)[T] = IF T = {} THEN 0
                     ELSE SomeOf(T).reading.sm + Sums(S)[T \ {SomeOf(T)}]
  BY <1>8, Zenon
<1>10. Sums(S) \in [SUBSET S -> Nat]
  <2> DEFINE Good == {T \in SUBSET S : Sums(S)[T] \in Nat}
  <2>1. {} \in Good
    <3>1. Sums(S)[{}] = 0
      BY <1>9, Zenon
    <3> QED BY <3>1
  <2>2. ASSUME NEW T \in SUBSET S, T # {}, T \ {pick[T]} \in Good
        PROVE  T \in Good
    <3>1. pick[T] = SomeOf(T) /\ SomeOf(T) \in S
      BY <1>1, <2>2
    <3>2. Sums(S)[T] = SomeOf(T).reading.sm + Sums(S)[T \ {SomeOf(T)}]
      BY <1>9, <2>2
    <3> QED BY <1>2, <2>2, <3>1, <3>2
  <2>3. \A T \in SUBSET S : T \in Good
    <3>1. Inductive(Good, S, pick)
      BY <1>4, <2>1, <2>2 DEF Inductive
    <3> HIDE DEF Good, pick
    <3> QED BY <3>1, SubsetInduction
  <2>4. \A T \in SUBSET S : Sums(S)[T] \in Nat
    BY <2>3
  <2> QED BY <1>8, <2>4, Zenon
<1> QED BY <1>9, <1>10

\* Of samples whose average is below a bound some sample is.
LEMMA IdleIsFound ==
  ASSUME NEW S \in SUBSET Samples, IsFiniteSet(S), S # {}, AverageSm(S) < 500
  PROVE  \E s \in S : s.reading.sm < 500
<1> SUFFICES ASSUME \A s \in S : ~(s.reading.sm < 500) PROVE FALSE
  OBVIOUS
<1>1. \A s \in S : s.reading.sm \in Nat /\ s.reading.sm >= 500
  BY DEF Samples
<1>2. /\ Sums(S) \in [SUBSET S -> Nat]
      /\ \A T \in SUBSET S :
           Sums(S)[T] = IF T = {} THEN 0
                        ELSE SomeOf(T).reading.sm + Sums(S)[T \ {SomeOf(T)}]
  BY SumsUnfold
<1>3. \A T \in SUBSET S : IsFiniteSet(T) /\ Cardinality(T) \in Nat
  BY FS_Subset, FS_CardinalityType
<1>4. ASSUME NEW T \in SUBSET S, T # {}
      PROVE  /\ SomeOf(T) \in S /\ T \ {SomeOf(T)} \in SUBSET S
             /\ Cardinality(T \ {SomeOf(T)}) = Cardinality(T) - 1
  <2>1. SomeOf(T) \in T
    BY <1>4 DEF SomeOf
  <2> QED BY <1>3, <2>1, FS_RemoveElement
<1> DEFINE pick == [T \in SUBSET S |-> SomeOf(T)]
           High == {T \in SUBSET S : Sums(S)[T] >= 500 * Cardinality(T)}
<1>5. \A T \in SUBSET S : T \in High
  <2>1. {} \in High
    BY <1>2, FS_EmptySet
  <2>2. ASSUME NEW T \in SUBSET S, T # {}, T \ {pick[T]} \in High
        PROVE  T \in High
    <3> DEFINE x == SomeOf(T)
               n == Cardinality(T)
               m == Cardinality(T \ {x})
               rest == Sums(S)[T \ {x}]
    <3>1. pick[T] = x /\ x \in S /\ T \ {x} \in SUBSET S /\ m = n - 1
      BY <1>4, <2>2
    <3>2. m \in Nat /\ n \in Nat /\ rest \in Nat
      BY <1>2, <1>3, <3>1
    <3>3. rest >= 500 * m
      BY <2>2, <3>1
    <3>4. x.reading.sm \in Nat /\ x.reading.sm >= 500
      BY <1>1, <3>1
    <3>5. Sums(S)[T] = x.reading.sm + rest
      BY <1>2, <2>2
    <3>6. Sums(S)[T] >= 500 * n
      <4> HIDE DEF x, n, m, rest
      <4> QED BY <3>1, <3>2, <3>3, <3>4, <3>5
    <3> QED BY <3>6
  <2>3. \A T \in SUBSET S : T # {} => pick[T] \in T
    BY DEF SomeOf
  <2>4. Inductive(High, S, pick)
    <3> HIDE DEF High, pick
    <3> QED BY <2>1, <2>2, <2>3 DEF Inductive
  <2> HIDE DEF High, pick
  <2> QED BY <2>4, SubsetInduction
<1>6. Sums(S)[S] \in Nat /\ Cardinality(S) \in Nat
      /\ Sums(S)[S] >= 500 * Cardinality(S)
  BY <1>2, <1>3, <1>5
<1>7. Cardinality(S) # 0
  BY FS_EmptySet
<1>8. Sums(S)[S] \div Cardinality(S) >= 500
  <2> DEFINE a == Sums(S)[S]
             c == Cardinality(S)
  <2>1. a \in Nat /\ c \in Nat \ {0} /\ a >= 500 * c
    BY <1>6, <1>7
  <2> HIDE DEF a, c
  <2>2. a \div c >= 500
    BY <2>1
  <2> QED BY <2>2 DEF a, c
<1>9. AverageSm(S) = Sums(S)[S] \div Cardinality(S)
  BY SumIsIterated, Zenon DEF AverageSm
<1>10. Sums(S)[S] \div Cardinality(S) \in Nat
  BY <1>6, <1>7
<1> QED BY <1>8, <1>9, <1>10

LEMMA BottleneckCases ==
  ASSUME NEW S \in SUBSET Samples
  PROVE  /\ Bottleneck(S) # None => S # {}
         /\ Bottleneck(S) = "dataloader_starvation" =>
              /\ S # {} /\ AverageSm(S) < 500
              /\ \A s \in S : s.reading.pcie < 500
<1>1. CASE S # {} /\ AverageSm(S) < 500 /\ \A s \in S : s.reading.pcie < 500
  <2>1. \A s \in S : s.reading.pcie \in Nat
    BY DEF Samples
  <2>2. ~ \E s \in S : s.reading.pcie > 7000
    BY <1>1, <2>1
  <2>3. Bottleneck(S) = "dataloader_starvation"
    BY <1>1, <2>2 DEF Bottleneck
  <2> QED BY <1>1, <2>3
<1>2. CASE ~(S # {} /\ AverageSm(S) < 500 /\ \A s \in S : s.reading.pcie < 500)
  <2>1. CASE \E s \in S : s.reading.pcie > 7000
    <3>1. Bottleneck(S) = "pcie_bus_saturation"
      BY <1>2, <2>1 DEF Bottleneck
    <3>2. S # {}
      BY <2>1
    <3> QED BY <3>1, <3>2
  <2>2. CASE ~ \E s \in S : s.reading.pcie > 7000
    <3>1. Bottleneck(S) = None
      BY <1>2, <2>2 DEF Bottleneck
    <3> QED BY <3>1, CollectorAssumption
  <2> QED BY <2>1, <2>2
<1> QED BY <1>1, <1>2

LEMMA RingIsSampled ==
  IInv => /\ Ring \subseteq Pushed /\ Pushed \subseteq Samples
          /\ IsFiniteSet(Ring)
<1> USE CollectorAssumption
<1> SUFFICES ASSUME IInv
             PROVE  /\ Ring \subseteq Pushed /\ Pushed \subseteq Samples
                    /\ IsFiniteSet(Ring)
  OBVIOUS
<1>1. /\ ring \in Seq(Samples) /\ pushed \in Seq(Samples)
      /\ IsNewest(ring, pushed) /\ Capacity \in Nat \ {0}
  BY DEF IInv, Types, RingIsTheNewest
<1>2. Pushed \subseteq Samples
  BY <1>1 DEF Pushed
<1>3. Ring \subseteq Pushed
  <2> DEFINE n == Len(pushed)
             k == Len(ring)
  <2>1. n \in Nat /\ k \in Nat /\ k <= n
    BY RingIsTheEnd
  <2>2. \A i \in 1..k : ring[i] = pushed[n - k + i]
    BY RingIsTheEnd
  <2>3. \A i \in 1..k : n - k + i \in DOMAIN pushed
    BY <1>1, <2>1
  <2>4. DOMAIN ring = 1..k
    BY <1>1
  <2> QED BY <2>2, <2>3, <2>4 DEF Ring, Pushed
<1>4. IsFiniteSet(Ring)
  <2>1. DOMAIN ring = 1..Len(ring) /\ Len(ring) \in Nat
    BY <1>1
  <2>2. IsFiniteSet(DOMAIN ring)
    BY <2>1, FS_Interval
  <2>3. Ring = {ring[i] : i \in DOMAIN ring}
    BY DEF Ring
  <2>4. ring \in Surjection(DOMAIN ring, Ring)
    BY <1>1, <2>3 DEF Surjection
  <2> QED BY <2>2, <2>4, FS_Surjection
<1> QED BY <1>2, <1>3, <1>4

LEMMA IInvDiagnosis == IInv => DiagnosisIsJustified
<1> SUFFICES ASSUME IInv, NEW start \in Instants, NEW end \in Instants, Readable
             PROVE  LET finding == CorrelateSpan(start, end)
                        during == During(start, end)
                    IN  /\ finding.bottleneck # None => finding.duration = end - start
                        /\ finding.bottleneck = "dataloader_starvation" =>
                             /\ \E s \in during : s.reading.sm < 500
                             /\ Covered(start) =>
                                  \A s \in during : s.bus < 500 \/ s.bus >= Word32
  BY DEF DiagnosisIsJustified
<1> DEFINE S == QueryWindow(start, end)
<1>1. /\ Ring \subseteq Pushed /\ Pushed \subseteq Samples /\ IsFiniteSet(Ring)
  BY RingIsSampled
<1>2. S \subseteq During(start, end)
  BY <1>1 DEF QueryWindow, During
<1>3. S \in SUBSET Samples /\ S \subseteq Ring
  BY <1>1 DEF QueryWindow
<1>4. IsFiniteSet(S)
  BY <1>1, <1>3, FS_Subset
<1>5. Covered(start) => S = During(start, end)
  BY IInvWindow DEF WindowIsComplete
<1>6. start \in Nat /\ end \in Nat
  <2>1. \A s \in Pushed : s.at \in Nat
    BY <1>1 DEF Samples
  <2>2. now \in Nat
    BY DEF IInv, Types
  <2> QED BY <2>1, <2>2 DEF Instants
<1>7. S # {} => start <= end
  <2>1. \A s \in S : start <= s.at /\ s.at <= end /\ s.at \in Nat
    BY <1>3 DEF QueryWindow, Samples
  <2> QED BY <1>6, <2>1
<1>8. /\ CorrelateSpan(start, end).bottleneck = Bottleneck(S)
      /\ start <= end => CorrelateSpan(start, end).duration = end - start
  BY DEF CorrelateSpan
<1>9. /\ Bottleneck(S) # None => S # {}
      /\ Bottleneck(S) = "dataloader_starvation" =>
           S # {} /\ AverageSm(S) < 500 /\ \A s \in S : s.reading.pcie < 500
  <2> HIDE DEF S
  <2> QED BY <1>3, BottleneckCases
<1>10. S # {} /\ AverageSm(S) < 500 => \E s \in S : s.reading.sm < 500
  <2> HIDE DEF S
  <2> QED BY <1>3, <1>4, IdleIsFound
<1>11. \A s \in S : s.reading.pcie < 500 => s.bus < 500 \/ s.bus >= Word32
  <2> SUFFICES ASSUME NEW s \in Samples, s.reading.pcie < 500, s.bus < Word32
               PROVE  s.bus < 500
    BY <1>3 DEF Samples, Word32
  <2>1. s.bus \in Nat /\ s.reading.pcie = s.bus % 4096 /\ s.bus < 4096
    BY DEF Samples, Word32
  <2> QED BY <2>1
<1> HIDE DEF S
<1> QED BY <1>2, <1>5, <1>7, <1>8, <1>9, <1>10, <1>11

\* Whatever GPUs report and however little of a span the buffer still holds: a
\* span found starved had an idle GPU, and each reading of the bus that the buffer
\* covers was below 500 MB/s or beyond the 4096 MB/s that 32 bits hold; no finding
\* is made for a span that ends before it starts.
THEOREM DiagnosisIsJustifiedThm == Spec => []DiagnosisIsJustified
BY IInvDiagnosis, InitIInv, NextIInv, PTL DEF Spec

-----------------------------------------------------------------------------
(* The alerts for a batch.                                                   *)

LEMMA MaxIsAnElement ==
  ASSUME NEW n \in Nat, NEW T \in SUBSET (1..n), T # {}
  PROVE  Max(T) \in T
<1> DEFINE Above == {m \in Nat : \A x \in T : x <= m}
<1>1. n \in Above
  OBVIOUS
<1>2. PICK m \in Above : \A k \in Above : ~(k < m)
  <2>1. Above \in SUBSET Nat /\ Above # {}
    BY <1>1
  <2> HIDE DEF Above
  <2> QED BY <2>1, LeastNatural
<1>3. m \in T
  <2> SUFFICES ASSUME m \notin T PROVE FALSE
    OBVIOUS
  <2>1. \A x \in T : x <= m - 1 /\ m - 1 \in Nat
    OBVIOUS
  <2>2. m - 1 \in Above
    BY <2>1
  <2> QED BY <1>2, <2>2
<1>4. \E x \in T : \A y \in T : x >= y
  BY <1>3
<1> QED BY <1>4 DEF Max

Announcements == {Alert(s) : s \in Samples}

\* What the loop does with one sample.
WithAlert(alerts, s) == IF Hot(s) THEN Append(alerts, Alert(s)) ELSE alerts

\* What the library's fold over b is: the alerts for the subsets of its indices.
AlertLists(b) == CHOOSE iter :
  iter = [T \in SUBSET (DOMAIN b) |->
            IF T = {} THEN <<>> ELSE WithAlert(iter[T \ {Max(T)}], b[Max(T)])]

LEMMA AlertsAreIterated ==
  ASSUME NEW b
  PROVE  Alerts(b) = AlertLists(b)[DOMAIN b]
BY Zenon DEF Alerts, FoldLeft, MapThenFoldSet, AlertLists, WithAlert

LEMMA AlertListsUnfold ==
  ASSUME NEW b \in Seq(Samples)
  PROVE  \A T \in SUBSET (DOMAIN b) :
           AlertLists(b)[T] =
             IF T = {} THEN <<>> ELSE WithAlert(AlertLists(b)[T \ {Max(T)}], b[Max(T)])
<1> DEFINE S == DOMAIN b
           V == Seq(Announcements)
           pick == [T \in SUBSET S |-> Max(T)]
           step == [p \in S \X V |-> WithAlert(p[2], b[p[1]])]
<1>1. S = 1..Len(b) /\ Len(b) \in Nat /\ IsFiniteSet(S)
  <2>1. S = 1..Len(b) /\ Len(b) \in Nat
    OBVIOUS
  <2> QED BY <2>1, FS_Interval
<1>2. \A T \in SUBSET S : T # {} => Max(T) \in T
  <2> HIDE DEF S
  <2> QED BY <1>1, MaxIsAnElement
<1>3. ASSUME NEW x \in S, NEW y \in V
      PROVE  step[<<x, y>>] = WithAlert(y, b[x]) /\ WithAlert(y, b[x]) \in V
  <2>1. b[x] \in Samples
    OBVIOUS
  <2>2. Alert(b[x]) \in Announcements
    BY <2>1 DEF Announcements
  <2> HIDE DEF S
  <2> QED BY <2>2 DEF WithAlert
<1>4. PICK F \in [SUBSET S -> V] : IsFold(F, S, <<>>, pick, step)
  <2>1. <<>> \in V
    OBVIOUS
  <2>2. \A x \in S, y \in V : step[<<x, y>>] \in V
    BY <1>3
  <2>3. \A T \in SUBSET S : T # {} => pick[T] \in T
    BY <1>2
  <2> HIDE DEF S, V, pick, step
  <2> QED BY <1>1, <2>1, <2>2, <2>3, FoldExists, Zenon
<1>5. ASSUME NEW T \in SUBSET S
      PROVE  F[T] = IF T = {} THEN <<>> ELSE WithAlert(F[T \ {Max(T)}], b[Max(T)])
  <2>1. F[T] = IF T = {} THEN <<>> ELSE step[<<pick[T], F[T \ {pick[T]}]>>]
    BY <1>4, Zenon DEF IsFold
  <2>2. CASE T = {}
    BY <2>1, <2>2, Zenon
  <2>3. CASE T # {}
    <3>1. pick[T] = Max(T)
      OBVIOUS
    <3>2. Max(T) \in S /\ T \ {Max(T)} \in SUBSET S
      BY <1>2, <2>3
    <3>3. F[T \ {Max(T)}] \in V
      BY <3>2
    <3>4. step[<<Max(T), F[T \ {Max(T)}]>>] = WithAlert(F[T \ {Max(T)}], b[Max(T)])
      BY <1>3, <3>2, <3>3
    <3> HIDE DEF pick, step
    <3> QED BY <2>1, <2>3, <3>1, <3>4, Zenon
  <2> QED BY <2>2, <2>3
<1>6. F = [T \in SUBSET S |->
             IF T = {} THEN <<>> ELSE WithAlert(F[T \ {Max(T)}], b[Max(T)])]
  BY <1>5
<1>7. AlertLists(b) = [T \in SUBSET S |->
        IF T = {} THEN <<>> ELSE WithAlert(AlertLists(b)[T \ {Max(T)}], b[Max(T)])]
  BY <1>6, Zenon DEF AlertLists
<1> QED BY <1>7, Zenon

\* alerts names the hot samples among those of b at the indices in T: each of
\* them, no others, and none twice.
Announces(alerts, b, T) ==
  /\ alerts \in Seq(Announcements) /\ Len(alerts) <= Cardinality(T)
  /\ \A i \in 1..Len(alerts) : \E k \in T : Hot(b[k]) /\ alerts[i] = Alert(b[k])
  /\ \A k \in T : Hot(b[k]) => \E i \in 1..Len(alerts) : alerts[i] = Alert(b[k])
  /\ \A i, j \in 1..Len(alerts) : alerts[i] = alerts[j] => i = j

LEMMA AlertIsInjective ==
  ASSUME NEW s, NEW t, Alert(s) = Alert(t)
  PROVE  s = t
<1>1. Alert(s).samples[1] = s /\ Alert(t).samples[1] = t
  BY DEF Alert
<1> QED BY <1>1

LEMMA AnnouncesOneMore ==
  ASSUME NEW b \in Seq(Samples), \A i, j \in DOMAIN b : b[i] = b[j] => i = j,
         NEW T \in SUBSET (DOMAIN b), NEW m \in T, IsFiniteSet(T),
         NEW alerts, Announces(alerts, b, T \ {m})
  PROVE  Announces(WithAlert(alerts, b[m]), b, T)
<1> DEFINE more == WithAlert(alerts, b[m])
           n == Len(alerts)
<1>1. /\ Cardinality(T) \in Nat /\ Cardinality(T \ {m}) \in Nat
      /\ Cardinality(T \ {m}) = Cardinality(T) - 1
  <2>1. IsFiniteSet(T \ {m})
    BY FS_Subset
  <2> QED BY <2>1, FS_CardinalityType, FS_RemoveElement
<1>2. /\ alerts \in Seq(Announcements) /\ n \in Nat /\ n <= Cardinality(T \ {m})
      /\ \A i \in 1..n : \E k \in T \ {m} : Hot(b[k]) /\ alerts[i] = Alert(b[k])
      /\ \A k \in T \ {m} : Hot(b[k]) => \E i \in 1..n : alerts[i] = Alert(b[k])
      /\ \A i, j \in 1..n : alerts[i] = alerts[j] => i = j
  BY DEF Announces
<1>3. CASE ~Hot(b[m])
  <2>1. more = alerts
    BY <1>3 DEF WithAlert
  <2>2. Len(more) <= Cardinality(T)
    BY <1>1, <1>2, <2>1
  <2> QED BY <1>2, <1>3, <2>1, <2>2 DEF Announces
<1>4. CASE Hot(b[m])
  <2>1. more = Append(alerts, Alert(b[m]))
    BY <1>4 DEF WithAlert
  <2>2. Alert(b[m]) \in Announcements
    BY DEF Announcements
  <2>3. /\ more \in Seq(Announcements) /\ Len(more) = n + 1
        /\ more[n + 1] = Alert(b[m])
        /\ \A i \in 1..n : more[i] = alerts[i]
    BY <1>2, <2>1, <2>2
  <2>4. \A i \in 1..n : alerts[i] # Alert(b[m])
    <3> SUFFICES ASSUME NEW i \in 1..n, alerts[i] = Alert(b[m]) PROVE FALSE
      OBVIOUS
    <3>1. PICK k \in T \ {m} : alerts[i] = Alert(b[k])
      BY <1>2
    <3>2. b[k] = b[m]
      BY <3>1, AlertIsInjective
    <3> QED BY <3>1, <3>2
  <2>5. \A i \in 1..(n + 1) : i \in 1..n \/ i = n + 1
    BY <1>2
  <2>6. Len(more) <= Cardinality(T)
    BY <1>1, <1>2, <2>3
  <2>7. \A i \in 1..(n + 1) : \E k \in T : Hot(b[k]) /\ more[i] = Alert(b[k])
    BY <1>2, <1>4, <2>3, <2>5
  <2>8. \A k \in T : Hot(b[k]) => \E i \in 1..(n + 1) : more[i] = Alert(b[k])
    <3> SUFFICES ASSUME NEW k \in T, Hot(b[k])
                 PROVE  \E i \in 1..(n + 1) : more[i] = Alert(b[k])
      OBVIOUS
    <3>1. CASE k = m
      BY <1>2, <2>3, <3>1
    <3>2. CASE k # m
      <4>1. PICK i \in 1..n : alerts[i] = Alert(b[k])
        BY <1>2, <3>2
      <4>2. i \in 1..(n + 1)
        BY <1>2
      <4> QED BY <2>3, <4>1, <4>2
    <3> QED BY <3>1, <3>2
  <2>9. \A i, j \in 1..(n + 1) : more[i] = more[j] => i = j
    BY <1>2, <2>3, <2>4, <2>5
  <2> QED BY <2>3, <2>6, <2>7, <2>8, <2>9 DEF Announces
<1> QED BY <1>3, <1>4

LEMMA AlertsAnnounce ==
  ASSUME NEW b \in Seq(Samples), \A i, j \in DOMAIN b : b[i] = b[j] => i = j
  PROVE  Announces(Alerts(b), b, DOMAIN b)
<1>0. SUFFICES ASSUME NEW S, S = DOMAIN b PROVE Announces(Alerts(b), b, S)
  OBVIOUS
<1> DEFINE pick == [T \in SUBSET S |-> Max(T)]
           Good == {T \in SUBSET S : Announces(AlertLists(b)[T], b, T)}
<1>1. S = 1..Len(b) /\ Len(b) \in Nat /\ IsFiniteSet(S)
  <2>1. S = 1..Len(b) /\ Len(b) \in Nat
    BY <1>0
  <2> QED BY <2>1, FS_Interval
<1>2. \A T \in SUBSET S : T # {} => pick[T] \in T /\ pick[T] = Max(T)
  <2>1. \A T \in SUBSET S : T # {} => Max(T) \in T
    BY <1>1, MaxIsAnElement
  <2> QED BY <2>1
<1>3. {} \in Good
  <2>1. AlertLists(b)[{}] = <<>>
    BY <1>0, AlertListsUnfold, Zenon
  <2>2. Announces(<<>>, b, {})
    BY FS_EmptySet DEF Announces
  <2> QED BY <2>1, <2>2
<1>4. ASSUME NEW T \in SUBSET S, T # {}, T \ {pick[T]} \in Good
      PROVE  T \in Good
  <2>1. pick[T] = Max(T) /\ Max(T) \in T /\ IsFiniteSet(T)
    BY <1>1, <1>2, <1>4, FS_Subset
  <2>2. AlertLists(b)[T] = WithAlert(AlertLists(b)[T \ {Max(T)}], b[Max(T)])
    BY <1>0, <1>4, AlertListsUnfold, Zenon
  <2>3. Announces(AlertLists(b)[T \ {Max(T)}], b, T \ {Max(T)})
    BY <1>4, <2>1
  <2>4. Announces(WithAlert(AlertLists(b)[T \ {Max(T)}], b[Max(T)]), b, T)
    BY <1>0, <2>1, <2>3, AnnouncesOneMore
  <2> QED BY <2>2, <2>4
<1>5. S \in Good
  <2>1. \A T \in SUBSET S : T # {} => pick[T] \in T
    BY <1>2
  <2>2. IsFiniteSet(S)
    BY <1>1
  <2>3. \A T \in SUBSET S : T \in Good
    <3> HIDE DEF pick, Good
    <3>1. Inductive(Good, S, pick)
      BY <1>3, <1>4, <2>1 DEF Inductive
    <3> QED BY <2>2, <3>1, SubsetInduction
  <2> QED BY <2>3
<1> QED BY <1>0, <1>5, AlertsAreIterated

-----------------------------------------------------------------------------
(* The age of the newest samples.  A GPU is read within 1 s; after a batch is *)
(* pushed the loop posts at most one message for each GPU and the batch, for  *)
(* at most 3 s each, pauses for 1 s, and reads every GPU again before the     *)
(* next batch.                                                                *)

Messages == {Started} \cup Announcements \cup {Batch(b) : b \in Seq(Samples)}

OutboxFits ==
  /\ outbox \in Seq(Messages) /\ Len(outbox) <= NumGpus + 1
  /\ loop \in {"collect", "done"} => outbox = <<>>
  /\ loop \in {"collect", "push", "post", "done", "panicked"}

\* While GPUs are read, batch[i] is of GPU i and no older than the reading of it
\* and of those after it.
BatchFits ==
  /\ Len(batch) <= NumGpus
  /\ loop = "collect" =>
       \A i \in 1..Len(batch) :
         batch[i].gpu = i /\ now <= batch[i].at + Len(batch)

\* None of the NumGpus newest samples in p is older than d.
Aged(p, d) ==
  \A i \in 1..Len(p) : i > Len(p) - NumGpus => now <= p[i].at + d

Longest == NumGpus + 3 * (NumGpus + 1) + 1

Lag ==
  /\ loop = "collect" => Aged(pushed, Longest + Len(batch))
  /\ loop = "push" => Aged(Taken, NumGpus)
  /\ loop = "push" /\ Len(batch) = NumGpus => Aged(pushed, Longest + NumGpus)
  /\ loop = "post" => Aged(pushed, NumGpus + 3 * (NumGpus + 1 - Len(outbox)))
  /\ loop = "done" => Aged(pushed, Longest)
  /\ loop = "panicked" => Aged(pushed, Longest + NumGpus)

AgeInv == OutboxFits /\ BatchFits /\ Lag

LEMMA Soon ==
  ASSUME NEW t \in Nat, NEW u \in {t, t + 1}
  PROVE  u \in Nat /\ u - t <= 1
OBVIOUS

\* What is d old at most is d + e old at most when e seconds have passed.
LEMMA LaterAged ==
  ASSUME NEW d \in Int, NEW e \in Int, pushed \in Seq(Samples), now \in Nat,
         pushed' = pushed, now' \in Nat, now' - now <= e - d, Aged(pushed, d)
  PROVE  Aged(pushed, e)'
<1> SUFFICES ASSUME NEW i \in 1..Len(pushed), i > Len(pushed) - NumGpus
             PROVE  now' <= pushed[i].at + e
  BY DEF Aged
<1>1. pushed[i] \in Samples
  OBVIOUS
<1>2. pushed[i].at \in Nat
  BY <1>1 DEF Samples
<1>3. now <= pushed[i].at + d
  BY DEF Aged
<1>4. PICK t, x, y : t = pushed[i].at /\ x = now /\ y = now'
  OBVIOUS
<1>5. y <= t + e
  <2>1. t \in Nat /\ x \in Nat /\ y \in Nat /\ x <= t + d /\ y - x <= e - d
    BY <1>2, <1>3, <1>4
  <2> QED BY <2>1
<1> QED BY <1>4, <1>5

LEMMA InitAgeInv == Init => AgeInv
<1> USE CollectorAssumption
<1> SUFFICES ASSUME Init PROVE AgeInv
  OBVIOUS
<1>1. OutboxFits
  <2>1. outbox \in Seq(Messages) /\ Len(outbox) = 1
    BY DEF Init, Messages
  <2> QED BY <2>1 DEF Init, OutboxFits
<1>2. BatchFits
  BY DEF Init, BatchFits
<1>3. Lag
  <2>1. \A d : Aged(<<>>, d)
    BY DEF Aged
  <2> QED BY <2>1, Zenon DEF Init, Lag
<1> QED BY <1>1, <1>2, <1>3 DEF AgeInv

LEMMA ScrapeAgeInv == IInv /\ AgeInv /\ ScrapeGpu => AgeInv'
<1> USE CollectorAssumption
<1> SUFFICES ASSUME IInv, AgeInv, ScrapeGpu PROVE AgeInv'
  OBVIOUS
<1>1. PICK s \in Samples :
        /\ batch' = Append(batch, s) /\ s.at = now /\ s.gpu = Len(batch) + 1
        /\ now' \in {now, now + 1} /\ now \in Nat
        /\ Len(batch) < NumGpus /\ batch \in Seq(Samples)
        /\ loop = "collect" /\ UNCHANGED <<loop, outbox, pushed>>
  BY ScrapeFacts
<1> DEFINE m == Len(batch)
<1>2. /\ m \in Nat /\ Len(batch') = m + 1 /\ batch'[m + 1] = s
      /\ \A i \in 1..m : batch'[i] = batch[i] /\ batch[i].at \in Nat
  <2>1. \A i \in 1..m : batch[i] \in Samples
    BY <1>1
  <2>2. \A x \in Samples : x.at \in Nat
    BY DEF Samples
  <2>3. /\ m \in Nat /\ Len(batch') = m + 1 /\ batch'[m + 1] = s
        /\ \A i \in 1..m : batch'[i] = batch[i]
    BY <1>1
  <2> HIDE DEF m
  <2> QED BY <2>1, <2>2, <2>3
<1>3. OutboxFits'
  BY <1>1 DEF AgeInv, OutboxFits
<1>4. BatchFits'
  <2>1. \A i \in 1..m : batch[i].gpu = i /\ now <= batch[i].at + m
    BY <1>1 DEF AgeInv, BatchFits
  <2> HIDE DEF m
  <2>2. \A i \in 1..(m + 1) : i \in 1..m \/ i = m + 1
    BY <1>2
  <2>3. ASSUME NEW i \in 1..(m + 1)
        PROVE  batch'[i].gpu = i /\ now' <= batch'[i].at + (m + 1)
    <3>1. CASE i \in 1..m
      BY <1>1, <1>2, <2>1, <3>1
    <3>2. CASE i = m + 1
      BY <1>1, <1>2, <3>2 DEF m
    <3> QED BY <2>2, <3>1, <3>2
  <2>4. m + 1 <= NumGpus
    BY <1>1, <1>2 DEF m
  <2> QED BY <1>2, <2>3, <2>4 DEF BatchFits
<1>5. Lag'
  <2>1. Aged(pushed, Longest + m)
    BY <1>1 DEF AgeInv, Lag
  <2>2. PICK x, y : x = Longest + m /\ y = x + 1
    OBVIOUS
  <2>3. x \in Int /\ y \in Int
    BY <1>2, <2>2 DEF Longest
  <2>4. pushed \in Seq(Samples) /\ now' \in Nat /\ now' - now <= 1 /\ y - x = 1
    <3>1. pushed \in Seq(Samples)
      BY DEF IInv, Types
    <3>2. now' \in Nat /\ now' - now <= 1
      BY <1>1, Soon
    <3>3. y - x = 1
      BY <2>2, <2>3
    <3> QED BY <3>1, <3>2, <3>3
  <2>5. now' - now <= y - x /\ Aged(pushed, x)
    BY <2>1, <2>2, <2>4
  <2>6. Aged(pushed, y)'
    BY <1>1, <2>3, <2>4, <2>5, LaterAged
  <2>7. (Longest + Len(batch))' = y
    BY <1>2, <2>2, <2>3 DEF Longest
  <2>8. (Aged(pushed, Longest + Len(batch)))'
    BY <2>6, <2>7 DEF Aged
  <2> QED BY <1>1, <2>8 DEF Lag
<1> QED BY <1>3, <1>4, <1>5 DEF AgeInv

\* A batch has a sample of each GPU, and an alert for each that is hot.
LEMMA CollectFacts ==
  ASSUME IInv, AgeInv, Collect
  PROVE  /\ batch \in Seq(Samples) /\ Len(batch) = NumGpus
         /\ \A i, j \in 1..NumGpus : batch[i] = batch[j] => i = j
         /\ outbox' = Alerts(batch) \o <<Batch(batch)>>
         /\ Announces(Alerts(batch), batch, 1..NumGpus)
         /\ Cardinality(1..NumGpus) = NumGpus
         /\ loop = "collect" /\ loop' = "push"
         /\ UNCHANGED <<now, batch, ring, pushed, sent>>
<1> USE CollectorAssumption
<1>1. /\ outbox' = Alerts(batch) \o <<Batch(batch)>> /\ Len(batch) = NumGpus
      /\ loop = "collect" /\ loop' = "push" /\ UNCHANGED <<now, batch, ring, pushed, sent>>
  BY DEF Collect
<1>2. batch \in Seq(Samples)
  BY DEF IInv, Types
<1>3. \A i, j \in 1..NumGpus : batch[i] = batch[j] => i = j
  <2>1. \A i \in 1..NumGpus : batch[i].gpu = i
    BY <1>1 DEF AgeInv, BatchFits
  <2> QED BY <2>1
<1>4. DOMAIN batch = 1..NumGpus
  BY <1>1, <1>2
<1>5. Announces(Alerts(batch), batch, 1..NumGpus)
  BY <1>2, <1>3, <1>4, AlertsAnnounce
<1>6. Cardinality(1..NumGpus) = NumGpus
  BY FS_Interval
<1> QED BY <1>1, <1>2, <1>3, <1>5, <1>6

LEMMA CollectAgeInv == IInv /\ AgeInv /\ Collect => AgeInv'
<1> USE CollectorAssumption
<1> SUFFICES ASSUME IInv, AgeInv, Collect PROVE AgeInv'
  OBVIOUS
<1>1. /\ batch \in Seq(Samples) /\ Len(batch) = NumGpus
      /\ outbox' = Alerts(batch) \o <<Batch(batch)>>
      /\ Announces(Alerts(batch), batch, 1..NumGpus)
      /\ Cardinality(1..NumGpus) = NumGpus
      /\ loop = "collect" /\ loop' = "push"
      /\ now' = now /\ pushed' = pushed /\ batch' = batch
  BY CollectFacts
<1>2. pushed \in Seq(Samples) /\ now \in Nat
  BY DEF IInv, Types
<1>3. OutboxFits'
  <2> DEFINE alerts == Alerts(batch)
  <2>1. alerts \in Seq(Announcements) /\ Len(alerts) <= NumGpus
    BY <1>1, Zenon DEF Announces
  <2>2. Batch(batch) \in Messages /\ Announcements \subseteq Messages
    BY <1>1 DEF Messages
  <2> DEFINE last == Batch(batch)
  <2> HIDE DEF alerts, last
  <2>3. alerts \o <<last>> \in Seq(Messages) /\ Len(alerts \o <<last>>) = Len(alerts) + 1
    BY <2>1, <2>2 DEF last
  <2>4. outbox' = alerts \o <<last>> /\ Len(alerts) \in Nat
    BY <1>1, <2>1 DEF alerts, last
  <2>5. outbox' \in Seq(Messages) /\ Len(outbox') <= NumGpus + 1
    BY <2>1, <2>3, <2>4
  <2> QED BY <1>1, <2>5 DEF OutboxFits
<1>4. BatchFits'
  BY <1>1 DEF AgeInv, BatchFits
<1>5. Aged(Taken, NumGpus)
  <2> SUFFICES ASSUME NEW i \in 1..Len(Taken), i > Len(Taken) - NumGpus
               PROVE  now <= Taken[i].at + NumGpus
    BY DEF Aged
  <2>1. Len(Taken) = Len(pushed) + NumGpus /\ Len(pushed) \in Nat
    BY <1>1, <1>2, TakenFacts
  <2>2. i - Len(pushed) \in 1..NumGpus /\ Len(pushed) + (i - Len(pushed)) = i
    BY <2>1
  <2>3. Taken[i] = batch[i - Len(pushed)]
    <3>1. \A j \in 1..Len(batch) : Taken[Len(pushed) + j] = batch[j]
      BY TakenFacts
    <3>2. Taken[Len(pushed) + (i - Len(pushed))] = batch[i - Len(pushed)]
      BY <1>1, <2>2, <3>1
    <3> QED BY <2>2, <3>2
  <2> QED BY <1>1, <2>2, <2>3 DEF AgeInv, BatchFits
<1>6. Aged(pushed, Longest + NumGpus)
  BY <1>1 DEF AgeInv, Lag
<1>7. Lag'
  BY <1>1, <1>5, <1>6 DEF Lag, Aged, Taken, Longest
<1> QED BY <1>3, <1>4, <1>7 DEF AgeInv

LEMMA OverflowAgeInv == IInv /\ AgeInv /\ Overflow => AgeInv'
<1> USE CollectorAssumption
<1> SUFFICES ASSUME IInv, AgeInv, Overflow PROVE AgeInv'
  OBVIOUS
<1>1. /\ loop = "collect" /\ loop' = "panicked" /\ Len(batch) < NumGpus
      /\ UNCHANGED <<now, batch, outbox, pushed>>
  BY DEF Overflow
<1>2. pushed \in Seq(Samples) /\ now \in Nat /\ Len(batch) \in Nat
  BY DEF IInv, Types
<1>3. OutboxFits' /\ BatchFits'
  BY <1>1 DEF AgeInv, OutboxFits, BatchFits
<1>4. PICK x, y : x = Longest + Len(batch) /\ y = Longest + NumGpus
  OBVIOUS
<1>5. x \in Int /\ y \in Int /\ x <= y
  BY <1>1, <1>2, <1>4 DEF Longest
<1>6. Aged(pushed, x)
  BY <1>1, <1>4 DEF AgeInv, Lag
<1>7. now' - now <= y - x /\ now' \in Nat
  BY <1>1, <1>2, <1>5
<1>8. Aged(pushed, y)'
  BY <1>1, <1>2, <1>5, <1>6, <1>7, LaterAged
<1>9. Lag'
  BY <1>1, <1>4, <1>8 DEF Lag, Aged, Longest
<1> QED BY <1>3, <1>9 DEF AgeInv

LEMMA PushAgeInv == IInv /\ AgeInv /\ Push => AgeInv'
<1> USE CollectorAssumption
<1> SUFFICES ASSUME IInv, AgeInv, Push PROVE AgeInv'
  OBVIOUS
<1>1. /\ pushed \in Seq(Samples) /\ batch \in Seq(Samples) /\ now \in Nat
      /\ Len(batch) \in Nat /\ Len(batch) <= NumGpus
  BY DEF IInv, Types, AgeInv, BatchFits
<1>2. loop = "push" /\ now' = now /\ outbox' = outbox /\ OutboxFits
  BY DEF Push, AgeInv
<1>3. OutboxFits'
  <2>1. loop' \in {"push", "post"}
    BY <1>2 DEF Push
  <2> QED BY <1>2, <2>1 DEF OutboxFits
<1>4. Aged(Taken, NumGpus)
  BY <1>2 DEF AgeInv, Lag
<1>5. CASE batch = <<>>
  <2>1. loop' = "post" /\ batch' = batch /\ pushed' = pushed
    BY <1>5 DEF Push
  <2>2. BatchFits'
    BY <2>1, <1>1, <1>5 DEF BatchFits
  <2>3. Taken = pushed
    BY <1>1, <1>5 DEF Taken
  <2>4. Aged(pushed, NumGpus)
    BY <1>4, <2>3
  <2>5. PICK y : y = NumGpus + 3 * (NumGpus + 1 - Len(outbox))
    OBVIOUS
  <2>6. y \in Int /\ NumGpus <= y
    <3>1. Len(outbox) \in Nat /\ Len(outbox) <= NumGpus + 1
      BY <1>2 DEF OutboxFits
    <3> QED BY <2>5, <3>1
  <2>7. NumGpus \in Int /\ now' \in Nat /\ now' - now <= y - NumGpus
    BY <1>1, <1>2, <2>6
  <2>8. Aged(pushed, y)'
    BY <1>1, <2>1, <2>4, <2>6, <2>7, LaterAged
  <2>9. Lag'
    BY <1>2, <2>1, <2>5, <2>8 DEF Lag, Aged
  <2> QED BY <1>3, <2>2, <2>9 DEF AgeInv
<1>6. CASE batch # <<>>
  <2>1. batch' = Tail(batch) /\ pushed' = Append(pushed, Head(batch)) /\ loop' = "push"
    BY <1>2, <1>6 DEF Push
  <2>2. Len(batch') \in Nat /\ Len(batch') < NumGpus
    BY <1>1, <1>6, <2>1
  <2>3. BatchFits'
    BY <2>1, <2>2 DEF BatchFits
  <2>4. Taken' = Taken
    <3>1. Append(pushed, Head(batch)) \o Tail(batch) = pushed \o batch
      BY <1>1, <1>6, HeadThenTail
    <3> QED BY <2>1, <3>1 DEF Taken
  <2>5. Aged(Taken, NumGpus)'
    BY <1>2, <1>4, <2>4 DEF Aged
  <2>6. Lag'
    BY <2>1, <2>2, <2>5 DEF Lag
  <2> QED BY <1>3, <2>3, <2>6 DEF AgeInv
<1> QED BY <1>5, <1>6

LEMMA PostAgeInv == IInv /\ AgeInv /\ Post => AgeInv'
<1> USE CollectorAssumption
<1> SUFFICES ASSUME IInv, AgeInv, Post PROVE AgeInv'
  OBVIOUS
<1>1. /\ loop = "post" /\ loop' = "post" /\ outbox # <<>> /\ outbox' = Tail(outbox)
      /\ batch' = batch /\ pushed' = pushed
  BY DEF Post
<1>2. pushed \in Seq(Samples) /\ now \in Nat /\ batch \in Seq(Samples)
  BY DEF IInv, Types
<1>3. now' \in Nat /\ now' - now <= 3
  <2>1. PICK seconds \in PostTimes : now' = now + seconds
    BY DEF Post
  <2>2. seconds \in Nat /\ seconds <= 3
    OBVIOUS
  <2> QED BY <1>2, <2>1, <2>2
<1>4. /\ outbox \in Seq(Messages) /\ Len(outbox) <= NumGpus + 1
      /\ outbox' \in Seq(Messages) /\ Len(outbox') = Len(outbox) - 1
      /\ Len(outbox) \in Nat /\ Len(outbox) > 0
  BY <1>1 DEF AgeInv, OutboxFits
<1>5. OutboxFits'
  BY <1>1, <1>4 DEF OutboxFits
<1>6. BatchFits'
  BY <1>1 DEF AgeInv, BatchFits
<1>7. PICK x, y : /\ x = NumGpus + 3 * (NumGpus + 1 - Len(outbox))
                  /\ y = NumGpus + 3 * (NumGpus + 1 - Len(outbox'))
  OBVIOUS
<1>8. x \in Int /\ y \in Int /\ y - x = 3
  BY <1>4, <1>7
<1>9. Aged(pushed, x)
  BY <1>1, <1>7 DEF AgeInv, Lag
<1>10. now' - now <= y - x
  BY <1>3, <1>8
<1>11. Aged(pushed, y)'
  BY <1>1, <1>2, <1>3, <1>8, <1>9, <1>10, LaterAged
<1>12. Lag'
  BY <1>1, <1>7, <1>11 DEF Lag, Aged
<1> QED BY <1>5, <1>6, <1>12 DEF AgeInv

LEMMA PauseAgeInv == IInv /\ AgeInv /\ Pause => AgeInv'
<1> USE CollectorAssumption
<1> SUFFICES ASSUME IInv, AgeInv, Pause PROVE AgeInv'
  OBVIOUS
<1>1. /\ loop = "post" /\ loop' \in {"collect", "done"} /\ outbox = <<>>
      /\ batch' = batch /\ pushed' = pushed /\ outbox' = outbox
      /\ now' \in {now, now + 1} /\ batch = <<>>
  BY DEF Pause, IInv, NothingInHand
<1>2. pushed \in Seq(Samples) /\ now \in Nat
  BY DEF IInv, Types
<1>3. OutboxFits' /\ BatchFits'
  BY <1>1 DEF AgeInv, OutboxFits, BatchFits
<1>4. PICK x, y : x = NumGpus + 3 * (NumGpus + 1 - Len(outbox)) /\ y = Longest
  OBVIOUS
<1>5. x \in Int /\ y \in Int /\ y - x = 1
  BY <1>1, <1>4 DEF Longest
<1>6. Aged(pushed, x)
  BY <1>1, <1>4 DEF AgeInv, Lag
<1>7. now' \in Nat /\ now' - now <= y - x
  <2>1. now' \in Nat /\ now' - now <= 1
    BY <1>1, <1>2, Soon
  <2> QED BY <1>5, <2>1
<1>8. Aged(pushed, y)'
  BY <1>1, <1>2, <1>5, <1>6, <1>7, LaterAged
<1>9. Longest' + Len(batch') = y /\ Longest' = y
  BY <1>1, <1>4, <1>5 DEF Longest
<1>10. Lag'
  BY <1>1, <1>8, <1>9 DEF Lag, Aged
<1> QED BY <1>3, <1>10 DEF AgeInv

LEMMA NextAgeInv == IInv /\ AgeInv /\ [Next]_vars => AgeInv'
<1> SUFFICES ASSUME IInv, AgeInv, [Next]_vars PROVE AgeInv'
  OBVIOUS
<1>1. CASE UNCHANGED vars
  BY <1>1 DEF vars, AgeInv, OutboxFits, BatchFits, Lag, Aged, Longest, Taken
<1> QED
  BY <1>1, ScrapeAgeInv, OverflowAgeInv, CollectAgeInv, PushAgeInv, PostAgeInv,
     PauseAgeInv DEF Next

LEMMA AgeInvScrape ==
  ASSUME IInv, AgeInv, NumGpus <= 17279
  PROVE  ScrapeShowsTheNewest
<1> USE CollectorAssumption
<1> DEFINE n == Len(pushed)
           k == Len(ring)
           Left(j) == pushed[j].at + ScrapeWindow < now
<1> SUFFICES ASSUME Readable, n >= NumGpus, NumGpus <= Capacity,
                    NEW i \in (n - NumGpus + 1)..n,
                    ~(Left(i) /\ \E j \in (n - NumGpus + 1)..n : i < j /\ ~Left(j))
             PROVE  pushed[i] \in Scrape
  BY DEF ScrapeShowsTheNewest
<1>1. /\ pushed \in Seq(Samples) /\ ring \in Seq(Samples) /\ batch \in Seq(Samples)
      /\ now \in Nat /\ n \in Nat /\ k \in Nat
  BY DEF IInv, Types
<1>2. i \in 1..n /\ i > n - NumGpus /\ NumGpus > 0
  BY <1>1
<1>3. \A j \in 1..n : pushed[j].at \in Nat /\ pushed[j].at <= now
  <2>1. \A j \in 1..n : pushed[j] \in Samples
    BY <1>1
  <2>2. \A s \in Samples : s.at \in Nat
    BY DEF Samples
  <2> QED BY <2>1, <2>2, PushedInOrder
<1>4. k <= n /\ k >= NumGpus /\ \A j \in 1..k : ring[j] = pushed[n - k + j]
  <2>1. k <= n /\ (k < n => k = Capacity)
    BY RingIsTheEnd
  <2>2. k >= NumGpus
    BY <1>1, <2>1
  <2> QED BY <2>1, <2>2, RingIsTheEnd
<1>5. pushed[i] \in Ring
  <2>1. i - (n - k) \in 1..k /\ n - k + (i - (n - k)) = i
    BY <1>1, <1>2, <1>4
  <2>2. ring[i - (n - k)] = pushed[i]
    BY <1>4, <2>1
  <2> QED BY <1>1, <2>1, <2>2 DEF Ring
<1>6. \A s \in Ring : \E j \in 1..n : s = pushed[j]
  <2>1. \A j \in 1..k : n - k + j \in 1..n
    BY <1>1, <1>4
  <2>2. ASSUME NEW j \in 1..k PROVE \E x \in 1..n : ring[j] = pushed[x]
    BY <1>4, <2>1
  <2> QED BY <1>1, <2>2 DEF Ring
<1>7. now <= pushed[i].at + 86400
  <2>1. /\ Longest \in Nat /\ Longest + NumGpus <= 86400 /\ Longest <= 86400
        /\ NumGpus <= 86400 /\ pushed[i].at \in Nat
    BY <1>2, <1>3 DEF Longest
  <2>2. Len(batch) \in {0, NumGpus} \/ loop # "push"
    BY DEF Readable
  <2>3. /\ Len(batch) \in Nat /\ Len(batch) <= NumGpus
        /\ Len(outbox) \in Nat /\ Len(outbox) <= NumGpus + 1
        /\ loop \in {"collect", "push", "post", "done", "panicked"}
    BY <1>1 DEF AgeInv, BatchFits, OutboxFits
  <2>4. ASSUME NEW d \in Int, d <= 86400, Aged(pushed, d)
        PROVE  now <= pushed[i].at + 86400
    <3>1. now <= pushed[i].at + d
      BY <1>2, <2>4 DEF Aged
    <3>2. PICK t : t = pushed[i].at
      OBVIOUS
    <3>3. t \in Nat /\ now \in Nat /\ now <= t + d
      BY <1>1, <2>1, <3>1, <3>2
    <3>4. now <= t + 86400
      BY <2>4, <3>3
    <3> QED BY <3>2, <3>4
  <2>5. CASE loop = "collect"
    <3>1. PICK d : d = Longest + Len(batch)
      OBVIOUS
    <3>2. d \in Int /\ d <= 86400
      BY <2>1, <2>3, <3>1
    <3>3. Aged(pushed, d)
      BY <2>5, <3>1 DEF AgeInv, Lag
    <3> QED BY <2>4, <3>2, <3>3
  <2>6. CASE loop = "push" /\ Len(batch) = NumGpus
    <3>1. PICK d : d = Longest + NumGpus
      OBVIOUS
    <3>2. d \in Int /\ d <= 86400
      BY <2>1, <3>1
    <3>3. Aged(pushed, d)
      BY <2>6, <3>1 DEF AgeInv, Lag
    <3> QED BY <2>4, <3>2, <3>3
  <2>7. CASE loop = "push" /\ Len(batch) = 0
    <3>1. Taken = pushed
      BY <1>1, <2>7 DEF Taken
    <3>2. Aged(pushed, NumGpus)
      BY <2>7, <3>1 DEF AgeInv, Lag
    <3> QED BY <2>1, <2>4, <3>2
  <2>8. CASE loop = "post"
    <3>1. PICK d : d = NumGpus + 3 * (NumGpus + 1 - Len(outbox))
      OBVIOUS
    <3>2. d \in Int /\ d <= 86400
      BY <2>3, <3>1
    <3>3. Aged(pushed, d)
      BY <2>8, <3>1 DEF AgeInv, Lag
    <3> QED BY <2>4, <3>2, <3>3
  <2>9. CASE loop = "done"
    <3>1. PICK d : d = Longest
      OBVIOUS
    <3>2. Aged(pushed, d)
      BY <2>9, <3>1 DEF AgeInv, Lag
    <3> QED BY <2>1, <2>4, <3>1, <3>2
  <2>10. CASE loop = "panicked"
    <3>1. PICK d : d = Longest + NumGpus
      OBVIOUS
    <3>2. d \in Int /\ d <= 86400
      BY <2>1, <3>1
    <3>3. Aged(pushed, d)
      BY <2>10, <3>1 DEF AgeInv, Lag
    <3> QED BY <2>4, <3>2, <3>3
  <2> QED BY <2>2, <2>3, <2>5, <2>6, <2>7, <2>8, <2>9, <2>10
<1> DEFINE recent == {s \in Ring : s.at + ScrapeWindow >= now /\ s.at <= now}
           lastDay == {s \in Ring : s.at + 86400 >= now /\ s.at <= now}
<1>8. Scrape = IF recent # {} THEN recent ELSE lastDay
  BY DEF Scrape
<1>9. CASE ~Left(i)
  <2>1. pushed[i].at + ScrapeWindow >= now /\ pushed[i].at <= now
    BY <1>1, <1>2, <1>3, <1>9
  <2>2. pushed[i] \in recent
    BY <1>5, <2>1
  <2> QED BY <1>8, <2>2
<1>10. CASE Left(i)
  <2>1. ASSUME NEW j \in 1..n PROVE Left(j)
    <3>1. CASE j <= i
      <4>1. pushed[j].at <= pushed[i].at
        BY <1>2, <3>1, PushedInOrder
      <4> QED BY <1>1, <1>2, <1>3, <1>10, <4>1
    <3>2. CASE j > i
      <4>1. j \in (n - NumGpus + 1)..n
        BY <1>1, <1>2, <3>2
      <4> QED BY <1>10, <3>2, <4>1
    <3> QED BY <1>2, <3>1, <3>2
  <2>2. recent = {}
    <3> SUFFICES ASSUME NEW s \in Ring, s.at + ScrapeWindow >= now PROVE FALSE
      OBVIOUS
    <3>1. PICK j \in 1..n : s = pushed[j]
      BY <1>6
    <3>2. Left(j) /\ pushed[j].at \in Nat
      BY <1>3, <2>1
    <3> QED BY <1>1, <3>1, <3>2
  <2>3. pushed[i] \in lastDay
    BY <1>1, <1>2, <1>3, <1>5, <1>7
  <2> QED BY <1>8, <2>2, <2>3
<1> QED BY <1>9, <1>10

\* A scrape shows the newest sample of every GPU, but for those that the window
\* leaves out when it begins within their batch; however long the readings and
\* the POSTs take, on a node whose loop comes round within a day: a sample grows
\* 2 NumGpus + 3 (NumGpus + 1) + 1 <= 86400 seconds old.
THEOREM ScrapeShowsTheNewestThm ==
  ASSUME NumGpus <= 17279
  PROVE  Spec => []ScrapeShowsTheNewest
<1>1. Init => IInv /\ AgeInv
  BY InitIInv, InitAgeInv
<1>2. IInv /\ AgeInv /\ [Next]_vars => IInv' /\ AgeInv'
  BY NextIInv, NextAgeInv
<1>3. IInv /\ AgeInv => ScrapeShowsTheNewest
  BY AgeInvScrape
<1> QED BY <1>1, <1>2, <1>3, PTL DEF Spec

-----------------------------------------------------------------------------
(* The announcements.  The samples collected and the messages due change only *)
(* in Collect: pushing and posting carry out what is due, in its order.       *)

\* A batch counts when it is complete.
Collected == IF loop \in {"collect", "panicked"} THEN pushed ELSE Taken
Due == sent \o outbox

IsAlert(m) == m.type = "gpu.alert"
IsBatch(m) == m.type = "trace.created"

Distinct(c) == \A i, j \in 1..Len(c) : c[i] = c[j] => i = j

OfHotSamples(c, p) ==
  \A i \in 1..Len(p) :
    IsAlert(p[i]) => \E k \in 1..Len(c) : Hot(c[k]) /\ p[i] = Alert(c[k])

OfAllHotSamples(c, p) ==
  \A k \in 1..Len(c) : Hot(c[k]) => \E i \in 1..Len(p) : p[i] = Alert(c[k])

Once(p) == \A i, j \in 1..Len(p) : IsAlert(p[i]) /\ p[i] = p[j] => i = j

OfCollected(c, p) ==
  \A j \in 1..Len(p) : IsBatch(p[j]) =>
    \A k \in DOMAIN p[j].samples : \E m \in 1..Len(c) : p[j].samples[k] = c[m]

AlertsFirstIn(p) ==
  \A i, j \in 1..Len(p) :
    /\ IsAlert(p[i]) /\ IsBatch(p[j])
    /\ \E k \in DOMAIN p[j].samples : p[j].samples[k] = p[i].samples[1]
    => i < j

Told(c, p) ==
  /\ Distinct(c) /\ OfHotSamples(c, p) /\ OfAllHotSamples(c, p)
  /\ Once(p) /\ OfCollected(c, p) /\ AlertsFirstIn(p)

LEMMA MessageFacts ==
  /\ \A s : IsAlert(Alert(s)) /\ ~IsBatch(Alert(s)) /\ Alert(s).samples[1] = s
  /\ \A b : IsBatch(Batch(b)) /\ ~IsAlert(Batch(b)) /\ Batch(b).samples = b
  /\ ~IsAlert(Started) /\ ~IsBatch(Started)
BY DEF IsAlert, IsBatch, Alert, Batch, Started

LEMMA BatchIsTold ==
  ASSUME NEW c \in Seq(Samples), NEW p \in Seq(Messages), Told(c, p),
         NEW b \in Seq(Samples), Distinct(b),
         \A i \in 1..Len(c), j \in 1..Len(b) : c[i] # b[j],
         NEW a, Announces(a, b, 1..Len(b))
  PROVE  Told(c \o b, p \o (a \o <<Batch(b)>>))
<1> DEFINE cs == c \o b
           q == a \o <<Batch(b)>>
           ps == p \o q
           C == Len(c)
           B == Len(b)
           P == Len(p)
           A == Len(a)
<1>1. /\ a \in Seq(Announcements) /\ C \in Nat /\ B \in Nat /\ P \in Nat /\ A \in Nat
      /\ \A i \in 1..A : \E k \in 1..B : Hot(b[k]) /\ a[i] = Alert(b[k])
      /\ \A k \in 1..B : Hot(b[k]) => \E i \in 1..A : a[i] = Alert(b[k])
      /\ \A i, j \in 1..A : a[i] = a[j] => i = j
  <2>1. a \in Seq(Announcements)
    BY DEF Announces
  <2>2. C \in Nat /\ B \in Nat /\ P \in Nat /\ A \in Nat
    BY <2>1
  <2> QED BY <2>1, <2>2, Zenon DEF Announces
<1>2. /\ Len(cs) = C + B /\ \A i \in 1..C : cs[i] = c[i]
      /\ \A j \in 1..B : cs[C + j] = b[j]
  BY <1>1
<1>3. /\ Batch(b) \in Messages /\ Announcements \subseteq Messages
  BY DEF Messages
<1>4. /\ Len(ps) = P + A + 1 /\ \A i \in 1..P : ps[i] = p[i]
      /\ \A i \in 1..A : ps[P + i] = a[i]
      /\ ps[P + A + 1] = Batch(b)
  <2> DEFINE m == Batch(b)
  <2>1. m \in Messages /\ a \in Seq(Messages)
    BY <1>1, <1>3
  <2> HIDE DEF m
  <2>2. /\ a \o <<m>> \in Seq(Messages) /\ Len(a \o <<m>>) = A + 1
        /\ \A i \in 1..A : (a \o <<m>>)[i] = a[i]
        /\ (a \o <<m>>)[A + 1] = m
    BY <2>1
  <2> DEFINE qq == a \o <<m>>
  <2>3. /\ Len(p \o qq) = P + A + 1 /\ \A i \in 1..P : (p \o qq)[i] = p[i]
        /\ \A i \in 1..(A + 1) : (p \o qq)[P + i] = qq[i]
    <3> HIDE DEF qq
    <3> QED BY <1>1, <2>2 DEF qq
  <2>4. A + 1 \in 1..(A + 1) /\ P + (A + 1) = P + A + 1 /\ 1..A \subseteq 1..(A + 1)
    BY <1>1
  <2>5. /\ \A i \in 1..A : (p \o qq)[P + i] = a[i]
        /\ (p \o qq)[P + A + 1] = m
    BY <2>2, <2>3, <2>4
  <2> QED BY <2>3, <2>5 DEF m
<1> DEFINE CS == Len(cs)
           PS == Len(ps)
<1>5. \A i \in 1..CS : i \in 1..C \/ \E j \in 1..B : i = C + j
  <2> SUFFICES ASSUME NEW i \in 1..CS, i \notin 1..C PROVE \E j \in 1..B : i = C + j
    OBVIOUS
  <2>1. i - C \in 1..B /\ i = C + (i - C)
    BY <1>1, <1>2
  <2> QED BY <2>1
<1>6. \A i \in 1..PS : i \in 1..P \/ (\E j \in 1..A : i = P + j) \/ i = P + A + 1
  <2> SUFFICES ASSUME NEW i \in 1..PS, i \notin 1..P, i # P + A + 1
               PROVE \E j \in 1..A : i = P + j
    OBVIOUS
  <2>1. /\ i \in 1..(P + A + 1) /\ P \in Nat /\ A \in Nat
        /\ i \notin 1..P /\ i # P + A + 1
    BY <1>1, <1>4
  <2> HIDE DEF P, A, ps
  <2>2. i \in Int /\ i > P /\ i < P + A + 1
    BY <2>1
  <2>3. i - P \in 1..A /\ i = P + (i - P)
    BY <2>1, <2>2
  <2> QED BY <2>3
<1>7. /\ \A i \in 1..C : i \in 1..CS
      /\ \A j \in 1..B : C + j \in 1..CS
      /\ \A i \in 1..P : i \in 1..PS
      /\ \A i \in 1..A : P + i \in 1..PS
      /\ P + A + 1 \in 1..PS
  BY <1>1, <1>2, <1>4
<1>8. \A i \in 1..A : IsAlert(ps[P + i]) /\ ~IsBatch(ps[P + i])
  BY <1>1, <1>4, MessageFacts
<1>9. IsBatch(ps[P + A + 1]) /\ ~IsAlert(ps[P + A + 1])
  BY <1>4, MessageFacts
<1>10. Distinct(c) /\ OfHotSamples(c, p) /\ OfAllHotSamples(c, p)
       /\ Once(p) /\ OfCollected(c, p) /\ AlertsFirstIn(p)
  BY DEF Told
<1> HIDE DEF cs, ps, q
\* An earlier alert is of an earlier sample.
<1>11. \A i \in 1..P : IsAlert(p[i]) =>
         \E k \in 1..C : Hot(c[k]) /\ p[i] = Alert(c[k]) /\ p[i].samples[1] = c[k]
  BY <1>10, MessageFacts DEF OfHotSamples
<1>12. \A i \in 1..A : \E k \in 1..B :
         Hot(b[k]) /\ ps[P + i] = Alert(b[k]) /\ ps[P + i].samples[1] = b[k]
  <2> SUFFICES ASSUME NEW i \in 1..A
               PROVE  \E k \in 1..B : Hot(b[k]) /\ ps[P + i] = Alert(b[k])
                                      /\ ps[P + i].samples[1] = b[k]
    OBVIOUS
  <2>1. PICK k \in 1..B : Hot(b[k]) /\ a[i] = Alert(b[k])
    BY <1>1
  <2>2. ps[P + i] = Alert(b[k])
    BY <1>4, <2>1
  <2>3. Alert(b[k]).samples[1] = b[k]
    BY MessageFacts
  <2> QED BY <2>1, <2>2, <2>3
<1>13. Distinct(cs)
  <2> SUFFICES ASSUME NEW i \in 1..CS, NEW j \in 1..CS, cs[i] = cs[j] PROVE i = j
    BY DEF Distinct
  <2>1. CASE i \in 1..C /\ j \in 1..C
    BY <1>2, <1>10, <2>1 DEF Distinct
  <2>2. CASE i \notin 1..C /\ j \notin 1..C
    BY <1>2, <1>5, <2>2 DEF Distinct
  <2>3. ASSUME NEW x \in 1..CS, NEW y \in 1..CS, x \in 1..C, y \notin 1..C
        PROVE  cs[x] # cs[y]
    <3>1. PICK z \in 1..B : y = C + z
      BY <1>5, <2>3
    <3>2. cs[x] = c[x] /\ cs[y] = b[z]
      BY <1>2, <2>3, <3>1
    <3> QED BY <2>3, <3>2
  <2> QED BY <2>1, <2>2, <2>3
<1>14. OfHotSamples(cs, ps)
  <2> SUFFICES ASSUME NEW i \in 1..PS, IsAlert(ps[i])
               PROVE  \E k \in 1..CS : Hot(cs[k]) /\ ps[i] = Alert(cs[k])
    BY DEF OfHotSamples
  <2>1. CASE i \in 1..P
    <3>1. PICK k \in 1..C : Hot(c[k]) /\ p[i] = Alert(c[k])
      BY <1>4, <1>11, <2>1
    <3> QED BY <1>2, <1>4, <1>7, <2>1, <3>1
  <2>2. ASSUME NEW j \in 1..A, i = P + j
        PROVE  \E k \in 1..CS : Hot(cs[k]) /\ ps[i] = Alert(cs[k])
    <3>1. PICK k \in 1..B : Hot(b[k]) /\ ps[P + j] = Alert(b[k])
      BY <1>12
    <3>2. C + k \in 1..CS /\ cs[C + k] = b[k]
      BY <1>2, <1>7
    <3> QED BY <2>2, <3>1, <3>2
  <2> QED BY <1>6, <1>9, <2>1, <2>2
<1>15. OfAllHotSamples(cs, ps)
  <2> SUFFICES ASSUME NEW k \in 1..CS, Hot(cs[k])
               PROVE  \E i \in 1..PS : ps[i] = Alert(cs[k])
    BY DEF OfAllHotSamples
  <2>1. CASE k \in 1..C
    <3>1. PICK i \in 1..P : p[i] = Alert(c[k])
      BY <1>2, <1>10, <2>1 DEF OfAllHotSamples
    <3> QED BY <1>2, <1>4, <1>7, <2>1, <3>1
  <2>2. ASSUME NEW j \in 1..B, k = C + j
        PROVE  \E i \in 1..PS : ps[i] = Alert(cs[k])
    <3>1. cs[k] = b[j]
      BY <1>2, <2>2
    <3>2. PICK i \in 1..A : a[i] = Alert(b[j])
      BY <1>1, <3>1
    <3>3. P + i \in 1..PS /\ ps[P + i] = a[i]
      BY <1>4, <1>7
    <3> QED BY <3>1, <3>2, <3>3
  <2> QED BY <1>5, <2>1, <2>2
<1>16. Once(ps)
  <2> SUFFICES ASSUME NEW i \in 1..PS, NEW j \in 1..PS, IsAlert(ps[i]), ps[i] = ps[j]
               PROVE  i = j
    BY DEF Once
  <2>1. i # P + A + 1 /\ j # P + A + 1
    BY <1>9
  <2>2. CASE i \in 1..P /\ j \in 1..P
    BY <1>4, <1>10, <2>2 DEF Once
  <2>3. CASE i \notin 1..P /\ j \notin 1..P
    <3>1. PICK x \in 1..A : i = P + x
      BY <1>6, <2>1, <2>3
    <3>2. PICK y \in 1..A : j = P + y
      BY <1>6, <2>1, <2>3
    <3>3. a[x] = a[y]
      BY <1>4, <3>1, <3>2
    <3> QED BY <1>1, <3>1, <3>2, <3>3
  <2>4. ASSUME NEW x \in 1..P, NEW y \in 1..A, ps[x] = ps[P + y] PROVE FALSE
    <3>1. IsAlert(p[x]) /\ ps[x] = p[x]
      BY <1>4, <1>8, <2>4
    <3>2. PICK k \in 1..C : p[x].samples[1] = c[k]
      BY <1>11, <3>1
    <3>3. PICK l \in 1..B : ps[P + y].samples[1] = b[l]
      BY <1>12
    <3>4. c[k] = b[l]
      BY <2>4, <3>1, <3>2, <3>3
    <3> QED BY <3>4
  <2>5. CASE i \in 1..P /\ j \notin 1..P
    <3>1. PICK y \in 1..A : j = P + y
      BY <1>6, <2>1, <2>5
    <3> QED BY <2>4, <2>5, <3>1
  <2>6. CASE i \notin 1..P /\ j \in 1..P
    <3>1. PICK y \in 1..A : i = P + y
      BY <1>6, <2>1, <2>6
    <3> QED BY <2>4, <2>6, <3>1
  <2> QED BY <2>2, <2>3, <2>5, <2>6
<1>17. OfCollected(cs, ps)
  <2> SUFFICES ASSUME NEW j \in 1..PS, IsBatch(ps[j]), NEW k \in DOMAIN ps[j].samples
               PROVE  \E m \in 1..CS : ps[j].samples[k] = cs[m]
    BY DEF OfCollected
  <2>1. CASE j \in 1..P
    <3>1. ps[j] = p[j]
      BY <1>4, <2>1
    <3>2. PICK m \in 1..C : p[j].samples[k] = c[m]
      BY <1>10, <2>1, <3>1 DEF OfCollected
    <3>3. m \in 1..CS /\ cs[m] = c[m]
      BY <1>2, <1>7
    <3> QED BY <3>1, <3>2, <3>3
  <2>2. CASE j = P + A + 1
    <3>1. ps[j].samples = b
      BY <1>4, <2>2, MessageFacts
    <3>2. k \in 1..B
      BY <3>1
    <3>3. C + k \in 1..CS /\ cs[C + k] = b[k]
      BY <1>2, <1>7, <3>2
    <3> QED BY <3>1, <3>3
  <2> QED BY <1>6, <1>8, <2>1, <2>2
<1>18. AlertsFirstIn(ps)
  <2> SUFFICES ASSUME NEW i \in 1..PS, NEW j \in 1..PS, IsAlert(ps[i]), IsBatch(ps[j]),
                      NEW k \in DOMAIN ps[j].samples,
                      ps[j].samples[k] = ps[i].samples[1]
               PROVE  i < j
    BY DEF AlertsFirstIn
  <2>1. CASE j = P + A + 1
    <3>1. i # P + A + 1
      BY <1>9
    <3> QED BY <1>1, <1>4, <2>1, <3>1
  <2>2. CASE j \in 1..P /\ i \in 1..P
    <3>1. ps[i] = p[i] /\ ps[j] = p[j]
      BY <1>4, <2>2
    <3> QED BY <1>10, <2>2, <3>1 DEF AlertsFirstIn
  <2>3. ASSUME j \in 1..P, NEW x \in 1..A, i = P + x PROVE FALSE
    <3>1. ps[j] = p[j]
      BY <1>4, <2>3
    <3>2. PICK m \in 1..C : ps[j].samples[k] = c[m]
      BY <1>10, <2>3, <3>1 DEF OfCollected
    <3>3. PICK l \in 1..B : ps[i].samples[1] = b[l]
      BY <1>12, <2>3
    <3>4. c[m] = b[l]
      BY <3>2, <3>3
    <3> QED BY <3>4
  <2>4. j \in 1..P \/ j = P + A + 1
    BY <1>6, <1>8
  <2>5. i \in 1..P \/ \E x \in 1..A : i = P + x
    BY <1>6, <1>9
  <2> QED BY <2>1, <2>2, <2>3, <2>4, <2>5
<1>19. Told(cs, ps)
  BY <1>13, <1>14, <1>15, <1>16, <1>17, <1>18 DEF Told
<1> QED BY <1>19 DEF cs, ps, q

\* Successive batches have different times: the loop pauses after each.
Apart ==
  /\ count \in Nat
  /\ count = 0 => pushed = <<>> /\ loop # "push"
  /\ loop = "collect" =>
       \A i \in 1..Len(pushed) :
         /\ pushed[i].at < now
         /\ \A j \in 1..Len(batch) : pushed[i].at < batch[j].at

ToldInv ==
  /\ sent \in Seq(Messages)
  /\ Apart
  /\ Told(Collected, Due)

LEMMA InitToldInv == Init => ToldInv
<1> SUFFICES ASSUME Init PROVE ToldInv
  OBVIOUS
<1>1. sent \in Seq(Messages) /\ Apart
  BY DEF Init, Apart
<1>2. Collected = <<>> /\ Due = <<Started>>
  BY DEF Init, Collected, Taken, Due
<1>3. Told(<<>>, <<Started>>)
  BY MessageFacts DEF Told, Distinct, OfHotSamples, OfAllHotSamples, Once,
                      OfCollected, AlertsFirstIn
<1> QED BY <1>1, <1>2, <1>3 DEF ToldInv

LEMMA ScrapeToldInv == IInv /\ AgeInv /\ ToldInv /\ ScrapeGpu => ToldInv'
<1> SUFFICES ASSUME IInv, AgeInv, ToldInv, ScrapeGpu PROVE ToldInv'
  OBVIOUS
<1>1. PICK s \in Samples :
        /\ batch' = Append(batch, s) /\ s.at = now
        /\ now' \in {now, now + 1} /\ now \in Nat /\ batch \in Seq(Samples)
        /\ loop = "collect" /\ UNCHANGED <<loop, count, outbox, pushed, sent>>
  BY ScrapeFacts
<1>2. Collected' = Collected /\ Due' = Due
  BY <1>1 DEF Collected, Due
<1>3. Apart'
  <2> SUFFICES ASSUME NEW i \in 1..Len(pushed)
               PROVE  /\ pushed[i].at < now'
                      /\ \A j \in 1..Len(batch') : pushed[i].at < batch'[j].at
    BY <1>1 DEF ToldInv, Apart
  <2>1. pushed[i] \in Samples
    BY DEF IInv, Types
  <2>2. /\ pushed[i].at < now /\ pushed[i].at \in Nat
        /\ \A j \in 1..Len(batch) : pushed[i].at < batch[j].at
    BY <1>1, <2>1 DEF ToldInv, Apart, Samples
  <2>3. \A j \in 1..Len(batch') :
          (j \in 1..Len(batch) /\ batch'[j] = batch[j]) \/ batch'[j] = s
    BY <1>1
  <2> QED BY <1>1, <2>2, <2>3
<1> QED BY <1>1, <1>2, <1>3 DEF ToldInv

LEMMA CollectToldInv == IInv /\ AgeInv /\ ToldInv /\ Collect => ToldInv'
<1> SUFFICES ASSUME IInv, AgeInv, ToldInv, Collect PROVE ToldInv'
  OBVIOUS
<1> DEFINE a == Alerts(batch)
<1>1. /\ batch \in Seq(Samples) /\ Len(batch) = NumGpus
      /\ \A i, j \in 1..NumGpus : batch[i] = batch[j] => i = j
      /\ outbox' = a \o <<Batch(batch)>>
      /\ Announces(a, batch, 1..NumGpus)
      /\ loop = "collect" /\ loop' = "push"
      /\ now' = now /\ pushed' = pushed /\ batch' = batch /\ sent' = sent
  BY CollectFacts
<1>2. pushed \in Seq(Samples) /\ sent \in Seq(Messages)
  BY DEF IInv, Types, ToldInv
<1>3. outbox = <<>> /\ count \in Nat /\ count' = count + 1
  BY <1>1 DEF AgeInv, OutboxFits, ToldInv, Apart, Collect
<1>4. Collected = pushed /\ Due = sent
  BY <1>1, <1>2, <1>3 DEF Collected, Due
<1>5. Collected' = pushed \o batch /\ Due' = sent \o (a \o <<Batch(batch)>>)
  BY <1>1 DEF Collected, Taken, Due
<1>6. \A i \in 1..Len(pushed), j \in 1..Len(batch) : pushed[i] # batch[j]
  <2> SUFFICES ASSUME NEW i \in 1..Len(pushed), NEW j \in 1..Len(batch),
                      pushed[i] = batch[j]
               PROVE  FALSE
    OBVIOUS
  <2>1. pushed[i].at < batch[j].at
    BY <1>1 DEF ToldInv, Apart
  <2>2. pushed[i] \in Samples
    BY <1>2
  <2>3. pushed[i].at \in Nat
    BY <2>2 DEF Samples
  <2> QED BY <2>1, <2>3
<1>7. Told(Collected', Due')
  <2>1. Told(pushed, sent)
    BY <1>4 DEF ToldInv
  <2>2. Distinct(batch) /\ Announces(a, batch, 1..Len(batch))
    BY <1>1 DEF Distinct
  <2>3. batch \in Seq(Samples)
    BY <1>1
  <2> HIDE DEF a
  <2>4. Told(pushed \o batch, sent \o (a \o <<Batch(batch)>>))
    BY <1>2, <1>6, <2>1, <2>2, <2>3, BatchIsTold
  <2> QED BY <1>5, <2>4
<1>8. sent' \in Seq(Messages) /\ Apart'
  BY <1>1, <1>2, <1>3 DEF Apart
<1> QED BY <1>7, <1>8 DEF ToldInv

LEMMA NextToldInv == IInv /\ AgeInv /\ ToldInv /\ [Next]_vars => ToldInv'
<1> SUFFICES ASSUME IInv, AgeInv, ToldInv, [Next]_vars PROVE ToldInv'
  OBVIOUS
<1>1. /\ pushed \in Seq(Samples) /\ batch \in Seq(Samples) /\ now \in Nat
      /\ sent \in Seq(Messages) /\ outbox \in Seq(Messages)
      /\ Told(Collected, Due) /\ Apart
  BY DEF IInv, Types, ToldInv, AgeInv, OutboxFits
<1>2. ASSUME Collected' = Collected, Due' = Due, sent' \in Seq(Messages), Apart'
      PROVE  ToldInv'
  BY <1>1, <1>2 DEF ToldInv
<1>3. CASE Push
  <2>1. count' = count /\ now' = now /\ sent' = sent /\ outbox' = outbox
        /\ loop = "push" /\ loop' \in {"push", "post"}
    BY <1>3 DEF Push
  <2>2. Due' = Due
    BY <2>1 DEF Due
  <2>3. Taken' = Taken
    <3>1. CASE batch = <<>>
      BY <1>3, <3>1 DEF Push, Taken
    <3>2. CASE batch # <<>>
      <4>1. pushed' = Append(pushed, Head(batch)) /\ batch' = Tail(batch)
        BY <1>3, <3>2 DEF Push
      <4> QED BY <1>1, <3>2, <4>1, HeadThenTail DEF Taken
    <3> QED BY <3>1, <3>2
  <2>4. Collected' = Collected
    BY <2>1, <2>3 DEF Collected
  <2>5. Apart'
    BY <1>1, <2>1 DEF Apart
  <2> QED BY <1>1, <1>2, <2>1, <2>2, <2>4, <2>5
<1>4. CASE Post
  <2>1. /\ count' = count /\ pushed' = pushed /\ batch' = batch
        /\ loop = "post" /\ loop' = loop /\ outbox # <<>>
        /\ sent' = Append(sent, Head(outbox)) /\ outbox' = Tail(outbox)
    BY <1>4 DEF Post
  <2>2. Collected' = Collected
    BY <2>1 DEF Collected, Taken
  <2>3. Due' = Due
    BY <1>1, <2>1, HeadThenTail DEF Due
  <2>4. Apart'
    BY <1>1, <2>1 DEF Apart
  <2>5. sent' \in Seq(Messages)
    BY <1>1, <2>1
  <2> QED BY <1>2, <2>2, <2>3, <2>4, <2>5
<1>5. CASE Pause
  <2>1. /\ count' = count /\ pushed' = pushed /\ batch' = batch
        /\ loop = "post" /\ loop' \in {"collect", "done"}
        /\ sent' = sent /\ outbox' = outbox /\ batch = <<>>
        /\ now' = IF count = 0 THEN now ELSE now + 1
    BY <1>5 DEF Pause, IInv, NothingInHand
  <2>2. Collected' = Collected /\ Due' = Due
    <3>1. pushed \o batch = pushed
      BY <1>1, <2>1
    <3> QED BY <2>1, <3>1 DEF Collected, Taken, Due
  <2>3. \A i \in 1..Len(pushed) : pushed[i].at < now'
    <3>1. CASE count = 0
      BY <1>1, <3>1 DEF Apart
    <3>2. CASE count # 0
      <4>1. ASSUME NEW i \in 1..Len(pushed) PROVE pushed[i].at < now'
        <5>1. pushed[i] \in Samples /\ pushed[i].at <= now
          BY <1>1, PushedInOrder
        <5>2. pushed[i].at \in Nat
          BY <5>1 DEF Samples
        <5> QED BY <1>1, <2>1, <3>2, <5>1, <5>2
      <4> QED BY <4>1
    <3> QED BY <3>1, <3>2
  <2>4. Apart'
    BY <1>1, <2>1, <2>3 DEF Apart
  <2> QED BY <1>1, <1>2, <2>1, <2>2, <2>4
<1>6. CASE Overflow
  <2>1. /\ loop = "collect" /\ loop' = "panicked"
        /\ UNCHANGED <<count, outbox, pushed, sent>>
    BY <1>6 DEF Overflow
  <2>2. Collected' = Collected /\ Due' = Due
    BY <2>1 DEF Collected, Due
  <2>3. Apart'
    BY <1>1, <2>1 DEF Apart
  <2> QED BY <1>1, <1>2, <2>1, <2>2, <2>3
<1>7. CASE UNCHANGED vars
  BY <1>1, <1>7 DEF vars, ToldInv, Apart, Collected, Taken, Due
<1> QED
  BY <1>3, <1>4, <1>5, <1>6, <1>7, ScrapeToldInv, CollectToldInv DEF Next

LEMMA ToldInvAnnounced ==
  ASSUME IInv, AgeInv, ToldInv
  PROVE  HotSamplesAreAnnounced
<1> DEFINE Found(m) == {i \in DOMAIN sent : sent[i] = m}
<1> SUFFICES ASSUME loop \in {"collect", "done"}
             PROVE  /\ \A s \in Pushed :
                         Cardinality(Found(Alert(s))) = IF Hot(s) THEN 1 ELSE 0
                    /\ \A i, j \in DOMAIN sent :
                         /\ sent[i].type = "gpu.alert" /\ sent[j].type = "trace.created"
                         /\ \E k \in DOMAIN sent[j].samples :
                              sent[j].samples[k] = sent[i].samples[1]
                         => i < j
  BY Zenon DEF HotSamplesAreAnnounced
<1>1. /\ loop = "done" => batch = <<>>
      /\ outbox = <<>>
      /\ pushed \in Seq(Samples) /\ sent \in Seq(Messages)
  BY DEF IInv, NothingInHand, Types, AgeInv, OutboxFits, ToldInv
<1>2. Collected = pushed /\ Due = sent
  BY <1>1 DEF Collected, Taken, Due
<1>3. OfHotSamples(pushed, sent) /\ OfAllHotSamples(pushed, sent)
      /\ Once(sent) /\ AlertsFirstIn(sent)
  BY <1>2 DEF ToldInv, Told
<1>4. DOMAIN sent = 1..Len(sent) /\ DOMAIN pushed = 1..Len(pushed)
  BY <1>1
<1>5. ASSUME NEW s \in Pushed, Hot(s)
      PROVE  Cardinality(Found(Alert(s))) = 1
  <2>1. PICK k \in 1..Len(pushed) : s = pushed[k]
    BY <1>4 DEF Pushed
  <2>2. PICK i \in 1..Len(sent) : sent[i] = Alert(s)
    BY <1>3, <1>5, <2>1 DEF OfAllHotSamples
  <2>3. \A j \in 1..Len(sent) : sent[j] = Alert(s) => j = i
    BY <1>3, <2>2, MessageFacts DEF Once
  <2>4. Found(Alert(s)) = {i}
    BY <1>4, <2>2, <2>3
  <2> QED BY <2>4, FS_Singleton
<1>6. ASSUME NEW s \in Pushed, ~Hot(s)
      PROVE  Cardinality(Found(Alert(s))) = 0
  <2>1. ASSUME NEW i \in 1..Len(sent), sent[i] = Alert(s) PROVE FALSE
    <3>1. IsAlert(sent[i])
      BY <2>1, MessageFacts
    <3>2. PICK k \in 1..Len(pushed) : Hot(pushed[k]) /\ sent[i] = Alert(pushed[k])
      BY <1>3, <3>1 DEF OfHotSamples
    <3>3. s = pushed[k]
      BY <2>1, <3>2, AlertIsInjective
    <3> QED BY <1>6, <3>2, <3>3
  <2>2. Found(Alert(s)) = {}
    BY <1>4, <2>1
  <2> QED BY <2>2, FS_EmptySet
<1>7. \A i, j \in DOMAIN sent :
        /\ sent[i].type = "gpu.alert" /\ sent[j].type = "trace.created"
        /\ \E k \in DOMAIN sent[j].samples : sent[j].samples[k] = sent[i].samples[1]
        => i < j
  BY <1>3, <1>4, Zenon DEF AlertsFirstIn, IsAlert, IsBatch
<1> QED BY <1>5, <1>6, <1>7

\* Whatever the readings and however long POSTs take, when the loop pauses there
\* is exactly one alert for each hot sample so far, posted before its batch, and
\* none for any other.
THEOREM HotSamplesAreAnnouncedThm == Spec => []HotSamplesAreAnnounced
<1>1. Init => IInv /\ AgeInv /\ ToldInv
  BY InitIInv, InitAgeInv, InitToldInv
<1>2. IInv /\ AgeInv /\ ToldInv /\ [Next]_vars => IInv' /\ AgeInv' /\ ToldInv'
  BY NextIInv, NextAgeInv, NextToldInv
<1>3. IInv /\ AgeInv /\ ToldInv => HotSamplesAreAnnounced
  BY ToldInvAnnounced
<1> QED BY <1>1, <1>2, <1>3, PTL DEF Spec

\* Every variable holds values of its type: the times, the samples in the three
\* sequences, the point the loop is at and the messages due.
THEOREM TypeCorrectness == Spec => []TypeOK
<1>1. Init => IInv /\ AgeInv /\ ToldInv
  BY InitIInv, InitAgeInv, InitToldInv
<1>2. IInv /\ AgeInv /\ ToldInv /\ [Next]_vars => IInv' /\ AgeInv' /\ ToldInv'
  BY NextIInv, NextAgeInv, NextToldInv
<1>3. IInv /\ AgeInv /\ ToldInv => TypeOK
  <2> SUFFICES ASSUME IInv, AgeInv, ToldInv PROVE TypeOK
    OBVIOUS
  <2>1. ASSUME NEW m \in Messages
        PROVE  /\ m.type \in {"workload.started", "gpu.alert", "trace.created"}
               /\ m.samples \in Seq(Samples)
    <3>1. CASE m = Started
      BY <3>1 DEF Started
    <3>2. ASSUME NEW s \in Samples, m = Alert(s)
          PROVE  m.type = "gpu.alert" /\ m.samples \in Seq(Samples)
      BY <3>2 DEF Alert
    <3>3. ASSUME NEW b \in Seq(Samples), m = Batch(b)
          PROVE  m.type = "trace.created" /\ m.samples \in Seq(Samples)
      BY <3>3 DEF Batch
    <3>4. m = Started \/ (\E s \in Samples : m = Alert(s))
          \/ (\E b \in Seq(Samples) : m = Batch(b))
      BY DEF Messages, Announcements
    <3> QED BY <3>1, <3>2, <3>3, <3>4
  <2>2. \A i \in DOMAIN outbox :
          /\ outbox[i].type \in {"workload.started", "gpu.alert", "trace.created"}
          /\ outbox[i].samples \in Seq(Samples)
    <3>1. \A i \in DOMAIN outbox : outbox[i] \in Messages
      BY DEF AgeInv, OutboxFits
    <3> QED BY <2>1, <3>1
  <2>3. loop \in {"collect", "push", "post", "done", "panicked"} /\ count \in Nat
    BY DEF AgeInv, OutboxFits, ToldInv, Apart
  <2>4. /\ now \in Nat /\ batch \in Seq(Samples) /\ ring \in Seq(Samples)
        /\ pushed \in Seq(Samples)
    BY DEF IInv, Types
  <2> QED BY <2>2, <2>3, <2>4 DEF TypeOK
<1> QED BY <1>1, <1>2, <1>3, PTL DEF Spec
================================================================================
