----------------------------- MODULE Asyncio_proofs ----------------------------
(***************************************************************************)
(* What the tasks of an event loop share: the tracer's contexts, and the   *)
(* asynchronous bus with the engines of the pipeline.                      *)
(*                                                                         *)
(* The tracer.  For any tasks, trace ids, exceptions and number of spans:  *)
(* the context stack of a task mirrors its with-blocks, the parent that a  *)
(* task's own span was given stays open, a stored trace is one tree with   *)
(* all of its root task's spans, and a failure that nobody inherited is    *)
(* stored.                                                                 *)
(*                                                                         *)
(* The pipeline.  When join() returns every engine has answered every      *)
(* trace, for any number of dispatching tasks.  The argument counts the    *)
(* envelopes that are queued or dispatched.                                *)
(***************************************************************************)
EXTENDS Tracer, WorkloadPipeline, FiniteSetTheorems, SequenceTheorems, TLAPS

-----------------------------------------------------------------------------
(* Sequences *)

LEMMA FrontAndLast ==
  ASSUME NEW S, NEW s \in Seq(S), s # <<>>
  PROVE  /\ Len(s) \in Nat \ {0}
         /\ Front(s) \in Seq(S) /\ Len(Front(s)) = Len(s) - 1
         /\ \A i \in 1..(Len(s) - 1) : Front(s)[i] = s[i]
         /\ Last(s) = s[Len(s)] /\ Last(s) \in S
<1>1. Len(s) \in Nat \ {0}
  BY EmptySeq
<1>2. \A i \in 1..(Len(s) - 1) : s[i] \in S
  BY <1>1, ElementOfSeq
<1>3. /\ SubSeq(s, 1, Len(s) - 1) \in Seq(S)
      /\ Len(SubSeq(s, 1, Len(s) - 1)) = Len(s) - 1
      /\ \A i \in 1..(Len(s) - 1) : SubSeq(s, 1, Len(s) - 1)[i] = s[i]
  <2> DEFINE n == Len(s) - 1
  <2>1. 1 \in Int /\ n \in Int /\ \A i \in 1..n : s[i] \in S
    BY <1>1, <1>2
  <2>2. /\ SubSeq(s, 1, n) \in Seq(S)
        /\ Len(SubSeq(s, 1, n)) = IF 1 <= n THEN n - 1 + 1 ELSE 0
        /\ \A i \in 1..(n - 1 + 1) : SubSeq(s, 1, n)[i] = s[1 + i - 1]
    <3> HIDE DEF n
    <3> QED BY <2>1, SubSeqProperties
  <2>3. n \in Nat
    BY <1>1
  <2> HIDE DEF n
  <2>4. /\ Len(SubSeq(s, 1, n)) = n
        /\ \A i \in 1..n : SubSeq(s, 1, n)[i] = s[i]
    <3>1. n - 1 + 1 = n /\ \A i \in 1..n : 1 + i - 1 = i
      BY <2>3
    <3> QED BY <2>2, <2>3, <3>1
  <2> QED BY <2>2, <2>4 DEF n
<1> QED BY <1>1, <1>3, ElementOfSeq DEF Front, Last

LEMMA FrontOfConcat ==
  ASSUME NEW a \in Seq(SpanIds), NEW w \in Seq(SpanIds), w # <<>>
  PROVE  a \o w # <<>> /\ Front(a \o w) = a \o Front(w) /\ Last(a \o w) = Last(w)
<1>1. /\ a \o w \in Seq(SpanIds) /\ Len(a \o w) = Len(a) + Len(w)
      /\ \A i \in 1..(Len(a) + Len(w)) :
           (a \o w)[i] = IF i <= Len(a) THEN a[i] ELSE w[i - Len(a)]
      /\ Len(a) \in Nat
  BY ConcatProperties, LenProperties
<1>2. /\ Len(w) \in Nat \ {0} /\ Front(w) \in Seq(SpanIds) /\ Len(Front(w)) = Len(w) - 1
      /\ \A i \in 1..(Len(w) - 1) : Front(w)[i] = w[i]
      /\ Last(w) = w[Len(w)]
  BY FrontAndLast
<1>3. a \o w # <<>>
  BY <1>1, <1>2
<1>4. /\ Front(a \o w) \in Seq(SpanIds) /\ Len(Front(a \o w)) = Len(a) + Len(w) - 1
      /\ \A i \in 1..(Len(a) + Len(w) - 1) : Front(a \o w)[i] = (a \o w)[i]
      /\ Last(a \o w) = (a \o w)[Len(a) + Len(w)]
  <2> DEFINE x == a \o w
  <2>1. x \in Seq(SpanIds) /\ x # <<>> /\ Len(x) = Len(a) + Len(w)
    BY <1>1, <1>3
  <2> HIDE DEF x
  <2>2. /\ Front(x) \in Seq(SpanIds) /\ Len(Front(x)) = Len(x) - 1
        /\ \A i \in 1..(Len(x) - 1) : Front(x)[i] = x[i]
        /\ Last(x) = x[Len(x)]
    BY <2>1, FrontAndLast
  <2> QED BY <2>1, <2>2 DEF x
<1>5. /\ a \o Front(w) \in Seq(SpanIds) /\ Len(a \o Front(w)) = Len(a) + Len(w) - 1
      /\ \A i \in 1..(Len(a) + Len(w) - 1) :
           (a \o Front(w))[i] = IF i <= Len(a) THEN a[i] ELSE Front(w)[i - Len(a)]
  <2> DEFINE f == Front(w)
  <2>1. f \in Seq(SpanIds) /\ Len(f) = Len(w) - 1
    BY <1>2
  <2> HIDE DEF f
  <2>2. /\ a \o f \in Seq(SpanIds) /\ Len(a \o f) = Len(a) + Len(f)
        /\ \A i \in 1..(Len(a) + Len(f)) :
             (a \o f)[i] = IF i <= Len(a) THEN a[i] ELSE f[i - Len(a)]
    BY <2>1, ConcatProperties
  <2>3. Len(a) + Len(f) = Len(a) + Len(w) - 1
    BY <1>1, <1>2, <2>1
  <2> QED BY <2>2, <2>3 DEF f
<1>6. \A i \in 1..(Len(a) + Len(w) - 1) : Front(a \o w)[i] = (a \o Front(w))[i]
  <2> TAKE i \in 1..(Len(a) + Len(w) - 1)
  <2>1. i \in 1..(Len(a) + Len(w))
    BY <1>1, <1>2
  <2>2. CASE i <= Len(a)
    BY <1>1, <1>4, <1>5, <2>1, <2>2
  <2>3. CASE ~(i <= Len(a))
    <3>1. i - Len(a) \in 1..(Len(w) - 1)
      BY <1>1, <1>2, <2>3
    <3>2. Front(w)[i - Len(a)] = w[i - Len(a)]
      BY <1>2, <3>1
    <3> QED BY <1>1, <1>4, <1>5, <2>1, <2>3, <3>2
  <2> QED BY <2>2, <2>3
<1>7. Front(a \o w) = a \o Front(w)
  BY <1>4, <1>5, <1>6, SeqEqual
<1> QED BY <1>1, <1>2, <1>3, <1>4, <1>7

LEMMA AppendToConcat ==
  ASSUME NEW a \in Seq(SpanIds), NEW w \in Seq(SpanIds), NEW e \in SpanIds
  PROVE  Append(a \o w, e) = a \o Append(w, e)
<1>1. a \o w \in Seq(SpanIds) /\ <<e>> \in Seq(SpanIds)
  BY ConcatProperties
<1>2. Append(a \o w, e) = (a \o w) \o <<e>> /\ Append(w, e) = w \o <<e>>
  BY <1>1, AppendIsConcat
<1> QED BY <1>1, <1>2, ConcatAssociative

-----------------------------------------------------------------------------
(* Contexts *)

\* What a context has collected is a tree of one trace, and its stack is part of it.
Grown(c, objects) ==
  /\ c.trace = NoTrace <=> c.stack = <<>>
  /\ c.trace = NoTrace => c.collected = <<>>
  /\ \A i \in DOMAIN c.stack : \E j \in DOMAIN c.collected : c.collected[j] = c.stack[i]
  /\ \A i \in DOMAIN c.collected :
       /\ c.collected[i] \in DOMAIN objects
       /\ objects[c.collected[i]].trace = c.trace
       /\ IF i = 1 THEN objects[c.collected[i]].parent = NoSpan
          ELSE \E j \in 1..(i - 1) : c.collected[j] = objects[c.collected[i]].parent

\* Span objects come and are enriched, but keep where they come from.
SameOrigins(objects, later) ==
  /\ DOMAIN objects \subseteq DOMAIN later
  /\ \A s \in DOMAIN objects :
       /\ later[s].trace = objects[s].trace /\ later[s].parent = objects[s].parent
       /\ later[s].root = objects[s].root /\ later[s].task = objects[s].task

LEMMA GrownStays ==
  ASSUME NEW objects, NEW later, SameOrigins(objects, later),
         NEW c, Grown(c, objects)
  PROVE  Grown(c, later)
BY DEF SameOrigins, Grown

LEMMA ConstantsAreSound == NoTrace \notin TraceIds /\ NoSpan \notin SpanIds
<1>1. 0 \notin ExplicitIds
  BY TracerAssumption
<1> QED BY <1>1, TracerAssumption DEF NoTrace, NoSpan, TraceIds, SpanIds

LEMMA PushGrows ==
  ASSUME NEW c \in Context, NEW objects \in Seq(Span), Grown(c, objects),
         NEW T \in TraceIds, c.trace # NoTrace => T = c.trace,
         NEW s, s = Len(objects) + 1, s \in SpanIds,
         NEW span \in Span, span.trace = T, span.parent = CurrentSpan(c)
  PROVE  /\ Push([c EXCEPT !.trace = T], s) \in Context
         /\ Grown(Push([c EXCEPT !.trace = T], s), Append(objects, span))
<1> DEFINE d == Push([c EXCEPT !.trace = T], s)
           later == Append(objects, span)
           n == Len(c.collected)
<1>1. c.stack \in Seq(SpanIds) /\ c.collected \in Seq(SpanIds) /\ n \in Nat
  BY LenProperties DEF Context
<1>2. d = [trace |-> T, stack |-> Append(c.stack, s), collected |-> Append(c.collected, s)]
  <2>1. c = [trace |-> c.trace, stack |-> c.stack, collected |-> c.collected]
    BY DEF Context
  <2>2. [c EXCEPT !.trace = T] = [trace |-> T, stack |-> c.stack, collected |-> c.collected]
    BY <2>1
  <2> DEFINE e == [trace |-> T, stack |-> c.stack, collected |-> c.collected]
  <2>3. Push(e, s) = [trace |-> T, stack |-> Append(c.stack, s),
                      collected |-> Append(c.collected, s)]
    <3>1. e.stack = c.stack /\ e.collected = c.collected
      OBVIOUS
    <3>2. Push(e, s) = [e EXCEPT !.stack = Append(e.stack, s),
                                 !.collected = Append(e.collected, s)]
      BY DEF Push
    <3> QED BY <3>1, <3>2
  <2> QED BY <2>2, <2>3
<1> HIDE DEF d
<1>3. d \in Context
  <2>1. Append(c.stack, s) \in Seq(SpanIds) /\ Append(c.collected, s) \in Seq(SpanIds)
    BY <1>1, AppendProperties
  <2> QED BY <1>2, <2>1 DEF Context
<1>4. /\ Append(c.collected, s) \in Seq(SpanIds)
      /\ Len(Append(c.collected, s)) = n + 1
      /\ \A i \in 1..n : Append(c.collected, s)[i] = c.collected[i]
      /\ Append(c.collected, s)[n + 1] = s
  BY <1>1, AppendProperties
<1>5. /\ Append(c.stack, s) # <<>>
      /\ Len(Append(c.stack, s)) = Len(c.stack) + 1 /\ Len(c.stack) \in Nat
      /\ Append(c.stack, s) \in Seq(SpanIds)
      /\ \A i \in 1..Len(c.stack) : Append(c.stack, s)[i] = c.stack[i]
      /\ Append(c.stack, s)[Len(c.stack) + 1] = s
  BY <1>1, AppendProperties, LenProperties
<1>6. /\ Len(objects) \in Nat /\ DOMAIN later = 1..(Len(objects) + 1)
      /\ \A x \in DOMAIN objects : later[x] = objects[x] /\ x \in DOMAIN later
      /\ later[s] = span /\ s \in DOMAIN later
  BY AppendProperties, LenProperties
<1>7. d.trace # NoTrace /\ d.stack # <<>>
  BY <1>2, <1>5, ConstantsAreSound
<1>8. ASSUME NEW i \in DOMAIN d.stack
      PROVE  \E j \in DOMAIN d.collected : d.collected[j] = d.stack[i]
  <2>1. DOMAIN d.collected = 1..(n + 1) /\ DOMAIN d.stack = 1..(Len(c.stack) + 1)
    BY <1>1, <1>2, <1>4, <1>5, LenProperties
  <2>2. CASE i = Len(c.stack) + 1
    <3>1. d.stack[i] = s /\ d.collected[n + 1] = s
      BY <1>2, <1>4, <1>5, <2>2
    <3>2. n + 1 \in DOMAIN d.collected
      BY <1>1, <2>1
    <3> QED BY <3>1, <3>2
  <2>3. CASE i # Len(c.stack) + 1
    <3>1. i \in 1..Len(c.stack) /\ i \in DOMAIN c.stack
      BY <1>1, <1>5, <2>1, <2>3, LenProperties
    <3>2. PICK j \in DOMAIN c.collected : c.collected[j] = c.stack[i]
      BY <3>1 DEF Grown
    <3>3. j \in 1..n
      BY <1>1, <3>2, LenProperties
    <3>4. d.collected[j] = c.collected[j] /\ d.stack[i] = c.stack[i]
      BY <1>2, <1>4, <1>5, <3>1, <3>3
    <3>5. j \in DOMAIN d.collected
      BY <1>1, <2>1, <3>3
    <3> QED BY <3>2, <3>4, <3>5
  <2> QED BY <2>2, <2>3
<1>9. ASSUME NEW i \in DOMAIN d.collected
      PROVE  /\ d.collected[i] \in DOMAIN later
             /\ later[d.collected[i]].trace = T
             /\ IF i = 1 THEN later[d.collected[i]].parent = NoSpan
                ELSE \E j \in 1..(i - 1) :
                       d.collected[j] = later[d.collected[i]].parent
  <2>1. i \in 1..(n + 1) /\ DOMAIN c.collected = 1..n
    BY <1>1, <1>2, <1>4, LenProperties
  <2>2. CASE i = n + 1
    <3>1. d.collected[i] = s /\ later[s] = span
      BY <1>2, <1>4, <1>6, <2>2
    <3>2. CASE c.stack = <<>>
      <4>1. c.collected = <<>> /\ n = 0
        BY <3>2, EmptySeq DEF Grown
      <4> QED BY <1>6, <2>2, <3>1, <3>2, <4>1 DEF CurrentSpan
    <3>3. CASE c.stack # <<>>
      <4>1. Len(c.stack) \in DOMAIN c.stack /\ CurrentSpan(c) = c.stack[Len(c.stack)]
        <5>1. Len(c.stack) \in Nat \ {0} /\ Last(c.stack) = c.stack[Len(c.stack)]
          BY <1>1, <3>3, FrontAndLast
        <5> QED BY <1>1, <3>3, <5>1, LenProperties DEF CurrentSpan
      <4>2. PICK j \in DOMAIN c.collected : c.collected[j] = CurrentSpan(c)
        BY <4>1 DEF Grown
      <4>3. j \in 1..n /\ n >= 1
        BY <1>1, <2>1, <4>2
      <4>4. d.collected[j] = CurrentSpan(c) /\ j \in 1..(i - 1) /\ i # 1
        BY <1>1, <1>2, <1>4, <2>2, <4>2, <4>3
      <4> QED BY <1>6, <3>1, <4>4
    <3> QED BY <3>2, <3>3
  <2>3. CASE i # n + 1
    <3>1. i \in 1..n /\ i \in DOMAIN c.collected
      BY <1>1, <2>1, <2>3
    <3>2. d.collected[i] = c.collected[i]
      BY <1>2, <1>4, <3>1
    <3>3. c.trace = T
      BY <1>1, <3>1 DEF Grown
    <3>4. /\ c.collected[i] \in DOMAIN objects
          /\ objects[c.collected[i]].trace = T
          /\ IF i = 1 THEN objects[c.collected[i]].parent = NoSpan
             ELSE \E j \in 1..(i - 1) : c.collected[j] = objects[c.collected[i]].parent
      BY <3>1, <3>3 DEF Grown
    <3>5. \A j \in 1..(i - 1) : d.collected[j] = c.collected[j]
      <4>1. \A j \in 1..(i - 1) : j \in 1..n
        BY <1>1, <3>1
      <4> QED BY <1>2, <1>4, <4>1
    <3> QED BY <1>6, <3>2, <3>4, <3>5
  <2> QED BY <2>2, <2>3
<1>10. Grown(d, later)
  <2>1. d.trace = T
    BY <1>2
  <2> QED BY <1>7, <1>8, <1>9, <2>1 DEF Grown
<1> QED BY <1>3, <1>10 DEF d

LEMMA PopGrows ==
  ASSUME NEW c \in Context, NEW objects, Grown(c, objects),
         c.stack # <<>>, Front(c.stack) # <<>>
  PROVE  Grown(Pop(c), objects)
<1>1. /\ c.stack \in Seq(SpanIds)
      /\ Pop(c) = [c EXCEPT !.stack = Front(c.stack)]
  BY DEF Pop, Context
<1>2. /\ DOMAIN Front(c.stack) = 1..(Len(c.stack) - 1) /\ DOMAIN c.stack = 1..Len(c.stack)
      /\ \A i \in 1..(Len(c.stack) - 1) : Front(c.stack)[i] = c.stack[i]
      /\ Len(c.stack) \in Nat
  BY <1>1, FrontAndLast, LenProperties
<1>3. \A i \in DOMAIN Front(c.stack) : i \in DOMAIN c.stack /\ Front(c.stack)[i] = c.stack[i]
  BY <1>2
<1>4. /\ Pop(c).trace = c.trace /\ Pop(c).collected = c.collected
      /\ Pop(c).stack = Front(c.stack)
  BY <1>1 DEF Context
<1> QED BY <1>3, <1>4 DEF Grown

LEMMA EmptyGrows == EmptyContext \in Context /\ \A objects : Grown(EmptyContext, objects)
BY EmptySeq DEF EmptyContext, Context, Grown

-----------------------------------------------------------------------------
(* The invariant *)

\* A task's stack mirrors its with-blocks, of which only the outermost opened a
\* trace, and only if nothing was inherited.
Nested(t) ==
  /\ ctx[t].stack = base[t] \o withs[t]
  /\ state[t] = "idle" => withs[t] = <<>>
  /\ \A k \in DOMAIN withs[t] :
       /\ withs[t][k] \in DOMAIN spans
       /\ spans[withs[t][k]].root <=> k = 1 /\ base[t] = <<>>

SavedKnown == \A T \in TraceIds : \A i \in DOMAIN saved[T] : saved[T][i].span \in DOMAIN spans

IInv ==
  /\ TypeOK /\ SavedKnown /\ SavedIsTree
  /\ \A t \in Tasks : Nested(t) /\ Grown(ctx[t], spans)

LEMMA InitIInv == Init => IInv
<1> USE TracerAssumption
<1> SUFFICES ASSUME Init PROVE IInv
  OBVIOUS
<1>1. TypeOK
  BY EmptyGrows, EmptySeq DEF Init, TypeOK, Raised
<1>2. SavedKnown /\ SavedIsTree
  BY DEF Init, SavedKnown, SavedIsTree
<1>3. ASSUME NEW t \in Tasks PROVE Nested(t) /\ Grown(ctx[t], spans)
  <2>1. ctx[t] = EmptyContext /\ base[t] = <<>> /\ withs[t] = <<>>
    BY DEF Init
  <2>2. <<>> \o <<>> = <<>>
    BY EmptySeq, ConcatEmptySeq
  <2> QED BY <2>1, <2>2, EmptyGrows DEF Nested, EmptyContext
<1> QED BY <1>1, <1>2, <1>3 DEF IInv

LEMMA SavedStays ==
  ASSUME SavedKnown, SavedIsTree, SameOrigins(spans, spans'), saved' = saved
  PROVE  SavedKnown' /\ SavedIsTree'
BY DEF SavedKnown, SavedIsTree, SameOrigins

LEMMA NestedStays ==
  ASSUME NEW u \in Tasks, Nested(u), SameOrigins(spans, spans'),
         ctx'[u].stack = ctx[u].stack, base'[u] = base[u], withs'[u] = withs[u],
         state'[u] = "idle" => state[u] = "idle"
  PROVE  Nested(u)'
BY DEF Nested, SameOrigins

LEMMA EnterIInv ==
  ASSUME IInv, NEW t \in Tasks, Enter(t)
  PROVE  IInv'
<1> DEFINE s == Len(spans) + 1
<1>1. PICK T \in TraceIds, span \in Span :
        /\ ctx[t].trace # NoTrace => T = ctx[t].trace
        /\ span.trace = T /\ span.parent = CurrentSpan(ctx[t])
        /\ span.root <=> ctx[t].trace = NoTrace
        /\ spans' = Append(spans, span)
        /\ ctx' = [ctx EXCEPT ![t] = Push([ctx[t] EXCEPT !.trace = T], s)]
        /\ withs' = [withs EXCEPT ![t] = Append(withs[t], s)]
  <2> DEFINE root == ctx[t].trace = NoTrace
  <2>1. PICK id \in ExplicitIds \cup {s} :
          LET T == IF root THEN id ELSE ctx[t].trace
          IN  /\ spans' = Append(spans,
                   [trace |-> T, parent |-> CurrentSpan(ctx[t]), root |-> root,
                    task |-> t, open |-> TRUE, status |-> "success", exc |-> "none"])
              /\ ctx' = [ctx EXCEPT ![t] = Push([ctx[t] EXCEPT !.trace = T], s)]
              /\ withs' = [withs EXCEPT ![t] = Append(withs[t], s)]
    BY DEF Enter
  <2> DEFINE T == IF root THEN id ELSE ctx[t].trace
             span == [trace |-> T, parent |-> CurrentSpan(ctx[t]), root |-> root,
                      task |-> t, open |-> TRUE, status |-> "success", exc |-> "none"]
  <2>2. ctx[t] \in Context /\ s \in SpanIds
    BY TracerAssumption, LenProperties DEF IInv, TypeOK, Enter, SpanIds
  <2>3. T \in TraceIds
    BY <2>2 DEF TraceIds, Context
  <2>4. CurrentSpan(ctx[t]) \in SpanIds \cup {NoSpan}
    <3>1. ctx[t].stack \in Seq(SpanIds)
      BY <2>2 DEF Context
    <3> QED BY <3>1, FrontAndLast DEF CurrentSpan
  <2>5. span \in Span
    BY <2>3, <2>4 DEF Span, Statuses, Raised
  <2> QED BY <2>1, <2>3, <2>5
<1>2. /\ spans \in Seq(Span) /\ Len(spans) \in Nat /\ s \in SpanIds /\ s <= MaxSpans
      /\ ctx \in [Tasks -> Context] /\ withs \in [Tasks -> Seq(SpanIds)]
      /\ base \in [Tasks -> Seq(SpanIds)]
      /\ UNCHANGED <<base, state, waiting, raised, saved>>
      /\ state[t] = "running"
  BY TracerAssumption, LenProperties DEF IInv, TypeOK, Enter, Active, SpanIds
<1>3. /\ spans' \in Seq(Span) /\ Len(spans') = s /\ spans'[s] = span
      /\ \A x \in 1..Len(spans) : spans'[x] = spans[x]
      /\ DOMAIN spans = 1..Len(spans) /\ DOMAIN spans' = 1..s
  BY <1>1, <1>2, AppendProperties, LenProperties
<1>4. SameOrigins(spans, spans')
  BY <1>2, <1>3 DEF SameOrigins
<1>5. /\ Push([ctx[t] EXCEPT !.trace = T], s) \in Context
      /\ Grown(Push([ctx[t] EXCEPT !.trace = T], s), spans')
  BY <1>1, <1>2, PushGrows DEF IInv
<1>6. \A u \in Tasks : Grown(ctx'[u], spans')
  BY <1>1, <1>2, <1>4, <1>5, GrownStays DEF IInv
<1>7. ASSUME NEW u \in Tasks PROVE Nested(u)'
  <2>1. CASE u # t
    BY <1>1, <1>2, <1>4, <2>1, NestedStays DEF IInv
  <2>2. CASE u = t
    <3>1. /\ withs'[t] = Append(withs[t], s) /\ base'[t] = base[t]
          /\ ctx'[t].stack = Append(ctx[t].stack, s)
      BY <1>1, <1>2 DEF Push, Context
    <3>2. ctx'[t].stack = base'[t] \o withs'[t]
      <4>1. ctx[t].stack = base[t] \o withs[t]
        BY DEF IInv, Nested
      <4>2. base[t] \in Seq(SpanIds) /\ withs[t] \in Seq(SpanIds) /\ s \in SpanIds
        BY <1>2
      <4>3. Append(base[t] \o withs[t], s) = base[t] \o Append(withs[t], s)
        BY <4>2, AppendToConcat
      <4> QED BY <3>1, <4>1, <4>3
    <3>3. /\ Len(withs[t]) \in Nat /\ DOMAIN withs[t] = 1..Len(withs[t])
          /\ DOMAIN Append(withs[t], s) = 1..(Len(withs[t]) + 1)
          /\ \A k \in 1..Len(withs[t]) : Append(withs[t], s)[k] = withs[t][k]
          /\ Append(withs[t], s)[Len(withs[t]) + 1] = s
      BY <1>2, AppendProperties, LenProperties
    <3>4. ASSUME NEW k \in DOMAIN withs'[t]
          PROVE  /\ withs'[t][k] \in DOMAIN spans'
                 /\ spans'[withs'[t][k]].root <=> k = 1 /\ base'[t] = <<>>
      <4>1. CASE k \in 1..Len(withs[t])
        <5>1. withs'[t][k] = withs[t][k] /\ k \in DOMAIN withs[t]
          BY <3>1, <3>3, <4>1
        <5>2. /\ withs[t][k] \in DOMAIN spans
              /\ spans[withs[t][k]].root <=> k = 1 /\ base[t] = <<>>
          BY <5>1 DEF IInv, Nested
        <5> QED BY <1>4, <3>1, <5>1, <5>2 DEF SameOrigins
      <4>2. CASE k = Len(withs[t]) + 1
        <5>1. withs'[t][k] = s /\ spans'[s] = span
          BY <1>3, <3>1, <3>3, <4>2
        <5>2. span.root <=> ctx[t].stack = <<>>
          BY <1>1 DEF IInv, Grown
        <5>3. ctx[t].stack = <<>> <=> base[t] = <<>> /\ withs[t] = <<>>
          BY <1>2, ConcatEqualIffEmpty DEF IInv, Nested
        <5>4. withs[t] = <<>> <=> k = 1
          BY <1>2, <3>3, <4>2, EmptySeq
        <5> QED BY <1>2, <1>3, <3>1, <5>1, <5>2, <5>3, <5>4
      <4> QED BY <3>1, <3>3, <4>1, <4>2
    <3> QED BY <1>2, <2>2, <3>2, <3>4 DEF Nested
  <2> QED BY <2>1, <2>2
<1>8. TypeOK'
  <2>1. ctx' \in [Tasks -> Context]
    BY <1>1, <1>2, <1>5
  <2>2. withs' \in [Tasks -> Seq(SpanIds)]
    BY <1>1, <1>2, AppendProperties
  <2>3. Len(spans') \in 0..MaxSpans
    BY <1>2, <1>3 DEF SpanIds
  <2> QED BY <1>2, <1>3, <2>1, <2>2, <2>3 DEF IInv, TypeOK
<1>9. SavedKnown' /\ SavedIsTree'
  BY <1>2, <1>4, SavedStays DEF IInv
<1> QED BY <1>6, <1>7, <1>8, <1>9 DEF IInv

Row == [span : SpanIds, parent : SpanIds \cup {NoSpan}, status : Statuses]

LEMMA SeqUpdated ==
  ASSUME NEW S, NEW q \in Seq(S), NEW i \in DOMAIN q, NEW e \in S
  PROVE  /\ [q EXCEPT ![i] = e] \in Seq(S)
         /\ Len([q EXCEPT ![i] = e]) = Len(q)
         /\ DOMAIN [q EXCEPT ![i] = e] = DOMAIN q
<1>1. i \in 1..Len(q) /\ Len(q) \in Nat
  BY LenProperties
<1> QED BY <1>1, ExceptSeq, LenProperties

LEMMA ClosedIsEnriched ==
  ASSUME NEW span \in Span, NEW exc \in Raised
  PROVE  /\ Closed(span, exc) \in Span
         /\ Closed(span, exc).trace = span.trace /\ Closed(span, exc).parent = span.parent
         /\ Closed(span, exc).root = span.root /\ Closed(span, exc).task = span.task
<1> DEFINE st == CASE exc = "timeout" -> "timeout"
                   [] exc = "error"   -> "failure"
                   [] OTHER           -> span.status
<1>1. st \in Statuses
  BY DEF Span, Statuses
<1>2. Closed(span, exc) = [span EXCEPT !.open = FALSE, !.exc = exc, !.status = st]
  BY DEF Closed, Span
<1> HIDE DEF st
<1> QED BY <1>1, <1>2 DEF Span

\* The record that Finalize writes: a tree of the context's trace.
LEMMA RecordIsTree ==
  ASSUME NEW c \in Context, NEW objects \in Seq(Span), Grown(c, objects),
         c.collected # <<>>
  PROVE  /\ objects[c.collected[1]].trace = c.trace
         /\ c.trace \in TraceIds
         /\ Record(objects, c.collected) \in Seq(Row)
         /\ \A i \in DOMAIN Record(objects, c.collected) :
              LET entries == Record(objects, c.collected) IN
              /\ entries[i].span \in DOMAIN objects
              /\ objects[entries[i].span].trace = c.trace
              /\ IF i = 1 THEN entries[i].parent = NoSpan
                 ELSE \E j \in 1..(i - 1) : entries[j].span = entries[i].parent
<1> DEFINE col == c.collected
           entries == Record(objects, col)
<1>1. col \in Seq(SpanIds) /\ Len(col) \in Nat \ {0} /\ DOMAIN col = 1..Len(col)
  BY EmptySeq, LenProperties DEF Context
<1>2. 1 \in DOMAIN col
  BY <1>1
<1>3. objects[col[1]].trace = c.trace /\ c.trace # NoTrace
  BY <1>2 DEF Grown
<1>4. entries = [i \in DOMAIN col |->
                [span |-> col[i], parent |-> objects[col[i]].parent,
                 status |-> objects[col[i]].status]]
  BY DEF Record
<1>5. ASSUME NEW i \in DOMAIN col
      PROVE  /\ entries[i] = [span |-> col[i], parent |-> objects[col[i]].parent,
                           status |-> objects[col[i]].status]
             /\ entries[i] \in Row
  <2>1. col[i] \in SpanIds
    BY <1>1, ElementOfSeq
  <2>2. objects[col[i]] \in Span
    <3>1. col[i] \in DOMAIN objects
      BY DEF Grown
    <3> QED BY <3>1, ElementOfSeq, LenProperties
  <2>3. entries[i] = [span |-> col[i], parent |-> objects[col[i]].parent,
                   status |-> objects[col[i]].status]
    BY <1>4
  <2> HIDE DEF entries, col
  <2> QED BY <2>1, <2>2, <2>3 DEF Row, Span
<1>6. entries \in Seq(Row)
  <2>1. DOMAIN entries = 1..Len(col) /\ \A i \in 1..Len(col) : entries[i] \in Row
    BY <1>1, <1>4, <1>5
  <2>2. entries \in [1..Len(col) -> Row]
    <3>1. entries = [i \in 1..Len(col) |-> entries[i]]
      BY <1>1, <1>4
    <3> HIDE DEF entries
    <3> QED BY <2>1, <3>1
  <2> HIDE DEF entries
  <2> QED BY <1>1, <2>2, SeqDef
<1>7. ASSUME NEW i \in DOMAIN entries
      PROVE  /\ entries[i].span \in DOMAIN objects
             /\ objects[entries[i].span].trace = c.trace
             /\ IF i = 1 THEN entries[i].parent = NoSpan
                ELSE \E j \in 1..(i - 1) : entries[j].span = entries[i].parent
  <2>1. i \in DOMAIN col
    BY <1>4
  <2>2. \A j \in DOMAIN col : entries[j].span = col[j] /\ entries[j].parent = objects[col[j]].parent
    BY <1>4
  <2>3. \A j \in 1..(i - 1) : entries[j].span = col[j]
    <3>1. \A j \in 1..(i - 1) : j \in DOMAIN col
      BY <1>1, <2>1
    <3> HIDE DEF entries, col
    <3> QED BY <2>2, <3>1
  <2> HIDE DEF entries
  <2> QED BY <2>1, <2>2, <2>3 DEF Grown
<1>8. c.trace \in TraceIds
  BY <1>3 DEF Context
<1> QED BY <1>3, <1>6, <1>7, <1>8

\* The record of a root span is written from the context before it is reset.
LEMMA ExitIInv ==
  ASSUME IInv, NEW t \in Tasks, Exit(t)
  PROVE  IInv'
<1> DEFINE w == withs[t]
           s == Last(w)
           objects == [spans EXCEPT ![s] = Closed(spans[s], raised[t])]
           c == Pop(ctx[t])
<1>1. /\ w \in Seq(SpanIds) /\ base[t] \in Seq(SpanIds) /\ ctx[t] \in Context
      /\ ctx \in [Tasks -> Context] /\ withs \in [Tasks -> Seq(SpanIds)]
      /\ spans \in Seq(Span) /\ raised[t] \in Raised
      /\ w # <<>>
      /\ spans' = objects /\ withs' = [withs EXCEPT ![t] = Front(w)]
      /\ UNCHANGED <<base, state, waiting, raised>>
      /\ state[t] = "running"
      /\ IF spans[s].root THEN Finalize(t, objects, c)
         ELSE ctx' = [ctx EXCEPT ![t] = c] /\ UNCHANGED saved
  BY DEF IInv, TypeOK, Exit, Active
<1>2. /\ Len(w) \in Nat \ {0} /\ DOMAIN w = 1..Len(w) /\ s = w[Len(w)]
      /\ Front(w) \in Seq(SpanIds) /\ Len(Front(w)) = Len(w) - 1
      /\ DOMAIN Front(w) = 1..(Len(w) - 1)
      /\ \A k \in 1..(Len(w) - 1) : Front(w)[k] = w[k]
  <2> HIDE DEF w
  <2>1. /\ Len(w) \in Nat \ {0}
        /\ Front(w) \in Seq(SpanIds) /\ Len(Front(w)) = Len(w) - 1
        /\ \A k \in 1..(Len(w) - 1) : Front(w)[k] = w[k]
        /\ s = w[Len(w)]
    BY <1>1, FrontAndLast
  <2> QED BY <1>1, <2>1, LenProperties
<1>3. s \in DOMAIN spans /\ (spans[s].root <=> Len(w) = 1 /\ base[t] = <<>>)
  <2>1. Len(w) \in DOMAIN w
    BY <1>2
  <2>2. w[Len(w)] \in DOMAIN spans /\ (spans[w[Len(w)]].root <=> Len(w) = 1 /\ base[t] = <<>>)
    BY <2>1 DEF IInv, Nested
  <2> QED BY <1>2, <2>2
<1>4. /\ objects \in Seq(Span) /\ Len(objects) = Len(spans)
      /\ SameOrigins(spans, objects)
  <2>1. spans[s] \in Span
    BY <1>1, <1>3, ElementOfSeq, LenProperties
  <2> DEFINE e == Closed(spans[s], raised[t])
  <2>2. /\ e \in Span /\ e.trace = spans[s].trace /\ e.parent = spans[s].parent
        /\ e.root = spans[s].root /\ e.task = spans[s].task
    BY <1>1, <2>1, ClosedIsEnriched
  <2> HIDE DEF e, s
  <2>3. /\ [spans EXCEPT ![s] = e] \in Seq(Span) /\ Len([spans EXCEPT ![s] = e]) = Len(spans)
        /\ DOMAIN [spans EXCEPT ![s] = e] = DOMAIN spans
    BY <1>1, <1>3, <2>2, SeqUpdated
  <2>4. SameOrigins(spans, [spans EXCEPT ![s] = e])
    BY <1>3, <2>2, <2>3 DEF SameOrigins
  <2> QED BY <2>3, <2>4 DEF e
<1> HIDE DEF s, objects
<1>5. /\ ctx[t].stack # <<>> /\ Front(ctx[t].stack) = base[t] \o Front(w)
      /\ base[t] \o Front(w) \in Seq(SpanIds)
  <2>1. ctx[t].stack = base[t] \o w
    BY DEF IInv, Nested
  <2>2. base[t] \o Front(w) \in Seq(SpanIds)
    BY <1>1, <1>2, ConcatProperties
  <2> QED BY <1>1, <2>1, <2>2, FrontOfConcat
<1>6. c \in Context /\ c.stack = base[t] \o Front(w) /\ c.collected = ctx[t].collected
      /\ c.trace = ctx[t].trace
  <2>1. c = [ctx[t] EXCEPT !.stack = base[t] \o Front(w)]
    BY <1>5 DEF Pop
  <2> QED BY <1>1, <1>5, <2>1 DEF Context
<1>7. Grown(ctx[t], objects)
  BY <1>4, GrownStays DEF IInv
<1> DEFINE Kept == /\ ctx' \in [Tasks -> Context]
                   /\ \A u \in Tasks \ {t} : ctx'[u] = ctx[u]
                   /\ ctx'[t].stack = base[t] \o Front(w)
                   /\ Grown(ctx'[t], objects)
           Stored == /\ saved' \in [TraceIds -> Seq(Row)]
                     /\ SavedKnown' /\ SavedIsTree'
<1>8. ASSUME saved' = saved PROVE Stored
  <2>1. saved \in [TraceIds -> Seq(Row)]
    BY DEF IInv, TypeOK, Row
  <2> QED BY <1>1, <1>4, <1>8, <2>1, SavedStays DEF IInv
<1>9. ASSUME NEW d \in Context, ctx' = [ctx EXCEPT ![t] = d],
             d.stack = base[t] \o Front(w), Grown(d, objects)
      PROVE  Kept
  <2>1. ctx'[t] = d /\ \A u \in Tasks \ {t} : ctx'[u] = ctx[u]
    BY <1>1, <1>9
  <2>2. ctx' \in [Tasks -> Context]
    BY <1>1, <1>9
  <2> HIDE DEF w
  <2> QED BY <1>9, <2>1, <2>2
<1>10. ASSUME ~spans[s].root PROVE Kept /\ Stored
  <2>1. ctx' = [ctx EXCEPT ![t] = c] /\ saved' = saved
    BY <1>1, <1>10
  <2>2. base[t] \o Front(w) # <<>>
    <3>1. Len(w) # 1 => Len(Front(w)) # 0
      BY <1>2
    <3>2. Front(w) # <<>> \/ base[t] # <<>>
      BY <1>3, <1>10, <3>1, EmptySeq
    <3> HIDE DEF w
    <3> QED BY <1>1, <1>2, <3>2, ConcatEqualIffEmpty
  <2>3. Grown(c, objects)
    BY <1>1, <1>5, <1>7, <2>2, PopGrows
  <2> HIDE DEF c, w, Kept, Stored
  <2> QED BY <1>6, <1>8, <1>9, <2>1, <2>3
<1>11. ASSUME spans[s].root PROVE Kept /\ Stored
  <2>1. ctx' = [ctx EXCEPT ![t] = EmptyContext]
    BY <1>1, <1>11 DEF Finalize, Reset
  <2>2. base[t] \o Front(w) = <<>>
    <3>1. Front(w) = <<>> /\ base[t] = <<>>
      BY <1>2, <1>3, <1>11, EmptySeq
    <3> QED BY <3>1, ConcatEmptySeq, EmptySeq
  <2>3. Kept
    <3>1. EmptyContext.stack = <<>>
      BY DEF EmptyContext
    <3> HIDE DEF w, Kept
    <3> QED BY <1>9, <2>1, <2>2, <3>1, EmptyGrows
  <2>4. CASE saved' = saved
    BY <1>8, <2>3, <2>4
  <2>5. CASE saved' # saved
    <3> DEFINE col == ctx[t].collected
               entries == Record(objects, col)
               T == ctx[t].trace
    <3>1. col # <<>> /\ saved' = [saved EXCEPT ![objects[col[1]].trace] = entries]
      BY <1>1, <1>6, <1>11, <2>5 DEF Finalize
    <3>2. /\ objects[col[1]].trace = T /\ T \in TraceIds /\ entries \in Seq(Row)
          /\ \A i \in DOMAIN entries :
               /\ entries[i].span \in DOMAIN objects
               /\ objects[entries[i].span].trace = T
               /\ IF i = 1 THEN entries[i].parent = NoSpan
                  ELSE \E j \in 1..(i - 1) : entries[j].span = entries[i].parent
      BY <1>1, <1>4, <1>7, <3>1, RecordIsTree
    <3>3. saved \in [TraceIds -> Seq(Row)] /\ saved' = [saved EXCEPT ![T] = entries]
      BY <3>1, <3>2 DEF IInv, TypeOK, Row
    <3> HIDE DEF entries, T
    <3>4. /\ saved'[T] = entries
          /\ \A U \in TraceIds \ {T} : saved'[U] = saved[U]
          /\ saved' \in [TraceIds -> Seq(Row)]
      BY <3>2, <3>3
    <3>5. SavedKnown'
      <4>1. ASSUME NEW U \in TraceIds, NEW i \in DOMAIN saved'[U]
            PROVE  saved'[U][i].span \in DOMAIN spans'
        <5>1. CASE U = T
          BY <1>1, <3>2, <3>4, <5>1
        <5>2. CASE U # T
          BY <1>1, <1>4, <3>4, <5>2 DEF IInv, SavedKnown, SameOrigins
        <5> QED BY <5>1, <5>2
      <4> QED BY <4>1 DEF SavedKnown
    <3>6. SavedIsTree'
      <4>1. ASSUME NEW U \in TraceIds, NEW i \in DOMAIN saved'[U]
            PROVE  /\ spans'[saved'[U][i].span].trace = U
                   /\ IF i = 1 THEN saved'[U][i].parent = NoSpan
                      ELSE \E j \in 1..(i - 1) : saved'[U][j].span = saved'[U][i].parent
        <5>1. CASE U = T
          BY <1>1, <3>2, <3>4, <5>1
        <5>2. CASE U # T
          <6>1. saved'[U] = saved[U] /\ i \in DOMAIN saved[U]
            BY <3>4, <5>2
          <6>2. /\ saved[U][i].span \in DOMAIN spans
                /\ spans[saved[U][i].span].trace = U
                /\ IF i = 1 THEN saved[U][i].parent = NoSpan
                   ELSE \E j \in 1..(i - 1) : saved[U][j].span = saved[U][i].parent
            BY <6>1 DEF IInv, SavedKnown, SavedIsTree
          <6> QED BY <1>1, <1>4, <6>1, <6>2 DEF SameOrigins
        <5> QED BY <5>1, <5>2
      <4> QED BY <4>1 DEF SavedIsTree
    <3> HIDE DEF Kept
    <3> QED BY <2>3, <3>4, <3>5, <3>6
  <2> HIDE DEF Kept, Stored
  <2> QED BY <2>4, <2>5
<1>12. Kept /\ Stored
  BY <1>10, <1>11
<1>13. ASSUME NEW u \in Tasks PROVE Nested(u)' /\ Grown(ctx'[u], spans')
  <2>1. CASE u # t
    <3>1. ctx'[u] = ctx[u] /\ base'[u] = base[u] /\ withs'[u] = withs[u] /\ state'[u] = state[u]
      BY <1>1, <1>12, <2>1
    <3>2. Nested(u)'
      BY <1>1, <1>4, <3>1, NestedStays DEF IInv
    <3>3. Grown(ctx'[u], spans')
      BY <1>1, <1>4, <3>1, GrownStays DEF IInv
    <3> QED BY <3>2, <3>3
  <2>2. CASE u = t
    <3>1. withs'[t] = Front(w) /\ base'[t] = base[t] /\ state'[t] = "running"
      BY <1>1
    <3>2. ASSUME NEW k \in DOMAIN withs'[t]
          PROVE  /\ withs'[t][k] \in DOMAIN spans'
                 /\ spans'[withs'[t][k]].root <=> k = 1 /\ base'[t] = <<>>
      <4>1. k \in DOMAIN withs[t] /\ withs'[t][k] = withs[t][k]
        BY <1>2, <3>1
      <4>2. /\ withs[t][k] \in DOMAIN spans
            /\ spans[withs[t][k]].root <=> k = 1 /\ base[t] = <<>>
        BY <4>1 DEF IInv, Nested
      <4> QED BY <1>1, <1>4, <3>1, <4>1, <4>2 DEF SameOrigins
    <3> QED BY <1>1, <1>12, <2>2, <3>1, <3>2 DEF Nested
  <2> QED BY <2>1, <2>2
<1>14. TypeOK'
  <2>1. withs' \in [Tasks -> Seq(SpanIds)]
    BY <1>1, <1>2
  <2>2. spans' \in Seq(Span) /\ Len(spans') \in 0..MaxSpans
    BY <1>1, <1>4 DEF IInv, TypeOK
  <2> QED BY <1>1, <1>12, <2>1, <2>2 DEF IInv, TypeOK, Row
<1> QED BY <1>12, <1>13, <1>14 DEF IInv

LEMMA EnrichIInv ==
  ASSUME IInv, NEW t \in Tasks, NEW st \in Statuses,
         CurrentSpan(ctx[t]) # NoSpan,
         spans' = [spans EXCEPT ![CurrentSpan(ctx[t])].status = st],
         UNCHANGED <<ctx, base, withs, state, waiting, raised, saved>>
  PROVE  IInv'
<1> DEFINE s == CurrentSpan(ctx[t])
           e == [spans[s] EXCEPT !.status = st]
<1>1. ctx[t] \in Context /\ ctx[t].stack \in Seq(SpanIds) /\ spans \in Seq(Span)
  BY DEF IInv, TypeOK, Context
<1>2. s \in DOMAIN spans
  <2>1. ctx[t].stack # <<>> /\ s = Last(ctx[t].stack)
    BY DEF CurrentSpan
  <2>2. Len(ctx[t].stack) \in DOMAIN ctx[t].stack /\ s = ctx[t].stack[Len(ctx[t].stack)]
    <3> DEFINE q == ctx[t].stack
    <3>1. q \in Seq(SpanIds) /\ q # <<>>
      BY <1>1, <2>1
    <3> HIDE DEF q
    <3>2. Len(q) \in Nat \ {0} /\ Last(q) = q[Len(q)] /\ DOMAIN q = 1..Len(q)
      BY <3>1, FrontAndLast, LenProperties
    <3> QED BY <2>1, <3>2 DEF q
  <2> HIDE DEF s
  <2> QED BY <2>2 DEF IInv, Grown
<1>3. e \in Span /\ spans' = [spans EXCEPT ![s] = e]
  <2>1. spans[s] \in Span
    BY <1>1, <1>2, ElementOfSeq, LenProperties
  <2> HIDE DEF s
  <2>2. e \in Span
    BY <2>1 DEF Span
  <2> QED BY <2>2 DEF s
<1>4. /\ spans' \in Seq(Span) /\ Len(spans') = Len(spans)
      /\ DOMAIN spans' = DOMAIN spans
  <2> HIDE DEF s, e
  <2>1. /\ [spans EXCEPT ![s] = e] \in Seq(Span)
        /\ Len([spans EXCEPT ![s] = e]) = Len(spans)
        /\ DOMAIN [spans EXCEPT ![s] = e] = DOMAIN spans
    BY <1>1, <1>2, <1>3, SeqUpdated
  <2> QED BY <1>3, <2>1
<1>5. SameOrigins(spans, spans')
  <2>1. /\ e.trace = spans[s].trace /\ e.parent = spans[s].parent
        /\ e.root = spans[s].root /\ e.task = spans[s].task
    <3>1. spans[s] \in Span
      BY <1>1, <1>2, ElementOfSeq, LenProperties
    <3> HIDE DEF s
    <3> QED BY <3>1 DEF Span
  <2> HIDE DEF s, e
  <2> QED BY <1>2, <1>3, <1>4, <2>1 DEF SameOrigins
<1> HIDE DEF s, e
<1>6. ASSUME NEW u \in Tasks PROVE Nested(u)' /\ Grown(ctx'[u], spans')
  BY <1>5, NestedStays, GrownStays DEF IInv
<1>7. SavedKnown' /\ SavedIsTree'
  BY <1>5, SavedStays DEF IInv
<1>8. TypeOK'
  BY <1>4 DEF IInv, TypeOK
<1> QED BY <1>6, <1>7, <1>8 DEF IInv

LEMMA BeginIInv ==
  ASSUME IInv, NEW C, C \subseteq Idle,
         NEW c \in Context, Grown(c, spans), Begin(C, c),
         waiting' \in [Tasks -> SUBSET Tasks]
  PROVE  IInv'
<1>1. /\ UNCHANGED <<spans, withs, raised, saved>>
      /\ ctx' = [u \in Tasks |-> IF u \in C THEN c ELSE ctx[u]]
      /\ base' = [u \in Tasks |-> IF u \in C THEN c.stack ELSE base[u]]
      /\ state' = [u \in Tasks |-> IF u \in C THEN "running" ELSE state[u]]
  BY DEF Begin
<1>2. SameOrigins(spans, spans')
  BY <1>1 DEF SameOrigins
<1>3. ASSUME NEW u \in Tasks PROVE Nested(u)' /\ Grown(ctx'[u], spans')
  <2>1. CASE u \in C
    <3>1. withs[u] = <<>> /\ withs'[u] = <<>>
      BY <1>1, <2>1 DEF IInv, Nested, Idle
    <3>2. ctx'[u] = c /\ base'[u] = c.stack /\ c.stack \in Seq(SpanIds)
      BY <1>1, <2>1 DEF Context
    <3>3. c.stack \o <<>> = c.stack
      BY <3>2, ConcatEmptySeq
    <3> QED BY <1>1, <3>1, <3>2, <3>3 DEF Nested
  <2>2. CASE u \notin C
    <3>1. ctx'[u] = ctx[u] /\ base'[u] = base[u] /\ state'[u] = state[u] /\ withs'[u] = withs[u]
      BY <1>1, <2>2
    <3> QED BY <1>1, <1>2, <3>1, NestedStays DEF IInv
  <2> QED BY <2>1, <2>2
<1>4. SavedKnown' /\ SavedIsTree'
  BY <1>1, <1>2, SavedStays DEF IInv
<1>5. TypeOK'
  <2>1. ctx' \in [Tasks -> Context] /\ base' \in [Tasks -> Seq(SpanIds)]
    BY <1>1 DEF IInv, TypeOK, Context
  <2>2. state' \in [Tasks -> {"idle", "running", "done"}]
    BY <1>1 DEF IInv, TypeOK
  <2> QED BY <1>1, <2>1, <2>2 DEF IInv, TypeOK
<1> QED BY <1>3, <1>4, <1>5 DEF IInv

\* What the host program does besides starting tasks leaves the SDK alone.
LEMMA HostIInv ==
  ASSUME IInv, UNCHANGED <<spans, ctx, base, withs, saved>>,
         state' \in [Tasks -> {"idle", "running", "done"}],
         \A u \in Tasks : state'[u] = "idle" => state[u] = "idle",
         waiting' \in [Tasks -> SUBSET Tasks], raised' \in [Tasks -> Raised]
  PROVE  IInv'
<1>1. SameOrigins(spans, spans')
  BY DEF SameOrigins
<1>2. ASSUME NEW u \in Tasks PROVE Nested(u)' /\ Grown(ctx'[u], spans')
  BY <1>1, NestedStays DEF IInv
<1>3. SavedKnown' /\ SavedIsTree'
  BY <1>1, SavedStays DEF IInv
<1>4. TypeOK'
  BY DEF IInv, TypeOK
<1> QED BY <1>2, <1>3, <1>4 DEF IInv

LEMMA NextIInv == IInv /\ [Next]_vars => IInv'
<1> SUFFICES ASSUME IInv, [Next]_vars PROVE IInv'
  OBVIOUS
<1>1. /\ state \in [Tasks -> {"idle", "running", "done"}]
      /\ waiting \in [Tasks -> SUBSET Tasks] /\ raised \in [Tasks -> Raised]
      /\ \A u \in Tasks : ctx[u] \in Context /\ Grown(ctx[u], spans)
  BY DEF IInv, TypeOK
<1>2. CASE UNCHANGED vars
  BY <1>1, <1>2, HostIInv DEF vars
<1>3. CASE Next
  <2> SUFFICES ASSUME NEW t \in Tasks,
                      \/ Enter(t) \/ Exit(t) \/ SetSpanStatus(t) \/ RecordRetry(t)
                      \/ Gather(t) \/ CreateTask(t) \/ StartThread(t)
                      \/ Resume(t) \/ Raise(t) \/ Catch(t) \/ Finish(t)
               PROVE  IInv'
    BY <1>3 DEF Next
  <2>1. CASE Enter(t)
    BY <2>1, EnterIInv
  <2>2. CASE Exit(t)
    BY <2>2, ExitIInv
  <2>3. CASE SetSpanStatus(t)
    <3>1. PICK st \in SetStatuses : spans' = [spans EXCEPT ![CurrentSpan(ctx[t])].status = st]
      BY <2>3 DEF SetSpanStatus
    <3>2. st \in Statuses
      BY TracerAssumption DEF Statuses
    <3> QED BY <2>3, <3>1, <3>2, EnrichIInv DEF SetSpanStatus
  <2>4. CASE RecordRetry(t)
    <3>1. "retry" \in Statuses
      BY DEF Statuses
    <3> QED BY <2>4, <3>1, EnrichIInv DEF RecordRetry
  <2>5. CASE Gather(t)
    <3>1. PICK C \in SUBSET Idle : Begin(C, ctx[t]) /\ waiting' = [waiting EXCEPT ![t] = C]
      BY <2>5 DEF Gather
    <3>2. waiting' \in [Tasks -> SUBSET Tasks]
      BY <1>1, <3>1 DEF Idle
    <3> QED BY <1>1, <3>1, <3>2, BeginIInv
  <2>6. CASE CreateTask(t)
    <3>1. PICK u \in Idle : Begin({u}, ctx[t])
      BY <2>6 DEF CreateTask
    <3>2. {u} \subseteq Idle /\ waiting' \in [Tasks -> SUBSET Tasks]
      BY <1>1, <2>6 DEF CreateTask
    <3> QED BY <1>1, <3>1, <3>2, BeginIInv
  <2>7. CASE StartThread(t)
    <3>1. PICK u \in Idle : Begin({u}, EmptyContext)
      BY <2>7 DEF StartThread
    <3>2. {u} \subseteq Idle /\ waiting' \in [Tasks -> SUBSET Tasks]
      BY <1>1, <2>7 DEF StartThread
    <3> QED BY <3>1, <3>2, BeginIInv, EmptyGrows
  <2>8. CASE Resume(t)
    <3>1. raised' \in [Tasks -> Raised]
      BY <1>1, <2>8 DEF Resume
    <3> QED BY <1>1, <2>8, <3>1, HostIInv DEF Resume
  <2>9. CASE Raise(t)
    <3>1. raised' \in [Tasks -> Raised]
      BY <1>1, <2>9 DEF Raise, Raised
    <3> QED BY <1>1, <2>9, <3>1, HostIInv DEF Raise
  <2>10. CASE Catch(t)
    <3>1. raised' \in [Tasks -> Raised]
      BY <1>1, <2>10 DEF Catch, Raised
    <3> QED BY <1>1, <2>10, <3>1, HostIInv DEF Catch
  <2>11. CASE Finish(t)
    <3>1. /\ state' \in [Tasks -> {"idle", "running", "done"}]
          /\ \A u \in Tasks : state'[u] = "idle" => state[u] = "idle"
      BY <1>1, <2>11 DEF Finish
    <3> QED BY <1>1, <2>11, <3>1, HostIInv DEF Finish
  <2> QED BY <2>1, <2>2, <2>3, <2>4, <2>5, <2>6, <2>7, <2>8, <2>9, <2>10, <2>11
<1> QED BY <1>2, <1>3

(* The inductive invariant holds in every behaviour of the SDK. *)
THEOREM IInvThm == Spec => []IInv
<1> QED BY InitIInv, NextIInv, PTL DEF Spec

-----------------------------------------------------------------------------
(* The state of the SDK keeps its types: every stack holds spans, every span *)
(* a parent that is a span or none, every stored row a status of StepStatus  *)
(* (sdk/context.py, sdk/tracer.py).                                          *)
THEOREM TypeCorrect == Spec => []TypeOK
<1>1. IInv => TypeOK
  BY DEF IInv
<1> QED BY <1>1, IInvThm, PTL

(* push_span() and pop_span() keep _ACTIVE_SPAN_STACK in step with the       *)
(* with-blocks of its task, for any number of tasks that copy each other's   *)
(* contexts and any exceptions.                                              *)
THEOREM StackMirrorsNestingThm == Spec => []StackMirrorsNesting
<1>1. IInv => StackMirrorsNesting
  BY DEF IInv, Nested, StackMirrorsNesting
<1> QED BY <1>1, IInvThm, PTL

(* _finalize_and_save() stores one tree of one trace: spans of the trace     *)
(* before never reach the record of the next, and no row is an orphan.       *)
THEOREM SavedIsTreeThm == Spec => []SavedIsTree
<1>1. IInv => SavedIsTree
  BY DEF IInv
<1> QED BY <1>1, IInvThm, PTL

-----------------------------------------------------------------------------
(* Nesting *)

\* What a task inherited is not its own; its own open spans are those of its
\* with-blocks, each the parent of the next.
Encloses(t) ==
  /\ \A i \in DOMAIN base[t] :
       base[t][i] \in DOMAIN spans /\ spans[base[t][i]].task # t
  /\ \A k \in DOMAIN withs[t] :
       /\ spans[withs[t][k]].open /\ spans[withs[t][k]].task = t
       /\ \A j \in DOMAIN withs[t] : withs[t][j] = withs[t][k] => j = k
       /\ LET p == spans[withs[t][k]].parent
          IN IF k = 1 THEN p = NoSpan \/ (p \in DOMAIN spans /\ spans[p].task # t)
             ELSE p = withs[t][k - 1]
  /\ \A s \in DOMAIN spans : spans[s].task = t =>
       /\ state[t] # "idle"
       /\ spans[s].open => \E k \in DOMAIN withs[t] : withs[t][k] = s

EInv == IInv /\ \A t \in Tasks : Encloses(t)

\* Encloses(u) outlives what leaves its with-blocks and open spans alone.
LEMMA EnclosesStays ==
  ASSUME NEW u \in Tasks, Nested(u), Encloses(u), SameOrigins(spans, spans'),
         \A s \in DOMAIN spans : spans[s].task = u => spans'[s].open = spans[s].open,
         \A s \in DOMAIN spans' : spans'[s].task = u => s \in DOMAIN spans,
         base'[u] = base[u], withs'[u] = withs[u],
         state'[u] = "idle" => state[u] = "idle"
  PROVE  Encloses(u)'
<1>1. \A i \in DOMAIN base'[u] :
        base'[u][i] \in DOMAIN spans' /\ spans'[base'[u][i]].task # u
  BY DEF Encloses, SameOrigins
<1>2. ASSUME NEW k \in DOMAIN withs'[u]
      PROVE  /\ spans'[withs'[u][k]].open /\ spans'[withs'[u][k]].task = u
             /\ \A j \in DOMAIN withs'[u] : withs'[u][j] = withs'[u][k] => j = k
             /\ LET p == spans'[withs'[u][k]].parent
                IN IF k = 1
                   THEN p = NoSpan \/ (p \in DOMAIN spans' /\ spans'[p].task # u)
                   ELSE p = withs'[u][k - 1]
  <2>1. withs[u][k] \in DOMAIN spans
    BY DEF Nested
  <2> QED BY <2>1 DEF Encloses, SameOrigins
<1>3. \A s \in DOMAIN spans' : spans'[s].task = u =>
        /\ state'[u] # "idle"
        /\ spans'[s].open => \E k \in DOMAIN withs'[u] : withs'[u][k] = s
  BY DEF Encloses, SameOrigins
<1> QED BY <1>1, <1>2, <1>3 DEF Encloses

LEMMA EnterEncloses ==
  ASSUME EInv, NEW t \in Tasks, Enter(t)
  PROVE  \A u \in Tasks : Encloses(u)'
<1> DEFINE s == Len(spans) + 1
           w == withs[t]
           p == CurrentSpan(ctx[t])
<1>1. PICK span :
        /\ spans' = Append(spans, span)
        /\ span.task = t /\ span.open = TRUE /\ span.parent = p
  BY DEF Enter
<1>2. /\ withs' = [withs EXCEPT ![t] = Append(w, s)]
      /\ UNCHANGED <<base, state>> /\ state[t] = "running"
      /\ spans \in Seq(Span) /\ withs \in [Tasks -> Seq(SpanIds)]
      /\ w \in Seq(SpanIds) /\ base[t] \in Seq(SpanIds) /\ IInv
  BY DEF EInv, IInv, TypeOK, Enter, Active
<1>3. /\ Len(spans) \in Nat /\ DOMAIN spans = 1..Len(spans) /\ DOMAIN spans' = 1..s
      /\ \A x \in DOMAIN spans : spans'[x] = spans[x]
      /\ spans'[s] = span
  <2>1. Len(spans) \in Nat /\ DOMAIN spans = 1..Len(spans)
    BY <1>2, LenProperties
  <2>2. DOMAIN Append(spans, span) = 1..s
    BY <2>1
  <2>3. /\ \A x \in 1..Len(spans) : Append(spans, span)[x] = spans[x]
        /\ Append(spans, span)[s] = span
    BY <2>1
  <2> QED BY <1>1, <2>1, <2>2, <2>3
<1>4. SameOrigins(spans, spans') /\ s \notin DOMAIN spans
      /\ \A x \in DOMAIN spans' : x \in DOMAIN spans \/ x = s
  BY <1>3 DEF SameOrigins
<1>5. ASSUME NEW u \in Tasks, u # t PROVE Encloses(u)'
  <2>1. withs'[u] = withs[u] /\ base'[u] = base[u] /\ state'[u] = state[u]
    BY <1>2, <1>5
  <2>2. \A x \in DOMAIN spans' : spans'[x].task = u => x \in DOMAIN spans
    BY <1>1, <1>3, <1>4, <1>5
  <2> QED BY <1>3, <1>4, <2>1, <2>2, EnclosesStays DEF EInv, IInv
<1>6. /\ Len(w) \in Nat /\ DOMAIN w = 1..Len(w)
      /\ DOMAIN withs'[t] = 1..(Len(w) + 1)
      /\ \A k \in DOMAIN w : withs'[t][k] = w[k]
      /\ withs'[t][Len(w) + 1] = s
  <2>1. Len(w) \in Nat /\ DOMAIN w = 1..Len(w)
    BY <1>2, LenProperties
  <2>2. withs'[t] = Append(w, s)
    BY <1>2
  <2> HIDE DEF w, s
  <2>3. /\ DOMAIN Append(w, s) = 1..(Len(w) + 1)
        /\ \A k \in 1..Len(w) : Append(w, s)[k] = w[k]
        /\ Append(w, s)[Len(w) + 1] = s
    BY <2>1
  <2> QED BY <2>1, <2>2, <2>3
<1>7. IF w = <<>> THEN p = NoSpan \/ (p \in DOMAIN spans /\ spans[p].task # t)
      ELSE p = w[Len(w)]
  <2>1. ctx[t].stack = base[t] \o w
    BY <1>2 DEF IInv, Nested
  <2>2. CASE w = <<>>
    <3>1. ctx[t].stack = base[t]
      BY <1>2, <2>1, <2>2, ConcatEmptySeq
    <3>2. CASE base[t] = <<>>
      BY <2>2, <3>1, <3>2 DEF CurrentSpan
    <3>3. CASE base[t] # <<>>
      <4>1. Len(base[t]) \in DOMAIN base[t] /\ p = base[t][Len(base[t])]
        <5> DEFINE q == base[t]
        <5>1. q \in Seq(SpanIds) /\ q # <<>> /\ p = Last(q)
          BY <1>2, <3>1, <3>3 DEF CurrentSpan
        <5> HIDE DEF q, p
        <5>2. Len(q) \in Nat \ {0} /\ Last(q) = q[Len(q)] /\ DOMAIN q = 1..Len(q)
          BY <5>1, FrontAndLast, LenProperties
        <5> QED BY <5>1, <5>2 DEF q
      <4> HIDE DEF p
      <4> QED BY <2>2, <4>1 DEF EInv, Encloses
    <3> QED BY <3>2, <3>3
  <2>3. CASE w # <<>>
    <3> HIDE DEF w
    <3>1. base[t] \o w # <<>> /\ Last(base[t] \o w) = Last(w)
      BY <1>2, <2>3, FrontOfConcat
    <3>2. Last(w) = w[Len(w)]
      BY <1>2, <2>3, FrontAndLast
    <3> QED BY <2>1, <2>3, <3>1, <3>2 DEF CurrentSpan
  <2> QED BY <2>2, <2>3
<1> HIDE DEF w, p
<1>8. ASSUME NEW k \in DOMAIN withs'[t]
      PROVE  /\ spans'[withs'[t][k]].open /\ spans'[withs'[t][k]].task = t
             /\ \A j \in DOMAIN withs'[t] : withs'[t][j] = withs'[t][k] => j = k
             /\ LET q == spans'[withs'[t][k]].parent
                IN IF k = 1
                   THEN q = NoSpan \/ (q \in DOMAIN spans' /\ spans'[q].task # t)
                   ELSE q = withs'[t][k - 1]
  <2>1. \A j \in DOMAIN w : w[j] \in DOMAIN spans
    BY <1>2 DEF IInv, Nested, w
  <2>2. CASE k \in DOMAIN w
    <3>1. /\ spans[w[k]].open /\ spans[w[k]].task = t
          /\ \A j \in DOMAIN w : w[j] = w[k] => j = k
          /\ IF k = 1 THEN \/ spans[w[k]].parent = NoSpan
                           \/ /\ spans[w[k]].parent \in DOMAIN spans
                              /\ spans[spans[w[k]].parent].task # t
             ELSE spans[w[k]].parent = w[k - 1]
      BY <2>2 DEF EInv, Encloses, w
    <3>2. withs'[t][k] = w[k] /\ spans'[w[k]] = spans[w[k]]
      BY <1>3, <1>6, <2>1, <2>2
    <3>3. \A j \in DOMAIN withs'[t] : withs'[t][j] = withs'[t][k] => j = k
      <4>1. \A j \in DOMAIN withs'[t] : j \in DOMAIN w \/ j = Len(w) + 1
        BY <1>6
      <4> QED BY <1>4, <1>6, <2>1, <2>2, <3>1, <3>2, <4>1
    <3>4. k # 1 => withs'[t][k - 1] = w[k - 1]
      BY <1>6, <2>2
    <3>5. \A q \in DOMAIN spans : q \in DOMAIN spans' /\ spans'[q] = spans[q]
      BY <1>3
    <3> QED BY <3>1, <3>2, <3>3, <3>4, <3>5
  <2>3. CASE k = Len(w) + 1
    <3>1. withs'[t][k] = s /\ spans'[s] = span
      BY <1>3, <1>6, <2>3
    <3>2. \A j \in DOMAIN withs'[t] : withs'[t][j] = s => j = k
      <4>1. \A j \in DOMAIN withs'[t] : j \in DOMAIN w \/ j = Len(w) + 1
        BY <1>6
      <4> QED BY <1>4, <1>6, <2>1, <2>3, <4>1
    <3>3. CASE k = 1
      <4>1. Len(w) = 0 /\ w = <<>>
        BY <1>2, <1>6, <2>3, <3>3, EmptySeq DEF w
      <4>2. \A q \in DOMAIN spans : q \in DOMAIN spans' /\ spans'[q] = spans[q]
        BY <1>3
      <4> QED BY <1>1, <1>7, <3>1, <3>2, <3>3, <4>1, <4>2
    <3>4. CASE k # 1
      <4>1. k - 1 = Len(w) /\ Len(w) \in DOMAIN w /\ w # <<>>
        BY <1>6, <2>3, <3>4, EmptySeq
      <4>2. withs'[t][k - 1] = w[Len(w)]
        BY <1>6, <4>1
      <4> QED BY <1>1, <1>7, <3>1, <3>2, <3>4, <4>1, <4>2
    <3> QED BY <3>3, <3>4
  <2> QED BY <1>6, <2>2, <2>3
<1>9. \A i \in DOMAIN base'[t] :
        base'[t][i] \in DOMAIN spans' /\ spans'[base'[t][i]].task # t
  <2>1. \A i \in DOMAIN base[t] :
          base[t][i] \in DOMAIN spans /\ spans[base[t][i]].task # t
    BY DEF EInv, Encloses
  <2>2. \A x \in DOMAIN spans : x \in DOMAIN spans' /\ spans'[x] = spans[x]
    BY <1>3
  <2> QED BY <1>2, <2>1, <2>2
<1>10. ASSUME NEW x \in DOMAIN spans', spans'[x].task = t
       PROVE  /\ state'[t] # "idle"
              /\ spans'[x].open => \E k \in DOMAIN withs'[t] : withs'[t][k] = x
  <2>1. CASE x = s
    <3>1. Len(w) + 1 \in DOMAIN withs'[t]
      BY <1>6
    <3> QED BY <1>2, <1>6, <2>1, <3>1
  <2>2. CASE x \in DOMAIN spans
    <3>1. spans[x].open => \E k \in DOMAIN w : w[k] = x
      BY <1>3, <1>10, <2>2 DEF EInv, Encloses, w
    <3>2. \A k \in DOMAIN w : k \in DOMAIN withs'[t] /\ withs'[t][k] = w[k]
      BY <1>6
    <3> QED BY <1>2, <1>3, <2>2, <3>1, <3>2
  <2> QED BY <1>4, <2>1, <2>2
<1>11. Encloses(t)'
  BY <1>8, <1>9, <1>10 DEF Encloses
<1> QED BY <1>5, <1>11

LEMMA ExitEncloses ==
  ASSUME EInv, NEW t \in Tasks, Exit(t)
  PROVE  \A u \in Tasks : Encloses(u)'
<1> DEFINE w == withs[t]
           s == Last(w)
           e == Closed(spans[s], raised[t])
<1>1. /\ w \in Seq(SpanIds) /\ w # <<>> /\ withs \in [Tasks -> Seq(SpanIds)]
      /\ spans \in Seq(Span) /\ raised[t] \in Raised
      /\ spans' = [spans EXCEPT ![s] = e] /\ withs' = [withs EXCEPT ![t] = Front(w)]
      /\ UNCHANGED <<base, state>> /\ state[t] = "running" /\ IInv
  BY DEF EInv, IInv, TypeOK, Exit, Active
<1>2. /\ Len(w) \in Nat \ {0} /\ DOMAIN w = 1..Len(w) /\ s = w[Len(w)]
      /\ DOMAIN Front(w) = 1..(Len(w) - 1)
      /\ \A k \in 1..(Len(w) - 1) : Front(w)[k] = w[k]
  <2> HIDE DEF w
  <2>1. /\ Len(w) \in Nat \ {0} /\ s = w[Len(w)]
        /\ Front(w) \in Seq(SpanIds) /\ Len(Front(w)) = Len(w) - 1
        /\ \A k \in 1..(Len(w) - 1) : Front(w)[k] = w[k]
    BY <1>1, FrontAndLast
  <2> QED BY <1>1, <2>1, LenProperties
<1>3. /\ s \in DOMAIN spans /\ spans[s].task = t
      /\ \A k \in DOMAIN w : w[k] \in DOMAIN spans /\ (k # Len(w) => w[k] # s)
  <2>1. Len(w) \in DOMAIN w
    BY <1>2
  <2>2. \A k \in DOMAIN w : w[k] \in DOMAIN spans
    BY <1>1 DEF IInv, Nested
  <2>3. /\ spans[w[Len(w)]].task = t
        /\ \A k \in DOMAIN w : w[k] = w[Len(w)] => k = Len(w)
    BY <2>1 DEF EInv, Encloses
  <2> QED BY <1>2, <2>1, <2>2, <2>3
<1>4. /\ e.open = FALSE /\ e.trace = spans[s].trace /\ e.parent = spans[s].parent
      /\ e.root = spans[s].root /\ e.task = spans[s].task
  <2>1. spans[s] \in Span
    BY <1>1, <1>3, ElementOfSeq, LenProperties
  <2> HIDE DEF s
  <2>2. e.open = FALSE
    BY <2>1 DEF Closed, Span
  <2> QED BY <1>1, <2>1, <2>2, ClosedIsEnriched
<1> HIDE DEF e, s, w
<1>5. /\ DOMAIN spans' = DOMAIN spans /\ spans'[s] = e
      /\ \A x \in DOMAIN spans \ {s} : spans'[x] = spans[x]
  BY <1>1, <1>3
<1>6. SameOrigins(spans, spans')
  BY <1>4, <1>5 DEF SameOrigins
<1>7. ASSUME NEW u \in Tasks, u # t PROVE Encloses(u)'
  <2>1. withs'[u] = withs[u] /\ base'[u] = base[u] /\ state'[u] = state[u]
    BY <1>1, <1>7
  <2>2. \A x \in DOMAIN spans : spans[x].task = u => spans'[x].open = spans[x].open
    BY <1>3, <1>5, <1>7
  <2> QED BY <1>1, <1>5, <1>6, <2>1, <2>2, EnclosesStays DEF EInv, IInv, SameOrigins
<1>8. \A k \in DOMAIN withs'[t] :
        k \in DOMAIN w /\ k # Len(w) /\ withs'[t][k] = w[k] /\ (k # 1 => k - 1 \in DOMAIN withs'[t])
  BY <1>1, <1>2
<1>9. ASSUME NEW k \in DOMAIN withs'[t]
      PROVE  /\ spans'[withs'[t][k]].open /\ spans'[withs'[t][k]].task = t
             /\ \A j \in DOMAIN withs'[t] : withs'[t][j] = withs'[t][k] => j = k
             /\ LET q == spans'[withs'[t][k]].parent
                IN IF k = 1
                   THEN q = NoSpan \/ (q \in DOMAIN spans' /\ spans'[q].task # t)
                   ELSE q = withs'[t][k - 1]
  <2>1. /\ k \in DOMAIN w /\ withs'[t][k] = w[k] /\ w[k] \in DOMAIN spans \ {s}
        /\ k # 1 => withs'[t][k - 1] = w[k - 1]
    BY <1>3, <1>8
  <2>2. /\ spans[w[k]].open /\ spans[w[k]].task = t
        /\ \A j \in DOMAIN w : w[j] = w[k] => j = k
        /\ IF k = 1 THEN \/ spans[w[k]].parent = NoSpan
                         \/ /\ spans[w[k]].parent \in DOMAIN spans
                            /\ spans[spans[w[k]].parent].task # t
           ELSE spans[w[k]].parent = w[k - 1]
    BY <2>1 DEF EInv, Encloses, w
  <2>3. spans'[w[k]] = spans[w[k]]
    BY <1>5, <2>1
  <2>4. \A j \in DOMAIN withs'[t] : withs'[t][j] = withs'[t][k] => j = k
    BY <1>8, <2>1, <2>2
  <2>5. \A q \in DOMAIN spans : q \in DOMAIN spans' /\ spans'[q].task = spans[q].task
    BY <1>6 DEF SameOrigins
  <2> QED BY <2>1, <2>2, <2>3, <2>4, <2>5
<1>10. \A i \in DOMAIN base'[t] :
         base'[t][i] \in DOMAIN spans' /\ spans'[base'[t][i]].task # t
  BY <1>1, <1>6 DEF EInv, Encloses, SameOrigins
<1>11. ASSUME NEW x \in DOMAIN spans', spans'[x].task = t
       PROVE  /\ state'[t] # "idle"
              /\ spans'[x].open => \E k \in DOMAIN withs'[t] : withs'[t][k] = x
  <2>1. CASE x = s
    BY <1>1, <1>4, <1>5, <2>1
  <2>2. CASE x # s
    <3>1. spans'[x] = spans[x] /\ x \in DOMAIN spans
      BY <1>5, <2>2
    <3>2. spans[x].open => \E k \in DOMAIN w : w[k] = x
      BY <1>11, <3>1 DEF EInv, Encloses, w
    <3>3. \A k \in DOMAIN w : w[k] = x => k \in DOMAIN withs'[t] /\ withs'[t][k] = x
      BY <1>1, <1>2, <2>2
    <3> QED BY <1>1, <3>1, <3>2, <3>3
  <2> QED BY <2>1, <2>2
<1>12. Encloses(t)'
  BY <1>9, <1>10, <1>11 DEF Encloses
<1> QED BY <1>7, <1>12

\* A task that is created inherits spans of others only: it has none yet.
LEMMA BeginEncloses ==
  ASSUME EInv, NEW C, C \subseteq Idle, NEW c, Begin(C, c),
         \A i \in DOMAIN c.stack : c.stack[i] \in DOMAIN spans
  PROVE  \A u \in Tasks : Encloses(u)'
<1>1. /\ UNCHANGED <<spans, withs>>
      /\ \A u \in Tasks : /\ base'[u] = IF u \in C THEN c.stack ELSE base[u]
                          /\ state'[u] = IF u \in C THEN "running" ELSE state[u]
  BY DEF Begin
<1>2. SameOrigins(spans, spans')
  BY <1>1 DEF SameOrigins
<1>3. ASSUME NEW u \in Tasks, u \in C PROVE Encloses(u)'
  <2>1. state[u] = "idle"
    BY <1>3 DEF Idle
  <2>2. \A x \in DOMAIN spans : spans[x].task # u
    BY <2>1 DEF EInv, Encloses
  <2>3. withs[u] = <<>>
    BY <2>1 DEF EInv, IInv, Nested
  <2> QED BY <1>1, <1>3, <2>2, <2>3 DEF Encloses
<1>4. ASSUME NEW u \in Tasks, u \notin C PROVE Encloses(u)'
  BY <1>1, <1>2, <1>4, EnclosesStays DEF EInv, IInv
<1> QED BY <1>3, <1>4

LEMMA NextEInv == EInv /\ [Next]_vars => EInv'
<1> SUFFICES ASSUME EInv, [Next]_vars PROVE EInv'
  OBVIOUS
<1>1. IInv'
  BY NextIInv DEF EInv
<1>2. ASSUME UNCHANGED <<base, withs>>, SameOrigins(spans, spans'),
             DOMAIN spans' = DOMAIN spans,
             \A s \in DOMAIN spans : spans'[s].open = spans[s].open,
             \A u \in Tasks : state'[u] = "idle" => state[u] = "idle"
      PROVE  \A u \in Tasks : Encloses(u)'
  BY <1>2, EnclosesStays DEF EInv, IInv
<1>3. ASSUME UNCHANGED <<spans, base, withs>>,
             \A u \in Tasks : state'[u] = "idle" => state[u] = "idle"
      PROVE  \A u \in Tasks : Encloses(u)'
  BY <1>2, <1>3 DEF SameOrigins
<1>4. CASE UNCHANGED vars
  BY <1>1, <1>3, <1>4 DEF vars, EInv
<1>5. CASE Next
  <2> SUFFICES ASSUME NEW t \in Tasks,
                      \/ Enter(t) \/ Exit(t) \/ SetSpanStatus(t) \/ RecordRetry(t)
                      \/ Gather(t) \/ CreateTask(t) \/ StartThread(t)
                      \/ Resume(t) \/ Raise(t) \/ Catch(t) \/ Finish(t)
               PROVE  \A u \in Tasks : Encloses(u)'
    BY <1>1, <1>5 DEF Next, EInv
  <2>1. \A i \in DOMAIN ctx[t].stack : ctx[t].stack[i] \in DOMAIN spans
    BY DEF EInv, IInv, Grown
  <2>2. CASE Enter(t)
    BY <2>2, EnterEncloses
  <2>3. CASE Exit(t)
    BY <2>3, ExitEncloses
  <2>4. ASSUME NEW s, NEW st, spans' = [spans EXCEPT ![s].status = st],
               UNCHANGED <<base, withs, state>>
        PROVE  \A u \in Tasks : Encloses(u)'
    <3>1. DOMAIN spans' = DOMAIN spans
      BY <2>4
    <3>2. ASSUME NEW x \in DOMAIN spans
          PROVE  /\ spans'[x].open = spans[x].open
                 /\ spans'[x].trace = spans[x].trace /\ spans'[x].parent = spans[x].parent
                 /\ spans'[x].root = spans[x].root /\ spans'[x].task = spans[x].task
      <4>1. spans[x] \in Span
        BY ElementOfSeq, LenProperties DEF EInv, IInv, TypeOK
      <4>2. spans'[x] = spans[x] \/ spans'[x] = [spans[x] EXCEPT !.status = st]
        BY <2>4
      <4> QED BY <4>1, <4>2 DEF Span
    <3> QED BY <1>2, <2>4, <3>1, <3>2 DEF SameOrigins
  <2>5. CASE SetSpanStatus(t)
    BY <2>4, <2>5 DEF SetSpanStatus
  <2>6. CASE RecordRetry(t)
    BY <2>4, <2>6 DEF RecordRetry
  <2>7. CASE Gather(t)
    BY <2>1, <2>7, BeginEncloses DEF Gather
  <2>8. CASE CreateTask(t)
    <3>1. PICK u \in Idle : Begin({u}, ctx[t])
      BY <2>8 DEF CreateTask
    <3> QED BY <2>1, <3>1, BeginEncloses
  <2>9. CASE StartThread(t)
    <3>1. PICK u \in Idle : Begin({u}, EmptyContext)
      BY <2>9 DEF StartThread
    <3>2. \A i \in DOMAIN EmptyContext.stack : EmptyContext.stack[i] \in DOMAIN spans
      BY DEF EmptyContext
    <3> QED BY <3>1, <3>2, BeginEncloses
  <2>10. CASE Resume(t) \/ Raise(t) \/ Catch(t)
    BY <1>3, <2>10 DEF Resume, Raise, Catch
  <2>11. CASE Finish(t)
    <3>1. \A u \in Tasks : state'[u] = "idle" => state[u] = "idle"
      BY <2>11 DEF Finish, EInv, IInv, TypeOK
    <3> QED BY <1>3, <2>11, <3>1 DEF Finish
  <2> QED BY <2>2, <2>3, <2>5, <2>6, <2>7, <2>8, <2>9, <2>10, <2>11
<1> QED BY <1>4, <1>5

LEMMA EInvEncloses == EInv => OwnParentEncloses
<1> SUFFICES ASSUME EInv, NEW s \in DOMAIN spans, spans[s].open,
                    spans[s].parent # NoSpan,
                    spans[spans[s].parent].task = spans[s].task
             PROVE  spans[spans[s].parent].open
  BY DEF OwnParentEncloses
<1> DEFINE t == spans[s].task
<1>1. t \in Tasks
  <2>1. spans[s] \in Span
    BY ElementOfSeq, LenProperties DEF EInv, IInv, TypeOK
  <2> QED BY <2>1 DEF Span
<1>2. PICK k \in DOMAIN withs[t] : withs[t][k] = s
  BY <1>1 DEF EInv, Encloses
<1>3. k # 1 /\ spans[s].parent = withs[t][k - 1]
  BY <1>1, <1>2 DEF EInv, Encloses
<1>4. k - 1 \in DOMAIN withs[t]
  <2>1. withs[t] \in Seq(SpanIds)
    BY <1>1 DEF EInv, IInv, TypeOK
  <2>2. Len(withs[t]) \in Nat /\ DOMAIN withs[t] = 1..Len(withs[t])
    BY <2>1, LenProperties
  <2> QED BY <1>2, <1>3, <2>2
<1> QED BY <1>1, <1>3, <1>4 DEF EInv, Encloses

(* Spans of one task nest: the parent that a task's own span was given by    *)
(* get_current_span() is open for as long as the span is, whatever other     *)
(* tasks inherit of both.                                                    *)
THEOREM OwnParentEnclosesThm == Spec => []OwnParentEncloses
<1>1. Init => EInv
  <2> SUFFICES ASSUME Init PROVE EInv
    OBVIOUS
  <2>1. ASSUME NEW t \in Tasks PROVE Encloses(t)
    BY DEF Init, Encloses
  <2> QED BY <2>1, InitIInv DEF EInv
<1> QED BY <1>1, NextEInv, EInvEncloses, PTL DEF Spec

-----------------------------------------------------------------------------
(* Failures *)

Inherited == UNION {ToSet(base[t]) : t \in Tasks}

\* A task that inherited nothing has collected its own spans only.
Owns(t) ==
  /\ state[t] = "idle" => base[t] = <<>>
  /\ base[t] = <<>> => \A i \in DOMAIN ctx[t].collected : spans[ctx[t].collected[i]].task = t

\* A span that ended with an exception says so, unless it is inherited; and only
\* spans that ended are stored.
Judged ==
  /\ \A s \in DOMAIN spans : spans[s].exc # "none" =>
       ~spans[s].open /\ (s \notin Inherited => spans[s].status \in {"failure", "timeout"})
  /\ \A T \in TraceIds : \A i \in DOMAIN saved[T] : ~spans[saved[T][i].span].open

FInv == EInv /\ Judged /\ FailuresReachTheRecord /\ \A t \in Tasks : Owns(t)

\* What a record says of its failures stands while spans that ended keep their verdict.
LEMMA VerdictsStay ==
  ASSUME FInv, saved' = saved, Inherited \subseteq Inherited',
         DOMAIN spans \subseteq DOMAIN spans',
         \A s \in DOMAIN spans' : s \notin DOMAIN spans => spans'[s].exc = "none",
         \A s \in DOMAIN spans : ~spans[s].open =>
           ~spans'[s].open /\ spans'[s].exc = spans[s].exc,
         \A s \in DOMAIN spans : spans'[s].exc # "none" =>
           /\ ~spans'[s].open
           /\ s \notin Inherited' => spans'[s].status \in {"failure", "timeout"}
  PROVE  Judged' /\ FailuresReachTheRecord'
<1>1. ASSUME NEW T \in TraceIds, NEW i \in DOMAIN saved[T]
      PROVE  LET s == saved[T][i].span
             IN  s \in DOMAIN spans /\ ~spans[s].open /\ ~spans'[s].open
                 /\ spans'[s].exc = spans[s].exc
  BY DEF FInv, EInv, IInv, SavedKnown, Judged
<1>2. Judged'
  BY <1>1 DEF Judged
<1>3. \A s : (\A t \in Tasks : s \notin ToSet(base'[t])) => \A t \in Tasks : s \notin ToSet(base[t])
  BY DEF Inherited
<1>4. FailuresReachTheRecord'
  BY <1>1, <1>3 DEF FInv, FailuresReachTheRecord
<1> QED BY <1>2, <1>4

LEMMA EnterFInv ==
  ASSUME FInv, NEW t \in Tasks, Enter(t)
  PROVE  (Judged /\ FailuresReachTheRecord)' /\ \A u \in Tasks : Owns(u)'
<1> DEFINE s == Len(spans) + 1
<1>1. PICK T, span :
        /\ spans' = Append(spans, span) /\ span.task = t /\ span.exc = "none"
        /\ ctx' = [ctx EXCEPT ![t] = Push([ctx[t] EXCEPT !.trace = T], s)]
  BY DEF Enter
<1>2. /\ UNCHANGED <<base, state, saved>>
      /\ ctx \in [Tasks -> Context] /\ ctx[t] \in Context /\ ctx[t].collected \in Seq(SpanIds)
      /\ \A u \in Tasks : Grown(ctx[u], spans)
      /\ spans \in Seq(Span) /\ Len(spans) \in Nat /\ DOMAIN spans = 1..Len(spans)
  BY LenProperties DEF FInv, EInv, IInv, TypeOK, Context, Enter
<1>3. /\ DOMAIN spans' = 1..s /\ spans'[s] = span
      /\ \A x \in DOMAIN spans : spans'[x] = spans[x]
  <2>1. DOMAIN Append(spans, span) = 1..s
    BY <1>2
  <2>2. /\ \A x \in 1..Len(spans) : Append(spans, span)[x] = spans[x]
        /\ Append(spans, span)[s] = span
    BY <1>2
  <2> QED BY <1>1, <1>2, <2>1, <2>2
<1>4. Judged' /\ FailuresReachTheRecord'
  <2>1. Inherited' = Inherited
    BY <1>2 DEF Inherited
  <2>2. \A x \in DOMAIN spans' : x \in DOMAIN spans \/ x = s
    BY <1>2, <1>3
  <2>3. \A x \in DOMAIN spans : spans[x].exc # "none" =>
          /\ ~spans[x].open
          /\ x \notin Inherited => spans[x].status \in {"failure", "timeout"}
    BY DEF FInv, Judged
  <2>4. DOMAIN spans \subseteq DOMAIN spans'
    BY <1>2, <1>3
  <2> HIDE DEF s
  <2> QED BY <1>1, <1>2, <1>3, <2>1, <2>2, <2>3, <2>4, VerdictsStay
<1>5. ASSUME NEW u \in Tasks PROVE Owns(u)'
  <2>1. CASE u # t
    <3>1. ctx'[u] = ctx[u] /\ base'[u] = base[u] /\ state'[u] = state[u]
      BY <1>1, <1>2, <2>1
    <3>2. \A i \in DOMAIN ctx[u].collected : ctx[u].collected[i] \in DOMAIN spans
      BY <1>2 DEF Grown
    <3> QED BY <1>3, <3>1, <3>2 DEF FInv, Owns
  <2>2. CASE u = t
    <3> DEFINE col == ctx[t].collected
    <3>1. ctx'[t].collected = Append(col, s)
      BY <1>1, <1>2 DEF Push, Context
    <3>2. Len(col) \in Nat /\ DOMAIN col = 1..Len(col)
      BY <1>2, LenProperties
    <3>3. /\ DOMAIN Append(col, s) = 1..(Len(col) + 1)
          /\ \A i \in 1..Len(col) : Append(col, s)[i] = col[i]
          /\ Append(col, s)[Len(col) + 1] = s
      <4> HIDE DEF col, s
      <4> QED BY <3>2
    <3>4. \A i \in DOMAIN col : col[i] \in DOMAIN spans
      BY <1>2 DEF Grown
    <3>5. base[t] = <<>> => \A i \in DOMAIN col : spans[col[i]].task = t
      BY DEF FInv, Owns
    <3>6. ASSUME base[t] = <<>>, NEW i \in DOMAIN ctx'[t].collected
          PROVE  spans'[ctx'[t].collected[i]].task = t
      <4>1. i \in DOMAIN col \/ i = Len(col) + 1
        BY <3>1, <3>2, <3>3
      <4> HIDE DEF col, s
      <4>2. CASE i \in DOMAIN col
        BY <1>3, <3>1, <3>2, <3>3, <3>4, <3>5, <3>6, <4>2
      <4>3. CASE i = Len(col) + 1
        BY <1>1, <1>3, <3>1, <3>3, <4>3
      <4> QED BY <4>1, <4>2, <4>3
    <3> QED BY <1>2, <2>2, <3>6 DEF FInv, Owns
  <2> QED BY <2>1, <2>2
<1> QED BY <1>4, <1>5

LEMMA ExitFInv ==
  ASSUME FInv, NEW t \in Tasks, Exit(t)
  PROVE  (Judged /\ FailuresReachTheRecord)' /\ \A u \in Tasks : Owns(u)'
<1> DEFINE w == withs[t]
           s == Last(w)
           e == Closed(spans[s], raised[t])
           col == ctx[t].collected
<1>1. /\ w \in Seq(SpanIds) /\ w # <<>> /\ raised[t] \in Raised
      /\ spans \in Seq(Span) /\ spans' = [spans EXCEPT ![s] = e]
      /\ UNCHANGED <<base, state>>
      /\ ctx \in [Tasks -> Context] /\ ctx[t] \in Context
      /\ saved \in [TraceIds -> Seq(Row)]
      /\ Grown(ctx[t], spans)
      /\ IF spans[s].root THEN Finalize(t, spans', Pop(ctx[t]))
         ELSE ctx' = [ctx EXCEPT ![t] = Pop(ctx[t])] /\ UNCHANGED saved
  BY DEF FInv, EInv, IInv, TypeOK, Row, Exit
<1>2. Len(w) \in Nat \ {0} /\ DOMAIN w = 1..Len(w) /\ s = w[Len(w)]
  <2> HIDE DEF w
  <2>1. Len(w) \in Nat \ {0} /\ s = w[Len(w)]
    BY <1>1, FrontAndLast
  <2> QED BY <1>1, <2>1, LenProperties
<1>3. /\ s \in DOMAIN spans /\ spans[s].open
      /\ spans[s].root => Len(w) = 1 /\ base[t] = <<>>
  <2>1. Len(w) \in DOMAIN w
    BY <1>2
  <2>2. /\ w[Len(w)] \in DOMAIN spans
        /\ spans[w[Len(w)]].root => Len(w) = 1 /\ base[t] = <<>>
    BY <2>1 DEF FInv, EInv, IInv, Nested
  <2>3. spans[w[Len(w)]].open
    BY <2>1 DEF FInv, EInv, Encloses
  <2> QED BY <1>2, <2>2, <2>3
<1>4. /\ ~e.open /\ e.task = spans[s].task /\ e.parent = spans[s].parent
      /\ e.exc # "none" => e.status \in {"failure", "timeout"}
      /\ e.trace = spans[s].trace /\ e.root = spans[s].root
  <2>1. spans[s] \in Span
    BY <1>1, <1>3, ElementOfSeq, LenProperties
  <2>2. raised[t] \in {"none", "timeout", "error"}
    BY <1>1, TracerAssumption DEF Raised
  <2> DEFINE x == spans[s]
             st == CASE raised[t] = "timeout" -> "timeout"
                     [] raised[t] = "error"   -> "failure"
                     [] OTHER                 -> x.status
  <2> HIDE DEF s, x
  <2>3. e = [x EXCEPT !.open = FALSE, !.exc = raised[t], !.status = st] /\ x \in Span
    BY <2>1 DEF Closed, Span, x
  <2>4. raised[t] # "none" => st \in {"failure", "timeout"}
    BY <2>2
  <2> HIDE DEF st, e
  <2> QED BY <2>3, <2>4 DEF Span, x
<1> HIDE DEF e, s, w
<1>5. /\ DOMAIN spans' = DOMAIN spans /\ spans'[s] = e
      /\ \A x \in DOMAIN spans : x # s => spans'[x] = spans[x]
      /\ \A x \in DOMAIN spans : spans'[x].task = spans[x].task
  BY <1>1, <1>3, <1>4
<1>6. /\ Inherited' = Inherited
      /\ \A x \in DOMAIN spans : ~spans[x].open => ~spans'[x].open /\ spans'[x].exc = spans[x].exc
      /\ \A x \in DOMAIN spans : spans'[x].exc # "none" =>
           /\ ~spans'[x].open
           /\ x \notin Inherited => spans'[x].status \in {"failure", "timeout"}
  <2>1. Inherited' = Inherited
    BY <1>1 DEF Inherited
  <2>2. \A x \in DOMAIN spans : spans[x].exc # "none" =>
          /\ ~spans[x].open
          /\ x \notin Inherited => spans[x].status \in {"failure", "timeout"}
    BY DEF FInv, Judged
  <2> QED BY <1>3, <1>4, <1>5, <2>1, <2>2
<1>7. ASSUME saved' = saved PROVE Judged' /\ FailuresReachTheRecord'
  BY <1>5, <1>6, <1>7, VerdictsStay
<1>8. ASSUME saved' # saved PROVE Judged' /\ FailuresReachTheRecord'
  <2>1. /\ base[t] = <<>> /\ Len(w) = 1 /\ Finalize(t, spans', Pop(ctx[t]))
    BY <1>1, <1>3, <1>8
  <2>2. Pop(ctx[t]).collected = col
    BY <1>1 DEF Pop, Context
  <2> DEFINE T == spans'[col[1]].trace
             entries == Record(spans', col)
  <2>3. saved' = [saved EXCEPT ![T] = entries]
    BY <1>8, <2>1, <2>2 DEF Finalize
  <2>4. ASSUME NEW i \in DOMAIN entries
        PROVE  /\ entries[i].span \in DOMAIN spans /\ ~spans'[entries[i].span].open
               /\ entries[i].status = spans'[entries[i].span].status
    <3>1. i \in DOMAIN col /\ entries[i].span = col[i] /\ entries[i].status = spans'[col[i]].status
      BY DEF Record
    <3> HIDE DEF entries
    <3>2. col[i] \in DOMAIN spans /\ spans[col[i]].task = t
      BY <1>1, <2>1, <3>1 DEF Grown, FInv, Owns
    <3>3. spans[col[i]].open => col[i] = s
      <4> SUFFICES ASSUME spans[col[i]].open PROVE col[i] = s
        OBVIOUS
      <4>1. PICK k \in DOMAIN w : w[k] = col[i]
        BY <3>2 DEF FInv, EInv, Encloses, w
      <4> QED BY <1>2, <2>1, <4>1
    <3> QED BY <1>4, <1>5, <1>6, <3>1, <3>2, <3>3
  <2> HIDE DEF T, entries
  <2>5. ASSUME NEW U \in TraceIds, NEW i \in DOMAIN saved'[U]
        PROVE  /\ ~spans'[saved'[U][i].span].open
               /\ spans'[saved'[U][i].span].exc # "none"
                    /\ (\A u \in Tasks : saved'[U][i].span \notin ToSet(base'[u]))
                  => saved'[U][i].status \in {"failure", "timeout"}
    <3>1. CASE saved'[U] = entries
      <4>1. i \in DOMAIN entries /\ saved'[U][i] = entries[i]
        BY <3>1
      <4>2. (\A u \in Tasks : entries[i].span \notin ToSet(base'[u])) => entries[i].span \notin Inherited
        BY <1>1 DEF Inherited
      <4> QED BY <1>6, <2>4, <4>1, <4>2
    <3>2. CASE saved'[U] = saved[U]
      <4>1. i \in DOMAIN saved[U] /\ saved'[U][i] = saved[U][i]
        BY <3>2
      <4>2. saved[U][i].span \in DOMAIN spans /\ ~spans[saved[U][i].span].open
        BY <4>1 DEF FInv, EInv, IInv, SavedKnown, Judged
      <4>3. /\ spans[saved[U][i].span].exc # "none"
            /\ (\A u \in Tasks : saved[U][i].span \notin ToSet(base[u]))
            => saved[U][i].status \in {"failure", "timeout"}
        BY <4>1 DEF FInv, FailuresReachTheRecord
      <4> QED BY <1>1, <1>6, <4>1, <4>2, <4>3
    <3> QED BY <1>1, <2>3, <3>1, <3>2
  <2>6. Judged'
    <3>1. \A x \in DOMAIN spans' : spans'[x].exc # "none" =>
            /\ ~spans'[x].open
            /\ x \notin Inherited' => spans'[x].status \in {"failure", "timeout"}
      BY <1>5, <1>6
    <3> QED BY <2>5, <3>1 DEF Judged
  <2>7. FailuresReachTheRecord'
    BY <2>5 DEF FailuresReachTheRecord
  <2> QED BY <2>6, <2>7
<1>9. ASSUME NEW u \in Tasks PROVE Owns(u)'
  <2>1. /\ \A i \in DOMAIN ctx[u].collected : ctx[u].collected[i] \in DOMAIN spans
    BY DEF FInv, EInv, IInv, Grown
  <2>2. ctx'[u].collected = ctx[u].collected \/ ctx'[u].collected = <<>>
    <3>1. ctx' = [ctx EXCEPT ![t] = Pop(ctx[t])] \/ ctx' = [ctx EXCEPT ![t] = EmptyContext]
      BY <1>1 DEF Finalize, Reset
    <3>2. Pop(ctx[t]).collected = ctx[t].collected /\ EmptyContext.collected = <<>>
      BY <1>1 DEF Pop, Context, EmptyContext
    <3> QED BY <1>1, <3>1, <3>2
  <2> QED BY <1>1, <1>5, <2>1, <2>2 DEF FInv, Owns
<1> QED BY <1>7, <1>8, <1>9

\* A span is enriched while it is open, or by an heir.
LEMMA EnrichFInv ==
  ASSUME FInv, NEW t \in Tasks, NEW st \in Statuses,
         CurrentSpan(ctx[t]) # NoSpan,
         spans' = [spans EXCEPT ![CurrentSpan(ctx[t])].status = st],
         UNCHANGED <<ctx, base, withs, state, waiting, raised, saved>>
  PROVE  (Judged /\ FailuresReachTheRecord)' /\ \A u \in Tasks : Owns(u)'
<1> DEFINE p == CurrentSpan(ctx[t])
           w == withs[t]
<1>1. w \in Seq(SpanIds) /\ base[t] \in Seq(SpanIds) /\ ctx[t].stack = base[t] \o w
      /\ spans \in Seq(Span)
  BY DEF FInv, EInv, IInv, TypeOK, Nested
<1>2. p \in Inherited \/ (p \in DOMAIN spans /\ spans[p].open)
  <2>1. CASE w = <<>>
    <3> DEFINE q == base[t]
    <3>1. ctx[t].stack = q
      BY <1>1, <2>1, ConcatEmptySeq
    <3>2. q \in Seq(SpanIds) /\ q # <<>> /\ p = Last(q)
      BY <1>1, <3>1 DEF CurrentSpan
    <3> HIDE DEF q, p
    <3>3. Len(q) \in Nat \ {0} /\ Last(q) = q[Len(q)] /\ DOMAIN q = 1..Len(q)
      BY <3>2, FrontAndLast, LenProperties
    <3>4. p \in ToSet(q)
      BY <3>2, <3>3 DEF ToSet
    <3> QED BY <3>4 DEF q, Inherited
  <2>2. CASE w # <<>>
    <3> HIDE DEF w
    <3>1. base[t] \o w # <<>> /\ Last(base[t] \o w) = Last(w)
      BY <1>1, <2>2, FrontOfConcat
    <3>2. Len(w) \in Nat \ {0} /\ Last(w) = w[Len(w)] /\ DOMAIN w = 1..Len(w)
      BY <1>1, <2>2, FrontAndLast, LenProperties
    <3>3. p = w[Len(w)] /\ Len(w) \in DOMAIN w
      BY <1>1, <3>1, <3>2 DEF CurrentSpan
    <3> HIDE DEF p
    <3>4. \A k \in DOMAIN w : w[k] \in DOMAIN spans /\ spans[w[k]].open
      <4>1. Nested(t) /\ Encloses(t)
        BY DEF FInv, EInv, IInv
      <4> QED BY <4>1 DEF Nested, Encloses, w
    <3> QED BY <3>3, <3>4
  <2> QED BY <2>1, <2>2
<1> HIDE DEF p
<1>3. /\ DOMAIN spans' = DOMAIN spans
      /\ \A x \in DOMAIN spans :
           /\ x # p => spans'[x] = spans[x]
           /\ spans'[x].exc = spans[x].exc /\ spans'[x].open = spans[x].open
           /\ spans'[x].task = spans[x].task
  <2>1. \A x \in DOMAIN spans : spans[x] \in Span
    BY <1>1, ElementOfSeq, LenProperties
  <2>2. spans' = [spans EXCEPT ![p] = [spans[p] EXCEPT !.status = st]]
    BY DEF p
  <2>3. ASSUME NEW x \in DOMAIN spans
        PROVE  /\ x # p => spans'[x] = spans[x]
               /\ spans'[x].exc = spans[x].exc /\ spans'[x].open = spans[x].open
               /\ spans'[x].task = spans[x].task
    <3>1. CASE x # p
      BY <2>2, <3>1
    <3>2. CASE x = p
      <4>1. spans'[x] = [spans[x] EXCEPT !.status = st] /\ spans[x] \in Span
        BY <2>1, <2>2, <3>2
      <4> QED BY <3>2, <4>1 DEF Span
    <3> QED BY <3>1, <3>2
  <2> QED BY <2>2, <2>3
<1>4. Inherited' = Inherited
  BY DEF Inherited
<1>5. \A x \in DOMAIN spans : spans[x].exc # "none" =>
        /\ ~spans[x].open
        /\ x \notin Inherited => spans[x].status \in {"failure", "timeout"}
  BY DEF FInv, Judged
<1>6. Judged' /\ FailuresReachTheRecord'
  BY <1>2, <1>3, <1>4, <1>5, VerdictsStay
<1>7. ASSUME NEW u \in Tasks PROVE Owns(u)'
  <2>1. \A i \in DOMAIN ctx[u].collected : ctx[u].collected[i] \in DOMAIN spans
    BY DEF FInv, EInv, IInv, Grown
  <2> QED BY <1>3, <2>1 DEF FInv, Owns
<1> QED BY <1>6, <1>7

LEMMA BeginFInv ==
  ASSUME FInv, NEW C, C \subseteq Idle, NEW c, Begin(C, c), Grown(c, spans)
  PROVE  (Judged /\ FailuresReachTheRecord)' /\ \A u \in Tasks : Owns(u)'
<1>1. /\ UNCHANGED <<spans, saved>>
      /\ \A u \in Tasks : /\ ctx'[u] = IF u \in C THEN c ELSE ctx[u]
                          /\ base'[u] = IF u \in C THEN c.stack ELSE base[u]
                          /\ state'[u] = IF u \in C THEN "running" ELSE state[u]
  BY DEF Begin
<1>2. Inherited \subseteq Inherited'
  <2>1. ASSUME NEW u \in Tasks, NEW x \in ToSet(base[u]) PROVE x \in ToSet(base'[u])
    <3>1. u \in C => base[u] = <<>>
      BY DEF FInv, Owns, Idle
    <3>2. ToSet(<<>>) = {}
      BY DEF ToSet
    <3> QED BY <1>1, <2>1, <3>1, <3>2
  <2> QED BY <2>1 DEF Inherited
<1>3. Judged' /\ FailuresReachTheRecord'
  <2>1. \A x \in DOMAIN spans : spans[x].exc # "none" =>
          /\ ~spans[x].open
          /\ x \notin Inherited => spans[x].status \in {"failure", "timeout"}
    BY DEF FInv, Judged
  <2> QED BY <1>1, <1>2, <2>1, VerdictsStay
<1>4. ASSUME NEW u \in Tasks PROVE Owns(u)'
  <2>1. CASE u \in C
    <3>1. c.stack = <<>> => c.collected = <<>>
      BY DEF Grown
    <3> QED BY <1>1, <2>1, <3>1 DEF Owns
  <2>2. CASE u \notin C
    BY <1>1, <2>2 DEF FInv, Owns
  <2> QED BY <2>1, <2>2
<1> QED BY <1>3, <1>4

LEMMA NextFInv == FInv /\ [Next]_vars => FInv'
<1> SUFFICES ASSUME FInv, [Next]_vars PROVE FInv'
  OBVIOUS
<1>1. EInv'
  BY NextEInv DEF FInv
<1>2. \A t \in Tasks : Grown(ctx[t], spans)
  BY DEF FInv, EInv, IInv
<1>3. ASSUME UNCHANGED <<spans, ctx, base, saved>>,
             \A u \in Tasks : state'[u] = "idle" => state[u] = "idle"
      PROVE  (Judged /\ FailuresReachTheRecord)' /\ \A u \in Tasks : Owns(u)'
  <2>1. Judged' /\ FailuresReachTheRecord'
    BY <1>3 DEF FInv, Judged, FailuresReachTheRecord, Inherited
  <2>2. \A u \in Tasks : Owns(u)'
    BY <1>3 DEF FInv, Owns
  <2> QED BY <2>1, <2>2
<1>4. CASE UNCHANGED vars
  BY <1>1, <1>3, <1>4 DEF vars, FInv
<1>5. CASE Next
  <2> SUFFICES ASSUME NEW t \in Tasks,
                      \/ Enter(t) \/ Exit(t) \/ SetSpanStatus(t) \/ RecordRetry(t)
                      \/ Gather(t) \/ CreateTask(t) \/ StartThread(t)
                      \/ Resume(t) \/ Raise(t) \/ Catch(t) \/ Finish(t)
               PROVE  (Judged /\ FailuresReachTheRecord)' /\ \A u \in Tasks : Owns(u)'
    BY <1>1, <1>5 DEF Next, FInv
  <2>1. CASE Enter(t)
    BY <2>1, EnterFInv
  <2>2. CASE Exit(t)
    BY <2>2, ExitFInv
  <2>3. CASE SetSpanStatus(t)
    <3>1. PICK st \in SetStatuses : spans' = [spans EXCEPT ![CurrentSpan(ctx[t])].status = st]
      BY <2>3 DEF SetSpanStatus
    <3>2. st \in Statuses
      BY TracerAssumption DEF Statuses
    <3> QED BY <2>3, <3>1, <3>2, EnrichFInv DEF SetSpanStatus
  <2>4. CASE RecordRetry(t)
    <3>1. "retry" \in Statuses
      BY DEF Statuses
    <3> QED BY <2>4, <3>1, EnrichFInv DEF RecordRetry
  <2>5. CASE Gather(t)
    BY <1>2, <2>5, BeginFInv DEF Gather
  <2>6. CASE CreateTask(t)
    <3>1. PICK u \in Idle : Begin({u}, ctx[t])
      BY <2>6 DEF CreateTask
    <3> QED BY <1>2, <3>1, BeginFInv
  <2>7. CASE StartThread(t)
    <3>1. PICK u \in Idle : Begin({u}, EmptyContext)
      BY <2>7 DEF StartThread
    <3> QED BY <3>1, BeginFInv, EmptyGrows
  <2>8. CASE Resume(t) \/ Raise(t) \/ Catch(t)
    BY <1>3, <2>8 DEF Resume, Raise, Catch
  <2>9. CASE Finish(t)
    <3>1. \A u \in Tasks : state'[u] = "idle" => state[u] = "idle"
      BY <2>9 DEF Finish, FInv, EInv, IInv, TypeOK
    <3> QED BY <1>3, <2>9, <3>1 DEF Finish
  <2> QED BY <2>1, <2>2, <2>3, <2>4, <2>5, <2>6, <2>7, <2>8, <2>9
<1> QED BY <1>4, <1>5

LEMMA InitFInv == Init => FInv
<1> SUFFICES ASSUME Init PROVE FInv
  OBVIOUS
<1>1. EInv
  <2>1. ASSUME NEW t \in Tasks PROVE Encloses(t)
    BY DEF Init, Encloses
  <2> QED BY <2>1, InitIInv DEF EInv
<1>2. Judged /\ FailuresReachTheRecord
  BY DEF Init, Judged, FailuresReachTheRecord
<1>3. ASSUME NEW t \in Tasks PROVE Owns(t)
  BY DEF Init, Owns, EmptyContext
<1> QED BY <1>1, <1>2, <1>3 DEF FInv

(* A span that ended with an exception is stored as a failure or a timeout:  *)
(* __exit__ writes the verdict before the record is saved, and set_span_     *)
(* status() and record_retry() reach a span that ended only through a task   *)
(* that inherited it.                                                        *)
THEOREM FailuresReachTheRecordThm == Spec => []FailuresReachTheRecord
<1>1. FInv => FailuresReachTheRecord
  BY DEF FInv
<1> QED BY <1>1, InitFInv, NextFInv, PTL DEF Spec

-----------------------------------------------------------------------------
(* A root's own spans *)

\* A task that inherited nothing has collected all of its own spans since the root.
Gathers(t) ==
  base[t] = <<>> /\ ctx[t].collected # <<>> =>
    \A s \in DOMAIN spans :
      spans[s].task = t /\ s >= ctx[t].collected[1] => s \in ToSet(ctx[t].collected)

GInv == FInv /\ \A t \in Tasks : Gathers(t)

\* A task keeps what it has collected, or forgets it, as long as it enters no span.
LEMMA GathersStays ==
  ASSUME NEW u \in Tasks, Gathers(u), base'[u] = base[u],
         ctx'[u].collected = ctx[u].collected \/ ctx'[u].collected = <<>>,
         \A s \in DOMAIN spans' : spans'[s].task = u => s \in DOMAIN spans /\ spans[s].task = u
  PROVE  Gathers(u)'
BY DEF Gathers

LEMMA EnterGathers ==
  ASSUME GInv, NEW t \in Tasks, Enter(t)
  PROVE  \A u \in Tasks : Gathers(u)'
<1> DEFINE n == Len(spans) + 1
           col == ctx[t].collected
<1>1. PICK T, span :
        /\ spans' = Append(spans, span) /\ span.task = t
        /\ ctx' = [ctx EXCEPT ![t] = Push([ctx[t] EXCEPT !.trace = T], n)]
  BY DEF Enter
<1>2. /\ UNCHANGED base
      /\ ctx \in [Tasks -> Context] /\ ctx[t] \in Context /\ col \in Seq(SpanIds)
      /\ spans \in Seq(Span) /\ Len(spans) \in Nat /\ DOMAIN spans = 1..Len(spans)
  BY LenProperties DEF GInv, FInv, EInv, IInv, TypeOK, Context, Enter
<1>3. /\ DOMAIN spans' = 1..n /\ spans'[n] = span
      /\ \A x \in DOMAIN spans : spans'[x] = spans[x]
  <2>1. DOMAIN Append(spans, span) = 1..n
    BY <1>2
  <2>2. /\ \A x \in 1..Len(spans) : Append(spans, span)[x] = spans[x]
        /\ Append(spans, span)[n] = span
    BY <1>2
  <2> QED BY <1>1, <1>2, <2>1, <2>2
<1>4. \A x \in DOMAIN spans' : x \in DOMAIN spans \/ x = n
  BY <1>2, <1>3
<1>5. /\ ctx'[t].collected = Append(col, n)
      /\ \A u \in Tasks : u # t => ctx'[u] = ctx[u]
  BY <1>1, <1>2 DEF Push, Context
<1>6. /\ Len(col) \in Nat /\ DOMAIN col = 1..Len(col)
      /\ DOMAIN Append(col, n) = 1..(Len(col) + 1)
      /\ \A i \in 1..Len(col) : Append(col, n)[i] = col[i]
      /\ Append(col, n)[Len(col) + 1] = n
  <2> HIDE DEF col, n
  <2> QED BY <1>2, LenProperties
<1> HIDE DEF n, col
<1>7. n \in ToSet(Append(col, n)) /\ ToSet(col) \subseteq ToSet(Append(col, n))
  <2>1. Len(col) + 1 \in DOMAIN Append(col, n)
    BY <1>6
  <2>2. \A i \in DOMAIN col : i \in DOMAIN Append(col, n) /\ Append(col, n)[i] = col[i]
    BY <1>6
  <2> QED BY <1>6, <2>1, <2>2 DEF ToSet
<1>8. Gathers(t)'
  <2> SUFFICES ASSUME base[t] = <<>>,
                      NEW s \in DOMAIN spans', spans'[s].task = t, s >= Append(col, n)[1]
               PROVE  s \in ToSet(Append(col, n))
    BY <1>2, <1>5 DEF Gathers
  <2>1. CASE s = n
    BY <1>7, <2>1
  <2>2. CASE s # n
    <3>1. s \in DOMAIN spans /\ spans[s].task = t
      BY <1>3, <1>4, <2>2
    <3>2. CASE col = <<>>
      <4>1. Append(col, n)[1] = n
        BY <1>6, <3>2
      <4>2. s \in 1..Len(spans) /\ n = Len(spans) + 1
        BY <1>2, <3>1 DEF n
      <4> QED BY <1>2, <4>1, <4>2
    <3>3. CASE col # <<>>
      <4>1. Append(col, n)[1] = col[1]
        <5>1. Len(col) # 0
          BY <1>2, <3>3, EmptySeq
        <5> QED BY <1>6, <5>1
      <4>2. Gathers(t)
        BY DEF GInv
      <4> QED BY <1>7, <3>1, <3>3, <4>1, <4>2 DEF Gathers, col
    <3> QED BY <3>2, <3>3
  <2> QED BY <2>1, <2>2
<1>9. ASSUME NEW u \in Tasks, u # t PROVE Gathers(u)'
  <2>1. Gathers(u) /\ base'[u] = base[u] /\ ctx'[u].collected = ctx[u].collected
    BY <1>2, <1>5, <1>9 DEF GInv
  <2>2. \A s \in DOMAIN spans' : spans'[s].task = u => s \in DOMAIN spans /\ spans[s].task = u
    BY <1>1, <1>3, <1>4, <1>9
  <2> QED BY <2>1, <2>2, GathersStays
<1> QED BY <1>8, <1>9

\* No step rewrites which task entered a span.
LEMMA TasksStay ==
  ASSUME GInv, NEW t \in Tasks, Exit(t) \/ SetSpanStatus(t) \/ RecordRetry(t)
  PROVE  DOMAIN spans' = DOMAIN spans /\ \A s \in DOMAIN spans : spans'[s].task = spans[s].task
<1>1. spans \in Seq(Span) /\ \A s \in DOMAIN spans : spans[s] \in Span
  BY ElementOfSeq, LenProperties DEF GInv, FInv, EInv, IInv, TypeOK
<1>2. ASSUME NEW x \in Span, NEW st PROVE [x EXCEPT !.status = st].task = x.task
  BY DEF Span
<1>3. CASE Exit(t)
  <2>1. PICK s : spans' = [spans EXCEPT ![s] = Closed(spans[s], raised[t])]
    BY <1>3 DEF Exit
  <2>2. \A x \in Span : Closed(x, raised[t]).task = x.task
    BY DEF Closed, Span
  <2> QED BY <1>1, <2>1, <2>2
<1>4. CASE SetSpanStatus(t)
  <2>1. PICK st : spans' = [spans EXCEPT ![CurrentSpan(ctx[t])].status = st]
    BY <1>4 DEF SetSpanStatus
  <2> QED BY <1>1, <1>2, <2>1
<1>5. CASE RecordRetry(t)
  BY <1>1, <1>2, <1>5 DEF RecordRetry
<1> QED BY <1>3, <1>4, <1>5

LEMMA BeginGathers ==
  ASSUME GInv, NEW C, C \subseteq Idle, NEW c, Begin(C, c), Grown(c, spans)
  PROVE  \A u \in Tasks : Gathers(u)'
<1>1. /\ UNCHANGED spans
      /\ \A u \in Tasks : /\ ctx'[u] = IF u \in C THEN c ELSE ctx[u]
                          /\ base'[u] = IF u \in C THEN c.stack ELSE base[u]
  BY DEF Begin
<1>2. c.stack = <<>> => c.collected = <<>>
  BY DEF Grown
<1> QED BY <1>1, <1>2 DEF GInv, Gathers

LEMMA NextGInv == GInv /\ [Next]_vars => GInv'
<1> SUFFICES ASSUME GInv, [Next]_vars PROVE \A u \in Tasks : Gathers(u)'
  BY NextFInv DEF GInv
<1>1. \A t \in Tasks : Grown(ctx[t], spans)
  BY DEF GInv, FInv, EInv, IInv
<1>2. ASSUME UNCHANGED <<spans, ctx, base>> PROVE \A u \in Tasks : Gathers(u)'
  BY <1>2 DEF GInv, Gathers
<1>3. CASE UNCHANGED vars
  BY <1>2, <1>3 DEF vars
<1>4. CASE Next
  <2> SUFFICES ASSUME NEW t \in Tasks,
                      \/ Enter(t) \/ Exit(t) \/ SetSpanStatus(t) \/ RecordRetry(t)
                      \/ Gather(t) \/ CreateTask(t) \/ StartThread(t)
                      \/ Resume(t) \/ Raise(t) \/ Catch(t) \/ Finish(t)
               PROVE  \A u \in Tasks : Gathers(u)'
    BY <1>4 DEF Next
  <2>1. CASE Enter(t)
    BY <2>1, EnterGathers
  <2>2. CASE Exit(t) \/ SetSpanStatus(t) \/ RecordRetry(t)
    <3>1. ASSUME NEW u \in Tasks
          PROVE  ctx'[u].collected = ctx[u].collected \/ ctx'[u].collected = <<>>
      <4>1. \/ ctx' = [ctx EXCEPT ![t] = Pop(ctx[t])]
            \/ ctx' = [ctx EXCEPT ![t] = EmptyContext]
            \/ ctx' = ctx
        <5>1. CASE Exit(t)
          BY <5>1 DEF Exit, Finalize, Reset
        <5>2. CASE SetSpanStatus(t) \/ RecordRetry(t)
          BY <5>2 DEF SetSpanStatus, RecordRetry
        <5> QED BY <2>2, <5>1, <5>2
      <4>2. ctx \in [Tasks -> Context]
        BY DEF GInv, FInv, EInv, IInv, TypeOK
      <4>3. Pop(ctx[t]).collected = ctx[t].collected /\ EmptyContext.collected = <<>>
        BY <4>2 DEF Pop, Context, EmptyContext
      <4> QED BY <4>1, <4>2, <4>3
    <3>2. DOMAIN spans' = DOMAIN spans /\ \A s \in DOMAIN spans : spans'[s].task = spans[s].task
      BY <2>2, TasksStay
    <3>3. UNCHANGED base
      BY <2>2 DEF Exit, SetSpanStatus, RecordRetry
    <3> QED BY <3>1, <3>2, <3>3, GathersStays DEF GInv
  <2>3. CASE Gather(t)
    BY <1>1, <2>3, BeginGathers DEF Gather
  <2>4. CASE CreateTask(t)
    <3>1. PICK u \in Idle : Begin({u}, ctx[t])
      BY <2>4 DEF CreateTask
    <3> QED BY <1>1, <3>1, BeginGathers
  <2>5. CASE StartThread(t)
    <3>1. PICK u \in Idle : Begin({u}, EmptyContext)
      BY <2>5 DEF StartThread
    <3> QED BY <3>1, BeginGathers, EmptyGrows
  <2>6. CASE Resume(t) \/ Raise(t) \/ Catch(t) \/ Finish(t)
    BY <1>2, <2>6 DEF Resume, Raise, Catch, Finish
  <2> QED BY <2>1, <2>2, <2>3, <2>4, <2>5, <2>6
<1> QED BY <1>3, <1>4

\* Only a root's end writes a record: of what its task has collected.
LEMMA SavedIsCollected ==
  ASSUME GInv, [Next]_vars, NEW T \in TraceIds, saved'[T] # saved[T]
  PROVE  \E t \in Tasks :
           /\ base[t] = <<>> /\ ctx[t].collected # <<>>
           /\ saved'[T] = Record(spans', ctx[t].collected)
           /\ DOMAIN spans' = DOMAIN spans
           /\ \A s \in DOMAIN spans : spans'[s].task = spans[s].task
<1>1. PICK t \in Tasks : Exit(t)
  BY DEF vars, Next, Enter, SetSpanStatus, RecordRetry, Gather, CreateTask, StartThread,
         Begin, Resume, Raise, Catch, Finish
<1> DEFINE w == withs[t]
           col == ctx[t].collected
<1>2. /\ w \in Seq(SpanIds) /\ w # <<>> /\ ctx[t] \in Context
      /\ saved \in [TraceIds -> Seq(Row)]
      /\ spans[Last(w)].root /\ Finalize(t, spans', Pop(ctx[t]))
  BY <1>1 DEF GInv, FInv, EInv, IInv, TypeOK, Row, Exit
<1>3. Pop(ctx[t]).collected = col
  BY <1>2 DEF Pop, Context
<1>4. /\ col # <<>>
      /\ saved' = [saved EXCEPT ![spans'[col[1]].trace] = Record(spans', col)]
  BY <1>2, <1>3 DEF Finalize
<1>5. saved'[T] = Record(spans', col)
  BY <1>2, <1>4
<1>6. base[t] = <<>>
  <2>1. Len(w) \in DOMAIN w /\ Last(w) = w[Len(w)]
    <3> HIDE DEF w
    <3>1. Len(w) \in Nat \ {0} /\ Last(w) = w[Len(w)] /\ DOMAIN w = 1..Len(w)
      BY <1>2, FrontAndLast, LenProperties
    <3> QED BY <3>1
  <2>2. Nested(t)
    BY DEF GInv, FInv, EInv, IInv
  <2> QED BY <1>2, <2>1, <2>2 DEF Nested
<1>7. DOMAIN spans' = DOMAIN spans /\ \A s \in DOMAIN spans : spans'[s].task = spans[s].task
  BY <1>1, TasksStay
<1> QED BY <1>4, <1>5, <1>6, <1>7

\* The record of a root holds every span that its own task has entered since: its
\* context was not shared with it, only its heirs work on copies.
THEOREM OwnSpansAreSavedThm == Spec => OwnSpansAreSaved
<1>1. Init => GInv
  <2> SUFFICES ASSUME Init PROVE GInv
    OBVIOUS
  <2>1. ASSUME NEW t \in Tasks PROVE Gathers(t)
    BY DEF Init, Gathers, EmptyContext
  <2> QED BY <2>1, InitFInv DEF GInv
<1>2. GInv /\ [Next]_vars =>
        \A T \in TraceIds : saved'[T] # saved[T] =>
          LET r == saved'[T][1].span
          IN \A s \in r..Len(spans) :
               spans[s].task = spans[r].task => s \in SavedSpans(T)'
  <2> SUFFICES ASSUME GInv, [Next]_vars, NEW T \in TraceIds, saved'[T] # saved[T]
               PROVE  LET r == saved'[T][1].span
                      IN \A s \in r..Len(spans) :
                           spans[s].task = spans[r].task => s \in SavedSpans(T)'
    OBVIOUS
  <2>1. PICK t \in Tasks :
          /\ base[t] = <<>> /\ ctx[t].collected # <<>>
          /\ saved'[T] = Record(spans', ctx[t].collected)
    BY SavedIsCollected
  <2> DEFINE col == ctx[t].collected
             r == col[1]
  <2>2. col \in Seq(SpanIds) /\ 1 \in DOMAIN col
    <3>1. col \in Seq(SpanIds)
      BY DEF GInv, FInv, EInv, IInv, TypeOK, Context
    <3> HIDE DEF col
    <3>2. Len(col) \in Nat \ {0} /\ DOMAIN col = 1..Len(col)
      BY <2>1, <3>1, EmptySeq, LenProperties DEF col
    <3> QED BY <3>1, <3>2
  <2>3. r \in Nat /\ r \in DOMAIN spans /\ spans[r].task = t
    <3>1. r \in DOMAIN spans
      BY <2>2 DEF GInv, FInv, EInv, IInv, Grown
    <3>2. spans[r].task = t
      BY <2>1, <2>2 DEF GInv, FInv, Owns
    <3>3. DOMAIN spans = 1..Len(spans)
      BY LenProperties DEF GInv, FInv, EInv, IInv, TypeOK
    <3> QED BY <3>1, <3>2, <3>3
  <2>4. \A i \in DOMAIN col : i \in DOMAIN saved'[T] /\ saved'[T][i].span = col[i]
    BY <2>1 DEF Record
  <2>5. ASSUME NEW s \in r..Len(spans), spans[s].task = t
        PROVE  s \in SavedSpans(T)'
    <3>1. s \in DOMAIN spans /\ s >= r
      <4>1. DOMAIN spans = 1..Len(spans) /\ Len(spans) \in Nat
        BY LenProperties DEF GInv, FInv, EInv, IInv, TypeOK
      <4> HIDE DEF r
      <4> QED BY <2>3, <2>5, <4>1
    <3>2. s \in ToSet(col)
      BY <2>1, <2>5, <3>1 DEF GInv, Gathers
    <3>3. PICK i \in DOMAIN col : col[i] = s
      BY <3>2 DEF ToSet
    <3>4. saved'[T][i] \in ToSet(saved'[T]) /\ saved'[T][i].span = s
      BY <2>4, <3>3 DEF ToSet
    <3> QED BY <3>4 DEF SavedSpans
  <2>6. saved'[T][1].span = r
    BY <2>2, <2>4
  <2> HIDE DEF r, col
  <2> QED BY <2>3, <2>5, <2>6
<1> QED BY <1>1, <1>2, NextGInv, PTL DEF Spec, OwnSpansAreSaved

----------
(* The pipeline.  An envelope is open while it is queued or dispatched.  The  *)
(* unfinished tasks count the open envelopes and those that clear() or a      *)
(* cancellation has dropped; as long as none was dropped, what is not open    *)
(* has reached every engine.                                                  *)

Parties == Engines \cup Listeners

Made == Events \cup {Optimization(env, e) : env \in Events, e \in Nat}

Busy == {d \in Dispatchers : dispatch[d] # Nothing}
EnvOf(d) == dispatch[d].env
Open == Range(queued) \cup {EnvOf(d) : d \in Busy}

PipelineTypes ==
  /\ subscribed \in [EventTypes \cup {"*"} -> Seq(Parties)]
  /\ published \in Seq(Made)
  /\ queued \in Seq(Nat) /\ Range(queued) \subseteq DOMAIN published
  /\ unfinished \in Int
  /\ dispatch \in [Dispatchers -> [env : Nat, todo : Seq(Parties), suspended : BOOLEAN]]
  /\ handled \in [Parties -> Seq(Nat)]
  /\ \A h \in Engines : Range(handled[h]) \subseteq DOMAIN published
  /\ \A d \in Busy : EnvOf(d) \in DOMAIN published
  /\ \A d \in Dispatchers : dispatch[d].suspended =>
       dispatch[d].todo # <<>> /\ Head(dispatch[d].todo) \in Listeners

\* The engines that answer traces, and those that dispatcher d has yet to call.
On == Range(subscribed["trace.created"]) \cap Engines
Uncalled(d) == Range(dispatch[d].todo) \cap Engines

EnginesOnce(s) == \A i, j \in DOMAIN s : s[i] = s[j] /\ s[i] \in Engines => i = j

CalledOnce ==
  /\ \A type \in EventTypes : EnginesOnce(subscribed[type])
  /\ Range(subscribed["*"]) \cap Engines = {}
  /\ \A d \in Busy :
       /\ EnginesOnce(dispatch[d].todo)
       /\ published[EnvOf(d)].type = "trace.created" => Uncalled(d) \subseteq On

\* An answer comes after the trace it is about.
Causes ==
  \A o \in DOMAIN published :
    LET c == published[o].cause
    IN  c # 0 => /\ c \in 1..(o - 1) /\ Diagnosable(published[c])
                 /\ published[o].type = "optimization.detected"

\* An envelope is in one place.
Placed ==
  /\ \A i, j \in DOMAIN queued : queued[i] = queued[j] => i = j
  /\ \A d \in Busy : EnvOf(d) \notin Range(queued)
  /\ \A c, d \in Busy : EnvOf(c) = EnvOf(d) => c = d

Times(h, e) == {k \in DOMAIN handled[h] : handled[h][k] = e}
AnswersTo(e) == {o \in DOMAIN published : published[o].cause = e}

\* Of the engines, those in H have gone through trace e, and answered it.
Reached(e, H) ==
  published[e].type = "trace.created" =>
    /\ \A h \in H : Cardinality(Times(h, e)) = 1
    /\ \A h \in On \ H : Times(h, e) = {}
    /\ Diagnosable(published[e]) => Cardinality(AnswersTo(e)) = Cardinality(H)

Fresh == \A e \in Range(queued) : Reached(e, {})
Going == \A d \in Busy : Reached(EnvOf(d), On \ Uncalled(d))
Counted == Cardinality(Open) <= unfinished
Settled ==
  unfinished = Cardinality(Open) => \A e \in DOMAIN published \ Open : Reached(e, On)

BusInv ==
  PipelineTypes /\ CalledOnce /\ Causes /\ Placed /\ Fresh /\ Going /\ Counted /\ Settled

\* A bus on which a workload was executed keeps its four envelopes.
PipelineInv == IF rows = None THEN BusInv ELSE unfinished > 0

----------
LEMMA ListAppend ==
  ASSUME NEW X, NEW s \in Seq(X), NEW x \in X
  PROVE  /\ Append(s, x) \in Seq(X) /\ Len(Append(s, x)) = Len(s) + 1 /\ Len(s) \in Nat
         /\ DOMAIN s = 1..Len(s) /\ DOMAIN Append(s, x) = 1..(Len(s) + 1)
         /\ \A i \in 1..Len(s) : Append(s, x)[i] = s[i]
         /\ Append(s, x)[Len(s) + 1] = x
         /\ Range(Append(s, x)) = Range(s) \cup {x}
<1>1. /\ Append(s, x) \in Seq(X) /\ Len(Append(s, x)) = Len(s) + 1 /\ Len(s) \in Nat
      /\ DOMAIN s = 1..Len(s) /\ DOMAIN Append(s, x) = 1..(Len(s) + 1)
      /\ \A i \in 1..Len(s) : Append(s, x)[i] = s[i]
      /\ Append(s, x)[Len(s) + 1] = x
  OBVIOUS
<1>2. \A i : i \in 1..(Len(s) + 1) <=> i \in 1..Len(s) \/ i = Len(s) + 1
  BY <1>1
<1>3. Range(Append(s, x)) = Range(s) \cup {x}
  BY <1>1, <1>2 DEF Range
<1> QED BY <1>1, <1>3

\* List u is s followed by t.
Concats(u, s, t) ==
  /\ Len(s) \in Nat /\ Len(t) \in Nat
  /\ DOMAIN s = 1..Len(s) /\ DOMAIN t = 1..Len(t) /\ DOMAIN u = 1..(Len(s) + Len(t))
  /\ \A i \in 1..Len(s) : u[i] = s[i]
  /\ \A i \in 1..Len(t) : u[Len(s) + i] = t[i]
  /\ \A i \in 1..(Len(s) + Len(t)) :
       i \in 1..Len(s) \/ \E k \in 1..Len(t) : i = Len(s) + k
  /\ Range(u) = Range(s) \cup Range(t)

LEMMA ListConcat ==
  ASSUME NEW X, NEW s \in Seq(X), NEW t \in Seq(X)
  PROVE  s \o t \in Seq(X) /\ Concats(s \o t, s, t)
<1>1. /\ s \o t \in Seq(X) /\ Len(s \o t) = Len(s) + Len(t)
      /\ Len(s) \in Nat /\ Len(t) \in Nat
      /\ DOMAIN s = 1..Len(s) /\ DOMAIN t = 1..Len(t)
      /\ DOMAIN (s \o t) = 1..(Len(s) + Len(t))
      /\ \A i \in 1..(Len(s) + Len(t)) : (s \o t)[i] = IF i <= Len(s) THEN s[i] ELSE t[i - Len(s)]
  BY ConcatProperties, LenProperties
<1>2. \A i \in 1..Len(s) : (s \o t)[i] = s[i]
  BY <1>1
<1>3. \A i \in 1..Len(t) : (s \o t)[Len(s) + i] = t[i]
  <2> SUFFICES ASSUME NEW i \in 1..Len(t) PROVE (s \o t)[Len(s) + i] = t[i]
    OBVIOUS
  <2>1. Len(s) + i \in 1..(Len(s) + Len(t)) /\ ~(Len(s) + i <= Len(s)) /\ Len(s) + i - Len(s) = i
    BY <1>1
  <2> QED BY <1>1, <2>1
<1>4. \A i \in 1..(Len(s) + Len(t)) :
        i \in 1..Len(s) \/ \E k \in 1..Len(t) : i = Len(s) + k
  <2> SUFFICES ASSUME NEW i \in 1..(Len(s) + Len(t)), i \notin 1..Len(s)
               PROVE  \E k \in 1..Len(t) : i = Len(s) + k
    OBVIOUS
  <2>1. i - Len(s) \in 1..Len(t) /\ i = Len(s) + (i - Len(s))
    BY <1>1
  <2> QED BY <2>1
<1>5. \A i \in 1..Len(t) : Len(s) + i \in 1..(Len(s) + Len(t))
  BY <1>1
<1>6. \A i \in 1..Len(s) : i \in 1..(Len(s) + Len(t))
  BY <1>1
<1>7. Range(s \o t) = Range(s) \cup Range(t)
  <2>1. ASSUME NEW y \in Range(s \o t) PROVE y \in Range(s) \cup Range(t)
    <3>1. PICK i \in 1..(Len(s) + Len(t)) : y = (s \o t)[i]
      BY <1>1, <2>1 DEF Range
    <3>2. CASE i \in 1..Len(s)
      BY <1>1, <1>2, <3>1, <3>2 DEF Range
    <3>3. CASE \E k \in 1..Len(t) : i = Len(s) + k
      BY <1>1, <1>3, <3>1, <3>3 DEF Range
    <3> QED BY <1>4, <3>2, <3>3
  <2>2. ASSUME NEW y \in Range(s) PROVE y \in Range(s \o t)
    BY <1>1, <1>2, <1>6, <2>2 DEF Range
  <2>3. ASSUME NEW y \in Range(t) PROVE y \in Range(s \o t)
    <3>1. PICK i \in 1..Len(t) : y = t[i]
      BY <1>1, <2>3 DEF Range
    <3> QED BY <1>1, <1>3, <1>5, <3>1 DEF Range
  <2> QED BY <2>1, <2>2, <2>3
<1> QED BY <1>1, <1>2, <1>3, <1>4, <1>7 DEF Concats

LEMMA ListTail ==
  ASSUME NEW X, NEW s \in Seq(X), s # <<>>
  PROVE  /\ Len(s) \in Nat \ {0} /\ DOMAIN s = 1..Len(s) /\ 1 \in DOMAIN s
         /\ Head(s) = s[1] /\ Head(s) \in X
         /\ Tail(s) \in Seq(X) /\ DOMAIN Tail(s) = 1..(Len(s) - 1)
         /\ \A i \in 1..(Len(s) - 1) : i + 1 \in DOMAIN s /\ Tail(s)[i] = s[i + 1]
         /\ Range(s) = {Head(s)} \cup Range(Tail(s))
<1>1. Len(s) \in Nat \ {0} /\ DOMAIN s = 1..Len(s)
  BY EmptySeq, LenProperties
<1>2. 1 \in DOMAIN s /\ Head(s) = s[1] /\ Head(s) \in X
  BY <1>1, ElementOfSeq
<1>3. /\ Tail(s) \in Seq(X) /\ DOMAIN Tail(s) = 1..(Len(s) - 1)
      /\ \A i \in 1..(Len(s) - 1) : Tail(s)[i] = s[i + 1]
  BY <1>1, HeadTailProperties, LenProperties
<1>4. \A i \in 1..(Len(s) - 1) : i + 1 \in DOMAIN s
  BY <1>1
<1>5. Range(s) = {Head(s)} \cup Range(Tail(s))
  <2>1. ASSUME NEW i \in DOMAIN s, i # 1 PROVE s[i] \in Range(Tail(s))
    <3>1. i - 1 \in 1..(Len(s) - 1) /\ (i - 1) + 1 = i
      BY <1>1, <2>1
    <3>2. Tail(s)[i - 1] = s[i]
      BY <1>3, <3>1
    <3> QED BY <1>3, <3>1, <3>2 DEF Range
  <2>2. \A i \in DOMAIN s : s[i] \in {Head(s)} \cup Range(Tail(s))
    BY <1>2, <2>1
  <2>3. \A i \in DOMAIN Tail(s) : Tail(s)[i] \in Range(s)
    BY <1>3, <1>4 DEF Range
  <2>4. Head(s) \in Range(s)
    BY <1>2 DEF Range
  <2>5. Range(s) \subseteq {Head(s)} \cup Range(Tail(s))
    BY <2>2 DEF Range
  <2>6. Range(Tail(s)) \subseteq Range(s)
    BY <2>3 DEF Range
  <2> QED BY <2>4, <2>5, <2>6
<1> QED BY <1>1, <1>2, <1>3, <1>4, <1>5

\* What can be on the bus.
LEMMA EnvelopeFacts ==
  /\ \A x \in Made : x.type \in EventTypes /\ x.cause \in Nat
  /\ \A x \in Events : x \in Made /\ x.cause = 0
  /\ \A x \in Made : \A e \in Nat : Diagnosable(x) =>
       /\ Optimization(x, e) \in Made
       /\ Optimization(x, e).cause = e /\ Optimization(x, e).type = "optimization.detected"
<1>1. \A env : \A e : /\ Optimization(env, e).cause = e
                      /\ Optimization(env, e).type = "optimization.detected"
  <2> SUFFICES ASSUME NEW env, NEW e
               PROVE  /\ Optimization(env, e).cause = e
                      /\ Optimization(env, e).type = "optimization.detected"
    OBVIOUS
  <2> QED BY DEF Optimization, Envelope
<1>2. \A x \in Events : x.type \in EventTypes /\ x.cause = 0
  <2>1. \A type : \A trace : \A payload :
          Envelope(type, trace, payload).type = type /\ Envelope(type, trace, payload).cause = 0
    BY DEF Envelope
  <2>2. "trace.created" \in EventTypes /\ "workload.completed" \in EventTypes
    BY DEF EventTypes
  <2>3. \A x \in Events : \E type, trace, payload :
          /\ x = Envelope(type, trace, payload) /\ type \in {"trace.created", "workload.completed"}
    BY Zenon DEF Events
  <2> QED BY <2>1, <2>2, <2>3
<1>3. \A x \in Made : x.cause \in Nat /\ (x \in Events \/ x.type = "optimization.detected")
  BY <1>1, <1>2 DEF Made
<1>4. \A x \in Made : Diagnosable(x) => x \in Events
  BY <1>3 DEF Diagnosable
<1>5. "optimization.detected" \in EventTypes
  BY DEF EventTypes
<1> QED BY <1>1, <1>2, <1>3, <1>4, <1>5 DEF Made

----------
(* Publishing *)

\* The bus as it was before envelopes were put on it, in places n + 1 to m.
Joins(n, m) ==
  /\ n \in Nat /\ m \in Nat /\ n <= m
  /\ DOMAIN published = 1..n /\ DOMAIN published' = 1..m
  /\ published' \in Seq(Made)
  /\ \A e \in 1..n : published'[e] = published[e]
  /\ queued' \in Seq(Nat) /\ Range(queued') = Range(queued) \cup (n + 1)..m
  /\ unfinished' = unfinished + (m - n)

LEMMA PutJoins ==
  ASSUME PipelineTypes, Placed, NEW new \in Seq(Made), Put(new)
  PROVE  LET n == Len(published)
             m == n + Len(new)
         IN  /\ Joins(n, m)
             /\ \A e \in (n + 1)..m : \E k \in DOMAIN new : published'[e] = new[k]
             /\ \A i, j \in DOMAIN queued' : queued'[i] = queued'[j] => i = j
<1> DEFINE n == Len(published)
           m == n + Len(new)
           places == [k \in DOMAIN new |-> n + k]
<1>1. /\ published \in Seq(Made) /\ queued \in Seq(Nat) /\ Range(queued) \subseteq DOMAIN published
      /\ published' = published \o new /\ queued' = queued \o places
      /\ unfinished' = unfinished + Len(new)
  BY DEF PipelineTypes, Put
<1>2. /\ published \o new \in Seq(Made) /\ n \in Nat /\ Len(new) \in Nat
      /\ DOMAIN published = 1..n /\ DOMAIN new = 1..Len(new)
      /\ DOMAIN (published \o new) = 1..m
      /\ \A e \in 1..n : (published \o new)[e] = published[e]
      /\ \A k \in 1..Len(new) : (published \o new)[n + k] = new[k]
  <2>1. published \in Seq(Made)
    BY <1>1
  <2>2. published \o new \in Seq(Made) /\ Concats(published \o new, published, new)
    BY <2>1, ListConcat
  <2> QED BY <2>2 DEF Concats
<1>3. m \in Nat /\ n <= m /\ m - n = Len(new)
  BY <1>2
<1>4. ASSUME NEW e \in (n + 1)..m PROVE e - n \in DOMAIN new /\ n + (e - n) = e
  BY <1>2, <1>3
<1>5. \A k \in DOMAIN new : n + k \in (n + 1)..m /\ n + k \in Nat
  BY <1>2
<1>6. places \in Seq(Nat) /\ Len(places) = Len(new) /\ Range(places) = (n + 1)..m
  <2>1. places \in [1..Len(new) -> Nat] /\ DOMAIN places = DOMAIN new
    BY <1>2, <1>5
  <2>2. places \in Seq(Nat) /\ Len(places) = Len(new)
    <3> HIDE DEF places
    <3>1. places \in Seq(Nat) /\ DOMAIN places = 1..Len(places)
      BY <1>2, <2>1
    <3> QED BY <1>2, <2>1, <3>1
  <2>3. \A e \in (n + 1)..m : places[e - n] = e
    BY <1>4
  <2>4. \A k \in DOMAIN places : places[k] \in (n + 1)..m
    BY <1>5
  <2> HIDE DEF places, m, n
  <2> QED BY <1>4, <2>1, <2>2, <2>3, <2>4 DEF Range
<1> DEFINE all == queued \o places
<1>7. /\ all \in Seq(Nat) /\ Range(all) = Range(queued) \cup (n + 1)..m
      /\ Len(queued) \in Nat
      /\ DOMAIN queued = 1..Len(queued) /\ DOMAIN places = 1..Len(new)
      /\ DOMAIN all = 1..(Len(queued) + Len(new))
      /\ \A i \in 1..Len(queued) : all[i] = queued[i]
      /\ \A i \in 1..Len(new) : all[Len(queued) + i] = places[i]
      /\ \A i \in 1..(Len(queued) + Len(new)) :
           i \in 1..Len(queued) \/ \E k \in 1..Len(new) : i = Len(queued) + k
  <2> HIDE DEF places, m, n
  <2>1. queued \in Seq(Nat)
    BY <1>1
  <2>2. places \in Seq(Nat) /\ Len(places) = Len(new)
    BY <1>6
  <2>3. /\ all \in Seq(Nat) /\ Range(all) = Range(queued) \cup Range(places)
        /\ Len(queued) \in Nat
        /\ DOMAIN queued = 1..Len(queued) /\ DOMAIN places = 1..Len(places)
        /\ DOMAIN all = 1..(Len(queued) + Len(places))
        /\ \A i \in 1..Len(queued) : all[i] = queued[i]
        /\ \A i \in 1..Len(places) : all[Len(queued) + i] = places[i]
        /\ \A i \in 1..(Len(queued) + Len(places)) :
             i \in 1..Len(queued) \/ \E k \in 1..Len(places) : i = Len(queued) + k
    <3>1. all \in Seq(Nat) /\ Concats(all, queued, places)
      BY <2>1, <2>2, ListConcat
    <3> HIDE DEF all
    <3> QED BY <3>1 DEF Concats
  <2> HIDE DEF all
  <2> QED BY <1>6, <2>2, <2>3
<1>8. \A i, j \in DOMAIN all : all[i] = all[j] => i = j
  <2> SUFFICES ASSUME NEW i \in DOMAIN all, NEW j \in DOMAIN all, all[i] = all[j] PROVE i = j
    OBVIOUS
  <2>1. \A k \in 1..Len(new) : places[k] = n + k /\ places[k] \notin 1..n
    BY <1>2
  <2>2. \A k \in 1..Len(queued) : queued[k] \in 1..n
    BY <1>1, <1>2, <1>7 DEF Range
  <2>3. \A k, l \in 1..Len(queued) : queued[k] = queued[l] => k = l
    BY <1>7 DEF Placed
  <2>4. \A k, l \in 1..Len(new) : n + k = n + l => k = l
    BY <1>2
  <2> HIDE DEF places, all, m, n
  <2>5. CASE i \in 1..Len(queued) /\ j \in 1..Len(queued)
    BY <1>7, <2>3, <2>5
  <2>6. CASE i \in 1..Len(queued) /\ j \notin 1..Len(queued)
    <3>1. PICK k \in 1..Len(new) : j = Len(queued) + k
      BY <1>7, <2>6
    <3>2. all[i] \in 1..n /\ all[j] \notin 1..n
      BY <1>7, <2>1, <2>2, <2>6, <3>1
    <3> QED BY <3>2
  <2>7. CASE i \notin 1..Len(queued) /\ j \in 1..Len(queued)
    <3>1. PICK k \in 1..Len(new) : i = Len(queued) + k
      BY <1>7, <2>7
    <3>2. all[j] \in 1..n /\ all[i] \notin 1..n
      BY <1>7, <2>1, <2>2, <2>7, <3>1
    <3> QED BY <3>2
  <2>8. CASE i \notin 1..Len(queued) /\ j \notin 1..Len(queued)
    <3>1. PICK k \in 1..Len(new) : i = Len(queued) + k
      BY <1>7, <2>8
    <3>2. PICK l \in 1..Len(new) : j = Len(queued) + l
      BY <1>7, <2>8
    <3>3. n + k = n + l
      BY <1>7, <2>1, <3>1, <3>2
    <3> QED BY <2>4, <3>1, <3>2, <3>3
  <2> QED BY <2>5, <2>6, <2>7, <2>8
<1>9. \A e \in (n + 1)..m : \E k \in DOMAIN new : (published \o new)[e] = new[k]
  <2> HIDE DEF m, n
  <2> QED BY <1>2, <1>4
<1> HIDE DEF all, m, n, places
<1>10. queued' = all
  BY <1>1 DEF all, places, n
<1>11. Joins(n, m)
  BY <1>1, <1>2, <1>3, <1>7, <1>10 DEF Joins
<1>12. /\ \A e \in (n + 1)..m : \E k \in DOMAIN new : published'[e] = new[k]
       /\ \A i, j \in DOMAIN queued' : queued'[i] = queued'[j] => i = j
  BY <1>1, <1>8, <1>9, <1>10
<1> QED BY <1>11, <1>12 DEF m, n

\* Envelopes join the bus, of which some answer c, an envelope being dispatched or none (0),
\* and that no engine has gone through.
Joined(c, n, m) ==
  /\ BusInv /\ Joins(n, m) /\ UNCHANGED subscribed
  /\ Busy' = Busy /\ \A d \in Busy : EnvOf(d)' = EnvOf(d)
  /\ \A i, j \in DOMAIN queued' : queued'[i] = queued'[j] => i = j
  /\ c \in Nat /\ (c # 0 => c \in Open \ Range(queued))
  /\ \A e \in (n + 1)..m : published'[e].cause # 0 =>
       /\ published'[e].cause = c /\ Diagnosable(published[c])
       /\ published'[e].type = "optimization.detected"
  /\ \A h \in Engines : /\ Range(handled'[h]) \subseteq 1..n
                        /\ \A e \in Nat : e # c => Times(h, e)' = Times(h, e)

LEMMA OpenIsPublished ==
  ASSUME PipelineTypes
  PROVE  /\ Open \subseteq DOMAIN published /\ DOMAIN published = 1..Len(published)
         /\ Len(published) \in Nat
         /\ IsFiniteSet(Open) /\ Cardinality(Open) \in Nat
<1>1. Open \subseteq DOMAIN published
  BY DEF PipelineTypes, Open
<1>2. DOMAIN published = 1..Len(published) /\ Len(published) \in Nat
  BY LenProperties DEF PipelineTypes
<1>3. IsFiniteSet(1..Len(published))
  BY <1>2, FS_Interval
<1>4. IsFiniteSet(Open)
  BY <1>1, <1>2, <1>3, FS_Subset
<1> QED BY <1>1, <1>2, <1>4, FS_CardinalityType

\* What is not answered by them is where it was.
LEMMA ReachedStays ==
  ASSUME NEW c, NEW n, NEW m, Joined(c, n, m), NEW e \in 1..n, e # c
  PROVE  \A H \in SUBSET Engines : Reached(e, H)' <=> Reached(e, H)
<1>1. On' = On
  BY DEF Joined, On
<1>2. \A h \in Engines : Times(h, e)' = Times(h, e)
  BY DEF Joined, Joins
<1>3. AnswersTo(e)' = AnswersTo(e)
  <2>1. \A o \in 1..n : o \in 1..m /\ published'[o] = published[o]
    BY DEF Joined, Joins
  <2>2. ASSUME NEW o \in 1..m, o \notin 1..n PROVE published'[o].cause # e
    <3>1. o \in (n + 1)..m /\ e # 0
      BY <2>2 DEF Joined, Joins
    <3> QED BY <3>1 DEF Joined
  <2> QED BY <2>1, <2>2 DEF Joined, Joins, AnswersTo
<1>4. published'[e] = published[e]
  BY DEF Joined, Joins
<1>5. On \subseteq Engines
  BY DEF On
<1> SUFFICES ASSUME NEW H \in SUBSET Engines PROVE Reached(e, H)' <=> Reached(e, H)
  OBVIOUS
<1> QED BY <1>1, <1>2, <1>3, <1>4, <1>5 DEF Reached

LEMMA JoinedInv ==
  ASSUME NEW c, NEW n, NEW m, Joined(c, n, m)
  PROVE  Causes' /\ Placed' /\ Fresh' /\ Counted' /\ Settled'
<1>1. /\ BusInv /\ PipelineTypes /\ n \in Nat /\ m \in Nat /\ n <= m
      /\ DOMAIN published = 1..n /\ DOMAIN published' = 1..m
      /\ \A e \in 1..n : published'[e] = published[e]
      /\ Range(queued') = Range(queued) \cup (n + 1)..m
      /\ unfinished' = unfinished + (m - n) /\ unfinished \in Int
      /\ On' = On /\ On \subseteq Engines
      /\ Range(queued) \subseteq 1..n
  BY DEF Joined, Joins, BusInv, On, PipelineTypes
<1>2. \A e \in 1..m : e \in 1..n \/ e \in (n + 1)..m
  BY <1>1
<1>3. \A e \in 1..n : e \in 1..m /\ e \notin (n + 1)..m /\ e # 0
  BY <1>1
<1>4. \A e \in (n + 1)..m : e \in 1..m /\ e \notin 1..n /\ e # 0
  BY <1>1
<1>5. Open \subseteq 1..n /\ IsFiniteSet(Open) /\ Cardinality(Open) \in Nat
  BY <1>1, OpenIsPublished
<1>6. c # 0 => c \in Open /\ c \notin Range(queued)
  BY DEF Joined
<1>7. Causes'
  <2> SUFFICES ASSUME NEW o \in 1..m, published'[o].cause # 0
               PROVE  LET x == published'[o].cause
                      IN  /\ x \in 1..(o - 1) /\ Diagnosable(published'[x])
                          /\ published'[o].type = "optimization.detected"
    BY <1>1 DEF Causes, Diagnosable
  <2>1. CASE o \in 1..n
    <3> DEFINE x == published[o].cause
    <3>1. /\ published'[o] = published[o]
          /\ x \in 1..(o - 1) /\ Diagnosable(published[x])
          /\ published[o].type = "optimization.detected"
      BY <1>1, <2>1 DEF BusInv, Causes
    <3>2. x \in 1..n
      BY <1>1, <2>1, <3>1
    <3> HIDE DEF x
    <3>3. published'[x] = published[x]
      BY <1>1, <3>2
    <3> QED BY <3>1, <3>3 DEF x
  <2>2. CASE o \in (n + 1)..m
    <3>1. /\ published'[o].cause = c /\ Diagnosable(published[c])
          /\ published'[o].type = "optimization.detected"
      BY <2>2 DEF Joined
    <3>2. c \in 1..n
      BY <1>5, <1>6, <3>1
    <3>3. c \in 1..(o - 1) /\ published'[c] = published[c]
      BY <1>1, <2>2, <3>2
    <3> QED BY <3>1, <3>3
  <2> QED BY <1>2, <2>1, <2>2
<1>8. Placed'
  <2>1. \A d \in Busy : EnvOf(d) \in 1..n /\ EnvOf(d) \notin Range(queued)
    BY <1>1 DEF BusInv, PipelineTypes, Placed
  <2>2. \A a, d \in Busy : EnvOf(a) = EnvOf(d) => a = d
    BY <1>1 DEF BusInv, Placed
  <2>3. /\ Busy' = Busy /\ \A d \in Busy : EnvOf(d)' = EnvOf(d)
        /\ \A i, j \in DOMAIN queued' : queued'[i] = queued'[j] => i = j
    BY DEF Joined
  <2> QED BY <1>1, <1>3, <2>1, <2>2, <2>3 DEF Placed
<1>9. Fresh'
  <2> SUFFICES ASSUME NEW e \in Range(queued) \cup (n + 1)..m PROVE Reached(e, {})'
    BY <1>1 DEF Fresh
  <2>1. CASE e \in Range(queued)
    <3>1. e \in 1..n
      BY <1>1, <2>1
    <3>2. e # c
      BY <1>3, <1>6, <2>1, <3>1
    <3>3. Reached(e, {})
      BY <1>1, <2>1 DEF BusInv, Fresh
    <3> QED BY <3>1, <3>2, <3>3, ReachedStays
  <2>2. CASE e \in (n + 1)..m
    <3>1. \A h \in Engines : Times(h, e)' = {}
      <4> SUFFICES ASSUME NEW h \in Engines PROVE Times(h, e)' = {}
        OBVIOUS
      <4>1. Range(handled'[h]) \subseteq 1..n
        BY DEF Joined
      <4> QED BY <1>4, <2>2, <4>1 DEF Times, Range
    <3>2. AnswersTo(e)' = {}
      <4> SUFFICES ASSUME NEW o \in 1..m PROVE published'[o].cause # e
        BY <1>1 DEF AnswersTo
      <4>1. CASE o \in 1..n
        <5> DEFINE x == published[o].cause
        <5>1. published'[o].cause = x /\ (x = 0 \/ x \in 1..(o - 1))
          BY <1>1, <4>1 DEF BusInv, Causes
        <5> HIDE DEF x
        <5>2. x # e
          BY <1>1, <2>2, <4>1, <5>1
        <5> QED BY <5>1, <5>2
      <4>2. CASE o \in (n + 1)..m
        <5>1. published'[o].cause = 0 \/ (published'[o].cause = c /\ c # 0)
          BY <4>2 DEF Joined
        <5> QED BY <1>4, <1>5, <1>6, <2>2, <5>1
      <4> QED BY <1>2, <4>1, <4>2
    <3>3. Cardinality({}) = 0
      BY FS_EmptySet
    <3> QED BY <1>1, <3>1, <3>2, <3>3 DEF Reached
  <2> QED BY <2>1, <2>2
<1>10. Open' = Open \cup (n + 1)..m
  BY <1>1 DEF Joined, Open
<1>11. Cardinality(Open') = Cardinality(Open) + (m - n)
  <2>1. /\ IsFiniteSet((n + 1)..m) /\ Cardinality((n + 1)..m) = m - n
    <3>1. n + 1 \in Int /\ m \in Int /\ m - (n + 1) + 1 = m - n /\ (n + 1 > m => m - n = 0)
      BY <1>1
    <3> QED BY <3>1, FS_Interval
  <2>2. Open \cap (n + 1)..m = {}
    BY <1>3, <1>5
  <2>3. Cardinality(Open \cup (n + 1)..m)
          = Cardinality(Open) + Cardinality((n + 1)..m) - Cardinality(Open \cap (n + 1)..m)
    BY <1>5, <2>1, FS_Union
  <2>4. Cardinality(Open \cap (n + 1)..m) = 0
    BY <2>2, FS_EmptySet
  <2>5. Cardinality(Open \cup (n + 1)..m) = Cardinality(Open) + (m - n) - 0
    BY <2>1, <2>3, <2>4
  <2>6. Cardinality(Open) + (m - n) - 0 = Cardinality(Open) + (m - n)
    BY <1>1, <1>5
  <2> QED BY <1>10, <2>5, <2>6
<1>12. Counted'
  <2>1. Cardinality(Open) <= unfinished
    BY <1>1 DEF BusInv, Counted
  <2> QED BY <1>1, <1>5, <1>11, <2>1 DEF Counted
<1>13. Settled'
  <2>1. ASSUME (unfinished = Cardinality(Open))', NEW e \in (DOMAIN published \ Open)'
        PROVE  Reached(e, On)'
    <3>1. unfinished = Cardinality(Open)
      BY <1>1, <1>5, <1>11, <2>1
    <3>2. e \in 1..n /\ e \notin Open
      BY <1>1, <1>2, <1>10, <2>1
    <3>3. Reached(e, On)
      BY <1>1, <3>1, <3>2 DEF BusInv, Settled
    <3>4. e # c
      BY <1>3, <1>6, <3>2
    <3>5. \A H \in SUBSET Engines : Reached(e, H)' <=> Reached(e, H)
      BY <3>2, <3>4, ReachedStays
    <3>6. PICK H \in SUBSET Engines : H = On /\ H = On'
      BY <1>1
    <3>7. Reached(e, H)'
      BY <3>3, <3>5, <3>6
    <3> QED BY <3>6, <3>7 DEF Reached
  <2> QED BY <2>1 DEF Settled
<1> QED BY <1>7, <1>8, <1>9, <1>12, <1>13

----------
(* Steps that publish nothing and in which no engine works *)

Quiet ==
  /\ BusInv /\ published' = published /\ On' = On
  /\ \A h \in Engines : handled'[h] = handled[h]

LEMMA QuietReached ==
  ASSUME Quiet
  PROVE  Causes' /\ \A e : \A H \in SUBSET Engines : Reached(e, H)' <=> Reached(e, H)
<1>1. Causes'
  BY DEF Quiet, BusInv, Causes, Diagnosable
<1>2. ASSUME NEW e, NEW H \in SUBSET Engines PROVE Reached(e, H)' <=> Reached(e, H)
  <2>1. \A h \in Engines : Times(h, e)' = Times(h, e)
    BY DEF Quiet, Times
  <2>2. AnswersTo(e)' = AnswersTo(e) /\ published'[e] = published[e]
    BY DEF Quiet, AnswersTo
  <2>3. On \subseteq Engines /\ On' = On
    BY DEF Quiet, On
  <2> QED BY <2>1, <2>2, <2>3 DEF Reached
<1> QED BY <1>1, <1>2

LEMMA QuietFresh ==
  ASSUME Quiet, Range(queued') \subseteq Range(queued)
  PROVE  Fresh'
<1>1. \A e \in Range(queued') : Reached(e, {})
  BY DEF Quiet, BusInv, Fresh
<1>2. \A e \in Range(queued') : Reached(e, {})'
  BY <1>1, QuietReached
<1> QED BY <1>2 DEF Fresh

LEMMA QuietGoes ==
  ASSUME Quiet, NEW d, NEW e, NEW H \in SUBSET Engines, Reached(e, H),
         EnvOf(d)' = e, (On \ Uncalled(d))' = H
  PROVE  Reached(EnvOf(d), On \ Uncalled(d))'
<1>1. PICK x : x = e /\ x = EnvOf(d)'
  OBVIOUS
<1>2. Reached(x, H)'
  BY <1>1, QuietReached
<1> QED BY <1>1, <1>2 DEF Reached

\* Envelopes that are dropped stay unfinished.
LEMMA DroppedInv ==
  ASSUME Quiet, unfinished' = unfinished, Open' \subseteq Open
  PROVE  Counted' /\ Settled'
<1>1. /\ IsFiniteSet(Open) /\ Cardinality(Open) \in Nat /\ unfinished \in Int
      /\ Cardinality(Open) <= unfinished
  BY OpenIsPublished DEF Quiet, BusInv, Counted, PipelineTypes
<1>2. /\ IsFiniteSet(Open') /\ Cardinality(Open') <= Cardinality(Open)
      /\ Cardinality(Open') = Cardinality(Open) => Open' = Open
  BY <1>1, FS_Subset
<1>3. Cardinality(Open') \in Nat
  BY <1>2, FS_CardinalityType
<1>4. Counted'
  BY <1>1, <1>2, <1>3 DEF Counted
<1>5. ASSUME (unfinished = Cardinality(Open))', NEW e \in (DOMAIN published \ Open)'
      PROVE  Reached(e, On)'
  <2>1. Open' = Open /\ unfinished = Cardinality(Open)
    BY <1>1, <1>2, <1>3, <1>5
  <2>2. Reached(e, On)
    BY <1>5, <2>1 DEF Quiet, BusInv, Settled
  <2>3. PICK H \in SUBSET Engines : H = On /\ H = On'
    BY DEF Quiet, On
  <2>4. Reached(e, H)'
    BY <2>2, <2>3, QuietReached
  <2> QED BY <2>3, <2>4 DEF Reached
<1> QED BY <1>4, <1>5 DEF Settled

LEMMA AddHandlerInv ==
  ASSUME BusInv, NEW h \in Listeners, NEW key \in {"trace.created", "*"}, AddHandler(key, h)
  PROVE  BusInv'
<1> DEFINE s == subscribed[key]
<1>1. /\ subscribed \in [EventTypes \cup {"*"} -> Seq(Parties)]
      /\ subscribed' = [subscribed EXCEPT ![key] = Append(s, h)]
      /\ UNCHANGED <<published, queued, unfinished, dispatch, handled>>
      /\ key \in EventTypes \cup {"*"} /\ h \in Parties /\ h \notin Engines
  BY PipelineAssumption DEF BusInv, PipelineTypes, AddHandler, EventTypes, Parties
<1>2. s \in Seq(Parties)
  BY <1>1
<1>3. /\ Append(s, h) \in Seq(Parties) /\ Len(s) \in Nat
      /\ DOMAIN s = 1..Len(s) /\ DOMAIN Append(s, h) = 1..(Len(s) + 1)
      /\ \A i \in 1..Len(s) : Append(s, h)[i] = s[i]
      /\ Append(s, h)[Len(s) + 1] = h
      /\ Range(Append(s, h)) = Range(s) \cup {h}
  <2> HIDE DEF s
  <2> QED BY <1>1, <1>2, ListAppend
<1>4. EnginesOnce(s) => EnginesOnce(Append(s, h))
  <2>1. \A i \in 1..(Len(s) + 1) : i \in 1..Len(s) \/ i = Len(s) + 1
    BY <1>3
  <2> HIDE DEF s
  <2> QED BY <1>1, <1>3, <2>1 DEF EnginesOnce
<1>5. \A k \in EventTypes \cup {"*"} :
        Range(subscribed'[k]) \cap Engines = Range(subscribed[k]) \cap Engines
  BY <1>1, <1>3
<1>6. "trace.created" \in EventTypes
  BY DEF EventTypes
<1>7. On' = On /\ On \subseteq Engines
  BY <1>5, <1>6 DEF On
<1>8. Quiet
  BY <1>1, <1>7 DEF Quiet
<1>9. PipelineTypes'
  <2>1. subscribed' \in [EventTypes \cup {"*"} -> Seq(Parties)]
    BY <1>1, <1>3
  <2>2. Busy' = Busy /\ \A d \in Busy : EnvOf(d)' = EnvOf(d)
    BY <1>1 DEF Busy, EnvOf
  <2> QED BY <1>1, <2>1, <2>2 DEF BusInv, PipelineTypes
<1>10. CalledOnce'
  <2>1. \A type \in EventTypes : EnginesOnce(subscribed'[type])
    BY <1>1, <1>4 DEF BusInv, CalledOnce
  <2>2. Range(subscribed'["*"]) \cap Engines = {}
    BY <1>5 DEF BusInv, CalledOnce
  <2>3. Busy' = Busy /\ \A d \in Busy : EnvOf(d)' = EnvOf(d) /\ Uncalled(d)' = Uncalled(d)
    BY <1>1 DEF Busy, EnvOf, Uncalled
  <2> QED BY <1>1, <1>7, <2>1, <2>2, <2>3 DEF BusInv, CalledOnce
<1>11. Placed' /\ Open' = Open
  BY <1>1 DEF BusInv, Placed, Open, Busy, EnvOf
<1>12. Fresh'
  <2>1. Range(queued') \subseteq Range(queued)
    BY <1>1
  <2> QED BY <1>8, <2>1, QuietFresh
<1>13. Going'
  <2>1. ASSUME NEW d \in Busy PROVE Reached(EnvOf(d), On \ Uncalled(d))'
    <3>1. EnvOf(d)' = EnvOf(d) /\ (On \ Uncalled(d))' = On \ Uncalled(d) /\ On \ Uncalled(d) \in SUBSET Engines
      BY <1>1, <1>7 DEF EnvOf, Uncalled
    <3>2. Reached(EnvOf(d), On \ Uncalled(d))
      BY <2>1 DEF BusInv, Going
    <3> QED BY <1>8, <3>1, <3>2, QuietGoes
  <2>2. Busy' = Busy
    BY <1>1 DEF Busy
  <2> QED BY <2>1, <2>2 DEF Going
<1>14. Counted' /\ Settled'
  BY <1>1, <1>8, <1>11, DroppedInv
<1> QED BY <1>8, <1>9, <1>10, <1>11, <1>12, <1>13, <1>14, QuietReached DEF BusInv

LEMMA TakeInv ==
  ASSUME BusInv, NEW d \in Dispatchers, Take(d)
  PROVE  BusInv'
<1> DEFINE e == Head(queued)
           s == subscribed[published[e].type]
           t == subscribed["*"]
           todo == s \o t
           x == [env |-> e, suspended |-> FALSE, todo |-> todo]
<1>1. /\ PipelineTypes /\ CalledOnce /\ Placed
      /\ dispatch[d] = Nothing /\ queued # <<>> /\ queued \in Seq(Nat)
      /\ dispatch' = [dispatch EXCEPT ![d] = x] /\ queued' = Tail(queued)
      /\ UNCHANGED <<subscribed, published, unfinished, handled>>
  BY DEF BusInv, PipelineTypes, Take
<1>2. /\ 1 \in DOMAIN queued /\ Head(queued) = queued[1] /\ Head(queued) \in Nat
      /\ Tail(queued) \in Seq(Nat) /\ DOMAIN Tail(queued) = 1..(Len(queued) - 1)
      /\ \A i \in 1..(Len(queued) - 1) : i + 1 \in DOMAIN queued /\ Tail(queued)[i] = queued[i + 1]
      /\ Range(queued) = {Head(queued)} \cup Range(Tail(queued))
  BY <1>1, ListTail
<1>3. e \notin Range(Tail(queued))
  <2>1. \A i \in 1..(Len(queued) - 1) : queued[i + 1] # queued[1]
    <3> SUFFICES ASSUME NEW i \in 1..(Len(queued) - 1) PROVE queued[i + 1] # queued[1]
      OBVIOUS
    <3>1. i + 1 \in DOMAIN queued /\ i + 1 # 1
      BY <1>1, <1>2, LenProperties
    <3> QED BY <1>1, <1>2, <3>1 DEF Placed
  <2> QED BY <1>2, <2>1 DEF Range
<1>4. \A i, j \in DOMAIN Tail(queued) : Tail(queued)[i] = Tail(queued)[j] => i = j
  <2> SUFFICES ASSUME NEW i \in 1..(Len(queued) - 1), NEW j \in 1..(Len(queued) - 1),
                      queued[i + 1] = queued[j + 1]
               PROVE  i = j
    BY <1>2
  <2>1. i + 1 = j + 1
    BY <1>1, <1>2 DEF Placed
  <2> QED BY <2>1
<1>5. /\ e \in DOMAIN published /\ published[e].type \in EventTypes
      /\ s \in Seq(Parties) /\ t \in Seq(Parties) /\ EnginesOnce(s) /\ Range(t) \cap Engines = {}
  <2>1. e \in DOMAIN published
    BY <1>1, <1>2 DEF PipelineTypes
  <2>2. published[e] \in Made
    BY <1>1, <2>1, ElementOfSeq, LenProperties DEF PipelineTypes
  <2>3. published[e].type \in EventTypes
    BY <2>2, EnvelopeFacts
  <2> QED BY <1>1, <2>1, <2>3 DEF PipelineTypes, CalledOnce
<1>6. todo \in Seq(Parties) /\ Range(todo) = Range(s) \cup Range(t) /\ EnginesOnce(todo)
  <2>1. todo \in Seq(Parties) /\ Concats(todo, s, t)
    <3> HIDE DEF s, t
    <3> QED BY <1>5, ListConcat
  <2> HIDE DEF todo, s, t
  <2>2. EnginesOnce(todo)
    <3>1. \A i \in DOMAIN todo : todo[i] \in Engines => i \in DOMAIN s /\ todo[i] = s[i]
      <4> SUFFICES ASSUME NEW i \in DOMAIN todo, todo[i] \in Engines
                   PROVE  i \in DOMAIN s /\ todo[i] = s[i]
        OBVIOUS
      <4>1. CASE i \in 1..Len(s)
        BY <2>1, <4>1 DEF Concats
      <4>2. CASE \E k \in 1..Len(t) : i = Len(s) + k
        BY <1>5, <2>1, <4>2 DEF Concats, Range
      <4> QED BY <2>1, <4>1, <4>2 DEF Concats
    <3> QED BY <1>5, <3>1 DEF EnginesOnce
  <2> QED BY <2>1, <2>2 DEF Concats
<1> HIDE DEF todo, s, t, e
<1>7. /\ d \notin Busy /\ Busy' = Busy \cup {d}
      /\ EnvOf(d)' = e /\ Uncalled(d)' = Range(todo) \cap Engines
      /\ \A c \in Busy : c # d /\ dispatch'[c] = dispatch[c]
      /\ dispatch' \in [Dispatchers -> [env : Nat, todo : Seq(Parties), suspended : BOOLEAN]]
  <2>1. x \in [env : Nat, todo : Seq(Parties), suspended : BOOLEAN]
    BY <1>2, <1>6 DEF e
  <2>2. x # Nothing
    <3>1. e # 0
      BY <1>1, <1>5, LenProperties DEF PipelineTypes
    <3> QED BY <3>1 DEF Nothing
  <2>3. dispatch \in [Dispatchers -> [env : Nat, todo : Seq(Parties), suspended : BOOLEAN]]
    BY <1>1 DEF PipelineTypes
  <2>4. x.env = e /\ x.todo = todo
    OBVIOUS
  <2> HIDE DEF x
  <2> QED BY <1>1, <2>1, <2>2, <2>3, <2>4 DEF Busy, EnvOf, Uncalled
<1>8. \A c \in Busy : EnvOf(c)' = EnvOf(c) /\ Uncalled(c)' = Uncalled(c)
  BY <1>7 DEF EnvOf, Uncalled
<1>9. On' = On /\ On \subseteq Engines
  BY <1>1 DEF On
<1>10. Quiet
  BY <1>1, <1>9 DEF Quiet
<1>11. PipelineTypes'
  <2>1. /\ Range(queued') \subseteq DOMAIN published /\ queued' \in Seq(Nat)
    BY <1>1, <1>2 DEF PipelineTypes
  <2>2. \A c \in Busy' : EnvOf(c)' \in DOMAIN published'
    BY <1>1, <1>5, <1>7, <1>8 DEF PipelineTypes
  <2>3. \A c \in Dispatchers : dispatch'[c].suspended =>
          dispatch'[c].todo # <<>> /\ Head(dispatch'[c].todo) \in Listeners
    BY <1>1 DEF PipelineTypes
  <2> QED BY <1>1, <1>7, <2>1, <2>2, <2>3 DEF PipelineTypes
<1>12. EnvOf(d)' = e /\ dispatch'[d].todo = todo
  BY <1>1, <1>7 DEF PipelineTypes
<1>13. published[e].type = "trace.created" => Range(todo) \cap Engines = On
  BY <1>5, <1>6 DEF On, s
<1>14. CalledOnce'
  <2>1. \A c \in Busy' :
          /\ EnginesOnce(dispatch'[c].todo)
          /\ published'[EnvOf(c)'].type = "trace.created" => Uncalled(c)' \subseteq On'
    BY <1>1, <1>6, <1>7, <1>8, <1>9, <1>12, <1>13 DEF CalledOnce
  <2> QED BY <1>1, <2>1 DEF CalledOnce
<1>15. Placed'
  <2>1. e \in Range(queued)
    BY <1>2 DEF e
  <2>2. \A c \in Busy : EnvOf(c)' # e /\ EnvOf(c)' \notin Range(queued')
    BY <1>1, <1>2, <1>8, <2>1 DEF Placed
  <2>3. \A b, c \in Busy' : EnvOf(b)' = EnvOf(c)' => b = c
    BY <1>1, <1>7, <1>8, <2>2 DEF Placed
  <2>4. \A c \in Busy' : EnvOf(c)' \notin Range(queued')
    BY <1>1, <1>3, <1>7, <2>2
  <2> QED BY <1>1, <1>4, <2>3, <2>4 DEF Placed
<1>16. Open' = Open
  <2>1. Range(queued) = {e} \cup Range(queued')
    BY <1>1, <1>2 DEF e
  <2> QED BY <1>7, <1>8, <2>1 DEF Open
<1>17. Fresh'
  <2>1. Range(queued') \subseteq Range(queued)
    BY <1>1, <1>2
  <2> QED BY <1>10, <2>1, QuietFresh
<1>18. Going'
  <2>1. ASSUME NEW c \in Busy PROVE Reached(EnvOf(c), On \ Uncalled(c))'
    <3>1. EnvOf(c)' = EnvOf(c) /\ (On \ Uncalled(c))' = On \ Uncalled(c) /\ On \ Uncalled(c) \in SUBSET Engines
      BY <1>8, <1>9, <2>1
    <3>2. Reached(EnvOf(c), On \ Uncalled(c))
      BY <2>1 DEF BusInv, Going
    <3> QED BY <1>10, <3>1, <3>2, QuietGoes
  <2>2. Reached(EnvOf(d), On \ Uncalled(d))'
    <3>1. CASE published[e].type = "trace.created"
      <4>1. EnvOf(d)' = e /\ (On \ Uncalled(d))' = {} /\ {} \in SUBSET Engines
        BY <1>7, <1>9, <1>13, <3>1
      <4>2. Reached(e, {})
        BY <1>2 DEF BusInv, Fresh, e
      <4> QED BY <1>10, <4>1, <4>2, QuietGoes
    <3>2. CASE published[e].type # "trace.created"
      BY <1>1, <1>12, <3>2 DEF Reached
    <3> QED BY <3>1, <3>2
  <2> QED BY <1>7, <2>1, <2>2 DEF Going
<1>19. Counted' /\ Settled'
  BY <1>1, <1>10, <1>16, DroppedInv
<1> QED BY <1>10, <1>11, <1>14, <1>15, <1>17, <1>18, <1>19, QuietReached DEF BusInv

\* Dispatcher d goes on with the same envelope.
GoesOnWith(d, todo, b) ==
  /\ d \in Busy
  /\ todo \in Seq(Parties) /\ b \in BOOLEAN /\ (b => todo # <<>> /\ Head(todo) \in Listeners)
  /\ EnginesOnce(todo)
  /\ dispatch' = [dispatch EXCEPT ![d] = [env |-> EnvOf(d), todo |-> todo, suspended |-> b]]

LEMMA DispatchGoesOn ==
  ASSUME PipelineTypes, NEW d, NEW todo, NEW b, GoesOnWith(d, todo, b)
  PROVE  /\ Busy' = Busy /\ \A c \in Busy : EnvOf(c)' = EnvOf(c)
         /\ \A c \in Busy : c # d => dispatch'[c] = dispatch[c] /\ Uncalled(c)' = Uncalled(c)
         /\ dispatch'[d].todo = todo /\ Uncalled(d)' = Range(todo) \cap Engines
         /\ dispatch' \in [Dispatchers -> [env : Nat, todo : Seq(Parties), suspended : BOOLEAN]]
         /\ \A c \in Dispatchers : dispatch'[c].suspended =>
              dispatch'[c].todo # <<>> /\ Head(dispatch'[c].todo) \in Listeners
<1> DEFINE e == EnvOf(d)
           x == [env |-> e, todo |-> todo, suspended |-> b]
<1>1. /\ dispatch \in [Dispatchers -> [env : Nat, todo : Seq(Parties), suspended : BOOLEAN]]
      /\ d \in Busy /\ d \in Dispatchers /\ dispatch' = [dispatch EXCEPT ![d] = x]
      /\ todo \in Seq(Parties) /\ b \in BOOLEAN
      /\ b => todo # <<>> /\ Head(todo) \in Listeners
  BY DEF PipelineTypes, GoesOnWith, Busy
<1>2. e \in Nat /\ e # 0
  <2>1. EnvOf(d) \in 1..Len(published) /\ Len(published) \in Nat
    BY <1>1, LenProperties DEF PipelineTypes
  <2> QED BY <2>1
<1>3. /\ x \in [env : Nat, todo : Seq(Parties), suspended : BOOLEAN] /\ x # Nothing
      /\ x.env = e /\ x.todo = todo /\ x.suspended = b
  BY <1>1, <1>2 DEF Nothing
<1> HIDE DEF x, e
<1>4. dispatch'[d] = x /\ \A c \in Dispatchers : c # d => dispatch'[c] = dispatch[c]
  BY <1>1
<1>5. dispatch' \in [Dispatchers -> [env : Nat, todo : Seq(Parties), suspended : BOOLEAN]]
  BY <1>1, <1>3
<1>6. Busy' = Busy
  BY <1>1, <1>3, <1>4 DEF Busy
<1>7. \A c \in Busy : EnvOf(c)' = EnvOf(c)
  BY <1>3, <1>4 DEF Busy, EnvOf, e
<1>8. \A c \in Busy : c # d => dispatch'[c] = dispatch[c] /\ Uncalled(c)' = Uncalled(c)
  BY <1>4 DEF Busy, Uncalled
<1>9. dispatch'[d].todo = todo /\ Uncalled(d)' = Range(todo) \cap Engines
  BY <1>3, <1>4 DEF Uncalled
<1>10. \A c \in Dispatchers : dispatch'[c].suspended =>
         dispatch'[c].todo # <<>> /\ Head(dispatch'[c].todo) \in Listeners
  BY <1>1, <1>3, <1>4 DEF PipelineTypes
<1> QED BY <1>5, <1>6, <1>7, <1>8, <1>9, <1>10

\* A listener has suspended or has ended.
LEMMA ListenerStepInv ==
  ASSUME BusInv, NEW d, NEW todo, NEW b, GoesOnWith(d, todo, b),
         Range(todo) \cap Engines = Uncalled(d),
         UNCHANGED <<subscribed, published, queued, unfinished>>,
         handled' \in [Parties -> Seq(Nat)], \A h \in Engines : handled'[h] = handled[h]
  PROVE  BusInv'
<1>1. /\ PipelineTypes /\ CalledOnce /\ Placed /\ d \in Busy /\ EnginesOnce(todo)
      /\ UNCHANGED <<subscribed, published, queued, unfinished>>
      /\ \A h \in Engines : handled'[h] = handled[h]
  BY DEF BusInv, GoesOnWith
<1>2. /\ Busy' = Busy /\ \A c \in Busy : EnvOf(c)' = EnvOf(c)
      /\ \A c \in Busy : c # d => dispatch'[c] = dispatch[c] /\ Uncalled(c)' = Uncalled(c)
      /\ dispatch'[d].todo = todo /\ Uncalled(d)' = Range(todo) \cap Engines
      /\ dispatch' \in [Dispatchers -> [env : Nat, todo : Seq(Parties), suspended : BOOLEAN]]
      /\ \A c \in Dispatchers : dispatch'[c].suspended =>
           dispatch'[c].todo # <<>> /\ Head(dispatch'[c].todo) \in Listeners
  BY <1>1, DispatchGoesOn
<1>3. \A c \in Busy : Uncalled(c)' = Uncalled(c)
  BY <1>2
<1>4. On' = On /\ On \subseteq Engines
  BY <1>1 DEF On
<1>5. Quiet
  BY <1>1, <1>4 DEF Quiet
<1>6. PipelineTypes'
  <2>1. \A h \in Engines : Range(handled'[h]) \subseteq DOMAIN published'
    BY <1>1 DEF PipelineTypes
  <2>2. \A c \in Busy' : EnvOf(c)' \in DOMAIN published'
    BY <1>1, <1>2 DEF PipelineTypes
  <2> QED BY <1>1, <1>2, <2>1, <2>2 DEF PipelineTypes
<1>7. CalledOnce'
  <2>1. \A c \in Busy' :
          /\ EnginesOnce(dispatch'[c].todo)
          /\ published'[EnvOf(c)'].type = "trace.created" => Uncalled(c)' \subseteq On'
    BY <1>1, <1>2, <1>3, <1>4 DEF CalledOnce
  <2> QED BY <1>1, <2>1 DEF CalledOnce
<1>8. Placed' /\ Open' = Open
  BY <1>1, <1>2 DEF Placed, Open
<1>9. Fresh'
  <2>1. Range(queued') \subseteq Range(queued)
    BY <1>1
  <2> QED BY <1>5, <2>1, QuietFresh
<1>10. Going'
  <2>1. ASSUME NEW c \in Busy PROVE Reached(EnvOf(c), On \ Uncalled(c))'
    <3>1. EnvOf(c)' = EnvOf(c) /\ (On \ Uncalled(c))' = On \ Uncalled(c) /\ On \ Uncalled(c) \in SUBSET Engines
      BY <1>2, <1>3, <1>4, <2>1
    <3>2. Reached(EnvOf(c), On \ Uncalled(c))
      BY <2>1 DEF BusInv, Going
    <3> QED BY <1>5, <3>1, <3>2, QuietGoes
  <2> QED BY <1>2, <2>1 DEF Going
<1>11. Counted' /\ Settled'
  BY <1>1, <1>5, <1>8, DroppedInv
<1> QED BY <1>5, <1>6, <1>7, <1>8, <1>9, <1>10, <1>11, QuietReached DEF BusInv

LEMMA OnceTail ==
  ASSUME NEW s \in Seq(Parties), s # <<>>, EnginesOnce(s)
  PROVE  /\ EnginesOnce(Tail(s)) /\ Tail(s) \in Seq(Parties) /\ Head(s) \in Parties
         /\ Head(s) \in Engines =>
              /\ Head(s) \in Range(s)
              /\ Range(Tail(s)) \cap Engines = (Range(s) \cap Engines) \ {Head(s)}
         /\ Head(s) \notin Engines => Range(Tail(s)) \cap Engines = Range(s) \cap Engines
<1>1. /\ Len(s) \in Nat \ {0} /\ DOMAIN s = 1..Len(s) /\ 1 \in DOMAIN s
      /\ Head(s) = s[1] /\ Head(s) \in Parties
      /\ Tail(s) \in Seq(Parties) /\ DOMAIN Tail(s) = 1..(Len(s) - 1)
      /\ \A i \in 1..(Len(s) - 1) : i + 1 \in DOMAIN s /\ Tail(s)[i] = s[i + 1]
      /\ Range(s) = {Head(s)} \cup Range(Tail(s))
  BY ListTail
<1>2. EnginesOnce(Tail(s))
  <2> SUFFICES ASSUME NEW i \in 1..(Len(s) - 1), NEW j \in 1..(Len(s) - 1),
                      s[i + 1] = s[j + 1], s[i + 1] \in Engines
               PROVE  i = j
    BY <1>1 DEF EnginesOnce
  <2>1. i + 1 = j + 1
    BY <1>1 DEF EnginesOnce
  <2> QED BY <2>1
<1>3. Head(s) \in Engines => Head(s) \notin Range(Tail(s))
  <2>1. ASSUME NEW i \in 1..(Len(s) - 1), Head(s) \in Engines PROVE Tail(s)[i] # Head(s)
    <3>1. i + 1 \in DOMAIN s /\ i + 1 # 1
      BY <1>1
    <3> QED BY <1>1, <2>1, <3>1 DEF EnginesOnce
  <2> QED BY <1>1, <2>1 DEF Range
<1> QED BY <1>1, <1>2, <1>3

Task == [env : Nat, todo : Seq(Parties), suspended : BOOLEAN]

\* Fields of one dispatcher's task change.
LEMMA TaskSuspends ==
  ASSUME NEW f \in [Dispatchers -> Task], NEW g, NEW d \in Dispatchers,
         g = [f EXCEPT ![d].suspended = TRUE]
  PROVE  g = [f EXCEPT ![d] = [env |-> f[d].env, todo |-> f[d].todo, suspended |-> TRUE]]
<1>1. g[d] = [f[d] EXCEPT !.suspended = TRUE] /\ f[d] \in Task
  OBVIOUS
<1>2. g = [c \in Dispatchers |-> g[c]] /\ \A c \in Dispatchers : c # d => g[c] = f[c]
  OBVIOUS
<1>3. g[d] = [env |-> f[d].env, todo |-> f[d].todo, suspended |-> TRUE]
  BY <1>1 DEF Task
<1> QED BY <1>2, <1>3

LEMMA TaskGoesOn ==
  ASSUME NEW f \in [Dispatchers -> Task], NEW g, NEW d \in Dispatchers,
         g = [f EXCEPT ![d].suspended = FALSE, ![d].todo = Tail(@)]
  PROVE  g = [f EXCEPT ![d] = [env |-> f[d].env, todo |-> Tail(f[d].todo), suspended |-> FALSE]]
<1>1. /\ g[d] = [f[d] EXCEPT !.suspended = FALSE, !.todo = Tail(f[d].todo)]
      /\ f[d] \in Task
  OBVIOUS
<1>2. g = [c \in Dispatchers |-> g[c]] /\ \A c \in Dispatchers : c # d => g[c] = f[c]
  OBVIOUS
<1>3. g[d] = [env |-> f[d].env, todo |-> Tail(f[d].todo), suspended |-> FALSE]
  BY <1>1 DEF Task
<1> QED BY <1>2, <1>3

LEMMA SuspendInv ==
  ASSUME BusInv, NEW d \in Dispatchers, Suspend(d)
  PROVE  BusInv'
<1> DEFINE todo == dispatch[d].todo
<1>1. /\ PipelineTypes /\ todo # <<>> /\ Head(todo) \in Listeners
      /\ UNCHANGED <<subscribed, published, queued, unfinished, handled>>
      /\ dispatch' = [dispatch EXCEPT ![d].suspended = TRUE]
      /\ dispatch \in [Dispatchers -> [env : Nat, todo : Seq(Parties), suspended : BOOLEAN]]
  BY DEF BusInv, PipelineTypes, Suspend
<1>2. d \in Busy
  BY <1>1 DEF Busy, Nothing
<1>3. dispatch' = [dispatch EXCEPT ![d] = [env |-> EnvOf(d), todo |-> todo, suspended |-> TRUE]]
  <2>1. dispatch' = [dispatch EXCEPT ![d] =
                       [env |-> dispatch[d].env, todo |-> dispatch[d].todo, suspended |-> TRUE]]
    BY <1>1, TaskSuspends DEF Task
  <2> QED BY <2>1 DEF EnvOf
<1>4. GoesOnWith(d, todo, TRUE)
  <2>1. todo \in Seq(Parties) /\ EnginesOnce(todo)
    BY <1>1, <1>2 DEF BusInv, CalledOnce
  <2> HIDE DEF todo
  <2> QED BY <1>1, <1>2, <1>3, <2>1 DEF GoesOnWith
<1>5. handled' \in [Parties -> Seq(Nat)] /\ \A h \in Engines : handled'[h] = handled[h]
  BY <1>1 DEF PipelineTypes
<1>6. Range(todo) \cap Engines = Uncalled(d)
  BY DEF Uncalled
<1> HIDE DEF todo
<1> QED BY <1>1, <1>4, <1>5, <1>6, ListenerStepInv

\* A handler has gone through the envelope of dispatcher d.
LEMMA HandlerEndsFacts ==
  ASSUME BusInv, NEW d \in Dispatchers, dispatch[d].todo # <<>>,
         HandlerEnds(d, Head(dispatch[d].todo))
  PROVE  LET h == Head(dispatch[d].todo)
             e == EnvOf(d)
         IN  /\ GoesOnWith(d, Tail(dispatch[d].todo), FALSE)
             /\ h \in Parties /\ e \in Nat /\ handled[h] \in Seq(Nat)
             /\ handled' = [handled EXCEPT ![h] = Append(handled[h], e)]
             /\ handled' \in [Parties -> Seq(Nat)]
<1> DEFINE todo == dispatch[d].todo
           h == Head(todo)
           e == EnvOf(d)
<1>1. /\ PipelineTypes /\ todo # <<>>
      /\ dispatch' = [dispatch EXCEPT ![d].suspended = FALSE, ![d].todo = Tail(@)]
      /\ handled' = [handled EXCEPT ![h] = Append(@, dispatch[d].env)]
      /\ dispatch \in [Dispatchers -> [env : Nat, todo : Seq(Parties), suspended : BOOLEAN]]
      /\ handled \in [Parties -> Seq(Nat)]
  BY DEF BusInv, PipelineTypes, HandlerEnds
<1>2. d \in Busy
  BY <1>1 DEF Busy, Nothing
<1>3. todo \in Seq(Parties) /\ EnginesOnce(todo) /\ e \in Nat
  BY <1>1, <1>2 DEF BusInv, CalledOnce, EnvOf
<1>4. EnginesOnce(Tail(todo)) /\ Tail(todo) \in Seq(Parties) /\ h \in Parties
  <2> HIDE DEF todo
  <2> QED BY <1>1, <1>3, OnceTail
<1>5. dispatch' = [dispatch EXCEPT ![d] = [env |-> e, todo |-> Tail(todo), suspended |-> FALSE]]
  <2>1. dispatch' = [dispatch EXCEPT ![d] =
                       [env |-> dispatch[d].env, todo |-> Tail(dispatch[d].todo), suspended |-> FALSE]]
    BY <1>1, TaskGoesOn DEF Task
  <2> QED BY <2>1 DEF EnvOf
<1>6. GoesOnWith(d, Tail(todo), FALSE)
  <2> HIDE DEF todo
  <2> QED BY <1>2, <1>4, <1>5 DEF GoesOnWith
<1>7. /\ handled[h] \in Seq(Nat) /\ handled' = [handled EXCEPT ![h] = Append(handled[h], e)]
      /\ handled' \in [Parties -> Seq(Nat)]
  <2>1. handled[h] \in Seq(Nat) /\ handled' = [handled EXCEPT ![h] = Append(handled[h], e)]
    BY <1>1, <1>4 DEF EnvOf
  <2>2. Append(handled[h], e) \in Seq(Nat)
    BY <1>3, <2>1, AppendProperties
  <2> QED BY <1>1, <2>1, <2>2
<1> QED BY <1>3, <1>4, <1>6, <1>7

LEMMA ListenerEndsInv ==
  ASSUME BusInv, NEW d \in Dispatchers, ListenerEnds(d)
  PROVE  BusInv'
<1> DEFINE todo == dispatch[d].todo
           h == Head(todo)
<1>1. /\ PipelineTypes /\ CalledOnce /\ HandlerEnds(d, h) /\ dispatch[d].suspended
      /\ UNCHANGED <<subscribed, published, queued, unfinished>>
  BY DEF BusInv, ListenerEnds
<1>2. todo # <<>> /\ h \notin Engines /\ todo \in Seq(Parties)
  BY <1>1, PipelineAssumption DEF PipelineTypes
<1>3. /\ GoesOnWith(d, Tail(todo), FALSE)
      /\ handled' \in [Parties -> Seq(Nat)] /\ \A x \in Engines : handled'[x] = handled[x]
  <2>1. /\ GoesOnWith(d, Tail(todo), FALSE)
        /\ handled' = [handled EXCEPT ![h] = Append(handled[h], EnvOf(d))]
        /\ handled' \in [Parties -> Seq(Nat)]
    BY <1>1, <1>2, HandlerEndsFacts
  <2>2. handled \in [Parties -> Seq(Nat)] /\ Engines \subseteq Parties
    BY <1>1 DEF PipelineTypes, Parties
  <2> QED BY <1>2, <2>1, <2>2
<1>4. Range(Tail(todo)) \cap Engines = Uncalled(d)
  <2>1. EnginesOnce(todo)
    <3>1. d \in Busy
      BY <1>3 DEF GoesOnWith
    <3> QED BY <1>1, <3>1 DEF CalledOnce
  <2>2. Range(Tail(todo)) \cap Engines = Range(todo) \cap Engines
    <3> HIDE DEF todo
    <3> QED BY <1>2, <2>1, OnceTail
  <2> QED BY <2>2 DEF Uncalled
<1> HIDE DEF todo
<1> QED BY <1>1, <1>3, <1>4, ListenerStepInv

\* Dispatcher d has left its envelope.
Leaves(d) ==
  /\ d \in Busy /\ dispatch' = [dispatch EXCEPT ![d] = Nothing]
  /\ UNCHANGED <<subscribed, published, queued, handled>>

LEMMA LeavesFacts ==
  ASSUME BusInv, NEW d, Leaves(d), unfinished' \in Int
  PROVE  /\ Quiet /\ PipelineTypes' /\ CalledOnce' /\ Placed' /\ Fresh' /\ Going'
         /\ EnvOf(d) \in Open /\ Open' = Open \ {EnvOf(d)}
<1>1. /\ PipelineTypes /\ CalledOnce /\ Placed /\ d \in Busy /\ d \in Dispatchers
      /\ dispatch' = [dispatch EXCEPT ![d] = Nothing]
      /\ UNCHANGED <<subscribed, published, queued, handled>>
      /\ dispatch \in [Dispatchers -> Task]
  BY DEF BusInv, PipelineTypes, Leaves, Busy, Task
<1>2. Nothing \in Task /\ Nothing.suspended = FALSE
  BY EmptySeq DEF Nothing, Task
<1>3. /\ dispatch' \in [Dispatchers -> Task]
      /\ dispatch'[d] = Nothing /\ \A c \in Dispatchers : c # d => dispatch'[c] = dispatch[c]
  BY <1>1, <1>2
<1>4. Busy' = Busy \ {d}
  BY <1>3 DEF Busy
<1>5. \A c \in Busy \ {d} :
        EnvOf(c)' = EnvOf(c) /\ Uncalled(c)' = Uncalled(c) /\ dispatch'[c] = dispatch[c]
  BY <1>3 DEF Busy, EnvOf, Uncalled
<1>6. On' = On /\ On \subseteq Engines
  BY <1>1 DEF On
<1>7. Quiet
  BY <1>1, <1>6 DEF Quiet
<1>8. PipelineTypes'
  <2>1. \A c \in Busy' : EnvOf(c)' \in DOMAIN published'
    BY <1>1, <1>4, <1>5 DEF PipelineTypes
  <2>2. \A c \in Dispatchers : dispatch'[c].suspended =>
          dispatch'[c].todo # <<>> /\ Head(dispatch'[c].todo) \in Listeners
    BY <1>1, <1>2, <1>3 DEF PipelineTypes
  <2> QED BY <1>1, <1>3, <2>1, <2>2 DEF PipelineTypes, Task
<1>9. CalledOnce'
  <2>1. \A c \in Busy' :
          /\ EnginesOnce(dispatch'[c].todo)
          /\ published'[EnvOf(c)'].type = "trace.created" => Uncalled(c)' \subseteq On'
    BY <1>1, <1>4, <1>5, <1>6 DEF CalledOnce
  <2> QED BY <1>1, <2>1 DEF CalledOnce
<1>10. Placed'
  BY <1>1, <1>4, <1>5 DEF Placed
<1>11. Fresh'
  <2>1. Range(queued') \subseteq Range(queued)
    BY <1>1
  <2> QED BY <1>7, <2>1, QuietFresh
<1>12. Going'
  <2>1. ASSUME NEW c \in Busy \ {d} PROVE Reached(EnvOf(c), On \ Uncalled(c))'
    <3>1. EnvOf(c)' = EnvOf(c) /\ (On \ Uncalled(c))' = On \ Uncalled(c) /\ On \ Uncalled(c) \in SUBSET Engines
      BY <1>5, <1>6, <2>1
    <3>2. Reached(EnvOf(c), On \ Uncalled(c))
      BY <2>1 DEF BusInv, Going
    <3> QED BY <1>7, <3>1, <3>2, QuietGoes
  <2> QED BY <1>4, <2>1 DEF Going
<1>13. EnvOf(d) \in Open
  BY <1>1 DEF Open
<1>14. Open' = Open \ {EnvOf(d)}
  <2>1. \A c \in Busy \ {d} : EnvOf(c) # EnvOf(d)
    BY <1>1 DEF Placed
  <2>2. EnvOf(d) \notin Range(queued)
    BY <1>1 DEF Placed
  <2> QED BY <1>1, <1>4, <1>5, <2>1, <2>2 DEF Open
<1> QED BY <1>7, <1>8, <1>9, <1>10, <1>11, <1>12, <1>13, <1>14

LEMMA CancelInv ==
  ASSUME BusInv, NEW d \in Dispatchers, Cancel(d)
  PROVE  BusInv'
<1>1. d \in Busy
  BY DEF Cancel, Busy, Nothing
<1>2. Leaves(d) /\ unfinished' = unfinished /\ unfinished' \in Int
  BY <1>1 DEF Leaves, Cancel, BusInv, PipelineTypes
<1>3. /\ Quiet /\ PipelineTypes' /\ CalledOnce' /\ Placed' /\ Fresh' /\ Going'
      /\ Open' = Open \ {EnvOf(d)}
  BY <1>2, LeavesFacts
<1>4. Counted' /\ Settled'
  BY <1>2, <1>3, DroppedInv
<1> QED BY <1>3, <1>4, QuietReached DEF BusInv

\* All handlers of the envelope have gone through it: it may be settled.
LEMMA DoneInv ==
  ASSUME BusInv, NEW d \in Dispatchers, Done(d)
  PROVE  BusInv'
<1> DEFINE e == EnvOf(d)
<1>1. d \in Busy /\ dispatch[d].todo = <<>> /\ unfinished' = unfinished - 1 /\ unfinished \in Int
  BY DEF Done, Busy, BusInv, PipelineTypes
<1>2. Leaves(d) /\ unfinished' \in Int
  BY <1>1 DEF Leaves, Done
<1>3. /\ Quiet /\ PipelineTypes' /\ CalledOnce' /\ Placed' /\ Fresh' /\ Going'
      /\ e \in Open /\ Open' = Open \ {e}
  BY <1>2, LeavesFacts
<1>4. /\ IsFiniteSet(Open) /\ Cardinality(Open) \in Nat /\ Cardinality(Open) <= unfinished
      /\ Open \subseteq DOMAIN published
  BY OpenIsPublished DEF BusInv, Counted
<1>5. Cardinality(Open') = Cardinality(Open) - 1
  BY <1>3, <1>4, FS_RemoveElement
<1>6. Counted'
  BY <1>1, <1>4, <1>5 DEF Counted
<1>7. Reached(e, On)
  <2>1. Uncalled(d) = {}
    BY <1>1 DEF Uncalled, Range
  <2>2. Reached(EnvOf(d), On \ Uncalled(d))
    BY <1>1 DEF BusInv, Going
  <2>3. On \ Uncalled(d) = On
    BY <2>1
  <2> QED BY <2>2, <2>3
<1> HIDE DEF e
<1>8. ASSUME (unfinished = Cardinality(Open))', NEW x \in (DOMAIN published \ Open)'
      PROVE  Reached(x, On)'
  <2>1. unfinished = Cardinality(Open)
    BY <1>1, <1>4, <1>5, <1>8
  <2>2. x \in DOMAIN published /\ (x \notin Open \/ x = e)
    BY <1>3, <1>8 DEF Quiet
  <2>3. Reached(x, On)
    BY <1>7, <2>1, <2>2 DEF BusInv, Settled
  <2>4. PICK H \in SUBSET Engines : H = On /\ H = On'
    BY <1>3 DEF Quiet, On
  <2>5. Reached(x, H)'
    BY <1>3, <2>3, <2>4, QuietReached
  <2> QED BY <2>4, <2>5 DEF Reached
<1> QED BY <1>3, <1>6, <1>8, QuietReached DEF BusInv, Settled

LEMMA ClearInv ==
  ASSUME BusInv, Clear
  PROVE  BusInv'
<1>1. /\ PipelineTypes /\ CalledOnce /\ Placed /\ queued' = <<>>
      /\ UNCHANGED <<subscribed, published, unfinished, dispatch, handled>>
  BY DEF BusInv, Clear
<1>2. Range(queued') = {} /\ DOMAIN queued' = {} /\ queued' \in Seq(Nat)
  BY <1>1, EmptySeq DEF Range
<1>3. On' = On /\ On \subseteq Engines
  BY <1>1 DEF On
<1>4. Quiet
  BY <1>1, <1>3 DEF Quiet
<1>5. /\ Busy' = Busy
      /\ \A c \in Busy : EnvOf(c)' = EnvOf(c) /\ Uncalled(c)' = Uncalled(c) /\ dispatch'[c] = dispatch[c]
  BY <1>1 DEF Busy, EnvOf, Uncalled
<1>6. PipelineTypes'
  BY <1>1, <1>2, <1>5 DEF PipelineTypes
<1>7. CalledOnce'
  BY <1>1, <1>3, <1>5 DEF CalledOnce
<1>8. Placed'
  BY <1>1, <1>2, <1>5 DEF Placed
<1>9. Fresh'
  BY <1>2 DEF Fresh
<1>10. Going'
  <2>1. ASSUME NEW c \in Busy PROVE Reached(EnvOf(c), On \ Uncalled(c))'
    <3>1. EnvOf(c)' = EnvOf(c) /\ (On \ Uncalled(c))' = On \ Uncalled(c) /\ On \ Uncalled(c) \in SUBSET Engines
      BY <1>3, <1>5, <2>1
    <3>2. Reached(EnvOf(c), On \ Uncalled(c))
      BY <2>1 DEF BusInv, Going
    <3> QED BY <1>4, <3>1, <3>2, QuietGoes
  <2> QED BY <1>5, <2>1 DEF Going
<1>11. Open' \subseteq Open
  BY <1>2, <1>5 DEF Open
<1>12. Counted' /\ Settled'
  BY <1>1, <1>4, <1>11, DroppedInv
<1> QED BY <1>4, <1>6, <1>7, <1>8, <1>9, <1>10, <1>12, QuietReached DEF BusInv

----------
(* Steps that publish *)

LEMMA JoinedTypes ==
  ASSUME NEW c, NEW n, NEW m, Joined(c, n, m),
         dispatch' \in [Dispatchers -> Task], handled' \in [Parties -> Seq(Nat)],
         \A d \in Dispatchers : dispatch'[d].suspended =>
           dispatch'[d].todo # <<>> /\ Head(dispatch'[d].todo) \in Listeners
  PROVE  PipelineTypes'
<1>1. /\ PipelineTypes /\ n \in Nat /\ m \in Nat /\ n <= m
      /\ DOMAIN published = 1..n /\ DOMAIN published' = 1..m /\ published' \in Seq(Made)
      /\ queued' \in Seq(Nat) /\ Range(queued') = Range(queued) \cup (n + 1)..m
      /\ unfinished' = unfinished + (m - n) /\ subscribed' = subscribed
      /\ Busy' = Busy /\ \A d \in Busy : EnvOf(d)' = EnvOf(d)
      /\ \A h \in Engines : Range(handled'[h]) \subseteq 1..n
  BY DEF Joined, Joins, BusInv
<1>2. 1..n \subseteq 1..m /\ (n + 1)..m \subseteq 1..m
  BY <1>1
<1>3. Range(queued') \subseteq 1..m
  BY <1>1, <1>2 DEF PipelineTypes
<1>4. \A d \in Busy' : EnvOf(d)' \in 1..m
  BY <1>1, <1>2 DEF PipelineTypes
<1>5. unfinished' \in Int
  BY <1>1 DEF PipelineTypes
<1>6. subscribed' \in [EventTypes \cup {"*"} -> Seq(Parties)]
  BY <1>1 DEF PipelineTypes
<1> QED BY <1>1, <1>2, <1>3, <1>4, <1>5, <1>6 DEF PipelineTypes, Task

LEMMA JoinedCalls ==
  ASSUME NEW c, NEW n, NEW m, Joined(c, n, m),
         \A d \in Busy : EnginesOnce(dispatch'[d].todo) /\ Uncalled(d)' \subseteq Uncalled(d)
  PROVE  CalledOnce'
<1>1. /\ PipelineTypes /\ CalledOnce
      /\ DOMAIN published = 1..n /\ \A e \in 1..n : published'[e] = published[e]
      /\ subscribed' = subscribed /\ On' = On
      /\ Busy' = Busy /\ \A d \in Busy : EnvOf(d)' = EnvOf(d)
  BY DEF Joined, Joins, BusInv, On
<1>2. \A d \in Busy : published'[EnvOf(d)'].type = published[EnvOf(d)].type
  BY <1>1 DEF PipelineTypes
<1>3. \A d \in Busy' :
        /\ EnginesOnce(dispatch'[d].todo)
        /\ published'[EnvOf(d)'].type = "trace.created" => Uncalled(d)' \subseteq On'
  BY <1>1, <1>2 DEF CalledOnce
<1> QED BY <1>1, <1>3 DEF CalledOnce

LEMMA JoinedGoes ==
  ASSUME NEW c, NEW n, NEW m, Joined(c, n, m), NEW d \in Busy, EnvOf(d) # c, Uncalled(d)' = Uncalled(d)
  PROVE  Reached(EnvOf(d), On \ Uncalled(d))'
<1>1. /\ PipelineTypes /\ Going /\ DOMAIN published = 1..n /\ On' = On /\ On \subseteq Engines
      /\ EnvOf(d)' = EnvOf(d)
  BY DEF Joined, Joins, BusInv, On
<1>2. EnvOf(d) \in 1..n
  BY <1>1 DEF PipelineTypes
<1>3. Reached(EnvOf(d), On \ Uncalled(d))
  BY <1>1 DEF Going
<1>4. PICK H \in SUBSET Engines : H = On \ Uncalled(d) /\ H = (On \ Uncalled(d))'
  BY <1>1
<1>5. PICK e \in 1..n : e = EnvOf(d) /\ e = EnvOf(d)'
  BY <1>1, <1>2
<1>6. Reached(e, H)
  BY <1>3, <1>4, <1>5
<1>7. Reached(e, H)'
  BY <1>5, <1>4, <1>6, ReachedStays
<1> QED BY <1>4, <1>5, <1>7 DEF Reached

LEMMA ProduceInv ==
  ASSUME BusInv, NEW env \in Events, Produce(env)
  PROVE  BusInv'
<1> DEFINE n == Len(published)
           m == n + Len(<<env>>)
<1>1. /\ PipelineTypes /\ CalledOnce /\ Placed /\ Put(<<env>>)
      /\ UNCHANGED <<subscribed, dispatch, handled>>
  BY DEF BusInv, Produce
<1>2. env \in Made /\ env.cause = 0 /\ <<env>> \in Seq(Made)
  BY EnvelopeFacts
<1>3. /\ Joins(n, m)
      /\ \A e \in (n + 1)..m : \E k \in DOMAIN <<env>> : published'[e] = <<env>>[k]
      /\ \A i, j \in DOMAIN queued' : queued'[i] = queued'[j] => i = j
  BY <1>1, <1>2, PutJoins
<1>4. \A e \in (n + 1)..m : published'[e] = env
  <2>1. \A k \in DOMAIN <<env>> : <<env>>[k] = env
    OBVIOUS
  <2> HIDE DEF n, m
  <2> QED BY <1>3, <2>1
<1> HIDE DEF n, m
<1>5. /\ Busy' = Busy
      /\ \A d \in Busy : EnvOf(d)' = EnvOf(d) /\ Uncalled(d)' = Uncalled(d) /\ dispatch'[d] = dispatch[d]
  BY <1>1 DEF Busy, EnvOf, Uncalled
<1>6. Joined(0, n, m)
  <2>1. \A e \in (n + 1)..m : published'[e].cause = 0
    BY <1>2, <1>4
  <2>2. \A h \in Engines : Range(handled'[h]) \subseteq 1..n
    BY <1>1, <1>3 DEF PipelineTypes, Joins
  <2>3. \A h \in Engines : \A e \in Nat : Times(h, e)' = Times(h, e)
    BY <1>1 DEF Times
  <2> QED BY <1>1, <1>3, <1>5, <2>1, <2>2, <2>3 DEF Joined
<1>7. PipelineTypes'
  <2>1. dispatch \in [Dispatchers -> Task] /\ handled \in [Parties -> Seq(Nat)]
    BY <1>1 DEF PipelineTypes, Task
  <2>2. \A d \in Dispatchers : dispatch'[d].suspended =>
          dispatch'[d].todo # <<>> /\ Head(dispatch'[d].todo) \in Listeners
    BY <1>1 DEF PipelineTypes
  <2> QED BY <1>1, <1>6, <2>1, <2>2, JoinedTypes
<1>8. CalledOnce'
  <2>1. \A d \in Busy : EnginesOnce(dispatch'[d].todo) /\ Uncalled(d)' \subseteq Uncalled(d)
    BY <1>1, <1>5 DEF CalledOnce
  <2> QED BY <1>6, <2>1, JoinedCalls
<1>9. Going'
  <2>1. ASSUME NEW d \in Busy PROVE Reached(EnvOf(d), On \ Uncalled(d))'
    <3>1. EnvOf(d) # 0
      <4>1. EnvOf(d) \in 1..Len(published) /\ Len(published) \in Nat
        BY <1>1, LenProperties DEF PipelineTypes
      <4> QED BY <4>1
    <3> QED BY <1>5, <1>6, <3>1, JoinedGoes
  <2> QED BY <1>5, <2>1 DEF Going
<1> QED BY <1>6, <1>7, <1>8, <1>9, JoinedInv DEF BusInv

\* Handler h goes through envelope e once more.
OnceMore(h, e) ==
  /\ \A g \in Parties : \A x \in Nat : g # h \/ x # e => Times(g, x)' = Times(g, x)
  /\ Times(h, e) = {} => Cardinality(Times(h, e)') = 1

LEMMA OneMoreTime ==
  ASSUME NEW h \in Parties, NEW e \in Nat, handled \in [Parties -> Seq(Nat)],
         handled' = [handled EXCEPT ![h] = Append(handled[h], e)]
  PROVE  /\ OnceMore(h, e)
         /\ Range(handled'[h]) = Range(handled[h]) \cup {e}
         /\ \A g \in Parties : g # h => handled'[g] = handled[g]
<1> DEFINE s == handled[h]
<1>1. s \in Seq(Nat) /\ handled'[h] = Append(s, e)
  OBVIOUS
<1>2. \A g \in Parties : g # h => handled'[g] = handled[g]
  OBVIOUS
<1> HIDE DEF s
<1>3. /\ Len(s) \in Nat /\ DOMAIN s = 1..Len(s) /\ DOMAIN Append(s, e) = 1..(Len(s) + 1)
      /\ \A i \in 1..Len(s) : Append(s, e)[i] = s[i]
      /\ Append(s, e)[Len(s) + 1] = e
      /\ Range(Append(s, e)) = Range(s) \cup {e}
  BY <1>1, ListAppend
<1>4. \A i : i \in 1..(Len(s) + 1) <=> i \in 1..Len(s) \/ i = Len(s) + 1
  BY <1>3
<1>5. \A x \in Nat : x # e => Times(h, x)' = Times(h, x)
  <2> SUFFICES ASSUME NEW x \in Nat, x # e PROVE Times(h, x)' = Times(h, x)
    OBVIOUS
  <2>1. {k \in 1..(Len(s) + 1) : Append(s, e)[k] = x} = {k \in 1..Len(s) : s[k] = x}
    BY <1>3, <1>4
  <2>2. Times(h, x)' = {k \in 1..(Len(s) + 1) : Append(s, e)[k] = x}
    BY <1>1, <1>3 DEF Times
  <2>3. Times(h, x) = {k \in 1..Len(s) : s[k] = x}
    BY <1>3 DEF Times, s
  <2> QED BY <2>1, <2>2, <2>3
<1>6. \A g \in Parties : \A x \in Nat : g # h => Times(g, x)' = Times(g, x)
  BY <1>2 DEF Times
<1>7. ASSUME Times(h, e) = {} PROVE Cardinality(Times(h, e)') = 1
  <2>1. \A k \in 1..Len(s) : s[k] # e
    BY <1>3, <1>7 DEF Times, s
  <2>2. {k \in 1..(Len(s) + 1) : Append(s, e)[k] = e} = {Len(s) + 1}
    BY <1>3, <1>4, <2>1
  <2>3. Times(h, e)' = {Len(s) + 1}
    BY <1>1, <1>3, <2>2 DEF Times
  <2> QED BY <2>3, FS_Singleton
<1>8. Range(handled'[h]) = Range(handled[h]) \cup {e}
  BY <1>1, <1>3 DEF s
<1> QED BY <1>2, <1>5, <1>6, <1>7, <1>8 DEF OnceMore

\* What an engine publishes.
LEMMA ResponseFacts ==
  ASSUME PipelineTypes, NEW e \in DOMAIN published
  PROVE  /\ Response(e) \in Seq(Made) /\ e \in Nat \ {0}
         /\ Len(Response(e)) = IF Diagnosable(published[e]) THEN 1 ELSE 0
         /\ \A k \in DOMAIN Response(e) :
              /\ Response(e)[k].cause = e /\ Response(e)[k].type = "optimization.detected"
              /\ Diagnosable(published[e])
<1>1. e \in Nat \ {0} /\ published[e] \in Made
  <2>1. published \in Seq(Made)
    BY DEF PipelineTypes
  <2>2. e \in 1..Len(published) /\ Len(published) \in Nat
    BY <2>1, LenProperties
  <2> QED BY <2>1, <2>2, ElementOfSeq
<1>2. CASE Diagnosable(published[e])
  <2>1. PICK x : x = Optimization(published[e], e)
    OBVIOUS
  <2>2. x \in Made /\ x.cause = e /\ x.type = "optimization.detected"
    BY <1>1, <1>2, <2>1, EnvelopeFacts
  <2>3. Response(e) = <<x>>
    BY <1>2, <2>1 DEF Response
  <2> QED BY <1>1, <1>2, <2>2, <2>3
<1>3. CASE ~Diagnosable(published[e])
  <2>1. Response(e) = <<>>
    BY <1>3 DEF Response
  <2>2. <<>> \in Seq(Made) /\ Len(<<>>) = 0 /\ DOMAIN <<>> = {}
    BY EmptySeq
  <2> QED BY <1>1, <1>3, <2>1, <2>2
<1> QED BY <1>2, <1>3

ReachesNow(e, H) == Reached(e, H)'

LEMMA OneFurther ==
  ASSUME NEW n \in Nat
  PROVE  1..(n + 1) = 1..n \cup {n + 1}
OBVIOUS

\* The trace has reached one more engine, which has answered it if it could.
LEMMA ReachesOneMore ==
  ASSUME NEW e, NEW n, NEW m, Joined(e, n, m), Engines \subseteq Parties,
         NEW H \in SUBSET Engines, NEW h \in On \ H, Reached(e, H), e \in 1..n,
         published[e].type = "trace.created",
         handled \in [Parties -> Seq(Nat)],
         handled' = [handled EXCEPT ![h] = Append(handled[h], e)],
         m = n + (IF Diagnosable(published[e]) THEN 1 ELSE 0),
         \A x \in (n + 1)..m : published'[x].cause = e
  PROVE  ReachesNow(e, H \cup {h})
<1>1. /\ n \in Nat /\ m \in Nat
      /\ DOMAIN published = 1..n /\ DOMAIN published' = 1..m
      /\ \A x \in 1..n : published'[x] = published[x]
      /\ On' = On /\ On \subseteq Engines /\ e \in Nat /\ h \in Parties
  BY DEF Joined, Joins, On
<1>2. OnceMore(h, e)
  BY <1>1, OneMoreTime
<1>3. \A g \in Parties : g # h => Times(g, e)' = Times(g, e)
  BY <1>1, <1>2 DEF OnceMore
<1>4. Cardinality(Times(h, e)') = 1
  BY <1>2 DEF Reached, OnceMore
<1>5. \A g \in H \cup {h} : Cardinality(Times(g, e)') = 1
  <2> SUFFICES ASSUME NEW g \in H, g # h PROVE Cardinality(Times(g, e)') = 1
    BY <1>4
  <2> QED BY <1>3 DEF Reached
<1>6. \A g \in On' \ (H \cup {h}) : Times(g, e)' = {}
  BY <1>1, <1>3 DEF Reached
<1>7. ASSUME Diagnosable(published[e])
      PROVE  Cardinality(AnswersTo(e)') = Cardinality(H \cup {h})
  <2>1. m = n + 1 /\ \A o : o \in 1..(n + 1) <=> o \in 1..n \/ o = n + 1
    <3>1. m = n + 1
      BY <1>7
    <3>2. n \in Nat
      BY <1>1
    <3>3. 1..(n + 1) = 1..n \cup {n + 1}
      BY <3>2, OneFurther
    <3> QED BY <3>1, <3>3
  <2>2. published'[n + 1].cause = e /\ n + 1 \notin 1..n
    BY <1>1, <2>1
  <2>3. AnswersTo(e)' = AnswersTo(e) \cup {n + 1}
    BY <1>1, <2>1, <2>2 DEF AnswersTo
  <2>4. n + 1 \notin AnswersTo(e) /\ AnswersTo(e) \subseteq 1..n
    BY <1>1, <2>2 DEF AnswersTo
  <2>5. IsFiniteSet(AnswersTo(e))
    <3>1. IsFiniteSet(1..n)
      BY <1>1, FS_Interval
    <3> QED BY <2>4, <3>1, FS_Subset
  <2>6. Cardinality(AnswersTo(e)') = Cardinality(AnswersTo(e)) + 1
    BY <2>3, <2>4, <2>5, FS_AddElement
  <2>7. IsFiniteSet(H)
    BY PipelineAssumption, FS_Subset
  <2>8. Cardinality(H \cup {h}) = Cardinality(H) + 1
    BY <2>7, FS_AddElement
  <2> QED BY <1>7, <2>6, <2>8 DEF Reached
<1>8. Diagnosable(published'[e]) <=> Diagnosable(published[e])
  BY <1>1
<1> QED BY <1>5, <1>6, <1>7, <1>8 DEF ReachesNow, Reached, Diagnosable

LEMMA EngineEndsInv ==
  ASSUME BusInv, NEW d \in Dispatchers, EngineEnds(d)
  PROVE  BusInv'
<1>0. PICK e, h, rest, new, n, m :
        /\ e = EnvOf(d) /\ h = Head(dispatch[d].todo) /\ rest = Tail(dispatch[d].todo)
        /\ new = Response(e) /\ n = Len(published) /\ m = n + Len(new)
  OBVIOUS
<1>1. /\ PipelineTypes /\ CalledOnce /\ Placed /\ Going /\ Put(new)
      /\ HandlerEnds(d, h) /\ dispatch[d].todo # <<>> /\ h \in Engines
      /\ subscribed' = subscribed
      /\ Engines \subseteq Parties /\ handled \in [Parties -> Seq(Nat)]
  BY <1>0 DEF BusInv, PipelineTypes, EngineEnds, EnvOf, Parties
<1>2. /\ GoesOnWith(d, rest, FALSE) /\ h \in Parties /\ e \in Nat
      /\ handled' = [handled EXCEPT ![h] = Append(handled[h], e)]
      /\ handled' \in [Parties -> Seq(Nat)]
  BY <1>0, <1>1, HandlerEndsFacts
<1>3. /\ d \in Busy /\ Busy' = Busy /\ \A c \in Busy : EnvOf(c)' = EnvOf(c)
      /\ \A c \in Busy : c # d => dispatch'[c] = dispatch[c] /\ Uncalled(c)' = Uncalled(c)
      /\ dispatch'[d].todo = rest /\ Uncalled(d)' = Range(rest) \cap Engines
      /\ dispatch' \in [Dispatchers -> Task]
      /\ \A c \in Dispatchers : dispatch'[c].suspended =>
           dispatch'[c].todo # <<>> /\ Head(dispatch'[c].todo) \in Listeners
      /\ EnginesOnce(rest)
  BY <1>1, <1>2, DispatchGoesOn DEF GoesOnWith, Task
<1>4. e \in DOMAIN published /\ e \in Open /\ e \notin Range(queued)
  BY <1>0, <1>1, <1>3 DEF PipelineTypes, Placed, Open
<1>5. h \in Uncalled(d) /\ Uncalled(d)' = Uncalled(d) \ {h}
  <2>1. dispatch[d].todo \in Seq(Parties) /\ EnginesOnce(dispatch[d].todo)
    BY <1>1, <1>3 DEF PipelineTypes, CalledOnce
  <2>2. h \in Range(dispatch[d].todo) /\ Range(rest) \cap Engines = (Range(dispatch[d].todo) \cap Engines) \ {h}
    BY <1>0, <1>1, <2>1, OnceTail
  <2> QED BY <1>0, <1>1, <1>3, <2>2 DEF Uncalled
<1>6. /\ new \in Seq(Made) /\ e # 0
      /\ Len(new) = IF Diagnosable(published[e]) THEN 1 ELSE 0
      /\ \A k \in DOMAIN new : /\ new[k].cause = e /\ new[k].type = "optimization.detected"
                               /\ Diagnosable(published[e])
  BY <1>0, <1>1, <1>4, ResponseFacts
<1>7. /\ Joins(n, m)
      /\ \A x \in (n + 1)..m : \E k \in DOMAIN new : published'[x] = new[k]
      /\ \A i, j \in DOMAIN queued' : queued'[i] = queued'[j] => i = j
  BY <1>0, <1>1, <1>6, PutJoins
<1>8. \A x \in (n + 1)..m :
        /\ published'[x].cause = e /\ published'[x].type = "optimization.detected"
        /\ Diagnosable(published[e])
  BY <1>6, <1>7
<1>9. e \in 1..n
  BY <1>4, <1>7 DEF Joins
<1>10. Joined(e, n, m)
  <2>1. \A g \in Engines : Range(handled'[g]) \subseteq 1..n
    <3>1. \A g \in Engines : Range(handled[g]) \subseteq 1..n
      BY <1>1, <1>7 DEF PipelineTypes, Joins
    <3>2. Range(handled'[h]) = Range(handled[h]) \cup {e}
      BY <1>1, <1>2, OneMoreTime
    <3>3. \A g \in Parties : g # h => handled'[g] = handled[g]
      BY <1>1, <1>2, OneMoreTime
    <3> QED BY <1>1, <1>9, <3>1, <3>2, <3>3
  <2>2. \A g \in Engines : \A x \in Nat : x # e => Times(g, x)' = Times(g, x)
    <3>1. OnceMore(h, e)
      BY <1>1, <1>2, OneMoreTime
    <3> QED BY <1>1, <3>1 DEF OnceMore
  <2> QED BY <1>1, <1>2, <1>3, <1>4, <1>7, <1>8, <2>1, <2>2 DEF Joined
<1>11. PipelineTypes'
  BY <1>2, <1>3, <1>10, JoinedTypes
<1>12. CalledOnce'
  <2>1. \A c \in Busy : EnginesOnce(dispatch'[c].todo) /\ Uncalled(c)' \subseteq Uncalled(c)
    BY <1>1, <1>3, <1>5 DEF CalledOnce
  <2> QED BY <1>10, <2>1, JoinedCalls
<1>13. Going'
  <2>1. ASSUME NEW c \in Busy, c # d PROVE Reached(EnvOf(c), On \ Uncalled(c))'
    <3>1. EnvOf(c) # e
      BY <1>0, <1>1, <1>3, <2>1 DEF Placed
    <3> QED BY <1>3, <1>10, <2>1, <3>1, JoinedGoes
  <2>2. Reached(EnvOf(d), On \ Uncalled(d))'
    <3>1. EnvOf(d)' = e /\ On' = On /\ On \subseteq Engines /\ published'[e] = published[e]
      BY <1>0, <1>1, <1>3, <1>7, <1>9 DEF On, Joins
    <3>2. CASE published[e].type = "trace.created"
      <4>1. PICK H \in SUBSET Engines : H = On \ Uncalled(d)
        BY <3>1
      <4>2. Uncalled(d) \subseteq On /\ h \in On \ H
        BY <1>0, <1>1, <1>3, <1>5, <3>2, <4>1 DEF CalledOnce
      <4>3. Reached(e, H)
        BY <1>0, <1>1, <1>3, <4>1 DEF Going
      <4>4. m = n + (IF Diagnosable(published[e]) THEN 1 ELSE 0)
        BY <1>0, <1>6
      <4>5. \A x \in (n + 1)..m : published'[x].cause = e
        BY <1>8
      <4>6. ReachesNow(e, H \cup {h})
        BY <1>1, <1>2, <1>9, <1>10, <3>2, <4>2, <4>3, <4>4, <4>5, ReachesOneMore
      <4>7. (On \ Uncalled(d))' = H \cup {h}
        BY <1>5, <3>1, <4>1, <4>2
      <4>8. PICK K : K = H \cup {h} /\ K = (On \ Uncalled(d))'
        BY <4>7
      <4> QED BY <3>1, <4>6, <4>8 DEF ReachesNow, Reached
    <3>3. CASE published[e].type # "trace.created"
      BY <3>1, <3>3 DEF Reached
    <3> QED BY <3>2, <3>3
  <2> QED BY <1>3, <2>1, <2>2 DEF Going
<1> QED BY <1>10, <1>11, <1>12, <1>13, JoinedInv DEF BusInv

----------
(* The bus of an executed pipeline, the initial states, and the theorem *)

LEMMA ExecutePipelineInv ==
  ASSUME BusInv, NEW w \in DOMAIN Workloads, ExecutePipeline(w)
  PROVE  PipelineInv'
<1>1. rows' # None
  BY PipelineAssumption DEF ExecutePipeline
<1>2. unfinished' = unfinished + 4
  BY DEF ExecutePipeline, Put
<1>3. /\ Cardinality(Open) \in Nat /\ unfinished \in Int /\ Cardinality(Open) <= unfinished
  BY OpenIsPublished DEF BusInv, Counted, PipelineTypes
<1>4. unfinished' > 0
  BY <1>2, <1>3
<1> QED BY <1>1, <1>4 DEF PipelineInv

LEMMA InitPipelineInv ==
  ASSUME PipelineInit
  PROVE  PipelineInv
<1>0. PICK S \in SUBSET Engines : \E engines \in SetToSeqs(S) :
        BusInit([key \in EventTypes \cup {"*"} |->
                  IF key \in {"trace.created", "workload.completed"} THEN engines
                  ELSE <<>>],
               Engines \cup Listeners)
  BY DEF PipelineInit
<1>1. PICK engines \in SetToSeqs(S) :
        BusInit([key \in EventTypes \cup {"*"} |->
                  IF key \in {"trace.created", "workload.completed"} THEN engines
                  ELSE <<>>],
               Engines \cup Listeners)
  BY <1>0
<1>2. engines \in Seq(Parties) /\ EnginesOnce(engines)
  <2>1. IsFiniteSet(S) /\ Cardinality(S) \in Nat
    BY PipelineAssumption, FS_Subset, FS_CardinalityType
  <2>2. /\ engines \in [1..Cardinality(S) -> S]
        /\ \A i, j \in 1..Cardinality(S) : i # j => engines[i] # engines[j]
    BY DEF SetToSeqs
  <2>3. engines \in Seq(S) /\ S \subseteq Parties
    BY <2>1, <2>2 DEF Parties
  <2> QED BY <2>2, <2>3 DEF EnginesOnce
<1>3. /\ subscribed \in [EventTypes \cup {"*"} -> Seq(Parties)]
      /\ \A type \in EventTypes : EnginesOnce(subscribed[type])
      /\ subscribed["*"] = <<>>
  <2>1. <<>> \in Seq(Parties) /\ EnginesOnce(<<>>)
    BY EmptySeq DEF EnginesOnce
  <2>2. subscribed = [key \in EventTypes \cup {"*"} |->
                       IF key \in {"trace.created", "workload.completed"} THEN engines ELSE <<>>]
    BY <1>1 DEF BusInit
  <2>3. "*" \notin {"trace.created", "workload.completed"}
    OBVIOUS
  <2> QED BY <1>2, <2>1, <2>2, <2>3
<1>4. /\ published = <<>> /\ queued = <<>> /\ unfinished = 0
      /\ dispatch = [d \in Dispatchers |-> Nothing]
      /\ handled = [h \in Parties |-> <<>>]
  BY <1>1 DEF BusInit, Parties
<1>5. /\ <<>> \in Seq(Made) /\ <<>> \in Seq(Nat) /\ <<>> \in Seq(Parties)
      /\ DOMAIN <<>> = {} /\ Range(<<>>) = {}
  BY EmptySeq DEF Range
<1>6. Busy = {}
  BY <1>4 DEF Busy
<1>7. Open = {} /\ Cardinality(Open) = 0
  BY <1>4, <1>5, <1>6, FS_EmptySet DEF Open
<1>8. PipelineTypes
  <2>1. dispatch \in [Dispatchers -> [env : Nat, todo : Seq(Parties), suspended : BOOLEAN]]
    BY <1>4, <1>5 DEF Nothing
  <2>2. \A d \in Dispatchers : ~dispatch[d].suspended
    BY <1>4 DEF Nothing
  <2>3. handled \in [Parties -> Seq(Nat)] /\ \A h \in Engines : Range(handled[h]) = {}
    BY <1>4, <1>5 DEF Parties
  <2>4. /\ published \in Seq(Made) /\ queued \in Seq(Nat) /\ unfinished \in Int
        /\ Range(queued) \subseteq DOMAIN published
        /\ \A h \in Engines : Range(handled[h]) \subseteq DOMAIN published
    BY <1>4, <1>5, <2>3
  <2> QED BY <1>3, <1>6, <2>1, <2>2, <2>3, <2>4 DEF PipelineTypes
<1>9. CalledOnce
  BY <1>3, <1>5, <1>6 DEF CalledOnce
<1>10. Causes /\ Placed /\ Fresh /\ Going
  BY <1>4, <1>5, <1>6 DEF Causes, Placed, Fresh, Going
<1>11. Counted /\ Settled
  BY <1>4, <1>5, <1>7 DEF Counted, Settled
<1>12. rows = None
  BY DEF PipelineInit
<1> QED BY <1>8, <1>9, <1>10, <1>11, <1>12 DEF PipelineInv, BusInv

LEMMA SameBusInv ==
  ASSUME BusInv, UNCHANGED <<subscribed, published, queued, unfinished, dispatch, handled>>
  PROVE  BusInv'
<1>1. /\ PipelineTypes /\ On' = On /\ On \subseteq Engines
      /\ UNCHANGED <<subscribed, published, queued, unfinished, dispatch, handled>>
  BY DEF BusInv, On
<1>2. Quiet
  BY <1>1 DEF Quiet
<1>3. /\ Busy' = Busy /\ Open' = Open
      /\ \A d \in Busy : EnvOf(d)' = EnvOf(d) /\ Uncalled(d)' = Uncalled(d)
  BY <1>1 DEF Busy, Open, EnvOf, Uncalled
<1>4. PipelineTypes' /\ CalledOnce' /\ Placed'
  BY <1>1, <1>3 DEF BusInv, PipelineTypes, CalledOnce, Placed
<1>5. Fresh'
  BY <1>1, <1>2, QuietFresh
<1>6. Going'
  <2>1. ASSUME NEW d \in Busy PROVE Reached(EnvOf(d), On \ Uncalled(d))'
    <3>1. EnvOf(d)' = EnvOf(d) /\ (On \ Uncalled(d))' = On \ Uncalled(d) /\ On \ Uncalled(d) \in SUBSET Engines
      BY <1>1, <1>3
    <3>2. Reached(EnvOf(d), On \ Uncalled(d))
      BY <2>1 DEF BusInv, Going
    <3> QED BY <1>2, <3>1, <3>2, QuietGoes
  <2> QED BY <1>3, <2>1 DEF Going
<1>7. Counted' /\ Settled'
  BY <1>1, <1>2, <1>3, DroppedInv
<1> QED BY <1>2, <1>4, <1>5, <1>6, <1>7, QuietReached DEF BusInv

LEMMA NextPipelineInv ==
  ASSUME PipelineInv, [PipelineNext]_pipelineVars
  PROVE  PipelineInv'
<1>1. CASE UNCHANGED pipelineVars
  <2>1. CASE rows = None
    <3>1. BusInv'
      BY <1>1, <2>1, SameBusInv DEF pipelineVars, PipelineInv
    <3> QED BY <1>1, <2>1, <3>1 DEF pipelineVars, PipelineInv
  <2>2. CASE rows # None
    BY <1>1, <2>2 DEF pipelineVars, PipelineInv
  <2> QED BY <2>1, <2>2
<1>2. CASE PipelineNext
  <2>1. BusInv /\ rows = None
    BY <1>2 DEF PipelineNext, PipelineInv
  <2>2. ASSUME UNCHANGED rows, BusInv' PROVE PipelineInv'
    BY <2>1, <2>2 DEF PipelineInv
  <2>3. ASSUME NEW env \in Events, Produce(env), UNCHANGED rows PROVE PipelineInv'
    BY <2>1, <2>2, <2>3, ProduceInv
  <2>4. ASSUME NEW h \in Listeners, NEW key \in {"trace.created", "*"},
               AddHandler(key, h), UNCHANGED rows
        PROVE  PipelineInv'
    BY <2>1, <2>2, <2>4, AddHandlerInv
  <2>5. ASSUME NEW d \in Dispatchers, UNCHANGED rows,
               Take(d) \/ Suspend(d) \/ ListenerEnds(d) \/ EngineEnds(d) \/ Done(d) \/ Cancel(d)
        PROVE  PipelineInv'
    <3>1. CASE Take(d)
      BY <2>1, <2>2, <2>5, <3>1, TakeInv
    <3>2. CASE Suspend(d)
      BY <2>1, <2>2, <2>5, <3>2, SuspendInv
    <3>3. CASE ListenerEnds(d)
      BY <2>1, <2>2, <2>5, <3>3, ListenerEndsInv
    <3>4. CASE EngineEnds(d)
      BY <2>1, <2>2, <2>5, <3>4, EngineEndsInv
    <3>5. CASE Done(d)
      BY <2>1, <2>2, <2>5, <3>5, DoneInv
    <3>6. CASE Cancel(d)
      BY <2>1, <2>2, <2>5, <3>6, CancelInv
    <3> QED BY <2>5, <3>1, <3>2, <3>3, <3>4, <3>5, <3>6
  <2>6. ASSUME Clear, UNCHANGED rows PROVE PipelineInv'
    BY <2>1, <2>2, <2>6, ClearInv
  <2>7. ASSUME NEW w \in DOMAIN Workloads, ExecutePipeline(w) PROVE PipelineInv'
    BY <2>1, <2>7, ExecutePipelineInv
  <2> QED BY <1>2, <2>3, <2>4, <2>5, <2>6, <2>7 DEF PipelineNext
<1> QED BY <1>1, <1>2

LEMMA AllAreAnswered ==
  ASSUME PipelineInv
  PROVE  JoinMeansAnswered
<1> SUFFICES ASSUME unfinished = 0, NEW e \in DOMAIN published
             PROVE  /\ published[e].type = "trace.created" =>
                         \A h \in On : Cardinality(Times(h, e)) = 1
                    /\ Cardinality(AnswersTo(e))
                         = IF Diagnosable(published[e]) THEN Cardinality(On) ELSE 0
                    /\ \A o \in AnswersTo(e) : o > e /\ published[o].type = "optimization.detected"
  BY DEF JoinMeansAnswered, On, Times, AnswersTo
<1>1. BusInv
  BY DEF PipelineInv
<1>2. DOMAIN published = 1..Len(published) /\ Len(published) \in Nat
  BY <1>1, OpenIsPublished DEF BusInv
<1>3. e \in Nat \ {0}
  BY <1>2
<1>4. Open = {} /\ Cardinality(Open) = 0
  <2>1. IsFiniteSet(Open) /\ Cardinality(Open) \in Nat /\ Cardinality(Open) <= 0
    BY <1>1, OpenIsPublished DEF BusInv, Counted
  <2>2. Cardinality(Open) = 0
    BY <2>1
  <2> QED BY <2>1, <2>2, FS_EmptySet
<1>5. Reached(e, On)
  BY <1>1, <1>4 DEF BusInv, Settled
<1>6. \A o \in AnswersTo(e) :
        /\ o > e /\ published[o].type = "optimization.detected" /\ Diagnosable(published[e])
  <2> SUFFICES ASSUME NEW o \in DOMAIN published, published[o].cause = e
               PROVE  /\ o > e /\ published[o].type = "optimization.detected"
                      /\ Diagnosable(published[e])
    BY DEF AnswersTo
  <2>1. /\ e \in 1..(o - 1) /\ Diagnosable(published[e])
        /\ published[o].type = "optimization.detected"
    BY <1>1, <1>3 DEF BusInv, Causes
  <2>2. o \in Nat
    BY <1>2
  <2> QED BY <2>1, <2>2
<1>7. Diagnosable(published[e]) => published[e].type = "trace.created"
  BY DEF Diagnosable
<1>8. ~Diagnosable(published[e]) => Cardinality(AnswersTo(e)) = 0
  BY <1>6, FS_EmptySet
<1> QED BY <1>5, <1>6, <1>7, <1>8 DEF Reached

\* When join() returns, each engine has gone through every trace once and answered
\* it if it has spans that can be read, however many tasks dispatch, whichever of
\* them are cancelled and whenever the queue is cleared (pubsub.py:145-175,
\* analysis/pipeline.py:50-129).
THEOREM JoinMeansAnsweredThm == PipelineSpec => []JoinMeansAnswered
<1>1. PipelineInit => PipelineInv
  BY InitPipelineInv
<1>2. PipelineInv /\ [PipelineNext]_pipelineVars => PipelineInv'
  BY NextPipelineInv
<1>3. PipelineInv => JoinMeansAnswered
  BY AllAreAnswered
<1> QED BY <1>1, <1>2, <1>3, PTL DEF PipelineSpec
================================================================================
