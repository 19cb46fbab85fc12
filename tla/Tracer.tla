------------------------------- MODULE Tracer -------------------------------
(***************************************************************************)
(* The instrumentation SDK: sdk/tracer.py (TraceContext, the enrichment    *)
(* functions) over sdk/context.py (three contextvars per execution         *)
(* context).                                                               *)
(*                                                                         *)
(* A task is an asyncio task or a thread of the host program.  Its         *)
(* contextvars are ctx[t]; an asyncio task starts with a COPY of its       *)
(* creator's context, a thread with an empty one.  The span objects        *)
(* themselves are shared, mutable Python objects: a copied stack still     *)
(* refers to the creator's spans.                                          *)
(***************************************************************************)
EXTENDS Naturals, Sequences, SequencesExt

CONSTANTS
  Tasks,        \* execution contexts: asyncio tasks and threads
  Main,         \* the task the host program starts with
  ExplicitIds,  \* trace ids a caller may pass to TraceContext(trace_id=...)
  MaxSpans,     \* bound: TraceContexts entered in one behaviour
  Spawning,     \* how tasks start: a subset of {"gather", "task", "thread"}
  Exceptions,   \* what the host program may raise: {"timeout", "error"} or less
  SetStatuses   \* the statuses callers pass to set_span_status

ASSUME TracerAssumption ==
  /\ Main \in Tasks
  /\ ExplicitIds \cap Nat = {}
  /\ MaxSpans \in Nat \ {0}
  /\ Spawning \subseteq {"gather", "task", "thread"}
  /\ Exceptions \subseteq {"timeout", "error"}
  /\ SetStatuses \subseteq {"success", "failure", "timeout", "retry"}

NoTrace  == 0                           \* _ACTIVE_TRACE_ID unset
NoSpan   == 0                           \* parent_id None
Statuses == {"success", "failure", "timeout", "retry"}
Raised   == Exceptions \cup {"none"}
SpanIds  == 1..MaxSpans
\* A generated trace id (uuid4) is as fresh as its root span's id.
TraceIds == ExplicitIds \cup SpanIds

EmptyContext == [trace |-> NoTrace, stack |-> <<>>, collected |-> <<>>]

VARIABLES
  spans,    \* sequence of span objects, in the order they were entered
  ctx,      \* ctx[t]: the three contextvars as task t sees them
  base,     \* ghost: the stack task t inherited when it was created
  withs,    \* withs[t]: spans of the TraceContexts t entered and has not left
  state,    \* state[t]: "idle" (not created), "running" or "done"
  waiting,  \* waiting[t]: the children t is awaiting in asyncio.gather
  raised,   \* raised[t]: the exception propagating through t, or "none"
  saved     \* saved[T]: the record the trace store holds for T, <<>> if none

vars == <<spans, ctx, base, withs, state, waiting, raised, saved>>

Init ==
  /\ spans   = <<>>
  /\ ctx     = [t \in Tasks |-> EmptyContext]
  /\ base    = [t \in Tasks |-> <<>>]
  /\ withs   = [t \in Tasks |-> <<>>]
  /\ state   = [t \in Tasks |-> IF t = Main THEN "running" ELSE "idle"]
  /\ waiting = [t \in Tasks |-> {}]
  /\ raised  = [t \in Tasks |-> "none"]
  /\ saved   = [T \in TraceIds |-> <<>>]

Active(t) == state[t] = "running" /\ waiting[t] = {}

-----------------------------------------------------------------------------
(* context.py *)

\* get_current_span(): the top of the active stack.
CurrentSpan(c) == IF c.stack = <<>> THEN NoSpan ELSE Last(c.stack)

\* Faulty variant: collected spans are rebuilt from the active stack.
PushCollectsStack(c, s) ==
  [c EXCEPT !.stack = Append(@, s), !.collected = Append(c.stack, s)]

\* push_span(): both lists are copied and extended.
Push(c, s) == [c EXCEPT !.stack = Append(@, s), !.collected = Append(@, s)]

\* Faulty variant: nothing is popped.
PopNothing(c) == c

\* pop_span(): drops the TOP of the stack, whichever span is being closed.
Pop(c) == IF c.stack = <<>> THEN c ELSE [c EXCEPT !.stack = Front(@)]

\* Faulty variant: the collected spans survive the reset.
ResetKeepsCollected(c) == [EmptyContext EXCEPT !.collected = c.collected]

\* reset_trace_context().
Reset(c) == EmptyContext

-----------------------------------------------------------------------------
(* TraceContext.__enter__ / __exit__ *)

Enter(t) ==
  /\ Active(t) /\ raised[t] = "none" /\ Len(spans) < MaxSpans
  /\ LET s    == Len(spans) + 1
         root == ctx[t].trace = NoTrace
     IN \E id \in ExplicitIds \cup {s} :
          LET T == IF root THEN id ELSE ctx[t].trace
          IN /\ spans' = Append(spans,
                  [trace |-> T, parent |-> CurrentSpan(ctx[t]), root |-> root,
                   task |-> t, open |-> TRUE, status |-> "success", exc |-> "none"])
             /\ ctx' = [ctx EXCEPT ![t] = Push([@ EXCEPT !.trace = T], s)]
             /\ withs' = [withs EXCEPT ![t] = Append(@, s)]
  /\ UNCHANGED <<base, state, waiting, raised, saved>>

\* Faulty variant: a status set by record_retry() is kept when the block fails.
ClosedKeepsRetry(span, exc) ==
  [span EXCEPT !.open = FALSE, !.exc = exc,
               !.status = IF exc # "none" /\ @ # "retry" THEN "failure" ELSE @]

\* What __exit__ writes on its own span object.
Closed(span, exc) ==
  [span EXCEPT !.open = FALSE, !.exc = exc,
               !.status = CASE exc = "timeout" -> "timeout"
                            [] exc = "error"   -> "failure"
                            [] OTHER           -> @]

\* The row the store keeps of each collected span, as it is at this moment.
Record(objects, collected) ==
  [i \in DOMAIN collected |->
     [span |-> collected[i], parent |-> objects[collected[i]].parent,
      status |-> objects[collected[i]].status]]

\* _finalize_and_save(): save_on_exit and the store decide whether the record
\* is written; an error is swallowed.  The trace-id file and the OTLP export
\* that follow a successful write change nothing modelled here.
Finalize(t, objects, c) ==
  /\ \/ UNCHANGED saved
     \/ /\ c.collected # <<>>
        /\ saved' = [saved EXCEPT ![objects[c.collected[1]].trace] =
                       Record(objects, c.collected)]
  /\ ctx' = [ctx EXCEPT ![t] = Reset(c)]

\* The innermost with-block of t ends, by its end or by an exception.
Exit(t) ==
  /\ Active(t) /\ withs[t] # <<>>
  /\ LET s       == Last(withs[t])
         objects == [spans EXCEPT ![s] = Closed(@, raised[t])]
         c       == Pop(ctx[t])
     IN /\ spans' = objects
        /\ withs' = [withs EXCEPT ![t] = Front(@)]
        /\ IF spans[s].root
           THEN Finalize(t, objects, c)
           ELSE ctx' = [ctx EXCEPT ![t] = c] /\ UNCHANGED saved
  /\ UNCHANGED <<base, state, waiting, raised>>

-----------------------------------------------------------------------------
(* Span enrichment: the span on top of the caller's stack is mutated. *)

SetSpanStatus(t) ==
  /\ Active(t) /\ raised[t] = "none" /\ CurrentSpan(ctx[t]) # NoSpan
  /\ \E st \in SetStatuses :
       spans' = [spans EXCEPT ![CurrentSpan(ctx[t])].status = st]
  /\ UNCHANGED <<ctx, base, withs, state, waiting, raised, saved>>

\* record_retry(): retry_count, which only grows, is left out.
RecordRetry(t) ==
  /\ Active(t) /\ raised[t] = "none" /\ CurrentSpan(ctx[t]) # NoSpan
  /\ spans' = [spans EXCEPT ![CurrentSpan(ctx[t])].status = "retry"]
  /\ UNCHANGED <<ctx, base, withs, state, waiting, raised, saved>>

-----------------------------------------------------------------------------
(* The host program: Python's own task, thread and exception semantics. *)

Begin(C, c) ==
  /\ ctx'   = [u \in Tasks |-> IF u \in C THEN c ELSE ctx[u]]
  /\ base'  = [u \in Tasks |-> IF u \in C THEN c.stack ELSE base[u]]
  /\ state' = [u \in Tasks |-> IF u \in C THEN "running" ELSE state[u]]
  /\ UNCHANGED <<spans, withs, raised, saved>>

Idle == {u \in Tasks : state[u] = "idle"}

\* await asyncio.gather(...): the children get copies of t's context.
Gather(t) ==
  /\ "gather" \in Spawning
  /\ Active(t) /\ raised[t] = "none"
  /\ \E C \in SUBSET Idle \ {{}} :
       Begin(C, ctx[t]) /\ waiting' = [waiting EXCEPT ![t] = C]

\* asyncio.create_task(...) without awaiting it.
CreateTask(t) ==
  /\ "task" \in Spawning
  /\ Active(t) /\ raised[t] = "none"
  /\ \E u \in Idle : Begin({u}, ctx[t])
  /\ UNCHANGED waiting

\* threading.Thread(...).start(): a thread starts with an empty context.
StartThread(t) ==
  /\ "thread" \in Spawning
  /\ Active(t) /\ raised[t] = "none"
  /\ \E u \in Idle : Begin({u}, EmptyContext)
  /\ UNCHANGED waiting

\* gather returns when all children are done, and raises as soon as one
\* child has raised, while the others go on.
Resume(t) ==
  /\ state[t] = "running" /\ waiting[t] # {}
  /\ LET failed == {u \in waiting[t] : state[u] = "done" /\ raised[u] # "none"}
     IN /\ failed # {} \/ \A u \in waiting[t] : state[u] = "done"
        /\ raised' \in IF failed = {} THEN {raised}
                       ELSE {[raised EXCEPT ![t] = raised[u]] : u \in failed}
  /\ waiting' = [waiting EXCEPT ![t] = {}]
  /\ UNCHANGED <<spans, ctx, base, withs, state, saved>>

Raise(t) ==
  /\ Active(t) /\ raised[t] = "none"
  /\ \E e \in Exceptions : raised' = [raised EXCEPT ![t] = e]
  /\ UNCHANGED <<spans, ctx, base, withs, state, waiting, saved>>

Catch(t) ==
  /\ Active(t) /\ raised[t] # "none"
  /\ raised' = [raised EXCEPT ![t] = "none"]
  /\ UNCHANGED <<spans, ctx, base, withs, state, waiting, saved>>

Finish(t) ==
  /\ Active(t) /\ withs[t] = <<>>
  /\ state' = [state EXCEPT ![t] = "done"]
  /\ UNCHANGED <<spans, ctx, base, withs, waiting, raised, saved>>

Next == \E t \in Tasks :
  \/ Enter(t) \/ Exit(t) \/ SetSpanStatus(t) \/ RecordRetry(t)
  \/ Gather(t) \/ CreateTask(t) \/ StartThread(t)
  \/ Resume(t) \/ Raise(t) \/ Catch(t) \/ Finish(t)

Spec == Init /\ [][Next]_vars
-----------------------------------------------------------------------------
Context == [trace     : TraceIds \cup {NoTrace},
            stack     : Seq(SpanIds),
            collected : Seq(SpanIds)]

Span == [trace : TraceIds, parent : SpanIds \cup {NoSpan}, root : BOOLEAN,
         task : Tasks, open : BOOLEAN, status : Statuses, exc : Raised]

TypeOK ==
  /\ spans \in Seq(Span) /\ Len(spans) \in 0..MaxSpans
  /\ ctx \in [Tasks -> Context]
  /\ base \in [Tasks -> Seq(SpanIds)]
  /\ withs \in [Tasks -> Seq(SpanIds)]
  /\ state \in [Tasks -> {"idle", "running", "done"}]
  /\ waiting \in [Tasks -> SUBSET Tasks]
  /\ raised \in [Tasks -> Raised]
  /\ saved \in [TraceIds ->
       Seq([span : SpanIds, parent : SpanIds \cup {NoSpan}, status : Statuses])]

SavedSpans(T) == {row.span : row \in ToSet(saved[T])}

(* The context stack of a task is what it inherited followed by the spans of *)
(* the with-blocks it is in: __enter__ and __exit__ keep _ACTIVE_SPAN_STACK  *)
(* and the program's nesting in step, whatever other tasks and exceptions do.*)
(* Once a root span has left its context is empty again.                     *)
StackMirrorsNesting ==
  \A t \in Tasks : ctx[t].stack = base[t] \o withs[t]

(* Spans of one task nest: the parent a span of the same task was given is   *)
(* open for as long as the span is.                                          *)
OwnParentEncloses ==
  \A s \in DOMAIN spans : LET p == spans[s].parent IN
    spans[s].open /\ p # NoSpan /\ spans[p].task = spans[s].task => spans[p].open

(* A stored trace is one tree: its first row is the only one without a       *)
(* parent, every other row's parent is an earlier row, and all rows carry    *)
(* the trace id it is stored under, so nothing leaks from one trace into     *)
(* the record of the next.                                                   *)
SavedIsTree ==
  \A T \in TraceIds : \A i \in DOMAIN saved[T] :
    /\ spans[saved[T][i].span].trace = T
    /\ IF i = 1 THEN saved[T][i].parent = NoSpan
       ELSE \E j \in 1..(i - 1) : saved[T][j].span = saved[T][i].parent

(* When a root span's record is written, every span of that trace which has  *)
(* already ended is in it ("coroutine-safe and thread-safe span hierarchy    *)
(* tracking").                                                               *)
EndedSpansAreSaved ==
  [][\A T \in TraceIds : saved'[T] # saved[T] =>
       \A s \in DOMAIN spans :
         spans[s].trace = T /\ ~spans[s].open => s \in SavedSpans(T)']_vars

(* The same, for the spans the root's own task entered since the root.       *)
OwnSpansAreSaved ==
  [][\A T \in TraceIds : saved'[T] # saved[T] =>
       LET r == saved'[T][1].span
       IN \A s \in r..Len(spans) :
            spans[s].task = spans[r].task => s \in SavedSpans(T)']_vars

(* A span that ended with an exception is stored as a failure or a timeout,  *)
(* unless another task inherited the span: only an heir can still rewrite    *)
(* the verdict of a span whose with-block is over.                           *)
FailuresReachTheRecord ==
  \A T \in TraceIds : \A i \in DOMAIN saved[T] :
    LET s == saved[T][i].span
    IN spans[s].exc # "none" /\ (\A t \in Tasks : s \notin ToSet(base[t]))
         => saved[T][i].status \in {"failure", "timeout"}
=============================================================================
