------------------------------- MODULE PubSubBus -------------------------------
(***************************************************************************)
(* The asynchronous event bus of events/pubsub.py: publish() appends an    *)
(* envelope to the history and to an asyncio queue; dispatch_next() takes  *)
(* one and awaits its handlers one after the other.  A task changes state  *)
(* only between two awaits; any number of tasks may dispatch, and one may  *)
(* be cancelled at an await.                                               *)
(***************************************************************************)
EXTENDS Integers, FiniteSets, SequencesExt

CONSTANTS
  Dispatchers,    \* the tasks that call dispatch_next()
  Listeners,      \* handlers other than the pipeline's: they suspend, and may raise
  MaxEnvelopes    \* bound: envelopes published

VARIABLES
  subscribed,   \* _subscribers: type, or "*" -> the handlers, in their order
  published,    \* _event_history, of the envelopes since the bus was made
  forgotten,    \* how many of them clear() has taken out of the history
  queued,       \* the items of _queue: places in published
  unfinished,   \* its unfinished tasks: what join() waits for
  dispatch,     \* task -> what it dispatches, or None
  handled       \* handler -> the envelopes it has gone through, in order

busVars == <<subscribed, published, forgotten, queued, unfinished, dispatch, handled>>

Nothing == [env |-> 0, todo |-> <<>>, suspended |-> FALSE]

BusInit(subscriptions, handlers) ==
  /\ subscribed = subscriptions
  /\ published = <<>> /\ forgotten = 0 /\ queued = <<>> /\ unfinished = 0
  /\ dispatch = [d \in Dispatchers |-> Nothing]
  /\ handled = [h \in handlers |-> <<>>]

\* publish() of the envelopes: the queue has no bound, so put() does not wait.
Put(envelopes) ==
  /\ published' = published \o envelopes
  /\ queued' = queued \o [k \in DOMAIN envelopes |-> Len(published) + k]
  /\ unfinished' = unfinished + Len(envelopes)

\* subscribe(), subscribe_all().  Bound: no handler is subscribed to a type twice.
AddHandler(key, h) ==
  /\ ~Contains(subscribed[key], h)
  /\ subscribed' = [subscribed EXCEPT ![key] = Append(@, h)]
  /\ UNCHANGED <<published, forgotten, queued, unfinished, dispatch, handled>>

-----------------------------------------------------------------------------
\* dispatch_next(): the next envelope is taken and its handlers are looked up.
Take(d) ==
  /\ dispatch[d] = Nothing /\ queued # <<>>
  /\ LET e == Head(queued)
     IN  dispatch' = [dispatch EXCEPT ![d] =
           [env |-> e, suspended |-> FALSE,
            todo |-> subscribed[published[e].type] \o subscribed["*"]]]
  /\ queued' = Tail(queued)
  /\ UNCHANGED <<subscribed, published, forgotten, unfinished, handled>>

\* A listener runs up to its await ...
Suspend(d) ==
  /\ dispatch[d].todo # <<>> /\ ~dispatch[d].suspended
  /\ Head(dispatch[d].todo) \in Listeners
  /\ dispatch' = [dispatch EXCEPT ![d].suspended = TRUE]
  /\ UNCHANGED <<subscribed, published, forgotten, queued, unfinished, handled>>

\* Handler h of d's envelope has returned, or raised, which is only logged.
HandlerEnds(d, h) ==
  /\ dispatch' = [dispatch EXCEPT ![d].suspended = FALSE, ![d].todo = Tail(@)]
  /\ handled' = [handled EXCEPT ![h] = Append(@, dispatch[d].env)]

\* ... and to its end.
ListenerEnds(d) ==
  /\ dispatch[d].suspended
  /\ HandlerEnds(d, Head(dispatch[d].todo))
  /\ UNCHANGED <<subscribed, published, forgotten, queued, unfinished>>

\* All handlers were called: task_done().
Done(d) ==
  /\ dispatch[d] # Nothing /\ dispatch[d].todo = <<>>
  /\ dispatch' = [dispatch EXCEPT ![d] = Nothing]
  /\ unfinished' = unfinished - 1
  /\ UNCHANGED <<subscribed, published, forgotten, queued, handled>>

\* The task is cancelled in a handler's await.  CancelledError is no Exception: it
\* leaves dispatch_next() without the other handlers and without task_done().
Cancel(d) ==
  /\ dispatch[d].suspended
  /\ dispatch' = [dispatch EXCEPT ![d] = Nothing]
  /\ UNCHANGED <<subscribed, published, forgotten, queued, unfinished, handled>>

\* Faulty variant: the items taken out are reported as done.
ClearDone ==
  /\ forgotten < Len(published)
  /\ forgotten' = Len(published) /\ queued' = <<>>
  /\ unfinished' = unfinished - Len(queued)
  /\ UNCHANGED <<subscribed, published, dispatch, handled>>

\* clear(): the history and the queue are emptied; nothing is reported as done.
Clear ==
  /\ forgotten < Len(published)
  /\ forgotten' = Len(published) /\ queued' = <<>>
  /\ UNCHANGED <<subscribed, published, unfinished, dispatch, handled>>
=============================================================================
