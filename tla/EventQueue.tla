------------------------------- MODULE EventQueue ------------------------------
(***************************************************************************)
(* The synchronous event queue of events/queue.py: a bounded history, and  *)
(* handlers that publish() calls one after the other, in its own thread.   *)
(* A handler may raise, and it may publish a message of its own, whose     *)
(* handlers then run before the remaining ones of the first message.       *)
(***************************************************************************)
EXTENDS Integers, FiniteSets, SequencesExt

CONSTANTS
  Publishers,   \* the threads that share the queue
  Topics,
  Handlers,
  Reaction,     \* handler -> the type it publishes, "raises", or "returns"
  MaxHistory,     \* _max_history
  MaxMessages,    \* bound: messages published
  MaxSubscribed   \* bound: subscriptions to a type

ASSUME QueueAssumption ==
  IsFiniteSet(Publishers) /\ MaxHistory \in Nat /\ MaxMessages \in Nat

VARIABLES
  subscribers,  \* _subscribers: type, or "*" -> the handlers, in their order
  history,      \* _history
  sent,         \* the number of messages so far
  calls,        \* thread -> its publish() calls, the innermost one last
  heard,        \* message -> the handlers that were called with it
  due           \* message -> the handlers that were to be called with it

queueVars == <<subscribers, history, sent, calls, heard, due>>

Messages == 1..MaxMessages

\* A message, with the message whose handler published it: 0 for none.
Message == [id : Messages, type : Topics, cause : 0..MaxMessages]

\* A publish() call: it has appended its message, found the history too long, or
\* is calling handlers, of which todo remain.
Call == [msg : Message, phase : {"check", "pop", "notify"}, todo : Seq(Handlers)]

QueueInit ==
  /\ subscribers = [key \in Topics \cup {"*"} |-> <<>>]
  /\ history = <<>> /\ sent = 0 /\ calls = [t \in Publishers |-> <<>>]
  /\ heard = [m \in Messages |-> <<>>] /\ due = [m \in Messages |-> <<>>]

Running(t, phase) == calls[t] # <<>> /\ Last(calls[t]).phase = phase

\* The innermost call of thread t goes on as c.
GoOn(t, c) == [calls EXCEPT ![t] = Append(Front(@), c)]

-----------------------------------------------------------------------------
\* subscribe().  A handler may do so too; one that is subscribed twice is called twice.
Subscribe(key, h) ==
  /\ Len(subscribers[key]) < MaxSubscribed
  /\ subscribers' = [subscribers EXCEPT ![key] = Append(@, h)]
  /\ UNCHANGED <<history, sent, calls, heard, due>>

\* publish() on top of the calls below it, up to the append.
Begin(t, type, cause, below) ==
  LET msg == [id |-> sent + 1, type |-> type, cause |-> cause]
  IN  /\ sent < MaxMessages /\ sent' = msg.id
      /\ history' = Append(history, msg)
      /\ calls' = [calls EXCEPT
           ![t] = Append(below, [msg |-> msg, phase |-> "check", todo |-> <<>>])]

Publish(t, type) ==
  /\ calls[t] = <<>>
  /\ Begin(t, type, 0, <<>>)
  /\ UNCHANGED <<subscribers, heard, due>>

\* The handlers of the type, then those of all types, as they are now.
Notify(t, call) ==
  LET handlers == subscribers[call.msg.type] \o subscribers["*"]
  IN  /\ calls' = GoOn(t, [call EXCEPT !.phase = "notify", !.todo = handlers])
      /\ due' = [due EXCEPT ![call.msg.id] = handlers]

\* len(self._history) > self._max_history
Check(t) ==
  /\ Running(t, "check")
  /\ LET call == Last(calls[t])
     IN  IF Len(history) > MaxHistory
         THEN calls' = GoOn(t, [call EXCEPT !.phase = "pop"]) /\ UNCHANGED due
         ELSE Notify(t, call)
  /\ UNCHANGED <<subscribers, history, sent, heard>>

\* Faulty variant: the newest message is dropped.
DropNewest(messages) == Front(messages)

\* self._history.pop(0)
DropOldest(messages) == Tail(messages)

\* The pop raises if another thread has just cleared the history: the message then
\* reaches no handler, and the handler that published it, if any, goes on.
Pop(t) ==
  /\ Running(t, "pop")
  /\ IF history # <<>>
     THEN history' = DropOldest(history) /\ Notify(t, Last(calls[t]))
     ELSE calls' = [calls EXCEPT ![t] = Front(@)] /\ UNCHANGED <<history, due>>
  /\ UNCHANGED <<subscribers, sent, heard>>

\* Faulty variant: a handler that raises ends the loop.
LeftAfter(call, h) == IF Reaction[h] = "raises" THEN <<>> ELSE Tail(call.todo)

\* The handlers left to call once h was: an exception is swallowed.
Left(call, h) == Tail(call.todo)

\* The next handler is called, and publishes its reaction if there is one.
Handle(t) ==
  /\ Running(t, "notify") /\ Last(calls[t]).todo # <<>>
  /\ LET call == Last(calls[t])
         h == Head(call.todo)
         goesOn == GoOn(t, [call EXCEPT !.todo = Left(call, h)])
     IN  /\ heard' = [heard EXCEPT ![call.msg.id] = Append(@, h)]
         /\ IF Reaction[h] \in Topics
            THEN Begin(t, Reaction[h], call.msg.id, goesOn[t])
            ELSE calls' = goesOn /\ UNCHANGED <<history, sent>>
  /\ UNCHANGED <<subscribers, due>>

Return(t) ==
  /\ Running(t, "notify") /\ Last(calls[t]).todo = <<>>
  /\ calls' = [calls EXCEPT ![t] = Front(@)]
  /\ UNCHANGED <<subscribers, history, sent, heard, due>>

\* clear()
ClearHistory ==
  /\ history # <<>> /\ history' = <<>>
  /\ UNCHANGED <<subscribers, sent, calls, heard, due>>

QueueNext ==
  \/ \E key \in DOMAIN subscribers, h \in Handlers : Subscribe(key, h)
  \/ \E t \in Publishers, type \in Topics : Publish(t, type)
  \/ \E t \in Publishers : Check(t) \/ Pop(t) \/ Handle(t) \/ Return(t)
  \/ ClearHistory

-----------------------------------------------------------------------------
\* The calls that have appended their message and not yet trimmed the history.
Untrimmed == {t \in Publishers : calls[t] # <<>> /\ Last(calls[t]).phase # "notify"}

\* The history holds the newest messages without a gap and in the order of their
\* publication, an effect after its cause, and no more than _max_history of them
\* but for those that publish() is about to drop (queue.py:59-61).
HistoryIsTheNewest ==
  /\ \A k \in DOMAIN history : history[k].id = sent - Len(history) + k
                              /\ history[k].cause < history[k].id
  /\ Len(history) <= MaxHistory + Cardinality(Untrimmed)

\* publish() calls the handlers of a message in the order of their subscription
\* and once for each: whatever raises, publishes or subscribes meanwhile, the
\* ones called and the ones left are those that were due (queue.py:63-70).
DeliveredOnce ==
  \A m \in Messages :
    /\ \A t \in Publishers : \A d \in DOMAIN calls[t] :
         calls[t][d].msg.id = m => heard[m] \o calls[t][d].todo = due[m]
    /\ (\A t \in Publishers : \A d \in DOMAIN calls[t] : calls[t][d].msg.id # m)
         => heard[m] = due[m]

QueueSpec == QueueInit /\ [][QueueNext]_queueVars
=============================================================================
