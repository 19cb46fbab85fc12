---------------------------- MODULE ControlPlane -----------------------------
(***************************************************************************)
(* The control plane's API gateway: HTTP handlers over PostgresStore, and  *)
(* the event dispatcher, whose only handler broadcasts every event to the  *)
(* WebSocket clients.  The code after a store method's await runs in the   *)
(* same turn of the event loop as the method's end, so a handler's steps   *)
(* are those of the store call it makes.                                   *)
(***************************************************************************)
EXTENDS PostgresStore

CONSTANT Clients  \* WebSocket clients

VARIABLES
  history,   \* EventDispatcher.history: the applies announced, by request
  sockets,   \* the clients that are connected
  received,  \* client -> the events it was sent
  present    \* ghost: request -> the clients connected when it arrived

events == <<history, received>>
vars == <<storeVars, history, sockets, received, present>>

GatewayInit ==
  /\ Init
  /\ history = <<>>
  /\ sockets = {}
  /\ received = [c \in Clients |-> {}]
  /\ present = [q \in Requests |-> {}]

\* eventDispatcher.dispatch(), and broadcastEvent() as its '*' handler.
Dispatch(q) ==
  /\ history' = Append(history, q)
  /\ received' = [c \in Clients |-> IF c \in sockets
                                    THEN received[c] \cup {q}
                                    ELSE received[c]]

\* The rest of a handler after its store method: POST .../apply announces that
\* the recommendation is applied, whatever the method returned.
Continue(q) ==
  IF call'[q].stage = "answered" /\ call'[q].op.kind = "apply"
  THEN Dispatch(q)
  ELSE UNCHANGED events

Arrive(q) ==
  /\ Start(q) /\ Continue(q)
  /\ present' = [present EXCEPT ![q] = sockets]
  /\ UNCHANGED sockets

Resume(q) ==
  /\ Return(q) /\ Continue(q)
  /\ UNCHANGED <<sockets, present>>

\* A client connects.  One that leaves is skipped by its readyState, and is left
\* out here.
Join(c) ==
  /\ c \notin sockets /\ sockets' = sockets \cup {c}
  /\ UNCHANGED <<storeVars, events, present>>

Startup ==
  /\ \E ok \in BOOLEAN : Connect(ok) \/ CreateTables(ok)
  /\ UNCHANGED <<events, sockets, present>>

Shutdown ==
  /\ BeginClose \/ EndClose
  /\ UNCHANGED <<events, sockets, present>>

Database(v) ==
  /\ Execute(v) \/ Break(v)
  /\ UNCHANGED <<events, sockets, present>>

Next ==
  \/ \E q \in Requests : Arrive(q) \/ Resume(q)
  \/ \E c \in Clients : Join(c)
  \/ Startup \/ Shutdown
  \/ \E v \in Versions : Database(v)

\* The event loop runs what is ready; connecting times out (db.ts:86), and a
\* statement that was sent is answered or its connection is given up.
Fairness ==
  /\ \A q \in Requests : WF_vars(Resume(q))
  /\ WF_vars(Startup) /\ WF_vars(EndClose /\ Shutdown)
  /\ \A v \in Versions : WF_vars(query[v] = "sent" /\ Database(v))

Spec == GatewayInit /\ [][Next]_vars /\ Fairness

-----------------------------------------------------------------------------
TypeOK ==
  /\ StoreTypeOK
  /\ history \in Seq(Requests)
  /\ sockets \subseteq Clients
  /\ received \in [Clients -> SUBSET Requests]
  /\ present \in [Requests -> SUBSET Clients]

\* Once the apply of a recommendation that is in memory is answered, one of its
\* copies is applied, every client connected all along has the event, and the
\* event is in the history (index.ts:140-169, db.ts:378-399).
AppliedIsAppliedAndAnnounced ==
  \A q \in Requests :
    Answered(q) /\ call[q].op.kind = "apply" =>
      LET rec == call[q].op.rec
      IN  /\ rec \in MemoryRecs =>
               \/ memRecs[rec] = "applied"
               \/ rec \in TableRecs /\ pgRecs[rec] = "applied"
          /\ q \in ToSet(history)
          /\ \A c \in present[q] : q \in received[c]

\* Callers and close() do not wait for ever, whatever Postgres does: of finitely
\* many requests all are answered in the end (db.ts:177-236, :260-470, :563).
Quiesces == <>[](pool # "ending" /\ \A q \in Requests : ~Waiting(q))
=============================================================================
