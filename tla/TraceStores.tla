---------------------------- MODULE TraceStores -----------------------------
(***************************************************************************)
(* get_trace_store() (store/__init__.py): the clients use the backend that *)
(* the configuration names, JSONL files or SQLite, and read from either    *)
(* what they saved.                                                        *)
(***************************************************************************)
EXTENDS TraceClients

\* What stands for nothing, and for a part of a record, is told from what the
\* stores hold.
ASSUME TokensAssumption ==
  /\ None # Damaged /\ None \notin Clients
  /\ {None, Damaged} \cap Records = {}
  /\ None \notin [rec : Records \cup {Damaged}, lines : Nat, torn : BOOLEAN, more : BOOLEAN]
  /\ None \notin [trace : TraceIds, version : 1..MaxSaves]

VARIABLES
  backend,              \* AirunConfig.storage_backend
  db, draft, writer,    \* of the SQLite backend
  files, openers, interrupted, overlapped, \* of the JSONL backend
  steady                \* ghost: the gets whose traces nothing has touched yet

sqliteVars == <<db, draft, writer>>
jsonlVars  == <<files, openers, interrupted, overlapped>>
vars == <<backend, sqliteVars, jsonlVars, op, made, answer, steady>>

Sqlite == INSTANCE SqliteStore
Jsonl  == INSTANCE JsonlStore

Stored == IF backend = "sqlite" THEN Sqlite!Stored ELSE Jsonl!Stored

\* The traces a get may answer with.
Candidates(id) == {id} \cup Prefixed[id]

Init ==
  /\ backend \in {"sqlite", "jsonl"}
  /\ Sqlite!Init /\ Jsonl!Init
  /\ steady = {}

Next ==
  /\ \/ backend = "sqlite" /\ Sqlite!Next /\ UNCHANGED jsonlVars
     \/ backend = "jsonl"  /\ Jsonl!Next  /\ UNCHANGED sqliteVars
  /\ backend' = backend
  /\ steady' = {c \in Clients :
       /\ op'[c].kind = "get"
       /\ c \in steady \/ op[c] = Idle
       /\ \A id \in Candidates(op'[c].id) : Stored'[id] # Damaged /\ Stored'[id] = Stored[id]}

Spec == Init /\ [][Next]_vars
-----------------------------------------------------------------------------
TypeOK == Sqlite!TypeOK /\ Jsonl!TypeOK

(* What the store promises (TraceStore): a trace changes only to a record     *)
(* that is being saved, or is damaged by a save of it that is under way, and  *)
(* is removed only by a deletion under way; a save or a deletion of one trace *)
(* leaves every other as it is.                                               *)
Promise == INSTANCE TraceStore WITH
  stored   <- Stored,
  saving   <- {op[c].rec : c \in {d \in Clients : op[d].kind = "save"}},
  removing <- UNION {IF op[c].kind = "delete" THEN {op[c].id}
                     ELSE IF op[c].kind = "clear" THEN TraceIds ELSE {} : c \in Clients}

Implements == Promise!Spec

(* The summary and the spans of a trace are those of one record, except in a  *)
(* JSONL file that a save is writing, that a save left by a crash or that two *)
(* saves had open at once: no crash, no statement that raises and no other    *)
(* client leaves half a trace in the database.                                *)
DamageHasACause ==
  \A id \in TraceIds : Stored[id] = Damaged =>
    backend = "jsonl" /\ (openers[id] # {} \/ id \in interrupted \cup overlapped)

(* Where none of the traces it may answer with is damaged, and none is saved  *)
(* or deleted while it reads, get_trace() answers what is stored, the whole   *)
(* of it; a prefix never hides the trace of that id.                          *)
Expected(id) ==
  IF Stored[id] # None THEN {Found(Stored[id], TRUE)}
  ELSE LET others == {x \in Prefixed[id] : Stored[x] # None}
       IN IF others = {} THEN {NotFound} ELSE {Found(Stored[x], TRUE) : x \in others}

UndisturbedGetIsRight ==
  [][\A c \in steady : op'[c] = Idle /\ answer' # NoAnswer =>
       answer' \in Expected(op[c].id)]_vars

(* "Retrieve a full trace record by its ID" (store/base.py).                  *)
GetIsFull == answer.kind = "found" => answer.whole
=============================================================================
