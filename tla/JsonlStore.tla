----------------------------- MODULE JsonlStore -----------------------------
(***************************************************************************)
(* The flat-file backend, store/jsonl.py: a file per trace, truncated when *)
(* it is opened for writing, filled as Python flushes its buffer, closed   *)
(* at the end.  Nothing is locked and nothing is renamed into place: two   *)
(* saves of one trace write to one file, each from its own offset.         *)
(***************************************************************************)
EXTENDS TraceClients

VARIABLES
  files,        \* files[id]: the file of trace id, or None
  openers,      \* openers[id]: the clients that have that file open for writing
  interrupted,  \* ghost: the traces whose file a save left by a crash
  overlapped    \* ghost: the traces whose file two saves had open at once

vars == <<files, openers, interrupted, overlapped, op, made, answer>>

\* A file begins with so many whole lines of rec: the header, then the spans;
\* when torn, with part of the next one too; when there is more, bytes of
\* another save follow.  Mixed stands for a file that is of no record.
Lines(rec) == Cardinality(rec.spans) + 1
File(rec, lines, torn, more) == [rec |-> rec, lines |-> lines, torn |-> torn, more |-> more]
Mixed == File(Damaged, 0, FALSE, TRUE)
Empty(f) == f.lines = 0 /\ ~f.torn /\ ~f.more
Complete(f) == f.rec # Damaged /\ f.lines = Lines(f.rec) /\ ~f.more

Init ==
  /\ files = [id \in TraceIds |-> None] /\ openers = [id \in TraceIds |-> {}]
  /\ interrupted = {} /\ overlapped = {}
  /\ CallsInit

-----------------------------------------------------------------------------
(* save_trace(record) *)

\* open(trace_file, "w") truncates the file under the other saves of it.
Open(c) ==
  /\ In(c, {"save"}, 1)
  /\ LET id == op[c].id IN
       /\ files' = [files EXCEPT ![id] = File(op[c].rec, 0, FALSE, FALSE)]
       /\ openers' = [openers EXCEPT ![id] = @ \cup {c}]
       /\ interrupted' = interrupted \ {id}
       /\ overlapped' = IF openers[id] = {} THEN overlapped \ {id} ELSE overlapped \cup {id}
  /\ Continue(c, [op[c] EXCEPT !.step = 2])

Writing(c) == op[c].kind = "save" /\ op[c].step \in 2..3

\* The file the client opened is still the one of the trace.
Linked(c) == c \in openers[op[c].id]

\* The file begins with what client c writes.
Leads(c, f) == f.rec = op[c].rec \/ op[c].step = 2

\* The file after part of the buffer, or the rest of it, is written at the
\* client's offset.  At the front, it goes on or takes the place of what was
\* there, of which some may be left behind it.  Further on, the front stays,
\* or is cut, or is a hole of zero bytes.
Written(c) ==
  LET rec  == op[c].rec
      f    == files[rec.id]
      done == IF f.rec = rec THEN f.lines ELSE 0
  IN IF Leads(c, f)
     THEN {g \in {File(rec, lines, torn, more) :
                     lines \in done..Lines(rec), torn \in BOOLEAN, more \in BOOLEAN} :
             /\ g.lines > done \/ (g.torn /\ ~(f.rec = rec /\ f.torn))
             /\ g.torn => g.lines < Lines(rec)
             /\ g.more => f.more \/ (f.rec # rec /\ ~Empty(f))}
     ELSE {Mixed} \cup (IF Empty(f) THEN {} ELSE {[f EXCEPT !.more = TRUE]})

\* A part of the buffer reaches the file.
Flush(c) ==
  /\ Writing(c) /\ Linked(c)
  /\ \E f \in Written(c) : files' = [files EXCEPT ![op[c].id] = f]
  /\ Continue(c, [op[c] EXCEPT !.step = 3])
  /\ UNCHANGED <<openers, interrupted, overlapped>>

\* The file after what is left in the buffer, if anything, is written.
Finished(c) ==
  LET rec == op[c].rec
      f   == files[rec.id]
  IN {g \in Written(c) \cup {f} :
        Leads(c, f) => g.rec = rec /\ g.lines = Lines(rec)}

Unopened(c) == openers' = [id \in TraceIds |-> openers[id] \ {c}]

\* The file is closed, with all lines of the client written, and the method returns.
Close(c) ==
  /\ Writing(c)
  /\ IF Linked(c)
     THEN \E f \in Finished(c) : files' = [files EXCEPT ![op[c].id] = f]
     ELSE files' = files
  /\ Unopened(c)
  /\ Return(c, NoAnswer)
  /\ UNCHANGED <<interrupted, overlapped>>

\* The process dies, or a write raises (disk full): the file stays as it is.
Crash(c) ==
  /\ op[c] # Idle
  /\ interrupted' = interrupted \cup {id \in TraceIds : c \in openers[id]}
  /\ Unopened(c)
  /\ Return(c, NoAnswer)
  /\ UNCHANGED <<files, overlapped>>

-----------------------------------------------------------------------------
(* get_trace(id) *)

\* The file of the trace, else one whose name starts with the argument.
Find(c) ==
  /\ In(c, {"get"}, 1)
  /\ LET exact   == {op[c].id} \cap {id \in TraceIds : files[id] # None}
         matches == IF exact # {} THEN exact
                    ELSE {id \in Prefixed[op[c].id] : files[id] # None}
     IN \/ matches = {} /\ Return(c, NotFound)
        \/ \E id \in matches : Continue(c, [op[c] EXCEPT !.todo = {id}, !.step = 2])
  /\ UNCHANGED <<files, openers, interrupted, overlapped>>

\* open(trace_file): FileNotFoundError when it was deleted since.
OpenToRead(c) ==
  /\ In(c, {"get"}, 2)
  /\ \E id \in op[c].todo :
       IF files[id] = None THEN Return(c, Raised)
       ELSE Continue(c, [op[c] EXCEPT !.rec = files[id], !.step = 3])
  /\ UNCHANGED <<files, openers, interrupted, overlapped>>

\* What a file is read as: a line cut short raises JSONDecodeError, and so does
\* one of two saves, unless its bytes happen to make an object.
Parsed(f) ==
  IF f.more THEN {Raised, Found(f.rec, FALSE)}
  ELSE IF f.torn THEN {Raised} ELSE {Found(f.rec, Complete(f))}

\* The lines are read while the file may be written: what was there at first,
\* what is there now, or some of both.
Read(c) ==
  /\ In(c, {"get"}, 3)
  /\ \E id \in op[c].todo :
       LET before == op[c].rec
           now    == files[id]
       IN \E result \in IF now \in {None, before} THEN Parsed(before)
                        ELSE Parsed(before) \cup Parsed(now) \cup
                             {Raised, Found(before.rec, FALSE)} :
            Return(c, result)
  /\ UNCHANGED <<files, openers, interrupted, overlapped>>

-----------------------------------------------------------------------------
(* delete_trace(id), clear_all() *)

\* The files to delete: the one of the trace, if it exists, or all.
Glob(c) ==
  /\ In(c, {"delete", "clear"}, 1)
  /\ LET ids == IF op[c].kind = "delete" THEN {op[c].id} ELSE TraceIds IN
       Continue(c, [op[c] EXCEPT !.step = 2, !.todo = {id \in ids : files[id] # None}])
  /\ UNCHANGED <<files, openers, interrupted, overlapped>>

\* The next one is unlinked.  When another client was faster this raises
\* FileNotFoundError, which ends the method.
Unlink(c) ==
  /\ In(c, {"delete", "clear"}, 2)
  /\ \/ op[c].todo = {} /\ Return(c, NoAnswer) /\ UNCHANGED <<files, openers>>
     \/ \E id \in op[c].todo :
          IF files[id] = None
          THEN Return(c, NoAnswer) /\ UNCHANGED <<files, openers>>
          ELSE /\ Continue(c, [op[c] EXCEPT !.todo = @ \ {id}])
               /\ files' = [files EXCEPT ![id] = None]
               /\ openers' = [openers EXCEPT ![id] = {}]
  /\ UNCHANGED <<interrupted, overlapped>>

Begin(c) ==
  /\ CallSave(c, TraceIds) \/ CallOther(c)
  /\ UNCHANGED <<files, openers, interrupted, overlapped>>

Next == \E c \in Clients :
  \/ Begin(c)
  \/ Open(c) \/ Flush(c) \/ Close(c) \/ Crash(c)
  \/ Find(c) \/ OpenToRead(c) \/ Read(c)
  \/ Glob(c) \/ Unlink(c)

Spec == Init /\ [][Next]_vars
-----------------------------------------------------------------------------
\* The record the file of each trace holds.
Stored == [id \in TraceIds |->
  LET f == files[id] IN
  IF f = None THEN None ELSE IF Complete(f) THEN f.rec ELSE Damaged]

TypeOK ==
  /\ \A id \in TraceIds : files[id] # None /\ files[id].rec # Damaged =>
       /\ files[id].rec \in Records /\ files[id].rec.id = id
       /\ files[id].lines \in 0..Lines(files[id].rec)
  /\ openers \in [TraceIds -> SUBSET Clients]
  /\ interrupted \subseteq TraceIds /\ overlapped \subseteq TraceIds
  /\ CallsTypeOK
=============================================================================
