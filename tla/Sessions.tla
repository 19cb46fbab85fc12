-------------------------------- MODULE Sessions -------------------------------
(***************************************************************************)
(* The commands of cli/main.py and the requests of server/__init__.py, run *)
(* side by side on one trace store of either backend.  A save, a listing   *)
(* and a get are each one step, as TraceStore promises; what becomes of    *)
(* JSONL files whose saves are cut short or overlap is left to JsonlStore. *)
(* Each file changes at an instant of its own.  A traced run begins at an  *)
(* instant of its own, which also stands for its trace id.                 *)
(*                                                                         *)
(* A command is a record                                                   *)
(*   op, arg    what it is and its arguments                               *)
(*   runs       the runs it traces: the spans of each                      *)
(*   exports    whether the tracer also posts them to the server           *)
(*   refs       the traces it reads: ids, its Own, or aliases              *)
(***************************************************************************)
EXTENDS CommandReports

CONSTANTS
  Backend,     \* that of the trace store, "sqlite" or "jsonl"
  Processes,
  Scenarios,   \* a sequence of sets of [runs, commands, file]: the runs saved
               \* before, each process's command, and what its id file names
  DemoRun,     \* the spans of the demonstration
  Broken,      \* a request that holds no OTLP payload
  Foreign,     \* the trace ids of what other programs send
  Own, Newest, Latest, Previous   \* references to a trace that are no ids

VARIABLES
  clock,    \* the last instant at which a run began or a request came
  saved,    \* the store: id -> record
  files,    \* the ids of the JSONL store's files, the last changed first
  posted,   \* the exports on their way to the server
  work,     \* process -> what is left of its command
  idFile,   \* process -> the trace that its --trace-id-file names, or None
  shown     \* process -> what its command has shown

sessionVars == <<clock, saved, files, posted, work, idFile, shown>>

\* A process without a command.
NoCommand ==
  [op |-> "none", arg |-> None, runs |-> <<>>, exports |-> FALSE, refs |-> <<>>]

\* The arguments of command cmd on a store of some runs have the form that the code
\* gives them.  A request with spans comes from elsewhere, a comparison ends with the
\* latest trace, and a report is about one.
WellFormed(cmd, runs) ==
  /\ cmd.runs \in Seq(Runs) /\ cmd.exports \in BOOLEAN
  /\ cmd.op = "ingest" =>
       /\ cmd.runs = <<>> /\ cmd.refs = <<>>
       /\ cmd.arg = Broken \/ cmd.arg \in Seq(Wires(Foreign))
  /\ cmd.op = "compare" =>
       cmd.refs \in {<<id, Latest>> : id \in DOMAIN runs \cup {Previous}}
  /\ cmd.op = "report" => cmd.refs = <<cmd.refs[1]>> /\ cmd.refs[1] # Newest
  /\ cmd.op = "correlate" => cmd.arg.telemetry \in Seq(PhysicalSamples)
  /\ cmd.op = "detect" =>
       /\ cmd.arg.samples \in Seq(WasteSamples) /\ cmd.arg.gpus \in Nat
       /\ cmd.arg.duration \in Nat /\ cmd.arg.cost \in Nat \cup {None}
  /\ cmd.op = "map" =>
       cmd.arg.messages \in Seq([role : STRING, content : STRING, more : SUBSET STRING])

ASSUME BackendAssumption == Backend \in {"sqlite", "jsonl"}

ASSUME ReferencesAreNoIds ==
  /\ Own \notin {Newest, Latest, Previous} /\ Newest \notin {Latest, Previous}
  /\ Latest # Previous
  /\ \A r \in {Own, Newest, Latest, Previous} \cup Foreign : r \notin Nat

ASSUME ScenariosAreWellFormed ==
  /\ DemoRun \in Runs
  /\ \A k \in DOMAIN Scenarios : \A s \in Scenarios[k] :
       /\ s.runs \in Seq(Runs) /\ s.file \in [Processes -> Nat \cup {None}]
       /\ \A p \in Processes : WellFormed(s.commands[p], s.runs)

Started(command) ==
  [cmd |-> command, phase |-> IF command = NoCommand THEN "idle" ELSE "working",
   runs |-> command.runs, begun |-> None, own |-> <<>>, imports |-> <<>>,
   refs |-> command.refs, ids |-> <<>>, records |-> <<>>]

-----------------------------------------------------------------------------
(* The store *)

\* The spans of a run that begins at some instant.
At(spans, instant) ==
  Each(spans, LAMBDA s : [s EXCEPT !.start = @ + instant,
                                   !.end = IF @ = None THEN None ELSE @ + instant])

\* The record that the tracer makes and save_trace() analyses.
Traced(spans, instant) ==
  [trace |-> instant, created |-> instant + spans[1].start]
    ++ AnalyzeSpans(At(spans, instant))

\* What the store keeps of a span: SQLite's tables not all of it.
StoredSpan(span) ==
  IF Backend = "jsonl" THEN span
  ELSE [span EXCEPT !.accel = None, !.quality = None, !.energy = None]

StoredRecord(record) == [record EXCEPT !.spans = Each(@, StoredSpan)]

\* save_trace(): a record replaces that of its id.
Save(record) == [id \in {record.trace} |-> StoredRecord(record)] ++ saved

\* The files after that of id was written.
Changed(id) ==
  IF Backend = "jsonl" THEN <<id>> \o Selected(files, LAMBDA f : f # id) ELSE files

\* An imported record, created when its first span began.
Dated(record) == [created |-> record.spans[1].start] ++ record

\* Traces c and d were created at one instant: some order lists them.
Tied(c, d) ==
  /\ saved[c].created = saved[d].created
  /\ LET listed == SetToSeq(DOMAIN saved)
     IN  \E i, j \in DOMAIN listed : i < j /\ listed[i] = c /\ listed[j] = d

\* Faulty variant: the listing is in ascending order.
OldestFirst ==
  Ranked(DOMAIN saved, LAMBDA c, d : saved[c].created < saved[d].created \/ Tied(c, d))

\* list_traces(): SQLite lists by the time of creation, JSONL by that of the last change.
NewestFirst ==
  IF Backend = "jsonl" THEN files
  ELSE Ranked(DOMAIN saved, LAMBDA c, d : saved[c].created > saved[d].created \/ Tied(c, d))

Summaries == [k \in DOMAIN NewestFirst |-> saved[NewestFirst[k]].summary]

-----------------------------------------------------------------------------
(* Traced runs *)

Working(p) == work[p].phase = "working"

\* Process p's command is not between the spans of a run, nor has one to begin.
RunsDone(p) == work[p].runs = <<>> /\ work[p].begun = None

BeginRun(p) ==
  /\ Working(p) /\ work[p].runs # <<>> /\ work[p].begun = None
  /\ clock' = clock + 1
  /\ work' = [work EXCEPT ![p].begun = clock', ![p].own = Append(@, clock')]
  /\ UNCHANGED <<saved, files, posted, idFile, shown>>

RunLeft(p) == [work EXCEPT ![p].runs = Tail(@), ![p].begun = None]

\* _finalize_and_save(): the record is saved, its id written to the id file that
\* `run` has named, and the record exported.
Finalize(p, record) ==
  /\ saved' = Save(record) /\ files' = Changed(record.trace)
  /\ posted' = IF work[p].cmd.exports
               THEN posted \cup {TraceToOtlpPayload(record)} ELSE posted
  /\ idFile' = IF work[p].cmd.op = "run"
               THEN [idFile EXCEPT ![p] = record.trace] ELSE idFile

EndRun(p) ==
  /\ work[p].begun # None
  /\ Finalize(p, Traced(Head(work[p].runs), work[p].begun))
  /\ work' = RunLeft(p)
  /\ UNCHANGED <<clock, shown>>

\* save_trace() raises, which is only logged: there is no id file and no export.
LoseRun(p) ==
  /\ work[p].begun # None
  /\ work' = RunLeft(p)
  /\ UNCHANGED <<clock, saved, files, posted, idFile, shown>>

-----------------------------------------------------------------------------
(* POST /v1/traces *)

Fail(p) == work' = [work EXCEPT ![p].phase = "failed", ![p].imports = <<>>]

Receive(p) ==
  /\ Working(p) /\ work[p].cmd.op = "ingest"
  /\ clock' = clock + 1
  /\ IF work[p].cmd.arg = Broken THEN Fail(p)
     ELSE work' = [work EXCEPT
            ![p].imports = OtlpPayloadToTraceRecords(work[p].cmd.arg, clock'),
            ![p].phase = "importing"]
  /\ UNCHANGED <<saved, files, posted, idFile, shown>>

SaveImport(p) ==
  /\ work[p].imports # <<>>
  /\ LET record == Dated(Head(work[p].imports))
     IN  saved' = Save(record) /\ files' = Changed(record.trace)
  /\ work' = [work EXCEPT ![p].imports = Tail(@),
                         ![p].own = Append(@, Head(work[p].imports).trace)]
  /\ UNCHANGED <<clock, posted, idFile, shown>>

\* save_trace() raises: the answer is 400, and what was saved before stays.
ImportFails(p) ==
  /\ work[p].imports # <<>>
  /\ Fail(p)
  /\ UNCHANGED <<clock, saved, files, posted, idFile, shown>>

\* All is saved: the answer names the traces.
AnswerImport(p) ==
  /\ work[p].phase = "importing" /\ work[p].imports = <<>>
  /\ work' = [work EXCEPT ![p].phase = "answered"]
  /\ shown' = [shown EXCEPT ![p] = work[p].own]
  /\ UNCHANGED <<clock, saved, files, posted, idFile>>

\* The server receives an export.  Its record takes the place of the run's.
ReceiveExport(payload) ==
  /\ clock' = clock + 1
  /\ LET record == Dated(OtlpPayloadToTraceRecords(payload, clock')[1])
     IN  saved' = Save(record) /\ files' = Changed(record.trace)
  /\ posted' = posted \ {payload}
  /\ UNCHANGED <<work, idFile, shown>>

-----------------------------------------------------------------------------
(* Commands that read *)

Resolved(p, ids) ==
  work' = [work EXCEPT ![p].ids = @ \o ids, ![p].refs = Tail(@)]

\* _resolve_trace_id(), and the pages' list_traces(limit=1).  On an empty store an
\* alias first runs the demonstration; if that is not saved either, the command
\* ends with an IndexError.
Resolve(p) ==
  /\ Working(p) /\ RunsDone(p) /\ work[p].refs # <<>>
  /\ LET ref == Head(work[p].refs)
     IN  CASE ref = Own -> Resolved(p, <<Last(work[p].own)>>)
           [] ref = Newest ->
                Resolved(p, SubSeq(NewestFirst, 1, Lesser(1, Len(NewestFirst))))
           [] ref = Latest ->
                IF NewestFirst # <<>> THEN Resolved(p, <<NewestFirst[1]>>)
                ELSE IF work[p].own = <<>>
                THEN work' = [work EXCEPT ![p].runs = <<DemoRun>>]
                ELSE Fail(p)
           [] ref = Previous ->
                IF Len(NewestFirst) < 2 THEN Fail(p) ELSE Resolved(p, <<NewestFirst[2]>>)
           [] OTHER -> Resolved(p, <<ref>>)
  /\ UNCHANGED <<clock, saved, files, posted, idFile, shown>>

\* get_trace(), and the exit if the trace is not found.
Load(p) ==
  /\ Working(p) /\ work[p].refs = <<>> /\ Len(work[p].records) < Len(work[p].ids)
  /\ LET id == work[p].ids[Len(work[p].records) + 1]
     IN  IF id \in DOMAIN saved
         THEN work' = [work EXCEPT ![p].records = Append(@, saved[id])]
         ELSE Fail(p)
  /\ UNCHANGED <<clock, saved, files, posted, idFile, shown>>

\* Faulty variant: `run` writes the newest trace's id in any case.
NewestInFile(file, newest) == newest

\* The id file is written by `run` if the script has written none.
FileAfterRun(file, newest) == IF file = None THEN newest ELSE file

\* The summary that ends `run`.
Summarize(p) ==
  IF NewestFirst = <<>> THEN UNCHANGED <<idFile, shown>>
  ELSE /\ idFile' = [idFile EXCEPT ![p] = FileAfterRun(@, NewestFirst[1])]
       /\ shown' = [shown EXCEPT ![p] = saved[NewestFirst[1]].summary]

\* The comparison of the web server hands summaries to compare_traces(), which
\* wants records: it raises, and the request has no answer.
Output(cmd, records, own) ==
  CASE cmd.op = "compare" -> CompareTraces(records[1], records[2])
    [] cmd.op = "compare_page" -> None
    [] cmd.op = "seed" -> own
    [] cmd.op \in SummaryOps -> OfSummaries(cmd.op, cmd.arg, Summaries)
    [] cmd.op \in PageOps -> OfNewest(cmd.op, cmd.arg, records)
    [] cmd.op \in TraceOps -> OfTrace(cmd.op, cmd.arg, records[1])
    [] OTHER -> OfArguments(cmd.op, cmd.arg)

Answer(p) ==
  /\ Working(p) /\ RunsDone(p) /\ work[p].cmd.op # "ingest"
  /\ work[p].refs = <<>> /\ Len(work[p].records) = Len(work[p].ids)
  /\ IF work[p].cmd.op = "run" THEN Summarize(p)
     ELSE /\ shown' = [shown EXCEPT
               ![p] = Output(work[p].cmd, work[p].records, work[p].own)]
          /\ UNCHANGED idFile
  /\ work' = [work EXCEPT ![p].phase = "answered"]
  /\ UNCHANGED <<clock, saved, files, posted>>
-----------------------------------------------------------------------------
SessionsInit ==
  \E k \in DOMAIN Scenarios : \E s \in Scenarios[k] :
    /\ clock = Len(s.runs) /\ posted = {}
    /\ saved = [i \in DOMAIN s.runs |-> StoredRecord(Traced(s.runs[i], i))]
    /\ files = IF Backend = "jsonl"
               THEN [i \in DOMAIN s.runs |-> Len(s.runs) + 1 - i] ELSE <<>>
    /\ work = [p \in Processes |-> Started(s.commands[p])]
    /\ idFile = s.file
    /\ shown = [p \in Processes |-> None]

SessionsNext ==
  \/ \E p \in Processes :
       \/ BeginRun(p) \/ EndRun(p) \/ LoseRun(p)
       \/ Receive(p) \/ SaveImport(p) \/ ImportFails(p) \/ AnswerImport(p)
       \/ Resolve(p) \/ Load(p) \/ Answer(p)
  \/ \E payload \in posted : ReceiveExport(payload)
-----------------------------------------------------------------------------
Answered(p, op) == work[p].phase = "answered" /\ work[p].cmd.op = op

\* The siblings of set S one after the other, none overlapping the next by more
\* than the tolerance.
Sequential(spans, S) ==
  LET order == ByTime(spans, S)
  IN  \A k \in 1..(Len(order) - 1) :
        spans[order[k + 1]].start >= spans[order[k]].end - OverlapTolerance

\* Below every span of a reported trace the critical path takes siblings that ran
\* one after the other, and no others that did took longer (critical_path.py:21-82).
CriticalPathIsLongest ==
  \A p \in Processes : Answered(p, "report") =>
    LET spans == shown[p].spans
        lasted(S) == MapThenSumSet(LAMBDA i : spans[i].dur, S)
    IN  \A i \in DOMAIN spans :
          LET below == Range(Children(spans, i))
              taken == Range(SiblingPath(spans, Children(spans, i)))
          IN  (\A c \in below : spans[c].end # None) =>
                /\ Sequential(spans, taken)
                /\ \A S \in SUBSET below :
                     Sequential(spans, S) => lasted(S) <= lasted(taken)

\* The summary of a trace that was analysed says what its spans say: the cost, what
\* was spent in vain - the failed steps at least, all of it if the root failed - the
\* outcome, the steps that drive the cost, and a finding for each failed step
\* (analyzer.py:270-586).
SummaryAgreesWithSpans ==
  \A id \in DOMAIN saved : "golden" \in DOMAIN saved[id].summary =>
    LET spans == saved[id].spans
        sum == saved[id].summary
        spent(S) == MapThenSumSet(LAMBDA i : OrZero(spans[i].cost), S)
        failed == {i \in DOMAIN spans : spans[i].status \in {"failure", "timeout"}}
        rootFailed == Roots(spans) # <<>> /\ Roots(spans)[1] \in failed
    IN  /\ sum.cost = spent(DOMAIN spans)
        /\ Len(sum.drivers) < 5 => sum.cost = spent(Range(sum.drivers))
        /\ spent(failed) <= sum.wasted /\ sum.wasted <= sum.cost
        /\ rootFailed => sum.wasted = sum.cost
        /\ sum.outcome = "success" <=> failed = {}
        /\ sum.perSuccess = None <=> rootFailed
        /\ Len(Selected(sum.findings, LAMBDA f : f.category = "step_failure"))
             = Cardinality(failed)

\* The kinds of waste are not charged twice: a bus that is too idle is never also
\* too busy, and no run is said to have wasted more than 2 % over what it cost and,
\* where samples ran eagerly for more than 25 % of their time, what they did so
\* beyond that: that share is charged as measured (waste.py:203-354, :317).
WasteIsAccounted ==
  \A p \in Processes : Answered(p, "detect") =>
    LET report == shown[p]
        samples == work[p].cmd.arg.samples
        eager == {25} \cup {samples[k].eager : k \in DOMAIN samples}
    IN  /\ report.shares.dataloader_starvation = 0 \/ report.shares.pcie_bottleneck = 0
        /\ \A most \in eager : (\A e \in eager : e <= most) =>
             100 * (report.wasted \div 100)
               <= (77 + most) * (report.cost \div 100) + 400 + most
        /\ report.wasted + report.effective = Greater(report.cost, report.wasted)
        /\ report.wasted > 0 /\ report.cost > 0 => report.total > 0 /\ report.top # None

\* A trace is called healthy just if it is charged no waste, and never if some
\* sample shows GPUs waiting for each other or a saturated bus
\* (correlation.py:184-278).
HealthyMeansNoWaste ==
  \A p \in Processes : Answered(p, "correlate") =>
    LET telemetry == work[p].cmd.arg.telemetry
        healthy == shown[p].category = "healthy_optimal"
    IN  telemetry # <<>> =>
          /\ healthy <=> shown[p].waste = 0
          /\ healthy <=> shown[p].monthly = 0
          /\ healthy => \A k \in DOMAIN telemetry :
               telemetry[k].nccl <= 30 /\ telemetry[k].pcie <= 7000

\* The steps of spans, without what an export does not carry.
Steps(spans) ==
  [k \in DOMAIN spans |->
     [name |-> spans[k].name, parent |-> spans[k].parent, model |-> spans[k].model,
      input |-> spans[k].input, output |-> spans[k].output]]

\* The runs that command cmd traces.
TracedBy(cmd) == IF cmd.runs = <<>> THEN <<DemoRun>> ELSE cmd.runs

\* Of every trace that came by OTLP the store holds one delivery, whole and
\* unmixed, whatever else is saved, exported, sent again or fails, if saves are
\* whole: one on JSONL may fail halfway or overlap another of its trace; and of every
\* traced run a trace of the same steps at the same cost, failed where it says why,
\* also when its export has replaced it (tracer.py:130-156, server:164-186).
StoredIsOneDelivery ==
  \A id \in DOMAIN saved : "golden" \notin DOMAIN saved[id].summary =>
    \/ \E p \in Processes :
         /\ work[p].cmd.op = "ingest" /\ work[p].cmd.arg # Broken
         /\ LET mine == Selected(work[p].cmd.arg, LAMBDA w : w.trace = id)
            IN  Steps(mine) = Steps(saved[id].spans)
    \/ \E p \in Processes : \E k \in DOMAIN work[p].own :
         /\ work[p].own[k] = id /\ work[p].cmd.op # "ingest"
         /\ LET run == PricedSpans(TracedBy(work[p].cmd)[k])
            IN  /\ Steps(run) = Steps(saved[id].spans)
                /\ saved[id].created = id + run[1].start
                /\ \A i \in DOMAIN run :
                     /\ OrZero(run[i].cost) # 0 => saved[id].spans[i].cost = run[i].cost
                     /\ run[i].error <=> saved[id].spans[i].status = "failure"

\* Some requests send trace id, but not all with one beginning.
Resent(id) ==
  \E p, q \in {r \in Processes : work[r].cmd.op = "ingest" /\ work[r].cmd.arg # Broken} :
    LET came == work[p].cmd.arg
        again == work[q].cmd.arg
    IN  \E i \in DOMAIN came, j \in DOMAIN again :
          /\ Leads(came, i) /\ Leads(again, j) /\ came[i].trace = id /\ again[j].trace = id
          /\ ~ (Timed(came[i]) /\ came[i].start = again[j].start)

\* With SQLite a comparison with the default aliases reads from the older run to the
\* newer, although each is looked up on its own while runs are saved, unless one of
\* the two is sent again with another beginning, or without any (main.py:120-147,
\* 323-346).
CompareIsForward ==
  \A p \in Processes : Backend = "sqlite" /\ Answered(p, "compare") =>
    \/ work[p].records[1].created <= work[p].records[2].created
    \/ Resent(work[p].ids[1]) \/ Resent(work[p].ids[2])

\* "List summaries of stored traces ordered by creation time descending."
\* (store/base.py:31).  JSONL files are listed by when they changed: of two runs side
\* by side, the one that began first and ended last is the latest (jsonl.py:94-96).
ListingIsByCreation ==
  \A j, k \in DOMAIN NewestFirst :
    j < k => saved[NewestFirst[j]].created >= saved[NewestFirst[k]].created

\* The id file that `run` leaves names the last trace that its script has saved, if
\* it has saved one, whatever other processes save meanwhile; what it names otherwise,
\* an older content or the newest trace of the store, may be another's
\* (main.py:384-439, tracer.py:140-145).
FileNamesOwnTrace ==
  \A p \in Processes : Answered(p, "run") =>
    LET own == Selected(work[p].own, LAMBDA id : id \in DOMAIN saved)
    IN  own # <<>> => idFile[p] = Last(own)

\* A conversation that fails over to another provider keeps the text of every message,
\* and of every part of the system prompt, in order.  To fail over again from there
\* gives the turns that a failover from the start would; and also its system prompt,
\* unless the first provider has taken that apart: then it is in no message any more.
\* The tool keeps its name and parameters (semantic_mapper.py:32-140).
FailoverKeepsTheConversation ==
  \A p \in Processes : Answered(p, "map") =>
    LET messages == work[p].cmd.arg.messages
        mapped == shown[p].conversation
        Left(ms) == IF mapped.system = <<>> THEN ms
                    ELSE Selected(ms, LAMBDA m : m.role # "system")
    IN  /\ mapped.system \in
             {<<>>, Contents(Selected(messages, LAMBDA m : m.role = "system"))}
        /\ Contents(mapped.messages) = Contents(Left(messages))
        /\ \A provider \in Range(Dialects) :
             LET again == MapMessages(mapped.messages, provider)
                 direct == MapMessages(messages, provider)
             IN  /\ again.messages = Left(direct.messages)
                 /\ mapped.system = <<>> => again.system = direct.system
        /\ shown[p].tool.name = work[p].cmd.arg.tool.name
        /\ work[p].cmd.arg.tool.params # "empty" =>
             shown[p].tool.params = work[p].cmd.arg.tool.params
=============================================================================
