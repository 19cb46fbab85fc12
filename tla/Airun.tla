---------------------------------- MODULE Airun --------------------------------
(***************************************************************************)
(* The Python profiler around its trace store: the commands and requests   *)
(* (Sessions), the pipeline on the asynchronous event bus                  *)
(* (WorkloadPipeline) and the synchronous event queue (EventQueue).  They  *)
(* share the records, the analysis and no state, so that each behaviour of *)
(* one of them is one of the whole in which the others rest: a run of the  *)
(* whole lets one part work.                                               *)
(***************************************************************************)
EXTENDS Sessions, WorkloadPipeline, EventQueue

VARIABLE part   \* the part that works

vars == <<part, sessionVars, pipelineVars, queueVars>>

SessionsRest ==
  /\ clock = 0 /\ saved = <<>> /\ files = <<>> /\ posted = {}
  /\ work = [p \in Processes |-> Started(NoCommand)]
  /\ idFile = [p \in Processes |-> None] /\ shown = [p \in Processes |-> None]

PipelineRest ==
  BusInit([key \in EventTypes \cup {"*"} |-> <<>>], Engines \cup Listeners) /\ rows = None

Init ==
  \/ part = "sessions" /\ SessionsInit /\ PipelineRest /\ QueueInit
  \/ part = "pipeline" /\ SessionsRest /\ PipelineInit /\ QueueInit
  \/ part = "queue" /\ SessionsRest /\ PipelineRest /\ QueueInit

Next ==
  \/ /\ part = "sessions" /\ SessionsNext
     /\ UNCHANGED <<part, pipelineVars, queueVars>>
  \/ /\ part = "pipeline" /\ PipelineNext
     /\ UNCHANGED <<part, sessionVars, queueVars>>
  \/ /\ part = "queue" /\ QueueNext
     /\ UNCHANGED <<part, sessionVars, pipelineVars>>

Spec == Init /\ [][Next]_vars
=============================================================================
