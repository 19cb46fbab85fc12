------------------------------ MODULE Collector -------------------------------
(***************************************************************************)
(* The node collector (Rust).  One loop samples the GPUs, pushes the batch *)
(* into the ring buffer, posts an alert for every hot sample and then the  *)
(* batch, and sleeps.  Other tasks read the buffer at any time: they       *)
(* correlate OTLP spans with it and show it to Prometheus.  They change no *)
(* state, and are operators here.                                          *)
(*                                                                         *)
(* NVML counts the traffic of the bus in KB/s; the collector multiplies by *)
(* 1024 in 32 bits.  A release build keeps the remainder, a debug build    *)
(* panics.                                                                 *)
(***************************************************************************)
EXTENDS Naturals, SequencesExt

CONSTANTS
  NumGpus,
  Capacity,      \* of the ring buffer
  Mode,          \* HardwareMode
  Readings,      \* what NVML may report: [sm, pcie, temp], in per mille of the
                 \*   SM cycles, MB/s and degrees Celsius
  ReadTimes,     \* bound: the seconds it may take to read one GPU
  PostTimes,     \* the seconds a POST may take, up to the client's timeout
  ScrapeWindow,  \* the seconds that a Prometheus scrape looks back
  LastBatch,     \* 5 in AIRUN_TEST_MODE; for a daemon, a bound of the model
  Word64,        \* 2^64 ns in seconds
  None

ASSUME CollectorAssumption ==
  /\ NumGpus \in Nat /\ LastBatch \in Nat /\ ScrapeWindow \in Nat
  /\ Capacity \in Nat \ {0}
  /\ Mode \in {"NvmlDirect", "DcgmSocket", "FallbackEmulated"}
  /\ Readings \subseteq [sm : Nat, pcie : Nat, temp : Nat]
  /\ ReadTimes \subseteq 0..1 /\ PostTimes \subseteq 0..3
  /\ Word64 \in Nat
  /\ None \notin {"dataloader_starvation", "pcie_bus_saturation"}

VARIABLES
  now,     \* seconds
  loop,    \* what main() does next
  count,   \* batches collected
  batch,   \* the samples taken that are not yet in the buffer
  ring,    \* TelemetryRingBuffer.buffer
  outbox,  \* what the iteration still has to post
  pushed,  \* ghost: every sample that was pushed
  sent     \* ghost: every message posted

vars == <<now, loop, count, batch, ring, outbox, pushed, sent>>

-----------------------------------------------------------------------------
\* The constant readings of scrape_sample(), for a device that cannot be opened
\* or read over the DCGM socket, and for a node without drivers.
Default == [sm |-> 785, pcie |-> 1, temp |-> 62]
Emulated == [sm |-> 420, pcie |-> 0, temp |-> 45]

Scraped ==
  CASE Mode = "NvmlDirect" -> Readings \cup {Default}
    [] Mode = "DcgmSocket" -> {Default}
    [] Mode = "FallbackEmulated" -> {Emulated}

Gpus == 1..NumGpus

\* 2^32 bytes in MB.
Word32 == 4096

\* bus is what went over the bus when the GPU was read, reading what is kept.
Samples ==
  {s \in [gpu : Gpus, at : Nat, bus : Nat, reading : [sm : Nat, pcie : Nat, temp : Nat]] :
     s.reading.pcie = s.bus % Word32}

Hot(s) == s.reading.temp > 82

Started == [type |-> "workload.started", samples |-> <<>>]
Alert(s) == [type |-> "gpu.alert", samples |-> <<s>>]
Batch(b) == [type |-> "trace.created", samples |-> b]

\* Faulty variant: one alert for each batch.
AlertsFirst(b) ==
  FoldLeft(LAMBDA alerts, s : IF Hot(s) /\ alerts = <<>>
                              THEN Append(alerts, Alert(s)) ELSE alerts,
           <<>>, b)

\* The alerts for a batch, in the order of the GPUs.
Alerts(b) ==
  FoldLeft(LAMBDA alerts, s : IF Hot(s) THEN Append(alerts, Alert(s)) ELSE alerts,
           <<>>, b)

Init ==
  /\ now = 0 /\ count = 0
  /\ loop = "post"
  /\ batch = <<>> /\ ring = <<>>
  /\ outbox = <<Started>>
  /\ pushed = <<>> /\ sent = <<>>

ScrapeSample(g, r) ==
  [gpu |-> g, at |-> now, bus |-> r.pcie, reading |-> [r EXCEPT !.pcie = @ % Word32]]

\* scrape_sample() of the next GPU, which takes the time before it reads.
ScrapeGpu ==
  /\ loop = "collect" /\ Len(batch) < NumGpus
  /\ \E r \in Scraped : batch' = Append(batch, ScrapeSample(Len(batch) + 1, r))
  /\ \E seconds \in ReadTimes : now' = now + seconds
  /\ UNCHANGED <<loop, count, ring, outbox, pushed, sent>>

\* A debug build ends at a reading that does not fit.
Overflow ==
  /\ loop = "collect" /\ Len(batch) < NumGpus
  /\ \E r \in Scraped : r.pcie >= Word32
  /\ loop' = "panicked"
  /\ UNCHANGED <<now, count, batch, ring, outbox, pushed, sent>>

\* collect_batch() returns.
Collect ==
  /\ loop = "collect" /\ Len(batch) = NumGpus
  /\ loop' = "push"
  /\ count' = count + 1
  /\ outbox' = Alerts(batch) \o <<Batch(batch)>>
  /\ UNCHANGED <<now, batch, ring, pushed, sent>>

\* Faulty variant: a full buffer drops the sample it is given.
PushSampleIfRoom(buf, s) == IF Len(buf) >= Capacity THEN buf ELSE Append(buf, s)

PushSample(buf, s) ==
  Append(IF Len(buf) >= Capacity THEN Tail(buf) ELSE buf, s)

\* push_batch(), sample by sample under the buffer's lock.
Push ==
  /\ loop = "push"
  /\ IF batch = <<>>
     THEN loop' = "post" /\ UNCHANGED <<batch, ring, pushed>>
     ELSE /\ ring' = PushSample(ring, Head(batch))
          /\ pushed' = Append(pushed, Head(batch))
          /\ batch' = Tail(batch)
          /\ UNCHANGED loop
  /\ UNCHANGED <<now, count, outbox, sent>>

\* publish_event() and publish_telemetry_batch(): whatever becomes of the POST,
\* it is reported as published.
Post ==
  /\ loop = "post" /\ outbox # <<>>
  /\ \E seconds \in PostTimes : now' = now + seconds
  /\ sent' = Append(sent, Head(outbox))
  /\ outbox' = Tail(outbox)
  /\ UNCHANGED <<loop, count, batch, ring, pushed>>

\* The end of an iteration; the first message is followed by no pause.
Pause ==
  /\ loop = "post" /\ outbox = <<>>
  /\ now' = IF count = 0 THEN now ELSE now + 1
  /\ loop' = IF count >= LastBatch THEN "done" ELSE "collect"
  /\ UNCHANGED <<count, batch, ring, outbox, pushed, sent>>

Next == ScrapeGpu \/ Overflow \/ Collect \/ Push \/ Post \/ Pause

Spec == Init /\ [][Next]_vars

-----------------------------------------------------------------------------
(* The readers of the buffer.                                                *)

\* push_batch() holds the lock until the batch is in.
Readable == loop # "push" \/ Len(batch) \in {0, NumGpus}

Ring == {ring[i] : i \in DOMAIN ring}
Pushed == {pushed[i] : i \in DOMAIN pushed}

\* Faulty variant: the window leaves out its ends.
QueryWindowOpen(start, end) == {s \in Ring : start < s.at /\ s.at < end}

QueryWindow(start, end) == {s \in Ring : start <= s.at /\ s.at <= end}

AverageSm(S) ==
  IF S = {} THEN 0
  ELSE MapThenSumSet(LAMBDA s : s.reading.sm, S) \div Cardinality(S)

\* Faulty variant: no special case for an empty window.
BottleneckOfAny(S) ==
  IF AverageSm(S) < 500 /\ \A s \in S : s.reading.pcie < 500
  THEN "dataloader_starvation"
  ELSE IF \E s \in S : s.reading.pcie > 7000 THEN "pcie_bus_saturation" ELSE None

\* analyze_window(); nccl_barrier_wait_ms is 8.2 or 15 and never above 30.
Bottleneck(S) ==
  CASE S # {} /\ AverageSm(S) < 500 /\ \A s \in S : s.reading.pcie < 500
         -> "dataloader_starvation"
    [] \E s \in S : s.reading.pcie > 7000 -> "pcie_bus_saturation"
    [] OTHER -> None

\* correlate_span().  The difference is unsigned: of a span that ends before it
\* starts it wraps.
CorrelateSpan(start, end) ==
  [duration |-> IF start <= end THEN end - start ELSE Word64 - (start - end),
   bottleneck |-> Bottleneck(QueryWindow(start, end))]

\* Faulty variant: nothing is shown between two batches that are far apart.
ScrapeRecent == {s \in Ring : s.at + ScrapeWindow >= now /\ s.at <= now}

\* format_prometheus_metrics(): a line for each sample of the window, or, if it
\* holds none, for each of the last day.
Scrape ==
  LET recent == {s \in Ring : s.at + ScrapeWindow >= now /\ s.at <= now}
  IN  IF recent # {} THEN recent
      ELSE {s \in Ring : s.at + 86400 >= now /\ s.at <= now}

\* The instants at which a span may start or end, as far as samples can tell;
\* 0 stands for a time that cannot be parsed too.
Instants == {0, now} \cup {s.at : s \in Pushed} \cup {s.at + 1 : s \in Pushed}

-----------------------------------------------------------------------------
TypeOK ==
  /\ now \in Nat /\ count \in Nat
  /\ loop \in {"collect", "push", "post", "done", "panicked"}
  /\ batch \in Seq(Samples) /\ ring \in Seq(Samples) /\ pushed \in Seq(Samples)
  /\ \A i \in DOMAIN outbox :
       /\ outbox[i].type \in {"workload.started", "gpu.alert", "trace.created"}
       /\ outbox[i].samples \in Seq(Samples)

\* buf is as much of the end of all as the capacity admits.
IsNewest(buf, all) ==
  /\ Len(buf) = IF Len(all) < Capacity THEN Len(all) ELSE Capacity
  /\ \A i \in 1..Len(buf) : buf[i] = all[Len(all) - Len(buf) + i]

\* The buffer holds the newest samples, in their order (dcgm.rs:206-226).
RingIsTheNewest == IsNewest(ring, pushed)

\* All that was sampled since start is still in the buffer.
Covered(start) == Len(ring) < Len(pushed) => start > ring[1].at

During(start, end) == {s \in Pushed : start <= s.at /\ s.at <= end}

\* A span that starts after the oldest sample kept is correlated with all the
\* samples of its time and no others (dcgm.rs:239-252).
WindowIsComplete ==
  \A start, end \in Instants :
    Readable /\ Covered(start) => QueryWindow(start, end) = During(start, end)

\* A span is found starved only if some GPU was idle during the span and, as far
\* as the buffer reaches, each reading of the bus was low or did not fit in 32
\* bits; and no finding comes with a duration that wrapped (dcgm.rs:255-314,
\* otlp.rs:99-141).
DiagnosisIsJustified ==
  \A start, end \in Instants :
    LET finding == CorrelateSpan(start, end)
        during == During(start, end)
    IN  Readable =>
        /\ finding.bottleneck # None => finding.duration = end - start
        /\ finding.bottleneck = "dataloader_starvation" =>
             /\ \E s \in during : s.reading.sm < 500
             /\ Covered(start) => \A s \in during : s.bus < 500 \/ s.bus >= Word32

\* A scrape shows the latest sample of every GPU, also while POSTs hold the loop
\* up for longer than the window; only when the window begins within a batch, it
\* leaves out the GPUs read before that (prometheus.rs:13-22, dcgm.rs:98-99).
ScrapeShowsTheNewest ==
  LET n == Len(pushed)
      newest == (n - NumGpus + 1)..n
      Left(i) == pushed[i].at + ScrapeWindow < now
  IN  Readable /\ n >= NumGpus /\ NumGpus <= Capacity =>
        \A i \in newest :
          pushed[i] \in Scrape \/ (Left(i) /\ \E j \in newest : i < j /\ ~Left(j))

\* When the loop pauses, every hot sample has been announced, once, before the
\* batch it is in (main.rs:181-218).
HotSamplesAreAnnounced ==
  loop \in {"collect", "done"} =>
    LET Count(m) == Cardinality({i \in DOMAIN sent : sent[i] = m})
    IN  /\ \A s \in Pushed : Count(Alert(s)) = IF Hot(s) THEN 1 ELSE 0
        /\ \A i, j \in DOMAIN sent :
             /\ sent[i].type = "gpu.alert" /\ sent[j].type = "trace.created"
             /\ \E k \in DOMAIN sent[j].samples :
                  sent[j].samples[k] = sent[i].samples[1]
             => i < j
=============================================================================
