-------------------------- MODULE BatchSpanProcessor --------------------------
(***************************************************************************)
(* BatchSpanProcessorBase of sdk-trace with its BindOnceFuture, its self   *)
(* observability counters and the exporter and resource it calls.          *)
(*                                                                         *)
(* An action is one synchronous segment of JavaScript: a public method, a  *)
(* timer callback, an exporter callback or a promise reaction.  Promise    *)
(* reactions (microtasks) run before any timer callback; application code  *)
(* and exporter callbacks may run between two of them.                     *)
(***************************************************************************)
EXTENDS Integers, Sequences, FiniteSets, SequencesExt

CONSTANTS
  Spans,               \* the spans that end in one execution
  Sampled,             \* those whose SAMPLED flag is set
  MaxQueueSize,        \* option maxQueueSize
  MaxExportBatchSize,  \* option maxExportBatchSize
  AsyncResource,       \* TRUE if the resource has asynchronous attributes
  ResourceMayFail,     \* TRUE if waiting for them may be rejected
  MaxFlushes           \* bound: calls of forceFlush in one execution

ASSUME SampledAssumption == Sampled \subseteq Spans
ASSUME SizeAssumption ==
  MaxQueueSize \in Nat \ {0} /\ MaxExportBatchSize \in Nat \ {0}
ASSUME ResourceAssumption ==
  AsyncResource \in BOOLEAN /\ ResourceMayFail \in BOOLEAN
ASSUME FlushAssumption == MaxFlushes \in Nat

VARIABLES
  queue,             \* _finishedSpans
  isExporting,       \* _isExporting
  timer,             \* _timer !== undefined
  droppedSpansCount, \* _droppedSpansCount
  metrics,           \* counters of SpanProcessorMetrics
  batches,           \* every batch taken from the queue, in order
  flushes,           \* every _flushAll for forceFlush or shutdown, in order
  shut,              \* progress of _shutdown
  resourcePending,   \* resource.asyncAttributesPending
  ended,             \* spans whose onEnd was called
  accepted,          \* history: spans pushed to the queue, in order
  dropped            \* history: spans lost at a full queue

vars == <<queue, isExporting, timer, droppedSpansCount, metrics, batches,
          flushes, shut, resourcePending, ended, accepted, dropped>>

-------------------------------------------------------------------------------
\* A batch is the closure of one _flushOneBatch call.
\*   phase    where its spans are: waiting for the resource, given to the
\*            exporter, reported by the exporter, or never to be exported
\*   promise  the promise _flushOneBatch returned
\*   timeout  its export timeout is armed
\*   chain    the next reaction of flush's .finally().catch() chain
Batch == [spans   : Seq(Spans),
          origin  : {"schedule", "flushAll"},
          phase   : {"resource", "exporting", "reported", "lost"},
          promise : {"pending", "resolved", "rejected"},
          timeout : BOOLEAN,
          chain   : {"finally", "catch", "none"}]

\* What awaits what: a flush settles with the batches first..last it started,
\* a "joined" one (forceFlush after shutdown) with the shutdown.
Flush == [kind   : {"forceFlush", "shutdown", "joined"},
          first  : Nat,
          last   : Nat,
          before : Nat]      \* history: spans accepted before the call

ShutStates == {"no", "called", "flushing", "exporterShutdown", "done", "failed"}

ShutdownCalled == shut # "no"

-------------------------------------------------------------------------------
\* Batches

\* The constructor lowers maxExportBatchSize to maxQueueSize.
BatchSize ==
  IF MaxExportBatchSize > MaxQueueSize THEN MaxQueueSize ELSE MaxExportBatchSize

\* Mutant: the number of batches rounded down.
BatchCountFloor(q) == Len(q) \div BatchSize

\* The number of batches _flushAll starts for a queue, and the i-th of them.
BatchCount(q) == (Len(q) + BatchSize - 1) \div BatchSize

ChunkEnd(q, i) == IF i * BatchSize <= Len(q) THEN i * BatchSize ELSE Len(q)

Chunk(q, i) == SubSeq(q, (i - 1) * BatchSize + 1, ChunkEnd(q, i))

\* Mutant: the last span of a batch stays in the queue.
RemainingOverlaps(q, n) == SubSeq(q, ChunkEnd(q, n), Len(q))

\* What n batches leave in the queue.
Remaining(q, n) == SubSeq(q, ChunkEnd(q, n) + 1, Len(q))

\* How a batch can start: it waits for the resource, or doExport runs at once,
\* and the exporter keeps the spans or throws.
Starts == IF resourcePending THEN {"resource"} ELSE {"exporting", "threw"}

NewBatch(spans, origin, start) ==
  [spans   |-> spans,
   origin  |-> origin,
   phase   |-> IF start = "threw" THEN "lost" ELSE start,
   promise |-> IF start = "threw" THEN "rejected" ELSE "pending",
   timeout |-> TRUE,
   chain   |-> IF origin = "schedule" THEN "finally" ELSE "none"]

Settle(promise, outcome) == IF promise = "pending" THEN outcome ELSE promise

\* What can happen to a batch x.
Chained(x, next) == [x EXCEPT !.chain = next]

Started(x, phase) == [x EXCEPT !.phase = phase]

TimedOut(x) ==
  [x EXCEPT !.timeout = FALSE, !.promise = Settle(x.promise, "rejected")]

Reported(x, outcome) ==
  [x EXCEPT !.phase = "reported", !.timeout = FALSE,
            !.promise = Settle(x.promise, outcome)]

Failed(x) == [x EXCEPT !.phase = "lost", !.promise = Settle(x.promise, "rejected")]

-------------------------------------------------------------------------------
\* Scheduling

\* Mutants: the size check is off by one, on either side.
QueueFullLate == Len(queue) > MaxQueueSize
QueueFullEarly == Len(queue) + 1 >= MaxQueueSize

QueueFull == Len(queue) >= MaxQueueSize

\* Mutant: _isExporting is not set.
FlushScheduledUnmarked(q, bs) ==
  /\ isExporting' = isExporting
  /\ timer' = FALSE
  /\ queue' = Remaining(q, 1)
  /\ \E start \in Starts :
       batches' = Append(bs, NewBatch(Chunk(q, 1), "schedule", start))

\* flush() inside _maybeStartTimer: one batch, whose reactions are chained.
FlushScheduled(q, bs) ==
  /\ isExporting' = TRUE
  /\ timer' = FALSE
  /\ queue' = Remaining(q, 1)
  /\ \E start \in Starts :
       batches' = Append(bs, NewBatch(Chunk(q, 1), "schedule", start))

\* _maybeStartTimer() with queue q, batches bs and _isExporting = exporting.
MaybeStartTimer(q, bs, exporting) ==
  \/ /\ ~exporting
     /\ Len(q) >= BatchSize
     /\ FlushScheduled(q, bs)
  \/ /\ exporting \/ Len(q) < BatchSize
     /\ timer' = (timer \/ ~exporting)
     /\ isExporting' = exporting
     /\ queue' = q
     /\ batches' = bs

KeepsTimer(q) == timer /\ BatchCount(q) = 0

\* _flushAll(): every batch is started before any of them is awaited.
FlushAll(kind) ==
  /\ \E starts \in [1..BatchCount(queue) -> Starts] :
       batches' = batches \o
         [i \in 1..BatchCount(queue) |->
            NewBatch(Chunk(queue, i), "flushAll", starts[i])]
  /\ queue' = Remaining(queue, BatchCount(queue))
  /\ timer' = KeepsTimer(queue)
  /\ flushes' = Append(flushes,
                       [kind   |-> kind,
                        first  |-> Len(batches) + 1,
                        last   |-> Len(batches) + BatchCount(queue),
                        before |-> Len(accepted)])

-------------------------------------------------------------------------------
\* Promises

\* Mutant: the .catch(reject) of _flushAll is missing.
FlushNeverRejected(f) == FALSE

FlushRejected(f) == \E b \in f.first..f.last : batches[b].promise = "rejected"

FlushResolved(f) == \A b \in f.first..f.last : batches[b].promise = "resolved"

FlushSettled(f) ==
  IF f.kind = "joined" THEN shut \in {"done", "failed"}
                       ELSE FlushRejected(f) \/ FlushResolved(f)

ShutdownFlushes == {f \in ToSet(flushes) : f.kind = "shutdown"}

\* The reactions that are ready to run.
FinallyReady(b) == batches[b].chain = "finally" /\ batches[b].promise # "pending"
CatchReady(b) == batches[b].chain = "catch"
ResourceReactionReady(b) == batches[b].phase = "resource" /\ ~resourcePending
ShutdownReactionReady ==
  \/ shut = "called"
  \/ shut = "flushing" /\ \A f \in ShutdownFlushes : FlushSettled(f)

\* Timer callbacks run only when no promise reaction is left to run.
MicrotasksDone ==
  /\ \A b \in DOMAIN batches :
       ~(FinallyReady(b) \/ CatchReady(b) \/ ResourceReactionReady(b))
  /\ ~ShutdownReactionReady

-------------------------------------------------------------------------------
Init ==
  /\ queue = <<>>
  /\ isExporting = FALSE
  /\ timer = FALSE
  /\ droppedSpansCount = 0
  /\ metrics = [dropped |-> 0, finished |-> 0]
  /\ batches = <<>>
  /\ flushes = <<>>
  /\ shut = "no"
  /\ resourcePending = AsyncResource
  /\ ended = {}
  /\ accepted = <<>>
  /\ dropped = {}

-------------------------------------------------------------------------------
\* Public methods

\* Mutant: onEnd does not look at the shutdown.
IgnoredUnsampled(s) == s \notin Sampled

\* onEnd: after shutdown or without the SAMPLED flag the span is ignored.
Ignored(s) == ShutdownCalled \/ s \notin Sampled

IgnoreSpan(s) ==
  /\ Ignored(s)
  /\ UNCHANGED <<queue, isExporting, timer, droppedSpansCount, metrics,
                 batches, accepted, dropped>>

\* _addToBuffer, limit reached.
DropSpan(s) ==
  /\ ~Ignored(s)
  /\ QueueFull
  /\ droppedSpansCount' = droppedSpansCount + 1
  /\ metrics' = [metrics EXCEPT !.dropped = @ + 1]
  /\ dropped' = dropped \cup {s}
  /\ UNCHANGED <<queue, isExporting, timer, batches, accepted>>

\* _addToBuffer with room.
AddSpan(s) ==
  /\ ~Ignored(s)
  /\ ~QueueFull
  /\ droppedSpansCount' = 0
  /\ accepted' = Append(accepted, s)
  /\ MaybeStartTimer(Append(queue, s), batches, isExporting)
  /\ UNCHANGED <<metrics, dropped>>

OnEnd(s) ==
  /\ s \notin ended
  /\ ended' = ended \cup {s}
  /\ IgnoreSpan(s) \/ DropSpan(s) \/ AddSpan(s)
  /\ UNCHANGED <<flushes, shut, resourcePending>>

FlushCalls == Cardinality({i \in DOMAIN flushes : flushes[i].kind # "shutdown"})

ForceFlush ==
  /\ FlushCalls < MaxFlushes
  /\ ~ShutdownCalled
  /\ FlushAll("forceFlush")
  /\ UNCHANGED <<isExporting, droppedSpansCount, metrics, shut,
                 resourcePending, ended, accepted, dropped>>

\* forceFlush after shutdown returns the shutdown's promise.
ForceFlushJoins ==
  /\ FlushCalls < MaxFlushes
  /\ ShutdownCalled
  /\ flushes' = Append(flushes, [kind |-> "joined", first |-> 1, last |-> 0,
                                 before |-> Len(accepted)])
  /\ UNCHANGED <<queue, isExporting, timer, droppedSpansCount, metrics,
                 batches, shut, resourcePending, ended, accepted, dropped>>

\* The first call of shutdown(); later calls return the same promise.
Shutdown ==
  /\ ~ShutdownCalled
  /\ shut' = "called"
  /\ UNCHANGED <<queue, isExporting, timer, droppedSpansCount, metrics,
                 batches, flushes, resourcePending, ended, accepted, dropped>>

-------------------------------------------------------------------------------
\* Promise reactions

\* _shutdown: onShutdown() has run, _flushAll() runs.
ShutdownFlush ==
  /\ shut = "called"
  /\ shut' = "flushing"
  /\ FlushAll("shutdown")
  /\ UNCHANGED <<isExporting, droppedSpansCount, metrics, resourcePending,
                 ended, accepted, dropped>>

\* _shutdown: the flush resolved, exporter.shutdown() is called, or it was
\* rejected and nothing else is done.
ShutdownFlushSettles ==
  /\ shut = "flushing"
  /\ \E f \in ShutdownFlushes :
       \/ FlushResolved(f) /\ shut' = "exporterShutdown"
       \/ FlushRejected(f) /\ shut' = "failed"
  /\ UNCHANGED <<queue, isExporting, timer, droppedSpansCount, metrics,
                 batches, flushes, resourcePending, ended, accepted, dropped>>

\* Mutant: a single waiting span is overlooked.
SpansWaitLate == Len(queue) > 1

SpansWait == Len(queue) > 0

\* flush(): .finally, the batch is over and the next one is scheduled.
Finally(b) ==
  /\ FinallyReady(b)
  /\ LET next == IF batches[b].promise = "rejected" THEN "catch" ELSE "none"
         bs == [batches EXCEPT ![b] = Chained(@, next)]
     IN \/ /\ SpansWait
           /\ MaybeStartTimer(queue, bs, FALSE)
        \/ /\ ~SpansWait
           /\ isExporting' = FALSE
           /\ batches' = bs
           /\ UNCHANGED <<queue, timer>>
  /\ UNCHANGED <<droppedSpansCount, metrics, flushes, shut, resourcePending,
                 ended, accepted, dropped>>

\* flush(): .catch, reached after .finally when the batch failed.
Catch(b) ==
  /\ CatchReady(b)
  /\ batches' = [batches EXCEPT ![b] = Chained(@, "none")]
  /\ isExporting' = FALSE
  /\ UNCHANGED <<queue, timer, droppedSpansCount, metrics, flushes, shut,
                 resourcePending, ended, accepted, dropped>>

\* The resource of the batch is ready: doExport runs inside a reaction, where
\* an exporter that throws leaves the batch's promise to its timeout.
ResourceReady(b) ==
  /\ ResourceReactionReady(b)
  /\ \E phase \in {"exporting", "lost"} :
       batches' = [batches EXCEPT ![b] = Started(@, phase)]
  /\ UNCHANGED <<queue, isExporting, timer, droppedSpansCount, metrics,
                 flushes, shut, resourcePending, ended, accepted, dropped>>

-------------------------------------------------------------------------------
\* Timers, the exporter and the resource

\* setTimeout(() => flush(), _scheduledDelayMillis)
TimerFires ==
  /\ MicrotasksDone
  /\ timer
  /\ FlushScheduled(queue, batches)
  /\ UNCHANGED <<droppedSpansCount, metrics, flushes, shut, resourcePending,
                 ended, accepted, dropped>>

\* Mutant: the timeout covers the export only, not the wait for the resource.
ExportTimeoutLate(b) ==
  /\ MicrotasksDone
  /\ batches[b].timeout /\ batches[b].phase = "exporting"
  /\ batches' = [batches EXCEPT ![b] = TimedOut(@)]
  /\ UNCHANGED <<queue, isExporting, timer, droppedSpansCount, metrics,
                 flushes, shut, resourcePending, ended, accepted, dropped>>

\* Mutant: a batch that timed out is counted, and again when it is reported.
ExportTimeoutCounts(b) ==
  /\ MicrotasksDone
  /\ batches[b].timeout
  /\ batches' = [batches EXCEPT ![b] = TimedOut(@)]
  /\ metrics' = [metrics EXCEPT !.finished = @ + Len(batches[b].spans)]
  /\ UNCHANGED <<queue, isExporting, timer, droppedSpansCount, flushes, shut,
                 resourcePending, ended, accepted, dropped>>

\* setTimeout(() => reject(new Error('Timeout')), _exportTimeoutMillis)
ExportTimeout(b) ==
  /\ MicrotasksDone
  /\ batches[b].timeout
  /\ batches' = [batches EXCEPT ![b] = TimedOut(@)]
  /\ UNCHANGED <<queue, isExporting, timer, droppedSpansCount, metrics,
                 flushes, shut, resourcePending, ended, accepted, dropped>>

\* The exporter calls resultCallback, possibly after the timeout.
ExporterResult(b) ==
  /\ batches[b].phase = "exporting"
  /\ \E outcome \in {"resolved", "rejected"} :
       batches' = [batches EXCEPT ![b] = Reported(@, outcome)]
  /\ metrics' = [metrics EXCEPT !.finished = @ + Len(batches[b].spans)]
  /\ UNCHANGED <<queue, isExporting, timer, droppedSpansCount, flushes, shut,
                 resourcePending, ended, accepted, dropped>>

\* The promise of exporter.shutdown() settles, and with it the shutdown's.
ExporterShutdownSettles ==
  /\ shut = "exporterShutdown"
  /\ shut' \in {"done", "failed"}
  /\ UNCHANGED <<queue, isExporting, timer, droppedSpansCount, metrics,
                 batches, flushes, resourcePending, ended, accepted, dropped>>

\* The asynchronous attributes of the resource are known.
ResourceSettles ==
  /\ resourcePending
  /\ resourcePending' = FALSE
  /\ UNCHANGED <<queue, isExporting, timer, droppedSpansCount, metrics,
                 batches, flushes, shut, ended, accepted, dropped>>

\* Waiting for the resource fails: the batch is never exported, its timeout
\* stays armed.
ResourceFails(b) ==
  /\ ResourceMayFail
  /\ resourcePending
  /\ batches[b].phase = "resource"
  /\ batches' = [batches EXCEPT ![b] = Failed(@)]
  /\ UNCHANGED <<queue, isExporting, timer, droppedSpansCount, metrics,
                 flushes, shut, resourcePending, ended, accepted, dropped>>

-------------------------------------------------------------------------------
Application ==
  \/ \E s \in Spans : OnEnd(s)
  \/ ForceFlush
  \/ ForceFlushJoins
  \/ Shutdown

Reaction ==
  \/ ShutdownFlush
  \/ ShutdownFlushSettles
  \/ \E b \in DOMAIN batches : Finally(b) \/ Catch(b) \/ ResourceReady(b)

TimerTask ==
  \/ TimerFires
  \/ \E b \in DOMAIN batches : ExportTimeout(b)

Environment ==
  \/ ExporterShutdownSettles
  \/ ResourceSettles
  \/ \E b \in DOMAIN batches : ExporterResult(b) \/ ResourceFails(b)

Next == Application \/ Reaction \/ TimerTask \/ Environment

Spec == Init /\ [][Next]_vars

\* The JavaScript event loop runs every promise reaction and every due timer.
\* Nothing is assumed of the application, the exporter or the resource.
FairSpec == Spec /\ WF_vars(Reaction) /\ WF_vars(TimerTask)

-------------------------------------------------------------------------------
\* Properties

\* Every variable holds a value the code can give it, and the queue never
\* outgrows maxQueueSize.
TypeOK ==
  /\ queue \in Seq(Spans)
  /\ Len(queue) <= MaxQueueSize
  /\ isExporting \in BOOLEAN
  /\ timer \in BOOLEAN
  /\ droppedSpansCount \in Nat
  /\ metrics \in [dropped : Nat, finished : Nat]
  /\ batches \in Seq(Batch)
  /\ flushes \in Seq(Flush)
  /\ shut \in ShutStates
  /\ resourcePending \in BOOLEAN
  /\ ended \subseteq Spans
  /\ accepted \in Seq(Spans)
  /\ dropped \subseteq Spans

\* A scheduled batch whose .finally reaction has not run yet.
Running(b) == batches[b].origin = "schedule" /\ batches[b].chain = "finally"

\* No span is stranded: whenever spans wait, the delay timer is armed or a
\* scheduled batch is running whose .finally will look at the queue again
\* (_maybeStartTimer trusts _isExporting for that).
NoStrandedSpans ==
  queue # <<>> => timer \/ \E b \in DOMAIN batches : Running(b)

\* _isExporting never outlives the scheduled batches: if it is set, one of
\* them still has the reaction to come that resets it.
ExportingIsReset == isExporting => \E b \in DOMAIN batches : Running(b)

\* The delay timer is armed only for waiting spans and never during a
\* scheduled export, so flush() always finds something to export.
TimerMeansWork == timer => queue # <<>> /\ ~isExporting

\* Every accepted span is in exactly one batch or still queued, and batches
\* are cut in the order of acceptance (flush, _flushAll and onEnd all take
\* from the queue).
ExactlyOnceInOrder ==
  FlattenSeq([b \in DOMAIN batches |-> batches[b].spans]) \o queue = accepted

\* The self-observability counters account for every sampled span: nothing is
\* counted twice, not even by a callback after the timeout, and once every
\* batch was reported, each accepted span was counted as processed.
CountersBalance ==
  /\ metrics.dropped = Cardinality(dropped)
  /\ metrics.finished + Len(queue) <= Len(accepted)
  /\ (\A b \in DOMAIN batches : batches[b].phase = "reported")
       => metrics.finished + Len(queue) = Len(accepted)

\* "only send a single batch at a time": two scheduled batches are never
\* awaited together.
SingleBatchAtATime ==
  \A b, c \in DOMAIN batches :
    Running(b) /\ Running(c) /\ batches[b].promise = "pending"
               /\ batches[c].promise = "pending" => b = c

\* The same as long as no scheduled batch has failed or timed out, however
\* forceFlush, shutdown and late callbacks interleave.
SingleBatchUntilFailure ==
  (\A b \in DOMAIN batches :
      batches[b].origin = "schedule" => batches[b].promise # "rejected")
    => SingleBatchAtATime

\* A batch that the exporter was given.
Exported(b) == batches[b].phase \in {"exporting", "reported"}

\* Once exporter.shutdown() was called no batch is begun, and what is still
\* exported had waited for the resource (_shutdown does not await scheduled
\* batches).
ExporterStopped == shut \in {"exporterShutdown", "done"}

OnlyHeldBatchesAfterShutdown ==
  [][ExporterStopped =>
       \A b \in DOMAIN batches' :
         Exported(b)' =>
           b \in DOMAIN batches
             /\ (Exported(b) \/ batches[b].phase = "resource")]_vars

\* When forceFlush (or the flush of shutdown) resolves, every span that was
\* accepted before the call has left the queue, and only a batch that was cut
\* before the call can hold it back for the resource.
ResolvedFlushSentItsBatches ==
  \A i \in DOMAIN flushes :
    flushes[i].kind # "joined" /\ FlushResolved(flushes[i]) =>
      LET before == ToSet(SubSeq(accepted, 1, flushes[i].before))
      IN /\ before \cap ToSet(queue) = {}
         /\ \A b \in DOMAIN batches :
              b >= flushes[i].first /\ batches[b].phase = "resource" =>
                before \cap ToSet(batches[b].spans) = {}

\* The processor is a bounded FIFO that loses spans only when full.
BQ == INSTANCE BatchQueue WITH
        Items <- Spans, Capacity <- MaxQueueSize,
        buffer <- queue, closed <- ShutdownCalled
ImplementsBatchQueue == BQ!QueueSpec

\* No span waits for ever, whatever the exporter and the resource do: again and
\* again the queue is empty.  The delay timer sends a batch that stays partial,
\* and the export timeout lets the next batch start (an execution has finitely
\* many spans, so the queue is not kept busy by new ones).
QueueDrains == []<>(queue = <<>>)

\* A forceFlush that has not settled, though it does not wait for
\* exporter.shutdown(), and a shutdown that has not got there.
FlushWaits ==
  /\ shut # "exporterShutdown"
  /\ \E i \in DOMAIN flushes : ~FlushSettled(flushes[i])

ShutdownWaits == shut \in {"called", "flushing"}

\* Every forceFlush settles, unless it waits for exporter.shutdown(), and
\* shutdown() reaches that or rejects, whatever the exporter and the resource do
\* (the export timeout of _flushOneBatch covers both): again and again no call
\* waits.
CallsSettle == []<>(~FlushWaits /\ ~ShutdownWaits)
===============================================================================
