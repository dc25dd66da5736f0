--------------------- MODULE PeriodicExportingMetricReader ---------------------
(***************************************************************************)
(* PeriodicExportingMetricReader of sdk-metrics with the shutdown and      *)
(* forceFlush of its base class MetricReader, the metric producers it      *)
(* collects from and the exporter it calls.                                *)
(*                                                                         *)
(* A run is one execution of currentRun: it collects, waits for the        *)
(* resource and exports its batches one after the other.  An action is one *)
(* synchronous segment of JavaScript; promise reactions run before any     *)
(* timer callback, application code may run between two of them.           *)
(***************************************************************************)
EXTENDS Integers, Sequences, FiniteSets

CONSTANTS
  MaxBatches,     \* bound: batches of one run (maxExportBatchSize splits)
  AsyncResource,  \* TRUE if the resource has asynchronous attributes
  MaxRuns,        \* bound: the interval starts a run if there are fewer
  MaxCalls        \* bound: calls of forceFlush and shutdown

ASSUME BoundAssumption == MaxBatches \in Nat /\ MaxRuns \in Nat /\ MaxCalls \in Nat
ASSUME ResourceAssumption == AsyncResource \in BOOLEAN

VARIABLES
  interval,         \* _interval runs
  ongoing,          \* _ongoingExportPromise, an index into runs; 0 is null
  runs,             \* every run, in the order of their start
  calls,            \* every call of forceFlush and shutdown that got past
                    \* the check of _shutdown, in order
  isShutdown,       \* _shutdown of MetricReader
  resourcePending   \* resource.asyncAttributesPending

vars == <<interval, ongoing, runs, calls, isShutdown, resourcePending>>

-------------------------------------------------------------------------------
\* A run has ended when its promise has settled: it is timedOut if it gave up on
\* a batch that the exporter still has, over otherwise.  Its errors are logged
\* and change nothing.
Ended == {"over", "timedOut"}

Run == [phase : {"collecting", "resource", "exporting"} \cup Ended,
        left  : 0..MaxBatches]   \* batches still to export

\* A call of forceFlush or shutdown.
\*   pc      what onForceFlush or onShutdown awaits: the run that was ongoing
\*           at the call, the run it started or joined after that, then the
\*           promises of exporter.forceFlush() and exporter.shutdown(); over,
\*           or stopped if it had called exporter.shutdown()
\*   waits   the run awaited, 0 if none was ongoing
\*   before  history: runs started before the call
Call == [kind   : {"forceFlush", "shutdown"},
         pc     : {"ongoing", "run", "exporterFlush", "exporterShutdown",
                   "over", "stopped"},
         waits  : Nat,
         result : {"pending", "resolved", "rejected"},
         before : Nat]

NewCall(kind) ==
  [kind |-> kind, pc |-> "ongoing", waits |-> ongoing, result |-> "pending",
   before |-> Len(runs)]

\* What can happen to a call x; a result that is there stays.
Awaits(x, pc, run) == [x EXCEPT !.pc = pc, !.waits = run]

Settled(x, pc, result) ==
  [x EXCEPT !.pc = pc, !.result = IF @ = "pending" THEN result ELSE @]

-------------------------------------------------------------------------------
\* The reactions that are ready to run

RunEnded(r) == runs[r].phase \in Ended

\* Mutant: _ongoingExportPromise stays after a timeout.
FinallyReadyUnlessTimeout == ongoing # 0 /\ runs[ongoing].phase = "over"

\* The finally of _doRun.
FinallyReady == ongoing # 0 /\ RunEnded(ongoing)

\* _doRun awaited the run first, so its finally comes before other reactions.
Over(r) == RunEnded(r) /\ ongoing # r

\* Mutant: the caller goes on before the finally of _doRun.
ResumeReadyEarly(c) ==
  calls[c].pc = "ongoing" /\ (calls[c].waits # 0 => RunEnded(calls[c].waits))

ResumeReady(c) ==
  calls[c].pc = "ongoing" /\ (calls[c].waits # 0 => Over(calls[c].waits))

RunReady(c) == calls[c].pc = "run" /\ Over(calls[c].waits)

\* Timer callbacks run only when no promise reaction is left to run.
MicrotasksDone ==
  /\ ~FinallyReady
  /\ \A c \in DOMAIN calls : ~ResumeReady(c) /\ ~RunReady(c)

-------------------------------------------------------------------------------
\* setMetricProducer() has started the interval.
Init ==
  /\ interval = TRUE
  /\ ongoing = 0
  /\ runs = <<>>
  /\ calls = <<>>
  /\ isShutdown = FALSE
  /\ resourcePending = AsyncResource

\* _doRun with nothing ongoing; collect() throws after shutdown.
StartRun ==
  /\ runs' = Append(runs, [phase |-> IF isShutdown THEN "over" ELSE "collecting",
                           left  |-> 0])
  /\ ongoing' = Len(runs) + 1

\* The loop of the run with n batches left: exporter.export() is called with the
\* next one, or the run is over.
NextBatch(r, n) ==
  \/ /\ n = 0
     /\ runs' = [runs EXCEPT ![r] = [phase |-> "over", left |-> 0]]
  \/ /\ n > 0
     /\ runs' = [runs EXCEPT ![r] = [phase |-> "exporting", left |-> n - 1]]

-------------------------------------------------------------------------------
\* Public methods; after shutdown they return at once.

ForceFlush ==
  /\ Len(calls) < MaxCalls
  /\ ~isShutdown
  /\ calls' = Append(calls, NewCall("forceFlush"))
  /\ UNCHANGED <<interval, ongoing, runs, isShutdown, resourcePending>>

\* Mutant: the interval is not cleared.
ShutdownKeepsInterval ==
  /\ Len(calls) < MaxCalls
  /\ ~isShutdown
  /\ calls' = Append(calls, NewCall("shutdown"))
  /\ UNCHANGED <<interval, ongoing, runs, isShutdown, resourcePending>>

\* onShutdown clears the interval and flushes.
Shutdown ==
  /\ Len(calls) < MaxCalls
  /\ ~isShutdown
  /\ calls' = Append(calls, NewCall("shutdown"))
  /\ interval' = FALSE
  /\ UNCHANGED <<ongoing, runs, isShutdown, resourcePending>>

-------------------------------------------------------------------------------
\* Promise reactions

Finally ==
  /\ FinallyReady
  /\ ongoing' = 0
  /\ UNCHANGED <<interval, runs, calls, isShutdown, resourcePending>>

\* Mutant: onForceFlush and _doRun do not look for a run that another caller
\* has started.
ResumeAlone(c) ==
  /\ ResumeReady(c)
  /\ StartRun
  /\ calls' = [calls EXCEPT ![c] = Awaits(@, "run", Len(runs) + 1)]
  /\ UNCHANGED <<interval, isShutdown, resourcePending>>

\* onForceFlush after the first await: it joins the run another caller has
\* started, or starts one.
Resume(c) ==
  /\ ResumeReady(c)
  /\ \/ /\ ongoing # 0
        /\ calls' = [calls EXCEPT ![c] = Awaits(@, "run", ongoing)]
        /\ UNCHANGED <<ongoing, runs>>
     \/ /\ ongoing = 0
        /\ StartRun
        /\ calls' = [calls EXCEPT ![c] = Awaits(@, "run", Len(runs) + 1)]
  /\ UNCHANGED <<interval, isShutdown, resourcePending>>

\* onForceFlush after its run: exporter.forceFlush() is called, however the run
\* ended.
FlushExporter(c) ==
  /\ RunReady(c)
  /\ calls' = [calls EXCEPT ![c] = Awaits(@, "exporterFlush", @.waits)]
  /\ UNCHANGED <<interval, ongoing, runs, isShutdown, resourcePending>>

-------------------------------------------------------------------------------
\* Timers

\* setInterval(() => _runOnce(), _exportInterval); with a run ongoing it skips.
IntervalFires ==
  /\ interval
  /\ MicrotasksDone
  /\ ongoing = 0
  /\ Len(runs) < MaxRuns
  /\ StartRun
  /\ UNCHANGED <<interval, calls, isShutdown, resourcePending>>

\* Mutant: the export is awaited without a timeout.
ExportTimeoutNever(r) == FALSE /\ UNCHANGED vars

\* callWithTimeout(_export(...), _exportTimeout): the run gives up, the exporter
\* keeps the batch.
ExportTimeout(r) ==
  /\ MicrotasksDone
  /\ runs[r].phase = "exporting"
  /\ runs' = [runs EXCEPT ![r] = [phase |-> "timedOut", left |-> 0]]
  /\ UNCHANGED <<interval, ongoing, calls, isShutdown, resourcePending>>

\* callWithTimeout(onForceFlush() or onShutdown(), timeoutMillis), of a call
\* that was given a timeout: the promise is rejected, what it waits for goes on.
CallTimeout(c) ==
  /\ MicrotasksDone
  /\ calls[c].result = "pending"
  /\ calls' = [calls EXCEPT ![c].result = "rejected"]
  /\ UNCHANGED <<interval, ongoing, runs, isShutdown, resourcePending>>

-------------------------------------------------------------------------------
\* Metric producers, the resource and the exporter

\* collect() settles.  It takes more turns of the microtask queue than a caller
\* takes to resume.
CollectionEnds(r) ==
  /\ runs[r].phase = "collecting"
  /\ \A c \in DOMAIN calls : ~ResumeReady(c)
  /\ \/ runs' = [runs EXCEPT ![r] = [phase |-> "over", left |-> 0]]
     \/ \E n \in 0..MaxBatches :
          \/ /\ resourcePending
             /\ runs' = [runs EXCEPT ![r] = [phase |-> "resource", left |-> n]]
          \/ /\ ~resourcePending
             /\ NextBatch(r, n)
  /\ UNCHANGED <<interval, ongoing, calls, isShutdown, resourcePending>>

\* The asynchronous attributes of the resource are known.
ResourceSettles ==
  /\ resourcePending
  /\ resourcePending' = FALSE
  /\ UNCHANGED <<interval, ongoing, runs, calls, isShutdown>>

\* waitForAsyncAttributes() has settled, if need be by a rejection, which is
\* only logged.
ResourceWaitEnds(r) ==
  /\ runs[r].phase = "resource"
  /\ NextBatch(r, runs[r].left)
  /\ UNCHANGED <<interval, ongoing, calls, isShutdown, resourcePending>>

\* The exporter calls resultCallback, or export() has thrown; the next batch
\* follows unless the run gave up.
ExporterResult(r) ==
  /\ \/ /\ runs[r].phase = "exporting"
        /\ NextBatch(r, runs[r].left)
     \/ /\ runs[r].phase = "timedOut"
        /\ runs' = [runs EXCEPT ![r].phase = "over"]
  /\ UNCHANGED <<interval, ongoing, calls, isShutdown, resourcePending>>

\* The promise of exporter.forceFlush() settles.
ExporterFlushSettles(c) ==
  /\ calls[c].pc = "exporterFlush"
  /\ \/ /\ calls[c].kind = "forceFlush"
        /\ calls' = [calls EXCEPT ![c] = Settled(@, "over", "resolved")]
     \/ /\ calls[c].kind = "shutdown"
        /\ calls' = [calls EXCEPT ![c] = Awaits(@, "exporterShutdown", @.waits)]
     \/ calls' = [calls EXCEPT ![c] = Settled(@, "over", "rejected")]
  /\ UNCHANGED <<interval, ongoing, runs, isShutdown, resourcePending>>

\* The promise of exporter.shutdown() settles; shutdown() sets _shutdown unless
\* its timeout has rejected it.
ExporterShutdownSettles(c) ==
  /\ calls[c].pc = "exporterShutdown"
  /\ \/ /\ calls' = [calls EXCEPT ![c] = Settled(@, "stopped", "resolved")]
        /\ isShutdown' = (isShutdown \/ calls[c].result = "pending")
     \/ /\ calls' = [calls EXCEPT ![c] = Settled(@, "stopped", "rejected")]
        /\ UNCHANGED isShutdown
  /\ UNCHANGED <<interval, ongoing, runs, resourcePending>>

-------------------------------------------------------------------------------
Reaction ==
  \/ Finally
  \/ \E c \in DOMAIN calls : Resume(c) \/ FlushExporter(c)

TimerTask ==
  \/ IntervalFires
  \/ \E r \in DOMAIN runs : ExportTimeout(r)

\* What the code awaits without a timeout.
Awaited ==
  \/ \E r \in DOMAIN runs : CollectionEnds(r) \/ ResourceWaitEnds(r)
  \/ \E c \in DOMAIN calls : ExporterFlushSettles(c) \/ ExporterShutdownSettles(c)

Next ==
  \/ ForceFlush
  \/ Shutdown
  \/ Reaction
  \/ TimerTask
  \/ Awaited
  \/ ResourceSettles
  \/ \E c \in DOMAIN calls : CallTimeout(c)
  \/ \E r \in DOMAIN runs : ExporterResult(r)

Spec == Init /\ [][Next]_vars

\* The event loop runs every reaction and every due timer.  Metric producers,
\* the resource, exporter.forceFlush() and exporter.shutdown() are assumed to
\* settle, since no timeout covers them; nothing is assumed of resultCallback and
\* no call needs a timeoutMillis.
FairSpec == Spec /\ WF_vars(Reaction) /\ WF_vars(TimerTask) /\ WF_vars(Awaited)

-------------------------------------------------------------------------------
\* Properties

\* Every variable holds a value the code can give it.
TypeOK ==
  /\ interval \in BOOLEAN
  /\ ongoing \in 0..Len(runs)
  /\ runs \in Seq(Run)
  /\ calls \in Seq(Call)
  /\ \A c \in DOMAIN calls : calls[c].waits \in 0..Len(runs)
  /\ isShutdown \in BOOLEAN
  /\ resourcePending \in BOOLEAN

\* "we never run collect + export concurrently": a run that has not ended is
\* the ongoing one, whoever started it.
RunsOneAtATime == \A r \in DOMAIN runs : ~RunEnded(r) => r = ongoing

\* A flush is past its run when it calls exporter.forceFlush().
PastRun(c) == calls[c].pc \notin {"ongoing", "run"}

\* "forceFlush SHOULD collect and export the latest metrics": when it calls
\* exporter.forceFlush(), a run whose collection began after the call has ended.
FlushIsFresh ==
  \A c \in DOMAIN calls :
    PastRun(c) => calls[c].waits > calls[c].before /\ RunEnded(calls[c].waits)

\* A call has called exporter.shutdown().
StopsExporter(c) == calls[c].pc \in {"exporterShutdown", "stopped"}

ExporterStopped == \E c \in DOMAIN calls : StopsExporter(c)

\* MeterProvider calls neither forceFlush nor shutdown after its shutdown().
ShutdownIsLast ==
  \A c \in DOMAIN calls : calls[c].kind = "shutdown" => c = Len(calls)

\* Nothing is exported once exporter.shutdown() was called, if shutdown is the
\* last call: not by the interval, nor by flushes still in progress.
NoExportAfterExporterShutdown ==
  [][ExporterStopped /\ ShutdownIsLast =>
       \A r \in DOMAIN runs' :
         runs'[r].phase = "exporting" => r \in DOMAIN runs /\ runs'[r] = runs[r]]_vars

\* Every run ends, also if the exporter never answers: neither the interval
\* nor a caller waits for ever.
RunsEnd == \A r \in 1..MaxRuns + MaxCalls : ongoing = r ~> ongoing # r

\* Every forceFlush and shutdown settles.
CallWaits(c) == c \in DOMAIN calls /\ calls[c].result = "pending"

CallsSettle == \A c \in 1..MaxCalls : CallWaits(c) ~> ~CallWaits(c)
===============================================================================
