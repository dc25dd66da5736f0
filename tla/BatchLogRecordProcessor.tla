------------------------ MODULE BatchLogRecordProcessor ------------------------
(***************************************************************************)
(* BatchLogRecordProcessorBase of sdk-logs with its ExportOperation, its   *)
(* BindOnceFuture and the exporter and resource it calls.                  *)
(*                                                                         *)
(* Unlike the span processor it exports one batch at a time even while it  *)
(* flushes: _flushAll takes the whole buffer and walks through it, waiting *)
(* for the export in flight and then for each of its own.                  *)
(*                                                                         *)
(* An action is one synchronous segment of JavaScript.  Promise reactions  *)
(* run before any timer callback; application code and exporter callbacks  *)
(* may run between two of them.                                            *)
(***************************************************************************)
EXTENDS Integers, Sequences, FiniteSets, SequencesExt

CONSTANTS
  Records,                 \* the log records emitted in one execution
  MaxQueueSize,            \* option maxQueueSize
  MaxExportBatchSize,      \* option maxExportBatchSize
  AsyncResource,           \* TRUE if the resource has asynchronous attributes
  ResourceMayFail,         \* TRUE if waiting for them may be rejected
  ExporterFlushMayReject,  \* TRUE if exporter.forceFlush() may be rejected
  MaxFlushes               \* bound: calls of forceFlush in one execution

ASSUME SizeAssumption ==
  MaxQueueSize \in Nat \ {0} /\ MaxExportBatchSize \in Nat \ {0}
ASSUME ChoiceAssumption ==
  /\ AsyncResource \in BOOLEAN
  /\ ResourceMayFail \in BOOLEAN
  /\ ExporterFlushMayReject \in BOOLEAN
ASSUME FlushAssumption == MaxFlushes \in Nat

VARIABLES
  buffer,           \* _finishedLogRecords
  timer,            \* _timer !== undefined
  currentExport,    \* _currentExport, an index into ops; 0 is null
  flushing,         \* _flushing
  ops,              \* every ExportOperation, in the order of creation
  flush,            \* the running call of _flushAll
  calls,            \* every call of forceFlush and shutdown, in order
  shut,             \* progress of _shutdown
  resourcePending,  \* resource.asyncAttributesPending
  metrics,          \* counters of LogRecordProcessorMetrics
  emitted,          \* records whose onEmit was called
  accepted,         \* history: records pushed to the buffer, in order
  dropped,          \* history: records lost at a full buffer
  flushRejected     \* history: exporter.forceFlush() was rejected

scheduler == <<buffer, timer, currentExport, flushing>>
history == <<emitted, accepted, dropped, flushRejected>>
vars == <<scheduler, ops, flush, calls, shut, resourcePending, metrics, history>>

-------------------------------------------------------------------------------
\*   phase      where the records are: waiting for the resource, given to the
\*              exporter, reported by it, or never to be exported
\*   completed  exportCompleted has resolved (it is never rejected)
\*   watched    _exportOneBatch's reaction to that has still to run
Op == [records   : Seq(Records),
       phase     : {"waiting", "exporting", "reported", "lost"},
       completed : BOOLEAN,
       watched   : BOOLEAN]

\*   pc   what _flushAll awaits
\*   op   the operation it waits for
\*   call the entry of calls it settles
Flush == [pc      : {"idle", "exporterFlush", "inFlight", "scheduled",
                     "speedUp", "completed"},
          toFlush : Seq(Records),
          op      : Nat,
          call    : Nat]

Idle == [pc |-> "idle", toFlush |-> <<>>, op |-> 0, call |-> 0]

\* ran is FALSE for a call that found _flushing set; a "joined" call is a
\* forceFlush after shutdown, it settles with the shutdown.
Call == [kind   : {"forceFlush", "shutdown", "joined"},
         result : {"pending", "resolved", "rejected"},
         ran    : BOOLEAN,
         before : Nat]     \* history: records accepted before the call

NewCall(kind, result, ran) ==
  [kind |-> kind, result |-> result, ran |-> ran, before |-> Len(accepted)]

ShutStates == {"no", "flushing", "exporterShutdown", "done", "failed"}

ShutdownCalled == shut # "no"

-------------------------------------------------------------------------------
\* Batches

\* The constructor lowers maxExportBatchSize to maxQueueSize.
BatchSize ==
  IF MaxExportBatchSize > MaxQueueSize THEN MaxQueueSize ELSE MaxExportBatchSize

BatchEnd(q) == IF Len(q) <= BatchSize THEN Len(q) ELSE BatchSize

Batch(q) == SubSeq(q, 1, BatchEnd(q))

\* Mutant: the last record of a batch is exported again with the next one.
RestOverlaps(q) == SubSeq(q, BatchEnd(q), Len(q))

Rest(q) == SubSeq(q, BatchEnd(q) + 1, Len(q))

NewOp(records, watched) ==
  [records |-> records, phase |-> "waiting", completed |-> FALSE,
   watched |-> watched]

\* What can happen to an operation x.
Exporting(x) == [x EXCEPT !.phase = "exporting"]
Lost(x) == [x EXCEPT !.phase = "lost", !.completed = TRUE]
Reported(x) == [x EXCEPT !.phase = "reported", !.completed = TRUE]

\* Mutant: the timeout is reported but does not end the export.
TimedOutOnly(x) == x

TimedOut(x) == [x EXCEPT !.completed = TRUE]
Handled(x) == [x EXCEPT !.watched = FALSE]

-------------------------------------------------------------------------------
\* Scheduling

\* _exportOneBatch() with buffer q and operations os.
ExportOneBatch(q, os) ==
  /\ timer' = FALSE
  /\ buffer' = Rest(q)
  /\ ops' = Append(os, NewOp(Batch(q), TRUE))
  /\ currentExport' = Len(os) + 1

\* Mutant: _maybeStartTimer does not look at _flushing.
MustWaitUnlessFlushing(q, current, busy) ==
  ShutdownCalled \/ q = <<>> \/ current # 0

\* The early returns of _maybeStartTimer.
MustWait(q, current, busy) ==
  ShutdownCalled \/ busy \/ q = <<>> \/ current # 0

\* _maybeStartTimer() with buffer q, operations os, _currentExport = current
\* and _flushing = busy.
MaybeStartTimer(q, os, current, busy) ==
  \/ /\ ~MustWait(q, current, busy)
     /\ Len(q) >= BatchSize
     /\ ExportOneBatch(q, os)
  \/ /\ MustWait(q, current, busy) \/ Len(q) < BatchSize
     /\ timer' = (timer \/ ~MustWait(q, current, busy))
     /\ buffer' = q
     /\ ops' = os
     /\ currentExport' = current

-------------------------------------------------------------------------------
\* _flushAll

\* One turn of the loop: an operation for the first batch of records.
StartBatch(records, call) ==
  /\ ops' = Append(ops, NewOp(Batch(records), FALSE))
  /\ currentExport' = Len(ops) + 1
  /\ flush' = [pc |-> "scheduled", toFlush |-> Rest(records),
               op |-> Len(ops) + 1, call |-> call]

SkipFlush(kind) ==
  /\ flushing
  /\ calls' = Append(calls, NewCall(kind, "resolved", FALSE))
  /\ UNCHANGED <<scheduler, ops, flush>>

FlushNothing(kind) ==
  /\ ~flushing
  /\ currentExport = 0
  /\ buffer = <<>>
  /\ calls' = Append(calls, NewCall(kind, "resolved", TRUE))
  /\ timer' = FALSE
  /\ UNCHANGED <<buffer, currentExport, flushing, ops, flush>>

FlushBuffer(kind) ==
  /\ ~flushing
  /\ currentExport = 0
  /\ buffer # <<>>
  /\ calls' = Append(calls, NewCall(kind, "pending", TRUE))
  /\ flushing' = TRUE
  /\ timer' = FALSE
  /\ buffer' = <<>>
  /\ StartBatch(buffer, Len(calls) + 1)

FlushInFlight(kind) ==
  /\ ~flushing
  /\ currentExport # 0
  /\ calls' = Append(calls, NewCall(kind, "pending", TRUE))
  /\ flushing' = TRUE
  /\ timer' = FALSE
  /\ buffer' = <<>>
  /\ flush' = [pc |-> "exporterFlush", toFlush |-> buffer,
               op |-> currentExport, call |-> Len(calls) + 1]
  /\ UNCHANGED <<currentExport, ops>>

\* The synchronous part of _flushAll.
FlushAll(kind) ==
  SkipFlush(kind) \/ FlushNothing(kind) \/ FlushBuffer(kind) \/ FlushInFlight(kind)

\* The rest of the loop: the next batch, or the end of the flush.
NextBatch ==
  \/ /\ flush.toFlush # <<>>
     /\ StartBatch(flush.toFlush, flush.call)
     /\ UNCHANGED <<buffer, timer, flushing, calls>>
  \/ /\ flush.toFlush = <<>>
     /\ flushing' = FALSE
     /\ flush' = Idle
     /\ calls' = [calls EXCEPT ![flush.call].result = "resolved"]
     /\ MaybeStartTimer(buffer, ops, 0, FALSE)

-------------------------------------------------------------------------------
\* The reactions that are ready to run.

ExportReady(o) == ops[o].phase = "waiting" /\ ~resourcePending

HandlerReady(o) == ops[o].watched /\ ops[o].completed

\* Mutant: the flush does not wait for the export in flight.
InFlightStarted == flush.pc = "inFlight" /\ ops[flush.op].phase # "waiting"

\* _exportOneBatch's handler was registered first, it runs first.
InFlightReady ==
  flush.pc = "inFlight" /\ ops[flush.op].completed /\ ~ops[flush.op].watched

ScheduledReady == flush.pc = "scheduled" /\ ops[flush.op].phase # "waiting"

CompletedReady == flush.pc = "completed" /\ ops[flush.op].completed

FlushResult(result) ==
  \E c \in DOMAIN calls : calls[c].kind = "shutdown" /\ calls[c].result = result

ShutdownReady ==
  shut = "flushing" /\ (FlushResult("resolved") \/ FlushResult("rejected"))

\* Timer callbacks run only when no promise reaction is left to run.
MicrotasksDone ==
  /\ \A o \in DOMAIN ops : ~(ExportReady(o) \/ HandlerReady(o))
  /\ ~(InFlightReady \/ ScheduledReady \/ CompletedReady \/ ShutdownReady)

-------------------------------------------------------------------------------
Init ==
  /\ buffer = <<>>
  /\ timer = FALSE
  /\ currentExport = 0
  /\ flushing = FALSE
  /\ ops = <<>>
  /\ flush = Idle
  /\ calls = <<>>
  /\ shut = "no"
  /\ resourcePending = AsyncResource
  /\ metrics = [dropped |-> 0, finished |-> 0]
  /\ emitted = {}
  /\ accepted = <<>>
  /\ dropped = {}
  /\ flushRejected = FALSE

-------------------------------------------------------------------------------
\* Public methods

IgnoreRecord ==
  /\ ShutdownCalled
  /\ UNCHANGED <<scheduler, ops, metrics, accepted, dropped>>

\* Mutants: the size check is off by one, on either side.
BufferFullLate == Len(buffer) > MaxQueueSize
BufferFullEarly == Len(buffer) + 1 >= MaxQueueSize

BufferFull == Len(buffer) >= MaxQueueSize

\* _addToBuffer at a full buffer.
DropRecord(r) ==
  /\ ~ShutdownCalled
  /\ BufferFull
  /\ metrics' = [metrics EXCEPT !.dropped = @ + 1]
  /\ dropped' = dropped \cup {r}
  /\ UNCHANGED <<scheduler, ops, accepted>>

\* Mutant: onEmit does not look at the shutdown.
AddRecordAlways(r) ==
  /\ ~BufferFull
  /\ accepted' = Append(accepted, r)
  /\ MaybeStartTimer(Append(buffer, r), ops, currentExport, flushing)
  /\ UNCHANGED <<flushing, metrics, dropped>>

\* _addToBuffer with room.
AddRecord(r) ==
  /\ ~ShutdownCalled
  /\ ~BufferFull
  /\ accepted' = Append(accepted, r)
  /\ MaybeStartTimer(Append(buffer, r), ops, currentExport, flushing)
  /\ UNCHANGED <<flushing, metrics, dropped>>

OnEmit(r) ==
  /\ r \notin emitted
  /\ emitted' = emitted \cup {r}
  /\ IgnoreRecord \/ DropRecord(r) \/ AddRecord(r)
  /\ UNCHANGED <<flush, calls, shut, resourcePending, flushRejected>>

ForceFlushCalls == Cardinality({c \in DOMAIN calls : calls[c].kind # "shutdown"})

ForceFlush ==
  /\ ForceFlushCalls < MaxFlushes
  /\ ~ShutdownCalled
  /\ FlushAll("forceFlush")
  /\ UNCHANGED <<shut, resourcePending, metrics, history>>

\* forceFlush after shutdown returns the shutdown's promise.
ForceFlushJoins ==
  /\ ForceFlushCalls < MaxFlushes
  /\ ShutdownCalled
  /\ calls' = Append(calls, NewCall("joined", "pending", FALSE))
  /\ UNCHANGED <<scheduler, ops, flush, shut, resourcePending, metrics, history>>

\* The first call of shutdown() runs _shutdown up to its first await; later
\* calls return the same promise.
Shutdown ==
  /\ ~ShutdownCalled
  /\ shut' = "flushing"
  /\ FlushAll("shutdown")
  /\ UNCHANGED <<resourcePending, metrics, history>>

-------------------------------------------------------------------------------
\* Promise reactions

\* The resource is ready: exporter.export() is called and keeps the records or
\* throws.
CallExporter(o) ==
  /\ ExportReady(o)
  /\ \/ ops' = [ops EXCEPT ![o] = Exporting(@)]
     \/ ops' = [ops EXCEPT ![o] = Lost(@)]
  /\ UNCHANGED <<scheduler, flush, calls, shut, resourcePending, metrics, history>>

\* Mutant: the handler of _exportOneBatch does not call _maybeStartTimer.
HandleCompletionOnly(o) ==
  /\ HandlerReady(o)
  /\ ops' = [ops EXCEPT ![o] = Handled(@)]
  /\ currentExport' = 0
  /\ UNCHANGED <<buffer, timer, flushing, flush, calls, shut, resourcePending,
                 metrics, history>>

\* _exportOneBatch: the export is over.
HandleCompletion(o) ==
  /\ HandlerReady(o)
  /\ MaybeStartTimer(buffer, [ops EXCEPT ![o] = Handled(@)], 0, flushing)
  /\ UNCHANGED <<flushing, flush, calls, shut, resourcePending, metrics, history>>

\* _flushAll continues after the export that was in flight.
FlushAfterInFlight ==
  /\ InFlightReady
  /\ NextBatch
  /\ UNCHANGED <<shut, resourcePending, metrics, history>>

\* exporter.export() was called: exporter.forceFlush() is, too.
FlushScheduled ==
  /\ ScheduledReady
  /\ flush' = [flush EXCEPT !.pc = "speedUp"]
  /\ UNCHANGED <<scheduler, ops, calls, shut, resourcePending, metrics, history>>

\* The batch is over: on to the next one.
FlushCompleted ==
  /\ CompletedReady
  /\ NextBatch
  /\ UNCHANGED <<shut, resourcePending, metrics, history>>

\* _shutdown continues when its flush has settled; a rejected flush ends it.
ShutdownFlushed ==
  /\ ShutdownReady
  /\ \/ FlushResult("resolved") /\ shut' = "exporterShutdown"
     \/ FlushResult("rejected") /\ shut' = "failed"
  /\ UNCHANGED <<scheduler, ops, flush, calls, resourcePending, metrics, history>>

-------------------------------------------------------------------------------
\* Timers, the exporter and the resource

\* setTimeout(() => _exportOneBatch(), _scheduledDelayMillis); _extractBatch
\* finds the buffer empty only if TimerMeansWork is violated.
TimerFires ==
  /\ MicrotasksDone
  /\ timer
  /\ buffer # <<>>
  /\ ExportOneBatch(buffer, ops)
  /\ UNCHANGED <<flushing, flush, calls, shut, resourcePending, metrics, history>>

\* setTimeout(() => reject(new Error('Timeout')), exportTimeoutMillis)
ExportTimeout(o) ==
  /\ MicrotasksDone
  /\ ops[o].phase = "exporting" /\ ~ops[o].completed
  /\ ops' = [ops EXCEPT ![o] = TimedOut(@)]
  /\ UNCHANGED <<scheduler, flush, calls, shut, resourcePending, metrics, history>>

\* The exporter calls resultCallback, possibly after the timeout.
ExporterResult(o) ==
  /\ ops[o].phase = "exporting"
  /\ ops' = [ops EXCEPT ![o] = Reported(@)]
  /\ metrics' = [metrics EXCEPT !.finished = @ + Len(ops[o].records)]
  /\ UNCHANGED <<scheduler, flush, calls, shut, resourcePending, history>>

\* The first exporter.forceFlush() of _flushAll resolves.
ExporterFlushed ==
  /\ flush.pc = "exporterFlush"
  /\ flush' = [flush EXCEPT !.pc = "inFlight"]
  /\ UNCHANGED <<scheduler, ops, calls, shut, resourcePending, metrics, history>>

\* It is rejected: _flushAll ends there, with _flushing set and the records it
\* had taken.
ExporterFlushRejected ==
  /\ ExporterFlushMayReject
  /\ flush.pc = "exporterFlush"
  /\ flush' = Idle
  /\ calls' = [calls EXCEPT ![flush.call].result = "rejected"]
  /\ flushRejected' = TRUE
  /\ UNCHANGED <<scheduler, ops, shut, resourcePending, metrics, emitted,
                 accepted, dropped>>

\* exporter.forceFlush() for a batch of the flush resolves.
SpeedUpFlushed ==
  /\ flush.pc = "speedUp"
  /\ flush' = [flush EXCEPT !.pc = "completed"]
  /\ UNCHANGED <<scheduler, ops, calls, shut, resourcePending, metrics, history>>

\* It is rejected: the loop goes on without waiting for the batch.
SpeedUpRejected ==
  /\ ExporterFlushMayReject
  /\ flush.pc = "speedUp"
  /\ NextBatch
  /\ flushRejected' = TRUE
  /\ UNCHANGED <<shut, resourcePending, metrics, emitted, accepted, dropped>>

\* The promise of exporter.shutdown() settles, and with it the shutdown's.
ExporterShutdownSettles ==
  /\ shut = "exporterShutdown"
  /\ shut' \in {"done", "failed"}
  /\ UNCHANGED <<scheduler, ops, flush, calls, resourcePending, metrics, history>>

\* The asynchronous attributes of the resource are known.
ResourceSettles ==
  /\ resourcePending
  /\ resourcePending' = FALSE
  /\ UNCHANGED <<scheduler, ops, flush, calls, shut, metrics, history>>

\* Waiting for them is rejected: the batch is never exported.
ResourceFails(o) ==
  /\ ResourceMayFail
  /\ resourcePending
  /\ ops[o].phase = "waiting"
  /\ ops' = [ops EXCEPT ![o] = Lost(@)]
  /\ UNCHANGED <<scheduler, flush, calls, shut, resourcePending, metrics, history>>

-------------------------------------------------------------------------------
Application ==
  \/ \E r \in Records : OnEmit(r)
  \/ ForceFlush
  \/ ForceFlushJoins
  \/ Shutdown

Reaction ==
  \/ \E o \in DOMAIN ops : CallExporter(o) \/ HandleCompletion(o)
  \/ FlushAfterInFlight
  \/ FlushScheduled
  \/ FlushCompleted
  \/ ShutdownFlushed

TimerTask ==
  \/ TimerFires
  \/ \E o \in DOMAIN ops : ExportTimeout(o)

ExporterFlush ==
  ExporterFlushed \/ ExporterFlushRejected \/ SpeedUpFlushed \/ SpeedUpRejected

Environment ==
  \/ ExporterFlush
  \/ ExporterShutdownSettles
  \/ ResourceSettles
  \/ \E o \in DOMAIN ops : ExporterResult(o) \/ ResourceFails(o)

Next == Application \/ Reaction \/ TimerTask \/ Environment

Spec == Init /\ [][Next]_vars

\* The event loop runs every promise reaction and every due timer.  The code
\* puts no timeout around exporter.forceFlush() and the resource, so their
\* promises are assumed to settle; of resultCallback nothing is assumed.
FairSpec ==
  /\ Spec
  /\ WF_vars(Reaction) /\ WF_vars(TimerTask)
  /\ WF_vars(ExporterFlush) /\ WF_vars(ResourceSettles)

-------------------------------------------------------------------------------
\* Properties

\* Every variable holds a value the code can give it, and neither the buffer
\* nor what a flush took from it outgrows maxQueueSize.
TypeOK ==
  /\ buffer \in Seq(Records) /\ Len(buffer) <= MaxQueueSize
  /\ timer \in BOOLEAN
  /\ currentExport \in 0..Len(ops)
  /\ flushing \in BOOLEAN
  /\ ops \in Seq(Op)
  /\ flush \in Flush /\ Len(flush.toFlush) <= MaxQueueSize
  /\ calls \in Seq(Call)
  /\ shut \in ShutStates
  /\ resourcePending \in BOOLEAN
  /\ metrics \in [dropped : Nat, finished : Nat]
  /\ emitted \subseteq Records
  /\ accepted \in Seq(Records)
  /\ dropped \subseteq Records
  /\ flushRejected \in BOOLEAN

\* The delay timer is armed only when _exportOneBatch would find records and
\* neither an export, a flush nor the shutdown is under way.
TimerMeansWork ==
  timer => buffer # <<>> /\ currentExport = 0 /\ ~flushing /\ ~ShutdownCalled

\* _flushing is set only while a call of _flushAll is in progress (the comment
\* on its guard speaks of "the in-progress flush").
FlushingMeansFlush == flushing => flush.pc # "idle"

\* An export whose completion will look at the buffer again.
Watched == \E o \in DOMAIN ops : ops[o].watched

\* No record is stranded before shutdown: whenever records wait, the timer is
\* armed, or an export or a flush is running that calls _maybeStartTimer.  This
\* and the next three hold until a promise of exporter.forceFlush() is rejected,
\* for which _flushAll has no try (see FlushingMeansFlush).
NoStrandedRecords ==
  buffer # <<>> /\ ~ShutdownCalled /\ ~flushRejected
    => timer \/ Watched \/ flush.pc # "idle"

\* Every accepted record is in exactly one operation, held by the flush or in
\* the buffer, and operations are made in the order of acceptance, although
\* _flushAll and _exportOneBatch cut batches from different arrays.
ExactlyOnceInOrder ==
  ~flushRejected =>
    FlattenSeq([o \in DOMAIN ops |-> ops[o].records]) \o flush.toFlush \o buffer
      = accepted

\* Batches are exported one at a time, whether they come from the timer, from
\* a full batch or from a flush: an operation that has not completed is the
\* current one.
OneExportAtATime ==
  ~flushRejected => \A o \in DOMAIN ops : ~ops[o].completed => o = currentExport

\* When a flush that ran has resolved, the export of every record accepted
\* before the call is over, resource and timeout included.
ResolvedFlushExported ==
  ~flushRejected =>
    \A c \in DOMAIN calls :
      calls[c].ran /\ calls[c].result = "resolved" =>
        LET before == ToSet(SubSeq(accepted, 1, calls[c].before))
        IN /\ before \cap ToSet(buffer) = {}
           /\ before \cap ToSet(flush.toFlush) = {}
           /\ \A o \in DOMAIN ops :
                ~ops[o].completed => before \cap ToSet(ops[o].records) = {}

\* The same of the shutdown: once it resolved, no accepted record is left
\* behind in the buffer.
ShutdownSendsAll == shut \in {"exporterShutdown", "done"} => buffer = <<>>

\* It holds of a shutdown that did not find _flushing set: one that did skips
\* the flush (_flushAll).
ShutdownRan == \E c \in DOMAIN calls : calls[c].kind = "shutdown" /\ calls[c].ran

ShutdownThatRanSendsAll == ShutdownRan => ShutdownSendsAll

\* The processor is a bounded FIFO that loses records only when full.
BQ == INSTANCE BatchQueue WITH
        Items <- Records, Capacity <- MaxQueueSize, closed <- ShutdownCalled
ImplementsBatchQueue == BQ!QueueSpec

\* No record waits in the buffer for ever, unless shutdown is called or a
\* rejected exporter.forceFlush() has left _flushing set (see FlushingMeansFlush):
\* again and again it is empty, by the delay timer if a batch stays partial (an
\* execution has finitely many records, so it is not kept busy by new ones).
BufferDrains ==
  []<>(buffer = <<>> \/ ShutdownCalled \/ ~FlushingMeansFlush)

\* Every call of forceFlush and shutdown settles or waits for
\* exporter.shutdown(), also when the exporter never reports a result and when
\* its forceFlush() is rejected: again and again no call waits.
CallWaits(c) ==
  /\ calls[c].result = "pending"
  /\ calls[c].kind # "joined"
     \/ shut \notin {"exporterShutdown", "done", "failed"}

CallsSettle == []<>(\A c \in DOMAIN calls : ~CallWaits(c))
===============================================================================
