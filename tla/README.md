# OpenTelemetry JS: TLA+ models, model checks and proofs

OpenTelemetry JS is a set of libraries that collect spans, log records and
metrics in a JavaScript process and export them. This directory models the part
of the repository where telemetry can be lost, duplicated, delayed for ever,
miscounted or sent out of order: the span pipeline and the batching processors,
the metric storage with its temporal streams, the exponential histogram, the
periodic metric reader and the sending half of the OTLP exporters. Each is
modelled with its scheduling, timeouts, forceFlush and shutdown where it has
them, checked with TLC on small instances, and the safety core of each is proved
with TLAPS for every value of the constants.

1. [How the code runs, and how it is modelled](#1-how-the-code-runs-and-how-it-is-modelled)
2. [Inventory](#2-inventory)
3. [Modules](#3-modules)
4. [Batch span processor](#4-batch-span-processor)
5. [Batch log record processor](#5-batch-log-record-processor)
6. [OTLP export](#6-otlp-export)
7. [Periodic exporting metric reader](#7-periodic-exporting-metric-reader)
8. [Metric storage](#8-metric-storage)
9. [Span pipeline](#9-span-pipeline)
10. [Exponential histogram](#10-exponential-histogram)
11. [Runs and bounds](#11-runs-and-bounds)
12. [Proofs](#12-proofs)
13. [Where the code disagrees with what it says](#13-where-the-code-disagrees-with-what-it-says)
14. [Observations without a run](#14-observations-without-a-run)
15. [Not modelled](#15-not-modelled)

Paths are relative to the repository; below, `trace/` stands for
`src/packages/sdk-trace/src/`, `logs/` for
`src/experimental/packages/sdk-logs/src/`, `metrics/` for
`src/packages/sdk-metrics/src/` and `otlp/` for
`src/experimental/packages/otlp-exporter-base/src/`. `PROJECT.json` maps every
definition to the lines it models.

## 1. How the code runs, and how it is modelled

All code of one process runs on one event loop. A method call, a timer callback
or a callback of an exporter runs to its end; then every promise reaction
(microtask) that became ready runs; then the next callback. Nothing is preempted,
so the concurrency is the order of these *segments*, and its hazards are state
read before an `await` and used after it, flags that one segment sets and
another must reset, and reactions that run in an order nobody thought of.

All models follow the same rules.

- An action is one segment: everything it changes up to the next `await`, with
  the synchronous calls it makes. Helpers such as `_maybeStartTimer` are
  operators that the actions of all their callers use.
- An action that a promise triggers has the promise's state as guard. A timer
  callback has `MicrotasksDone` as a guard: it runs only when no reaction is
  ready. Application calls and calls of the exporter's callback may come between
  two reactions, because user code may itself run in a reaction.
- Promises are fields (`pending`, `resolved`, `rejected`) of the record that
  stands for the closure that owns them. A promise that is settled ignores what
  settles it again.
- Telemetry items are model values; their content is left out, except where a
  property is about it: the version of a span's content in `SpanPipeline`, the
  values in `MetricStorage`, the bucket of a value in `ExponentialHistogram`.
  Unbounded things (calls of forceFlush, runs, elapsed milliseconds) are bounded by
  constants that are called bounds where they are declared.
- The exporter, the resource and the metric producers are the environment: they
  answer at any time, late, with an error, or never.
- Variables that only properties read are marked `history`.

## 2. Inventory

The components that carry the repository's logic, with the state each keeps,
what it does, whom it calls, and what would make it correct. `PROJECT.json`
lists these and the rest of the repository (semantic conventions, shims,
detectors, instrumentations, configuration, re-exports) with the reason for
leaving them out.

### Traces (`trace/`)

| Component | State | Operations and interactions | Hard behaviour | Correct if |
|---|---|---|---|---|
| Batch span processor, `export/BatchSpanProcessorBase.ts` | queue, `_isExporting`, delay timer, drop counter, `BindOnceFuture` of shutdown, one closure per batch | `onEnd`, `forceFlush`, `shutdown`; timers for delay and export; calls `exporter.export/forceFlush/shutdown`, waits for the resource | `.finally().catch()` chains, flush beside a scheduled batch, late callbacks, asynchronous resource | every accepted span is in one batch, in order; none is stranded; drops only when full; flush and shutdown settle; nothing after exporter.shutdown() |
| Simple span processor, `export/SimpleSpanProcessor.ts` | set of pending exports, shutdown future | `onEnd` starts an export, `forceFlush` awaits the pending ones, `shutdown` does not | exports that wait for the resource at shutdown | each span exported once; a flush waits for what was pending at its call |
| Tracer provider, multi span processor, `TracerProvider.ts`, `MultiSpanProcessor.ts` | tracers, processors | fan-out of `onStart`, `onEnd`, `forceFlush` with a timeout per processor, `shutdown` | timeout racing a late answer | forceFlush reports every processor that failed or timed out, and settles |
| Span, `Span.ts` | attributes, events, links, dropped counts, `_ended` | setters, `end` | the object is shared with processors that read it long after `end` | every exporter sees it as it ended; limits hold and drops are counted |
| Samplers | none | decisions from parent and trace id | composition | a decision for each parent |

### Logs (`logs/`)

| Component | State | Operations and interactions | Hard behaviour | Correct if |
|---|---|---|---|---|
| Batch log record processor, `export/BatchLogRecordProcessorBase.ts` | buffer, timer, `_currentExport`, `_flushing`, one `ExportOperation` per export | `onEmit`, `forceFlush`, `shutdown`, `_flushAll` as a loop of awaits | flush while an export is in flight, `exporter.forceFlush()` that rejects, shutdown during a flush | one export at a time; exactly once and in order; no record stranded; flush and shutdown settle and send everything |
| Simple processor, logger, provider, record | as on the trace side | | | |

### Metrics (`metrics/`)

| Component | State | Operations and interactions | Hard behaviour | Correct if |
|---|---|---|---|---|
| Periodic reader, `export/PeriodicExportingMetricReader.ts` with `MetricReader.ts` | `_interval`, `_ongoingExportPromise`, `_shutdown` | interval callback, `forceFlush`, `shutdown`; calls the metric producers, the resource, the exporter | several callers that resume after one run, export and call timeouts, shutdown beside the interval | runs do not overlap; a flush is backed by a run that began after it; nothing is exported after exporter.shutdown(); everything settles |
| Metric storage, `state/*MetricProcessor.ts`, `state/*MetricStorage.ts` | active deltas, cumulative memo, per collector the unreported accumulations and the last report | `record`, `batchCumulate`, `collect`, `buildMetrics` | collectors share accumulation objects; cardinality limit | each collector's stream adds up to what was recorded |
| Observable registry, `state/ObservableRegistry.ts` | callbacks | `observe` with a timeout per callback | late callbacks | only a callback that settled in time is recorded, and a hung one blocks nobody |
| Storage registry, views | storages per collector and shared | registration | conflicts | one storage per compatible registration |
| Aggregators, `aggregator/*.ts` | buckets, sums | `record`, `merge`, `diff` | a ring of counts that grows, turns and collapses; scales that fall | every value is counted once, in its own bucket, as precisely as the size allows |

### Export (`otlp/`)

| Component | State | Operations and interactions | Hard behaviour | Correct if |
|---|---|---|---|---|
| Delegate and promise queue, `otlp-export-delegate.ts`, `bounded-queue-export-promise-handler.ts` | `_sendingPromises` | `export`, `forceFlush`, `shutdown` | the place is freed one reaction after the callback; callbacks that throw | at most `concurrencyLimit` in flight; places are freed; flush waits; the transport closes last |
| Retrying transport, `retrying-transport.ts` | attempts, deadline of each send | `send` | time is read before the wait and used after it | no retry begins more than 2 ms after the deadline, however slow the requests are |
| HTTP, fetch and gRPC transports | sockets, keepalive budget, client | `send`, `shutdown` | events in any order; a timer that starts at the connection and counts idle time | a request settles once |

### Shared pieces

| Component | State | Used by |
|---|---|---|
| `BindOnceFuture`, `Deferred`, `callWithTimeout` (`src/packages/opentelemetry-core/src/utils/`) | whether called; a promise | processors, reader |
| `ResourceImpl` (`src/packages/opentelemetry-resources/src/`) | `asyncAttributesPending`, attributes | processors, reader |
| API globals and proxies (`src/api/src/`) | the registered implementations, versions | every package |
| Context managers | a stack or an async store of contexts | tracers, instrumentations |

A span goes from the tracer through the providers' processors to the batch
processor, whose batches are calls of `export()` of an OTLP exporter, that is, of
the delegate, which hands the serialized batch to the retrying transport. A batch
processor's export timeout and the delegate's request timeout are independent;
so are the processor's one-batch-at-a-time discipline and the delegate's
`concurrencyLimit`. The models keep that boundary: to a processor or the reader
an exporter is anything that may answer at any time or never, and to the delegate
an application is anything that may call `export()` at any time. What each side
assumes of the other is thereby as weak as possible, and every property shown of
a component holds next to any behaviour of its neighbour.

## 3. Modules

| Module | Role |
|---|---|
| `BatchQueue` | abstract specification: a bounded FIFO that loses items only when it is full and only before it is closed |
| `BatchSpanProcessor` | the batch span processor; implements `BatchQueue` |
| `BatchLogRecordProcessor` | the batch log record processor; implements `BatchQueue` |
| `OtlpExport` | the OTLP delegate, promise queue and retrying transport over a request of the HTTP transport, with discrete time |
| `PeriodicExportingMetricReader` | the periodic metric reader with its base class |
| `MetricStorage` | one metric storage, delta and temporal processing and the sum aggregator, with the collections of several readers |
| `SpanPipeline` | tracer, span, simple span processors and the provider's forceFlush and shutdown |
| `ExponentialHistogram` | the exponential histogram's accumulations and the ring of bucket counts |
| `MC...` | instances of these for TLC |
| `...Proofs` | theorems and proofs about each |

In every module operators that appear in no action (such as `QueueFullLate`,
`MayRetryAlways`, `AwaitedExporting`) are variants of the definition that follows
them: plausible mistakes against which each property is tried.

## 4. Batch span processor

State (`trace/export/BatchSpanProcessorBase.ts`): `queue`, `isExporting`,
`timer` and `droppedSpansCount` are the private fields; `batches` holds one
record per call of `_flushOneBatch` (its spans, where they are, its promise, its
timeout, and which reaction of `flush`'s `.finally().catch()` chain is to run
next); `flushes` holds one record per `_flushAll` with the batches it awaits;
`shut` is the progress of `_shutdown` behind its `BindOnceFuture`. `accepted`,
`dropped` and `before` are history.

| Action | Code |
|---|---|
| `OnEnd` | `onEnd` and `_addToBuffer`, with `_maybeStartTimer` and, when a full batch waits, the `flush` it calls |
| `ForceFlush`, `ForceFlushJoins` | `forceFlush`: `_flushAll`, or the shutdown's promise after shutdown |
| `Shutdown`, `ShutdownFlush`, `ShutdownFlushSettles`, `ExporterShutdownSettles` | `shutdown` and the steps of `_shutdown` |
| `Finally`, `Catch` | the reactions of `flush`: `.finally` resets `_isExporting` and looks at the queue, `.catch` resets it again |
| `ResourceReady`, `ResourceFails` | the reactions to `waitForAsyncAttributes()` |
| `TimerFires`, `ExportTimeout` | the delay timer, the export timeout of a batch |
| `ExporterResult` | the exporter's `resultCallback`, also after the timeout |

A batch may be started by `onEnd`, a timer or a flush, and starting it already
calls the exporter if the resource is ready; an exporter that throws inside the
promise's executor rejects the batch at once, one that throws in a later reaction
leaves it to its timeout (`Starts`, `ResourceReady`).

Properties. `NoStrandedSpans` says that the early return of `_maybeStartTimer`
is right: while spans wait, the timer is armed or a running batch will look at
the queue again. `ExactlyOnceInOrder` and `CountersBalance` relate the batches
and the self-observability counters to the history, whatever late callbacks and
timeouts do. `SingleBatchUntilFailure`, `ResolvedFlushSentItsBatches` and
`OnlyHeldBatchesAfterShutdown` are what callers get of batches, `forceFlush` and
`shutdown`, each at its true strength: one scheduled batch at a time until one
fails ([section 13](#13-where-the-code-disagrees-with-what-it-says)); a flush that
resolved has sent the batches it cut, but not one that was cut before and waits for
the resource; and only such a batch reaches an exporter that was shut down.
`ImplementsBatchQueue` is the refinement. `QueueDrains` (again and again the queue is
empty) and `CallsSettle` (again and again no call waits) are liveness; an execution has
finitely many spans and calls, so nothing else could empty the queue or the set of
waiting calls than that each is served.

Fairness: weak fairness of all reactions together and of all timers together,
which is the event loop. Nothing is assumed of the exporter or the resource: the
export timeout of a batch covers both, and the properties say that this is
enough. Only `exporter.shutdown()` is awaited without a timeout, and the
properties stop there.

## 5. Batch log record processor

State (`logs/export/BatchLogRecordProcessorBase.ts`): `buffer`, `timer`,
`currentExport` (an index into `ops`, 0 for none), `flushing`; `ops` holds one
record per `ExportOperation`; `flush` is the one `_flushAll` in progress with the
`await` it is at (`exporterFlush`, `inFlight`, `scheduled`, `speedUp`,
`completed`), the array `toFlush` it holds and the operation it captured;
`calls` holds one record per call of `forceFlush` or `shutdown`.

| Action | Code |
|---|---|
| `OnEmit` | `onEmit` and `_addToBuffer`, with `_maybeStartTimer` and the batch it may start |
| `ForceFlush`, `ForceFlushJoins`, `Shutdown` | the calls, with `_flushAll` up to its first `await` |
| `CallExporter` | the operation's reaction to the resource: `exporter.export()` |
| `HandleCompletion` | `_exportOneBatch`'s reaction to the end of its operation |
| `FlushAfterInFlight`, `FlushScheduled`, `FlushCompleted`, `ExporterFlushed`, `SpeedUpFlushed` | `_flushAll` after each `await`, with the rest of the loop |
| `ExporterFlushRejected`, `SpeedUpRejected` | `exporter.forceFlush()` rejects outside, or inside, the loop's `try` |
| `ShutdownAtOnce`, `ShutdownFlushed`, `ExporterShutdownSettles` | `_shutdown` |
| `TimerFires`, `ExportTimeout`, `ExporterResult`, `ResourceSettles`, `ResourceFails` | timers, exporter, resource |

Properties: as for spans, with `OneExportAtATime` (an operation that has not
completed is `_currentExport`) and `ResolvedFlushExported` (a flush that ran and
resolved has seen the export of every earlier record end). These two,
`NoStrandedRecords` and `ExactlyOnceInOrder` hold until `exporter.forceFlush()` is
rejected: each has the history variable `flushRejected` in its premise.
`FlushingMeansFlush`, that `_flushing` is set only while a flush is in progress,
is what fails afterwards. The refinement and `CallsSettle` hold in any case, and
`BufferDrains` excuses a processor that a rejection stopped. `ShutdownThatRanSendsAll` is about a `shutdown()` that
`_flushing` did not turn away. What happens otherwise is in
[section 13](#13-where-the-code-disagrees-with-what-it-says) and
[section 14](#14-observations-without-a-run).

Fairness: reactions and timers as above. No timeout surrounds
`exporter.forceFlush()` and the resource, so these are assumed to settle, the
first perhaps by a rejection; nothing is assumed of `resultCallback`.

## 6. OTLP export

State: `exports` holds one record per call of the delegate's `export()`, with the
closure of the retrying transport's `send()` inside (attempts left, milliseconds
used, timeout of the next request) and the request of Node.js's HTTP transport
(`phase`, timer, parts of the response); `sendingPromises` is `_sendingPromises`;
`flushes` what each `Promise.all` awaits; `transportClosed`.

A request is first *opening*: the agent, `headers()` and the connection are awaited,
and nothing limits how long. Once the socket is connected it is *sending*, and
`req.setTimeout` has armed its timer, which counts idle time: every part of the
response begins it anew (`Continued`), until the response is larger than the
transport takes (`MaxParts`). A timeout of 0 arms no timer, and a negative one makes
`req.setTimeout` throw, which fails the request.

Time is discrete. `Tick` lets a millisecond pass when no reaction and no timer is
due: timers are punctual, and the bounds on time hold up to the delay of the event
loop. `RetryDelays` stands for the jittered exponential backoff and for Retry-After,
which is 0 for a date that has passed and -1 for no positive number of seconds; the
wait itself is then 1 ms (`Pause`), as with every `setTimeout`.

| Action | Code |
|---|---|
| `ExportItems` (`Refuse`, `SendNothing`, `SendRequest`) | `export()`: the limit, an empty serialization, the first request |
| `Connect`, `PartArrives`, `RequestAnswered` | the socket is connected; a part of the response; the event that settles a request, also one that is being opened |
| `RequestTimeout` | the callback of `req.setTimeout` |
| `Decide` | `send()` after an attempt: finish, or wait `retryInMillis` if it fits |
| `RetryTimer` | the wait ends, the next request is sent with the timeout computed before it |
| `Report` | the delegate's reaction: `resultCallback`, which may throw |
| `PopPromise` | the queue's reaction one step later: the place is freed |
| `ForceFlush`, `Shutdown`, `CloseTransport` | `awaitAll`, then `transport.shutdown()` |

Properties. `InFlightWithinLimit` bounds what is between `export()` and
`resultCallback` although the code only counts queued promises.
`RetriesBeginInTime` is what the deadline gives of itself, however slow the network
is: no retry begins later than 2 ms after it (a delay of 0 still fits at the deadline and
one of -1 a millisecond after it, and the wait takes 1 ms). `OvershootsByOneDelay` is what it gives when every
millisecond of an export passed under a timer that nothing began anew (the history
field `prompt`). That an export ends within its timeout, as the documentation has it
(`ExportsEndInTime`), does not hold
([section 13](#13-where-the-code-disagrees-with-what-it-says)).
`FlushWaitsForExports` and `TransportOutlivesExports` relate flush and shutdown to
exports that began before them, retries included. `PlacesAreFreed` is liveness: no
answer, silence, retry or throwing callback keeps a place, so again and again
`_sendingPromises` is empty.

Fairness: reactions, due timers and the passing of time. Where the code sets no timer,
while a request is opened or its timeout is 0, the request is assumed to go on
(`GoesOn`): DNS, the agent, `headers()` and the connection settle by their own
means. Of a collector that is connected nothing is assumed: it may be silent for ever.

## 7. Periodic exporting metric reader

State: `interval` (the timer of `setInterval` exists), `ongoing`
(`_ongoingExportPromise`), `isShutdown` (`_shutdown` of `MetricReader`); `runs`
holds one record per execution of `currentRun` and `calls` one per call of
`forceFlush` or `shutdown` with the `await` it is at and the run it waits for.

| Action | Code |
|---|---|
| `IntervalFires` | the interval's callback, `_runOnce`: skipped while a run is ongoing |
| `ForceFlush`, `Shutdown` | `MetricReader`'s check of `_shutdown`, then `onForceFlush` or `onShutdown` (which clears the interval) up to the first `await` |
| `Resume` | `onForceFlush` after the run that was ongoing: joins the run another caller started, or starts one |
| `FlushExporter`, `ExporterFlushSettles`, `ExporterShutdownSettles` | the rest of `onForceFlush`, `onShutdown` and `shutdown` |
| `CollectionEnds`, `ResourceWaitEnds`, `ExporterResult`, `ExportTimeout` | `currentRun`: `collect()`, the resource, batch after batch, each with `_exportTimeout` |
| `Finally` | the `finally` that resets `_ongoingExportPromise` |
| `CallTimeout` | `callWithTimeout` around a call that was given a `timeoutMillis` |

Properties. `RunsOneAtATime`: a run that has not ended is the ongoing one, though
the interval and several callers that wake up together may each start one.
`FlushIsFresh`: when a flush calls `exporter.forceFlush()` a run that *began after
the call* has ended. `NoExportAfterExporterShutdown`: after
`exporter.shutdown()` neither the interval nor a flush that was under way exports,
provided shutdown is the last call, as `MeterProvider` ensures. `RunsEnd` and
`CallsSettle` are liveness.

Fairness: reactions, the interval and export timeouts. No timeout covers
metric producers, the resource, `exporter.forceFlush()` and
`exporter.shutdown()`: they are assumed to settle. Nothing is assumed of
`resultCallback`, and `CallTimeout` is not fair, since a call need not have one.

## 8. Metric storage

State (`metrics/state/`). The accumulations of a storage are JavaScript objects
that several holders share, and `TemporalMetricProcessor` changes the start time
of some of them in place, so the model keeps identity: `maps` is the sequence of
all maps of accumulations there ever were, the last one being
`_activeCollectionStorage` of `DeltaMetricProcessor`; `taken[c]` says how many of
them collector `c` has taken, so that its stash `_unreportedAccumulations` is the
rest; a point in `history[c]` (`_reportHistory`) is an object in a map or one of
its own. `memo` is `_cumulativeMemoStorage`, `collection[r]` a `collect()` in
progress with the callbacks it waits for. `instrument`, `temporality` and `handles`
(whether the storage is shared by the readers, as for a view, or one reader's own)
never change; `recorded`, `records`, `wasReset` and `told` are history, and so is
the field `first` of an accumulation.

| Action | Code |
|---|---|
| `Record` | `SyncMetricStorage.record` and `DeltaMetricProcessor.record`: the cardinality limit, the new or grown accumulation |
| `CollectBegins`, `Observe`, `ObserveFails` | `MetricCollector.collect` up to its `await`; a callback of `ObservableRegistry.observe` that settles, and what it observed going through `batchCumulate` of every storage; one that throws or is late |
| `CollectEnds` | the rest of `collect`: the swap of the active map, the stash for every collector, `buildMetrics` with the merge of the stash, the calibration of start times and the merge with the last report |
| `Tick` | `Date.now()` |

Properties. `ReportsAddUp` is the purpose of the storage: at every report the
reader knows exactly what was measured, whatever other readers took in between.
`StartsBeforeMeasurements`, `CumulativeStartIsStable` and
`LoneDeltaIntervalsAreDisjoint` say what is left of the start times when
`setStartTime` on a shared object serves one collector and reaches the others: a
start is never later than the first measurement, a cumulative stream keeps its
start until a reset, and the intervals of a delta stream are disjoint as long as
no second delta reader shares the storage.

## 9. Span pipeline

State (`trace/`): `span[s]` is the state, sampled flag and content of a `SpanImpl`;
the content is the number of the last write, which is enough to tell one content
from another. `export[p][s]` is the progress of `_doExport()` of span `s` in
`SimpleSpanProcessor` `p`; what is between the call and the removal from
`_pendingExports` is `Pending`. `flush[f][p]` is processor `p`'s `forceFlush()`
within call `f` of the provider's, `result[f]` what became of the call, `stopped`
whether shutdown was called. `asEnded`, `given` and `due` are history.

| Action | Code |
|---|---|
| `StartSpan` | `Tracer.startSpan` with `ParentBasedSampler` |
| `Write` | every setter of `SpanImpl` |
| `End` | `SpanImpl.end`, `MultiSpanProcessor.onEnd` and `SimpleSpanProcessor.onEnd` of every processor |
| `Resume`, `Settle` | the reactions of `_doExport`: the resource is there, the export settled |
| `ForceFlush`, `AwaitExports`, `FlushTimeout`, `FlushSettles` | `TracerProvider.forceFlush` with a timer for each processor, and `SimpleSpanProcessor.forceFlush` |
| `Shutdown` | `TracerProvider.shutdown` |
| `ResourceSettles`, `ExporterResult`, `ExporterFlushSettles` | resource and exporters |

Properties. `ExportedAsEnded` is about an object that the program, two processors
and two exporters share, and that an exporter may read long after `end()`.
`ResolvedFlushIsComplete`: a provider's flush that resolves has seen the export of
every span that ended before it, in every processor; failures and late processors
are never swallowed, although `Promise.all` goes on at the first failure.
`FlushesSettle`: the timers alone see to it that every flush settles.

Fairness: reactions and timers. Nothing is assumed of exporters and resource.

## 10. Exponential histogram

State (`metrics/aggregator/ExponentialHistogram.ts`,
`exponential-histogram/Buckets.ts`): `hist[a]` is an
`ExponentialHistogramAccumulation` with its two `Buckets`, each with `indexBase`,
`indexStart`, `indexEnd` and the ring `backing`. `recorded[a]`, the bag of
values it has taken, and `left[a]`, what the last diff left of it, are history. A value
is its bucket at the largest scale, since the bucket at a lower scale is that index
shifted right (`MapToIndex`); the mapping of a floating point number to an index is not
modelled. At scales of 0 and less the code does not shift: it computes the index from
the exponent of the value (`ExponentMapping`) instead of its logarithm
(`LogarithmMapping`). The two agree but for rounding next to a power of two, where the
logarithm of a value may round to the boundary; the model has the shifted index there.

| Action | Code |
|---|---|
| `Create`, `RecordValue` | `createAccumulation`, `record`: index, halving of the scale, growth of the ring, increment |
| `MergeInto` | `aggregator.merge` |
| `DiffFrom` | `aggregator.diff`, of any two histograms |

`_maxSize` is 160 and `MAX_SCALE` 20 in the program; 3 and 2 in the run, with
indexes far enough apart that three values force the scale below 0. In general there
are finitely many indexes, of at most 30 bits and a sign (`HistogramAssumption`): at
scale 20 the exponents from -1022 to 1023 that `LogarithmMapping` maps give no more.
`_maxSize` is at least 2, `MAX_SCALE` at most 30.

Properties. `BucketsCountValues`: after any sequence of operations every value is
counted once, on its side, in the bucket that its index at the current scale names,
and the counts fit. `PrecisionIsKept`: no operation takes more off the scale than
the values it puts together require; it excludes the merge of histograms whose values
lie on different sides
([section 14](#14-observations-without-a-run)).

The difference of two histograms is one of three (`LeftBy`). If the earlier one is
contained in the later one and values other than zeros remain, `BucketsCountValues`
speaks of it, and the histogram goes on. If only zeros remain, or nothing, the property
does not speak of it: such a difference may keep counts of values it no longer has
(`EmptyDifferencesHoldNoCounts`,
[section 13](#13-where-the-code-disagrees-with-what-it-says)). If the earlier one is
not contained in the later one, there are no values the difference could count. The
model does not follow how the program goes on with a histogram of the last two kinds
(`Followed`), as its counts are those of no values and may even be negative;
`createAccumulation` begins a new one. The only caller of `diff` in the SDK,
`DeltaMetricProcessor.batchCumulate` (`metrics/state/DeltaMetricProcessor.ts:68-87`),
diffs two accumulations of one value each, so its differences are all of these two
kinds, and `BucketsCountValues` is about the aggregator's interface, not about that
call.

## 11. Runs and bounds

The instances are small, so each was chosen to reach every branch of the code it
covers: queues that fill up, partial and full batches, a batch size option above
the queue size, retries that fit and that do not, calls that overlap, attribute
sets that overflow, values that force a scale down.

| Run | Instance | Distinct states | What it shows |
|---|---|---|---|
| `bsp_processor` | 4 spans, queue 2, batch size option 3 (cut to 2), a resource that may fail, 1 forceFlush, shutdown | 961,168 | all of section 4: safety, the refinement with drops, and liveness under the fairness of the event loop alone |
| `blrp_processor` | 5 records, buffer 3, batches of 2, a resource that may fail, `exporter.forceFlush()` may reject, 1 forceFlush, shutdown | 431,874 | all of section 5: safety until a rejection, the refinement with drops; the buffer drains unless a rejection stopped the processor; calls settle |
| `otlp_export` | 3 exports, limit 2, timeout 1, 2 attempts, delays -1, 0, 1 and 2, a response of 1 part before its end, callbacks may throw, 1 forceFlush or a shutdown | 762,589 | all of section 6 |
| `pemr_reader` | 2 calls, 2 runs of the interval, up to 2 batches a run, an asynchronous resource | 42,658 | all of section 7 |
| `metric_storage` | 2 readers, 2 attribute sets, limit 2, a callback, increments 1 and -1, 2 moments, 3 records, 3 collections | 3,533,173 | all of section 8, for every kind of counter, both temporalities, and storages that are shared or one reader's |
| `span_pipeline` | 2 spans, 2 processors (one exporter can be flushed), 1 write, 1 forceFlush, shutdown | 771,023 | all of section 9 |
| `exponential_histogram` | 2 histograms, 3 buckets a side, largest scale 2, indexes -3, 0, 1, 14 and 2 on the negative side, 3 values | 343,425 | all of section 10 |
| `bsp_single_batch`, `blrp_dead_flush`, `otlp_time`, `metric_reset`, `histogram_empty_diff` | smaller ones, the last the same | | counterexamples, [section 13](#13-where-the-code-disagrees-with-what-it-says) |

Why the bounds are enough.

- Processors. Four spans with batches of two let a scheduled batch, a batch of a
  flush and a queue that waits exist together, with drops; five records let a flush
  hold two batches while the buffer fills again behind it. A batch of two leaves a
  single item that waits for the delay timer, before a batch, behind one and after a
  flush, which is the case the liveness properties are about. A batch size option above
  the queue size is cut to it.
  One forceFlush and one shutdown overlap in every order; for spans several flushes
  only append further batches, and for records a second forceFlush during a flush
  returns at once, as the shutdown does in the same place.
- OTLP. Three exports over two places make one of them find the limit reached. With
  timeout 1 an answer comes early, at the deadline, or after it when the request was
  slow to open or its response came in parts; delay 0 fits up to the deadline, -1 even 1 ms
  after it, 1 only before it, 2 never. One part of a response is enough to begin the idle time anew.
  The clock of an export stops at `MaxElapsed` (4): no bound speaks of more than 3 (the
  timeout and 2 ms), and beyond the timeout `InTime` compares only with delays that are
  too long (`TimeAssumption`).
- Reader. Two calls and two runs of the interval give the reader three parties that
  resume after the same run, and leave the interval something to do after
  `shutdown()`.
- Metric storage. With two readers the stash of one fills while the other collects.
  A limit of 2 leaves room for one attribute set beside the overflow series, so the
  second overflows. Three records and three collections let a reader report, take a
  stash of two deltas and merge it with its last report; the second moment of time
  tells a start that was moved from one that was not.
- Span pipeline. Two spans are in different stages at a flush; the second processor
  reports late or fails while the first still awaits; one write is enough to tell a
  span's content before and after `end()`.
- Histogram. Three buckets are filled by close values, a value far off takes the
  scale below 0, and with the ring at any start the next one turns it. Two
  histograms are merged and diffed at different scales.

`CHECK_DEADLOCK` is off because every system really stops: once all items were
offered and everything has settled nothing is left to do. Interchangeable model
values are declared symmetric in the runs without liveness, where no property looks
at more than one step. In the runs with liveness, where symmetry is not sound,
`MCBatchSpanProcessor`, `MCBatchLogRecordProcessor` and `MCOtlpExport` let items
arrive in one fixed order (`OrderedFairSpec`), which leaves out only behaviours that
differ by names; the last also leaves it at one forceFlush or one shutdown, which do not
affect each other. `MCExponentialHistogram` ends an execution at a difference that is
not followed (`FollowedSpec`). The next-state relation is otherwise the one of the
module. That a queue drains or calls settle is stated as `[]<>`: with finitely many
items and calls this says that each is served in the end.

Each property comes with at least one mutant in `PROJECT.json`, a plausible slip
in the code (a missing reset, an off-by-one in a limit, a flush that does not wait)
under which the same run finds the property violated. Every theorem that names a
property of a run was preceded by that run.

## 12. Proofs

The theorems hold for every set of items, every positive size, limit and timeout
and every number of calls, under the assumptions on the constants that each module
states with `ASSUME` (sizes are positive naturals, flags are booleans) and those
named below.

`FoldProofs` holds the facts about sums and concatenations that the other proofs
cite. `FlattenSeq` and `SumFunctionOnSet` are defined by recursive functions, and the
induction theorems of the library cannot be used, so each induction is an argument by
a least counterexample: the natural numbers are well founded, and a property that
passes from each number to the next has no least number at which it fails
(`NatsBySuccessor`); likewise a property of subsets of a finite set that survives
adding an element (`SetsByAddition`). This gives that the functions exist, that a sum
may be taken in any order (`SumsTakeAny`), how it changes with one element
(`SumWithChange`) and with elements that count nothing (`SumExtended`), that the
concatenation of a sequence with one more batch is the concatenation followed by that
batch (`ConcatOfAppend`) and as long as the batches together (`FlattenLength`), and
that `ToSet` of a concatenation is a union (`ToSetFacts`).

`BatchSpanProcessorProofs`
- `Fifo`: in the abstract `BatchQueue` what is buffered is always the tail of what
  was accepted. So an implementation of it hands over a prefix, in order.
- `SchedulerIsConsistent`, with `NoSpanIsStranded` as its corollary. The
  inductive invariant `SchedulerInv` is the conjunction of the types of the
  scheduler's state, `NoStrandedSpans`, `ExportingIsReset` and `TimerMeansWork`.
  None is inductive alone: that no span is stranded when `_maybeStartTimer` returns
  early because of `_isExporting` needs `ExportingIsReset`; that `.catch` may reset
  `_isExporting` without looking at the queue needs that `.finally` of the same
  batch ran before, armed the timer or left another batch running. Lemmas about
  `flush`, `_maybeStartTimer` and `_flushAll` are stated once and used by every
  action that calls them.
- `TypeCorrect`.
- `OneBatchUntilFailure`: by `SingleInv`, which adds that without a failure a batch
  that is running or has its `.finally` ahead is the one `_isExporting` stands for.
- `StoppedExporterGetsHeldBatches`: by `StopInv`, from the final flush on the queue
  is empty, so no reaction can cut a new batch.
- `SpansGoOutOnceInOrder`: the batches' concatenation followed by the queue is what
  was accepted. The batches an action cuts come off the head of the queue one after
  another, which is where `ConcatOfAppend` is used.
- `ResolvedFlushesSentTheirBatches`: by `SentInv`, after a flush was called nothing
  that came before it is in the queue or in a batch cut later, and a batch that is
  resolved was sent.
- `CountersAgree`: by `CounterInv`, the finished counter is the sum of the sizes of
  the batches that were reported, and a batch is reported at most once, whichever of
  the callback and the timeout comes first. The model has one counter of finished spans:
  how they split into successes and errors, and the queue size gauge, are not part of
  the theorem. The sum of all sizes is the length of
  their concatenation, and `SpansGoOutOnceInOrder` relates that to what was accepted.
- `Refinement`: the processor implements `BatchQueue`. The mapping is the identity
  on the history and the queue, and the abstract queue is closed when shutdown was
  called. It needs that a span was offered only by its own `onEnd`, and that what
  `_flushAll` and `flush` leave is a suffix of the queue.
- `QueueKeepsOrder`: with `Fifo` through the refinement, the queue is always the
  tail of the accepted spans.

`BatchLogRecordProcessorProofs`
- `SchedulerIsConsistent`. `CoreInv` is what `_maybeStartTimer` relies on:
  an operation whose completion will be handled is the current one, the current one
  will be handled unless a flush has it, and waiting records have the timer, an
  export or a flush. `FlushInv` is what `_flushAll` knows at each `await` about
  `_currentExport`, which the completion handler may have cleared: this is why the
  code captures it, and why clearing it again is harmless. Until
  `exporter.forceFlush()` is rejected, `FlushingMeansFlush` is part of it.
- `TypeCorrect`, `TimerFindsWork`, `Refinement` without further assumptions.
- `ShutdownEmptiesBuffer`, also without: a shutdown that flushes takes all of the
  buffer at its call, and `EmptiedInv` says that it stays empty, since `onEmit`
  refuses records from then on.
- `SingleExport`, `NoRecordIsStranded`, `RecordsGoOutOnceInOrder` and
  `ResolvedFlushesExported`, whose properties speak of executions in which
  `exporter.forceFlush()` was not rejected so far; since a rejection is never forgotten
  (`RejectionStays`), the induction needs only the steps before it. The third is an
  invariant over the operations, the
  array a flush holds and the buffer, in that order (`OrderInv`); the last says of
  every record that came before a call where it is while the call waits
  (`CallInv`): in the buffer, in the flush's hands, in the operation in flight, or
  gone.

`OtlpExportProofs`
- `TimeBudget`, by `Timely`: a wait that began fits, so a retry is due 2 ms after the
  deadline at most, whatever the requests before it took; and of an export that is
  `prompt` the time it has used, what its timer leaves and what its next request gets,
  together, stay within the bound. `RetriesInTime` follows from the first half,
  `Overshoot` from the second. Nothing is assumed of the delays but that they are -1 at
  least. The premise `prompt` is needed: while a request is opened, and when a part
  begins the idle time anew, time passes that nobody counts.
- `QueueCorrect`: every export in flight is queued and the queue is within its
  limit; `ConcurrencyLimited` follows.
- `FlushesCorrect`: a flush awaits every export that began before it and was not
  reported yet; `FlushesWait` and `TransportClosedLast` follow.
- `TypeCorrect`.

`PeriodicExportingMetricReaderProofs`
- `RunsDoNotOverlap`, by `RunsInv`: the ongoing run is none or the last one.
- `CallsCorrect`, by `CallsInv`: a call waits for the run that was ongoing when it
  was made, then for one with a higher number; `FlushesAreFresh` follows.
- `ShutdownCorrect`: `StopInv` (after shutdown the interval is cleared), `OrderInv`
  (calls are ordered, and while a caller is about to resume the ongoing run still
  collects) and `ShutInv` (the run that a last shutdown waits for is the last run,
  and after its collection nobody is left who could start another);
  `ExporterShutdownIsLast` follows.
- `TypeCorrect`, which no run checks.

`MetricStorageProofs`
- `MetricStartsBeforeMeasurements`: by `StartsInv`, which adds the types, that every
  map is within the clock, and that the last report of a collector is no later than
  anything in the maps it has not taken. So moving a start to the last collection
  time moves it to before the measurement.
- `MetricCumulativeStartIsStable`: `StreamsInv` says that a cumulative collector
  knows every attribute set of the maps it took, and that a point of its history is
  a shared object only if no earlier map had that attribute set. A later
  `setStartTime` on a shared object therefore never reaches what a cumulative
  stream reports.
- `MetricLoneDeltaIntervalsAreDisjoint`: by `LoneInv`, what a lone delta collector has
  not taken starts after its last report.
- `MetricReportsAddUp`: by `SumInv`, for every collector and attribute set what it was
  told and the sum over the maps it has not taken (`Kept`) are together what was last
  observed, unless a reset was seen; over all attribute sets together, what was
  recorded. A measurement adds to the active map, which is in every stash, as much as
  to the total; a collection moves the sum over one stash to what its collector was
  told and appends an empty map to the others. `HistoryInv` is what a cumulative
  collector needs: the point it adds to, which may be an object that others share and
  calibrate, still has the value it was told. Assumption: there are finitely many
  attribute sets (`StorageAssumption`), as in every program that has run for a finite
  time.

`ExponentialHistogramProofs`
- `HistogramCountsValues`, the property `BucketsCountValues`, from the inductive
  invariant `HistogramsKept` (`HistogramInductive`), both about every histogram that is
  followed, that is, every one but a difference without values: both its sides are
  a ring (`Ring`: at most `MaxSize` slots, one for each index from `start` to `end`,
  0 in every other slot) with counts at both ends (`TightRing`), and what the ring
  holds for an index is the number of recorded values that fall to it at the
  histogram's scale (`Counts`). The property alone is not inductive: `_grow` and
  `reverse` move slots that no index names at the moment, and a stale count in one of
  them would be counted later. That the ends are tight is what `_changeScale` and
  `_minScale` rely on when they look at `indexStart` and `indexEnd` only.
  The lemmas follow the code: shifts compose and bring any two indexes together
  (`ShrTwice`, `ShrNarrows`), so that a halving always ends in at most 30 steps
  (`HalvingsFacts`); the three reversals turn the ring (`RotateFacts`); growing opens
  it between its last and its first index (`GrowFacts`, `ReachingFacts`); an increment
  changes what one index holds (`IncrementFacts`), a decrement likewise where the count
  is large enough (`DecrementFacts`); trimming changes nothing held (`TrimFacts`);
  scaling down adds up the indexes that fall together (`DownscaleFacts`); and at the
  scale `_minScale` finds, what either histogram holds fits into the other's ring
  (`ScaledFacts`). The slots are followed as a function from indexes to counts
  (`Held`), so only the lemmas on the ring speak of positions.
- `HistogramKeepsPrecision`, the action property `PrecisionIsKept`. An end of a ring
  is where a recorded value is (`EndsAreTaken`), and the number of halvings is the least
  that fits, so one halving earlier two recorded values were `Apart`
  (`ChangeIsNeeded`, `MinScaleFacts`); values that are apart stay so when more are
  added. It needs one invariant more: a histogram that holds only zeros, whose
  `get scale()` answers 0, still has the largest scale inside (`EmptyUnscaled`), as
  no action scales it down; here too a difference that leaves only zeros is excepted.

`SpanPipelineProofs`
- `PipelineTypes`.
- `PipelineExportsAsEnded`: by `EndedInv`, an ended span keeps the content it ended
  with, and only an ended span has an export.
- `PipelineFlushIsComplete`: `FlushInv` says of every call of a processor's
  `forceFlush()` that a span it is due to wait for is awaited or its export is over,
  and that it has no outcome before it has ended; a call that `Promise.all` leaves
  early is marked as failed and never resolves.

These proofs go through lemmas on the shape of a step: what a step may do to a run,
a call or a batch, whichever action it is. The invariants are then shown over the
few shapes instead of all actions.

Only model-checked: the eight liveness properties, since the prover handles neither
fairness nor `ENABLED`. Every invariant and every action property of the passing runs
is proved.

## 13. Where the code disagrees with what it says

Each has a run that ends in a counterexample; the quotations are in `PROJECT.json`.

- `bsp_single_batch`: a failed batch runs `.finally`, which starts the next batch,
  and then `.catch`, which resets `_isExporting` under it; the next span or timer
  exports a third batch beside it, where a test says that there is only one at a
  time.
- `blrp_dead_flush`: if `exporter.forceFlush()` rejects while an export is in
  flight, `_flushAll` ends with `_flushing` set and the records it took lost. From
  then on nothing is exported and every flush returns at once.
- `otlp_time`: the documentation of `timeoutMillis` says "Maximum time, in
  milliseconds, to wait for each batch export." Nothing limits a request before its
  socket is connected, the timer then limits only how long the socket is idle, and a
  retry gets the time that was left before the wait (`otlp/retrying-transport.ts:72`).
  The run shows an export that is still being opened after its timeout;
  `OvershootsByOneDelay` and `RetriesBeginInTime` are what holds instead.
- `metric_reset`: an observable counter falls back to a lower value, which the delta
  marks as a reset. If another reader's callback runs before the first reader takes the
  active map, its observation is merged with the marked delta there
  (`metrics/state/DeltaMetricProcessor.ts:91-96`), and the merge forgets the mark: a
  cumulative reader is then told the value before the reset plus the value after it,
  where a test expects the last observed value.
- `histogram_empty_diff`: the difference of two equal histograms keeps a count in a
  bucket although its count is 0, where the test 'handles all zero bucket case' has an
  empty one. `get scale()` answers 0 once `count` and `zeroCount` are equal
  (`metrics/aggregator/ExponentialHistogram.ts:180`), while the buckets keep their scale,
  so `diff` shifts the other's indexes by the wrong number and decrements the wrong
  bucket, or none. The test has histograms of scale 0, for which the answer is right.
  The differences `DeltaMetricProcessor` makes of two observed values other than zero have
  a count of 0 in the same way.

## 14. Observations without a run

Spans
- A `forceFlush()` of the batch processor resolves while a span that ended before it
  is held back in a scheduled batch whose resource is pending
  (`trace/export/BatchSpanProcessorBase.ts:147`), where `trace/SpanProcessor.ts:16`
  says "Forces to export all finished spans". A batch like that is still exported
  after `exporter.shutdown()`; if the final flush is rejected `exporter.shutdown()` is
  never called.
- `SimpleSpanProcessor.forceFlush()` whose pending export fails goes on to
  `exporter.forceFlush()` before its other exports are over, and rejects;
  `shutdown()` stops the exporter while exports wait for the resource, and those
  are exported afterwards.
- `MultiSpanProcessor.forceFlush()` is not what the provider calls.

Log records
- A `shutdown()` during a `forceFlush()` does not flush: records accepted since the
  flush began stay in the buffer for ever
  (`logs/export/BatchLogRecordProcessorBase.ts:224`, where line 217 says "Send all
  LogRecords to the exporter"), and the exporter is stopped while the flush still
  uses it.
- When `exporter.forceFlush()` rejects inside the loop, the batch is no longer
  awaited and the next is exported beside it. A resource that never settles keeps its
  operation current and stops the processor.
- `SimpleLogRecordProcessor` (not modelled) remembers an export only until its
  resource is there, so a `forceFlush()` made later waits neither for an export in
  flight nor for `exporter.forceFlush()`.

OTLP
- At the deadline a retry's timeout is 0 or below: 0 disables `req.setTimeout`, so the
  request may hang for ever (`GoesOn` assumes that it does not), and a negative one makes
  it throw, which fails the request. A place is freed one reaction after
  `resultCallback`, so a caller that exports from there is refused although fewer
  exports than the limit are in flight; exports are accepted after `shutdown()`.

Metric reader
- A second `shutdown()` before the first has settled calls `exporter.shutdown()` again
  (`metrics/export/MetricReader.ts:299`).
- An export that timed out stays with the exporter while the next run exports; a
  producer, a resource or an `exporter.forceFlush()` that never settles blocks the
  interval or the call; a `shutdown()` whose timeout fires has cleared the interval but
  never sets `_shutdown`; calls after the first shutdown has begun may export after
  `exporter.shutdown()`, which the property about it excludes by its premise.

Metric storage
- With two delta readers the calibration for one moves the start of an object that the
  other has stashed (`metrics/state/TemporalMetricProcessor.ts:207`, although its
  comment leaves "the new stream" unchanged), so their intervals may overlap those they
  have reported; this is why `LoneDeltaIntervalsAreDisjoint` asks for a lone reader.
- A delta reader of an observable counter that is reset loses what was added between
  its last collection and the reset; callbacks that settle out of order look like a
  reset. After a reset a cumulative stream starts at the last collection of any
  reader, and the start of a point may be later than its end.
- The overflow series of an asynchronous instrument is the last value that was
  observed for any of the attribute sets in it; a cumulative stream can hold more
  attribute sets than the cardinality limit.

Exponential histogram
- What the program does with a difference that has no values left, or is one of
  unrelated measurements, is not followed. Its scale can fall below what `getMapping`
  supports, which throws and loses the collection of that instrument (the guard of
  `DiffFrom`).
- A histogram without positive (or negative) buckets counts as one with bucket 0 in a
  merge, so histograms whose values lie on different sides, or one with zeros only,
  cost precision for good. `PrecisionIsKept` excludes it (`Alike`).
- Shifts by 32 and more wrap (`>> 35` is `>> 3`); the model's indexes do not need them.

## 15. Not modelled

Every component whose state several parties change, or whose promises and timers
race, has a module, except the ones named here.

Left out of components that are modelled:
- `Span`: limits and dropped counts, which are sequential and well tested; the model
  keeps that there are writes until `end()`.
- `ObservableRegistry`: adding and removing callbacks; callbacks are there from the
  start.
- Metric storage registry and views: finding a compatible storage is a pure search.
- Aggregators: last value, explicit histogram; sum, minimum and maximum of the
  exponential one, whose floating point sums have no exact property.
- `MultiSpanProcessor.forceFlush()`, which nothing in the provider calls.
- The HTTP transport of Node.js: the socket's events one by one, and compression; the
  model has what the transport above sees of a request.

Not modelled:
- `FetchTransport`: the budget of keepalive requests and bytes that all exporters of a
  page share. It is the one next candidate: that the counters return to what is in
  flight on every path.
- `SimpleLogRecordProcessor` and the logger provider, which mirror the trace side with
  less state; `MeterProvider`, a fan-out with a flag.
- Composite and remote samplers, exemplar reservoirs: decisions from random values.
- API globals and proxies, context managers: sequential registration, or state kept by
  external libraries.
- `otlp-transformer`, propagators, `TraceState`, baggage and configuration are pure
  conversions without a state to go wrong; the gRPC, Zipkin, Jaeger and Prometheus
  exporters wrap client libraries; instrumentations depend on the events of the
  libraries they wrap; semantic conventions are generated constants; Jaeger and
  OpenTracing packages are deprecated adapters.

That is most of the repository's lines: generated constants, instrumentations,
configuration and serialization outnumber by far the code that keeps state across
promises and timers, so the models cover a small share of all lines.

Compositions. Components meet at promises and callbacks, and each model takes its
neighbour as an environment that may do anything it could do. A joint state space of
two of them would only repeat the product of independent parts. `SpanPipeline`, where
the provider's timers race the processors' own promises, is the exception, and
`MetricStorage` composes collectors, storages and the observable registry, which share
objects.
