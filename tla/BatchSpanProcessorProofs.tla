----------------------- MODULE BatchSpanProcessorProofs -----------------------
(* Theorems about BatchSpanProcessor, for any number of spans and any sizes. *)
EXTENDS BatchSpanProcessor, FoldProofs

-------------------------------------------------------------------------------
\* Arithmetic of batches

\* The effective batch size is positive and never above the queue size.
LEMMA BatchSizeFacts ==
  BatchSize \in Nat /\ BatchSize >= 1 /\ BatchSize <= MaxQueueSize
BY SizeAssumption DEF BatchSize

\* The end of a chunk lies in the queue.
LEMMA ChunkEndFacts ==
  ASSUME NEW q \in Seq(Spans), NEW i \in Nat
  PROVE  ChunkEnd(q, i) \in 0..Len(q)
<1>1. BatchSize \in Nat
  BY BatchSizeFacts
<1>2. i * BatchSize \in Nat
  BY <1>1
<1> QED
  BY <1>2 DEF ChunkEnd

\* _flushAll's number of batches is enough for the queue, and zero only for
\* the empty one.
LEMMA BatchCountFacts ==
  ASSUME NEW q \in Seq(Spans)
  PROVE  /\ BatchCount(q) \in Nat
         /\ BatchCount(q) * BatchSize >= Len(q)
         /\ BatchCount(q) = 0 <=> q = <<>>
<1> DEFINE n == Len(q) + BatchSize - 1
           c == n \div BatchSize
<1>1. BatchSize \in Nat /\ BatchSize >= 1 /\ Len(q) \in Nat
  BY BatchSizeFacts
<1>2. n \in Nat
  BY <1>1
<1>3. c \in Nat /\ c * BatchSize <= n /\ n < c * BatchSize + BatchSize
  <2> HIDE DEF n
  <2> QED BY <1>1, <1>2
<1>4. c * BatchSize >= Len(q)
  <2> HIDE DEF c
  <2> QED BY <1>1, <1>3
<1>5. c = 0 => Len(q) = 0
  BY <1>1, <1>4
<1>6. Len(q) = 0 => c = 0
  BY <1>1
<1> QED
  BY <1>3, <1>4, <1>5, <1>6 DEF BatchCount

\* What n batches leave is a tail of the queue.
LEMMA RemainingFacts ==
  ASSUME NEW q \in Seq(Spans), NEW n \in Nat
  PROVE  /\ Remaining(q, n) \in Seq(Spans)
         /\ Len(Remaining(q, n)) = Len(q) - ChunkEnd(q, n)
<1> DEFINE e == ChunkEnd(q, n)
<1>1. e \in 0..Len(q)
  BY ChunkEndFacts
<1>2. \A j \in (e + 1)..Len(q) : q[j] \in Spans
  BY <1>1, ElementOfSeq
<1> HIDE DEF e
<1>3. /\ SubSeq(q, e + 1, Len(q)) \in Seq(Spans)
      /\ Len(SubSeq(q, e + 1, Len(q))) = IF e + 1 <= Len(q) THEN Len(q) - (e + 1) + 1 ELSE 0
  BY <1>1, <1>2, SubSeqProperties
<1>4. Len(SubSeq(q, e + 1, Len(q))) = Len(q) - e
  BY <1>1, <1>3
<1> QED
  BY <1>3, <1>4 DEF Remaining, e

\* _flushAll empties the queue.
LEMMA FlushAllEmpties ==
  ASSUME NEW q \in Seq(Spans)
  PROVE  Remaining(q, BatchCount(q)) = <<>>
<1>1. BatchCount(q) \in Nat /\ BatchCount(q) * BatchSize >= Len(q)
  BY BatchCountFacts
<1>2. ChunkEnd(q, BatchCount(q)) = Len(q)
  <2>1. BatchCount(q) * BatchSize \in Nat /\ Len(q) \in Nat
    BY <1>1, BatchSizeFacts
  <2> QED BY <1>1, <2>1 DEF ChunkEnd
<1> QED
  BY <1>1, <1>2, RemainingFacts, EmptySeq

\* A chunk holds spans of the queue.
LEMMA ChunkType ==
  ASSUME NEW q \in Seq(Spans), NEW i \in Nat, i >= 1
  PROVE  Chunk(q, i) \in Seq(Spans)
<1> DEFINE a == (i - 1) * BatchSize + 1
           e == ChunkEnd(q, i)
<1>1. (i - 1) * BatchSize \in Nat
  BY BatchSizeFacts
<1>2. a \in Nat /\ a >= 1
  BY <1>1
<1>3. e \in 0..Len(q)
  BY ChunkEndFacts
<1> HIDE DEF a, e
<1>4. \A j \in a..e : q[j] \in Spans
  BY <1>2, <1>3, ElementOfSeq
<1>5. SubSeq(q, a, e) \in Seq(Spans)
  BY <1>2, <1>3, <1>4, SubSeqProperties
<1> QED
  BY <1>5 DEF Chunk, a, e

\* Every way to start a batch gives a batch; a scheduled one is running.
LEMMA NewBatchFacts ==
  ASSUME NEW spans \in Seq(Spans), NEW origin \in {"schedule", "flushAll"},
         NEW start \in Starts
  PROVE  /\ NewBatch(spans, origin, start) \in Batch
         /\ NewBatch(spans, origin, start).origin = origin
         /\ origin = "schedule" => NewBatch(spans, origin, start).chain = "finally"
         /\ NewBatch(spans, origin, start).phase # "reported"
BY DEF Starts, NewBatch, Batch

-------------------------------------------------------------------------------
\* The scheduling helpers, for any queue and batches they are called with

RunningIn(bs) ==
  \E b \in DOMAIN bs : bs[b].origin = "schedule" /\ bs[b].chain = "finally"

\* The part of the state the scheduler keeps, with its types.
SchedulerType ==
  /\ queue \in Seq(Spans)
  /\ Len(queue) <= MaxQueueSize
  /\ isExporting \in BOOLEAN
  /\ timer \in BOOLEAN
  /\ batches \in Seq(Batch)

SchedulerInv ==
  /\ SchedulerType
  /\ NoStrandedSpans
  /\ ExportingIsReset
  /\ TimerMeansWork

\* flush() leaves a running batch and no timer.
LEMMA FlushScheduledFacts ==
  ASSUME NEW q \in Seq(Spans), Len(q) <= MaxQueueSize, NEW bs \in Seq(Batch),
         FlushScheduled(q, bs)
  PROVE  SchedulerInv'
<1>1. queue' \in Seq(Spans) /\ Len(queue') <= MaxQueueSize
  <2>1. queue' = Remaining(q, 1)
    BY DEF FlushScheduled
  <2>2. Len(q) - ChunkEnd(q, 1) <= MaxQueueSize
    BY ChunkEndFacts, SizeAssumption
  <2> QED BY <2>1, <2>2, RemainingFacts
<1>2. PICK start \in Starts :
        batches' = Append(bs, NewBatch(Chunk(q, 1), "schedule", start))
  BY DEF FlushScheduled
<1> DEFINE new == NewBatch(Chunk(q, 1), "schedule", start)
<1>3. new \in Batch /\ new.origin = "schedule" /\ new.chain = "finally"
  BY ChunkType, NewBatchFacts
<1> HIDE DEF new
<1>4. /\ batches' \in Seq(Batch)
      /\ Len(bs) + 1 \in DOMAIN batches'
      /\ batches'[Len(bs) + 1] = new
  BY <1>2, <1>3 DEF new
<1>5. \E b \in DOMAIN batches' : Running(b)'
  BY <1>3, <1>4 DEF Running
<1> QED
  BY <1>1, <1>4, <1>5
     DEF FlushScheduled, SchedulerInv, SchedulerType, NoStrandedSpans,
         ExportingIsReset, TimerMeansWork

\* _maybeStartTimer() establishes the invariant from any queue with spans, if
\* _isExporting is backed by a running batch and the timer by _isExporting.
LEMMA MaybeStartTimerFacts ==
  ASSUME NEW q \in Seq(Spans), Len(q) <= MaxQueueSize, q # <<>>,
         NEW bs \in Seq(Batch), NEW exporting \in BOOLEAN,
         exporting => RunningIn(bs),
         timer \in BOOLEAN, timer => ~exporting,
         MaybeStartTimer(q, bs, exporting)
  PROVE  SchedulerInv'
<1>1. CASE FlushScheduled(q, bs)
  BY <1>1, FlushScheduledFacts
<1>2. CASE /\ exporting \/ Len(q) < BatchSize
           /\ timer' = (timer \/ ~exporting)
           /\ isExporting' = exporting
           /\ queue' = q
           /\ batches' = bs
  <2>1. timer' = ~exporting
    BY <1>2
  <2>2. exporting => \E b \in DOMAIN batches' : Running(b)'
    BY <1>2 DEF RunningIn, Running
  <2> QED
    BY <1>2, <2>1, <2>2
       DEF SchedulerInv, SchedulerType, NoStrandedSpans, ExportingIsReset,
           TimerMeansWork
<1> QED
  BY <1>1, <1>2 DEF MaybeStartTimer

\* _flushAll() empties the queue and keeps what was running.
LEMMA FlushAllFacts ==
  ASSUME SchedulerInv, NEW kind, FlushAll(kind), UNCHANGED isExporting
  PROVE  SchedulerInv'
<1> DEFINE n == BatchCount(queue)
<1>1. n \in Nat /\ (n = 0 <=> queue = <<>>)
  BY BatchCountFacts DEF SchedulerInv, SchedulerType
<1>2. queue' = <<>>
  BY FlushAllEmpties DEF FlushAll, SchedulerInv, SchedulerType
<1>3. ~timer'
  BY <1>1 DEF FlushAll, KeepsTimer, SchedulerInv, SchedulerType, TimerMeansWork
<1>4. timer' \in BOOLEAN
  BY DEF FlushAll, KeepsTimer, SchedulerInv, SchedulerType
<1>5. PICK starts \in [1..n -> Starts] :
        batches' = batches \o
          [i \in 1..n |-> NewBatch(Chunk(queue, i), "flushAll", starts[i])]
  BY DEF FlushAll
<1> DEFINE new == [i \in 1..n |-> NewBatch(Chunk(queue, i), "flushAll", starts[i])]
<1>6. new \in Seq(Batch)
  <2>1. \A i \in 1..n : NewBatch(Chunk(queue, i), "flushAll", starts[i]) \in Batch
    <3> TAKE i \in 1..n
    <3>1. Chunk(queue, i) \in Seq(Spans)
      BY <1>1, ChunkType DEF SchedulerInv, SchedulerType
    <3>2. starts[i] \in Starts
      BY <1>5
    <3> QED BY <3>1, <3>2, NewBatchFacts
  <2> HIDE DEF n
  <2> QED BY <1>1, <2>1
<1> HIDE DEF new
<1>7. /\ batches' \in Seq(Batch)
      /\ \A b \in DOMAIN batches : b \in DOMAIN batches' /\ batches'[b] = batches[b]
  <2>1. batches' = batches \o new
    BY <1>5 DEF new
  <2>2. batches \in Seq(Batch)
    BY DEF SchedulerInv, SchedulerType
  <2> QED BY <1>6, <2>1, <2>2
<1>8. isExporting' => \E b \in DOMAIN batches' : Running(b)'
  BY <1>7 DEF Running, SchedulerInv, ExportingIsReset
<1> QED
  BY <1>2, <1>3, <1>4, <1>7, <1>8, SizeAssumption
     DEF SchedulerInv, SchedulerType, NoStrandedSpans, ExportingIsReset,
         TimerMeansWork

LEMMA BatchAt ==
  ASSUME SchedulerType, NEW b \in DOMAIN batches
  PROVE  batches[b] \in Batch /\ b \in 1..Len(batches)
BY DEF SchedulerType

\* Whatever happens to a batch it stays a batch, and only its own reactions
\* move its chain.
LEMMA EditFacts ==
  ASSUME NEW x \in Batch,
         NEW phase \in {"resource", "exporting", "reported", "lost"},
         NEW outcome \in {"resolved", "rejected"},
         NEW next \in {"finally", "catch", "none"}
  PROVE  /\ Chained(x, next) \in Batch
         /\ \A y \in {Started(x, phase), TimedOut(x), Reported(x, outcome), Failed(x)} :
              y \in Batch /\ y.origin = x.origin /\ y.chain = x.chain
<1>1. /\ Settle(x.promise, outcome) \in {"pending", "resolved", "rejected"}
      /\ Settle(x.promise, "rejected") \in {"pending", "resolved", "rejected"}
  BY DEF Settle, Batch
<1>2. Chained(x, next) \in Batch
  BY DEF Batch, Chained
<1>3. LET y == Started(x, phase)
      IN y \in Batch /\ y.origin = x.origin /\ y.chain = x.chain
  BY DEF Batch, Started
<1>4. LET y == TimedOut(x)
      IN y \in Batch /\ y.origin = x.origin /\ y.chain = x.chain
  BY <1>1 DEF Batch, TimedOut
<1>5. LET y == Reported(x, outcome)
      IN y \in Batch /\ y.origin = x.origin /\ y.chain = x.chain
  BY <1>1 DEF Batch, Reported
<1>6. LET y == Failed(x)
      IN y \in Batch /\ y.origin = x.origin /\ y.chain = x.chain
  BY <1>1 DEF Batch, Failed
<1> QED
  BY <1>2, <1>3, <1>4, <1>5, <1>6

\* A step that only rewrites one batch and leaves the chain alone does not
\* disturb the scheduler.
LEMMA BatchUpdateFacts ==
  ASSUME SchedulerInv, UNCHANGED <<queue, isExporting, timer>>,
         NEW b \in DOMAIN batches, NEW new \in Batch,
         new.origin = batches[b].origin, new.chain = batches[b].chain,
         batches' = [batches EXCEPT ![b] = new]
  PROVE  SchedulerInv'
<1>1. batches' \in Seq(Batch) /\ DOMAIN batches' = DOMAIN batches
  BY DEF SchedulerInv, SchedulerType
<1>2. \A c \in DOMAIN batches : Running(c)' <=> Running(c)
  BY DEF SchedulerInv, SchedulerType, Running
<1> QED
  BY <1>1, <1>2
     DEF SchedulerInv, SchedulerType, NoStrandedSpans, ExportingIsReset,
         TimerMeansWork

-------------------------------------------------------------------------------
\* Every action keeps the scheduler's invariant

LEMMA OnEndScheduler ==
  ASSUME SchedulerInv, NEW s \in Spans, OnEnd(s)
  PROVE  SchedulerInv'
<1> USE DEF SchedulerInv, SchedulerType
<1>1. CASE IgnoreSpan(s)
  BY <1>1 DEF IgnoreSpan, NoStrandedSpans, ExportingIsReset, TimerMeansWork, Running
<1>2. CASE DropSpan(s)
  BY <1>2 DEF DropSpan, NoStrandedSpans, ExportingIsReset, TimerMeansWork, Running
<1>3. CASE AddSpan(s)
  <2> DEFINE q == Append(queue, s)
  <2>1. q \in Seq(Spans) /\ Len(q) = Len(queue) + 1 /\ q # <<>>
    BY AppendProperties
  <2>2. Len(q) <= MaxQueueSize
    BY <1>3, <2>1, SizeAssumption DEF AddSpan, QueueFull
  <2>3. isExporting => RunningIn(batches)
    BY DEF ExportingIsReset, RunningIn, Running
  <2>4. MaybeStartTimer(q, batches, isExporting)
    BY <1>3 DEF AddSpan
  <2>5. timer => ~isExporting
    BY DEF TimerMeansWork
  <2> HIDE DEF q
  <2> QED BY <2>1, <2>2, <2>3, <2>4, <2>5, MaybeStartTimerFacts
<1> QED
  BY <1>1, <1>2, <1>3 DEF OnEnd

LEMMA FinallyScheduler ==
  ASSUME SchedulerInv, NEW b \in DOMAIN batches, Finally(b)
  PROVE  SchedulerInv'
<1> DEFINE next == IF batches[b].promise = "rejected" THEN "catch" ELSE "none"
           bs == [batches EXCEPT ![b] = Chained(batches[b], next)]
<1>1. queue \in Seq(Spans) /\ Len(queue) <= MaxQueueSize /\ timer \in BOOLEAN
  BY DEF SchedulerInv, SchedulerType
<1>2. bs \in Seq(Batch)
  <2>1. next \in {"finally", "catch", "none"}
    OBVIOUS
  <2> HIDE DEF next
  <2>2. Chained(batches[b], next) \in Batch /\ b \in 1..Len(batches)
    BY <2>1, BatchAt, EditFacts DEF SchedulerInv
  <2> QED
    BY <2>2, ExceptSeq DEF SchedulerInv, SchedulerType
<1>3. CASE SpansWait /\ MaybeStartTimer(queue, bs, FALSE)
  <2>1. queue # <<>>
    BY <1>1, <1>3 DEF SpansWait
  <2> HIDE DEF bs
  <2> QED BY <1>1, <1>2, <1>3, <2>1, MaybeStartTimerFacts
<1>4. CASE ~SpansWait /\ isExporting' = FALSE /\ batches' = bs /\ UNCHANGED <<queue, timer>>
  <2>1. queue = <<>>
    BY <1>1, <1>4 DEF SpansWait
  <2> HIDE DEF bs
  <2> QED
    BY <1>1, <1>2, <1>4, <2>1
       DEF SchedulerInv, SchedulerType, NoStrandedSpans, ExportingIsReset,
           TimerMeansWork
<1> QED
  BY <1>3, <1>4 DEF Finally

LEMMA CatchScheduler ==
  ASSUME SchedulerInv, NEW b \in DOMAIN batches, Catch(b)
  PROVE  SchedulerInv'
<1> DEFINE new == Chained(batches[b], "none")
<1>1. new \in Batch /\ b \in 1..Len(batches)
  BY BatchAt, EditFacts DEF SchedulerInv
<1>2. batches' = [batches EXCEPT ![b] = new]
  BY DEF Catch
<1> HIDE DEF new
<1>3. batches' \in Seq(Batch) /\ DOMAIN batches' = DOMAIN batches
  BY <1>1, <1>2, ExceptSeq DEF SchedulerInv, SchedulerType
<1>4. \A c \in DOMAIN batches : Running(c) => Running(c)'
  BY <1>2 DEF SchedulerInv, SchedulerType, Catch, CatchReady, Running
<1> QED
  BY <1>3, <1>4
     DEF Catch, SchedulerInv, SchedulerType, NoStrandedSpans, ExportingIsReset,
         TimerMeansWork

LEMMA ResourceReadyScheduler ==
  ASSUME SchedulerInv, NEW b \in DOMAIN batches, ResourceReady(b)
  PROVE  SchedulerInv'
<1>1. PICK phase \in {"exporting", "lost"} :
        batches' = [batches EXCEPT ![b] = Started(batches[b], phase)]
  BY DEF ResourceReady
<1>2. LET y == Started(batches[b], phase)
      IN y \in Batch /\ y.origin = batches[b].origin /\ y.chain = batches[b].chain
  BY BatchAt, EditFacts DEF SchedulerInv
<1> QED
  BY <1>1, <1>2, BatchUpdateFacts DEF ResourceReady

LEMMA ExportTimeoutScheduler ==
  ASSUME SchedulerInv, NEW b \in DOMAIN batches, ExportTimeout(b)
  PROVE  SchedulerInv'
<1>1. batches' = [batches EXCEPT ![b] = TimedOut(batches[b])]
  BY DEF ExportTimeout
<1>2. LET y == TimedOut(batches[b])
      IN y \in Batch /\ y.origin = batches[b].origin /\ y.chain = batches[b].chain
  BY BatchAt, EditFacts DEF SchedulerInv
<1> QED
  BY <1>1, <1>2, BatchUpdateFacts DEF ExportTimeout

LEMMA ExporterResultScheduler ==
  ASSUME SchedulerInv, NEW b \in DOMAIN batches, ExporterResult(b)
  PROVE  SchedulerInv'
<1>1. PICK outcome \in {"resolved", "rejected"} :
        batches' = [batches EXCEPT ![b] = Reported(batches[b], outcome)]
  BY DEF ExporterResult
<1>2. LET y == Reported(batches[b], outcome)
      IN y \in Batch /\ y.origin = batches[b].origin /\ y.chain = batches[b].chain
  BY BatchAt, EditFacts DEF SchedulerInv
<1> QED
  BY <1>1, <1>2, BatchUpdateFacts DEF ExporterResult

LEMMA ResourceFailsScheduler ==
  ASSUME SchedulerInv, NEW b \in DOMAIN batches, ResourceFails(b)
  PROVE  SchedulerInv'
<1>1. batches' = [batches EXCEPT ![b] = Failed(batches[b])]
  BY DEF ResourceFails
<1>2. LET y == Failed(batches[b])
      IN y \in Batch /\ y.origin = batches[b].origin /\ y.chain = batches[b].chain
  BY BatchAt, EditFacts DEF SchedulerInv
<1> QED
  BY <1>1, <1>2, BatchUpdateFacts DEF ResourceFails

\* Steps that change nothing the scheduler keeps.
LEMMA OtherScheduler ==
  ASSUME SchedulerInv, UNCHANGED <<queue, isExporting, timer, batches>>
  PROVE  SchedulerInv'
BY DEF SchedulerInv, SchedulerType, NoStrandedSpans, ExportingIsReset,
       TimerMeansWork, Running

\* The scheduler's invariant holds in every state: the flags _isExporting and
\* _timer always agree with the batches that are running and the queue.
THEOREM SchedulerIsConsistent == Spec => []SchedulerInv
<1>1. Init => SchedulerInv
  <2> SUFFICES ASSUME Init PROVE SchedulerInv
    OBVIOUS
  <2>1. SchedulerType
    <3>1. queue \in Seq(Spans) /\ batches \in Seq(Batch) /\ Len(queue) = 0
      BY EmptySeq DEF Init
    <3>2. isExporting \in BOOLEAN /\ timer \in BOOLEAN
      BY DEF Init
    <3>3. Len(queue) <= MaxQueueSize
      BY <3>1, SizeAssumption
    <3> QED
      BY <3>1, <3>2, <3>3 DEF SchedulerType
  <2> QED
    BY <2>1
       DEF Init, SchedulerInv, NoStrandedSpans, ExportingIsReset, TimerMeansWork
<1>2. SchedulerInv /\ [Next]_vars => SchedulerInv'
  <2> SUFFICES ASSUME SchedulerInv, [Next]_vars PROVE SchedulerInv'
    OBVIOUS
  <2>1. ASSUME NEW s \in Spans, OnEnd(s) PROVE SchedulerInv'
    BY <2>1, OnEndScheduler
  <2>2. CASE ForceFlush
    BY <2>2, FlushAllFacts DEF ForceFlush
  <2>3. CASE ForceFlushJoins
    BY <2>3, OtherScheduler DEF ForceFlushJoins
  <2>4. CASE Shutdown
    BY <2>4, OtherScheduler DEF Shutdown
  <2>5. CASE ShutdownFlush
    BY <2>5, FlushAllFacts DEF ShutdownFlush
  <2>6. CASE ShutdownFlushSettles
    BY <2>6, OtherScheduler DEF ShutdownFlushSettles
  <2>7. ASSUME NEW b \in DOMAIN batches, Finally(b) PROVE SchedulerInv'
    BY <2>7, FinallyScheduler
  <2>8. ASSUME NEW b \in DOMAIN batches, Catch(b) PROVE SchedulerInv'
    BY <2>8, CatchScheduler
  <2>9. ASSUME NEW b \in DOMAIN batches, ResourceReady(b) PROVE SchedulerInv'
    BY <2>9, ResourceReadyScheduler
  <2>10. CASE TimerFires
    BY <2>10, FlushScheduledFacts DEF TimerFires, SchedulerInv, SchedulerType
  <2>11. ASSUME NEW b \in DOMAIN batches, ExportTimeout(b) PROVE SchedulerInv'
    BY <2>11, ExportTimeoutScheduler
  <2>12. CASE ExporterShutdownSettles
    BY <2>12, OtherScheduler DEF ExporterShutdownSettles
  <2>13. CASE ResourceSettles
    BY <2>13, OtherScheduler DEF ResourceSettles
  <2>14. ASSUME NEW b \in DOMAIN batches, ExporterResult(b) PROVE SchedulerInv'
    BY <2>14, ExporterResultScheduler
  <2>15. ASSUME NEW b \in DOMAIN batches, ResourceFails(b) PROVE SchedulerInv'
    BY <2>15, ResourceFailsScheduler
  <2>16. CASE UNCHANGED vars
    BY <2>16, OtherScheduler DEF vars
  <2> QED
    BY <2>1, <2>2, <2>3, <2>4, <2>5, <2>6, <2>7, <2>8, <2>9, <2>10, <2>11,
       <2>12, <2>13, <2>14, <2>15, <2>16
       DEF Next, Application, Reaction, TimerTask, Environment
<1> QED
  BY <1>1, <1>2, PTL DEF Spec

\* No accepted span is ever stranded in the queue without a timer or a running
\* batch that will look at it.
THEOREM NoSpanIsStranded == Spec => []NoStrandedSpans
<1>1. SchedulerInv => NoStrandedSpans
  BY DEF SchedulerInv
<1> QED
  BY <1>1, SchedulerIsConsistent, PTL

-------------------------------------------------------------------------------
\* One scheduled batch at a time until one fails

\* A batch of _flushAll has no chain, and only a failed batch reaches .catch.
ChainsIn(bs) ==
  \A b \in DOMAIN bs :
    /\ bs[b].origin # "schedule" => bs[b].chain = "none"
    /\ bs[b].chain = "catch" => bs[b].promise = "rejected"

NoFailureIn(bs) ==
  \A b \in DOMAIN bs : bs[b].origin = "schedule" => bs[b].promise # "rejected"

\* While none has failed a batch that runs is the only one, and _isExporting
\* tells of it.
SingleInv ==
  /\ ChainsIn(batches)
  /\ NoFailureIn(batches) =>
       \A b \in DOMAIN batches : Running(b) =>
         isExporting /\ \A c \in DOMAIN batches : Running(c) => b = c

\* flush() starts the only batch if none is running.
LEMMA FlushScheduledSingle ==
  ASSUME NEW q \in Seq(Spans), NEW bs \in Seq(Batch), ChainsIn(bs),
         NoFailureIn(bs) => ~RunningIn(bs),
         FlushScheduled(q, bs)
  PROVE  SingleInv'
<1>1. PICK start \in Starts :
        batches' = Append(bs, NewBatch(Chunk(q, 1), "schedule", start))
  BY DEF FlushScheduled
<1> DEFINE new == NewBatch(Chunk(q, 1), "schedule", start)
<1>2. new.origin = "schedule" /\ new.chain = "finally"
  BY ChunkType, NewBatchFacts
<1> HIDE DEF new
<1>3. /\ DOMAIN batches' = 1..Len(bs) + 1
      /\ batches'[Len(bs) + 1] = new
      /\ \A b \in 1..Len(bs) : batches'[b] = bs[b]
      /\ DOMAIN bs = 1..Len(bs)
      /\ Len(bs) \in Nat
  BY <1>1, AppendProperties DEF new
<1>4. ChainsIn(batches)'
  BY <1>2, <1>3 DEF ChainsIn
<1>5. ASSUME NoFailureIn(batches)', NEW b \in DOMAIN batches', Running(b)'
      PROVE  b = Len(bs) + 1
  <2>1. NoFailureIn(bs)
    BY <1>3, <1>5 DEF NoFailureIn
  <2> QED
    BY <1>3, <1>5, <2>1 DEF RunningIn, Running
<1>6. isExporting'
  BY DEF FlushScheduled
<1> QED
  BY <1>4, <1>5, <1>6 DEF SingleInv

\* A step that leaves _isExporting and the chains alone.
LEMMA SingleKept ==
  ASSUME SchedulerType, SingleInv, UNCHANGED isExporting,
         NEW b \in DOMAIN batches, NEW new \in Batch,
         new.origin = batches[b].origin, new.chain = batches[b].chain,
         batches[b].promise = "rejected" => new.promise = "rejected",
         batches' = [batches EXCEPT ![b] = new]
  PROVE  SingleInv'
<1>1. /\ DOMAIN batches' = DOMAIN batches
      /\ batches'[b] = new
      /\ \A c \in DOMAIN batches \ {b} : batches'[c] = batches[c]
  BY DEF SchedulerType
<1>2. ChainsIn(batches)'
  BY <1>1 DEF SingleInv, ChainsIn
<1>3. NoFailureIn(batches)' => NoFailureIn(batches)
  BY <1>1 DEF NoFailureIn
<1>4. \A c \in DOMAIN batches : Running(c)' <=> Running(c)
  BY <1>1 DEF Running
<1> QED
  BY <1>1, <1>2, <1>3, <1>4 DEF SingleInv

LEMMA SettleKeepsRejection ==
  ASSUME NEW x \in Batch, x.promise = "rejected",
         NEW phase, NEW outcome \in {"resolved", "rejected"}
  PROVE  \A y \in {Started(x, phase), TimedOut(x), Reported(x, outcome), Failed(x)} :
           y.promise = "rejected"
BY DEF Batch, Started, TimedOut, Reported, Failed, Settle

LEMMA OtherSingle ==
  ASSUME SingleInv, UNCHANGED <<isExporting, batches>>
  PROVE  SingleInv'
BY DEF SingleInv, ChainsIn, NoFailureIn, Running

LEMMA OnEndSingle ==
  ASSUME SchedulerInv, SingleInv, NEW s \in Spans, OnEnd(s)
  PROVE  SingleInv'
<1>1. CASE IgnoreSpan(s) \/ DropSpan(s)
  BY <1>1, OtherSingle DEF IgnoreSpan, DropSpan
<1>2. CASE AddSpan(s)
  <2> DEFINE q == Append(queue, s)
  <2>1. q \in Seq(Spans)
    BY AppendProperties DEF SchedulerInv, SchedulerType
  <2>2. MaybeStartTimer(q, batches, isExporting)
    BY <1>2 DEF AddSpan
  <2> HIDE DEF q
  <2>3. CASE ~isExporting /\ FlushScheduled(q, batches)
    <3>1. NoFailureIn(batches) => ~RunningIn(batches)
      BY <2>3 DEF SingleInv, RunningIn, Running
    <3> QED
      BY <2>1, <2>3, <3>1, FlushScheduledSingle
         DEF SingleInv, SchedulerInv, SchedulerType
  <2>4. CASE UNCHANGED <<isExporting, batches>>
    BY <2>4, OtherSingle
  <2> QED
    BY <2>2, <2>3, <2>4 DEF MaybeStartTimer
<1> QED
  BY <1>1, <1>2 DEF OnEnd

LEMMA FlushAllSingle ==
  ASSUME SchedulerInv, SingleInv, NEW kind, FlushAll(kind), UNCHANGED isExporting
  PROVE  SingleInv'
<1> DEFINE n == BatchCount(queue)
<1>1. n \in Nat
  BY BatchCountFacts DEF SchedulerInv, SchedulerType
<1>2. PICK starts \in [1..n -> Starts] :
        batches' = batches \o
          [i \in 1..n |-> NewBatch(Chunk(queue, i), "flushAll", starts[i])]
  BY DEF FlushAll
<1> DEFINE new == [i \in 1..n |-> NewBatch(Chunk(queue, i), "flushAll", starts[i])]
<1>3. \A i \in 1..n : new[i].origin = "flushAll" /\ new[i].chain = "none"
  BY DEF NewBatch
<1> HIDE DEF n
<1>4. DOMAIN new = 1..n /\ Len(new) = n
  BY <1>1
<1> HIDE DEF new
<1>5. batches \in Seq(Batch) /\ batches' = batches \o new
  BY <1>2 DEF SchedulerInv, SchedulerType, new
<1>6. /\ DOMAIN batches' = 1..Len(batches) + n
      /\ \A b \in DOMAIN batches : batches'[b] = batches[b]
      /\ \A b \in DOMAIN batches' \ DOMAIN batches :
           batches'[b].origin = "flushAll" /\ batches'[b].chain = "none"
      /\ DOMAIN batches \subseteq DOMAIN batches'
  <2>1. /\ DOMAIN batches = 1..Len(batches)
        /\ Len(batches) \in Nat
    BY <1>5
  <2>2. /\ DOMAIN (batches \o new) = 1..Len(batches) + n
        /\ \A b \in 1..Len(batches) + n : (batches \o new)[b] =
             IF b <= Len(batches) THEN batches[b] ELSE new[b - Len(batches)]
    BY <1>1, <1>4, <2>1
  <2>3. \A b \in 1..Len(batches) + n :
          b \notin 1..Len(batches) => b - Len(batches) \in 1..n
    BY <1>1, <2>1
  <2> QED
    BY <1>1, <1>3, <1>5, <2>1, <2>2, <2>3
<1>7. NoFailureIn(batches)' => NoFailureIn(batches)
  BY <1>6 DEF NoFailureIn
<1>8. \A b \in DOMAIN batches' : Running(b)' => b \in DOMAIN batches /\ Running(b)
  BY <1>6 DEF Running
<1> QED
  BY <1>6, <1>7, <1>8 DEF SingleInv, ChainsIn

LEMMA FinallySingle ==
  ASSUME SchedulerInv, SingleInv, NEW b \in DOMAIN batches, Finally(b)
  PROVE  SingleInv'
<1> DEFINE next == IF batches[b].promise = "rejected" THEN "catch" ELSE "none"
           bs == [batches EXCEPT ![b] = Chained(batches[b], next)]
<1>1. batches[b] \in Batch /\ b \in 1..Len(batches) /\ batches[b].chain = "finally"
  BY BatchAt DEF SchedulerInv, Finally, FinallyReady
<1>2. /\ Chained(batches[b], next) \in Batch
      /\ Chained(batches[b], next).origin = batches[b].origin
      /\ Chained(batches[b], next).promise = batches[b].promise
      /\ Chained(batches[b], next).chain = next
  BY <1>1 DEF Batch, Chained
<1>3. next # "finally" /\ (next = "catch" => batches[b].promise = "rejected")
  OBVIOUS
<1>4. batches[b].origin = "schedule"
  BY <1>1 DEF SingleInv, ChainsIn
<1> HIDE DEF next
<1>5. /\ bs \in Seq(Batch) /\ DOMAIN bs = DOMAIN batches
      /\ bs[b] = Chained(batches[b], next)
      /\ \A c \in DOMAIN batches \ {b} : bs[c] = batches[c]
  BY <1>1, <1>2, ExceptSeq DEF SchedulerInv, SchedulerType
<1>6. \/ MaybeStartTimer(queue, bs, FALSE)
      \/ isExporting' = FALSE /\ batches' = bs
  BY DEF Finally, next
<1> HIDE DEF bs
<1>7. ChainsIn(bs)
  BY <1>2, <1>3, <1>4, <1>5 DEF ChainsIn, SingleInv
<1>8. NoFailureIn(bs) => ~RunningIn(bs)
  <2> SUFFICES ASSUME NoFailureIn(bs), NEW c \in DOMAIN bs,
                      bs[c].origin = "schedule", bs[c].chain = "finally"
               PROVE  FALSE
    BY DEF RunningIn
  <2>1. c # b
    BY <1>2, <1>3, <1>5
  <2>2. NoFailureIn(batches)
    BY <1>2, <1>5 DEF NoFailureIn
  <2>3. Running(b) /\ Running(c)
    BY <1>1, <1>4, <1>5, <2>1 DEF Running
  <2> QED
    BY <1>5, <2>1, <2>2, <2>3 DEF SingleInv
<1>9. CASE FlushScheduled(queue, bs)
  BY <1>5, <1>7, <1>8, <1>9, FlushScheduledSingle DEF SchedulerInv, SchedulerType
<1>10. CASE isExporting' = FALSE /\ batches' = bs
  BY <1>7, <1>8, <1>10 DEF SingleInv, RunningIn, Running
<1> QED
  BY <1>6, <1>9, <1>10 DEF MaybeStartTimer

LEMMA CatchSingle ==
  ASSUME SchedulerInv, SingleInv, NEW b \in DOMAIN batches, Catch(b)
  PROVE  SingleInv'
<1> DEFINE new == Chained(batches[b], "none")
<1>1. batches[b].chain = "catch" /\ batches[b] \in Batch
  BY BatchAt DEF Catch, CatchReady, SchedulerInv
<1>2. batches[b].promise = "rejected" /\ batches[b].origin = "schedule"
  BY <1>1 DEF SingleInv, ChainsIn
<1>3. new.promise = "rejected" /\ new.origin = "schedule" /\ new.chain = "none"
  BY <1>1, <1>2 DEF Chained, Batch
<1>4. batches' = [batches EXCEPT ![b] = new]
  BY DEF Catch
<1> HIDE DEF new
<1>5. /\ DOMAIN batches' = DOMAIN batches
      /\ batches'[b] = new
      /\ \A c \in DOMAIN batches \ {b} : batches'[c] = batches[c]
  BY <1>4 DEF SchedulerInv, SchedulerType
<1>6. ~NoFailureIn(batches)'
  BY <1>3, <1>5 DEF NoFailureIn
<1>7. ChainsIn(batches)'
  BY <1>3, <1>5 DEF ChainsIn, SingleInv
<1> QED
  BY <1>6, <1>7 DEF SingleInv

LEMMA EditSingle ==
  ASSUME SchedulerInv, SingleInv, UNCHANGED isExporting,
         NEW b \in DOMAIN batches,
         NEW phase \in {"resource", "exporting", "reported", "lost"},
         NEW outcome \in {"resolved", "rejected"},
         NEW y \in {Started(batches[b], phase), TimedOut(batches[b]),
                    Reported(batches[b], outcome), Failed(batches[b])},
         batches' = [batches EXCEPT ![b] = y]
  PROVE  SingleInv'
<1>1. batches[b] \in Batch
  BY BatchAt DEF SchedulerInv
<1>2. y \in Batch /\ y.origin = batches[b].origin /\ y.chain = batches[b].chain
  BY <1>1, EditFacts
<1>3. batches[b].promise = "rejected" => y.promise = "rejected"
  BY <1>1, SettleKeepsRejection
<1> QED
  BY <1>2, <1>3, SingleKept DEF SchedulerInv

LEMMA SingleInductive == SchedulerInv /\ SingleInv /\ [Next]_vars => SingleInv'
<1> SUFFICES ASSUME SchedulerInv, SingleInv, [Next]_vars PROVE SingleInv'
  OBVIOUS
<1>1. ASSUME NEW s \in Spans, OnEnd(s) PROVE SingleInv'
  BY <1>1, OnEndSingle
<1>2. CASE ForceFlush
  BY <1>2, FlushAllSingle DEF ForceFlush
<1>3. CASE ShutdownFlush
  BY <1>3, FlushAllSingle DEF ShutdownFlush
<1>4. CASE ForceFlushJoins \/ Shutdown \/ ShutdownFlushSettles
             \/ ExporterShutdownSettles \/ ResourceSettles \/ UNCHANGED vars
  BY <1>4, OtherSingle
     DEF ForceFlushJoins, Shutdown, ShutdownFlushSettles,
         ExporterShutdownSettles, ResourceSettles, vars
<1>5. ASSUME NEW b \in DOMAIN batches, Finally(b) PROVE SingleInv'
  BY <1>5, FinallySingle
<1>6. ASSUME NEW b \in DOMAIN batches, Catch(b) PROVE SingleInv'
  BY <1>6, CatchSingle
<1>7. CASE TimerFires
  <2>1. ~isExporting /\ FlushScheduled(queue, batches)
    BY <1>7 DEF TimerFires, SchedulerInv, TimerMeansWork
  <2>2. NoFailureIn(batches) => ~RunningIn(batches)
    BY <2>1 DEF SingleInv, RunningIn, Running
  <2> QED
    BY <2>1, <2>2, FlushScheduledSingle DEF SingleInv, SchedulerInv, SchedulerType
<1>8. ASSUME NEW b \in DOMAIN batches, ResourceReady(b) PROVE SingleInv'
  BY <1>8, EditSingle DEF ResourceReady
<1>9. ASSUME NEW b \in DOMAIN batches, ExportTimeout(b) PROVE SingleInv'
  BY <1>9, EditSingle DEF ExportTimeout
<1>10. ASSUME NEW b \in DOMAIN batches, ExporterResult(b) PROVE SingleInv'
  BY <1>10, EditSingle DEF ExporterResult
<1>11. ASSUME NEW b \in DOMAIN batches, ResourceFails(b) PROVE SingleInv'
  BY <1>11, EditSingle DEF ResourceFails
<1> QED
  BY <1>1, <1>2, <1>3, <1>4, <1>5, <1>6, <1>7, <1>8, <1>9, <1>10, <1>11
     DEF Next, Application, Reaction, TimerTask, Environment

\* Until a scheduled batch fails there is one at a time, however forceFlush,
\* shutdown, timeouts and late callbacks interleave.
THEOREM OneBatchUntilFailure == Spec => []SingleBatchUntilFailure
<1>1. Init => SingleInv
  BY DEF Init, SingleInv, ChainsIn, NoFailureIn
<1>2. SingleInv => SingleBatchUntilFailure
  BY DEF SingleInv, SingleBatchUntilFailure, SingleBatchAtATime, NoFailureIn
<1> QED
  BY <1>1, <1>2, SingleInductive, SchedulerIsConsistent, PTL DEF Spec

-------------------------------------------------------------------------------
\* After exporter.shutdown()

\* The flush of shutdown empties the queue, and it stays empty.
StopInv == shut \in {"flushing", "exporterShutdown", "done", "failed"} => queue = <<>>

LEMMA FinallyKeepsEmptyQueue ==
  ASSUME queue = <<>>, NEW b \in DOMAIN batches, Finally(b)
  PROVE  /\ queue' = <<>>
         /\ \E next \in {"catch", "none"} :
              batches' = [batches EXCEPT ![b] = Chained(batches[b], next)]
<1>1. ~SpansWait
  BY DEF SpansWait
<1> QED
  BY <1>1 DEF Finally

LEMMA StopInductive == SchedulerInv /\ StopInv /\ [Next]_vars => StopInv'
<1> SUFFICES ASSUME SchedulerInv, StopInv, [Next]_vars PROVE StopInv'
  OBVIOUS
<1>1. ASSUME NEW s \in Spans, OnEnd(s) PROVE StopInv'
  BY <1>1
     DEF OnEnd, IgnoreSpan, DropSpan, AddSpan, Ignored, ShutdownCalled, StopInv
<1>2. CASE ForceFlush
  BY <1>2 DEF ForceFlush, ShutdownCalled, StopInv
<1>3. CASE ShutdownFlush
  BY <1>3, FlushAllEmpties
     DEF ShutdownFlush, FlushAll, StopInv, SchedulerInv, SchedulerType
<1>4. ASSUME NEW b \in DOMAIN batches, Finally(b) PROVE StopInv'
  <2>1. CASE queue = <<>>
    BY <1>4, <2>1, FinallyKeepsEmptyQueue DEF StopInv
  <2>2. CASE queue # <<>>
    BY <1>4, <2>2 DEF Finally, StopInv
  <2> QED
    BY <2>1, <2>2
<1>5. CASE TimerFires
  BY <1>5 DEF TimerFires, StopInv, SchedulerInv, TimerMeansWork
<1>6. CASE ShutdownFlushSettles
  BY <1>6 DEF ShutdownFlushSettles, StopInv
<1>7. CASE ExporterShutdownSettles
  BY <1>7 DEF ExporterShutdownSettles, StopInv
<1>8. CASE Shutdown
  BY <1>8 DEF Shutdown, StopInv
<1>9. CASE ForceFlushJoins \/ ResourceSettles \/ UNCHANGED vars
  BY <1>9 DEF ForceFlushJoins, ResourceSettles, vars, StopInv
<1>10. ASSUME NEW b \in DOMAIN batches,
              \/ Catch(b) \/ ResourceReady(b) \/ ExportTimeout(b)
              \/ ExporterResult(b) \/ ResourceFails(b)
       PROVE  StopInv'
  BY <1>10
     DEF Catch, ResourceReady, ExportTimeout, ExporterResult, ResourceFails, StopInv
<1> QED
  BY <1>1, <1>2, <1>3, <1>4, <1>5, <1>6, <1>7, <1>8, <1>9, <1>10
     DEF Next, Application, Reaction, TimerTask, Environment

\* The exporter is given only batches that waited for the resource.
OnlyHeldBatches ==
  \A b \in DOMAIN batches' :
    Exported(b)' =>
      b \in DOMAIN batches /\ (Exported(b) \/ batches[b].phase = "resource")

\* What a step may do to a batch so that this is true.
LEMMA HeldBatchEdited ==
  ASSUME SchedulerType, NEW b \in DOMAIN batches, NEW y,
         batches' = [batches EXCEPT ![b] = y],
         y.phase \in {"exporting", "reported"} =>
           batches[b].phase \in {"resource", "exporting", "reported"}
  PROVE  OnlyHeldBatches
<1>1. /\ DOMAIN batches' = DOMAIN batches
      /\ batches'[b] = y
      /\ \A c \in DOMAIN batches \ {b} : batches'[c] = batches[c]
  BY DEF SchedulerType
<1> QED
  BY <1>1 DEF OnlyHeldBatches, Exported

LEMMA PhaseFacts ==
  ASSUME NEW x \in Batch, NEW phase, NEW next
  PROVE  /\ Chained(x, next).phase = x.phase
         /\ Started(x, phase).phase = phase
         /\ TimedOut(x).phase = x.phase
         /\ Failed(x).phase = "lost"
BY DEF Batch, Chained, Started, TimedOut, Failed

LEMMA StoppedStep ==
  ASSUME SchedulerInv, StopInv, ExporterStopped, [Next]_vars
  PROVE  OnlyHeldBatches
<1>1. queue = <<>> /\ ShutdownCalled /\ shut # "called" /\ SchedulerType
  BY DEF StopInv, ExporterStopped, ShutdownCalled, SchedulerInv
<1>2. \A b \in DOMAIN batches : batches[b] \in Batch
  BY <1>1, BatchAt
<1>3. ASSUME UNCHANGED batches PROVE OnlyHeldBatches
  BY <1>3 DEF OnlyHeldBatches, Exported
<1>4. ASSUME NEW s \in Spans, OnEnd(s) PROVE OnlyHeldBatches
  BY <1>1, <1>3, <1>4 DEF OnEnd, IgnoreSpan, DropSpan, AddSpan, Ignored
<1>5. CASE ForceFlush \/ ShutdownFlush \/ TimerFires
  BY <1>1, <1>5
     DEF ForceFlush, ShutdownFlush, TimerFires, SchedulerInv, TimerMeansWork
<1>6. CASE ForceFlushJoins \/ Shutdown \/ ShutdownFlushSettles
             \/ ExporterShutdownSettles \/ ResourceSettles \/ UNCHANGED vars
  BY <1>3, <1>6
     DEF ForceFlushJoins, Shutdown, ShutdownFlushSettles,
         ExporterShutdownSettles, ResourceSettles, vars
<1>7. ASSUME NEW b \in DOMAIN batches, Finally(b) PROVE OnlyHeldBatches
  <2>1. PICK next \in {"catch", "none"} :
          batches' = [batches EXCEPT ![b] = Chained(batches[b], next)]
    BY <1>1, <1>7, FinallyKeepsEmptyQueue
  <2>2. Chained(batches[b], next).phase = batches[b].phase
    BY <1>2, PhaseFacts
  <2> QED
    BY <1>1, <2>1, <2>2, HeldBatchEdited
<1>8. ASSUME NEW b \in DOMAIN batches, Catch(b) PROVE OnlyHeldBatches
  <2>1. Chained(batches[b], "none").phase = batches[b].phase
    BY <1>2, PhaseFacts
  <2> QED
    BY <1>1, <1>8, <2>1, HeldBatchEdited DEF Catch
<1>9. ASSUME NEW b \in DOMAIN batches, ResourceReady(b) PROVE OnlyHeldBatches
  BY <1>1, <1>9, HeldBatchEdited DEF ResourceReady, ResourceReactionReady
<1>10. ASSUME NEW b \in DOMAIN batches, ExportTimeout(b) PROVE OnlyHeldBatches
  <2>1. TimedOut(batches[b]).phase = batches[b].phase
    BY <1>2, PhaseFacts
  <2> QED
    BY <1>1, <1>10, <2>1, HeldBatchEdited DEF ExportTimeout
<1>11. ASSUME NEW b \in DOMAIN batches, ExporterResult(b) PROVE OnlyHeldBatches
  BY <1>1, <1>11, HeldBatchEdited DEF ExporterResult
<1>12. ASSUME NEW b \in DOMAIN batches, ResourceFails(b) PROVE OnlyHeldBatches
  BY <1>1, <1>12, HeldBatchEdited DEF ResourceFails
<1> QED
  BY <1>4, <1>5, <1>6, <1>7, <1>8, <1>9, <1>10, <1>11, <1>12
     DEF Next, Application, Reaction, TimerTask, Environment

\* Once exporter.shutdown() was called no batch is begun, and what the exporter
\* is still given had waited for the resource.
THEOREM StoppedExporterGetsHeldBatches == Spec => OnlyHeldBatchesAfterShutdown
<1>1. Init => StopInv
  BY DEF Init, StopInv
<1>2. SchedulerInv /\ StopInv /\ [Next]_vars =>
        [ExporterStopped => OnlyHeldBatches]_vars
  BY StoppedStep
<1>3. [][ExporterStopped => OnlyHeldBatches]_vars => OnlyHeldBatchesAfterShutdown
  <2>1. (ExporterStopped => OnlyHeldBatches)
          <=> (ExporterStopped =>
                 \A b \in DOMAIN batches' :
                   Exported(b)' =>
                     b \in DOMAIN batches
                       /\ (Exported(b) \/ batches[b].phase = "resource"))
    BY DEF OnlyHeldBatches
  <2> QED
    BY <2>1, PTL DEF OnlyHeldBatchesAfterShutdown
<1> QED
  BY <1>1, <1>2, <1>3, StopInductive, SchedulerIsConsistent, PTL DEF Spec

-------------------------------------------------------------------------------
\* Type correctness

HistoryType ==
  /\ droppedSpansCount \in Nat
  /\ metrics \in [dropped : Nat, finished : Nat]
  /\ flushes \in Seq(Flush)
  /\ shut \in ShutStates
  /\ resourcePending \in BOOLEAN
  /\ ended \subseteq Spans
  /\ accepted \in Seq(Spans)
  /\ dropped \subseteq Spans

LEMMA FlushAllType ==
  ASSUME SchedulerType, HistoryType, NEW kind \in {"forceFlush", "shutdown"},
         FlushAll(kind)
  PROVE  flushes' \in Seq(Flush)
<1> DEFINE f == [kind   |-> kind,
                 first  |-> Len(batches) + 1,
                 last   |-> Len(batches) + BatchCount(queue),
                 before |-> Len(accepted)]
<1>1. Len(batches) \in Nat /\ Len(accepted) \in Nat /\ BatchCount(queue) \in Nat
  BY BatchCountFacts DEF SchedulerType, HistoryType
<1>2. f \in Flush
  BY <1>1 DEF Flush
<1>3. flushes' = Append(flushes, f)
  BY DEF FlushAll
<1> HIDE DEF f
<1> QED
  BY <1>2, <1>3 DEF HistoryType

LEMMA OnEndType ==
  ASSUME SchedulerType, HistoryType, NEW s \in Spans, OnEnd(s)
  PROVE  HistoryType'
<1>1. ended' \subseteq Spans /\ UNCHANGED <<flushes, shut, resourcePending>>
  BY DEF OnEnd, HistoryType
<1>2. CASE IgnoreSpan(s)
  BY <1>1, <1>2 DEF IgnoreSpan, HistoryType
<1>3. CASE DropSpan(s)
  <2>1. metrics' \in [dropped : Nat, finished : Nat]
    BY <1>3 DEF DropSpan, HistoryType
  <2> QED
    BY <1>1, <1>3, <2>1 DEF DropSpan, HistoryType
<1>4. CASE AddSpan(s)
  <2>1. accepted' \in Seq(Spans)
    BY <1>4, AppendProperties DEF AddSpan, HistoryType
  <2> QED
    BY <1>1, <1>4, <2>1 DEF AddSpan, HistoryType
<1> QED
  BY <1>2, <1>3, <1>4 DEF OnEnd

LEMMA ForceFlushJoinsType ==
  ASSUME SchedulerType, HistoryType, ForceFlushJoins
  PROVE  HistoryType'
<1> DEFINE f == [kind |-> "joined", first |-> 1, last |-> 0, before |-> Len(accepted)]
<1>1. f \in Flush
  BY DEF Flush, HistoryType
<1>2. flushes' = Append(flushes, f)
  BY DEF ForceFlushJoins
<1> HIDE DEF f
<1> QED
  BY <1>1, <1>2 DEF ForceFlushJoins, HistoryType

LEMMA ExporterResultType ==
  ASSUME SchedulerType, HistoryType, NEW b \in DOMAIN batches, ExporterResult(b)
  PROVE  HistoryType'
<1>1. Len(batches[b].spans) \in Nat
  BY BatchAt DEF Batch
<1>2. metrics' \in [dropped : Nat, finished : Nat]
  BY <1>1 DEF ExporterResult, HistoryType
<1> QED
  BY <1>2 DEF ExporterResult, HistoryType

\* Every variable keeps its type and the queue its bound.
THEOREM TypeCorrect == Spec => []TypeOK
<1>1. Init => HistoryType
  <2> SUFFICES ASSUME Init PROVE HistoryType
    OBVIOUS
  <2>1. accepted \in Seq(Spans) /\ flushes \in Seq(Flush)
    BY EmptySeq DEF Init
  <2>2. metrics \in [dropped : Nat, finished : Nat] /\ droppedSpansCount \in Nat
    BY DEF Init
  <2> QED
    BY <2>1, <2>2, ResourceAssumption DEF Init, HistoryType, ShutStates
<1>2. SchedulerInv /\ HistoryType /\ [Next]_vars => HistoryType'
  <2> SUFFICES ASSUME SchedulerType, HistoryType, [Next]_vars PROVE HistoryType'
    BY DEF SchedulerInv
  <2>1. ASSUME NEW s \in Spans, OnEnd(s) PROVE HistoryType'
    BY <2>1, OnEndType
  <2>2. CASE ForceFlush
    <3>1. flushes' \in Seq(Flush)
      BY <2>2, FlushAllType DEF ForceFlush
    <3> QED BY <2>2, <3>1 DEF ForceFlush, HistoryType
  <2>3. CASE ForceFlushJoins
    BY <2>3, ForceFlushJoinsType
  <2>4. CASE Shutdown
    BY <2>4 DEF Shutdown, HistoryType, ShutStates
  <2>5. CASE ShutdownFlush
    <3>1. flushes' \in Seq(Flush)
      BY <2>5, FlushAllType DEF ShutdownFlush
    <3> QED BY <2>5, <3>1 DEF ShutdownFlush, HistoryType, ShutStates
  <2>6. CASE ShutdownFlushSettles
    BY <2>6 DEF ShutdownFlushSettles, HistoryType, ShutStates
  <2>7. ASSUME NEW b \in DOMAIN batches, Finally(b) PROVE HistoryType'
    BY <2>7 DEF Finally, HistoryType
  <2>8. ASSUME NEW b \in DOMAIN batches, Catch(b) PROVE HistoryType'
    BY <2>8 DEF Catch, HistoryType
  <2>9. ASSUME NEW b \in DOMAIN batches, ResourceReady(b) PROVE HistoryType'
    BY <2>9 DEF ResourceReady, HistoryType
  <2>10. CASE TimerFires
    BY <2>10 DEF TimerFires, HistoryType
  <2>11. ASSUME NEW b \in DOMAIN batches, ExportTimeout(b) PROVE HistoryType'
    BY <2>11 DEF ExportTimeout, HistoryType
  <2>12. CASE ExporterShutdownSettles
    BY <2>12 DEF ExporterShutdownSettles, HistoryType, ShutStates
  <2>13. CASE ResourceSettles
    BY <2>13 DEF ResourceSettles, HistoryType
  <2>14. ASSUME NEW b \in DOMAIN batches, ExporterResult(b) PROVE HistoryType'
    BY <2>14, ExporterResultType
  <2>15. ASSUME NEW b \in DOMAIN batches, ResourceFails(b) PROVE HistoryType'
    BY <2>15 DEF ResourceFails, HistoryType
  <2>16. CASE UNCHANGED vars
    BY <2>16 DEF vars, HistoryType
  <2> QED
    BY <2>1, <2>2, <2>3, <2>4, <2>5, <2>6, <2>7, <2>8, <2>9, <2>10, <2>11,
       <2>12, <2>13, <2>14, <2>15, <2>16
       DEF Next, Application, Reaction, TimerTask, Environment
<1>3. SchedulerInv /\ HistoryType => TypeOK
  BY DEF SchedulerInv, SchedulerType, HistoryType, TypeOK
<1> QED
  BY <1>1, <1>2, <1>3, SchedulerIsConsistent, PTL DEF Spec

-------------------------------------------------------------------------------
\* The processor implements the bounded FIFO

\* A span was offered to the queue only by its own onEnd.
OfferedEnded == {accepted[i] : i \in 1..Len(accepted)} \cup dropped \subseteq ended

RefinementInv == SchedulerType /\ HistoryType /\ OfferedEnded

LEMMA RemainingIsSuffix ==
  ASSUME NEW q \in Seq(Spans), NEW n \in Nat
  PROVE  Remaining(q, n) \in BQ!Suffixes(q)
<1> DEFINE e == ChunkEnd(q, n)
<1>1. e \in 0..Len(q) /\ Len(q) \in Nat
  BY ChunkEndFacts
<1> HIDE DEF e
<1>2. e + 1 \in 1..(Len(q) + 1)
  BY <1>1
<1> QED
  BY <1>2 DEF e, Remaining, BQ!Suffixes

LEMMA SelfIsSuffix ==
  ASSUME NEW q \in Seq(Spans)
  PROVE  q \in BQ!Suffixes(q)
<1>1. q = SubSeq(q, 1, Len(q)) /\ 1 \in 1..(Len(q) + 1)
  BY SubSeqFull
<1> QED
  BY <1>1 DEF BQ!Suffixes

\* Whatever _maybeStartTimer does, it leaves a suffix of the queue.
LEMMA MaybeStartTimerSuffix ==
  ASSUME NEW q \in Seq(Spans), NEW bs, NEW exporting, MaybeStartTimer(q, bs, exporting)
  PROVE  queue' \in BQ!Suffixes(q)
<1>1. queue' = q \/ queue' = Remaining(q, 1)
  BY DEF MaybeStartTimer, FlushScheduled
<1> QED
  BY <1>1, RemainingIsSuffix, SelfIsSuffix

LEMMA OnEndOffered ==
  ASSUME RefinementInv, NEW s \in Spans, OnEnd(s)
  PROVE  OfferedEnded'
<1> USE DEF RefinementInv, OfferedEnded
<1>1. ended \subseteq ended' /\ s \in ended'
  BY DEF OnEnd
<1>2. CASE IgnoreSpan(s)
  BY <1>1, <1>2 DEF IgnoreSpan
<1>3. CASE DropSpan(s)
  BY <1>1, <1>3 DEF DropSpan
<1>4. CASE AddSpan(s)
  <2>1. accepted' = Append(accepted, s) /\ dropped' = dropped /\ accepted \in Seq(Spans)
    BY <1>4 DEF AddSpan, HistoryType
  <2>2. \A i \in 1..Len(accepted') : accepted'[i] = s \/ \E j \in 1..Len(accepted) : accepted'[i] = accepted[j]
    BY <2>1
  <2> QED
    BY <1>1, <2>1, <2>2
<1> QED
  BY <1>2, <1>3, <1>4 DEF OnEnd

LEMMA OnEndRefines ==
  ASSUME RefinementInv, NEW s \in Spans, OnEnd(s)
  PROVE  [BQ!QueueNext]_(BQ!queueVars)
<1>1. UNCHANGED ShutdownCalled
  BY DEF OnEnd, ShutdownCalled
<1>2. s \notin BQ!Offered
  BY DEF OnEnd, RefinementInv, OfferedEnded, BQ!Offered
<1>3. CASE IgnoreSpan(s)
  BY <1>1, <1>3 DEF IgnoreSpan, BQ!queueVars
<1>4. CASE DropSpan(s)
  <2>1. BQ!Lose(s)
    BY <1>1, <1>2, <1>4 DEF DropSpan, Ignored, QueueFull, BQ!Lose
  <2> QED BY <2>1 DEF BQ!QueueNext
<1>5. CASE AddSpan(s)
  <2>1. Len(queue) \in Nat /\ MaxQueueSize \in Nat /\ Append(queue, s) \in Seq(Spans)
    BY SizeAssumption DEF RefinementInv, SchedulerType
  <2>2. Len(queue) < MaxQueueSize
    BY <1>5, <2>1 DEF AddSpan, QueueFull
  <2>3. queue' \in BQ!Suffixes(Append(queue, s))
    BY <1>5, <2>1, MaybeStartTimerSuffix DEF AddSpan
  <2>4. BQ!Accept(s)
    BY <1>1, <1>2, <1>5, <2>2, <2>3 DEF AddSpan, Ignored, BQ!Accept
  <2> QED BY <2>4 DEF BQ!QueueNext
<1> QED
  BY <1>3, <1>4, <1>5 DEF OnEnd

\* A step that takes a prefix off the queue and leaves the rest alone.
LEMMA HandOverRefines ==
  ASSUME queue' \in BQ!Suffixes(queue),
         UNCHANGED <<accepted, dropped, ShutdownCalled>>
  PROVE  [BQ!QueueNext]_(BQ!queueVars)
BY DEF BQ!HandOver, BQ!QueueNext

LEMMA OfferedIsEnded == Spec => []OfferedEnded
<1>1. Init => OfferedEnded
  BY DEF Init, OfferedEnded
<1>2. RefinementInv /\ [Next]_vars => OfferedEnded'
  <2> SUFFICES ASSUME RefinementInv, [Next]_vars PROVE OfferedEnded'
    OBVIOUS
  <2>1. ASSUME NEW s \in Spans, OnEnd(s) PROVE OfferedEnded'
    BY <2>1, OnEndOffered
  <2>2. CASE UNCHANGED <<ended, accepted, dropped>>
    BY <2>2 DEF RefinementInv, OfferedEnded
  <2> QED
    BY <2>1, <2>2
       DEF Next, Application, Reaction, TimerTask, Environment, vars, ForceFlush,
           ForceFlushJoins, Shutdown, ShutdownFlush, ShutdownFlushSettles, Finally,
           Catch, ResourceReady, TimerFires, ExportTimeout, ExporterShutdownSettles,
           ResourceSettles, ExporterResult, ResourceFails
<1>3. TypeOK => SchedulerType /\ HistoryType
  BY DEF TypeOK, SchedulerType, HistoryType
<1> QED
  BY <1>1, <1>2, <1>3, TypeCorrect, PTL DEF Spec, RefinementInv

\* BatchSpanProcessor implements BatchQueue.
THEOREM Refinement == Spec => ImplementsBatchQueue
<1>1. Init => BQ!QueueInit
  BY DEF Init, BQ!QueueInit, ShutdownCalled
<1>2. RefinementInv /\ [Next]_vars => [BQ!QueueNext]_(BQ!queueVars)
  <2> SUFFICES ASSUME RefinementInv, [Next]_vars PROVE [BQ!QueueNext]_(BQ!queueVars)
    OBVIOUS
  <2>1. queue \in Seq(Spans) /\ BatchCount(queue) \in Nat
    BY BatchCountFacts DEF RefinementInv, SchedulerType
  <2>2. ASSUME NEW s \in Spans, OnEnd(s) PROVE [BQ!QueueNext]_(BQ!queueVars)
    BY <2>2, OnEndRefines
  <2>3. CASE ForceFlush
    <3>1. queue' \in BQ!Suffixes(queue)
      BY <2>1, <2>3, RemainingIsSuffix DEF ForceFlush, FlushAll
    <3> QED BY <2>3, <3>1, HandOverRefines DEF ForceFlush, ShutdownCalled
  <2>4. CASE Shutdown
    <3>1. queue' \in BQ!Suffixes(queue)
      BY <2>1, <2>4, SelfIsSuffix DEF Shutdown
    <3> QED BY <2>4, <3>1 DEF Shutdown, ShutdownCalled, BQ!Close, BQ!QueueNext
  <2>5. CASE ShutdownFlush
    <3>1. queue' \in BQ!Suffixes(queue)
      BY <2>1, <2>5, RemainingIsSuffix DEF ShutdownFlush, FlushAll
    <3>2. UNCHANGED ShutdownCalled
      BY <2>5 DEF ShutdownFlush, ShutdownCalled
    <3> QED BY <2>5, <3>1, <3>2, HandOverRefines DEF ShutdownFlush
  <2>6. ASSUME NEW b \in DOMAIN batches, Finally(b)
        PROVE  [BQ!QueueNext]_(BQ!queueVars)
    <3>1. queue' \in BQ!Suffixes(queue)
      BY <2>1, <2>6, MaybeStartTimerSuffix, SelfIsSuffix DEF Finally
    <3> QED BY <2>6, <3>1, HandOverRefines DEF Finally, ShutdownCalled
  <2>7. CASE TimerFires
    <3>1. queue' \in BQ!Suffixes(queue)
      BY <2>1, <2>7, RemainingIsSuffix DEF TimerFires, FlushScheduled
    <3> QED BY <2>7, <3>1, HandOverRefines DEF TimerFires, ShutdownCalled
  <2>8. CASE UNCHANGED <<queue, accepted, dropped, ShutdownCalled>>
    BY <2>8 DEF BQ!queueVars
  <2>9. ASSUME NEW b \in DOMAIN batches,
               \/ Catch(b) \/ ResourceReady(b) \/ ExportTimeout(b)
               \/ ExporterResult(b) \/ ResourceFails(b)
        PROVE  [BQ!QueueNext]_(BQ!queueVars)
    BY <2>8, <2>9
       DEF Catch, ResourceReady, ExportTimeout, ExporterResult, ResourceFails,
           ShutdownCalled
  <2>10. CASE ForceFlushJoins \/ ResourceSettles \/ UNCHANGED vars
    BY <2>8, <2>10 DEF ForceFlushJoins, ResourceSettles, ShutdownCalled, vars
  <2>11. CASE ShutdownFlushSettles \/ ExporterShutdownSettles
    BY <2>8, <2>11 DEF ShutdownFlushSettles, ExporterShutdownSettles, ShutdownCalled
  <2> QED
    BY <2>2, <2>3, <2>4, <2>5, <2>6, <2>7, <2>9, <2>10, <2>11
       DEF Next, Application, Reaction, TimerTask, Environment
<1>3. TypeOK => SchedulerType /\ HistoryType
  BY DEF TypeOK, SchedulerType, HistoryType
<1> QED
  BY <1>1, <1>2, <1>3, TypeCorrect, OfferedIsEnded, PTL
     DEF Spec, ImplementsBatchQueue, BQ!QueueSpec, RefinementInv

-------------------------------------------------------------------------------
\* What the abstract queue promises.
FifoTypeOK ==
  /\ accepted \in Seq(Spans)
  /\ queue \in Seq(Spans)

FifoInv == FifoTypeOK /\ BQ!BufferIsTail

\* The last n elements of a sequence.
LEMMA TailElements ==
  ASSUME NEW S, NEW s \in Seq(S), NEW n \in 0..Len(s)
  PROVE  LET v == SubSeq(s, Len(s) - n + 1, Len(s))
         IN /\ v \in Seq(S)
            /\ Len(v) = n
            /\ \A k \in 1..n : v[k] = s[Len(s) - n + k]
<1> DEFINE m == Len(s) - n + 1
<1>1. m \in Int /\ Len(s) \in Int /\ m >= 1
  OBVIOUS
<1>2. \A j \in m..Len(s) : s[j] \in S
  BY <1>1, ElementOfSeq
<1>3. /\ SubSeq(s, m, Len(s)) \in Seq(S)
      /\ Len(SubSeq(s, m, Len(s))) = IF m <= Len(s) THEN Len(s) - m + 1 ELSE 0
      /\ \A k \in 1..(Len(s) - m + 1) : SubSeq(s, m, Len(s))[k] = s[m + k - 1]
  <2> HIDE DEF m
  <2> QED BY <1>1, <1>2, SubSeqProperties
<1>4. (IF m <= Len(s) THEN Len(s) - m + 1 ELSE 0) = n
  OBVIOUS
<1>5. \A k \in 1..n : SubSeq(s, m, Len(s))[k] = s[Len(s) - n + k]
  <2> TAKE k \in 1..n
  <2>1. k \in 1..(Len(s) - m + 1) /\ m + k - 1 = Len(s) - n + k
    OBVIOUS
  <2> HIDE DEF m
  <2> QED BY <1>3, <2>1
<1> QED
  BY <1>3, <1>4, <1>5

\* A suffix of a sequence is a sequence over the same set, and consists of its
\* last elements.
LEMMA SuffixFacts ==
  ASSUME NEW S, NEW s \in Seq(S), NEW t \in BQ!Suffixes(s)
  PROVE  /\ t \in Seq(S)
         /\ Len(t) <= Len(s)
         /\ \A k \in 1..Len(t) : t[k] = s[Len(s) - Len(t) + k]
<1>1. PICK i \in 1..(Len(s) + 1) : t = SubSeq(s, i, Len(s))
  BY DEF BQ!Suffixes
<1> DEFINE n == Len(s) - i + 1
<1>2. n \in 0..Len(s) /\ Len(s) - n + 1 = i
  OBVIOUS
<1>3. /\ t \in Seq(S)
      /\ Len(t) = n
      /\ \A k \in 1..n : t[k] = s[Len(s) - n + k]
  <2> HIDE DEF n
  <2> QED BY <1>1, <1>2, TailElements
<1> QED
  BY <1>2, <1>3

\* A sequence that agrees with the last elements of s is the tail of s.
LEMMA TailEqual ==
  ASSUME NEW S, NEW s \in Seq(S), NEW t \in Seq(S), Len(t) <= Len(s),
         \A k \in 1..Len(t) : t[k] = s[Len(s) - Len(t) + k]
  PROVE  t = SubSeq(s, Len(s) - Len(t) + 1, Len(s))
<1>1. Len(t) \in 0..Len(s)
  OBVIOUS
<1> DEFINE v == SubSeq(s, Len(s) - Len(t) + 1, Len(s))
<1>2. /\ v \in Seq(S)
      /\ Len(v) = Len(t)
      /\ \A k \in 1..Len(t) : v[k] = s[Len(s) - Len(t) + k]
  BY <1>1, TailElements
<1> HIDE DEF v
<1>3. t = v
  BY <1>2, SeqEqual
<1> QED
  BY <1>3 DEF v

\* Dropping the front of a tail of s leaves a tail of s.
LEMMA TailOfTail ==
  ASSUME NEW S, NEW s \in Seq(S), NEW t \in Seq(S), Len(t) <= Len(s),
         t = SubSeq(s, Len(s) - Len(t) + 1, Len(s)),
         NEW u \in BQ!Suffixes(t)
  PROVE  Len(u) <= Len(s) /\ u = SubSeq(s, Len(s) - Len(u) + 1, Len(s))
<1>1. /\ u \in Seq(S) /\ Len(u) <= Len(t)
      /\ \A k \in 1..Len(u) : u[k] = t[Len(t) - Len(u) + k]
  BY SuffixFacts
<1>2. Len(t) \in 0..Len(s)
  OBVIOUS
<1>3. \A k \in 1..Len(t) : t[k] = s[Len(s) - Len(t) + k]
  BY <1>2, TailElements
<1>4. \A k \in 1..Len(u) : u[k] = s[Len(s) - Len(u) + k]
  <2> TAKE k \in 1..Len(u)
  <2> DEFINE j == Len(t) - Len(u) + k
  <2>1. j \in 1..Len(t) /\ Len(s) - Len(t) + j = Len(s) - Len(u) + k
    BY <1>1
  <2>2. u[k] = t[j]
    BY <1>1
  <2> HIDE DEF j
  <2> QED BY <1>3, <2>1, <2>2
<1> QED
  BY <1>1, <1>4, TailEqual

\* The items that wait are always the last ones accepted, in their order.
THEOREM Fifo == BQ!QueueSpec => []BQ!BufferIsTail
<1>1. BQ!QueueInit => FifoInv
  <2> SUFFICES ASSUME BQ!QueueInit PROVE FifoInv
    OBVIOUS
  <2>1. SubSeq(<<>>, 1, 0) = <<>>
    BY SubSeqEmpty
  <2> QED
    BY <2>1 DEF BQ!QueueInit, FifoInv, FifoTypeOK, BQ!BufferIsTail
<1>2. FifoInv /\ [BQ!QueueNext]_(BQ!queueVars) => FifoInv'
  <2> SUFFICES ASSUME FifoInv, [BQ!QueueNext]_(BQ!queueVars) PROVE FifoInv'
    OBVIOUS
  <2> USE DEF FifoInv, FifoTypeOK, BQ!BufferIsTail
  <2>1. ASSUME NEW x \in Spans, BQ!Accept(x) PROVE FifoInv'
    <3> DEFINE both == Append(queue, x)
    <3>1. accepted' \in Seq(Spans) /\ Len(accepted') = Len(accepted) + 1
      BY <2>1 DEF BQ!Accept
    <3>2. both \in Seq(Spans) /\ Len(both) = Len(queue) + 1
      BY <2>1
    <3>3. both = SubSeq(accepted', Len(accepted') - Len(both) + 1, Len(accepted'))
      <4>1. Len(queue) \in 0..Len(accepted)
        OBVIOUS
      <4>2. \A k \in 1..Len(queue) : queue[k] = accepted[Len(accepted) - Len(queue) + k]
        BY <4>1, TailElements
      <4>3. \A k \in 1..Len(both) : both[k] = accepted'[Len(accepted') - Len(both) + k]
        <5> SUFFICES ASSUME NEW k \in 1..Len(both)
                     PROVE  both[k] = accepted'[Len(accepted') - Len(both) + k]
          OBVIOUS
        <5> DEFINE j == Len(accepted) - Len(queue) + k
        <5>1. Len(accepted') - Len(both) + k = j
          BY <3>1, <3>2
        <5>2. CASE k \in 1..Len(queue)
          <6>1. both[k] = accepted[j]
            BY <4>2, <5>2
          <6>2. j \in 1..Len(accepted)
            BY <5>2
          <6> HIDE DEF j
          <6> QED BY <2>1, <5>1, <6>1, <6>2 DEF BQ!Accept
        <5>3. CASE k = Len(queue) + 1
          <6>1. both[k] = x
            BY <5>3
          <6>2. j = Len(accepted) + 1
            BY <5>3
          <6> HIDE DEF j
          <6> QED BY <2>1, <5>1, <6>1, <6>2 DEF BQ!Accept
        <5> QED
          BY <3>2, <5>2, <5>3
      <4>4. Len(both) <= Len(accepted')
        BY <3>1, <3>2
      <4> HIDE DEF both, FifoInv, FifoTypeOK, BQ!BufferIsTail
      <4> QED
        BY <3>1, <3>2, <4>3, <4>4, TailEqual
    <3>4. queue' \in BQ!Suffixes(both)
      BY <2>1 DEF BQ!Accept
    <3>5. queue' \in Seq(Spans)
      BY <3>2, <3>4, SuffixFacts
    <3>6. /\ Len(queue') <= Len(accepted')
          /\ queue' = SubSeq(accepted', Len(accepted') - Len(queue') + 1, Len(accepted'))
      <4>1. Len(both) <= Len(accepted')
        BY <3>1, <3>2
      <4> HIDE DEF both, FifoInv, FifoTypeOK, BQ!BufferIsTail
      <4> QED BY <3>1, <3>2, <3>3, <3>4, <4>1, TailOfTail
    <3> QED
      BY <3>1, <3>5, <3>6
  <2>2. ASSUME NEW x \in Spans, BQ!Lose(x) PROVE FifoInv'
    BY <2>2 DEF BQ!Lose
  <2>3. CASE BQ!HandOver \/ BQ!Close
    <3>1. queue' \in BQ!Suffixes(queue) /\ accepted' = accepted
      BY <2>3 DEF BQ!HandOver, BQ!Close
    <3>2. queue' \in Seq(Spans)
      BY <3>1, SuffixFacts
    <3>3. /\ Len(queue') <= Len(accepted)
          /\ queue' = SubSeq(accepted, Len(accepted) - Len(queue') + 1, Len(accepted))
      BY <3>1, TailOfTail
    <3> QED
      BY <3>1, <3>2, <3>3
  <2>4. CASE UNCHANGED BQ!queueVars
    BY <2>4 DEF BQ!queueVars
  <2> QED
    BY <2>1, <2>2, <2>3, <2>4 DEF BQ!QueueNext
<1>3. FifoInv => BQ!BufferIsTail
  BY DEF FifoInv
<1> QED
  BY <1>1, <1>2, <1>3, PTL DEF BQ!QueueSpec

\* The spans that wait are always the last ones accepted, in their order.
THEOREM QueueKeepsOrder == Spec => []BQ!BufferIsTail
  BY Refinement, Fifo, PTL DEF ImplementsBatchQueue

-------------------------------------------------------------------------------
\* Exactly once and in order

SpansOf(bs) == [b \in DOMAIN bs |-> bs[b].spans]

\* All the spans in the batches bs, in their order.
Handed(bs) == FlattenSeq(SpansOf(bs))

LEMMA HandedType ==
  ASSUME NEW bs \in Seq(Batch)
  PROVE  /\ SpansOf(bs) \in Seq(Seq(Spans))
         /\ Handed(bs) \in Seq(Spans)
<1>1. SpansOf(bs) \in Seq(Seq(Spans))
  <2>1. DOMAIN bs = 1..Len(bs) /\ Len(bs) \in Nat
    BY LenProperties
  <2>2. \A b \in 1..Len(bs) : bs[b].spans \in Seq(Spans)
    <3> TAKE b \in 1..Len(bs)
    <3>1. bs[b] \in Batch
      BY ElementOfSeq
    <3> QED
      BY <3>1 DEF Batch
  <2> QED
    BY <2>1, <2>2, IsASeq DEF SpansOf
<1> QED
  BY <1>1, FlattenType DEF Handed

LEMMA HandedAppend ==
  ASSUME NEW bs \in Seq(Batch), NEW x \in Batch
  PROVE  Handed(Append(bs, x)) = Handed(bs) \o x.spans
<1>1. x.spans \in Seq(Spans) /\ SpansOf(bs) \in Seq(Seq(Spans))
  BY HandedType DEF Batch
<1>2. SpansOf(Append(bs, x)) = Append(SpansOf(bs), x.spans)
  <2>1. /\ Append(bs, x) \in Seq(Batch)
        /\ Len(Append(bs, x)) = Len(bs) + 1
        /\ \A b \in 1..Len(bs) : Append(bs, x)[b] = bs[b]
        /\ Append(bs, x)[Len(bs) + 1] = x
    BY AppendProperties
  <2>2. SpansOf(Append(bs, x)) \in Seq(Seq(Spans))
    BY <2>1, HandedType
  <2>3. Len(SpansOf(bs)) = Len(bs) /\ Len(SpansOf(Append(bs, x))) = Len(bs) + 1
    BY <1>1, <2>1, <2>2 DEF SpansOf
  <2>4. Append(SpansOf(bs), x.spans) \in Seq(Seq(Spans))
    BY <1>1, AppendProperties
  <2>5. Len(Append(SpansOf(bs), x.spans)) = Len(bs) + 1
    BY <1>1, <2>3, AppendProperties
  <2>6. \A b \in 1..Len(bs) + 1 :
          SpansOf(Append(bs, x))[b] = Append(SpansOf(bs), x.spans)[b]
    <3> TAKE b \in 1..Len(bs) + 1
    <3>1. SpansOf(Append(bs, x))[b] = Append(bs, x)[b].spans
      BY <2>1 DEF SpansOf
    <3>2. CASE b \in 1..Len(bs)
      <4>1. Append(SpansOf(bs), x.spans)[b] = SpansOf(bs)[b]
        BY <1>1, <2>3, <3>2, AppendProperties
      <4>2. SpansOf(bs)[b] = bs[b].spans
        BY <3>2 DEF SpansOf
      <4>3. Append(bs, x)[b] = bs[b]
        BY <2>1, <3>2
      <4> QED
        BY <3>1, <4>1, <4>2, <4>3
    <3>3. CASE b = Len(bs) + 1
      <4>1. Append(SpansOf(bs), x.spans)[b] = x.spans
        BY <1>1, <2>3, <3>3, AppendProperties
      <4>2. Append(bs, x)[b] = x
        BY <2>1, <3>3
      <4> QED
        BY <3>1, <4>1, <4>2
    <3> QED
      <4>1. Len(bs) \in Nat
        BY LenProperties
      <4>2. b \in 1..Len(bs) \/ b = Len(bs) + 1
        BY <4>1
      <4> QED
        BY <3>2, <3>3, <4>2
  <2> QED
    BY ZenonT(40), <2>2, <2>3, <2>4, <2>5, <2>6, SeqEqual
<1> QED
  BY <1>1, <1>2, FlattenAppend DEF Handed

\* What becomes of a batch does not change its spans.
LEMMA EditKeepsSpans ==
  ASSUME NEW x \in Batch, NEW phase, NEW outcome, NEW next
  PROVE  \A y \in {Chained(x, next), Started(x, phase), TimedOut(x),
                   Reported(x, outcome), Failed(x)} : y.spans = x.spans
BY DEF Batch, Chained, Started, TimedOut, Reported, Failed

LEMMA HandedEdited ==
  ASSUME NEW bs \in Seq(Batch), NEW b \in DOMAIN bs, NEW y, y.spans = bs[b].spans
  PROVE  Handed([bs EXCEPT ![b] = y]) = Handed(bs)
<1>1. \A c \in DOMAIN bs : [bs EXCEPT ![b] = y][c].spans = bs[c].spans
  OBVIOUS
<1> QED
  BY <1>1 DEF Handed, SpansOf

\* The first batch and what it leaves are the queue.
LEMMA ChunkAndRemaining ==
  ASSUME NEW q \in Seq(Spans)
  PROVE  Chunk(q, 1) \o Remaining(q, 1) = q
<1> DEFINE e == ChunkEnd(q, 1)
<1>1. e \in 0..Len(q) /\ Len(q) \in Nat
  BY ChunkEndFacts
<1>2. (1 - 1) * BatchSize + 1 = 1
  BY BatchSizeFacts
<1> HIDE DEF e
<1>3. SubSeq(q, 1, e) \o SubSeq(q, e + 1, Len(q)) = SubSeq(q, 1, Len(q))
  <2>1. 1 \in 1..Len(q) + 1 /\ e \in 1 - 1..Len(q) /\ Len(q) \in e..Len(q)
    BY <1>1
  <2> QED
    BY <2>1, ConcatAdjacentSubSeq
<1> QED
  BY <1>2, <1>3, SubSeqFull DEF e, Chunk, Remaining

LEMMA FlushScheduledOrder ==
  ASSUME NEW q \in Seq(Spans), NEW bs \in Seq(Batch), FlushScheduled(q, bs)
  PROVE  Handed(batches') \o queue' = Handed(bs) \o q
<1>1. PICK start \in Starts :
        batches' = Append(bs, NewBatch(Chunk(q, 1), "schedule", start))
  BY DEF FlushScheduled
<1> DEFINE new == NewBatch(Chunk(q, 1), "schedule", start)
<1>2. new \in Batch /\ new.spans = Chunk(q, 1) /\ Chunk(q, 1) \in Seq(Spans)
  BY ChunkType, NewBatchFacts DEF NewBatch
<1> HIDE DEF new
<1>3. Handed(batches') = Handed(bs) \o Chunk(q, 1)
  BY <1>1, <1>2, HandedAppend DEF new
<1>4. queue' = Remaining(q, 1) /\ Remaining(q, 1) \in Seq(Spans)
  BY RemainingFacts DEF FlushScheduled
<1>5. (Handed(bs) \o Chunk(q, 1)) \o Remaining(q, 1)
        = Handed(bs) \o (Chunk(q, 1) \o Remaining(q, 1))
  <2>1. Handed(bs) \in Seq(Spans)
    BY HandedType
  <2> QED
    BY SMTT(30), <1>2, <1>4, <2>1, ConcatAssociative
<1> QED
  BY <1>3, <1>4, <1>5, ChunkAndRemaining

LEMMA MaybeStartTimerOrder ==
  ASSUME NEW q \in Seq(Spans), NEW bs \in Seq(Batch), NEW exporting,
         MaybeStartTimer(q, bs, exporting)
  PROVE  Handed(batches') \o queue' = Handed(bs) \o q
BY FlushScheduledOrder DEF MaybeStartTimer

\* The first n batches of _flushAll hold the first n chunks of the queue.
LEMMA FlushedChunks ==
  ASSUME queue \in Seq(Spans), batches \in Seq(Batch),
         NEW starts \in [1..BatchCount(queue) -> Starts]
  PROVE  \A n \in Nat : n <= BatchCount(queue) =>
           LET new == [i \in 1..n |-> NewBatch(Chunk(queue, i), "flushAll", starts[i])]
           IN Handed(batches \o new)
                = Handed(batches) \o SubSeq(queue, 1, ChunkEnd(queue, n))
<1> DEFINE c == BatchCount(queue)
           x(i) == NewBatch(Chunk(queue, i), "flushAll", starts[i])
           new(n) == [i \in 1..n |-> x(i)]
           InOrder(n) == Handed(batches \o new(n))
                           = Handed(batches) \o SubSeq(queue, 1, ChunkEnd(queue, n))
           S == {n \in Nat : n <= c => InOrder(n)}
<1>1. c \in Nat /\ BatchSize \in Nat /\ BatchSize >= 1 /\ Len(queue) \in Nat
  BY BatchCountFacts, BatchSizeFacts
<1>2. \A i \in 1..c : x(i) \in Batch /\ x(i).spans = Chunk(queue, i)
  <2> TAKE i \in 1..c
  <2>1. i \in Nat /\ i >= 1 /\ starts[i] \in Starts
    BY <1>1
  <2>2. Chunk(queue, i) \in Seq(Spans)
    BY <2>1, ChunkType
  <2> QED
    BY <2>1, <2>2, NewBatchFacts DEF NewBatch
<1> HIDE DEF c, x
<1>3. \A n \in Nat : n <= c => new(n) \in Seq(Batch) /\ Len(new(n)) = n
  BY <1>1, <1>2
<1>4. InOrder(0)
  <2>1. new(0) = <<>>
    BY <1>3, EmptySeq
  <2>2. ChunkEnd(queue, 0) = 0
    BY <1>1 DEF ChunkEnd
  <2>3. SubSeq(queue, 1, 0) = <<>>
    BY SubSeqEmpty
  <2>4. Handed(batches) \in Seq(Spans) /\ batches \o <<>> = batches
    BY HandedType, ConcatEmptySeq
  <2>5. Handed(batches) \o <<>> = Handed(batches)
    BY <2>4, ConcatEmptySeq
  <2> QED
    BY <2>1, <2>2, <2>3, <2>4, <2>5
<1>5. ASSUME NEW n \in Nat, n + 1 <= c, InOrder(n) PROVE InOrder(n + 1)
  <2> DEFINE e == ChunkEnd(queue, n)
             f == ChunkEnd(queue, n + 1)
  <2>1. n <= c /\ n + 1 \in 1..c
    BY <1>1, <1>5
  <2>2. x(n + 1) \in Batch /\ x(n + 1).spans = Chunk(queue, n + 1)
    BY <1>2, <2>1
  <2>3. batches \o new(n + 1) = Append(batches \o new(n), x(n + 1))
    <3>1. /\ new(n) \in Seq(Batch) /\ Len(new(n)) = n
          /\ new(n + 1) \in Seq(Batch) /\ Len(new(n + 1)) = n + 1
      BY <1>3, <1>5, <2>1
    <3>2. new(n + 1) = Append(new(n), x(n + 1))
      <4>1. Append(new(n), x(n + 1)) \in Seq(Batch)
        BY <2>2, <3>1, AppendProperties
      <4>2. Len(Append(new(n), x(n + 1))) = n + 1
        BY <2>2, <3>1, AppendProperties
      <4>3. \A i \in 1..n + 1 : Append(new(n), x(n + 1))[i] = new(n + 1)[i]
        BY <2>2, <3>1, AppendProperties
      <4> QED
        BY <3>1, <4>1, <4>2, <4>3, SeqEqual
    <3> HIDE DEF new
    <3>3. \A t \in Seq(Batch) : batches \o Append(t, x(n + 1)) = Append(batches \o t, x(n + 1))
      BY <2>2, ConcatOfAppend
    <3> QED
      BY <3>1, <3>2, <3>3
  <2>4. batches \o new(n) \in Seq(Batch)
    BY <1>3, <2>1, ConcatProperties
  <2>5. Handed(batches \o new(n + 1)) = Handed(batches \o new(n)) \o Chunk(queue, n + 1)
    BY <2>2, <2>3, <2>4, HandedAppend
  <2>6. SubSeq(queue, 1, e) \o Chunk(queue, n + 1) = SubSeq(queue, 1, f)
    <3>1. e \in 0..Len(queue) /\ f \in 0..Len(queue)
      <4>1. n + 1 \in Nat
        OBVIOUS
      <4>2. e \in 0..Len(queue)
        BY ChunkEndFacts
      <4> QED
        BY <4>1, <4>2, ChunkEndFacts
    <3>2. n * BatchSize \in Nat /\ (n + 1) * BatchSize = n * BatchSize + BatchSize
      BY <1>1
    <3>3. Chunk(queue, n + 1) = SubSeq(queue, n * BatchSize + 1, f)
      <4>1. (n + 1) - 1 = n
        OBVIOUS
      <4> QED
        BY <4>1 DEF Chunk
    <3>4. CASE n * BatchSize <= Len(queue)
      <4>1. e = n * BatchSize /\ e <= f
        BY <1>1, <3>2, <3>4 DEF ChunkEnd
      <4> HIDE DEF e, f
      <4>2. 1 \in 1..Len(queue) + 1 /\ e \in 1 - 1..Len(queue) /\ f \in e..Len(queue)
        BY <1>1, <3>1, <4>1
      <4>3. SubSeq(queue, 1, e) \o SubSeq(queue, e + 1, f) = SubSeq(queue, 1, f)
        BY <4>2, ConcatAdjacentSubSeq
      <4> QED
        BY <3>3, <4>1, <4>3
    <3>5. CASE ~(n * BatchSize <= Len(queue))
      <4>1. e = Len(queue) /\ f = Len(queue) /\ f < n * BatchSize + 1
        BY <1>1, <3>2, <3>5 DEF ChunkEnd
      <4>2. Chunk(queue, n + 1) = <<>>
        <5> HIDE DEF e, f
        <5> QED
          BY <1>1, <3>1, <3>2, <3>3, <4>1, SubSeqEmpty
      <4>3. SubSeq(queue, 1, Len(queue)) = queue
        BY SubSeqFull
      <4> QED
        BY <4>1, <4>2, <4>3, ConcatEmptySeq
    <3> QED
      BY <3>4, <3>5
  <2>7. (Handed(batches) \o SubSeq(queue, 1, e)) \o Chunk(queue, n + 1)
          = Handed(batches) \o (SubSeq(queue, 1, e) \o Chunk(queue, n + 1))
    <3>1. Handed(batches) \in Seq(Spans) /\ Chunk(queue, n + 1) \in Seq(Spans)
      <4>1. n + 1 \in Nat /\ n + 1 >= 1
        OBVIOUS
      <4> QED
        BY <4>1, HandedType, ChunkType
    <3>2. e \in 0..Len(queue)
      BY ChunkEndFacts
    <3>3. \A i \in 1..e : queue[i] \in Spans
      BY <1>1, <3>2, ElementOfSeq
    <3> HIDE DEF e
    <3>4. SubSeq(queue, 1, e) \in Seq(Spans)
      BY <3>2, <3>3, SubSeqProperties
    <3>5. \A s, t, u \in Seq(Spans) : (s \o t) \o u = s \o (t \o u)
      BY SMTT(30), ConcatAssociative
    <3> QED
      BY ZenonT(40), <3>1, <3>4, <3>5
  <2> HIDE DEF new, e, f
  <2> QED
    BY <1>5, <2>5, <2>6, <2>7 DEF e, f
<1> HIDE DEF InOrder
<1>6. \A n \in Nat : n \in S => n + 1 \in S
  BY <1>1, <1>5
<1>7. Nat \subseteq S
  <2>1. 0 \in S
    BY <1>4
  <2> HIDE DEF S
  <2> QED
    BY <1>6, <2>1, NatsBySuccessor
<1>8. \A n \in Nat : n <= c => InOrder(n)
  BY <1>7
<1> QED
  BY <1>8 DEF InOrder, c, x

LEMMA FlushAllOrder ==
  ASSUME queue \in Seq(Spans), batches \in Seq(Batch), NEW kind, FlushAll(kind)
  PROVE  Handed(batches') \o queue' = Handed(batches) \o queue
<1> DEFINE c == BatchCount(queue)
<1>1. c \in Nat /\ c * BatchSize >= Len(queue) /\ BatchSize \in Nat /\ Len(queue) \in Nat
  BY BatchCountFacts, BatchSizeFacts
<1>2. PICK starts \in [1..c -> Starts] :
        batches' = batches \o
          [i \in 1..c |-> NewBatch(Chunk(queue, i), "flushAll", starts[i])]
  BY DEF FlushAll
<1>3. ChunkEnd(queue, c) = Len(queue)
  <2>1. c * BatchSize \in Nat
    BY <1>1
  <2> QED
    BY <1>1, <2>1 DEF ChunkEnd
<1>4. SubSeq(queue, 1, Len(queue)) = queue
  BY SubSeqFull
<1>5. Handed(batches') = Handed(batches) \o queue
  <2>1. \A n \in Nat : n <= c =>
          LET new == [i \in 1..n |-> NewBatch(Chunk(queue, i), "flushAll", starts[i])]
          IN Handed(batches \o new)
               = Handed(batches) \o SubSeq(queue, 1, ChunkEnd(queue, n))
    BY FlushedChunks
  <2>2. c <= c
    BY <1>1
  <2> HIDE DEF c
  <2>3. LET new == [i \in 1..c |-> NewBatch(Chunk(queue, i), "flushAll", starts[i])]
        IN Handed(batches \o new)
             = Handed(batches) \o SubSeq(queue, 1, ChunkEnd(queue, c))
    BY <1>1, <2>1, <2>2
  <2> QED
    BY <1>2, <1>3, <1>4, <2>3
<1>6. queue' = <<>>
  BY FlushAllEmpties DEF FlushAll
<1>7. Handed(batches) \o queue \in Seq(Spans)
  BY HandedType, ConcatProperties
<1> QED
  BY <1>5, <1>6, <1>7, ConcatEmptySeq

LEMMA OrderStep ==
  SchedulerType /\ HistoryType /\ ExactlyOnceInOrder /\ [Next]_vars
    => ExactlyOnceInOrder'
<1> SUFFICES ASSUME SchedulerType, HistoryType, Handed(batches) \o queue = accepted,
                    [Next]_vars
             PROVE  Handed(batches') \o queue' = accepted'
  BY DEF ExactlyOnceInOrder, Handed, SpansOf
<1>1. /\ queue \in Seq(Spans) /\ batches \in Seq(Batch) /\ accepted \in Seq(Spans)
      /\ Handed(batches) \in Seq(Spans)
  BY HandedType DEF SchedulerType, HistoryType
<1>2. ASSUME UNCHANGED <<batches, queue, accepted>>
      PROVE  Handed(batches') \o queue' = accepted'
  BY <1>2
<1>3. ASSUME NEW s \in Spans, OnEnd(s) PROVE Handed(batches') \o queue' = accepted'
  <2>1. CASE IgnoreSpan(s) \/ DropSpan(s)
    BY <1>2, <2>1 DEF IgnoreSpan, DropSpan
  <2>2. CASE AddSpan(s)
    <3>1. Append(queue, s) \in Seq(Spans)
      BY <1>1, AppendProperties
    <3>2. Handed(batches') \o queue' = Handed(batches) \o Append(queue, s)
      BY <1>1, <2>2, <3>1, MaybeStartTimerOrder DEF AddSpan
    <3>3. Handed(batches) \o Append(queue, s) = Append(Handed(batches) \o queue, s)
      <4>1. \A t \in Seq(Spans) : t \o Append(queue, s) = Append(t \o queue, s)
        BY <1>1, ConcatOfAppend
      <4> QED
        BY <1>1, <4>1
    <3> QED
      BY <2>2, <3>2, <3>3 DEF AddSpan
  <2> QED
    BY <1>3, <2>1, <2>2 DEF OnEnd
<1>4. CASE ForceFlush \/ ShutdownFlush
  BY <1>1, <1>4, FlushAllOrder DEF ForceFlush, ShutdownFlush
<1>5. ASSUME NEW b \in DOMAIN batches, Finally(b)
      PROVE  Handed(batches') \o queue' = accepted'
  <2> DEFINE next == IF batches[b].promise = "rejected" THEN "catch" ELSE "none"
             bs == [batches EXCEPT ![b] = Chained(@, next)]
  <2>1. batches[b] \in Batch /\ next \in {"finally", "catch", "none"}
    BY <1>1
  <2>2. Chained(batches[b], next) \in Batch
    BY <2>1, EditFacts
  <2>3. Chained(batches[b], next).spans = batches[b].spans
    BY <2>1, EditKeepsSpans
  <2>4. bs \in Seq(Batch)
    BY <1>1, <2>2
  <2>5. Handed(bs) = Handed(batches)
    BY <1>1, <2>3, HandedEdited
  <2>6. accepted' = accepted
    BY <1>5 DEF Finally
  <2>7. CASE MaybeStartTimer(queue, bs, FALSE)
    <3> HIDE DEF bs
    <3>1. Handed(batches') \o queue' = Handed(bs) \o queue
      BY <1>1, <2>4, <2>7, MaybeStartTimerOrder
    <3> QED
      BY <2>5, <2>6, <3>1
  <2>8. CASE batches' = bs /\ queue' = queue
    <3> HIDE DEF bs
    <3> QED
      BY <2>5, <2>6, <2>8
  <2> QED
    BY <1>5, <2>7, <2>8 DEF Finally
<1>6. CASE TimerFires
  BY <1>1, <1>6, FlushScheduledOrder DEF TimerFires
<1>7. ASSUME NEW b \in DOMAIN batches, NEW y, y.spans = batches[b].spans,
             batches' = [batches EXCEPT ![b] = y], UNCHANGED <<queue, accepted>>
      PROVE  Handed(batches') \o queue' = accepted'
  BY <1>1, <1>7, HandedEdited
<1>8. ASSUME NEW b \in DOMAIN batches,
             \/ Catch(b) \/ ResourceReady(b) \/ ExportTimeout(b)
             \/ ExporterResult(b) \/ ResourceFails(b)
      PROVE  Handed(batches') \o queue' = accepted'
  <2>1. batches[b] \in Batch
    BY <1>1
  <2>2. UNCHANGED <<queue, accepted>>
    BY <1>8 DEF Catch, ResourceReady, ExportTimeout, ExporterResult, ResourceFails
  <2>3. \E y : y.spans = batches[b].spans /\ batches' = [batches EXCEPT ![b] = y]
    <3>1. CASE Catch(b)
      BY <2>1, <3>1, EditKeepsSpans DEF Catch
    <3>2. CASE ResourceReady(b)
      BY <2>1, <3>2, EditKeepsSpans DEF ResourceReady
    <3>3. CASE ExportTimeout(b)
      BY <2>1, <3>3, EditKeepsSpans DEF ExportTimeout
    <3>4. CASE ExporterResult(b)
      BY <2>1, <3>4, EditKeepsSpans DEF ExporterResult
    <3>5. CASE ResourceFails(b)
      BY <2>1, <3>5, EditKeepsSpans DEF ResourceFails
    <3> QED
      BY <1>8, <3>1, <3>2, <3>3, <3>4, <3>5
  <2> QED
    BY <1>7, <2>2, <2>3
<1>9. CASE ForceFlushJoins \/ Shutdown \/ ShutdownFlushSettles
             \/ ExporterShutdownSettles \/ ResourceSettles \/ UNCHANGED vars
  BY <1>2, <1>9
     DEF ForceFlushJoins, Shutdown, ShutdownFlushSettles,
         ExporterShutdownSettles, ResourceSettles, vars
<1> QED
  BY <1>3, <1>4, <1>5, <1>6, <1>8, <1>9
     DEF Next, Application, Reaction, TimerTask, Environment

\* Every accepted span is in exactly one batch or in the queue, and the batches
\* hold them in the order of acceptance, whatever cuts them from the queue
\* (BatchSpanProcessorBase.ts:147, 214).
THEOREM SpansGoOutOnceInOrder == Spec => []ExactlyOnceInOrder
<1>1. Init => ExactlyOnceInOrder
  <2> SUFFICES ASSUME Init PROVE Handed(batches) \o queue = accepted
    BY DEF ExactlyOnceInOrder, Handed, SpansOf
  <2>1. SpansOf(batches) = <<>>
    BY DEF Init, SpansOf
  <2>2. Handed(batches) = <<>>
    BY <2>1 DEF Handed, FlattenSeq
  <2> QED
    BY <2>2 DEF Init
<1>2. TypeOK => SchedulerType /\ HistoryType
  BY DEF TypeOK, SchedulerType, HistoryType
<1> QED
  BY <1>1, <1>2, OrderStep, TypeCorrect, PTL DEF Spec

-------------------------------------------------------------------------------
\* What a resolved flush has sent

Before(f) == ToSet(SubSeq(accepted, 1, f.before))

\* A flush took all that was accepted before it: none of it waits in the queue
\* or is in a batch cut later.
TookAll(f) ==
  /\ f.before <= Len(accepted)
  /\ f.last <= Len(batches)
  /\ Before(f) \subseteq ended
  /\ Before(f) \cap ToSet(queue) = {}
  /\ \A b \in DOMAIN batches : b > f.last =>
       Before(f) \cap ToSet(batches[b].spans) = {}

\* A batch is resolved only by a report of the exporter.
Sound(x) == x.promise = "resolved" => x.phase = "reported"

AllSound(bs) == \A b \in DOMAIN bs : Sound(bs[b])

SentInv ==
  /\ AllSound(batches)
  /\ \A i \in DOMAIN flushes : flushes[i].kind # "joined" => TookAll(flushes[i])

\* What is cut from a queue was in it.
LEMMA CutFromQueue ==
  ASSUME NEW q \in Seq(Spans), NEW n \in Nat
  PROVE  /\ ToSet(Remaining(q, n)) \subseteq ToSet(q)
         /\ n >= 1 => ToSet(Chunk(q, n)) \subseteq ToSet(q)
<1>1. ChunkEnd(q, n) \in 0..Len(q) /\ Len(q) \in Nat /\ BatchSize \in Nat
  BY ChunkEndFacts, BatchSizeFacts
<1>2. \A i, j \in Nat : i >= 1 /\ j <= Len(q) => ToSet(SubSeq(q, i, j)) \subseteq ToSet(q)
  BY ToSetFacts
<1>3. ToSet(Remaining(q, n)) \subseteq ToSet(q)
  BY <1>1, <1>2 DEF Remaining
<1>4. ASSUME n >= 1 PROVE ToSet(Chunk(q, n)) \subseteq ToSet(q)
  <2>1. (n - 1) * BatchSize \in Nat
    BY <1>1, <1>4
  <2> QED
    BY <1>1, <1>2, <2>1 DEF Chunk
<1> QED
  BY <1>3, <1>4

\* What a step does to the spans on their way: batches keep theirs, the queue and
\* new batches get spans of the queue or one that ends in this step.
Arrivals == ToSet(queue) \cup (ended' \ ended)

MovesSpans ==
  /\ \A b \in DOMAIN batches :
       b \in DOMAIN batches' /\ batches'[b].spans = batches[b].spans
  /\ \A b \in DOMAIN batches' : b \notin DOMAIN batches =>
       ToSet(batches'[b].spans) \subseteq Arrivals
  /\ AllSound(batches')
  /\ ToSet(queue') \subseteq Arrivals
  /\ ended \subseteq ended'
  /\ accepted' = accepted \/ \E s \in Spans : accepted' = Append(accepted, s)

LEMMA FlushScheduledMoves ==
  ASSUME NEW q \in Seq(Spans), NEW bs \in Seq(Batch), FlushScheduled(q, bs)
  PROVE  /\ \A b \in DOMAIN bs : b \in DOMAIN batches' /\ batches'[b] = bs[b]
         /\ \A b \in DOMAIN batches' : b \notin DOMAIN bs =>
              /\ Sound(batches'[b]) /\ batches'[b].phase # "reported"
              /\ ToSet(batches'[b].spans) \subseteq ToSet(q)
         /\ ToSet(queue') \subseteq ToSet(q)
<1>1. PICK start \in Starts :
        batches' = Append(bs, NewBatch(Chunk(q, 1), "schedule", start))
  BY DEF FlushScheduled
<1> DEFINE new == NewBatch(Chunk(q, 1), "schedule", start)
<1>2. /\ new \in Batch /\ new.spans = Chunk(q, 1) /\ Sound(new)
      /\ new.phase # "reported"
  BY ChunkType, NewBatchFacts DEF NewBatch, Sound
<1>3. ToSet(Chunk(q, 1)) \subseteq ToSet(q) /\ ToSet(Remaining(q, 1)) \subseteq ToSet(q)
  BY CutFromQueue
<1> HIDE DEF new
<1>4. /\ DOMAIN bs = 1..Len(bs) /\ DOMAIN batches' = 1..Len(bs) + 1
      /\ \A b \in 1..Len(bs) : batches'[b] = bs[b]
      /\ batches'[Len(bs) + 1] = new
      /\ Len(bs) \in Nat
  BY <1>1, <1>2, AppendProperties, LenProperties DEF new
<1>5. \A b \in DOMAIN batches' : b \notin DOMAIN bs => b = Len(bs) + 1
  BY <1>4
<1> QED
  BY <1>2, <1>3, <1>4, <1>5 DEF FlushScheduled

LEMMA MaybeStartTimerMoves ==
  ASSUME NEW q \in Seq(Spans), NEW bs \in Seq(Batch), NEW exporting,
         MaybeStartTimer(q, bs, exporting)
  PROVE  /\ \A b \in DOMAIN bs : b \in DOMAIN batches' /\ batches'[b] = bs[b]
         /\ \A b \in DOMAIN batches' : b \notin DOMAIN bs =>
              /\ Sound(batches'[b]) /\ batches'[b].phase # "reported"
              /\ ToSet(batches'[b].spans) \subseteq ToSet(q)
         /\ ToSet(queue') \subseteq ToSet(q)
BY FlushScheduledMoves DEF MaybeStartTimer

LEMMA FlushAllMoves ==
  ASSUME queue \in Seq(Spans), batches \in Seq(Batch), NEW kind, FlushAll(kind)
  PROVE  /\ \A b \in DOMAIN batches : b \in DOMAIN batches' /\ batches'[b] = batches[b]
         /\ \A b \in DOMAIN batches' : b \notin DOMAIN batches =>
              /\ Sound(batches'[b]) /\ batches'[b].phase # "reported"
              /\ ToSet(batches'[b].spans) \subseteq ToSet(queue)
         /\ queue' = <<>>
         /\ Len(batches') = Len(batches) + BatchCount(queue)
         /\ batches' \in Seq(Batch)
<1> DEFINE c == BatchCount(queue)
<1>1. c \in Nat /\ Len(batches) \in Nat /\ DOMAIN batches = 1..Len(batches)
  BY BatchCountFacts
<1>2. PICK starts \in [1..c -> Starts] :
        batches' = batches \o
          [i \in 1..c |-> NewBatch(Chunk(queue, i), "flushAll", starts[i])]
  BY DEF FlushAll
<1> DEFINE y(i) == NewBatch(Chunk(queue, i), "flushAll", starts[i])
           new == [i \in 1..c |-> y(i)]
<1>3. \A i \in 1..c : /\ y(i) \in Batch /\ Sound(y(i)) /\ y(i).phase # "reported"
                      /\ ToSet(y(i).spans) \subseteq ToSet(queue)
  <2> TAKE i \in 1..c
  <2>1. i \in Nat /\ i >= 1 /\ starts[i] \in Starts
    BY <1>1
  <2>2. Chunk(queue, i) \in Seq(Spans) /\ ToSet(Chunk(queue, i)) \subseteq ToSet(queue)
    BY <2>1, ChunkType, CutFromQueue
  <2> QED
    BY <2>1, <2>2, NewBatchFacts DEF NewBatch, Sound
<1> HIDE DEF y, c
<1>4. new \in Seq(Batch) /\ Len(new) = c /\ \A i \in 1..c : new[i] = y(i)
  BY <1>1, <1>3
<1> HIDE DEF new
<1>5. batches' = batches \o new
  BY <1>2 DEF new, y, c
<1>6. /\ batches' \in Seq(Batch) /\ Len(batches') = Len(batches) + c
      /\ \A b \in 1..Len(batches) : batches'[b] = batches[b]
      /\ \A b \in 1..Len(batches) + c : b > Len(batches) =>
           batches'[b] = new[b - Len(batches)]
  BY <1>1, <1>4, <1>5, ConcatProperties
<1>7. DOMAIN batches' = 1..Len(batches) + c
  BY <1>6
<1>8. \A b \in DOMAIN batches' : b \notin DOMAIN batches =>
        b > Len(batches) /\ b - Len(batches) \in 1..c
  BY <1>1, <1>7
<1>9. queue' = <<>>
  BY FlushAllEmpties DEF FlushAll
<1>10. ASSUME NEW b \in DOMAIN batches', b \notin DOMAIN batches
       PROVE  /\ Sound(batches'[b]) /\ batches'[b].phase # "reported"
              /\ ToSet(batches'[b].spans) \subseteq ToSet(queue)
  <2>1. batches'[b] = y(b - Len(batches)) /\ b - Len(batches) \in 1..c
    BY <1>4, <1>6, <1>7, <1>8, <1>10
  <2> QED
    BY <1>3, <2>1
<1>11. \A b \in DOMAIN batches : b \in DOMAIN batches' /\ batches'[b] = batches[b]
  BY <1>1, <1>6, <1>7
<1> QED
  BY <1>6, <1>9, <1>10, <1>11 DEF c

LEMMA OnEndMoves ==
  ASSUME SchedulerType, HistoryType, AllSound(batches), NEW s \in Spans, OnEnd(s)
  PROVE  MovesSpans
<1>1. queue \in Seq(Spans) /\ batches \in Seq(Batch) /\ s \in ended' \ ended /\ ended \subseteq ended'
  BY DEF SchedulerType, OnEnd
<1>2. CASE IgnoreSpan(s) \/ DropSpan(s)
  BY <1>1, <1>2 DEF IgnoreSpan, DropSpan, MovesSpans, Arrivals, AllSound
<1>3. CASE AddSpan(s)
  <2>1. Append(queue, s) \in Seq(Spans) /\ ToSet(Append(queue, s)) = ToSet(queue) \cup {s}
    BY <1>1, AppendProperties, ToSetFacts
  <2>2. MaybeStartTimer(Append(queue, s), batches, isExporting)
    BY <1>3 DEF AddSpan
  <2>3. /\ \A b \in DOMAIN batches : b \in DOMAIN batches' /\ batches'[b] = batches[b]
        /\ \A b \in DOMAIN batches' : b \notin DOMAIN batches =>
             /\ Sound(batches'[b])
             /\ ToSet(batches'[b].spans) \subseteq ToSet(Append(queue, s))
        /\ ToSet(queue') \subseteq ToSet(Append(queue, s))
    BY <1>1, <2>1, <2>2, MaybeStartTimerMoves
  <2> QED
    BY <1>1, <1>3, <2>1, <2>3 DEF AddSpan, MovesSpans, Arrivals, AllSound
<1> QED
  BY <1>2, <1>3 DEF OnEnd

LEMMA EditMoves ==
  ASSUME SchedulerType, NEW b \in DOMAIN batches, NEW y, y.spans = batches[b].spans,
         Sound(y), AllSound(batches), batches' = [batches EXCEPT ![b] = y], UNCHANGED <<queue, accepted, ended>>
  PROVE  MovesSpans
<1>1. DOMAIN batches' = DOMAIN batches
  BY DEF SchedulerType
<1>2. \A c \in DOMAIN batches : batches'[c].spans = batches[c].spans
  BY DEF SchedulerType
<1>3. AllSound(batches')
  BY <1>1 DEF AllSound
<1> QED
  BY <1>1, <1>2, <1>3 DEF MovesSpans, Arrivals

LEMMA FinallyMoves ==
  ASSUME SchedulerType, AllSound(batches), NEW b \in DOMAIN batches, Finally(b)
  PROVE  MovesSpans
<1> DEFINE next == IF batches[b].promise = "rejected" THEN "catch" ELSE "none"
           y == Chained(batches[b], next)
           bs == [batches EXCEPT ![b] = y]
<1>1. queue \in Seq(Spans) /\ batches \in Seq(Batch) /\ batches[b] \in Batch
  BY DEF SchedulerType
<1>2. y \in Batch /\ y.spans = batches[b].spans
  BY <1>1, EditFacts, EditKeepsSpans
<1>8. Sound(y)
  BY <1>1 DEF AllSound, Sound, Chained, Batch
<1> HIDE DEF y
<1>3. bs \in Seq(Batch) /\ DOMAIN bs = DOMAIN batches
  BY <1>1, <1>2
<1>4. \A c \in DOMAIN batches : bs[c].spans = batches[c].spans
  BY <1>2
<1>9. AllSound(bs)
  BY <1>3, <1>8 DEF AllSound
<1>5. UNCHANGED <<ended, accepted>>
  BY DEF Finally
<1> HIDE DEF bs
<1>6. CASE MaybeStartTimer(queue, bs, FALSE)
  <2>1. /\ \A c \in DOMAIN bs : c \in DOMAIN batches' /\ batches'[c] = bs[c]
        /\ \A c \in DOMAIN batches' : c \notin DOMAIN bs =>
             /\ Sound(batches'[c])
             /\ ToSet(batches'[c].spans) \subseteq ToSet(queue)
        /\ ToSet(queue') \subseteq ToSet(queue)
    BY <1>1, <1>3, <1>6, MaybeStartTimerMoves
  <2> QED
    BY <1>3, <1>4, <1>5, <1>9, <2>1 DEF MovesSpans, Arrivals, AllSound
<1>7. CASE batches' = bs /\ queue' = queue
  BY <1>3, <1>4, <1>5, <1>7, <1>9 DEF MovesSpans, Arrivals, AllSound
<1> QED
  BY <1>6, <1>7 DEF Finally, bs, y

LEMMA StepMoves ==
  SchedulerType /\ HistoryType /\ AllSound(batches) /\ [Next]_vars => MovesSpans
<1> SUFFICES ASSUME SchedulerType, HistoryType, AllSound(batches), [Next]_vars PROVE MovesSpans
  OBVIOUS
<1>1. queue \in Seq(Spans) /\ batches \in Seq(Batch)
  BY DEF SchedulerType
<1>2. CASE UNCHANGED <<batches, queue, accepted, ended>>
  BY <1>2 DEF MovesSpans, Arrivals, AllSound
<1>3. ASSUME NEW s \in Spans, OnEnd(s) PROVE MovesSpans
  BY <1>3, OnEndMoves
<1>4. CASE ForceFlush \/ ShutdownFlush
  <2>1. (FlushAll("forceFlush") \/ FlushAll("shutdown")) /\ UNCHANGED <<ended, accepted>>
    BY <1>4 DEF ForceFlush, ShutdownFlush
  <2>2. /\ \A b \in DOMAIN batches : b \in DOMAIN batches' /\ batches'[b] = batches[b]
        /\ \A b \in DOMAIN batches' : b \notin DOMAIN batches =>
             /\ Sound(batches'[b])
             /\ ToSet(batches'[b].spans) \subseteq ToSet(queue)
        /\ queue' = <<>>
    BY <1>1, <2>1, FlushAllMoves
  <2>3. ToSet(queue') = {}
    BY <2>2 DEF ToSet
  <2> QED
    BY <2>1, <2>2, <2>3 DEF MovesSpans, Arrivals, AllSound
<1>5. CASE TimerFires
  <2>1. /\ \A b \in DOMAIN batches : b \in DOMAIN batches' /\ batches'[b] = batches[b]
        /\ \A b \in DOMAIN batches' : b \notin DOMAIN batches =>
             /\ Sound(batches'[b])
             /\ ToSet(batches'[b].spans) \subseteq ToSet(queue)
        /\ ToSet(queue') \subseteq ToSet(queue)
    BY <1>1, <1>5, FlushScheduledMoves DEF TimerFires
  <2> QED
    BY <1>5, <2>1 DEF TimerFires, MovesSpans, Arrivals, AllSound
<1>6. ASSUME NEW b \in DOMAIN batches, Finally(b) PROVE MovesSpans
  BY <1>6, FinallyMoves
<1>7. ASSUME NEW b \in DOMAIN batches,
             \/ Catch(b) \/ ResourceReady(b) \/ ExportTimeout(b)
             \/ ExporterResult(b) \/ ResourceFails(b)
      PROVE  MovesSpans
  <2>1. batches[b] \in Batch /\ Sound(batches[b])
    BY <1>1 DEF AllSound
  <2> USE DEF Sound, Settle, Batch
  <2>2. UNCHANGED <<queue, accepted, ended>>
    BY <1>7 DEF Catch, ResourceReady, ExportTimeout, ExporterResult, ResourceFails
  <2>3. \E y : y.spans = batches[b].spans /\ Sound(y) /\ batches' = [batches EXCEPT ![b] = y]
    <3>1. CASE Catch(b)
      BY <2>1, <3>1, EditKeepsSpans DEF Catch, Chained
    <3>2. CASE ResourceReady(b)
      <4>1. PICK phase \in {"exporting", "lost"} :
              batches' = [batches EXCEPT ![b] = Started(batches[b], phase)]
        BY <3>2 DEF ResourceReady
      <4>2. Started(batches[b], phase).spans = batches[b].spans
        BY <2>1, EditKeepsSpans
      <4>3. Sound(Started(batches[b], phase))
        BY <2>1, <3>2 DEF ResourceReady, ResourceReactionReady, Started
      <4> QED
        BY <4>1, <4>2, <4>3
    <3>3. CASE ExportTimeout(b)
      BY <2>1, <3>3, EditKeepsSpans DEF ExportTimeout, TimedOut
    <3>4. CASE ExporterResult(b)
      <4>1. PICK outcome \in {"resolved", "rejected"} :
              batches' = [batches EXCEPT ![b] = Reported(batches[b], outcome)]
        BY <3>4 DEF ExporterResult
      <4>2. Reported(batches[b], outcome).spans = batches[b].spans
        BY <2>1, EditKeepsSpans
      <4>3. Sound(Reported(batches[b], outcome))
        BY <2>1 DEF Reported
      <4> QED
        BY <4>1, <4>2, <4>3
    <3>5. CASE ResourceFails(b)
      BY <2>1, <3>5, EditKeepsSpans DEF ResourceFails, Failed
    <3> QED
      BY <1>7, <3>1, <3>2, <3>3, <3>4, <3>5
  <2> QED
    BY <2>2, <2>3, EditMoves
<1>8. CASE ForceFlushJoins \/ Shutdown \/ ShutdownFlushSettles
             \/ ExporterShutdownSettles \/ ResourceSettles \/ UNCHANGED vars
  BY <1>2, <1>8
     DEF ForceFlushJoins, Shutdown, ShutdownFlushSettles,
         ExporterShutdownSettles, ResourceSettles, vars
<1> QED
  BY <1>3, <1>4, <1>5, <1>6, <1>7, <1>8
     DEF Next, Application, Reaction, TimerTask, Environment

\* What a flush has taken stays taken.
LEMMA TookAllKept ==
  ASSUME SchedulerType, SchedulerType', HistoryType, NEW f \in Flush,
         TookAll(f), MovesSpans
  PROVE  TookAll(f)'
<1>1. /\ Len(batches) \in Nat /\ DOMAIN batches = 1..Len(batches)
      /\ Len(batches') \in Nat /\ DOMAIN batches' = 1..Len(batches')
      /\ accepted \in Seq(Spans) /\ Len(accepted) \in Nat
      /\ f.before \in Nat /\ f.last \in Nat
  BY DEF SchedulerType, HistoryType, Flush
<1>2. Len(batches) <= Len(batches')
  <2>1. Len(batches) \in 1..Len(batches) => Len(batches) \in 1..Len(batches')
    BY <1>1 DEF MovesSpans
  <2> QED
    BY <1>1, <2>1
<1>3. f.before <= Len(accepted) /\ f.last <= Len(batches)
  BY DEF TookAll
<1>4. Before(f)' = Before(f) /\ f.before <= Len(accepted')
  <2>1. CASE accepted' = accepted
    BY <1>3, <2>1 DEF Before
  <2>2. ASSUME NEW s \in Spans, accepted' = Append(accepted, s)
        PROVE  Before(f)' = Before(f) /\ f.before <= Len(accepted')
    <3>1. SubSeq(Append(accepted, s), 1, f.before) = SubSeq(accepted, 1, f.before)
      <4>1. 1 \in Nat /\ 1 >= 1
        OBVIOUS
      <4> QED
        BY <1>1, <1>3, <4>1, ToSetFacts
    <3>2. Len(accepted') = Len(accepted) + 1
      BY <1>1, <2>2, AppendProperties
    <3>3. f.before <= Len(accepted')
      BY <1>1, <1>3, <3>2
    <3>4. Before(f)' = Before(f)
      BY <2>2, <3>1 DEF Before
    <3> QED
      BY <3>3, <3>4
  <2> QED
    BY <2>1, <2>2 DEF MovesSpans
<1>5. Before(f) \cap Arrivals = {}
  BY DEF TookAll, Arrivals
<1>6. Before(f) \subseteq ended' /\ Before(f) \cap ToSet(queue') = {}
  BY <1>5 DEF TookAll, MovesSpans
<1>7. ASSUME NEW b \in DOMAIN batches', b > f.last
      PROVE  Before(f) \cap ToSet(batches'[b].spans) = {}
  <2>1. CASE b \in DOMAIN batches
    BY <1>7, <2>1 DEF TookAll, MovesSpans
  <2>2. CASE b \notin DOMAIN batches
    BY <1>5, <1>7, <2>2 DEF MovesSpans
  <2> QED
    BY <2>1, <2>2
<1>8. f.last <= Len(batches')
  BY <1>1, <1>2, <1>3
<1>9. Before(f)' \subseteq ended' /\ Before(f)' \cap ToSet(queue') = {}
  BY <1>4, <1>6
<1>10. \A b \in DOMAIN batches' : b > f.last =>
         Before(f)' \cap ToSet(batches'[b].spans) = {}
  BY <1>4, <1>7
<1> QED
  BY <1>4, <1>8, <1>9, <1>10 DEF TookAll

\* A flush that begins takes the whole queue.
LEMMA FlushTakesAll ==
  ASSUME SchedulerType, HistoryType, OfferedEnded, NEW kind, FlushAll(kind),
         UNCHANGED <<accepted, ended>>, NEW f,
         f = [kind   |-> kind,
              first  |-> Len(batches) + 1,
              last   |-> Len(batches) + BatchCount(queue),
              before |-> Len(accepted)]
  PROVE  flushes' = Append(flushes, f) /\ TookAll(f)'
<1>1. accepted \in Seq(Spans) /\ queue \in Seq(Spans) /\ batches \in Seq(Batch)
  BY DEF SchedulerType, HistoryType
<1>2. /\ queue' = <<>> /\ batches' \in Seq(Batch)
      /\ Len(batches') = Len(batches) + BatchCount(queue)
  BY <1>1, FlushAllMoves
<1>3. flushes' = Append(flushes, f)
  BY DEF FlushAll
<1>4. ToSet(queue') = {}
  BY <1>2 DEF ToSet
<1>5. Before(f)' \subseteq ended'
  <2>1. SubSeq(accepted, 1, Len(accepted)) = accepted
    BY <1>1, SubSeqFull
  <2>2. ToSet(accepted) \subseteq ended
    BY <1>1, ToSetFacts DEF OfferedEnded
  <2> QED
    BY <2>1, <2>2 DEF Before
<1>6. f.before <= Len(accepted') /\ f.last <= Len(batches')
  BY <1>1, <1>2, BatchCountFacts
<1>7. \A b \in DOMAIN batches' : ~(b > f.last)
  BY <1>2
<1>8. TookAll(f)'
  BY <1>4, <1>5, <1>6, <1>7 DEF TookAll
<1> QED
  BY <1>3, <1>8

LEMMA SentStep ==
  ASSUME SchedulerType, HistoryType, SchedulerType', OfferedEnded,
         SentInv, [Next]_vars
  PROVE  SentInv'
<1>1. MovesSpans
  BY StepMoves DEF SentInv
<1>2. AllSound(batches)'
  BY <1>1 DEF MovesSpans
<1>3. flushes \in Seq(Flush) /\ DOMAIN flushes = 1..Len(flushes) /\ Len(flushes) \in Nat
  BY DEF HistoryType
<1>4. ASSUME NEW i \in DOMAIN flushes, NEW f, f = flushes[i], f.kind # "joined"
      PROVE  TookAll(f)'
  <2>1. f \in Flush
    BY <1>3, <1>4
  <2>2. TookAll(f)
    BY <1>4 DEF SentInv
  <2> QED
    BY <1>1, <2>1, <2>2, TookAllKept
<1>5. CASE UNCHANGED flushes
  <2> SUFFICES ASSUME NEW i \in DOMAIN flushes', flushes'[i].kind # "joined"
               PROVE  TookAll(flushes[i])'
    BY <1>2 DEF SentInv
  <2>1. PICK f : f = flushes[i]
    OBVIOUS
  <2>2. TookAll(f)'
    BY <1>4, <1>5, <2>1
  <2> QED
    BY <1>5, <2>1, <2>2 DEF TookAll, Before
<1>6. ASSUME NEW g, flushes' = Append(flushes, g), g.kind = "joined" \/ TookAll(g)'
      PROVE  SentInv'
  <2> SUFFICES ASSUME NEW i \in DOMAIN flushes', flushes'[i].kind # "joined"
               PROVE  TookAll(flushes[i])'
    BY <1>2 DEF SentInv
  <2>1. PICK f : f = flushes'[i]
    OBVIOUS
  <2>2. (i \in DOMAIN flushes /\ f = flushes[i]) \/ f = g
    BY <1>3, <1>6, <2>1
  <2>3. TookAll(f)'
    BY <1>4, <1>6, <2>1, <2>2
  <2> QED
    BY <2>1, <2>3 DEF TookAll, Before
<1>7. CASE ForceFlush \/ ShutdownFlush
  <2>1. PICK kind : FlushAll(kind) /\ UNCHANGED <<accepted, ended>>
    BY <1>7 DEF ForceFlush, ShutdownFlush
  <2>2. PICK f : f = [kind   |-> kind,
                      first  |-> Len(batches) + 1,
                      last   |-> Len(batches) + BatchCount(queue),
                      before |-> Len(accepted)]
    OBVIOUS
  <2>3. flushes' = Append(flushes, f) /\ TookAll(f)'
    BY <2>1, <2>2, FlushTakesAll
  <2> QED
    BY <1>6, <2>3
<1>8. CASE ForceFlushJoins
  <2>1. PICK f : f = [kind |-> "joined", first |-> 1, last |-> 0, before |-> Len(accepted)]
    OBVIOUS
  <2>2. flushes' = Append(flushes, f) /\ f.kind = "joined"
    BY <1>8, <2>1 DEF ForceFlushJoins
  <2> QED
    BY <1>6, <2>2
<1> QED
  BY <1>5, <1>7, <1>8
     DEF Next, Application, Reaction, TimerTask, Environment, vars, OnEnd,
         Shutdown, ShutdownFlushSettles, Finally, Catch, ResourceReady, TimerFires,
         ExportTimeout, ExporterShutdownSettles, ResourceSettles, ExporterResult,
         ResourceFails

\* A forceFlush or the flush of shutdown that resolved has sent what was accepted
\* before it: only a batch cut earlier can still hold a span back for the
\* resource (BatchSpanProcessorBase.ts:147).
THEOREM ResolvedFlushesSentTheirBatches == Spec => []ResolvedFlushSentItsBatches
<1>1. Init => SentInv
  BY DEF Init, SentInv, AllSound
<1>2. TypeOK => SchedulerType /\ HistoryType
  BY DEF TypeOK, SchedulerType, HistoryType
<1>3. SchedulerType /\ HistoryType /\ SentInv => ResolvedFlushSentItsBatches
  <2> SUFFICES ASSUME SchedulerType, HistoryType, SentInv,
                      NEW i \in DOMAIN flushes,
                      flushes[i].kind # "joined", FlushResolved(flushes[i])
               PROVE  /\ Before(flushes[i]) \cap ToSet(queue) = {}
                      /\ \A b \in DOMAIN batches :
                           b >= flushes[i].first /\ batches[b].phase = "resource" =>
                             Before(flushes[i]) \cap ToSet(batches[b].spans) = {}
    BY DEF ResolvedFlushSentItsBatches, Before
  <2>1. TookAll(flushes[i])
    BY DEF SentInv
  <2>2. ASSUME NEW b \in DOMAIN batches, b >= flushes[i].first, batches[b].phase = "resource"
        PROVE  Before(flushes[i]) \cap ToSet(batches[b].spans) = {}
    <3>1. flushes[i].last \in Int /\ flushes[i].first \in Int /\ b \in Int
      <4>1. flushes[i] \in Flush
        BY DEF HistoryType
      <4>2. DOMAIN batches = 1..Len(batches) /\ Len(batches) \in Nat
        BY DEF SchedulerType
      <4> QED
        BY <4>1, <4>2 DEF Flush
    <3>2. batches[b].promise # "resolved"
      BY <2>2 DEF SentInv, AllSound, Sound
    <3>3. b > flushes[i].last
      BY <2>2, <3>1, <3>2 DEF FlushResolved
    <3> QED
      BY <2>1, <3>3 DEF TookAll
  <2> QED
    BY <2>1, <2>2 DEF TookAll
<1> QED
  BY <1>1, <1>2, <1>3, SentStep, TypeCorrect, OfferedIsEnded, PTL DEF Spec

-------------------------------------------------------------------------------
\* The counters

\* The spans of every batch, and those the exporter has reported.
Sizes(bs) == [b \in DOMAIN bs |-> Len(bs[b].spans)]

Tallies(bs) == [b \in DOMAIN bs |->
                  IF bs[b].phase = "reported" THEN Len(bs[b].spans) ELSE 0]

Tally(bs) == SumFunctionOnSet(Tallies(bs), DOMAIN bs)

CounterInv ==
  /\ metrics.finished = Tally(batches)
  /\ IsFiniteSet(dropped)
  /\ dropped \subseteq ended
  /\ metrics.dropped = Cardinality(dropped)

LEMMA TallyFacts ==
  ASSUME NEW bs \in Seq(Batch)
  PROVE  /\ IsFiniteSet(DOMAIN bs)
         /\ \A b \in DOMAIN bs : Sizes(bs)[b] \in Nat /\ Tallies(bs)[b] \in Nat
<1>1. DOMAIN bs = 1..Len(bs) /\ Len(bs) \in Nat
  BY LenProperties
<1>2. IsFiniteSet(1..Len(bs))
  BY <1>1, FS_Interval
<1>3. \A b \in DOMAIN bs : Len(bs[b].spans) \in Nat
  <2> TAKE b \in DOMAIN bs
  <2>1. bs[b].spans \in Seq(Spans)
    <3>1. bs[b] \in Batch
      BY <1>1, ElementOfSeq
    <3> QED
      BY <3>1 DEF Batch
  <2> QED
    BY <2>1, LenProperties
<1> QED
  BY <1>1, <1>2, <1>3 DEF Sizes, Tallies

\* The batches hold as many spans as were handed over.
LEMMA HandedLength ==
  ASSUME NEW bs \in Seq(Batch)
  PROVE  Len(Handed(bs)) = SumFunctionOnSet(Sizes(bs), DOMAIN bs)
<1>1. SpansOf(bs) \in Seq(Seq(Spans)) /\ DOMAIN SpansOf(bs) = DOMAIN bs
  BY HandedType DEF SpansOf
<1>2. DOMAIN SpansOf(bs) = 1..Len(SpansOf(bs))
  BY <1>1, LenProperties
<1>3. \A b \in 1..Len(SpansOf(bs)) : Sizes(bs)[b] = Len(SpansOf(bs)[b])
  BY <1>1, <1>2 DEF Sizes, SpansOf
<1>4. Len(FlattenSeq(SpansOf(bs))) = SumFunctionOnSet(Sizes(bs), 1..Len(SpansOf(bs)))
  BY <1>1, <1>3, FlattenLength
<1> QED
  BY <1>1, <1>2, <1>4 DEF Handed

\* New batches do not count until they are reported.
LEMMA TallyKept ==
  ASSUME NEW bs \in Seq(Batch), NEW cs \in Seq(Batch),
         \A b \in DOMAIN bs :
           /\ b \in DOMAIN cs
           /\ cs[b].spans = bs[b].spans
           /\ cs[b].phase = "reported" <=> bs[b].phase = "reported",
         \A b \in DOMAIN cs : b \notin DOMAIN bs => cs[b].phase # "reported"
  PROVE  Tally(cs) = Tally(bs)
<1>1. IsFiniteSet(DOMAIN cs) /\ \A b \in DOMAIN cs : Tallies(cs)[b] \in Int
  BY TallyFacts
<1>2. DOMAIN bs \in SUBSET DOMAIN cs
  OBVIOUS
<1>3. \A b \in DOMAIN cs \ DOMAIN bs : Tallies(cs)[b] = 0
  BY DEF Tallies
<1>4. \A b \in DOMAIN bs : Tallies(bs)[b] = Tallies(cs)[b]
  BY DEF Tallies
<1> QED
  BY <1>1, <1>2, <1>3, <1>4, SumExtended DEF Tally

\* A report counts the batch it is for.
LEMMA TallyReported ==
  ASSUME NEW bs \in Seq(Batch), NEW b \in DOMAIN bs, NEW y \in Batch,
         bs[b].phase # "reported", y.phase = "reported", y.spans = bs[b].spans
  PROVE  Tally([bs EXCEPT ![b] = y]) = Tally(bs) + Len(bs[b].spans)
<1> DEFINE cs == [bs EXCEPT ![b] = y]
<1>1. /\ cs \in Seq(Batch) /\ DOMAIN cs = DOMAIN bs /\ cs[b] = y
      /\ \A c \in DOMAIN bs \ {b} : cs[c] = bs[c]
  BY ExceptSeq
<1> HIDE DEF cs
<1>2. /\ IsFiniteSet(DOMAIN bs)
      /\ \A c \in DOMAIN bs : Tallies(bs)[c] \in Int
  BY TallyFacts
<1>3. Tallies(cs)[b] \in Int
  BY <1>1, TallyFacts
<1>4. Tallies(bs)[b] = 0 /\ Tallies(cs)[b] = Len(bs[b].spans)
  BY <1>1 DEF Tallies
<1>5. \A c \in DOMAIN bs \ {b} : Tallies(cs)[c] = Tallies(bs)[c]
  BY <1>1 DEF Tallies
<1>6. SumFunctionOnSet(Tallies(cs), DOMAIN bs)
        = SumFunctionOnSet(Tallies(bs), DOMAIN bs) + Tallies(cs)[b] - Tallies(bs)[b]
  BY <1>2, <1>3, <1>5, SumWithChange
<1>7. SumFunctionOnSet(Tallies(bs), DOMAIN bs) \in Int
  BY <1>2, SumIsInt
<1>8. SumFunctionOnSet(Tallies(cs), DOMAIN bs)
        = SumFunctionOnSet(Tallies(bs), DOMAIN bs) + Len(bs[b].spans)
  BY <1>3, <1>4, <1>6, <1>7
<1> QED
  BY <1>1, <1>8 DEF Tally, cs

\* A step other than a report neither counts a span nor reports a batch.
LEMMA FinallyTally ==
  ASSUME SchedulerType, SchedulerType', NEW b \in DOMAIN batches, Finally(b)
  PROVE  Tally(batches') = Tally(batches)
<1> DEFINE next == IF batches[b].promise = "rejected" THEN "catch" ELSE "none"
           y == Chained(batches[b], next)
           bs == [batches EXCEPT ![b] = y]
<1>1. queue \in Seq(Spans) /\ batches \in Seq(Batch) /\ batches[b] \in Batch
  BY DEF SchedulerType
<1>2. y \in Batch /\ y.spans = batches[b].spans /\ y.phase = batches[b].phase
  BY <1>1, EditFacts, EditKeepsSpans, PhaseFacts
<1> HIDE DEF y
<1>3. bs \in Seq(Batch) /\ DOMAIN bs = DOMAIN batches
  BY <1>1, <1>2
<1>4. \A c \in DOMAIN batches :
        bs[c].spans = batches[c].spans /\ bs[c].phase = batches[c].phase
  BY <1>2
<1> HIDE DEF bs
<1>5. /\ \A c \in DOMAIN bs : c \in DOMAIN batches' /\ batches'[c] = bs[c]
      /\ \A c \in DOMAIN batches' : c \notin DOMAIN bs => batches'[c].phase # "reported"
  <2>1. CASE MaybeStartTimer(queue, bs, FALSE)
    BY <1>1, <1>3, <2>1, MaybeStartTimerMoves
  <2>2. CASE batches' = bs
    BY <2>2
  <2> QED
    BY <2>1, <2>2 DEF Finally, bs, y
<1>6. batches' \in Seq(Batch)
  BY DEF SchedulerType
<1>7. /\ \A c \in DOMAIN batches :
           /\ c \in DOMAIN batches'
           /\ batches'[c].spans = batches[c].spans
           /\ batches'[c].phase = "reported" <=> batches[c].phase = "reported"
      /\ \A c \in DOMAIN batches' :
           c \notin DOMAIN batches => batches'[c].phase # "reported"
  BY <1>3, <1>4, <1>5
<1> QED
  BY <1>1, <1>6, <1>7, TallyKept

LEMMA TallyStep ==
  SchedulerType /\ SchedulerType' /\ HistoryType /\ [Next]_vars =>
    \/ Tally(batches') = Tally(batches) /\ metrics'.finished = metrics.finished
    \/ \E n \in Nat : /\ Tally(batches') = Tally(batches) + n
                      /\ metrics'.finished = metrics.finished + n
<1> DEFINE Quiet == Tally(batches') = Tally(batches) /\ metrics'.finished = metrics.finished
           Counts == \E n \in Nat : /\ Tally(batches') = Tally(batches) + n
                                    /\ metrics'.finished = metrics.finished + n
<1> SUFFICES ASSUME SchedulerType, SchedulerType', HistoryType, [Next]_vars
             PROVE  Quiet \/ Counts
  OBVIOUS
<1>1. queue \in Seq(Spans) /\ batches \in Seq(Batch) /\ batches' \in Seq(Batch)
  BY DEF SchedulerType
<1>2. ASSUME \A b \in DOMAIN batches : b \in DOMAIN batches' /\ batches'[b] = batches[b],
             \A b \in DOMAIN batches' :
               b \notin DOMAIN batches => batches'[b].phase # "reported"
      PROVE  Tally(batches') = Tally(batches)
  BY <1>1, <1>2, TallyKept
<1>3. ASSUME NEW s \in Spans, OnEnd(s) PROVE Quiet
  <2>1. metrics'.finished = metrics.finished
    BY <1>3 DEF OnEnd, IgnoreSpan, DropSpan, AddSpan, HistoryType
  <2>2. CASE AddSpan(s)
    <3>1. Append(queue, s) \in Seq(Spans)
      BY <1>1, AppendProperties
    <3>2. MaybeStartTimer(Append(queue, s), batches, isExporting)
      BY <2>2 DEF AddSpan
    <3> QED
      BY <1>1, <1>2, <2>1, <3>1, <3>2, MaybeStartTimerMoves
  <2>3. CASE UNCHANGED batches
    BY <2>1, <2>3
  <2> QED
    BY <1>3, <2>2, <2>3 DEF OnEnd, IgnoreSpan, DropSpan
<1>4. CASE ForceFlush \/ ShutdownFlush
  <2>1. (FlushAll("forceFlush") \/ FlushAll("shutdown")) /\ UNCHANGED metrics
    BY <1>4 DEF ForceFlush, ShutdownFlush
  <2> QED
    BY <1>1, <1>2, <2>1, FlushAllMoves
<1>5. CASE TimerFires
  <2>1. FlushScheduled(queue, batches) /\ UNCHANGED metrics
    BY <1>5 DEF TimerFires
  <2> QED
    BY <1>1, <1>2, <2>1, FlushScheduledMoves
<1>6. ASSUME NEW b \in DOMAIN batches, Finally(b) PROVE Quiet
  BY <1>6, FinallyTally DEF Finally
<1>7. ASSUME NEW b \in DOMAIN batches,
             Catch(b) \/ ResourceReady(b) \/ ExportTimeout(b) \/ ResourceFails(b)
      PROVE  Quiet
  <2>1. batches[b] \in Batch
    BY <1>1
  <2>2. \E y : /\ y.spans = batches[b].spans
               /\ y.phase = "reported" <=> batches[b].phase = "reported"
               /\ batches' = [batches EXCEPT ![b] = y]
    <3>1. CASE Catch(b)
      BY <2>1, <3>1, EditKeepsSpans, PhaseFacts DEF Catch
    <3>2. CASE ResourceReady(b)
      <4>1. PICK phase \in {"exporting", "lost"} :
              batches' = [batches EXCEPT ![b] = Started(batches[b], phase)]
        BY <3>2 DEF ResourceReady
      <4>2. /\ Started(batches[b], phase).spans = batches[b].spans
            /\ Started(batches[b], phase).phase = phase
        BY <2>1, EditKeepsSpans, PhaseFacts
      <4>3. batches[b].phase = "resource"
        BY <3>2 DEF ResourceReady, ResourceReactionReady
      <4> QED
        BY <4>1, <4>2, <4>3
    <3>3. CASE ExportTimeout(b)
      BY <2>1, <3>3, EditKeepsSpans, PhaseFacts DEF ExportTimeout
    <3>4. CASE ResourceFails(b)
      BY <2>1, <3>4, EditKeepsSpans, PhaseFacts DEF ResourceFails
    <3> QED
      BY <1>7, <3>1, <3>2, <3>3, <3>4
  <2>3. UNCHANGED metrics
    BY <1>7 DEF Catch, ResourceReady, ExportTimeout, ResourceFails
  <2>4. /\ DOMAIN batches' = DOMAIN batches
        /\ \A c \in DOMAIN batches :
             /\ batches'[c].spans = batches[c].spans
             /\ batches'[c].phase = "reported" <=> batches[c].phase = "reported"
    BY <2>2
  <2> QED
    BY <1>1, <2>3, <2>4, TallyKept
<1>8. ASSUME NEW b \in DOMAIN batches, ExporterResult(b) PROVE Counts
  <2>1. PICK outcome \in {"resolved", "rejected"} :
          batches' = [batches EXCEPT ![b] = Reported(batches[b], outcome)]
    BY <1>8 DEF ExporterResult
  <2>2. batches[b] \in Batch /\ batches[b].phase = "exporting"
    BY <1>1, <1>8 DEF ExporterResult
  <2>3. Reported(batches[b], outcome) \in Batch
    BY <2>2, EditFacts
  <2>4. /\ Reported(batches[b], outcome).spans = batches[b].spans
        /\ Reported(batches[b], outcome).phase = "reported"
    BY <2>2, EditKeepsSpans DEF Reported, Batch
  <2>5. Tally(batches') = Tally(batches) + Len(batches[b].spans)
    BY <1>1, <2>1, <2>2, <2>3, <2>4, TallyReported
  <2>6. Len(batches[b].spans) \in Nat
    BY <2>2, LenProperties DEF Batch
  <2>7. metrics'.finished = metrics.finished + Len(batches[b].spans)
    BY <1>8 DEF ExporterResult, HistoryType
  <2> QED
    BY <2>5, <2>6, <2>7
<1>9. CASE ForceFlushJoins \/ Shutdown \/ ShutdownFlushSettles
             \/ ExporterShutdownSettles \/ ResourceSettles \/ UNCHANGED vars
  BY <1>9 DEF ForceFlushJoins, Shutdown, ShutdownFlushSettles,
              ExporterShutdownSettles, ResourceSettles, vars
<1> QED
  BY <1>3, <1>4, <1>5, <1>6, <1>7, <1>8, <1>9
     DEF Next, Application, Reaction, TimerTask, Environment

\* Only a span at its first onEnd is dropped, so none is counted twice.
LEMMA DroppedStep ==
  ASSUME HistoryType, IsFiniteSet(dropped), dropped \subseteq ended,
         metrics.dropped = Cardinality(dropped), [Next]_vars
  PROVE  /\ IsFiniteSet(dropped')
         /\ dropped' \subseteq ended'
         /\ metrics'.dropped = Cardinality(dropped')
<1>1. CASE UNCHANGED dropped /\ metrics'.dropped = metrics.dropped /\ ended \subseteq ended'
  BY <1>1
<1>2. ASSUME NEW s \in Spans, OnEnd(s), DropSpan(s)
      PROVE  /\ IsFiniteSet(dropped')
             /\ dropped' \subseteq ended'
             /\ metrics'.dropped = Cardinality(dropped')
  <2>1. dropped' = dropped \cup {s} /\ ended' = ended \cup {s} /\ s \notin dropped
    BY <1>2 DEF OnEnd, DropSpan
  <2>2. IsFiniteSet(dropped') /\ Cardinality(dropped') = Cardinality(dropped) + 1
    BY <2>1, FS_AddElement
  <2>3. metrics'.dropped = metrics.dropped + 1
    BY <1>2 DEF DropSpan, HistoryType
  <2> QED
    BY <2>1, <2>2, <2>3
<1>3. ASSUME NEW s \in Spans, OnEnd(s), ~DropSpan(s)
      PROVE  UNCHANGED dropped /\ metrics'.dropped = metrics.dropped /\ ended \subseteq ended'
  BY <1>3 DEF OnEnd, IgnoreSpan, AddSpan
<1>4. ASSUME NEW b \in DOMAIN batches, ExporterResult(b)
      PROVE  UNCHANGED <<dropped, ended>> /\ metrics'.dropped = metrics.dropped
  BY <1>4 DEF ExporterResult, HistoryType
<1> QED
  BY <1>1, <1>2, <1>3, <1>4
     DEF Next, Application, Reaction, TimerTask, Environment, vars, ForceFlush,
         ForceFlushJoins, Shutdown, ShutdownFlush, ShutdownFlushSettles, Finally,
         Catch, ResourceReady, TimerFires, ExportTimeout, ExporterShutdownSettles,
         ResourceSettles, ResourceFails

\* What the ledger says about the counters.
LEMMA CountersFollow ==
  ASSUME SchedulerType, HistoryType, ExactlyOnceInOrder, CounterInv
  PROVE  CountersBalance
<1> DEFINE sizes == SumFunctionOnSet(Sizes(batches), DOMAIN batches)
           rest == [b \in DOMAIN batches |-> Sizes(batches)[b] - Tallies(batches)[b]]
           open == SumFunctionOnSet(rest, DOMAIN batches)
<1>1. batches \in Seq(Batch) /\ queue \in Seq(Spans) /\ accepted \in Seq(Spans)
  BY DEF SchedulerType, HistoryType
<1>2. sizes + Len(queue) = Len(accepted)
  <2>1. Handed(batches) \o queue = accepted /\ Handed(batches) \in Seq(Spans)
    BY <1>1, HandedType DEF ExactlyOnceInOrder, Handed, SpansOf
  <2>2. Len(accepted) = Len(Handed(batches)) + Len(queue)
    BY <1>1, <2>1, ConcatProperties
  <2> QED
    BY <1>1, <2>2, HandedLength
<1>3. /\ IsFiniteSet(DOMAIN batches)
      /\ \A b \in DOMAIN batches : Sizes(batches)[b] \in Nat /\ Tallies(batches)[b] \in Nat
  BY <1>1, TallyFacts
<1>4. \A b \in DOMAIN batches :
        rest[b] \in Nat /\ Sizes(batches)[b] = Tallies(batches)[b] + rest[b]
  <2> TAKE b \in DOMAIN batches
  <2>1. Tallies(batches)[b] \in {0, Sizes(batches)[b]}
    BY DEF Sizes, Tallies
  <2> QED
    BY <1>3, <2>1
<1> HIDE DEF rest
<1>5. sizes = Tally(batches) + open
  <2>1. \A b \in DOMAIN batches :
          /\ Tallies(batches)[b] \in Int /\ rest[b] \in Int
          /\ Sizes(batches)[b] = Tallies(batches)[b] + rest[b]
    BY <1>3, <1>4
  <2> QED
    BY <1>3, <2>1, SumOfSums DEF Tally
<1>6. open \in Nat
  BY <1>3, <1>4, SumIsNat
<1>7. ASSUME \A b \in DOMAIN batches : batches[b].phase = "reported"
      PROVE  sizes = Tally(batches)
  <2>1. \A b \in DOMAIN batches : Sizes(batches)[b] = Tallies(batches)[b] /\ Tallies(batches)[b] \in Int
    BY <1>3, <1>7 DEF Sizes, Tallies
  <2> QED
    BY <1>3, <2>1, SumOfEqual DEF Tally
<1>8. Tally(batches) \in Nat /\ Len(queue) \in Nat
  BY <1>1 DEF CounterInv, HistoryType
<1> HIDE DEF sizes, open
<1>9. metrics.finished + Len(queue) <= Len(accepted)
  BY <1>2, <1>5, <1>6, <1>8 DEF CounterInv
<1>10. (\A b \in DOMAIN batches : batches[b].phase = "reported")
         => metrics.finished + Len(queue) = Len(accepted)
  BY <1>2, <1>7 DEF CounterInv
<1> QED
  BY <1>9, <1>10 DEF CountersBalance, CounterInv

\* The counters account for every sampled span, whatever times out and whenever
\* the exporter reports (SpanProcessorMetrics, BatchSpanProcessorBase.ts:214).
THEOREM CountersAgree == Spec => []CountersBalance
<1>1. Init => CounterInv
  <2> SUFFICES ASSUME Init PROVE CounterInv
    OBVIOUS
  <2>1. DOMAIN batches = {}
    BY DEF Init
  <2>2. Tally(batches) = 0
    BY <2>1, SumOfEmpty DEF Tally
  <2> QED
    BY <2>2, FS_EmptySet DEF Init, CounterInv
<1>2. TypeOK => SchedulerType /\ HistoryType
  BY DEF TypeOK, SchedulerType, HistoryType
<1>3. SchedulerType /\ SchedulerType' /\ HistoryType /\ CounterInv /\ [Next]_vars => CounterInv'
  <2> SUFFICES ASSUME SchedulerType, SchedulerType', HistoryType, CounterInv, [Next]_vars
               PROVE  CounterInv'
    OBVIOUS
  <2>1. metrics'.finished = Tally(batches')
    BY TallyStep DEF CounterInv
  <2> QED
    BY <2>1, DroppedStep DEF CounterInv
<1> QED
  BY <1>1, <1>2, <1>3, CountersFollow, SpansGoOutOnceInOrder, TypeCorrect, PTL DEF Spec
===============================================================================
