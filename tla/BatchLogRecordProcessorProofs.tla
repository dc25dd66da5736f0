--------------------- MODULE BatchLogRecordProcessorProofs ---------------------
(* Theorems about BatchLogRecordProcessor, for any records and any sizes. *)
EXTENDS BatchLogRecordProcessor, FoldProofs

-------------------------------------------------------------------------------
\* Batches

LEMMA BatchSizeFacts ==
  BatchSize \in Nat /\ BatchSize >= 1 /\ BatchSize <= MaxQueueSize
BY SizeAssumption DEF BatchSize

LEMMA BatchEndFacts ==
  ASSUME NEW q \in Seq(Records)
  PROVE  BatchEnd(q) \in 0..Len(q)
BY BatchSizeFacts DEF BatchEnd

LEMMA BatchType ==
  ASSUME NEW q \in Seq(Records)
  PROVE  Batch(q) \in Seq(Records)
<1> DEFINE e == BatchEnd(q)
<1>1. e \in 0..Len(q)
  BY BatchEndFacts
<1>2. \A j \in 1..e : q[j] \in Records
  BY <1>1, ElementOfSeq
<1> HIDE DEF e
<1> QED
  BY <1>1, <1>2, SubSeqProperties DEF Batch, e

\* What a batch leaves is a sequence of records, no longer than before.
LEMMA RestFacts ==
  ASSUME NEW q \in Seq(Records)
  PROVE  Rest(q) \in Seq(Records) /\ Len(Rest(q)) <= Len(q)
<1> DEFINE e == BatchEnd(q)
<1>1. e \in 0..Len(q) /\ Len(q) \in Nat
  BY BatchEndFacts
<1>2. \A j \in (e + 1)..Len(q) : q[j] \in Records
  BY <1>1, ElementOfSeq
<1> HIDE DEF e
<1>3. /\ SubSeq(q, e + 1, Len(q)) \in Seq(Records)
      /\ Len(SubSeq(q, e + 1, Len(q))) = IF e + 1 <= Len(q) THEN Len(q) - (e + 1) + 1 ELSE 0
  BY <1>1, <1>2, SubSeqProperties
<1>4. Len(SubSeq(q, e + 1, Len(q))) <= Len(q)
  BY <1>1, <1>3
<1> QED
  BY <1>3, <1>4 DEF Rest, e

LEMMA NewOpFacts ==
  ASSUME NEW q \in Seq(Records), NEW watched \in BOOLEAN
  PROVE  /\ NewOp(Batch(q), watched) \in Op
         /\ NewOp(Batch(q), watched).watched = watched
BY BatchType DEF NewOp, Op

\* What happens to an operation leaves it an operation, and never takes its
\* completion back.
LEMMA EditFacts ==
  ASSUME NEW x \in Op
  PROVE  /\ \A y \in {Exporting(x), Lost(x), Reported(x), TimedOut(x)} :
              y \in Op /\ y.watched = x.watched /\ (x.completed => y.completed)
         /\ Handled(x) \in Op /\ ~Handled(x).watched
         /\ Handled(x).completed = x.completed
<1>1. Exporting(x) \in Op /\ Exporting(x).watched = x.watched
      /\ Exporting(x).completed = x.completed
  BY DEF Exporting, Op
<1>2. Lost(x) \in Op /\ Lost(x).watched = x.watched /\ Lost(x).completed
  BY DEF Lost, Op
<1>3. Reported(x) \in Op /\ Reported(x).watched = x.watched /\ Reported(x).completed
  BY DEF Reported, Op
<1>4. TimedOut(x) \in Op /\ TimedOut(x).watched = x.watched /\ TimedOut(x).completed
  BY DEF TimedOut, Op
<1>5. Handled(x) \in Op /\ ~Handled(x).watched /\ Handled(x).completed = x.completed
  BY DEF Handled, Op
<1> QED
  BY <1>1, <1>2, <1>3, <1>4, <1>5

-------------------------------------------------------------------------------
\* The invariant of the scheduler

\* Facts about a list of operations os whose current one is n.
WatchedIs(os, n) == \A o \in DOMAIN os : os[o].watched => o = n
PendingIs(os, n) == \A o \in DOMAIN os : ~os[o].completed => o = n

\* What _maybeStartTimer relies on and keeps up.  A rejected exporter.forceFlush()
\* ends two of its facts for good.
CoreInv ==
  /\ buffer \in Seq(Records) /\ Len(buffer) <= MaxQueueSize
  /\ timer \in BOOLEAN
  /\ flushing \in BOOLEAN
  /\ ops \in Seq(Op)
  /\ currentExport \in 0..Len(ops)
  /\ TimerMeansWork
  /\ WatchedIs(ops, currentExport)
  /\ flushRejected \/ PendingIs(ops, currentExport)
  /\ currentExport # 0 /\ ~flushing => ops[currentExport].watched
  /\ buffer # <<>> /\ ~ShutdownCalled => timer \/ currentExport # 0 \/ flushing

\* What _flushAll knows about _currentExport at each of its awaits.
FlushInv ==
  /\ flush \in Flush
  /\ Len(flush.toFlush) <= MaxQueueSize
  /\ flush.pc # "idle" => flushing /\ flush.op \in DOMAIN ops
  /\ flush.pc \in {"exporterFlush", "inFlight"} => currentExport \in {0, flush.op}
  /\ flush.pc \in {"scheduled", "speedUp", "completed"} =>
       currentExport = flush.op /\ ~ops[flush.op].watched
  /\ flushRejected \/ FlushingMeansFlush

SchedulerInv == CoreInv /\ FlushInv

\* An operation from the timer is the current one and watched.
LEMMA ExportOneBatchFacts ==
  ASSUME NEW q \in Seq(Records), Len(q) <= MaxQueueSize, NEW os \in Seq(Op),
         WatchedIs(os, 0), flushRejected' \/ PendingIs(os, 0), flushing' \in BOOLEAN,
         ExportOneBatch(q, os)
  PROVE  CoreInv'
<1> DEFINE new == NewOp(Batch(q), TRUE)
           n == Len(os) + 1
<1>1. new \in Op /\ new.watched
  BY NewOpFacts
<1> HIDE DEF new
<1>2. /\ ops' = Append(os, new) /\ currentExport' = n /\ ~timer' /\ timer' \in BOOLEAN
      /\ buffer' = Rest(q)
  BY DEF ExportOneBatch, new
<1>3. /\ ops' \in Seq(Op) /\ Len(ops') = n /\ ops'[n] = new
      /\ \A o \in DOMAIN os : ops'[o] = os[o]
      /\ DOMAIN ops' = DOMAIN os \cup {n}
      /\ n \in Nat /\ n # 0
  BY <1>1, <1>2, AppendProperties
<1> HIDE DEF n
<1>4. WatchedIs(ops', n) /\ (flushRejected' \/ PendingIs(ops', n))
  <2>1. \A o \in DOMAIN os : o # 0
    OBVIOUS
  <2> QED BY <1>3, <2>1 DEF WatchedIs, PendingIs
<1>5. buffer' \in Seq(Records) /\ Len(buffer') <= MaxQueueSize
  <2>1. Len(Rest(q)) \in Nat /\ Len(q) \in Nat /\ MaxQueueSize \in Nat
    BY RestFacts, SizeAssumption
  <2> QED BY <1>2, <2>1, RestFacts
<1> QED
  BY <1>1, <1>2, <1>3, <1>4, <1>5 DEF CoreInv, TimerMeansWork

\* _maybeStartTimer establishes CoreInv from any arguments that agree with each
\* other and with the timer, and changes nothing when it must wait.
LEMMA MaybeStartTimerFacts ==
  ASSUME NEW q \in Seq(Records), Len(q) <= MaxQueueSize, NEW os \in Seq(Op),
         NEW current \in 0..Len(os), NEW busy \in BOOLEAN,
         WatchedIs(os, current), flushRejected' \/ PendingIs(os, current),
         current # 0 /\ ~busy => os[current].watched,
         timer \in BOOLEAN,
         timer => q # <<>> /\ current = 0 /\ ~busy /\ ~ShutdownCalled,
         MaybeStartTimer(q, os, current, busy),
         flushing' = busy, shut' = shut
  PROVE  /\ CoreInv'
         /\ busy \/ current # 0 => ops' = os /\ currentExport' = current
<1>1. CASE ~MustWait(q, current, busy) /\ ExportOneBatch(q, os)
  <2>1. current = 0 /\ ~busy
    BY <1>1 DEF MustWait
  <2>2. CoreInv'
    BY <1>1, <2>1, ExportOneBatchFacts
  <2> QED BY <2>1, <2>2
<1>2. CASE /\ timer' = (timer \/ ~MustWait(q, current, busy))
           /\ buffer' = q /\ ops' = os /\ currentExport' = current
  <2>1. timer' => q # <<>> /\ current = 0 /\ ~busy /\ ~ShutdownCalled
    BY <1>2 DEF MustWait
  <2>2. q # <<>> /\ ~ShutdownCalled => timer' \/ current # 0 \/ busy
    BY <1>2 DEF MustWait
  <2>3. ShutdownCalled' = ShutdownCalled
    BY DEF ShutdownCalled
  <2>4. timer' \in BOOLEAN
    BY <1>2
  <2> QED
    BY <1>2, <2>1, <2>2, <2>3, <2>4 DEF CoreInv, TimerMeansWork
<1> QED
  BY <1>1, <1>2 DEF MaybeStartTimer

-------------------------------------------------------------------------------
\* The actions

LEMMA OnEmitScheduler ==
  ASSUME SchedulerInv, NEW r \in Records, OnEmit(r)
  PROVE  SchedulerInv'
<1>1. shut' = shut /\ flush' = flush /\ flushRejected' = flushRejected
  BY DEF OnEmit
<1>2. CASE UNCHANGED <<buffer, timer, currentExport, flushing, ops>>
  BY <1>1, <1>2
     DEF SchedulerInv, CoreInv, FlushInv, TimerMeansWork, FlushingMeansFlush,
         ShutdownCalled, WatchedIs, PendingIs
<1>3. CASE AddRecord(r)
  <2> DEFINE q == Append(buffer, r)
  <2>1. q \in Seq(Records) /\ Len(q) = Len(buffer) + 1 /\ q # <<>>
    BY AppendProperties DEF SchedulerInv, CoreInv
  <2>2. Len(q) <= MaxQueueSize
    BY <1>3, <2>1, SizeAssumption DEF AddRecord, BufferFull, SchedulerInv, CoreInv
  <2>3. MaybeStartTimer(q, ops, currentExport, flushing) /\ flushing' = flushing
    BY <1>3 DEF AddRecord
  <2> HIDE DEF q
  <2>4. CoreInv'
    BY <1>1, <2>1, <2>2, <2>3, MaybeStartTimerFacts
       DEF SchedulerInv, CoreInv, TimerMeansWork
  <2>5. flushing => ops' = ops /\ currentExport' = currentExport
    BY <1>1, <2>1, <2>2, <2>3, MaybeStartTimerFacts
       DEF SchedulerInv, CoreInv, TimerMeansWork
  <2>6. FlushInv'
    BY <1>1, <2>3, <2>5 DEF SchedulerInv, FlushInv, FlushingMeansFlush
  <2> QED BY <2>4, <2>6 DEF SchedulerInv
<1>4. IgnoreRecord \/ DropRecord(r) =>
        UNCHANGED <<buffer, timer, currentExport, flushing, ops>>
  BY DEF IgnoreRecord, DropRecord, scheduler
<1> QED
  BY <1>2, <1>3, <1>4 DEF OnEmit

\* A flush starts an operation when none is pending or watched.
LEMMA StartBatchFacts ==
  ASSUME NEW records \in Seq(Records), Len(records) <= MaxQueueSize,
         NEW call \in Nat, ops \in Seq(Op),
         WatchedIs(ops, 0), flushRejected' \/ PendingIs(ops, 0),
         StartBatch(records, call), flushing' = TRUE, ~timer', timer' \in BOOLEAN,
         buffer' \in Seq(Records), Len(buffer') <= MaxQueueSize
  PROVE  SchedulerInv'
<1> DEFINE new == NewOp(Batch(records), FALSE)
           n == Len(ops) + 1
<1>1. new \in Op /\ ~new.watched
  BY NewOpFacts
<1> HIDE DEF new
<1>2. /\ ops' = Append(ops, new) /\ currentExport' = n
      /\ flush' = [pc |-> "scheduled", toFlush |-> Rest(records), op |-> n, call |-> call]
  BY DEF StartBatch, new
<1>3. /\ ops' \in Seq(Op) /\ Len(ops') = n /\ ops'[n] = new
      /\ \A o \in DOMAIN ops : ops'[o] = ops[o]
      /\ DOMAIN ops' = DOMAIN ops \cup {n}
      /\ n \in Nat /\ n # 0
  BY <1>1, <1>2, AppendProperties
<1> HIDE DEF n
<1>4. WatchedIs(ops', n) /\ (flushRejected' \/ PendingIs(ops', n))
  <2>1. \A o \in DOMAIN ops : o # 0
    OBVIOUS
  <2> QED BY <1>1, <1>3, <2>1 DEF WatchedIs, PendingIs
<1>5. CoreInv'
  BY <1>2, <1>3, <1>4 DEF CoreInv, TimerMeansWork
<1>6. Rest(records) \in Seq(Records) /\ Len(Rest(records)) <= MaxQueueSize
  <2>1. Len(Rest(records)) \in Nat /\ Len(records) \in Nat /\ MaxQueueSize \in Nat
    BY RestFacts, SizeAssumption
  <2> QED BY <2>1, RestFacts
<1>7. FlushInv'
  BY <1>1, <1>2, <1>3, <1>6 DEF FlushInv, Flush, FlushingMeansFlush
<1> QED
  BY <1>5, <1>7 DEF SchedulerInv

\* With no current export nothing is pending or watched.
LEMMA NothingCurrent ==
  ASSUME CoreInv, currentExport = 0
  PROVE  WatchedIs(ops, 0) /\ (flushRejected \/ PendingIs(ops, 0))
BY DEF CoreInv

LEMMA FlushAllScheduler ==
  ASSUME SchedulerInv, NEW kind, FlushAll(kind), calls \in Seq(Call),
         shut' = shut \/ shut' # "no", flushRejected' = flushRejected
  PROVE  SchedulerInv'
<1> USE DEF SchedulerInv
<1>1. CASE SkipFlush(kind)
  <2>1. UNCHANGED <<buffer, timer, currentExport, flushing, ops, flush>> /\ flushing
    BY <1>1 DEF SkipFlush, scheduler
  <2>2. ~timer
    BY <2>1 DEF CoreInv, TimerMeansWork
  <2> QED
    BY <2>1, <2>2 DEF CoreInv, FlushInv, TimerMeansWork, FlushingMeansFlush,
       WatchedIs, PendingIs
<1>2. CASE FlushNothing(kind)
  BY <1>2 DEF FlushNothing, CoreInv, FlushInv, TimerMeansWork,
     FlushingMeansFlush, WatchedIs, PendingIs
<1>3. CASE FlushBuffer(kind)
  <2>1. /\ buffer \in Seq(Records) /\ Len(buffer) <= MaxQueueSize /\ ops \in Seq(Op)
        /\ WatchedIs(ops, 0) /\ (flushRejected' \/ PendingIs(ops, 0))
    BY <1>3, NothingCurrent DEF FlushBuffer, CoreInv
  <2>2. /\ StartBatch(buffer, Len(calls) + 1)
        /\ flushing' = TRUE /\ timer' = FALSE /\ buffer' = <<>>
    BY <1>3 DEF FlushBuffer
  <2>3. Len(calls) + 1 \in Nat
    OBVIOUS
  <2>4. buffer' \in Seq(Records) /\ Len(buffer') <= MaxQueueSize
    BY <2>2, SizeAssumption
  <2> QED BY <2>1, <2>2, <2>3, <2>4, StartBatchFacts
<1>4. CASE FlushInFlight(kind)
  <2>1. /\ flush' = [pc |-> "exporterFlush", toFlush |-> buffer,
                     op |-> currentExport, call |-> Len(calls) + 1]
        /\ flushing' = TRUE /\ timer' = FALSE /\ buffer' = <<>>
        /\ currentExport' = currentExport /\ ops' = ops /\ currentExport # 0
    BY <1>4 DEF FlushInFlight
  <2>2. /\ buffer \in Seq(Records) /\ Len(buffer) <= MaxQueueSize
        /\ currentExport \in DOMAIN ops /\ currentExport \in Nat
        /\ Len(calls) + 1 \in Nat
    BY <2>1 DEF CoreInv
  <2>3. FlushInv'
    BY <2>1, <2>2 DEF FlushInv, Flush, FlushingMeansFlush
  <2>4. CoreInv'
    <3>1. <<>> \in Seq(Records) /\ Len(<<>>) <= MaxQueueSize
      BY SizeAssumption
    <3> QED BY <2>1, <2>2, <3>1 DEF CoreInv, TimerMeansWork, WatchedIs, PendingIs
  <2> QED BY <2>3, <2>4
<1> QED
  BY <1>1, <1>2, <1>3, <1>4 DEF FlushAll

\* The next turn of the loop, or its end, when no operation is watched and
\* none is pending.
LEMMA NextBatchScheduler ==
  ASSUME SchedulerInv, flush.pc # "idle", NextBatch, shut' = shut,
         WatchedIs(ops, 0), flushRejected' \/ PendingIs(ops, 0)
  PROVE  SchedulerInv'
<1>1. /\ buffer \in Seq(Records) /\ Len(buffer) <= MaxQueueSize /\ ops \in Seq(Op)
      /\ timer \in BOOLEAN /\ ~timer /\ flushing
      /\ flush.toFlush \in Seq(Records) /\ Len(flush.toFlush) <= MaxQueueSize
      /\ flush.call \in Nat
  BY DEF SchedulerInv, CoreInv, FlushInv, TimerMeansWork, Flush
<1>2. CASE /\ StartBatch(flush.toFlush, flush.call)
           /\ UNCHANGED <<buffer, timer, flushing, calls>>
  <2>1. flushing' = TRUE /\ ~timer' /\ timer' \in BOOLEAN
        /\ buffer' \in Seq(Records) /\ Len(buffer') <= MaxQueueSize
    BY <1>1, <1>2 DEF SchedulerInv, CoreInv
  <2> QED BY <1>1, <1>2, <2>1, StartBatchFacts
<1>3. CASE /\ flushing' = FALSE /\ flush' = Idle
           /\ MaybeStartTimer(buffer, ops, 0, FALSE)
  <2>1. CoreInv'
    <3>1. 0 \in 0..Len(ops) /\ FALSE \in BOOLEAN
      BY <1>1
    <3> QED BY <1>1, <1>3, <3>1, MaybeStartTimerFacts
  <2>2. FlushInv'
    <3>1. Idle \in Flush /\ Idle.pc = "idle" /\ Len(Idle.toFlush) <= MaxQueueSize
      BY SizeAssumption DEF Idle, Flush
    <3> QED BY <1>3, <3>1 DEF FlushInv, FlushingMeansFlush
  <2> QED BY <2>1, <2>2 DEF SchedulerInv
<1> QED
  BY <1>2, <1>3 DEF NextBatch

\* The flush goes on after the export in flight, or after one of its own.
LEMMA FlushContinues ==
  ASSUME SchedulerInv, NextBatch, shut' = shut,
         \/ (InFlightReady \/ CompletedReady) /\ flushRejected' = flushRejected
         \/ flush.pc = "speedUp" /\ flushRejected'
  PROVE  SchedulerInv'
<1>1. flush.pc # "idle" /\ flush.op \in DOMAIN ops /\ ~ops[flush.op].watched
      /\ currentExport \in {0, flush.op}
  BY DEF SchedulerInv, FlushInv, InFlightReady, CompletedReady
<1>2. WatchedIs(ops, 0)
  BY <1>1 DEF SchedulerInv, CoreInv, WatchedIs
<1>3. flushRejected' \/ PendingIs(ops, 0)
  BY <1>1 DEF SchedulerInv, CoreInv, PendingIs, InFlightReady, CompletedReady
<1> QED
  BY <1>1, <1>2, <1>3, NextBatchScheduler

\* A step that rewrites one operation without handling it.
LEMMA OpUpdateScheduler ==
  ASSUME SchedulerInv, UNCHANGED <<scheduler, flush, shut, flushRejected>>,
         NEW o \in DOMAIN ops, NEW new \in Op,
         new.watched = ops[o].watched, ops[o].completed => new.completed,
         ops' = [ops EXCEPT ![o] = new]
  PROVE  SchedulerInv'
<1> USE DEF SchedulerInv, CoreInv, FlushInv, scheduler
<1>1. ops' \in Seq(Op) /\ DOMAIN ops' = DOMAIN ops /\ Len(ops') = Len(ops)
  OBVIOUS
<1>2. \A p \in DOMAIN ops :
        ops'[p].watched = ops[p].watched /\ (ops[p].completed => ops'[p].completed)
  OBVIOUS
<1>3. /\ WatchedIs(ops', currentExport')
      /\ flushRejected' \/ PendingIs(ops', currentExport')
  BY <1>1, <1>2 DEF WatchedIs, PendingIs
<1>4. CoreInv'
  BY <1>1, <1>2, <1>3 DEF TimerMeansWork, ShutdownCalled
<1>5. FlushInv'
  BY <1>1, <1>2 DEF FlushingMeansFlush
<1> QED
  BY <1>4, <1>5

LEMMA HandleCompletionScheduler ==
  ASSUME SchedulerInv, NEW o \in DOMAIN ops, HandleCompletion(o)
  PROVE  SchedulerInv'
<1> DEFINE os == [ops EXCEPT ![o] = Handled(ops[o])]
<1>1. /\ ops \in Seq(Op) /\ ops[o] \in Op /\ ops[o].watched /\ ops[o].completed
      /\ o = currentExport /\ shut' = shut /\ flush' = flush /\ flushing' = flushing
      /\ flushRejected' = flushRejected
      /\ MaybeStartTimer(buffer, os, 0, flushing)
  BY DEF HandleCompletion, HandlerReady, SchedulerInv, CoreInv, WatchedIs, history
<1>2. /\ os \in Seq(Op) /\ DOMAIN os = DOMAIN ops /\ Len(os) = Len(ops)
      /\ \A p \in DOMAIN ops : /\ os[p].watched => p # o /\ ops[p].watched
                               /\ os[p].completed = ops[p].completed
  <2>1. Handled(ops[o]) \in Op /\ ~Handled(ops[o]).watched
        /\ Handled(ops[o]).completed = ops[o].completed
    BY <1>1, EditFacts
  <2> DEFINE new == Handled(ops[o])
  <2>2. os = [ops EXCEPT ![o] = new]
    OBVIOUS
  <2> HIDE DEF new, os
  <2>3. /\ os \in Seq(Op) /\ DOMAIN os = DOMAIN ops /\ Len(os) = Len(ops)
        /\ \A p \in DOMAIN ops : os[p] = IF p = o THEN new ELSE ops[p]
    BY <1>1, <2>1, <2>2 DEF new
  <2> QED BY <2>1, <2>3 DEF new
<1> HIDE DEF os
<1>3. WatchedIs(os, 0)
  BY <1>1, <1>2 DEF SchedulerInv, CoreInv, WatchedIs
<1>4. flushRejected' \/ PendingIs(os, 0)
  BY <1>1, <1>2 DEF SchedulerInv, CoreInv, PendingIs
<1>5. /\ buffer \in Seq(Records) /\ Len(buffer) <= MaxQueueSize /\ flushing \in BOOLEAN
      /\ timer \in BOOLEAN /\ ~timer /\ 0 \in 0..Len(os)
  BY <1>1, <1>2 DEF SchedulerInv, CoreInv, TimerMeansWork
<1>6. CoreInv' /\ (flushing => ops' = os /\ currentExport' = 0)
  BY <1>1, <1>2, <1>3, <1>4, <1>5, MaybeStartTimerFacts
<1>7. FlushInv'
  BY <1>1, <1>2, <1>6 DEF SchedulerInv, FlushInv, FlushingMeansFlush
<1> QED
  BY <1>6, <1>7 DEF SchedulerInv

\* _flushAll moves from one await to the next.
LEMMA FlushMoves ==
  ASSUME SchedulerInv, UNCHANGED <<scheduler, ops, shut, flushRejected>>,
         NEW pc, flush' = [flush EXCEPT !.pc = pc],
         \/ flush.pc = "exporterFlush" /\ pc = "inFlight"
         \/ flush.pc = "scheduled" /\ pc = "speedUp"
         \/ flush.pc = "speedUp" /\ pc = "completed"
  PROVE  SchedulerInv'
BY DEF SchedulerInv, CoreInv, FlushInv, scheduler, Flush, FlushingMeansFlush,
       TimerMeansWork, ShutdownCalled, WatchedIs, PendingIs

\* A step that leaves the scheduler alone.
LEMMA OtherScheduler ==
  ASSUME SchedulerInv, UNCHANGED <<scheduler, ops, flush, flushRejected>>,
         shut' = shut \/ (ShutdownCalled /\ ShutdownCalled')
  PROVE  SchedulerInv'
<1>1. ShutdownCalled' = ShutdownCalled
  BY DEF ShutdownCalled
<1> QED
  BY <1>1 DEF SchedulerInv, CoreInv, FlushInv, scheduler, FlushingMeansFlush,
     TimerMeansWork, WatchedIs, PendingIs

\* Every step keeps the invariant.
LEMMA SchedulerStep ==
  ASSUME SchedulerInv, calls \in Seq(Call), [Next]_vars
  PROVE  SchedulerInv'
<1> USE DEF vars, history
<1>1. ASSUME NEW r \in Records, OnEmit(r) PROVE SchedulerInv'
  BY <1>1, OnEmitScheduler
<1>2. CASE ForceFlush
  BY <1>2, FlushAllScheduler DEF ForceFlush
<1>3. CASE Shutdown
  BY <1>3, FlushAllScheduler DEF Shutdown
<1>4. CASE ForceFlushJoins \/ ResourceSettles \/ UNCHANGED vars
  <2>1. UNCHANGED <<scheduler, ops, flush, flushRejected>>
    BY <1>4 DEF ForceFlushJoins, ResourceSettles
  <2>2. shut' = shut
    BY <1>4 DEF ForceFlushJoins, ResourceSettles
  <2> QED BY <2>1, <2>2, OtherScheduler
<1>5. CASE ShutdownFlushed \/ ExporterShutdownSettles
  BY <1>5, OtherScheduler
     DEF ShutdownFlushed, ShutdownReady, ExporterShutdownSettles, ShutdownCalled
<1>6. ASSUME NEW o \in DOMAIN ops,
             \/ CallExporter(o) \/ ExportTimeout(o)
             \/ ExporterResult(o) \/ ResourceFails(o)
      PROVE  SchedulerInv'
  <2>1. ops[o] \in Op
    BY DEF SchedulerInv, CoreInv
  <2>2. PICK new \in {Exporting(ops[o]), Lost(ops[o]), Reported(ops[o]), TimedOut(ops[o])} :
          ops' = [ops EXCEPT ![o] = new]
    BY <1>6 DEF CallExporter, ExportTimeout, ExporterResult, ResourceFails
  <2>3. UNCHANGED <<scheduler, flush, shut, flushRejected>>
    BY <1>6 DEF CallExporter, ExportTimeout, ExporterResult, ResourceFails
  <2> QED BY <2>1, <2>2, <2>3, EditFacts, OpUpdateScheduler
<1>7. ASSUME NEW o \in DOMAIN ops, HandleCompletion(o) PROVE SchedulerInv'
  BY <1>7, HandleCompletionScheduler
<1>8. CASE FlushAfterInFlight \/ FlushCompleted \/ SpeedUpRejected
  BY <1>8, FlushContinues DEF FlushAfterInFlight, FlushCompleted, SpeedUpRejected
<1>9. CASE FlushScheduled \/ ExporterFlushed \/ SpeedUpFlushed
  BY <1>9, FlushMoves DEF FlushScheduled, ScheduledReady, ExporterFlushed, SpeedUpFlushed
<1>10. CASE ExporterFlushRejected
  <2>1. Idle \in Flush /\ Idle.pc = "idle" /\ Len(Idle.toFlush) <= MaxQueueSize
    BY SizeAssumption DEF Idle, Flush
  <2>2. UNCHANGED <<scheduler, ops, shut>> /\ flush' = Idle /\ flushRejected'
    BY <1>10 DEF ExporterFlushRejected
  <2> QED
    BY <2>1, <2>2 DEF SchedulerInv, CoreInv, FlushInv, scheduler, TimerMeansWork,
       ShutdownCalled, WatchedIs, PendingIs, FlushingMeansFlush
<1>11. CASE TimerFires
  <2>1. /\ timer /\ ExportOneBatch(buffer, ops)
        /\ flushing' = flushing /\ flush' = flush /\ shut' = shut
        /\ flushRejected' = flushRejected
    BY <1>11 DEF TimerFires
  <2>2. currentExport = 0 /\ ~flushing
    BY <2>1 DEF SchedulerInv, CoreInv, TimerMeansWork
  <2>3. CoreInv'
    BY <2>1, <2>2, NothingCurrent, ExportOneBatchFacts DEF SchedulerInv, CoreInv
  <2>4. FlushInv'
    BY <2>1, <2>2 DEF SchedulerInv, FlushInv, FlushingMeansFlush
  <2> QED BY <2>3, <2>4 DEF SchedulerInv
<1> QED
  BY <1>1, <1>2, <1>3, <1>4, <1>5, <1>6, <1>7, <1>8, <1>9, <1>10, <1>11
     DEF Next, Application, Reaction, TimerTask, ExporterFlush, Environment

-------------------------------------------------------------------------------
\* The theorems

\* The rest of the state keeps its types.
HistoryType ==
  /\ calls \in Seq(Call)
  /\ shut \in ShutStates
  /\ resourcePending \in BOOLEAN
  /\ metrics \in [dropped : Nat, finished : Nat]
  /\ emitted \subseteq Records
  /\ accepted \in Seq(Records)
  /\ dropped \subseteq Records
  /\ flushRejected \in BOOLEAN

\* A call is added, or one of them settles.
LEMMA CallFacts ==
  ASSUME HistoryType
  PROVE  /\ \A kind \in {"forceFlush", "shutdown", "joined"},
               result \in {"pending", "resolved"}, ran \in BOOLEAN :
              Append(calls, NewCall(kind, result, ran)) \in Seq(Call)
         /\ \A c \in Nat, result \in {"resolved", "rejected"} :
              [calls EXCEPT ![c].result = result] \in Seq(Call)
<1>1. \A kind \in {"forceFlush", "shutdown", "joined"},
        result \in {"pending", "resolved"}, ran \in BOOLEAN :
        NewCall(kind, result, ran) \in Call
  BY DEF HistoryType, NewCall, Call
<1>2. ASSUME NEW c \in Nat, NEW result \in {"resolved", "rejected"}
      PROVE  [calls EXCEPT ![c].result = result] \in Seq(Call)
  <2> DEFINE new == [calls[c] EXCEPT !.result = result]
  <2>1. calls \in Seq(Call)
    BY DEF HistoryType
  <2>2. CASE c \in 1..Len(calls)
    <3>1. calls[c] \in Call
      BY <2>1, <2>2
    <3>2. new \in Call
      BY <3>1 DEF Call
    <3> HIDE DEF new
    <3>3. [calls EXCEPT ![c] = new] \in Seq(Call)
      BY <2>1, <2>2, <3>2, ExceptSeq
    <3> QED BY <3>3 DEF new
  <2>3. CASE c \notin 1..Len(calls)
    <3>1. c \notin DOMAIN calls
      BY <2>1, <2>3
    <3>2. [calls EXCEPT ![c].result = result] = calls
      BY <2>1, <3>1
    <3> QED BY <2>1, <3>2
  <2> QED BY <2>2, <2>3
<1>3. calls \in Seq(Call)
  BY DEF HistoryType
<1>4. \A x \in Call : Append(calls, x) \in Seq(Call)
  BY <1>3, AppendProperties
<1> QED
  BY <1>1, <1>2, <1>4

LEMMA FlushAllCalls ==
  ASSUME HistoryType, NEW kind \in {"forceFlush", "shutdown"}, FlushAll(kind)
  PROVE  calls' \in Seq(Call)
BY CallFacts DEF FlushAll, SkipFlush, FlushNothing, FlushBuffer, FlushInFlight

LEMMA NextBatchCalls ==
  ASSUME HistoryType, FlushInv, NextBatch
  PROVE  calls' \in Seq(Call)
<1>1. flush.call \in Nat /\ calls \in Seq(Call)
  BY DEF FlushInv, Flush, HistoryType
<1> QED
  BY <1>1, CallFacts DEF NextBatch

LEMMA HistoryStep ==
  ASSUME SchedulerInv, HistoryType, [Next]_vars
  PROVE  HistoryType'
<1> USE DEF HistoryType, history, vars
<1>1. ASSUME NEW r \in Records, OnEmit(r) PROVE HistoryType'
  <2>1. CASE IgnoreRecord
    BY <1>1, <2>1 DEF OnEmit, IgnoreRecord
  <2>2. CASE DropRecord(r)
    BY <1>1, <2>2 DEF OnEmit, DropRecord
  <2>3. CASE AddRecord(r)
    BY <1>1, <2>3 DEF OnEmit, AddRecord
  <2> QED BY <1>1, <2>1, <2>2, <2>3 DEF OnEmit
<1>2. CASE ForceFlush
  BY <1>2, FlushAllCalls DEF ForceFlush
<1>3. CASE Shutdown
  BY <1>3, FlushAllCalls DEF Shutdown, ShutStates
<1>4. CASE ForceFlushJoins
  BY <1>4, CallFacts DEF ForceFlushJoins
<1>5. CASE ShutdownFlushed \/ ExporterShutdownSettles
  BY <1>5 DEF ShutdownFlushed, ExporterShutdownSettles, ShutStates
<1>6. ASSUME NEW o \in DOMAIN ops,
             CallExporter(o) \/ ExportTimeout(o) \/ ResourceFails(o) \/ HandleCompletion(o)
      PROVE  HistoryType'
  BY <1>6 DEF CallExporter, ExportTimeout, ResourceFails, HandleCompletion
<1>7. ASSUME NEW o \in DOMAIN ops, ExporterResult(o) PROVE HistoryType'
  <2>1. ops[o].records \in Seq(Records)
    <3>1. ops[o] \in Op
      BY DEF SchedulerInv, CoreInv
    <3> QED BY <3>1 DEF Op
  <2>2. Len(ops[o].records) \in Nat
    BY <2>1
  <2> QED BY SMTT(30), <1>7, <2>2 DEF ExporterResult
<1>8. CASE FlushAfterInFlight \/ FlushCompleted \/ SpeedUpRejected
  BY <1>8, NextBatchCalls
     DEF FlushAfterInFlight, FlushCompleted, SpeedUpRejected, SchedulerInv
<1>9. CASE FlushScheduled \/ ExporterFlushed \/ SpeedUpFlushed \/ TimerFires
  BY <1>9 DEF FlushScheduled, ExporterFlushed, SpeedUpFlushed, TimerFires
<1>10. CASE ExporterFlushRejected
  <2>1. flush.call \in Nat
    BY DEF SchedulerInv, FlushInv, Flush
  <2> QED BY <1>10, <2>1, CallFacts DEF ExporterFlushRejected
<1>11. CASE ResourceSettles \/ UNCHANGED vars
  BY <1>11 DEF ResourceSettles
<1> QED
  BY <1>1, <1>2, <1>3, <1>4, <1>5, <1>6, <1>7, <1>8, <1>9, <1>10, <1>11
     DEF Next, Application, Reaction, TimerTask, ExporterFlush, Environment

LEMMA InitInv == Init => SchedulerInv /\ HistoryType
<1> SUFFICES ASSUME Init PROVE SchedulerInv /\ HistoryType
  OBVIOUS
<1>1. <<>> \in Seq(Records) /\ <<>> \in Seq(Op) /\ <<>> \in Seq(Call)
      /\ Len(<<>>) = 0 /\ DOMAIN <<>> = {}
  OBVIOUS
<1>2. Idle \in Flush /\ Idle.pc = "idle" /\ Idle.toFlush = <<>>
  BY DEF Idle, Flush
<1>3. SchedulerInv
  <2>1. 0 <= MaxQueueSize /\ 0 \in 0..0
    BY SizeAssumption
  <2>2. CoreInv
    BY <1>1, <2>1 DEF Init, CoreInv, TimerMeansWork, WatchedIs, PendingIs
  <2>3. FlushInv
    BY <1>1, <1>2, <2>1 DEF Init, FlushInv, FlushingMeansFlush
  <2> QED BY <2>2, <2>3 DEF SchedulerInv
<1>4. metrics \in [dropped : Nat, finished : Nat]
  BY DEF Init
<1> QED
  BY <1>1, <1>3, <1>4, ChoiceAssumption DEF Init, HistoryType, ShutStates

\* The inductive invariant: in every state the delay timer, _currentExport,
\* _flushing and the awaits of _flushAll agree with each other.
THEOREM SchedulerIsConsistent == Spec => [](SchedulerInv /\ HistoryType)
<1>1. SchedulerInv /\ HistoryType /\ [Next]_vars => (SchedulerInv /\ HistoryType)'
  BY SchedulerStep, HistoryStep DEF HistoryType
<1> QED
  BY <1>1, InitInv, PTL DEF Spec

\* Every variable keeps its type, and the buffer never exceeds maxQueueSize.
THEOREM TypeCorrect == Spec => []TypeOK
<1>1. SchedulerInv /\ HistoryType => TypeOK
  BY DEF SchedulerInv, CoreInv, FlushInv, HistoryType, TypeOK
<1> QED
  BY <1>1, SchedulerIsConsistent, PTL

\* The delay timer never fires into an empty buffer, an export or a flush.
THEOREM TimerFindsWork == Spec => []TimerMeansWork
<1>1. SchedulerInv /\ HistoryType => TimerMeansWork
  BY DEF SchedulerInv, CoreInv
<1> QED
  BY <1>1, SchedulerIsConsistent, PTL

\* Batches go out one at a time until an exporter.forceFlush() is rejected.
THEOREM SingleExport == Spec => []OneExportAtATime
<1>1. SchedulerInv /\ HistoryType => OneExportAtATime
  BY DEF SchedulerInv, CoreInv, PendingIs, OneExportAtATime
<1> QED
  BY <1>1, SchedulerIsConsistent, PTL

\* Waiting records always have a timer, an export or a flush that will take
\* them, until shutdown or a rejected exporter.forceFlush().
THEOREM NoRecordIsStranded == Spec => []NoStrandedRecords
<1>1. SchedulerInv /\ HistoryType => NoStrandedRecords
  <2> SUFFICES ASSUME SchedulerInv, buffer # <<>>, ~ShutdownCalled, ~timer,
                      ~flushRejected
               PROVE  Watched \/ flush.pc # "idle"
    BY DEF NoStrandedRecords
  <2>1. CASE flushing
    BY <2>1 DEF SchedulerInv, FlushInv, FlushingMeansFlush
  <2>2. CASE ~flushing
    <3>1. currentExport # 0 /\ currentExport \in DOMAIN ops /\ ops[currentExport].watched
      BY <2>2 DEF SchedulerInv, CoreInv
    <3> QED BY <3>1 DEF Watched
  <2> QED BY <2>1, <2>2
<1> QED
  BY <1>1, SchedulerIsConsistent, PTL

-------------------------------------------------------------------------------
\* The processor implements the bounded FIFO

\* A record was offered to the buffer only by its own onEmit.
OfferedEmitted == {accepted[i] : i \in 1..Len(accepted)} \cup dropped \subseteq emitted

LEMMA SuffixFacts ==
  ASSUME NEW q \in Seq(Records)
  PROVE  /\ q \in BQ!Suffixes(q)
         /\ Rest(q) \in BQ!Suffixes(q)
         /\ <<>> \in BQ!Suffixes(q)
<1>1. Len(q) \in Nat /\ 1 \in 1..(Len(q) + 1) /\ Len(q) + 1 \in 1..(Len(q) + 1)
  OBVIOUS
<1>2. q \in BQ!Suffixes(q)
  <2>1. q = SubSeq(q, 1, Len(q))
    BY SubSeqFull
  <2> QED BY <1>1, <2>1 DEF BQ!Suffixes
<1>3. Rest(q) \in BQ!Suffixes(q)
  <2> DEFINE e == BatchEnd(q)
  <2>1. e + 1 \in 1..(Len(q) + 1)
    BY <1>1, BatchEndFacts
  <2> QED BY <2>1 DEF Rest, BQ!Suffixes
<1>4. <<>> \in BQ!Suffixes(q)
  <2>1. SubSeq(q, Len(q) + 1, Len(q)) = <<>>
    BY <1>1, SubSeqEmpty
  <2> QED BY <1>1, <2>1 DEF BQ!Suffixes
<1> QED
  BY <1>2, <1>3, <1>4

\* Whatever _maybeStartTimer, _flushAll and its loop do, they leave a suffix of
\* the buffer.
LEMMA MaybeStartTimerSuffix ==
  ASSUME NEW q \in Seq(Records), NEW os, NEW current, NEW busy,
         MaybeStartTimer(q, os, current, busy)
  PROVE  buffer' \in BQ!Suffixes(q)
<1>1. buffer' = q \/ buffer' = Rest(q)
  BY DEF MaybeStartTimer, ExportOneBatch
<1> QED
  BY <1>1, SuffixFacts

LEMMA FlushAllSuffix ==
  ASSUME buffer \in Seq(Records), NEW kind, FlushAll(kind)
  PROVE  buffer' \in BQ!Suffixes(buffer)
<1>1. buffer' = buffer \/ buffer' = <<>>
  BY DEF FlushAll, SkipFlush, FlushNothing, FlushBuffer, FlushInFlight, scheduler
<1> QED
  BY <1>1, SuffixFacts

LEMMA NextBatchSuffix ==
  ASSUME buffer \in Seq(Records), NextBatch
  PROVE  buffer' \in BQ!Suffixes(buffer)
<1>1. CASE UNCHANGED <<buffer, timer, flushing, calls>>
  BY <1>1, SuffixFacts
<1>2. CASE MaybeStartTimer(buffer, ops, 0, FALSE)
  BY <1>2, MaybeStartTimerSuffix
<1> QED
  BY <1>1, <1>2 DEF NextBatch

LEMMA OnEmitRefines ==
  ASSUME SchedulerInv, HistoryType, OfferedEmitted, NEW r \in Records, OnEmit(r)
  PROVE  [BQ!QueueNext]_(BQ!queueVars) /\ OfferedEmitted'
<1>1. UNCHANGED ShutdownCalled /\ emitted' = emitted \cup {r} /\ r \notin emitted
  BY DEF OnEmit, ShutdownCalled
<1>2. r \notin BQ!Offered
  BY <1>1 DEF OfferedEmitted, BQ!Offered
<1>3. buffer \in Seq(Records) /\ Len(buffer) \in Nat /\ MaxQueueSize \in Nat
      /\ Append(buffer, r) \in Seq(Records) /\ accepted \in Seq(Records)
  BY SizeAssumption DEF SchedulerInv, CoreInv, HistoryType
<1>4. CASE IgnoreRecord
  BY <1>1, <1>4 DEF IgnoreRecord, scheduler, BQ!queueVars, OfferedEmitted
<1>5. CASE DropRecord(r)
  <2>1. BQ!Lose(r)
    BY <1>1, <1>2, <1>5 DEF DropRecord, BufferFull, scheduler, BQ!Lose
  <2> QED BY <1>1, <1>5, <2>1 DEF BQ!QueueNext, DropRecord, OfferedEmitted
<1>6. CASE AddRecord(r)
  <2>1. accepted' = Append(accepted, r) /\ dropped' = dropped
        /\ MaybeStartTimer(Append(buffer, r), ops, currentExport, flushing)
    BY <1>6 DEF AddRecord
  <2>2. Len(buffer) < MaxQueueSize /\ ~ShutdownCalled
    BY <1>3, <1>6 DEF AddRecord, BufferFull
  <2>3. buffer' \in BQ!Suffixes(Append(buffer, r))
    BY <1>3, <2>1, MaybeStartTimerSuffix
  <2>4. BQ!Accept(r)
    BY <1>1, <1>2, <2>1, <2>2, <2>3 DEF BQ!Accept
  <2>5. \A i \in 1..Len(accepted') :
          accepted'[i] = r \/ \E j \in 1..Len(accepted) : accepted'[i] = accepted[j]
    BY <1>3, <2>1
  <2>6. OfferedEmitted'
    BY <1>1, <2>1, <2>5 DEF OfferedEmitted
  <2> QED BY <2>4, <2>6 DEF BQ!QueueNext
<1> QED
  BY <1>4, <1>5, <1>6 DEF OnEmit

\* A step that leaves a suffix of the buffer and nothing else to be seen.
LEMMA HandOverRefines ==
  ASSUME buffer' \in BQ!Suffixes(buffer),
         UNCHANGED <<accepted, dropped, ShutdownCalled>>
  PROVE  [BQ!QueueNext]_(BQ!queueVars)
BY DEF BQ!HandOver, BQ!QueueNext

LEMMA StepRefines ==
  ASSUME SchedulerInv, HistoryType, OfferedEmitted, [Next]_vars
  PROVE  [BQ!QueueNext]_(BQ!queueVars) /\ OfferedEmitted'
<1>1. ASSUME NEW r \in Records, OnEmit(r)
      PROVE  [BQ!QueueNext]_(BQ!queueVars) /\ OfferedEmitted'
  BY <1>1, OnEmitRefines
<1>2. CASE UNCHANGED <<emitted, accepted, dropped>>
  <2>1. OfferedEmitted' /\ UNCHANGED <<accepted, dropped>>
    BY <1>2 DEF OfferedEmitted
  <2>2. buffer \in Seq(Records)
    BY DEF SchedulerInv, CoreInv
  <2>3. CASE ShutdownCalled' = ShutdownCalled /\ buffer' \in BQ!Suffixes(buffer)
    BY <2>1, <2>3, HandOverRefines
  <2>4. CASE Shutdown
    <3>1. buffer' \in BQ!Suffixes(buffer) /\ ~ShutdownCalled /\ ShutdownCalled'
      BY <2>2, <2>4, FlushAllSuffix DEF Shutdown, ShutdownCalled
    <3>2. BQ!Close
      BY <2>1, <3>1 DEF BQ!Close
    <3> QED BY <2>1, <3>2 DEF BQ!QueueNext
  <2>5. CASE ForceFlush
    BY <2>2, <2>3, <2>5, FlushAllSuffix DEF ForceFlush, ShutdownCalled
  <2>6. CASE FlushAfterInFlight \/ FlushCompleted \/ SpeedUpRejected
    BY <2>2, <2>3, <2>6, NextBatchSuffix
       DEF FlushAfterInFlight, FlushCompleted, SpeedUpRejected, ShutdownCalled
  <2>7. ASSUME NEW o \in DOMAIN ops, HandleCompletion(o)
        PROVE  [BQ!QueueNext]_(BQ!queueVars) /\ OfferedEmitted'
    BY <2>2, <2>3, <2>7, MaybeStartTimerSuffix DEF HandleCompletion, ShutdownCalled
  <2>8. CASE TimerFires
    BY <2>2, <2>3, <2>8, SuffixFacts DEF TimerFires, ExportOneBatch, ShutdownCalled
  <2>9. CASE buffer' = buffer /\ ShutdownCalled' = ShutdownCalled
    BY <2>2, <2>3, <2>9, SuffixFacts
  <2>10. ASSUME NEW o \in DOMAIN ops,
                \/ CallExporter(o) \/ ExportTimeout(o)
                \/ ExporterResult(o) \/ ResourceFails(o)
         PROVE  [BQ!QueueNext]_(BQ!queueVars) /\ OfferedEmitted'
    BY <2>9, <2>10 DEF CallExporter, ExportTimeout, ExporterResult, ResourceFails,
       scheduler, ShutdownCalled
  <2>11. CASE \/ ForceFlushJoins \/ FlushScheduled \/ ExporterFlushed
              \/ SpeedUpFlushed \/ ExporterFlushRejected \/ ResourceSettles
              \/ UNCHANGED vars
    BY <2>9, <2>11 DEF ForceFlushJoins, FlushScheduled, ExporterFlushed,
       SpeedUpFlushed, ExporterFlushRejected, ResourceSettles, scheduler, vars,
       ShutdownCalled
  <2>12. CASE ShutdownFlushed \/ ExporterShutdownSettles
    BY <2>9, <2>12 DEF ShutdownFlushed, ShutdownReady, ExporterShutdownSettles,
       scheduler, ShutdownCalled
  <2> QED
    BY <1>1, <2>4, <2>5, <2>6, <2>7, <2>8, <2>10, <2>11, <2>12
       DEF Next, Application, Reaction, TimerTask, ExporterFlush, Environment
<1>3. CASE ~UNCHANGED <<emitted, accepted, dropped>>
  <2>1. \E r \in Records : OnEmit(r)
    BY <1>3 DEF Next, Application, Reaction, TimerTask, ExporterFlush, Environment,
       vars, history, ForceFlush, ForceFlushJoins, Shutdown, CallExporter,
       HandleCompletion,
       FlushAfterInFlight, FlushScheduled, FlushCompleted, ShutdownFlushed,
       TimerFires, ExportTimeout, ExporterResult, ExporterFlushed,
       ExporterFlushRejected, SpeedUpFlushed, SpeedUpRejected,
       ExporterShutdownSettles, ResourceSettles, ResourceFails
  <2> QED BY <1>1, <2>1
<1> QED
  BY <1>2, <1>3

\* BatchLogRecordProcessor implements BatchQueue, rejected flushes included.
THEOREM Refinement == Spec => ImplementsBatchQueue
<1>1. Init => BQ!QueueInit /\ OfferedEmitted
  BY DEF Init, BQ!QueueInit, ShutdownCalled, OfferedEmitted
<1>2. SchedulerInv /\ HistoryType /\ OfferedEmitted /\ [Next]_vars
        => [BQ!QueueNext]_(BQ!queueVars) /\ OfferedEmitted'
  BY StepRefines
<1> QED
  BY <1>1, <1>2, SchedulerIsConsistent, PTL
     DEF Spec, ImplementsBatchQueue, BQ!QueueSpec

-------------------------------------------------------------------------------
\* Exactly once and in order

RecordsOf(os) == [o \in DOMAIN os |-> os[o].records]

\* All the records of the operations os, in their order.
Taken(os) == FlattenSeq(RecordsOf(os))

LEMMA TakenType ==
  ASSUME NEW os \in Seq(Op)
  PROVE  /\ RecordsOf(os) \in Seq(Seq(Records))
         /\ Taken(os) \in Seq(Records)
<1>1. RecordsOf(os) \in Seq(Seq(Records))
  <2>1. DOMAIN os = 1..Len(os) /\ Len(os) \in Nat
    BY LenProperties
  <2>2. \A o \in 1..Len(os) : os[o].records \in Seq(Records)
    <3> TAKE o \in 1..Len(os)
    <3>1. os[o] \in Op
      BY ElementOfSeq
    <3> QED
      BY <3>1 DEF Op
  <2> QED
    BY <2>1, <2>2, IsASeq DEF RecordsOf
<1> QED
  BY <1>1, FlattenType DEF Taken

LEMMA TakenAppend ==
  ASSUME NEW os \in Seq(Op), NEW x \in Op
  PROVE  Taken(Append(os, x)) = Taken(os) \o x.records
<1>1. x.records \in Seq(Records) /\ RecordsOf(os) \in Seq(Seq(Records))
  BY TakenType DEF Op
<1>2. RecordsOf(Append(os, x)) = Append(RecordsOf(os), x.records)
  <2>1. /\ Append(os, x) \in Seq(Op)
        /\ Len(Append(os, x)) = Len(os) + 1
        /\ \A o \in 1..Len(os) : Append(os, x)[o] = os[o]
        /\ Append(os, x)[Len(os) + 1] = x
    BY AppendProperties
  <2>2. RecordsOf(Append(os, x)) \in Seq(Seq(Records))
    BY <2>1, TakenType
  <2>3. Len(RecordsOf(os)) = Len(os) /\ Len(RecordsOf(Append(os, x))) = Len(os) + 1
    BY <1>1, <2>1, <2>2 DEF RecordsOf
  <2>4. Append(RecordsOf(os), x.records) \in Seq(Seq(Records))
    BY <1>1, AppendProperties
  <2>5. Len(Append(RecordsOf(os), x.records)) = Len(os) + 1
    BY <1>1, <2>3, AppendProperties
  <2>6. \A o \in 1..Len(os) + 1 :
          RecordsOf(Append(os, x))[o] = Append(RecordsOf(os), x.records)[o]
    <3> TAKE o \in 1..Len(os) + 1
    <3>1. RecordsOf(Append(os, x))[o] = Append(os, x)[o].records
      BY <2>1 DEF RecordsOf
    <3>2. CASE o \in 1..Len(os)
      <4>1. Append(RecordsOf(os), x.records)[o] = RecordsOf(os)[o]
        BY <1>1, <2>3, <3>2, AppendProperties
      <4>2. RecordsOf(os)[o] = os[o].records
        BY <3>2 DEF RecordsOf
      <4>3. Append(os, x)[o] = os[o]
        BY <2>1, <3>2
      <4> QED
        BY <3>1, <4>1, <4>2, <4>3
    <3>3. CASE o = Len(os) + 1
      <4>1. Append(RecordsOf(os), x.records)[o] = x.records
        BY <1>1, <2>3, <3>3, AppendProperties
      <4>2. Append(os, x)[o] = x
        BY <2>1, <3>3
      <4> QED
        BY <3>1, <4>1, <4>2
    <3> QED
      <4>1. Len(os) \in Nat
        BY LenProperties
      <4>2. o \in 1..Len(os) \/ o = Len(os) + 1
        BY <4>1
      <4> QED
        BY <3>2, <3>3, <4>2
  <2> QED
    BY <2>2, <2>3, <2>4, <2>5, <2>6, SeqEqual
<1> QED
  BY <1>1, <1>2, FlattenAppend DEF Taken

LEMMA EditKeepsRecords ==
  ASSUME NEW x \in Op
  PROVE  \A y \in {Exporting(x), Lost(x), Reported(x), TimedOut(x), Handled(x)} :
           y.records = x.records
BY DEF Op, Exporting, Lost, Reported, TimedOut, Handled

LEMMA TakenEdited ==
  ASSUME NEW os \in Seq(Op), NEW o \in DOMAIN os, NEW y, y.records = os[o].records
  PROVE  Taken([os EXCEPT ![o] = y]) = Taken(os)
<1>1. \A p \in DOMAIN os : [os EXCEPT ![o] = y][p].records = os[p].records
  OBVIOUS
<1> QED
  BY <1>1 DEF Taken, RecordsOf

\* A batch and what it leaves are the queue.
LEMMA BatchAndRest ==
  ASSUME NEW q \in Seq(Records)
  PROVE  Batch(q) \o Rest(q) = q
<1> DEFINE e == BatchEnd(q)
<1>1. e \in 0..Len(q) /\ Len(q) \in Nat
  BY BatchEndFacts
<1> HIDE DEF e
<1>2. SubSeq(q, 1, e) \o SubSeq(q, e + 1, Len(q)) = SubSeq(q, 1, Len(q))
  <2>1. 1 \in 1..Len(q) + 1 /\ e \in 1 - 1..Len(q) /\ Len(q) \in e..Len(q)
    BY <1>1
  <2> QED
    BY <2>1, ConcatAdjacentSubSeq
<1> QED
  BY <1>2, SubSeqFull DEF e, Batch, Rest

\* A new operation for a batch of q, with the rest of q behind it.
LEMMA TakenBatch ==
  ASSUME NEW os \in Seq(Op), NEW q \in Seq(Records), NEW watched \in BOOLEAN
  PROVE  Taken(Append(os, NewOp(Batch(q), watched))) \o Rest(q) = Taken(os) \o q
<1> DEFINE new == NewOp(Batch(q), watched)
<1>1. new \in Op /\ new.records = Batch(q)
  BY NewOpFacts DEF NewOp
<1> HIDE DEF new
<1>2. Taken(Append(os, new)) = Taken(os) \o Batch(q)
  BY <1>1, TakenAppend
<1>3. Taken(os) \in Seq(Records) /\ Batch(q) \in Seq(Records) /\ Rest(q) \in Seq(Records)
  BY TakenType, BatchType, RestFacts
<1>4. \A s, t, u \in Seq(Records) : (s \o t) \o u = s \o (t \o u)
  BY SMTT(30), ConcatAssociative
<1>5. (Taken(os) \o Batch(q)) \o Rest(q) = Taken(os) \o (Batch(q) \o Rest(q))
  BY <1>3, <1>4
<1> QED
  BY <1>2, <1>5, BatchAndRest DEF new

LEMMA MaybeStartTimerOrder ==
  ASSUME NEW q \in Seq(Records), NEW os \in Seq(Op), NEW current, NEW busy,
         MaybeStartTimer(q, os, current, busy)
  PROVE  Taken(ops') \o buffer' = Taken(os) \o q
BY TakenBatch DEF MaybeStartTimer, ExportOneBatch

\* Nothing is lost or doubled on the way: operations, flush, buffer.
OrderInv ==
  /\ (Taken(ops) \o flush.toFlush) \o buffer = accepted
  /\ flush.pc = "idle" => flush.toFlush = <<>>

\* Outside of a flush the buffer follows the operations.
LEMMA IdleOrder ==
  ASSUME SchedulerInv, HistoryType, OrderInv, ~flushing
  PROVE  flush.toFlush = <<>> /\ Taken(ops) \o buffer = accepted
<1>1. flush.toFlush = <<>>
  BY DEF SchedulerInv, FlushInv, OrderInv
<1>2. Taken(ops) \in Seq(Records)
  BY TakenType DEF SchedulerInv, CoreInv
<1>3. Taken(ops) \o <<>> = Taken(ops)
  BY <1>2, ConcatEmptySeq
<1> QED
  BY <1>1, <1>3 DEF OrderInv

\* A step that leaves a flush without records behind.
LEMMA IdleOrderNext ==
  ASSUME ops' \in Seq(Op), flush'.toFlush = <<>>, Taken(ops') \o buffer' = accepted'
  PROVE  OrderInv'
<1>1. Taken(ops') \in Seq(Records)
  BY TakenType
<1>2. Taken(ops') \o <<>> = Taken(ops')
  BY <1>1, ConcatEmptySeq
<1> QED
  BY <1>2 DEF OrderInv

LEMMA FlushAllOrder ==
  ASSUME SchedulerInv, SchedulerInv', HistoryType, OrderInv, NEW kind, FlushAll(kind),
         UNCHANGED accepted
  PROVE  OrderInv'
<1>1. /\ ops \in Seq(Op) /\ ops' \in Seq(Op) /\ buffer \in Seq(Records)
      /\ Taken(ops) \in Seq(Records)
  BY TakenType DEF SchedulerInv, CoreInv
<1>2. CASE SkipFlush(kind) \/ FlushNothing(kind)
  BY <1>2 DEF SkipFlush, FlushNothing, scheduler, OrderInv
<1>3. CASE FlushBuffer(kind)
  <2>1. Taken(ops) \o buffer = accepted
    BY <1>3, IdleOrder DEF FlushBuffer
  <2>2. /\ ops' = Append(ops, NewOp(Batch(buffer), FALSE)) /\ buffer' = <<>>
        /\ flush'.toFlush = Rest(buffer) /\ flush'.pc # "idle"
    BY <1>3 DEF FlushBuffer, StartBatch
  <2>3. Taken(ops') \o Rest(buffer) = accepted
    BY <1>1, <2>1, <2>2, TakenBatch
  <2>4. accepted \o <<>> = accepted
    BY ConcatEmptySeq DEF HistoryType
  <2> QED
    BY <2>2, <2>3, <2>4 DEF OrderInv
<1>4. CASE FlushInFlight(kind)
  <2>1. Taken(ops) \o buffer = accepted
    BY <1>4, IdleOrder DEF FlushInFlight
  <2>2. /\ ops' = ops /\ buffer' = <<>> /\ flush'.toFlush = buffer /\ flush'.pc # "idle"
    BY <1>4 DEF FlushInFlight
  <2>3. accepted \o <<>> = accepted
    BY ConcatEmptySeq DEF HistoryType
  <2> QED
    BY <2>1, <2>2, <2>3 DEF OrderInv
<1> QED
  BY <1>2, <1>3, <1>4 DEF FlushAll

LEMMA NextBatchOrder ==
  ASSUME SchedulerInv, SchedulerInv', HistoryType, OrderInv, NextBatch, UNCHANGED accepted
  PROVE  OrderInv'
<1>1. /\ ops \in Seq(Op) /\ ops' \in Seq(Op) /\ buffer \in Seq(Records)
      /\ Taken(ops) \in Seq(Records) /\ flush.toFlush \in Seq(Records)
  BY TakenType DEF SchedulerInv, CoreInv, FlushInv, Flush
<1>2. CASE StartBatch(flush.toFlush, flush.call) /\ UNCHANGED buffer
  <2>1. /\ ops' = Append(ops, NewOp(Batch(flush.toFlush), FALSE))
        /\ flush'.toFlush = Rest(flush.toFlush) /\ flush'.pc # "idle"
    BY <1>2 DEF StartBatch
  <2>2. Taken(ops') \o Rest(flush.toFlush) = Taken(ops) \o flush.toFlush
    BY <1>1, <2>1, TakenBatch
  <2> QED
    BY <1>2, <2>1, <2>2 DEF OrderInv
<1>3. CASE /\ flush.toFlush = <<>> /\ flush' = Idle
           /\ MaybeStartTimer(buffer, ops, 0, FALSE)
  <2>1. Taken(ops') \o buffer' = Taken(ops) \o buffer
    BY <1>1, <1>3, MaybeStartTimerOrder
  <2>2. Taken(ops) \o <<>> = Taken(ops)
    BY <1>1, ConcatEmptySeq
  <2>3. Taken(ops') \o buffer' = accepted'
    BY <1>3, <2>1, <2>2 DEF OrderInv
  <2>4. flush'.toFlush = <<>>
    BY <1>3 DEF Idle
  <2> QED
    BY <1>1, <2>3, <2>4, IdleOrderNext
<1> QED
  BY <1>2, <1>3 DEF NextBatch

\* _maybeStartTimer during a flush leaves the operations alone.
LEMMA MaybeStartTimerInFlush ==
  ASSUME NEW q, NEW os, NEW current, MaybeStartTimer(q, os, current, TRUE)
  PROVE  ops' = os /\ buffer' = q
BY DEF MaybeStartTimer, MustWait

LEMMA OnEmitOrder ==
  ASSUME SchedulerInv, SchedulerInv', HistoryType, OrderInv, NEW r \in Records, OnEmit(r)
  PROVE  OrderInv'
<1>1. flush' = flush /\ ops' \in Seq(Op) /\ ops \in Seq(Op) /\ buffer \in Seq(Records)
      /\ Taken(ops) \in Seq(Records) /\ flush.toFlush \in Seq(Records)
  BY TakenType DEF OnEmit, SchedulerInv, CoreInv, FlushInv, Flush
<1>2. CASE IgnoreRecord \/ DropRecord(r)
  BY <1>1, <1>2 DEF IgnoreRecord, DropRecord, scheduler, OrderInv
<1>3. CASE AddRecord(r)
  <2>1. Append(buffer, r) \in Seq(Records) /\ accepted' = Append(accepted, r)
        /\ MaybeStartTimer(Append(buffer, r), ops, currentExport, flushing)
    BY <1>1, <1>3, AppendProperties DEF AddRecord
  <2>2. \A t \in Seq(Records) : t \o Append(buffer, r) = Append(t \o buffer, r)
    BY <1>1, ConcatOfAppend
  <2>3. CASE flushing
    <3>1. ops' = ops /\ buffer' = Append(buffer, r)
      BY <2>1, <2>3, MaybeStartTimerInFlush
    <3>2. Taken(ops) \o flush.toFlush \in Seq(Records)
      BY <1>1, ConcatProperties
    <3>3. (Taken(ops) \o flush.toFlush) \o Append(buffer, r)
            = Append((Taken(ops) \o flush.toFlush) \o buffer, r)
      BY <2>2, <3>2
    <3> QED
      BY <1>1, <2>1, <3>1, <3>3 DEF OrderInv
  <2>4. CASE ~flushing
    <3>1. flush.toFlush = <<>> /\ Taken(ops) \o buffer = accepted
      BY <2>4, IdleOrder
    <3>2. Taken(ops') \o buffer' = Taken(ops) \o Append(buffer, r)
      BY <1>1, <2>1, MaybeStartTimerOrder
    <3>3. Taken(ops') \o buffer' = accepted'
      BY <1>1, <2>1, <2>2, <3>1, <3>2
    <3> QED
      BY <1>1, <3>1, <3>3, IdleOrderNext
  <2> QED
    BY <2>3, <2>4 DEF SchedulerInv, CoreInv
<1> QED
  BY <1>2, <1>3 DEF OnEmit

LEMMA HandleCompletionOrder ==
  ASSUME SchedulerInv, SchedulerInv', HistoryType, OrderInv,
         NEW o \in DOMAIN ops, HandleCompletion(o)
  PROVE  OrderInv'
<1> DEFINE os == [ops EXCEPT ![o] = Handled(@)]
<1>1. flush' = flush /\ ops' \in Seq(Op) /\ ops \in Seq(Op) /\ buffer \in Seq(Records)
      /\ Taken(ops) \in Seq(Records) /\ ops[o] \in Op /\ accepted' = accepted
  BY TakenType DEF HandleCompletion, SchedulerInv, CoreInv, history
<1>2. Taken(os) = Taken(ops)
  BY <1>1, EditKeepsRecords, TakenEdited
<1>3. os \in Seq(Op)
  BY <1>1, EditFacts
<1>4. MaybeStartTimer(buffer, os, 0, flushing)
  BY DEF HandleCompletion
<1> HIDE DEF os
<1>5. CASE flushing
  <2>1. ops' = os /\ buffer' = buffer
    BY <1>4, <1>5, MaybeStartTimerInFlush
  <2> QED
    BY <1>1, <1>2, <2>1 DEF OrderInv
<1>6. CASE ~flushing
  <2>1. flush.toFlush = <<>> /\ Taken(ops) \o buffer = accepted
    BY <1>6, IdleOrder
  <2>2. Taken(ops') \o buffer' = Taken(os) \o buffer
    BY <1>1, <1>3, <1>4, MaybeStartTimerOrder
  <2> QED
    BY <1>1, <1>2, <2>1, <2>2, IdleOrderNext
<1> QED
  BY <1>5, <1>6 DEF SchedulerInv, CoreInv

LEMMA OrderStep ==
  ASSUME ~flushRejected', SchedulerInv, SchedulerInv', HistoryType, OrderInv,
         [Next]_vars
  PROVE  OrderInv'
<1>1. ops \in Seq(Op) /\ buffer \in Seq(Records)
  BY DEF SchedulerInv, CoreInv
<1>2. ASSUME NEW r \in Records, OnEmit(r) PROVE OrderInv'
  BY <1>2, OnEmitOrder
<1>3. CASE ForceFlush \/ Shutdown
  BY <1>3, FlushAllOrder DEF ForceFlush, Shutdown, history
<1>4. CASE FlushAfterInFlight \/ FlushCompleted
  BY <1>4, NextBatchOrder DEF FlushAfterInFlight, FlushCompleted, history
<1>5. ASSUME NEW o \in DOMAIN ops, HandleCompletion(o) PROVE OrderInv'
  BY <1>5, HandleCompletionOrder
<1>6. ASSUME NEW o \in DOMAIN ops,
             \/ CallExporter(o) \/ ExportTimeout(o)
             \/ ExporterResult(o) \/ ResourceFails(o)
      PROVE  OrderInv'
  <2>1. ops[o] \in Op
    BY <1>1
  <2>2. UNCHANGED <<buffer, flush, accepted>>
    BY <1>6 DEF CallExporter, ExportTimeout, ExporterResult, ResourceFails,
       scheduler, history
  <2>3. \E y : y.records = ops[o].records /\ ops' = [ops EXCEPT ![o] = y]
    BY <1>6, <2>1, EditKeepsRecords
       DEF CallExporter, ExportTimeout, ExporterResult, ResourceFails
  <2>4. PICK y : y.records = ops[o].records /\ ops' = [ops EXCEPT ![o] = y]
    BY <2>3
  <2>5. Taken([ops EXCEPT ![o] = y]) = Taken(ops)
    BY <1>1, <2>4, TakenEdited
  <2> QED
    BY <2>2, <2>4, <2>5 DEF OrderInv
<1>7. CASE TimerFires
  <2>1. ~flushing /\ timer
    BY <1>7 DEF TimerFires, SchedulerInv, CoreInv, TimerMeansWork
  <2>2. flush.toFlush = <<>> /\ Taken(ops) \o buffer = accepted
    BY <2>1, IdleOrder
  <2>3. flush' = flush /\ accepted' = accepted /\ ops' \in Seq(Op)
    BY <1>7 DEF TimerFires, history, SchedulerInv, CoreInv
  <2>4. Taken(ops') \o buffer' = Taken(ops) \o buffer
    BY <1>1, <1>7, TakenBatch DEF TimerFires, ExportOneBatch
  <2> QED
    BY <2>2, <2>3, <2>4, IdleOrderNext
<1>8. CASE FlushScheduled \/ ExporterFlushed \/ SpeedUpFlushed
  <2>1. \E pc : flush' = [flush EXCEPT !.pc = pc] /\ pc # "idle"
    BY <1>8 DEF FlushScheduled, ExporterFlushed, SpeedUpFlushed
  <2>2. flush'.toFlush = flush.toFlush /\ flush'.pc # "idle"
    BY <2>1 DEF SchedulerInv, FlushInv, Flush
  <2> QED
    BY <1>8, <2>2 DEF FlushScheduled, ExporterFlushed, SpeedUpFlushed, scheduler,
       history, OrderInv
<1>9. CASE \/ ForceFlushJoins \/ ShutdownFlushed \/ ExporterShutdownSettles
           \/ ResourceSettles \/ UNCHANGED vars
  BY <1>9 DEF ForceFlushJoins, ShutdownFlushed, ExporterShutdownSettles,
     ResourceSettles, scheduler, history, vars, OrderInv
<1> QED
  BY <1>2, <1>3, <1>4, <1>5, <1>6, <1>7, <1>8, <1>9
     DEF Next, Application, Reaction, TimerTask, ExporterFlush, Environment,
         ExporterFlushRejected, SpeedUpRejected

LEMMA OrderInit == Init => OrderInv
<1> SUFFICES ASSUME Init PROVE OrderInv
  OBVIOUS
<1>1. RecordsOf(ops) = <<>>
  BY DEF Init, RecordsOf
<1>2. Taken(ops) = <<>>
  BY <1>1 DEF Taken, FlattenSeq
<1> QED
  BY <1>2 DEF Init, Idle, OrderInv

\* A rejection is never forgotten.
LEMMA RejectionStays == HistoryType /\ flushRejected /\ [Next]_vars => flushRejected'
BY DEF HistoryType, Next, Application, Reaction, TimerTask, ExporterFlush,
   Environment, vars, history, OnEmit, ForceFlush, ForceFlushJoins, Shutdown,
   CallExporter, HandleCompletion, FlushAfterInFlight, FlushScheduled,
   FlushCompleted, ShutdownFlushed, TimerFires, ExportTimeout, ExporterResult,
   ExporterFlushed, ExporterFlushRejected, SpeedUpFlushed, SpeedUpRejected,
   ExporterShutdownSettles, ResourceSettles, ResourceFails

\* Until exporter.forceFlush() is rejected, every accepted record is in exactly
\* one operation, held by the flush or in the buffer, in the order of
\* acceptance, although flush and timer cut from different arrays
\* (BatchLogRecordProcessorBase.ts:224, 298).
THEOREM RecordsGoOutOnceInOrder == Spec => []ExactlyOnceInOrder
<1>1. Init => OrderInv
  BY OrderInit
<1>2. (flushRejected \/ OrderInv) => ExactlyOnceInOrder
  BY DEF OrderInv, ExactlyOnceInOrder, Taken, RecordsOf
<1>3. SchedulerInv /\ SchedulerInv' /\ HistoryType /\ (flushRejected \/ OrderInv)
        /\ [Next]_vars => (flushRejected \/ OrderInv)'
  BY OrderStep, RejectionStays
<1> QED
  BY <1>1, <1>2, <1>3, SchedulerIsConsistent, PTL DEF Spec

-------------------------------------------------------------------------------
\* A shutdown that runs its flush

\* It empties the buffer, and nothing fills it again.
EmptiedInv == ShutdownRan => ShutdownCalled /\ buffer = <<>>

LEMMA EmptiedStep ==
  ASSUME SchedulerInv, HistoryType, EmptiedInv, [Next]_vars
  PROVE  EmptiedInv'
<1>1. calls \in Seq(Call) /\ DOMAIN calls = 1..Len(calls) /\ Len(calls) \in Nat
  BY DEF HistoryType
<1>2. ASSUME \A c \in DOMAIN calls' :
               calls'[c].kind = "shutdown" /\ calls'[c].ran =>
                 c \in DOMAIN calls /\ calls[c].kind = "shutdown" /\ calls[c].ran,
             ShutdownCalled => buffer' = buffer /\ ShutdownCalled'
      PROVE  EmptiedInv'
  BY <1>2 DEF EmptiedInv, ShutdownRan
<1>3. ASSUME NEW c \in Nat, NEW result, calls' = [calls EXCEPT ![c].result = result]
      PROVE  \A d \in DOMAIN calls' :
               calls'[d].kind = "shutdown" /\ calls'[d].ran =>
                 d \in DOMAIN calls /\ calls[d].kind = "shutdown" /\ calls[d].ran
  <2> TAKE d \in DOMAIN calls'
  <2>1. d \in DOMAIN calls /\ calls[d] \in Call
    BY <1>1, <1>3
  <2>2. calls'[d].kind = calls[d].kind /\ calls'[d].ran = calls[d].ran
    BY <1>1, <1>3, <2>1 DEF Call
  <2> QED
    BY <2>1, <2>2
<1>4. ASSUME NEW kind, NEW result, NEW ran \in BOOLEAN,
             calls' = Append(calls, NewCall(kind, result, ran)), kind # "shutdown" \/ ~ran
      PROVE  \A d \in DOMAIN calls' :
               calls'[d].kind = "shutdown" /\ calls'[d].ran =>
                 d \in DOMAIN calls /\ calls[d].kind = "shutdown" /\ calls[d].ran
  BY <1>1, <1>4 DEF NewCall
<1>5. ASSUME NEW q, NEW os, NEW current, NEW busy, ShutdownCalled,
             MaybeStartTimer(q, os, current, busy)
      PROVE  buffer' = q
  BY <1>5 DEF MaybeStartTimer, MustWait
<1>6. ASSUME NEW r \in Records, OnEmit(r) PROVE EmptiedInv'
  <2>1. calls' = calls /\ shut' = shut
    BY <1>6 DEF OnEmit
  <2>2. ShutdownCalled => buffer' = buffer
    BY <1>6 DEF OnEmit, IgnoreRecord, DropRecord, AddRecord, scheduler
  <2> QED
    BY <2>1, <2>2 DEF EmptiedInv, ShutdownRan, ShutdownCalled
<1>7. CASE ForceFlush
  <2>1. ~ShutdownCalled
    BY <1>7 DEF ForceFlush
  <2>3. \E result : \E ran \in BOOLEAN : calls' = Append(calls, NewCall("forceFlush", result, ran))
    BY <1>7 DEF ForceFlush, FlushAll, SkipFlush, FlushNothing, FlushBuffer, FlushInFlight
  <2> QED
    BY <1>2, <1>4, <2>1, <2>3
<1>8. CASE Shutdown
  <2>1. ShutdownCalled'
    BY <1>8 DEF Shutdown, ShutdownCalled
  <2>2. CASE SkipFlush("shutdown")
    <3>1. ~ShutdownCalled
      BY <1>8 DEF Shutdown
    <3> QED
      BY <1>2, <1>4, <2>2, <3>1 DEF SkipFlush
  <2>3. CASE ~SkipFlush("shutdown")
    <3>1. buffer' = <<>>
      BY <1>8, <2>3 DEF Shutdown, FlushAll, FlushNothing, FlushBuffer, FlushInFlight
    <3> QED
      BY <2>1, <3>1 DEF EmptiedInv
  <2> QED
    BY <2>2, <2>3
<1>9. CASE ForceFlushJoins
  <2>1. UNCHANGED <<buffer, shut>>
    BY <1>9 DEF ForceFlushJoins, scheduler
  <2> QED
    BY <1>2, <1>4, <1>9, <2>1 DEF ForceFlushJoins, ShutdownCalled
<1>10. CASE FlushAfterInFlight \/ FlushCompleted \/ SpeedUpRejected
  <2>1. NextBatch /\ UNCHANGED shut
    BY <1>10 DEF FlushAfterInFlight, FlushCompleted, SpeedUpRejected
  <2>2. flush.call \in Nat
    BY DEF SchedulerInv, FlushInv, Flush
  <2>3. ShutdownCalled => buffer' = buffer
    BY <1>5, <2>1 DEF NextBatch
  <2>4. calls' = calls \/ calls' = [calls EXCEPT ![flush.call].result = "resolved"]
    BY <2>1 DEF NextBatch
  <2> QED
    BY <1>2, <1>3, <2>1, <2>2, <2>3, <2>4 DEF ShutdownCalled
<1>11. CASE ExporterFlushRejected
  <2>1. flush.call \in Nat
    BY DEF SchedulerInv, FlushInv, Flush
  <2> QED
    BY <1>2, <1>3, <1>11, <2>1 DEF ExporterFlushRejected, scheduler, ShutdownCalled
<1>12. ASSUME NEW o \in DOMAIN ops, HandleCompletion(o) PROVE EmptiedInv'
  <2>1. ShutdownCalled => buffer' = buffer
    BY <1>5, <1>12 DEF HandleCompletion
  <2> QED
    BY <1>12, <2>1 DEF HandleCompletion, EmptiedInv, ShutdownRan, ShutdownCalled
<1>13. CASE TimerFires
  <2>1. ~ShutdownCalled
    BY <1>13 DEF TimerFires, SchedulerInv, CoreInv, TimerMeansWork
  <2> QED
    BY <1>13, <2>1 DEF TimerFires, EmptiedInv, ShutdownRan, ShutdownCalled
<1>14. CASE ShutdownFlushed \/ ExporterShutdownSettles
  BY <1>14 DEF ShutdownFlushed, ShutdownReady, ExporterShutdownSettles, scheduler,
     EmptiedInv, ShutdownRan, ShutdownCalled
<1>15. ASSUME NEW o \in DOMAIN ops,
              \/ CallExporter(o) \/ ExportTimeout(o)
              \/ ExporterResult(o) \/ ResourceFails(o)
       PROVE  EmptiedInv'
  BY <1>15 DEF CallExporter, ExportTimeout, ExporterResult, ResourceFails, scheduler,
     EmptiedInv, ShutdownRan, ShutdownCalled
<1>16. CASE \/ FlushScheduled \/ ExporterFlushed \/ SpeedUpFlushed
            \/ ResourceSettles \/ UNCHANGED vars
  BY <1>16 DEF FlushScheduled, ExporterFlushed, SpeedUpFlushed, ResourceSettles,
     scheduler, vars, EmptiedInv, ShutdownRan, ShutdownCalled
<1> QED
  BY <1>6, <1>7, <1>8, <1>9, <1>10, <1>11, <1>12, <1>13, <1>14, <1>15, <1>16
     DEF Next, Application, Reaction, TimerTask, ExporterFlush, Environment

\* A shutdown that found no flush in progress leaves no record in the buffer,
\* whatever was emitted, exported or rejected around it
\* (BatchLogRecordProcessorBase.ts:209).
THEOREM ShutdownEmptiesBuffer == Spec => []ShutdownThatRanSendsAll
<1>1. Init => EmptiedInv
  BY DEF Init, EmptiedInv, ShutdownRan
<1>2. EmptiedInv => ShutdownThatRanSendsAll
  BY DEF EmptiedInv, ShutdownThatRanSendsAll, ShutdownSendsAll
<1>3. SchedulerInv /\ HistoryType /\ EmptiedInv /\ [Next]_vars => EmptiedInv'
  BY EmptiedStep
<1> QED
  BY <1>1, <1>2, <1>3, SchedulerIsConsistent, PTL DEF Spec

-------------------------------------------------------------------------------
\* What a resolved flush has exported

Earlier(n) == ToSet(SubSeq(accepted, 1, n))

\* The first n records accepted have left the buffer ...
Gone(n) ==
  /\ n <= Len(accepted)
  /\ Earlier(n) \subseteq emitted
  /\ Earlier(n) \cap ToSet(buffer) = {}

\* ... and their exports are over.
Over(n) ==
  /\ Earlier(n) \cap ToSet(flush.toFlush) = {}
  /\ \A o \in DOMAIN ops : ~ops[o].completed => Earlier(n) \cap ToSet(ops[o].records) = {}

CallInv ==
  \A c \in DOMAIN calls : calls[c].ran =>
    /\ Gone(calls[c].before)
    /\ calls[c].result = "resolved" => Over(calls[c].before)

\* What a step does to the records on their way.
Emitting == ToSet(buffer) \cup (emitted' \ emitted)

Arrivals == Emitting \cup ToSet(flush.toFlush)

OpsFollow(os, from) ==
  /\ \A o \in DOMAIN os :
       /\ o \in DOMAIN ops' /\ ops'[o].records = os[o].records
       /\ os[o].completed => ops'[o].completed
  /\ \A o \in DOMAIN ops' : o \notin DOMAIN os => ToSet(ops'[o].records) \subseteq from

MovesRecords ==
  /\ OpsFollow(ops, Arrivals)
  /\ ToSet(flush'.toFlush) \subseteq Arrivals
  /\ ToSet(buffer') \subseteq Emitting
  /\ emitted \subseteq emitted'
  /\ accepted' = accepted \/ \E r \in Records : accepted' = Append(accepted, r)

LEMMA BatchCut ==
  ASSUME NEW q \in Seq(Records)
  PROVE  ToSet(Batch(q)) \subseteq ToSet(q) /\ ToSet(Rest(q)) \subseteq ToSet(q)
<1>1. BatchEnd(q) \in 0..Len(q) /\ Len(q) \in Nat
  BY BatchEndFacts
<1>2. \A i, j \in Nat : i >= 1 /\ j <= Len(q) => ToSet(SubSeq(q, i, j)) \subseteq ToSet(q)
  BY ToSetFacts
<1> QED
  BY <1>1, <1>2 DEF Batch, Rest

LEMMA AppendFollows ==
  ASSUME NEW os \in Seq(Op), NEW q \in Seq(Records), NEW watched \in BOOLEAN,
         NEW from, ToSet(q) \subseteq from,
         ops' = Append(os, NewOp(Batch(q), watched))
  PROVE  OpsFollow(os, from)
<1> DEFINE new == NewOp(Batch(q), watched)
<1>1. new \in Op /\ new.records = Batch(q)
  BY NewOpFacts DEF NewOp
<1> HIDE DEF new
<1>2. /\ DOMAIN os = 1..Len(os) /\ DOMAIN ops' = 1..Len(os) + 1
      /\ \A o \in 1..Len(os) : ops'[o] = os[o]
      /\ ops'[Len(os) + 1] = new
      /\ Len(os) \in Nat
  BY <1>1, AppendProperties, LenProperties DEF new
<1>3. \A o \in DOMAIN ops' : o \notin DOMAIN os => o = Len(os) + 1
  BY <1>2
<1>4. ToSet(new.records) \subseteq from
  BY <1>1, BatchCut
<1> QED
  BY <1>2, <1>3, <1>4 DEF OpsFollow

LEMMA MaybeStartTimerMoves ==
  ASSUME NEW q \in Seq(Records), NEW os \in Seq(Op), NEW current, NEW busy,
         NEW from, ToSet(q) \subseteq from, MaybeStartTimer(q, os, current, busy)
  PROVE  OpsFollow(os, from) /\ ToSet(buffer') \subseteq ToSet(q)
<1>1. CASE ExportOneBatch(q, os)
  BY <1>1, AppendFollows, BatchCut DEF ExportOneBatch
<1>2. CASE ops' = os /\ buffer' = q
  BY <1>2 DEF OpsFollow
<1> QED
  BY <1>1, <1>2 DEF MaybeStartTimer

\* One operation is rewritten before the others follow.
LEMMA EditFollows ==
  ASSUME ops \in Seq(Op), NEW o \in DOMAIN ops, NEW y,
         y.records = ops[o].records, ops[o].completed => y.completed,
         NEW from, OpsFollow([ops EXCEPT ![o] = y], from)
  PROVE  OpsFollow(ops, from)
<1> DEFINE os == [ops EXCEPT ![o] = y]
<1>1. /\ DOMAIN os = DOMAIN ops
      /\ \A p \in DOMAIN ops : /\ os[p].records = ops[p].records
                               /\ ops[p].completed => os[p].completed
  OBVIOUS
<1> HIDE DEF os
<1>2. OpsFollow(os, from)
  BY DEF os
<1> QED
  BY <1>1, <1>2 DEF OpsFollow

LEMMA FlushAllMoves ==
  ASSUME SchedulerInv, NEW kind, FlushAll(kind), UNCHANGED history
  PROVE  MovesRecords
<1>1. ops \in Seq(Op) /\ buffer \in Seq(Records) /\ ToSet(<<>>) = {}
  BY DEF SchedulerInv, CoreInv, ToSet
<1>2. CASE SkipFlush(kind) \/ FlushNothing(kind)
  BY <1>1, <1>2 DEF SkipFlush, FlushNothing, scheduler, history, MovesRecords,
     OpsFollow, Arrivals, Emitting
<1>3. CASE FlushBuffer(kind)
  <2>1. OpsFollow(ops, Arrivals)
    BY <1>1, <1>3, AppendFollows DEF FlushBuffer, StartBatch, Arrivals, Emitting
  <2>2. ToSet(flush'.toFlush) \subseteq Arrivals
    BY <1>1, <1>3, BatchCut DEF FlushBuffer, StartBatch, Arrivals, Emitting
  <2> QED
    BY <1>1, <1>3, <2>1, <2>2 DEF FlushBuffer, history, MovesRecords
<1>4. CASE FlushInFlight(kind)
  BY <1>1, <1>4 DEF FlushInFlight, history, MovesRecords, OpsFollow, Arrivals, Emitting
<1> QED
  BY <1>2, <1>3, <1>4 DEF FlushAll

LEMMA NextBatchMoves ==
  ASSUME SchedulerInv, NextBatch, UNCHANGED history
  PROVE  MovesRecords
<1>1. /\ ops \in Seq(Op) /\ buffer \in Seq(Records) /\ flush.toFlush \in Seq(Records)
      /\ ToSet(<<>>) = {}
  BY DEF SchedulerInv, CoreInv, FlushInv, Flush, ToSet
<1>2. CASE StartBatch(flush.toFlush, flush.call) /\ UNCHANGED buffer
  <2>1. OpsFollow(ops, Arrivals)
    BY <1>1, <1>2, AppendFollows DEF StartBatch, Arrivals
  <2>2. ToSet(flush'.toFlush) \subseteq Arrivals
    BY <1>1, <1>2, BatchCut DEF StartBatch, Arrivals
  <2> QED
    BY <1>2, <2>1, <2>2 DEF history, MovesRecords, Emitting
<1>3. CASE flush' = Idle /\ MaybeStartTimer(buffer, ops, 0, FALSE)
  <2>1. OpsFollow(ops, Arrivals) /\ ToSet(buffer') \subseteq ToSet(buffer)
    BY <1>1, <1>3, MaybeStartTimerMoves DEF Arrivals, Emitting
  <2> QED
    BY <1>1, <1>3, <2>1 DEF Idle, history, MovesRecords, Emitting
<1> QED
  BY <1>2, <1>3 DEF NextBatch

LEMMA OnEmitMoves ==
  ASSUME SchedulerInv, NEW r \in Records, OnEmit(r)
  PROVE  MovesRecords
<1>1. /\ ops \in Seq(Op) /\ buffer \in Seq(Records) /\ r \in emitted' \ emitted
      /\ emitted \subseteq emitted' /\ flush' = flush
  BY DEF SchedulerInv, CoreInv, OnEmit
<1>2. CASE IgnoreRecord \/ DropRecord(r)
  BY <1>1, <1>2 DEF IgnoreRecord, DropRecord, scheduler, MovesRecords, OpsFollow,
     Arrivals, Emitting
<1>3. CASE AddRecord(r)
  <2>1. /\ Append(buffer, r) \in Seq(Records)
        /\ ToSet(Append(buffer, r)) = ToSet(buffer) \cup {r}
    BY <1>1, AppendProperties, ToSetFacts
  <2>2. MaybeStartTimer(Append(buffer, r), ops, currentExport, flushing)
    BY <1>3 DEF AddRecord
  <2>3. /\ OpsFollow(ops, Arrivals)
        /\ ToSet(buffer') \subseteq ToSet(Append(buffer, r))
    BY <1>1, <2>1, <2>2, MaybeStartTimerMoves DEF Arrivals, Emitting
  <2> QED
    BY <1>1, <1>3, <2>1, <2>3 DEF AddRecord, MovesRecords, Arrivals, Emitting
<1> QED
  BY <1>2, <1>3 DEF OnEmit

LEMMA StepMoves ==
  ASSUME ~flushRejected', SchedulerInv, HistoryType, [Next]_vars
  PROVE  MovesRecords
<1>1. ops \in Seq(Op) /\ buffer \in Seq(Records)
  BY DEF SchedulerInv, CoreInv
<1>2. ASSUME UNCHANGED <<ops, buffer, emitted, accepted>>, flush'.toFlush = flush.toFlush
      PROVE  MovesRecords
  BY <1>2 DEF MovesRecords, OpsFollow, Arrivals, Emitting
<1>3. ASSUME NEW r \in Records, OnEmit(r) PROVE MovesRecords
  BY <1>3, OnEmitMoves
<1>4. CASE ForceFlush \/ Shutdown
  BY <1>4, FlushAllMoves DEF ForceFlush, Shutdown
<1>5. CASE FlushAfterInFlight \/ FlushCompleted
  BY <1>5, NextBatchMoves DEF FlushAfterInFlight, FlushCompleted
<1>6. ASSUME NEW o \in DOMAIN ops, HandleCompletion(o) PROVE MovesRecords
  <2> DEFINE y == Handled(ops[o])
             os == [ops EXCEPT ![o] = y]
  <2>1. ops[o] \in Op
    BY <1>1
  <2>2. /\ y \in Op /\ y.records = ops[o].records
        /\ y.completed = ops[o].completed
    BY <2>1, EditFacts, EditKeepsRecords
  <2> HIDE DEF y
  <2>3. os \in Seq(Op)
    BY <1>1, <2>2
  <2>4. MaybeStartTimer(buffer, os, 0, flushing)
    BY <1>6 DEF HandleCompletion, y
  <2>5. OpsFollow(os, Arrivals) /\ ToSet(buffer') \subseteq ToSet(buffer)
    <3> HIDE DEF os
    <3> QED
      BY <1>1, <2>3, <2>4, MaybeStartTimerMoves DEF Arrivals, Emitting
  <2>6. OpsFollow(ops, Arrivals)
    BY <1>1, <2>2, <2>5, EditFollows
  <2> QED
    BY <1>6, <2>5, <2>6 DEF HandleCompletion, history, MovesRecords, Arrivals, Emitting
<1>7. ASSUME NEW o \in DOMAIN ops,
             \/ CallExporter(o) \/ ExportTimeout(o)
             \/ ExporterResult(o) \/ ResourceFails(o)
      PROVE  MovesRecords
  <2>1. ops[o] \in Op
    BY <1>1
  <2>2. UNCHANGED <<buffer, flush, emitted, accepted>>
    BY <1>7 DEF CallExporter, ExportTimeout, ExporterResult, ResourceFails,
       scheduler, history
  <2>3. PICK y \in {Exporting(ops[o]), Lost(ops[o]), Reported(ops[o]), TimedOut(ops[o])} :
          ops' = [ops EXCEPT ![o] = y]
    BY <1>7 DEF CallExporter, ExportTimeout, ExporterResult, ResourceFails
  <2>4. y.records = ops[o].records /\ (ops[o].completed => y.completed)
    <3>1. \A z \in {Exporting(ops[o]), Lost(ops[o]), Reported(ops[o]), TimedOut(ops[o])} :
            z.records = ops[o].records
      BY <2>1, EditKeepsRecords
    <3>2. \A z \in {Exporting(ops[o]), Lost(ops[o]), Reported(ops[o]), TimedOut(ops[o])} :
            ops[o].completed => z.completed
      BY <2>1, EditFacts
    <3> QED
      BY <3>1, <3>2
  <2>5. OpsFollow([ops EXCEPT ![o] = y], Arrivals)
    BY <2>3 DEF OpsFollow
  <2>6. OpsFollow(ops, Arrivals)
    BY <1>1, <2>4, <2>5, EditFollows
  <2> QED
    BY <2>2, <2>6 DEF MovesRecords, Arrivals, Emitting
<1>8. CASE TimerFires
  <2>1. ops' = Append(ops, NewOp(Batch(buffer), TRUE)) /\ buffer' = Rest(buffer)
    BY <1>8 DEF TimerFires, ExportOneBatch
  <2>2. ToSet(buffer) \subseteq Arrivals
    BY DEF Arrivals, Emitting
  <2>3. OpsFollow(ops, Arrivals)
    BY <1>1, <2>1, <2>2, AppendFollows
  <2>4. ToSet(buffer') \subseteq ToSet(buffer)
    BY <1>1, <2>1, BatchCut
  <2> QED
    BY <1>8, <2>3, <2>4 DEF TimerFires, history, MovesRecords, Arrivals, Emitting
<1>9. CASE FlushScheduled \/ ExporterFlushed \/ SpeedUpFlushed
  <2>1. flush'.toFlush = flush.toFlush
    BY <1>9 DEF FlushScheduled, ExporterFlushed, SpeedUpFlushed, SchedulerInv, FlushInv, Flush
  <2> QED
    BY <1>2, <1>9, <2>1 DEF FlushScheduled, ExporterFlushed, SpeedUpFlushed,
       scheduler, history
<1>10. CASE \/ ForceFlushJoins \/ ShutdownFlushed \/ ExporterShutdownSettles
            \/ ResourceSettles \/ UNCHANGED vars
  BY <1>2, <1>10 DEF ForceFlushJoins, ShutdownFlushed, ExporterShutdownSettles,
     ResourceSettles, scheduler, history, vars
<1> QED
  BY <1>3, <1>4, <1>5, <1>6, <1>7, <1>8, <1>9, <1>10
     DEF Next, Application, Reaction, TimerTask, ExporterFlush, Environment,
         ExporterFlushRejected, SpeedUpRejected

LEMMA GoneKept ==
  ASSUME SchedulerInv, HistoryType, NEW n \in Nat, Gone(n), MovesRecords
  PROVE  Gone(n)' /\ Earlier(n)' = Earlier(n)
<1>1. accepted \in Seq(Records) /\ Len(accepted) \in Nat /\ n <= Len(accepted)
  BY DEF HistoryType, Gone
<1>2. Earlier(n)' = Earlier(n) /\ n <= Len(accepted')
  <2>1. CASE accepted' = accepted
    BY <1>1, <2>1 DEF Earlier
  <2>2. ASSUME NEW r \in Records, accepted' = Append(accepted, r)
        PROVE  Earlier(n)' = Earlier(n) /\ n <= Len(accepted')
    <3>1. SubSeq(Append(accepted, r), 1, n) = SubSeq(accepted, 1, n)
      <4>1. 1 \in Nat /\ 1 >= 1
        OBVIOUS
      <4> QED
        BY <1>1, <4>1, ToSetFacts
    <3>2. Len(accepted') = Len(accepted) + 1
      BY <1>1, <2>2, AppendProperties
    <3>3. n <= Len(accepted')
      BY <1>1, <3>2
    <3>4. Earlier(n)' = Earlier(n)
      BY <2>2, <3>1 DEF Earlier
    <3> QED
      BY <3>3, <3>4
  <2> QED
    BY <2>1, <2>2 DEF MovesRecords
<1>3. Earlier(n) \cap Emitting = {}
  BY DEF Gone, Emitting
<1>4. Earlier(n)' \subseteq emitted' /\ Earlier(n)' \cap ToSet(buffer') = {}
  BY <1>2, <1>3 DEF Gone, MovesRecords
<1> QED
  BY <1>2, <1>4 DEF Gone

LEMMA OverKept ==
  ASSUME SchedulerInv, HistoryType, NEW n \in Nat, Gone(n), MovesRecords,
         Earlier(n) \cap ToSet(flush.toFlush) = {},
         \A o \in DOMAIN ops :
           ~ops[o].completed => Earlier(n) \cap ToSet(ops[o].records) = {}
  PROVE  Over(n)'
<1>1. Earlier(n)' = Earlier(n)
  BY GoneKept
<1>2. Earlier(n) \cap Arrivals = {}
  BY DEF Gone, Arrivals, Emitting
<1>3. Earlier(n)' \cap ToSet(flush'.toFlush) = {}
  BY <1>1, <1>2 DEF MovesRecords
<1>4. ASSUME NEW o \in DOMAIN ops', ~ops'[o].completed
      PROVE  Earlier(n)' \cap ToSet(ops'[o].records) = {}
  <2>1. CASE o \in DOMAIN ops
    BY <1>1, <1>4, <2>1 DEF MovesRecords, OpsFollow
  <2>2. CASE o \notin DOMAIN ops
    BY <1>1, <1>2, <1>4, <2>2 DEF MovesRecords, OpsFollow
  <2> QED
    BY <2>1, <2>2
<1> QED
  BY <1>3, <1>4 DEF Over

\* A call that is recorded in this step with all that was accepted so far.
LEMMA AllGone ==
  ASSUME SchedulerInv, HistoryType, OfferedEmitted, UNCHANGED history, buffer' = <<>>
  PROVE  Gone(Len(accepted))'
<1>1. accepted \in Seq(Records) /\ SubSeq(accepted, 1, Len(accepted)) = accepted
  BY SubSeqFull DEF HistoryType
<1>2. ToSet(accepted) \subseteq emitted
  BY <1>1, ToSetFacts DEF OfferedEmitted
<1>3. ToSet(buffer') = {}
  BY DEF ToSet
<1>4. accepted' = accepted /\ emitted' = emitted /\ Len(accepted) \in Nat
  BY <1>1 DEF history
<1>5. Earlier(Len(accepted))' = ToSet(accepted)
  BY <1>1, <1>4 DEF Earlier
<1> QED
  BY <1>2, <1>3, <1>4, <1>5 DEF Gone

LEMMA CallInvNext ==
  ASSUME calls' \in Seq(Call),
         \A n \in Nat, c \in DOMAIN calls' :
           calls'[c].ran /\ n = calls'[c].before =>
             Gone(n)' /\ (calls'[c].result = "resolved" => Over(n)')
  PROVE  CallInv'
<1> SUFFICES ASSUME NEW c \in DOMAIN calls', calls'[c].ran
             PROVE  /\ Gone(calls[c].before)'
                    /\ calls'[c].result = "resolved" => Over(calls[c].before)'
  BY DEF CallInv
<1>1. calls'[c] \in Call
  BY ElementOfSeq
<1>2. PICK n \in Nat : n = calls'[c].before
  BY <1>1 DEF Call
<1>3. Gone(n)' /\ (calls'[c].result = "resolved" => Over(n)')
  BY <1>2
<1> QED
  BY <1>2, <1>3 DEF Gone, Over, Earlier

LEMMA OldCalls ==
  ASSUME SchedulerInv, HistoryType, CallInv, MovesRecords,
         NEW c \in DOMAIN calls, calls[c].ran, NEW n \in Nat, n = calls[c].before
  PROVE  Gone(n) /\ Gone(n)' /\ (calls[c].result = "resolved" => Over(n)')
<1>1. Gone(n) /\ (calls[c].result = "resolved" => Over(n))
  BY DEF CallInv
<1>2. Gone(n)'
  BY <1>1, GoneKept
<1>3. calls[c].result = "resolved" => Over(n)'
  BY <1>1, OverKept DEF Over
<1> QED
  BY <1>1, <1>2, <1>3

LEMMA CallsKept ==
  ASSUME SchedulerInv, HistoryType, CallInv, MovesRecords, UNCHANGED calls
  PROVE  CallInv'
<1>1. calls' \in Seq(Call)
  BY DEF HistoryType
<1> QED
  BY <1>1, OldCalls, CallInvNext

LEMMA CallAdded ==
  ASSUME SchedulerInv, HistoryType, HistoryType', CallInv, MovesRecords,
         NEW kind, NEW result, NEW ran,
         calls' = Append(calls, NewCall(kind, result, ran)),
         ran => Gone(Len(accepted))' /\ (result = "resolved" => Over(Len(accepted))'),
         UNCHANGED accepted
  PROVE  CallInv'
<1>1. /\ calls' \in Seq(Call) /\ calls \in Seq(Call)
      /\ DOMAIN calls = 1..Len(calls) /\ Len(calls) \in Nat
  BY DEF HistoryType
<1>2. ASSUME NEW n \in Nat, NEW c \in DOMAIN calls', calls'[c].ran, n = calls'[c].before
      PROVE  Gone(n)' /\ (calls'[c].result = "resolved" => Over(n)')
  <2>1. CASE c \in DOMAIN calls
    <3>1. calls'[c] = calls[c]
      BY <1>1, <2>1
    <3> QED
      BY <1>2, <2>1, <3>1, OldCalls
  <2>2. CASE c \notin DOMAIN calls
    <3>1. calls'[c] = NewCall(kind, result, ran)
      BY <1>1, <2>2
    <3>2. n = Len(accepted) /\ ran /\ calls'[c].result = result
      BY <1>2, <3>1 DEF NewCall
    <3>3. n = Len(accepted')
      BY <3>2
    <3> QED
      BY <3>2, <3>3 DEF Gone, Over, Earlier
  <2> QED
    BY <2>1, <2>2
<1> QED
  BY <1>1, <1>2, CallInvNext

LEMMA FlushAllSends ==
  ASSUME ~flushRejected, SchedulerInv, HistoryType, HistoryType',
         OfferedEmitted, OrderInv, CallInv, NEW kind, FlushAll(kind), UNCHANGED history
  PROVE  CallInv'
<1>1. MovesRecords
  BY FlushAllMoves
<1>2. UNCHANGED accepted
  BY DEF history
<1>3. CASE SkipFlush(kind)
  BY <1>1, <1>2, <1>3, CallAdded DEF SkipFlush
<1>4. CASE FlushNothing(kind)
  <2>1. Gone(Len(accepted))'
    BY <1>4, AllGone DEF FlushNothing
  <2>2. flush.toFlush = <<>> /\ flush' = flush /\ ops' = ops
    BY <1>4, IdleOrder DEF FlushNothing
  <2>3. \A o \in DOMAIN ops : ops[o].completed
    BY <1>4 DEF FlushNothing, SchedulerInv, CoreInv, PendingIs
  <2>4. ToSet(flush'.toFlush) = {}
    BY <2>2 DEF ToSet
  <2>5. Over(Len(accepted))'
    BY <2>2, <2>3, <2>4 DEF Over
  <2> QED
    BY <1>1, <1>2, <1>4, <2>1, <2>5, CallAdded DEF FlushNothing
<1>5. CASE FlushBuffer(kind) \/ FlushInFlight(kind)
  <2>1. Gone(Len(accepted))'
    BY <1>5, AllGone DEF FlushBuffer, FlushInFlight
  <2>2. calls' = Append(calls, NewCall(kind, "pending", TRUE))
    BY <1>5 DEF FlushBuffer, FlushInFlight
  <2> QED
    BY <1>1, <1>2, <2>1, <2>2, CallAdded
<1> QED
  BY <1>3, <1>4, <1>5 DEF FlushAll

LEMMA NextBatchSends ==
  ASSUME ~flushRejected, SchedulerInv, HistoryType, HistoryType', CallInv,
         NextBatch, UNCHANGED history, InFlightReady \/ CompletedReady
  PROVE  CallInv'
<1>1. MovesRecords
  BY NextBatchMoves
<1>2. CASE UNCHANGED calls
  BY <1>1, <1>2, CallsKept
<1>3. CASE flush.toFlush = <<>> /\ calls' = [calls EXCEPT ![flush.call].result = "resolved"]
  <2>1. ops[flush.op].completed /\ currentExport \in {0, flush.op}
    BY DEF SchedulerInv, FlushInv, InFlightReady, CompletedReady
  <2>2. \A o \in DOMAIN ops : ops[o].completed
    BY <2>1 DEF SchedulerInv, CoreInv, PendingIs
  <2>3. ToSet(flush.toFlush) = {}
    BY <1>3 DEF ToSet
  <2>4. /\ calls' \in Seq(Call) /\ calls \in Seq(Call) /\ DOMAIN calls' = DOMAIN calls
    BY <1>3 DEF HistoryType
  <2>5. ASSUME NEW n \in Nat, NEW c \in DOMAIN calls', calls'[c].ran, n = calls'[c].before
        PROVE  Gone(n)' /\ (calls'[c].result = "resolved" => Over(n)')
    <3>1. c \in DOMAIN calls /\ calls[c] \in Call
      BY <2>4
    <3>2. calls'[c].ran = calls[c].ran /\ calls'[c].before = calls[c].before
      BY <1>3, <2>4, <3>1 DEF Call
    <3>3. Gone(n) /\ Gone(n)'
      BY <1>1, <2>5, <3>1, <3>2, OldCalls
    <3>4. Over(n)'
      BY <1>1, <2>2, <2>3, <3>3, OverKept
    <3> QED
      BY <3>3, <3>4
  <2> QED
    BY <2>4, <2>5, CallInvNext
<1> QED
  BY <1>2, <1>3 DEF NextBatch

LEMMA SentStep ==
  ASSUME ~flushRejected, ~flushRejected', SchedulerInv, HistoryType, HistoryType',
         OfferedEmitted, OrderInv, CallInv, [Next]_vars
  PROVE  CallInv'
<1>1. MovesRecords
  BY StepMoves
<1>2. CASE ForceFlush \/ Shutdown
  BY <1>2, FlushAllSends DEF ForceFlush, Shutdown
<1>3. CASE FlushAfterInFlight \/ FlushCompleted
  BY <1>3, NextBatchSends DEF FlushAfterInFlight, FlushCompleted
<1>4. CASE ForceFlushJoins
  BY <1>1, <1>4, CallAdded DEF ForceFlushJoins, history
<1>5. CASE UNCHANGED calls
  BY <1>1, <1>5, CallsKept
<1> QED
  BY <1>2, <1>3, <1>4, <1>5
     DEF Next, Application, Reaction, TimerTask, ExporterFlush, Environment, vars,
         OnEmit, CallExporter, HandleCompletion, FlushScheduled, ShutdownFlushed,
         TimerFires, ExportTimeout, ExporterResult, ExporterFlushed,
         ExporterFlushRejected, SpeedUpFlushed, SpeedUpRejected,
         ExporterShutdownSettles, ResourceSettles, ResourceFails

\* Until exporter.forceFlush() is rejected, a forceFlush or shutdown that ran its
\* flush and resolved has seen the end of the export of every record accepted
\* before the call (BatchLogRecordProcessorBase.ts:224).
THEOREM ResolvedFlushesExported == Spec => []ResolvedFlushExported
<1> DEFINE SentInv == OrderInv /\ CallInv
<1>1. Init => OfferedEmitted /\ SentInv
  BY OrderInit DEF Init, OfferedEmitted, CallInv
<1>2. SchedulerInv /\ HistoryType /\ OfferedEmitted /\ [Next]_vars => OfferedEmitted'
  BY StepRefines
<1>3. SchedulerInv /\ SchedulerInv' /\ HistoryType /\ HistoryType' /\ OfferedEmitted
        /\ (flushRejected \/ SentInv) /\ [Next]_vars => (flushRejected \/ SentInv)'
  BY OrderStep, SentStep, RejectionStays
<1>4. (flushRejected \/ SentInv) => ResolvedFlushExported
  BY DEF CallInv, Gone, Over, Earlier, ResolvedFlushExported
<1> HIDE DEF SentInv
<1> QED
  BY <1>1, <1>2, <1>3, <1>4, SchedulerIsConsistent, PTL DEF Spec
================================================================================
