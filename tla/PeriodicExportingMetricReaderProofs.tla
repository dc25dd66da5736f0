------------------ MODULE PeriodicExportingMetricReaderProofs ------------------
(***************************************************************************)
(* Proofs about PeriodicExportingMetricReader: its types, that runs do not *)
(* overlap, that a flush waits for a run that began after it, and that     *)
(* nothing is exported after exporter.shutdown().                          *)
(***************************************************************************)
EXTENDS PeriodicExportingMetricReader, TLAPS

Phases == {"collecting", "resource", "exporting"} \cup Ended
Stages == {"ongoing", "run", "exporterFlush", "exporterShutdown", "over", "stopped"}

\* A call that awaits something else keeps its kind and the runs before it.
LEMMA AwaitsFields ==
  ASSUME NEW x \in Call, NEW pc \in Stages, NEW run \in Nat
  PROVE  /\ Awaits(x, pc, run) \in Call
         /\ Awaits(x, pc, run).pc = pc
         /\ Awaits(x, pc, run).waits = run
         /\ Awaits(x, pc, run).kind = x.kind
         /\ Awaits(x, pc, run).before = x.before
BY DEF Awaits, Call, Stages

\* So does a call that settles.
LEMMA SettledFields ==
  ASSUME NEW x \in Call, NEW pc \in Stages, NEW result \in {"resolved", "rejected"}
  PROVE  /\ Settled(x, pc, result) \in Call
         /\ Settled(x, pc, result).pc = pc
         /\ Settled(x, pc, result).waits = x.waits
         /\ Settled(x, pc, result).kind = x.kind
         /\ Settled(x, pc, result).before = x.before
BY DEF Settled, Call, Stages

\* And one whose timeout has passed.
LEMMA RejectedFields ==
  ASSUME NEW x \in Call
  PROVE  /\ [x EXCEPT !.result = "rejected"] \in Call
         /\ [x EXCEPT !.result = "rejected"].pc = x.pc
         /\ [x EXCEPT !.result = "rejected"].waits = x.waits
         /\ [x EXCEPT !.result = "rejected"].kind = x.kind
         /\ [x EXCEPT !.result = "rejected"].before = x.before
BY DEF Call

-------------------------------------------------------------------------------
\* A run leaves its collection and may change only until it has ended.
Advances(r, y) ==
  y \in Run /\ y.phase # "collecting" /\ (RunEnded(r) => y.phase \in Ended)

\* Some caller is about to look for a run to join.
SomeoneResumes == \E c \in DOMAIN calls : ResumeReady(c)

\* How the steps of the system change runs.
RunsStep ==
  \/ UNCHANGED <<runs, ongoing>>
  \/ FinallyReady /\ ongoing' = 0 /\ UNCHANGED <<runs, calls>>
  \/ ongoing = 0 /\ StartRun /\ (SomeoneResumes \/ (interval /\ UNCHANGED calls))
  \/ /\ UNCHANGED <<ongoing, calls>>
     /\ \E r \in DOMAIN runs : \E y \in Run :
          /\ Advances(r, y)
          /\ runs' = [runs EXCEPT ![r] = y]
          /\ runs[r].phase = "collecting" => ~SomeoneResumes

\* The next batch is a legal value of a run.
LEMMA NextBatchAdvances ==
  ASSUME BoundAssumption, runs \in Seq(Run),
         NEW r \in DOMAIN runs, ~RunEnded(r), NEW n \in 0..MaxBatches,
         NextBatch(r, n)
  PROVE  \E y \in Run : Advances(r, y) /\ runs' = [runs EXCEPT ![r] = y]
<1> DEFINE done == [phase |-> "over", left |-> 0]
           next == [phase |-> "exporting", left |-> n - 1]
<1>1. CASE n = 0 /\ runs' = [runs EXCEPT ![r] = done]
  <2>1. done \in Run
    BY DEF Run, Ended, BoundAssumption
  <2>. QED
    BY <1>1, <2>1 DEF Advances
<1>2. CASE n > 0 /\ runs' = [runs EXCEPT ![r] = next]
  <2>1. next \in Run
    BY <1>2 DEF Run, Ended, BoundAssumption
  <2>. QED
    BY <1>2, <2>1 DEF Advances
<1>. QED
  BY <1>1, <1>2 DEF NextBatch

\* A run that gives up, or ends otherwise, does too.
LEMMA EndAdvances ==
  ASSUME BoundAssumption, NEW r
  PROVE  /\ Advances(r, [phase |-> "over", left |-> 0])
         /\ Advances(r, [phase |-> "timedOut", left |-> 0])
BY DEF Advances, Run, Ended, BoundAssumption

-------------------------------------------------------------------------------
\* How a step of call c changes it: its timeout passes, it joins or starts a run,
\* it has seen its run end, or it goes on after that.
CallEdit(c, y) ==
  \/ y.pc = calls[c].pc /\ y.waits = calls[c].waits
  \/ ResumeReady(c) /\ y.pc = "run" /\ ongoing' # 0 /\ y.waits = ongoing'
  \/ RunReady(c) /\ y.pc = "exporterFlush" /\ y.waits = calls[c].waits
  \/ /\ calls[c].pc \in {"exporterFlush", "exporterShutdown"}
     /\ \/ y.pc = "over"
        \/ y.pc = "exporterShutdown" /\ calls[c].kind = "shutdown"
        \/ y.pc = "stopped" /\ calls[c].pc = "exporterShutdown"
     /\ y.waits = calls[c].waits

Becomes(c, y) ==
  /\ y.kind = calls[c].kind
  /\ y.before = calls[c].before
  /\ CallEdit(c, y)
  /\ calls' = [calls EXCEPT ![c] = y]

\* How the steps of the system change calls.
CallsStep ==
  \/ UNCHANGED calls
  \/ /\ UNCHANGED <<runs, ongoing>>
     /\ \E kind \in {"forceFlush", "shutdown"} :
          calls' = Append(calls, NewCall(kind)) /\ (kind = "shutdown" => ~interval')
  \/ \E c \in DOMAIN calls : \E y \in Call : Becomes(c, y)

\* A step of a run.
LEMMA RunSteps ==
  ASSUME TypeOK, BoundAssumption, NEW r \in DOMAIN runs,
         CollectionEnds(r) \/ ResourceWaitEnds(r) \/ ExporterResult(r) \/ ExportTimeout(r)
  PROVE  RunsStep /\ CallsStep
<1>. runs \in Seq(Run) /\ runs[r] \in Run
  BY DEF TypeOK
<1>. SUFFICES \E y \in Run : Advances(r, y) /\ runs' = [runs EXCEPT ![r] = y]
  BY DEF RunsStep, CallsStep, CollectionEnds, ResourceWaitEnds, ExporterResult,
         ExportTimeout, SomeoneResumes
<1>1. CASE CollectionEnds(r)
  <2>. ~RunEnded(r)
    BY <1>1 DEF CollectionEnds, RunEnded, Ended
  <2>1. CASE runs' = [runs EXCEPT ![r] = [phase |-> "over", left |-> 0]]
    BY <2>1, EndAdvances DEF Advances
  <2>2. CASE \E n \in 0..MaxBatches :
               runs' = [runs EXCEPT ![r] = [phase |-> "resource", left |-> n]]
    <3>1. PICK n \in 0..MaxBatches :
                 runs' = [runs EXCEPT ![r] = [phase |-> "resource", left |-> n]]
      BY <2>2
    <3>2. [phase |-> "resource", left |-> n] \in Run
      BY DEF Run
    <3>. QED
      BY <3>1, <3>2 DEF Advances
  <2>3. CASE \E n \in 0..MaxBatches : NextBatch(r, n)
    BY <2>3, NextBatchAdvances
  <2>. QED
    BY <1>1, <2>1, <2>2, <2>3 DEF CollectionEnds
<1>2. CASE ResourceWaitEnds(r)
  BY <1>2, NextBatchAdvances DEF ResourceWaitEnds, RunEnded, Ended, Run
<1>3. CASE ExporterResult(r)
  <2>1. CASE runs[r].phase = "exporting" /\ NextBatch(r, runs[r].left)
    BY <2>1, NextBatchAdvances DEF RunEnded, Ended, Run
  <2>2. CASE runs[r].phase = "timedOut" /\ runs' = [runs EXCEPT ![r].phase = "over"]
    <3>. DEFINE y == [runs[r] EXCEPT !.phase = "over"]
    <3>1. y \in Run /\ y.phase = "over"
      BY DEF Run, Ended
    <3>2. runs' = [runs EXCEPT ![r] = y]
      BY <2>2
    <3>. QED
      BY <3>1, <3>2 DEF Advances, Ended
  <2>. QED
    BY <1>3, <2>1, <2>2 DEF ExporterResult
<1>4. CASE ExportTimeout(r)
  BY <1>4, EndAdvances DEF ExportTimeout, Advances
<1>. QED
  BY <1>1, <1>2, <1>3, <1>4

\* The indices of a well-typed state.
LEMMA IndexTypes ==
  ASSUME TypeOK
  PROVE  /\ Len(runs) \in Nat /\ DOMAIN runs = 1..Len(runs)
         /\ ongoing \in Nat /\ ongoing <= Len(runs)
         /\ \A r \in DOMAIN runs : runs[r] \in Run
         /\ \A c \in DOMAIN calls :
              calls[c] \in Call /\ calls[c].waits \in Nat /\ calls[c].before \in Nat
<1>. runs \in Seq(Run) /\ calls \in Seq(Call) /\ ongoing \in 0..Len(runs)
  BY DEF TypeOK
<1>1. Len(runs) \in Nat /\ DOMAIN runs = 1..Len(runs)
  OBVIOUS
<1>2. ongoing \in Nat /\ ongoing <= Len(runs)
  BY <1>1
<1>3. \A r \in DOMAIN runs : runs[r] \in Run
  OBVIOUS
<1>4. \A c \in DOMAIN calls : calls[c] \in Call
  OBVIOUS
<1>5. \A x \in Call : x.waits \in Nat /\ x.before \in Nat
  BY DEF Call
<1>. QED
  BY <1>1, <1>2, <1>3, <1>4, <1>5

\* Steps of a call: the first await of onForceFlush ends,
LEMMA ResumeStep ==
  ASSUME NEW c, calls[c] \in Call, ongoing \in Nat, Len(runs) \in Nat, Resume(c)
  PROVE  \E y \in Call : Becomes(c, y)
<1>. DEFINE y == Awaits(calls[c], "run", ongoing')
<1>1. ongoing' \in Nat /\ ongoing' # 0
  BY DEF Resume, StartRun
<1>2. "run" \in Stages
  BY DEF Stages
<1>3. y \in Call /\ y.pc = "run" /\ y.waits = ongoing'
  BY <1>1, <1>2, AwaitsFields
<1>4. y.kind = calls[c].kind /\ y.before = calls[c].before
  BY <1>1, <1>2, AwaitsFields
<1>5. ResumeReady(c) /\ calls' = [calls EXCEPT ![c] = y]
  BY DEF Resume, StartRun
<1>. HIDE DEF y
<1>. QED
  BY <1>1, <1>3, <1>4, <1>5 DEF Becomes, CallEdit

\* its run has ended,
LEMMA FlushExporterStep ==
  ASSUME NEW c, calls[c] \in Call, calls[c].waits \in Nat, FlushExporter(c)
  PROVE  \E y \in Call : Becomes(c, y)
<1>. DEFINE y == Awaits(calls[c], "exporterFlush", calls[c].waits)
<1>1. "exporterFlush" \in Stages
  BY DEF Stages
<1>2. y \in Call /\ y.pc = "exporterFlush" /\ y.waits = calls[c].waits
  BY <1>1, AwaitsFields
<1>3. y.kind = calls[c].kind /\ y.before = calls[c].before
  BY <1>1, AwaitsFields
<1>4. RunReady(c) /\ calls' = [calls EXCEPT ![c] = y]
  BY DEF FlushExporter
<1>. HIDE DEF y
<1>. QED
  BY <1>2, <1>3, <1>4 DEF Becomes, CallEdit

\* its timeout passes,
LEMMA TimeoutStep ==
  ASSUME NEW c, calls[c] \in Call, CallTimeout(c)
  PROVE  \E y \in Call : Becomes(c, y)
<1>. DEFINE y == [calls[c] EXCEPT !.result = "rejected"]
<1>1. y \in Call /\ y.pc = calls[c].pc /\ y.waits = calls[c].waits
  BY RejectedFields
<1>2. y.kind = calls[c].kind /\ y.before = calls[c].before
  BY RejectedFields
<1>3. calls' = [calls EXCEPT ![c] = y]
  BY DEF CallTimeout
<1>. HIDE DEF y
<1>. QED
  BY <1>1, <1>2, <1>3 DEF Becomes, CallEdit

\* or the exporter answers.
LEMMA SettleStep ==
  ASSUME NEW c, calls[c] \in Call, NEW pc \in {"over", "stopped"},
         NEW result \in {"resolved", "rejected"},
         calls[c].pc \in {"exporterFlush", "exporterShutdown"},
         pc = "stopped" => calls[c].pc = "exporterShutdown",
         calls' = [calls EXCEPT ![c] = Settled(@, pc, result)]
  PROVE  \E y \in Call : Becomes(c, y)
<1>. DEFINE y == Settled(calls[c], pc, result)
<1>1. pc \in Stages
  BY DEF Stages
<1>2. y \in Call /\ y.pc = pc /\ y.waits = calls[c].waits
  BY <1>1, SettledFields
<1>3. y.kind = calls[c].kind /\ y.before = calls[c].before
  BY <1>1, SettledFields
<1>4. calls' = [calls EXCEPT ![c] = y]
  OBVIOUS
<1>. HIDE DEF y
<1>. QED
  BY <1>2, <1>3, <1>4 DEF Becomes, CallEdit

LEMMA StopStep ==
  ASSUME NEW c, calls[c] \in Call, calls[c].waits \in Nat,
         calls[c].pc = "exporterFlush", calls[c].kind = "shutdown",
         calls' = [calls EXCEPT ![c] = Awaits(@, "exporterShutdown", @.waits)]
  PROVE  \E y \in Call : Becomes(c, y)
<1>. DEFINE y == Awaits(calls[c], "exporterShutdown", calls[c].waits)
<1>1. "exporterShutdown" \in Stages
  BY DEF Stages
<1>2. y \in Call /\ y.pc = "exporterShutdown" /\ y.waits = calls[c].waits
  BY <1>1, AwaitsFields
<1>3. y.kind = calls[c].kind /\ y.before = calls[c].before
  BY <1>1, AwaitsFields
<1>4. calls' = [calls EXCEPT ![c] = y]
  OBVIOUS
<1>. HIDE DEF y
<1>. QED
  BY <1>2, <1>3, <1>4 DEF Becomes, CallEdit

LEMMA CallSteps ==
  ASSUME TypeOK, NEW c \in DOMAIN calls,
         \/ Resume(c) \/ FlushExporter(c) \/ CallTimeout(c)
         \/ ExporterFlushSettles(c) \/ ExporterShutdownSettles(c)
  PROVE  RunsStep /\ CallsStep
<1>. calls[c] \in Call /\ ongoing \in Nat /\ Len(runs) \in Nat /\ calls[c].waits \in Nat
  BY IndexTypes
<1>1. RunsStep
  <2>1. CASE Resume(c)
    <3>1. SomeoneResumes
      BY <2>1 DEF Resume, SomeoneResumes
    <3>. QED
      BY <2>1, <3>1 DEF Resume, RunsStep
  <2>2. CASE ~Resume(c)
    BY <2>2 DEF RunsStep, FlushExporter, CallTimeout, ExporterFlushSettles,
                ExporterShutdownSettles
  <2>. QED
    BY <2>1, <2>2
<1>2. CASE Resume(c) \/ FlushExporter(c) \/ CallTimeout(c)
  BY <1>1, <1>2, ResumeStep, FlushExporterStep, TimeoutStep DEF CallsStep
<1>3. CASE ExporterFlushSettles(c)
  BY <1>1, <1>3, SettleStep, StopStep DEF CallsStep, ExporterFlushSettles
<1>4. CASE ExporterShutdownSettles(c)
  BY <1>1, <1>4, SettleStep DEF CallsStep, ExporterShutdownSettles
<1>. QED
  BY <1>2, <1>3, <1>4

\* Every step changes runs and calls in one of these ways.
LEMMA Steps ==
  ASSUME TypeOK, BoundAssumption, [Next]_vars
  PROVE  RunsStep /\ CallsStep
<1>1. CASE ForceFlush \/ Shutdown
  BY <1>1 DEF ForceFlush, Shutdown, RunsStep, CallsStep
<1>2. CASE Finally \/ IntervalFires \/ ResourceSettles \/ UNCHANGED vars
  BY <1>2 DEF Finally, IntervalFires, ResourceSettles, vars, RunsStep, CallsStep
<1>. QED
  BY <1>1, <1>2, RunSteps, CallSteps DEF Next, Reaction, TimerTask, Awaited

-------------------------------------------------------------------------------
\* The step of a run never loses one, nor the end of one.
LEMMA RunsGrow ==
  ASSUME TypeOK, BoundAssumption, RunsStep
  PROVE  /\ runs' \in Seq(Run)
         /\ Len(runs') \in Nat /\ Len(runs) <= Len(runs')
         /\ ongoing' \in 0..Len(runs')
         /\ \A r \in DOMAIN runs : r \in DOMAIN runs' /\ (RunEnded(r) => RunEnded(r)')
<1>. runs \in Seq(Run) /\ ongoing \in 0..Len(runs) /\ Len(runs) \in Nat
     /\ DOMAIN runs = 1..Len(runs)
  BY IndexTypes DEF TypeOK
<1>1. CASE UNCHANGED runs /\ (UNCHANGED ongoing \/ ongoing' = 0)
  BY <1>1 DEF RunEnded
<1>2. CASE StartRun
  <2>. DEFINE new == [phase |-> IF isShutdown THEN "over" ELSE "collecting",
                      left  |-> 0]
  <2>1. new \in Run
    BY DEF Run, Ended, BoundAssumption
  <2>2. runs' = Append(runs, new) /\ ongoing' = Len(runs) + 1
    BY <1>2 DEF StartRun
  <2>. HIDE DEF new
  <2>3. /\ runs' \in Seq(Run)
        /\ Len(runs') = Len(runs) + 1
        /\ \A r \in DOMAIN runs : runs'[r] = runs[r]
    BY <2>1, <2>2
  <2>4. DOMAIN runs' = 1..Len(runs')
    BY <2>3
  <2>. QED
    BY <2>2, <2>3, <2>4 DEF RunEnded
<1>3. CASE UNCHANGED ongoing /\ \E r \in DOMAIN runs : \E y \in Run :
             Advances(r, y) /\ runs' = [runs EXCEPT ![r] = y]
  <2>1. PICK r \in DOMAIN runs, y \in Run :
               Advances(r, y) /\ runs' = [runs EXCEPT ![r] = y]
    BY <1>3
  <2>2. runs' \in Seq(Run) /\ Len(runs') = Len(runs) /\ DOMAIN runs' = DOMAIN runs
    BY <2>1
  <2>3. \A q \in DOMAIN runs : RunEnded(q) => RunEnded(q)'
    BY <2>1 DEF RunEnded, Advances
  <2>. QED
    BY <1>3, <2>2, <2>3
<1>. QED
  BY <1>1, <1>2, <1>3 DEF RunsStep

\* A step makes call c, if it is new.
Begins(c) ==
  /\ UNCHANGED <<runs, ongoing>>
  /\ c = Len(calls') /\ c \notin DOMAIN calls
  /\ \E kind \in {"forceFlush", "shutdown"} :
       calls'[c] = NewCall(kind) /\ (kind = "shutdown" => ~interval')

\* A step keeps, edits or makes a call.
LEMMA CallsGrow ==
  ASSUME TypeOK, CallsStep
  PROVE  /\ calls' \in Seq(Call)
         /\ Len(calls) \in Nat /\ Len(calls') \in Nat /\ Len(calls) <= Len(calls')
         /\ DOMAIN calls = 1..Len(calls) /\ DOMAIN calls' = 1..Len(calls')
         /\ \A c \in DOMAIN calls' :
              \/ c \in DOMAIN calls /\ calls'[c] = calls[c]
              \/ Begins(c)
              \/ c \in DOMAIN calls /\ calls'[c] \in Call /\ Becomes(c, calls'[c])
<1>. calls \in Seq(Call) /\ Len(calls) \in Nat /\ DOMAIN calls = 1..Len(calls)
  BY DEF TypeOK
<1>1. CASE UNCHANGED calls
  BY <1>1
<1>2. CASE /\ UNCHANGED <<runs, ongoing>>
           /\ \E kind \in {"forceFlush", "shutdown"} :
                calls' = Append(calls, NewCall(kind)) /\ (kind = "shutdown" => ~interval')
  <2>1. PICK kind \in {"forceFlush", "shutdown"} :
               calls' = Append(calls, NewCall(kind)) /\ (kind = "shutdown" => ~interval')
    BY <1>2
  <2>2. NewCall(kind) \in Call
    BY IndexTypes DEF NewCall, Call
  <2>3. calls' \in Seq(Call) /\ Len(calls') = Len(calls) + 1
        /\ DOMAIN calls' = 1..Len(calls')
    BY <2>1, <2>2
  <2>4. \A c \in DOMAIN calls : calls'[c] = calls[c]
    BY <2>1, <2>2
  <2>5. calls'[Len(calls')] = NewCall(kind)
    BY <2>1, <2>2
  <2>6. Begins(Len(calls'))
    BY <1>2, <2>1, <2>3, <2>5 DEF Begins
  <2>. QED
    BY <2>3, <2>4, <2>6
<1>3. CASE \E c \in DOMAIN calls : \E y \in Call : Becomes(c, y)
  <2>1. PICK c \in DOMAIN calls, y \in Call : Becomes(c, y)
    BY <1>3
  <2>2. calls' = [calls EXCEPT ![c] = y]
    BY <2>1 DEF Becomes
  <2>3. calls' \in Seq(Call) /\ DOMAIN calls' = DOMAIN calls /\ calls'[c] = y
        /\ Len(calls') = Len(calls)
        /\ \A d \in DOMAIN calls : d # c => calls'[d] = calls[d]
    BY <2>2
  <2>. QED
    BY <2>1, <2>3
<1>. QED
  BY <1>1, <1>2, <1>3 DEF CallsStep

\* A call keeps its place, its kind and the runs before it.
LEMMA CallsKept ==
  ASSUME TypeOK, CallsStep, NEW c \in DOMAIN calls
  PROVE  /\ c \in DOMAIN calls'
         /\ calls'[c].kind = calls[c].kind
         /\ calls'[c].before = calls[c].before
<1>1. c \in DOMAIN calls'
  BY CallsGrow
<1>. QED
  BY <1>1, CallsGrow DEF Begins, Becomes

\* The flags stay Boolean.
LEMMA FlagsTyped ==
  ASSUME TypeOK, [Next]_vars
  PROVE  interval' \in BOOLEAN /\ isShutdown' \in BOOLEAN /\ resourcePending' \in BOOLEAN
<1>. interval \in BOOLEAN /\ isShutdown \in BOOLEAN /\ resourcePending \in BOOLEAN
  BY DEF TypeOK
<1>1. ASSUME NEW c, ExporterShutdownSettles(c)
      PROVE  /\ isShutdown' \in BOOLEAN
             /\ UNCHANGED <<interval, resourcePending>>
  <2>1. UNCHANGED isShutdown \/ isShutdown' = (isShutdown \/ calls[c].result = "pending")
    BY <1>1 DEF ExporterShutdownSettles
  <2>2. UNCHANGED <<interval, resourcePending>>
    BY <1>1 DEF ExporterShutdownSettles
  <2>. QED
    BY <2>1, <2>2
<1>. QED
  BY <1>1 DEF Next, vars, ForceFlush, Shutdown, Reaction, Finally, Resume, FlushExporter,
       TimerTask, IntervalFires, ExportTimeout, Awaited, CollectionEnds,
       ResourceWaitEnds, ExporterFlushSettles, ResourceSettles, CallTimeout,
       ExporterResult

LEMMA TypeInductive ==
  ASSUME TypeOK, BoundAssumption, [Next]_vars
  PROVE  TypeOK'
<1>. RunsStep /\ CallsStep
  BY Steps
<1>1. runs' \in Seq(Run) /\ ongoing' \in 0..Len(runs') /\ calls' \in Seq(Call)
  BY RunsGrow, CallsGrow
<1>2. ASSUME NEW c \in DOMAIN calls' PROVE calls'[c].waits \in 0..Len(runs')
  <2>. Len(runs) \in Nat /\ Len(runs') \in Nat /\ Len(runs) <= Len(runs')
       /\ ongoing \in 0..Len(runs)
    BY RunsGrow, IndexTypes DEF TypeOK
  <2>1. CASE c \in DOMAIN calls /\ calls'[c] = calls[c]
    BY <2>1 DEF TypeOK
  <2>2. CASE Begins(c)
    BY <2>2 DEF Begins, NewCall
  <2>3. CASE c \in DOMAIN calls /\ Becomes(c, calls'[c])
    <3>1. calls'[c].waits = calls[c].waits \/ calls'[c].waits = ongoing'
      BY <2>3 DEF Becomes, CallEdit
    <3>2. calls[c].waits \in 0..Len(runs)
      BY <2>3 DEF TypeOK
    <3>. QED
      BY <1>1, <3>1, <3>2
  <2>. QED
    BY <2>1, <2>2, <2>3, CallsGrow
<1>3. interval' \in BOOLEAN /\ isShutdown' \in BOOLEAN /\ resourcePending' \in BOOLEAN
  BY FlagsTyped
<1>. QED
  BY <1>1, <1>2, <1>3 DEF TypeOK

\* The initial state.
LEMMA InitFacts ==
  ASSUME Init
  PROVE  TypeOK /\ ongoing = 0 /\ DOMAIN runs = {} /\ DOMAIN calls = {}
<1>1. interval \in BOOLEAN /\ isShutdown \in BOOLEAN /\ resourcePending \in BOOLEAN
  BY ResourceAssumption DEF Init
<1>2. runs = <<>> /\ calls = <<>> /\ ongoing = 0
  BY DEF Init
<1>3. runs \in Seq(Run) /\ calls \in Seq(Call) /\ Len(runs) = 0
  BY <1>2
<1>4. DOMAIN runs = {} /\ DOMAIN calls = {}
  BY <1>2
<1>. QED
  BY <1>1, <1>2, <1>3, <1>4 DEF TypeOK

\* Every variable holds a value the code can give it, for any bounds.
THEOREM TypeCorrect == Spec => []TypeOK
<1>1. Init => TypeOK
  BY InitFacts
<1>2. TypeOK /\ [Next]_vars => TypeOK'
  BY TypeInductive, BoundAssumption
<1>. QED
  BY <1>1, <1>2, PTL DEF Spec

-------------------------------------------------------------------------------
\* The ongoing run is the last one, and runs do not overlap.
RunsInv ==
  /\ ongoing \in {0, Len(runs)}
  /\ RunsOneAtATime

LEMMA RunsInductive ==
  ASSUME TypeOK, BoundAssumption, RunsInv, RunsStep
  PROVE  RunsInv'
<1>. runs \in Seq(Run) /\ ongoing \in Nat /\ Len(runs) \in Nat
     /\ DOMAIN runs = 1..Len(runs)
  BY IndexTypes DEF TypeOK
<1>1. CASE UNCHANGED <<runs, ongoing>>
  BY <1>1 DEF RunsInv, RunsOneAtATime, RunEnded
<1>2. CASE FinallyReady /\ ongoing' = 0 /\ UNCHANGED runs
  BY <1>2 DEF RunsInv, RunsOneAtATime, FinallyReady, RunEnded
<1>3. CASE ongoing = 0 /\ StartRun
  <2>. DEFINE new == [phase |-> IF isShutdown THEN "over" ELSE "collecting",
                      left  |-> 0]
  <2>1. runs' = Append(runs, new) /\ ongoing' = Len(runs) + 1
    BY <1>3 DEF StartRun
  <2>2. new \in Run
    BY DEF Run, Ended, BoundAssumption
  <2>. HIDE DEF new
  <2>3. Len(runs') = Len(runs) + 1 /\ \A r \in DOMAIN runs : runs'[r] = runs[r]
    BY <2>1, <2>2
  <2>4. DOMAIN runs' = DOMAIN runs \cup {Len(runs) + 1}
    BY <2>1, <2>2
  <2>5. \A r \in DOMAIN runs : RunEnded(r)
    BY <1>3 DEF RunsInv, RunsOneAtATime
  <2>6. \A r \in DOMAIN runs : RunEnded(r)'
    BY <2>3, <2>5 DEF RunEnded
  <2>. QED
    BY <2>1, <2>3, <2>4, <2>6 DEF RunsInv, RunsOneAtATime
<1>4. CASE UNCHANGED ongoing /\ \E r \in DOMAIN runs : \E y \in Run :
             Advances(r, y) /\ runs' = [runs EXCEPT ![r] = y]
  <2>1. PICK r \in DOMAIN runs, y \in Run :
               Advances(r, y) /\ runs' = [runs EXCEPT ![r] = y]
    BY <1>4
  <2>2. Len(runs') = Len(runs) /\ DOMAIN runs' = DOMAIN runs
    BY <2>1
  <2>3. \A q \in DOMAIN runs : RunEnded(q) => RunEnded(q)'
    BY RunsGrow DEF RunsStep
  <2>. QED
    BY <1>4, <2>2, <2>3 DEF RunsInv, RunsOneAtATime
<1>. QED
  BY <1>1, <1>2, <1>3, <1>4 DEF RunsStep

\* Collect and export never run twice at a time, for any number of callers:
\* the interval and every flush find the run another one has started.
THEOREM RunsDoNotOverlap == Spec => []RunsOneAtATime
<1>1. Init => RunsInv
  BY InitFacts DEF RunsInv, RunsOneAtATime
<1>2. TypeOK /\ RunsInv /\ [Next]_vars => RunsInv'
  BY Steps, RunsInductive, BoundAssumption
<1>3. RunsInv => RunsOneAtATime
  BY DEF RunsInv
<1>. QED
  BY <1>1, <1>2, <1>3, TypeCorrect, PTL DEF Spec

-------------------------------------------------------------------------------
\* A call waits for the run that was ongoing when it was made, if any, and then
\* for one that was not there yet.
CallInv(c) ==
  /\ calls[c].before <= Len(runs)
  /\ calls[c].pc = "ongoing" /\ ongoing # 0
       => ongoing = calls[c].waits \/ ongoing > calls[c].before
  /\ calls[c].pc # "ongoing" => calls[c].waits > calls[c].before
  /\ PastRun(c) => RunEnded(calls[c].waits)

CallsInv == \A c \in DOMAIN calls : CallInv(c)

\* A run that becomes ongoing is a new one.
LEMMA OngoingIsNew ==
  ASSUME TypeOK, RunsStep
  PROVE  ongoing' \in {0, ongoing} \/ ongoing' > Len(runs)
BY IndexTypes DEF RunsStep, StartRun

LEMMA CallsInductive ==
  ASSUME TypeOK, BoundAssumption, RunsInv, CallsInv, RunsStep, CallsStep
  PROVE  CallsInv'
<1>. /\ Len(runs) \in Nat /\ Len(runs') \in Nat /\ Len(runs) <= Len(runs')
     /\ ongoing \in Nat /\ ongoing' \in Nat
     /\ DOMAIN runs = 1..Len(runs)
  BY RunsGrow, IndexTypes
<1>1. ongoing' \in {0, ongoing} \/ ongoing' > Len(runs)
  BY OngoingIsNew
<1>2. \A r \in DOMAIN runs : RunEnded(r) => RunEnded(r)'
  BY RunsGrow
<1>3. SUFFICES ASSUME NEW c \in DOMAIN calls' PROVE CallInv(c)'
  BY DEF CallsInv
<1>4. CASE Begins(c)
  BY <1>4 DEF Begins, CallInv, NewCall, PastRun
<1>5. ASSUME c \in DOMAIN calls
      PROVE  /\ calls[c].before \in Nat /\ calls[c].waits \in 0..Len(runs)
             /\ CallInv(c)
  BY <1>5, IndexTypes DEF TypeOK, CallsInv
<1>6. CASE c \in DOMAIN calls /\ calls'[c].before = calls[c].before
           /\ calls'[c].pc = calls[c].pc /\ calls'[c].waits = calls[c].waits
  <2>1. PastRun(c) => calls[c].waits \in DOMAIN runs
    BY <1>5, <1>6 DEF CallInv, PastRun
  <2>2. PastRun(c) => RunEnded(calls[c].waits)'
    BY <1>2, <1>5, <1>6, <2>1 DEF CallInv, RunEnded
  <2>. QED
    BY <1>1, <1>5, <1>6, <2>2 DEF CallInv, PastRun, RunEnded
<1>7. CASE c \in DOMAIN calls /\ Becomes(c, calls'[c])
  <2>1. calls'[c].before = calls[c].before
    BY <1>7 DEF Becomes
  <2>2. CASE ResumeReady(c) /\ calls'[c].pc = "run" /\ ongoing' # 0
             /\ calls'[c].waits = ongoing'
    <3>1. ongoing # 0 => ongoing > calls[c].before
      BY <1>5, <1>7, <2>2 DEF ResumeReady, Over, CallInv
    <3>2. ongoing' > calls[c].before
      BY <1>1, <1>5, <1>7, <2>2, <3>1 DEF CallInv
    <3>. QED
      BY <1>5, <1>7, <2>1, <2>2, <3>2 DEF CallInv, PastRun
  <2>3. CASE RunReady(c) /\ calls'[c].pc = "exporterFlush"
             /\ calls'[c].waits = calls[c].waits
    <3>1. calls[c].pc = "run" /\ RunEnded(calls[c].waits)
      BY <2>3 DEF RunReady, Over
    <3>2. calls[c].waits > calls[c].before /\ calls[c].waits \in DOMAIN runs
      BY <1>5, <1>7, <3>1 DEF CallInv
    <3>. QED
      BY <1>2, <1>5, <1>7, <2>1, <2>3, <3>1, <3>2 DEF CallInv
  <2>4. CASE /\ calls[c].pc \in {"exporterFlush", "exporterShutdown"}
             /\ calls'[c].pc \in {"exporterShutdown", "over", "stopped"}
             /\ calls'[c].waits = calls[c].waits
    <3>1. PastRun(c)
      BY <2>4 DEF PastRun
    <3>2. calls[c].waits > calls[c].before /\ calls[c].waits \in DOMAIN runs
      BY <1>5, <1>7, <2>4 DEF CallInv
    <3>3. RunEnded(calls[c].waits)
      BY <1>5, <1>7, <3>1 DEF CallInv
    <3>. QED
      BY <1>2, <1>5, <1>7, <2>1, <2>4, <3>2, <3>3 DEF CallInv
  <2>. QED
    BY <1>6, <1>7, <2>1, <2>2, <2>3, <2>4 DEF Becomes, CallEdit
<1>. QED
  BY <1>4, <1>6, <1>7, CallsGrow

\* The inductive invariant behind FlushIsFresh.
THEOREM CallsCorrect == Spec => [](RunsInv /\ CallsInv)
<1>1. Init => RunsInv /\ CallsInv
  BY InitFacts DEF RunsInv, RunsOneAtATime, CallsInv
<1>2. TypeOK /\ RunsInv /\ CallsInv /\ [Next]_vars => RunsInv' /\ CallsInv'
  BY Steps, RunsInductive, CallsInductive, BoundAssumption
<1>. QED
  BY <1>1, <1>2, TypeCorrect, PTL DEF Spec

\* forceFlush and shutdown call exporter.forceFlush() only after a run whose
\* collection began after them, whoever started it, and for any overlap of
\* callers, interval and timeouts.
THEOREM FlushesAreFresh == Spec => []FlushIsFresh
<1>1. CallsInv => FlushIsFresh
  BY DEF CallsInv, CallInv, FlushIsFresh, PastRun
<1>. QED
  BY <1>1, CallsCorrect, PTL

-------------------------------------------------------------------------------
\* What shutdown leaves: the interval is cleared and only a shutdown stops the
\* exporter.  Calls are in order, and a caller that is about to look for a run
\* finds none that is past its collection.
StopInv ==
  /\ \A c \in DOMAIN calls : calls[c].kind = "shutdown" => ~interval
  /\ \A c \in DOMAIN calls : StopsExporter(c) => calls[c].kind = "shutdown"
  /\ isShutdown => \E c \in DOMAIN calls : calls[c].pc = "stopped"

OrderInv ==
  /\ \A c \in DOMAIN calls : calls[c].pc = "ongoing" => calls[c].waits <= calls[c].before
  /\ \A c, d \in DOMAIN calls : c <= d => calls[c].before <= calls[d].before
  /\ SomeoneResumes /\ ongoing # 0
       => runs[ongoing].phase = "collecting" \/ isShutdown

\* The flags move one way.
LEMMA FlagSteps ==
  ASSUME TypeOK, [Next]_vars
  PROVE  /\ interval' => interval
         /\ isShutdown => isShutdown'
         /\ isShutdown' => isShutdown \/ \E c \in DOMAIN calls' : calls'[c].pc = "stopped"
<1>1. ASSUME NEW c \in DOMAIN calls, ExporterShutdownSettles(c)
      PROVE  /\ UNCHANGED interval
             /\ isShutdown => isShutdown'
             /\ c \in DOMAIN calls' /\ calls'[c].pc = "stopped"
  <2>1. UNCHANGED interval /\ (isShutdown => isShutdown')
    <3>1. \/ UNCHANGED isShutdown
          \/ isShutdown' = (isShutdown \/ calls[c].result = "pending")
      BY <1>1 DEF ExporterShutdownSettles
    <3>2. isShutdown => isShutdown'
      BY <3>1
    <3>. QED
      BY <1>1, <3>2 DEF ExporterShutdownSettles
  <2>2. PICK result \in {"resolved", "rejected"} :
               calls' = [calls EXCEPT ![c] = Settled(@, "stopped", result)]
    BY <1>1 DEF ExporterShutdownSettles
  <2>3. c \in DOMAIN calls' /\ calls'[c] = Settled(calls[c], "stopped", result)
    BY <2>2
  <2>4. calls[c] \in Call /\ "stopped" \in Stages
    BY IndexTypes DEF Stages
  <2>5. Settled(calls[c], "stopped", result).pc = "stopped"
    BY <2>4, SettledFields
  <2>. QED
    BY <2>1, <2>3, <2>5
<1>2. CASE \E c \in DOMAIN calls : ExporterShutdownSettles(c)
  BY <1>1, <1>2
<1>3. CASE ~\E c \in DOMAIN calls : ExporterShutdownSettles(c)
  <2>1. (interval' => interval) /\ UNCHANGED isShutdown
    BY <1>3 DEF Next, vars, ForceFlush, Shutdown, Reaction, Finally, Resume,
         FlushExporter, TimerTask, IntervalFires, ExportTimeout, Awaited,
         CollectionEnds, ResourceWaitEnds, ExporterFlushSettles, ResourceSettles,
         CallTimeout, ExporterResult
  <2>. QED
    BY <2>1
<1>. QED
  BY <1>2, <1>3

\* A call that has stopped the exporter has: it stays stopped.
LEMMA StoppedStays ==
  ASSUME TypeOK, CallsStep, NEW c \in DOMAIN calls, calls[c].pc = "stopped"
  PROVE  c \in DOMAIN calls' /\ calls'[c].pc = "stopped"
<1>1. c \in DOMAIN calls' /\ ~Begins(c)
  BY CallsGrow DEF Begins
<1>2. CASE Becomes(c, calls'[c])
  BY <1>1, <1>2 DEF Becomes, CallEdit, ResumeReady, RunReady
<1>. QED
  BY <1>1, <1>2, CallsGrow

LEMMA StopInductive ==
  ASSUME TypeOK, BoundAssumption, StopInv, [Next]_vars
  PROVE  StopInv'
<1>. RunsStep /\ CallsStep
  BY Steps
<1>1. ASSUME NEW c \in DOMAIN calls', calls'[c].kind = "shutdown" PROVE ~interval'
  <2>1. CASE c \in DOMAIN calls
    <3>1. calls[c].kind = "shutdown"
      BY <1>1, <2>1, CallsKept
    <3>. QED
      BY <2>1, <3>1, FlagSteps DEF StopInv
  <2>2. CASE Begins(c)
    <3>1. PICK kind \in {"forceFlush", "shutdown"} :
                 calls'[c] = NewCall(kind) /\ (kind = "shutdown" => ~interval')
      BY <2>2 DEF Begins
    <3>2. kind = "shutdown"
      BY <1>1, <3>1 DEF NewCall
    <3>. QED
      BY <3>1, <3>2
  <2>. QED
    BY <2>1, <2>2, CallsGrow
<1>2. ASSUME NEW c \in DOMAIN calls', StopsExporter(c)' PROVE calls'[c].kind = "shutdown"
  <2>1. CASE c \in DOMAIN calls /\ calls'[c] = calls[c]
    BY <1>2, <2>1 DEF StopInv, StopsExporter
  <2>2. CASE Begins(c)
    BY <1>2, <2>2 DEF Begins, NewCall, StopsExporter
  <2>3. CASE c \in DOMAIN calls /\ Becomes(c, calls'[c])
    BY <1>2, <2>3 DEF Becomes, CallEdit, StopInv, StopsExporter
  <2>. QED
    BY <2>1, <2>2, <2>3, CallsGrow
<1>3. isShutdown' => \E c \in DOMAIN calls' : calls'[c].pc = "stopped"
  BY FlagSteps, StoppedStays DEF StopInv
<1>. QED
  BY <1>1, <1>2, <1>3 DEF StopInv

\* A new run is in its collection, unless the reader is shut down.
LEMMA NewRun ==
  ASSUME TypeOK, StartRun
  PROVE  /\ ongoing' = Len(runs') /\ Len(runs') = Len(runs) + 1
         /\ \A r \in DOMAIN runs : runs'[r] = runs[r]
         /\ runs'[ongoing'].phase = "collecting" \/ isShutdown
<1>. DEFINE new == [phase |-> IF isShutdown THEN "over" ELSE "collecting", left |-> 0]
<1>1. runs' = Append(runs, new) /\ ongoing' = Len(runs) + 1
  BY DEF StartRun
<1>2. new.phase = "collecting" \/ isShutdown
  OBVIOUS
<1>. HIDE DEF new
<1>3. runs \in Seq(Run) /\ Len(runs) \in Nat
  BY IndexTypes DEF TypeOK
<1>4. /\ Len(runs') = Len(runs) + 1
      /\ runs'[Len(runs) + 1] = new
      /\ \A r \in DOMAIN runs : runs'[r] = runs[r]
  BY <1>1, <1>3
<1>. QED
  BY <1>1, <1>2, <1>4

\* A caller that is ready after a step that keeps ongoing # 0 was ready before.
LEMMA ReadyBefore ==
  ASSUME TypeOK, BoundAssumption, RunsInv, RunsStep, CallsStep,
         ongoing # 0, UNCHANGED ongoing, SomeoneResumes'
  PROVE  SomeoneResumes
<1>1. PICK c \in DOMAIN calls' : ResumeReady(c)'
  BY DEF SomeoneResumes
<1>2. calls'[c].pc = "ongoing" /\ calls'[c].waits # ongoing
  BY <1>1 DEF ResumeReady, Over
<1>3. c \in DOMAIN calls /\ calls[c].pc = "ongoing" /\ calls[c].waits = calls'[c].waits
  <2>1. ~Begins(c)
    BY <1>2 DEF Begins, NewCall
  <2>. QED
    BY <1>2, <2>1, CallsGrow DEF Becomes, CallEdit
<1>4. calls[c].waits # 0 => RunEnded(calls[c].waits)
  <2>1. calls[c].waits # 0 => calls[c].waits \in DOMAIN runs
    BY <1>3, IndexTypes DEF TypeOK
  <2>. QED
    BY <1>2, <1>3, <2>1 DEF RunsInv, RunsOneAtATime
<1>. QED
  BY <1>2, <1>3, <1>4 DEF SomeoneResumes, ResumeReady, Over

LEMMA OrderInductive ==
  ASSUME TypeOK, BoundAssumption, RunsInv, CallsInv, OrderInv, [Next]_vars
  PROVE  OrderInv'
<1>. RunsStep /\ CallsStep
  BY Steps
<1>1. ASSUME NEW c \in DOMAIN calls', calls'[c].pc = "ongoing"
      PROVE  calls'[c].waits <= calls'[c].before
  <2>1. CASE c \in DOMAIN calls /\ calls'[c] = calls[c]
    BY <1>1, <2>1 DEF OrderInv
  <2>2. CASE Begins(c)
    BY <1>1, <2>2, IndexTypes DEF Begins, NewCall
  <2>3. CASE c \in DOMAIN calls /\ Becomes(c, calls'[c])
    BY <1>1, <2>3 DEF Becomes, CallEdit, OrderInv
  <2>. QED
    BY <2>1, <2>2, <2>3, CallsGrow
<1>2. ASSUME NEW c \in DOMAIN calls', NEW d \in DOMAIN calls', c <= d
      PROVE  calls'[c].before <= calls'[d].before
  <2>1. CASE c \in DOMAIN calls /\ d \in DOMAIN calls
    BY <1>2, <2>1, CallsKept DEF OrderInv
  <2>2. CASE c \in DOMAIN calls /\ Begins(d)
    <3>1. calls'[d].before = Len(runs)
      BY <2>2 DEF Begins, NewCall
    <3>2. calls'[c].before <= Len(runs)
      BY <2>2, CallsKept DEF CallsInv, CallInv
    <3>. QED
      BY <3>1, <3>2
  <2>3. CASE Begins(c)
    <3>1. d = c
      BY <1>2, <2>3, CallsGrow DEF Begins
    <3>2. calls'[d].before \in Nat
      BY <2>3, <3>1, IndexTypes DEF Begins, NewCall
    <3>. QED
      BY <3>1, <3>2
  <2>. QED
    BY <2>1, <2>2, <2>3, CallsGrow
<1>3. ASSUME SomeoneResumes', ongoing' # 0
      PROVE  runs'[ongoing'].phase = "collecting" \/ isShutdown'
  <2>1. CASE ongoing = 0
    BY <1>3, <2>1, NewRun, FlagSteps DEF RunsStep
  <2>2. CASE ongoing # 0
    <3>1. UNCHANGED ongoing
      BY <1>3, <2>2 DEF RunsStep
    <3>2. SomeoneResumes
      BY <1>3, <2>2, <3>1, ReadyBefore
    <3>3. runs[ongoing].phase = "collecting" \/ isShutdown
      BY <2>2, <3>2 DEF OrderInv
    <3>4. runs[ongoing].phase = "collecting" => runs'[ongoing].phase = "collecting"
      <4>1. ongoing \in DOMAIN runs /\ runs \in Seq(Run)
        BY <2>2, IndexTypes DEF TypeOK
      <4>. QED
        BY <2>2, <3>1, <3>2, <4>1 DEF RunsStep
    <3>. QED
      BY <3>1, <3>3, <3>4, FlagSteps
  <2>. QED
    BY <2>1, <2>2
<1>. QED
  BY <1>1, <1>2, <1>3 DEF OrderInv

-------------------------------------------------------------------------------
\* The run a last shutdown waits for is the last run, and when its collection is
\* done nobody is left who could start another.
LastRun(c) ==
  /\ calls[c].waits = Len(runs)
  /\ runs[calls[c].waits].phase # "collecting"
       => \A d \in DOMAIN calls : calls[d].pc # "ongoing"

ShutInv ==
  ShutdownIsLast =>
    \A c \in DOMAIN calls :
      calls[c].kind = "shutdown" /\ calls[c].pc # "ongoing" => LastRun(c)

\* Any caller that still waits for an earlier run is ready while the run of a
\* shutdown collects.
LEMMA EarlierCallsAreReady ==
  ASSUME TypeOK, RunsInv, CallsInv, OrderInv,
         NEW c \in DOMAIN calls, NEW d \in DOMAIN calls, d <= c,
         calls[c].pc # "ongoing", calls[d].pc = "ongoing",
         ongoing = calls[c].waits
  PROVE  SomeoneResumes
<1>1. calls[d].waits \in 0..Len(runs) /\ Len(runs) \in Nat /\ DOMAIN runs = 1..Len(runs)
  BY IndexTypes DEF TypeOK
<1>2. calls[d].waits < ongoing
  <2>1. calls[d].waits <= calls[d].before /\ calls[d].before <= calls[c].before
    BY DEF OrderInv
  <2>2. calls[c].before < calls[c].waits
    BY IndexTypes DEF CallsInv, CallInv
  <2>3. calls[c].before \in Nat /\ calls[d].before \in Nat /\ calls[c].waits \in Nat
    BY IndexTypes
  <2>. QED
    BY <1>1, <2>1, <2>2, <2>3
<1>3. ongoing \in Nat
  BY IndexTypes
<1>4. calls[d].waits # ongoing
  BY <1>1, <1>2, <1>3
<1>5. calls[d].waits # 0 => RunEnded(calls[d].waits)
  BY <1>1, <1>4 DEF RunsInv, RunsOneAtATime
<1>. QED
  BY <1>4, <1>5 DEF SomeoneResumes, ResumeReady, Over

\* The run of a call collects only while it is ongoing.
LEMMA CollectingIsOngoing ==
  ASSUME TypeOK, RunsInv, CallsInv, NEW c \in DOMAIN calls, calls[c].pc # "ongoing",
         runs[calls[c].waits].phase = "collecting"
  PROVE  ongoing = calls[c].waits /\ ongoing # 0
<1>1. calls[c].waits \in DOMAIN runs
  BY IndexTypes DEF TypeOK, CallsInv, CallInv
<1>2. ~RunEnded(calls[c].waits)
  BY DEF RunEnded, Ended
<1>3. ongoing = calls[c].waits
  BY <1>1, <1>2 DEF RunsInv, RunsOneAtATime
<1>4. calls[c].waits # 0
  BY <1>1, IndexTypes
<1>. QED
  BY <1>3, <1>4

\* If the last call is a shutdown after the step, it was before, unless the step
\* makes it.
LEMMA LastBefore ==
  ASSUME TypeOK, CallsStep, ShutdownIsLast', NEW c \in DOMAIN calls,
         calls[c].kind = "shutdown"
  PROVE  ShutdownIsLast /\ c = Len(calls) /\ Len(calls') = Len(calls)
<1>1. \A d \in DOMAIN calls : calls[d].kind = "shutdown" => d = Len(calls')
  <2>1. ASSUME NEW d \in DOMAIN calls, calls[d].kind = "shutdown"
        PROVE  d = Len(calls')
    <3>1. d \in DOMAIN calls' /\ calls'[d].kind = "shutdown"
      BY <2>1, CallsKept
    <3>. QED
      BY <3>1 DEF ShutdownIsLast
  <2>. QED
    BY <2>1
<1>2. c = Len(calls') /\ c <= Len(calls) /\ Len(calls) <= Len(calls')
  BY <1>1, CallsGrow
<1>3. Len(calls) \in Nat /\ Len(calls') \in Nat
  BY CallsGrow
<1>4. Len(calls') = Len(calls)
  BY <1>2, <1>3
<1>. QED
  BY <1>1, <1>2, <1>4 DEF ShutdownIsLast

LEMMA ShutInductive ==
  ASSUME TypeOK, BoundAssumption, RunsInv, CallsInv, StopInv, OrderInv, ShutInv,
         [Next]_vars
  PROVE  ShutInv'
<1>. RunsStep /\ CallsStep
  BY Steps
<1>1. SUFFICES ASSUME ShutdownIsLast', NEW c \in DOMAIN calls',
                      calls'[c].kind = "shutdown", calls'[c].pc # "ongoing"
               PROVE  LastRun(c)'
  BY DEF ShutInv
<1>2. c \in DOMAIN calls /\ calls[c].kind = "shutdown" /\ ~Begins(c)
  <2>1. ~Begins(c)
    BY <1>1 DEF Begins, NewCall
  <2>2. c \in DOMAIN calls
    BY <2>1, CallsGrow
  <2>. QED
    BY <1>1, <2>1, <2>2, CallsKept
<1>3. ShutdownIsLast /\ c = Len(calls) /\ Len(calls') = Len(calls)
  BY <1>1, <1>2, LastBefore
<1>4. /\ ~interval
      /\ \A d \in DOMAIN calls : d <= c
      /\ DOMAIN calls' = DOMAIN calls
      /\ \A d \in DOMAIN calls : calls'[d].pc = "ongoing" => calls[d].pc = "ongoing"
  <2>1. ~interval
    BY <1>2 DEF StopInv
  <2>2. DOMAIN calls' = DOMAIN calls /\ \A d \in DOMAIN calls : d <= c
    BY <1>3, CallsGrow
  <2>3. \A d \in DOMAIN calls : ~Begins(d)
    BY DEF Begins
  <2>4. \A d \in DOMAIN calls : calls'[d].pc = "ongoing" => calls[d].pc = "ongoing"
    BY <2>2, <2>3, CallsGrow DEF Becomes, CallEdit
  <2>. QED
    BY <2>1, <2>2, <2>4
<1>5. ASSUME isShutdown PROVE calls[c].pc = "stopped"
  <2>1. PICK d \in DOMAIN calls : calls[d].pc = "stopped"
    BY <1>5 DEF StopInv
  <2>2. calls[d].kind = "shutdown"
    BY <2>1 DEF StopInv, StopsExporter
  <2>3. d = c
    BY <1>3, <2>2 DEF ShutdownIsLast
  <2>. QED
    BY <2>1, <2>3
<1>6. CASE calls[c].pc = "ongoing"
  <2>1. Becomes(c, calls'[c])
    BY <1>1, <1>2, <1>6, CallsGrow
  <2>2. ResumeReady(c) /\ ongoing' # 0 /\ calls'[c].waits = ongoing'
    BY <1>1, <1>6, <2>1 DEF Becomes, CallEdit, RunReady
  <2>3. SomeoneResumes /\ ~isShutdown
    BY <1>2, <1>5, <1>6, <2>2 DEF SomeoneResumes
  <2>4. RunsInv'
    BY RunsInductive
  <2>5. ongoing' = Len(runs')
    BY <2>2, <2>4 DEF RunsInv
  <2>6. calls' # calls
    BY <1>1, <1>6
  <2>7. runs'[ongoing'].phase = "collecting"
    <3>1. CASE UNCHANGED <<runs, ongoing>>
      BY <2>2, <2>3, <3>1 DEF OrderInv
    <3>2. CASE StartRun
      BY <2>3, <3>2, NewRun
    <3>. QED
      BY <2>6, <3>1, <3>2 DEF RunsStep
  <2>. QED
    BY <2>2, <2>5, <2>7 DEF LastRun
<1>7. CASE calls[c].pc # "ongoing"
  <2>1. LastRun(c)
    BY <1>2, <1>3, <1>7 DEF ShutInv
  <2>2. calls'[c].waits = calls[c].waits
    BY <1>2, <1>7, CallsGrow DEF Becomes, CallEdit, ResumeReady
  <2>3. runs \in Seq(Run) /\ calls[c].waits \in DOMAIN runs
    BY <1>2, <1>7, IndexTypes DEF TypeOK, CallsInv, CallInv
  <2>4. CASE SomeoneResumes /\ ongoing = 0
    <3>1. runs[calls[c].waits].phase = "collecting"
      BY <2>1, <2>4 DEF LastRun, SomeoneResumes, ResumeReady
    <3>. QED
      BY <1>2, <1>7, <2>4, <3>1, CollectingIsOngoing
  <2>5. CASE ~(SomeoneResumes /\ ongoing = 0)
    <3>1. \/ UNCHANGED runs
          \/ \E r \in DOMAIN runs : \E y \in Run :
               /\ runs' = [runs EXCEPT ![r] = y]
               /\ y.phase # "collecting"
               /\ runs[r].phase = "collecting" => ~SomeoneResumes
      BY <1>4, <2>5 DEF RunsStep, Advances
    <3>2. Len(runs') = Len(runs)
      BY <2>3, <3>1
    <3>3. ASSUME runs'[calls[c].waits].phase # "collecting",
                 NEW d \in DOMAIN calls, calls[d].pc = "ongoing"
          PROVE  FALSE
      <4>1. runs[calls[c].waits].phase = "collecting"
        BY <2>1, <3>3 DEF LastRun
      <4>2. ~SomeoneResumes
        BY <2>3, <3>1, <3>3, <4>1
      <4>3. ongoing = calls[c].waits
        BY <1>2, <1>7, <4>1, CollectingIsOngoing
      <4>. QED
        BY <1>2, <1>4, <1>7, <3>3, <4>2, <4>3, EarlierCallsAreReady
    <3>. QED
      BY <1>4, <2>1, <2>2, <3>2, <3>3 DEF LastRun
  <2>. QED
    BY <2>4, <2>5
<1>. QED
  BY <1>6, <1>7

\* The inductive invariant of shutdown.
THEOREM ShutdownCorrect == Spec => [](StopInv /\ OrderInv /\ ShutInv)
<1>1. Init => StopInv /\ OrderInv /\ ShutInv
  BY InitFacts DEF Init, StopInv, OrderInv, ShutInv, SomeoneResumes
<1>2. TypeOK /\ RunsInv /\ CallsInv /\ StopInv /\ OrderInv /\ ShutInv /\ [Next]_vars
        => StopInv' /\ OrderInv' /\ ShutInv'
  BY StopInductive, OrderInductive, ShutInductive, BoundAssumption
<1>. QED
  BY <1>1, <1>2, TypeCorrect, CallsCorrect, PTL DEF Spec

\* A step after exporter.shutdown() was called by the last call exports nothing.
LEMMA NothingStarts ==
  ASSUME TypeOK, BoundAssumption, RunsInv, CallsInv, StopInv, ShutInv, [Next]_vars,
         ExporterStopped, ShutdownIsLast,
         NEW r \in DOMAIN runs', runs'[r].phase = "exporting"
  PROVE  r \in DOMAIN runs /\ runs'[r] = runs[r]
<1>. RunsStep
  BY Steps
<1>. runs \in Seq(Run) /\ DOMAIN runs = 1..Len(runs) /\ Len(runs) \in Nat
     /\ ongoing \in Nat
  BY IndexTypes DEF TypeOK
<1>1. PICK c \in DOMAIN calls : StopsExporter(c)
  BY DEF ExporterStopped
<1>2. calls[c].kind = "shutdown" /\ calls[c].pc # "ongoing" /\ PastRun(c)
  BY <1>1 DEF StopInv, StopsExporter, PastRun
<1>3. RunEnded(calls[c].waits)
  BY <1>2 DEF CallsInv, CallInv
<1>4. LastRun(c)
  BY <1>2 DEF ShutInv
<1>5. ~interval /\ ~SomeoneResumes
  BY <1>2, <1>3, <1>4 DEF StopInv, LastRun, RunEnded, Ended, SomeoneResumes, ResumeReady
<1>6. \A q \in DOMAIN runs : RunEnded(q)
  BY <1>3, <1>4 DEF RunsInv, RunsOneAtATime, LastRun
<1>7. \/ UNCHANGED runs
      \/ \E q \in DOMAIN runs : \E y \in Run :
           y.phase \in Ended /\ runs' = [runs EXCEPT ![q] = y]
  BY <1>5, <1>6 DEF RunsStep, Advances
<1>. QED
  BY <1>7 DEF Ended

\* Nothing is exported once the shutdown that is the last call has called
\* exporter.shutdown(), by the interval or by any flush still in progress.
THEOREM ExporterShutdownIsLast == Spec => NoExportAfterExporterShutdown
<1>1. TypeOK /\ RunsInv /\ CallsInv /\ StopInv /\ ShutInv /\ [Next]_vars
        => [ExporterStopped /\ ShutdownIsLast =>
              \A r \in DOMAIN runs' :
                runs'[r].phase = "exporting"
                  => r \in DOMAIN runs /\ runs'[r] = runs[r]]_vars
  BY NothingStarts, BoundAssumption
<1>. QED
  BY <1>1, TypeCorrect, CallsCorrect, ShutdownCorrect, PTL
     DEF Spec, NoExportAfterExporterShutdown
===============================================================================
