--------------------------- MODULE OtlpExportProofs ---------------------------
(* Theorems about OtlpExport, for any exports, limits, timeouts and delays. *)
EXTENDS OtlpExport, FiniteSetTheorems, SequenceTheorems, TLAPS

-------------------------------------------------------------------------------
\* Exports

\* A field of an export that is given a value of its type leaves it an export.
LEMMA FieldType ==
  ASSUME NEW x \in Export
  PROVE  /\ \A v \in {"refused", "empty", "opening", "sending", "answered",
                      "waiting", "finished", "reported"} :
              [x EXCEPT !.phase = v] \in Export
         /\ \A v \in 0..MaxAttempts : [x EXCEPT !.left = v] \in Export
         /\ \A v \in Int : [x EXCEPT !.timer = v] \in Export
         /\ \A v \in BOOLEAN : [x EXCEPT !.timed = v] \in Export
         /\ \A v \in Int : [x EXCEPT !.grant = v] \in Export
         /\ \A v \in 0..MaxParts : [x EXCEPT !.parts = v] \in Export
         /\ \A v \in {"none", "retryable", "final"} :
              [x EXCEPT !.result = v] \in Export
         /\ \A v \in BOOLEAN : [x EXCEPT !.threw = v] \in Export
         /\ \A v \in BOOLEAN : [x EXCEPT !.prompt = v] \in Export
BY DEF Export

LEMMA NewType == New \in Export
BY RetryAssumption DEF New, Export

\* What happens to an export leaves it an export.
LEMMA EditType ==
  ASSUME NEW x \in Export
  PROVE  /\ [x EXCEPT !.phase = "refused"] \in Export
         /\ [x EXCEPT !.phase = "empty"] \in Export
         /\ \A t \in Int : Send(x, t) \in Export
         /\ Connected(x) \in Export
         /\ x.parts < MaxParts => Continued(x) \in Export
         /\ \A r \in {"retryable", "final"} : Answered(x, r) \in Export
         /\ Finished \in Export
         /\ \A threw \in BOOLEAN : Reported(threw) \in Export
         /\ Later(x) \in Export
<1>1. ASSUME NEW t \in Int
      PROVE  Send(x, t) \in Export
  <2> DEFINE a == [x EXCEPT !.phase = "opening"]
             b == [a EXCEPT !.timer = 0]
             c == [b EXCEPT !.timed = FALSE]
  <2> 0 \in Int
    OBVIOUS
  <2>1. a \in Export
    BY FieldType
  <2>2. b \in Export
    BY <2>1, FieldType, Zenon
  <2>3. c \in Export
    BY <2>2, FieldType
  <2>4. [c EXCEPT !.grant = t] \in Export
    BY <2>3, FieldType
  <2>5. Send(x, t) = [c EXCEPT !.grant = t]
    BY DEF Send
  <2> QED BY <2>4, <2>5
<1>2. Connected(x) \in Export
  BY DEF Connected, Export
<1>3. ASSUME x.parts < MaxParts
      PROVE  Continued(x) \in Export
  <2> DEFINE a == [x EXCEPT !.timer = x.grant]
             b == [a EXCEPT !.parts = x.parts + 1]
  <2>1. x.grant \in Int /\ x.parts + 1 \in 0..MaxParts
    BY <1>3, RetryAssumption DEF Export
  <2>2. a \in Export
    BY <2>1, FieldType
  <2>3. b \in Export
    BY <2>1, <2>2, FieldType
  <2>4. [b EXCEPT !.prompt = FALSE] \in Export
    BY <2>3, FieldType
  <2>5. Continued(x) = [b EXCEPT !.prompt = FALSE]
    BY DEF Continued, Export
  <2> QED BY <2>4, <2>5
<1>4. ASSUME NEW r \in {"retryable", "final"}
      PROVE  Answered(x, r) \in Export
  <2> DEFINE a == [x EXCEPT !.phase = "answered"]
             b == [a EXCEPT !.timer = 0]
             c == [b EXCEPT !.timed = FALSE]
             d == [c EXCEPT !.grant = 0]
             f == [d EXCEPT !.parts = 0]
  <2> 0 \in Int
    OBVIOUS
  <2>1. a \in Export
    BY FieldType
  <2>2. b \in Export
    BY <2>1, FieldType, Zenon
  <2>3. c \in Export
    BY <2>2, FieldType
  <2>4. d \in Export
    BY <2>1, <2>3, FieldType, Zenon
  <2>5. 0 \in 0..MaxParts
    BY RetryAssumption
  <2>6. f \in Export
    BY <2>4, <2>5, FieldType
  <2>7. [f EXCEPT !.result = r] \in Export
    BY <2>6, FieldType
  <2>8. Answered(x, r) = [f EXCEPT !.result = r]
    BY DEF Answered
  <2> QED BY <2>7, <2>8
<1>5. Finished \in Export /\ \A threw \in BOOLEAN : Reported(threw) \in Export
  <2>1. [New EXCEPT !.phase = "finished"] \in Export
    BY NewType, FieldType
  <2>2. [New EXCEPT !.phase = "reported"] \in Export
    BY NewType, FieldType
  <2>3. ASSUME NEW threw \in BOOLEAN
        PROVE  [[New EXCEPT !.phase = "reported"] EXCEPT !.threw = threw] \in Export
    BY <2>2, FieldType
  <2> QED BY <2>1, <2>3 DEF Finished, Reported
<1>6. Later(x) \in Export
  <2> DEFINE n == IF x.elapsed < MaxElapsed THEN x.elapsed + 1 ELSE x.elapsed
             t == IF x.timed THEN x.timer - 1 ELSE x.timer
             y == [x EXCEPT !.elapsed = n]
             z == [y EXCEPT !.timer = t]
  <2>1. n \in Nat /\ t \in Int /\ (x.prompt /\ x.timed) \in BOOLEAN
    BY DEF Export
  <2>2. y \in Export /\ z \in Export
    BY <2>1 DEF Export
  <2>3. [z EXCEPT !.prompt = (x.prompt /\ x.timed)] \in Export
    BY <2>1, <2>2 DEF Export
  <2>4. Running(x) => Later(x) = [z EXCEPT !.prompt = (x.prompt /\ x.timed)]
    BY DEF Later, Export
  <2>5. ~Running(x) => Later(x) = x
    BY DEF Later
  <2> QED BY <2>3, <2>4, <2>5
<1> QED
  BY <1>1, <1>2, <1>3, <1>4, <1>5, <1>6 DEF Export

LEMMA WaitsType ==
  ASSUME NEW x \in Export, NEW delay \in RetryDelays, MayRetry(x)
  PROVE  Waits(x, delay) \in Export
<1>1. x.left - 1 \in 0..MaxAttempts /\ Pause(delay) \in Int /\ Remaining(x) \in Int
  BY TimeAssumption, RetryAssumption DEF MayRetry, Pause, Remaining, Export
<1> QED BY <1>1 DEF Waits, Export

\* What a step does to the exports: it leaves them, changes one, or lets a
\* millisecond pass for all.
Changes(e, x, y) ==
  \/ x.phase = "new" /\ y = [x EXCEPT !.phase = "refused"]
  \/ x.phase = "new" /\ y = [x EXCEPT !.phase = "empty"]
  \/ x.phase = "new" /\ y = Send(x, Timeout) /\ e \in sendingPromises'
  \/ /\ x.phase = "answered" /\ MayRetry(x)
     /\ \E delay \in RetryDelays : InTime(x, delay) /\ y = Waits(x, delay)
  \/ x.phase = "answered" /\ y = Finished
  \/ x.phase = "finished" /\ \E threw \in BOOLEAN : y = Reported(threw)
  \/ x.phase = "opening" /\ x.grant >= 0 /\ y = Connected(x)
  \/ x.phase = "sending" /\ y = Continued(x)
  \/ /\ x.phase \in {"opening", "sending"}
     /\ \E r \in {"retryable", "final"} : y = Answered(x, r)
  \/ RetryDue(x) /\ y = Send(x, x.grant)

ExportsStep ==
  \/ exports' = exports
  \/ \E e \in Exports, y \in Export : Changes(e, exports[e], y) /\ Set(e, y)
  \/ Tick

LEMMA StepOfExports ==
  ASSUME TypeOK, [Next]_vars
  PROVE  ExportsStep
<1> USE DEF TypeOK
<1>1. ASSUME NEW e \in Exports, ExportItems(e)
      PROVE  ExportsStep
  <2>1. CASE Refuse(e)
    BY <1>1, <2>1, EditType DEF ExportItems, Refuse, Changes, ExportsStep
  <2>2. CASE SendNothing(e)
    BY <1>1, <2>2, EditType DEF ExportItems, SendNothing, Changes, ExportsStep
  <2>3. CASE SendRequest(e)
    <3>1. exports[e] \in Export /\ Timeout \in Int
      BY TimeAssumption
    <3>2. Send(exports[e], Timeout) \in Export
      BY <3>1, EditType
    <3>3. /\ exports[e].phase = "new" /\ e \in sendingPromises'
          /\ Set(e, Send(exports[e], Timeout))
      BY <1>1, <2>3 DEF ExportItems, SendRequest
    <3> QED BY <3>2, <3>3 DEF Changes, ExportsStep
  <2> QED BY <1>1, <2>1, <2>2, <2>3 DEF ExportItems
<1>2. ASSUME NEW e \in Exports, Decide(e)
      PROVE  ExportsStep
  <2>1. ASSUME NEW delay \in RetryDelays, MayRetry(exports[e]),
               InTime(exports[e], delay), Set(e, Waits(exports[e], delay))
        PROVE  ExportsStep
    BY <1>2, <2>1, WaitsType DEF Decide, Changes, ExportsStep
  <2>2. CASE Set(e, Finished)
    BY <1>2, <2>2, EditType DEF Decide, Changes, ExportsStep
  <2> QED BY <1>2, <2>1, <2>2 DEF Decide
<1>3. ASSUME NEW e \in Exports, Report(e)
      PROVE  ExportsStep
  BY <1>3, EditType, ChoiceAssumption DEF Report, Changes, ExportsStep
<1>4. ASSUME NEW e \in Exports, RequestAnswered(e)
      PROVE  ExportsStep
  BY <1>4, EditType DEF RequestAnswered, Answers, Changes, ExportsStep
<1>5. ASSUME NEW e \in Exports, RequestTimeout(e)
      PROVE  ExportsStep
  BY <1>5, EditType DEF RequestTimeout, RequestTimesOut, Changes, ExportsStep
<1>6. ASSUME NEW e \in Exports, RetryTimer(e)
      PROVE  ExportsStep
  <2>1. exports[e].grant \in Int
    BY DEF Export
  <2> QED BY <1>6, <2>1, EditType DEF RetryTimer, Changes, ExportsStep
<1>7. ASSUME NEW e \in Exports, Connect(e) \/ PartArrives(e)
      PROVE  ExportsStep
  <2>1. exports[e] \in Export
    OBVIOUS
  <2> QED BY <1>7, <2>1, EditType DEF Connect, PartArrives, Changes, ExportsStep
<1>8. CASE \/ ForceFlush \/ Shutdown \/ CloseTransport \/ UNCHANGED vars
           \/ \E e \in Exports : PopPromise(e)
  BY <1>8 DEF ForceFlush, Shutdown, CloseTransport, PopPromise, vars, ExportsStep
<1> QED
  BY <1>1, <1>2, <1>3, <1>4, <1>5, <1>6, <1>7, <1>8
     DEF Next, Application, Reaction, TimerTask, Network, ExportsStep

-------------------------------------------------------------------------------
\* Types

LEMMA ExportsKeepType ==
  ASSUME TypeOK, ExportsStep
  PROVE  exports' \in [Exports -> Export]
<1>1. ASSUME NEW e \in Exports, NEW y \in Export, Set(e, y)
      PROVE  exports' \in [Exports -> Export]
  BY <1>1 DEF TypeOK, Set
<1>2. CASE Tick
  <2>1. \A e \in Exports : Later(exports[e]) \in Export
    BY EditType DEF TypeOK
  <2> QED BY <1>2, <2>1 DEF Tick
<1> QED
  BY <1>1, <1>2 DEF ExportsStep, TypeOK

\* Every variable keeps its type.
THEOREM TypeCorrect == Spec => []TypeOK
<1>1. Init => TypeOK
  <2> SUFFICES ASSUME Init PROVE TypeOK
    OBVIOUS
  <2>1. exports \in [Exports -> Export]
    BY NewType DEF Init
  <2>2. flushes \in Seq(Flush)
    BY DEF Init
  <2> QED BY <2>1, <2>2 DEF Init, TypeOK
<1>2. TypeOK /\ [Next]_vars => TypeOK'
  <2> SUFFICES ASSUME TypeOK, [Next]_vars PROVE TypeOK'
    OBVIOUS
  <2>1. exports' \in [Exports -> Export]
    BY StepOfExports, ExportsKeepType
  <2>2. sendingPromises' \subseteq Exports
    BY DEF TypeOK, Next, Application, Reaction, TimerTask, vars, ExportItems, Refuse,
       SendNothing, SendRequest, ForceFlush, Shutdown, Decide, Report, PopPromise,
       CloseTransport, RequestTimeout, RetryTimer, Tick, Network, Connect, PartArrives,
       RequestAnswered
  <2>3. flushes' \in Seq(Flush)
    <3>1. ASSUME NEW kind \in {"forceFlush", "shutdown"}, AwaitAll(kind)
          PROVE  flushes' \in Seq(Flush)
      <4>1. [kind |-> kind, awaits |-> sendingPromises, before |-> Begun] \in Flush
        BY DEF TypeOK, Flush, Begun
      <4> QED BY <3>1, <4>1, AppendProperties DEF AwaitAll, TypeOK
    <3>2. CASE ForceFlush \/ Shutdown
      BY <3>1, <3>2 DEF ForceFlush, Shutdown
    <3>3. CASE ~ForceFlush /\ ~Shutdown
      BY <3>3 DEF TypeOK, Next, Application, Reaction, TimerTask, vars, ExportItems,
         Decide, Report, PopPromise, CloseTransport, RequestTimeout, RetryTimer,
         Tick, Network, Connect, PartArrives,
       RequestAnswered
    <3> QED BY <3>2, <3>3
  <2>4. transportClosed' \in BOOLEAN
    BY DEF TypeOK, Next, Application, Reaction, TimerTask, vars, ExportItems,
       ForceFlush, Shutdown, Decide, Report, PopPromise, CloseTransport,
       RequestTimeout, RetryTimer, Tick, Network, Connect, PartArrives,
       RequestAnswered
  <2> QED BY <2>1, <2>2, <2>3, <2>4 DEF TypeOK
<1> QED
  BY <1>1, <1>2, PTL DEF Spec

-------------------------------------------------------------------------------
\* Time

\* How long an export may take whose time is all under timers.
Bounded(n) ==
  \/ n <= Timeout + 2
  \/ \E delay \in RetryDelays : delay <= Timeout /\ n <= Timeout + delay

\* What an export has used and may still use of its time: a request as much as
\* its timer, a wait its timer and the timeout of the next request.  The start
\* of a retry is bounded even if the requests before it were not.
Timely(x) ==
  /\ x.prompt => Bounded(x.elapsed)
  /\ x.phase = "new" => x.elapsed = 0
  /\ x.phase = "opening" =>
       ~x.timed /\ (x.prompt /\ x.grant >= 0 => Bounded(x.elapsed + x.grant))
  /\ x.phase = "sending" =>
       /\ x.grant >= 0
       /\ x.timed => x.timer \in Nat /\ (x.prompt => Bounded(x.elapsed + x.timer))
  /\ x.phase = "waiting" =>
       /\ x.timed /\ x.timer \in Nat
       /\ x.elapsed + x.timer <= Timeout + 2
       /\ x.prompt /\ x.grant >= 0 => Bounded(x.elapsed + x.timer + x.grant)

TimelyExports == \A e \in Exports : Timely(exports[e])

\* A bound on a longer time is a bound on a shorter one.
LEMMA BoundedBelow ==
  ASSUME NEW n \in Int, NEW m \in Int, m <= n, Bounded(n)
  PROVE  Bounded(m)
BY TimeAssumption, RetryAssumption DEF Bounded

LEMMA BoundedFirst ==
  ASSUME NEW n \in Int, n <= Timeout + 2
  PROVE  Bounded(n)
BY DEF Bounded

\* A retry begins in time, and the time granted to it keeps the budget.
LEMMA WaitsTimely ==
  ASSUME NEW x \in Export, Timely(x), NEW delay \in RetryDelays, InTime(x, delay)
  PROVE  Timely(Waits(x, delay))
<1> DEFINE y == Waits(x, delay)
           pause == Pause(delay)
<1>1. x.elapsed \in Nat /\ delay \in Int /\ delay >= -1 /\ Timeout \in Nat
  BY RetryAssumption, TimeAssumption DEF Export
<1>2. delay <= Timeout - x.elapsed
  BY DEF InTime, Remaining
<1>3. /\ y.phase = "waiting" /\ y.elapsed = x.elapsed /\ y.timer = pause
      /\ y.timed /\ y.grant = Timeout - x.elapsed /\ y.prompt = x.prompt
  BY DEF Waits, Remaining, Export
<1>4. pause = (IF delay < 1 THEN 1 ELSE delay)
  BY DEF Pause
<1> HIDE DEF y, pause
<1>5. y.timer \in Nat /\ y.elapsed + y.timer <= Timeout + 2
  BY <1>1, <1>2, <1>3, <1>4
<1>6. y.grant >= 0 => Bounded(y.elapsed + y.timer + y.grant)
  <2>1. y.elapsed + y.timer + y.grant = Timeout + pause
    BY <1>1, <1>3, <1>4
  <2>2. CASE delay < 1
    <3>1. Timeout + pause \in Int /\ Timeout + pause <= Timeout + 2
      BY <1>1, <1>4, <2>2
    <3> QED BY <2>1, <3>1, BoundedFirst
  <2>3. CASE ~(delay < 1)
    <3>1. pause = delay /\ (y.grant >= 0 => delay <= Timeout)
      BY <1>1, <1>2, <1>3, <1>4, <2>3
    <3> QED BY <1>1, <2>1, <3>1 DEF Bounded
  <2> QED BY <2>2, <2>3
<1>7. y.prompt => Bounded(y.elapsed)
  BY <1>3 DEF Timely
<1>8. Timely(y)
  BY <1>3, <1>5, <1>6, <1>7 DEF Timely
<1> QED BY <1>8 DEF y

LEMMA SendTimely ==
  ASSUME NEW x \in Export, Timely(x), NEW timeout \in Int,
         x.prompt /\ timeout >= 0 => Bounded(x.elapsed + timeout)
  PROVE  Timely(Send(x, timeout))
<1> DEFINE y == Send(x, timeout)
<1>1. /\ y.phase = "opening" /\ y.elapsed = x.elapsed /\ y.grant = timeout
      /\ ~y.timed /\ y.prompt = x.prompt
  BY DEF Send, Export
<1> HIDE DEF y
<1>2. Timely(y)
  BY <1>1 DEF Timely
<1> QED BY <1>2 DEF y

LEMMA ConnectedTimely ==
  ASSUME NEW x \in Export, Timely(x), x.phase = "opening", x.grant >= 0
  PROVE  Timely(Connected(x))
<1> DEFINE y == Connected(x)
<1>1. /\ y.phase = "sending" /\ y.elapsed = x.elapsed /\ y.grant = x.grant
      /\ y.timer = x.grant /\ y.prompt = x.prompt
  BY DEF Connected, Export
<1>2. x.grant \in Int
  BY DEF Export
<1> HIDE DEF y
<1>3. Timely(y)
  BY <1>1, <1>2 DEF Timely
<1> QED BY <1>3 DEF y

LEMMA ContinuedTimely ==
  ASSUME NEW x \in Export, Timely(x), x.phase = "sending"
  PROVE  Timely(Continued(x))
<1> DEFINE y == Continued(x)
<1>1. /\ y.phase = "sending" /\ y.grant = x.grant
      /\ y.timer = x.grant /\ ~y.prompt
  BY DEF Continued, Export
<1>2. x.grant \in Int
  BY DEF Export
<1> HIDE DEF y
<1>3. Timely(y)
  BY <1>1, <1>2 DEF Timely
<1> QED BY <1>3 DEF y

\* A record in one of the other phases is timely if its time is bounded.
LEMMA RestTimely ==
  ASSUME NEW y, y.phase \notin {"new", "opening", "sending", "waiting"},
         y.prompt => Bounded(y.elapsed)
  PROVE  Timely(y)
BY DEF Timely

LEMMA ChangesTimely ==
  ASSUME NEW e \in Exports, NEW x \in Export, NEW y \in Export,
         Timely(x), Changes(e, x, y)
  PROVE  Timely(y)
<1>1. x.elapsed \in Nat /\ Timeout \in Nat /\ Bounded(0)
  BY TimeAssumption DEF Export, Bounded
<1>2. CASE y = [x EXCEPT !.phase = "refused"] \/ y = [x EXCEPT !.phase = "empty"]
  <2>1. y.phase \notin {"new", "opening", "sending", "waiting"}
        /\ y.elapsed = x.elapsed /\ y.prompt = x.prompt
    BY <1>2 DEF Export
  <2> QED BY <2>1, RestTimely DEF Timely
<1>3. CASE x.phase = "new" /\ y = Send(x, Timeout)
  <2>1. x.elapsed + Timeout \in Int /\ x.elapsed + Timeout <= Timeout + 2
    BY <1>1, <1>3 DEF Timely
  <2> QED BY <1>1, <1>3, <2>1, BoundedFirst, SendTimely
<1>4. CASE \E delay \in RetryDelays : InTime(x, delay) /\ y = Waits(x, delay)
  BY <1>4, WaitsTimely
<1>5. CASE y = Finished
  <2>1. y.phase = "finished" /\ y.elapsed = 0
    BY <1>5 DEF Finished, New
  <2> QED BY <1>1, <2>1, RestTimely
<1>6. CASE \E threw \in BOOLEAN : y = Reported(threw)
  <2>1. y.phase = "reported" /\ y.elapsed = 0
    BY <1>6 DEF Reported, New
  <2> QED BY <1>1, <2>1, RestTimely
<1>7. CASE \E r \in {"retryable", "final"} : y = Answered(x, r)
  <2>1. y.phase = "answered" /\ y.elapsed = x.elapsed /\ y.prompt = x.prompt
    BY <1>7 DEF Answered, Export
  <2> QED BY <2>1, RestTimely DEF Timely
<1>8. CASE RetryDue(x) /\ y = Send(x, x.grant)
  <2>1. /\ x.timer = 0 /\ x.grant \in Int
        /\ x.prompt /\ x.grant >= 0 => Bounded(x.elapsed + x.timer + x.grant)
    BY <1>8 DEF RetryDue, Timely, Export
  <2>2. x.elapsed + x.timer + x.grant = x.elapsed + x.grant
    BY <1>1, <2>1
  <2> QED BY <1>8, <2>1, <2>2, SendTimely
<1>9. CASE x.phase = "opening" /\ x.grant >= 0 /\ y = Connected(x)
  BY <1>9, ConnectedTimely
<1>10. CASE x.phase = "sending" /\ y = Continued(x)
  BY <1>10, ContinuedTimely
<1> QED
  BY <1>2, <1>3, <1>4, <1>5, <1>6, <1>7, <1>8, <1>9, <1>10 DEF Changes

\* A millisecond passes only when no timer is due.
LEMMA LaterKeeps ==
  ASSUME NEW x \in Export, Timely(x), Running(x), x.phase # "answered",
         ~RequestTimesOut(x), ~RetryDue(x),
         NEW y, y.phase = x.phase, y.grant = x.grant, y.timed <=> x.timed,
         y.prompt => x.prompt /\ x.timed,
         y.elapsed \in Nat, y.elapsed <= x.elapsed + 1,
         y.timer = IF x.timed THEN x.timer - 1 ELSE x.timer
  PROVE  Timely(y)
<1>1. x.elapsed \in Nat /\ x.timer \in Int /\ x.grant \in Int /\ Timeout \in Nat
  BY TimeAssumption DEF Export
<1>2. CASE x.phase = "opening"
  <2>1. ~x.timed
    BY <1>2 DEF Timely
  <2> QED BY <1>2, <2>1 DEF Timely
<1>3. CASE x.phase = "sending" /\ ~x.timed
  <2>1. x.grant >= 0
    BY <1>3 DEF Timely
  <2> QED BY <1>3, <2>1 DEF Timely
<1>4. CASE x.phase = "sending" /\ x.timed
  <2>1. /\ x.timer \in Nat /\ x.grant >= 0
        /\ x.prompt => Bounded(x.elapsed + x.timer)
    BY <1>4 DEF Timely
  <2>2. x.timer >= 1
    BY <1>4, <2>1 DEF RequestTimesOut
  <2>3. /\ y.timer \in Nat /\ y.elapsed <= x.elapsed + x.timer
        /\ y.elapsed + y.timer <= x.elapsed + x.timer
    BY <1>1, <1>4, <2>1, <2>2
  <2>4. x.prompt => Bounded(y.elapsed) /\ Bounded(y.elapsed + y.timer)
    BY <1>1, <2>1, <2>3, BoundedBelow
  <2> QED BY <1>4, <2>1, <2>3, <2>4 DEF Timely
<1>5. CASE x.phase = "waiting"
  <2>1. /\ x.timed /\ x.timer \in Nat /\ x.elapsed + x.timer <= Timeout + 2
        /\ x.prompt /\ x.grant >= 0 => Bounded(x.elapsed + x.timer + x.grant)
    BY <1>5 DEF Timely
  <2>2. x.timer >= 1
    BY <1>5, <2>1 DEF RetryDue
  <2>3. /\ y.timer \in Nat
        /\ y.elapsed <= Timeout + 2 /\ y.elapsed + y.timer <= Timeout + 2
        /\ y.elapsed + y.timer + y.grant <= x.elapsed + x.timer + x.grant
    BY <1>1, <2>1, <2>2
  <2>4. Bounded(y.elapsed)
    BY <2>3, BoundedFirst
  <2>5. x.prompt /\ x.grant >= 0 => Bounded(y.elapsed + y.timer + y.grant)
    <3>1. /\ y.elapsed + y.timer + y.grant \in Int
          /\ x.elapsed + x.timer + x.grant \in Int
      BY <1>1, <2>3
    <3> QED BY <2>1, <2>3, <3>1, BoundedBelow
  <2> QED BY <1>5, <2>1, <2>3, <2>4, <2>5 DEF Timely
<1>6. x.phase \in {"opening", "sending", "waiting"}
  BY DEF Running
<1> QED
  BY <1>2, <1>3, <1>4, <1>5, <1>6

LEMMA LaterTimely ==
  ASSUME NEW x \in Export, Timely(x), x.phase # "answered",
         ~RequestTimesOut(x), ~RetryDue(x)
  PROVE  Timely(Later(x))
<1> DEFINE y == Later(x)
<1>1. CASE Running(x)
  <2>1. /\ y.phase = x.phase /\ y.grant = x.grant /\ (y.timed <=> x.timed)
        /\ y.prompt => x.prompt /\ x.timed
        /\ y.elapsed = IF x.elapsed < MaxElapsed THEN x.elapsed + 1 ELSE x.elapsed
        /\ y.timer = IF x.timed THEN x.timer - 1 ELSE x.timer
    BY <1>1 DEF Later, Export
  <2>2. x.elapsed \in Nat /\ MaxElapsed \in Nat
    BY TimeAssumption DEF Export
  <2> HIDE DEF y
  <2>3. y.elapsed \in Nat /\ y.elapsed <= x.elapsed + 1
    BY <2>1, <2>2
  <2>4. Timely(y)
    BY <1>1, <2>1, <2>3, LaterKeeps
  <2> QED BY <2>4 DEF y
<1>2. CASE ~Running(x)
  BY <1>2 DEF Later
<1> QED
  BY <1>1, <1>2

LEMMA TimelyStep ==
  ASSUME TypeOK, TimelyExports, ExportsStep
  PROVE  TimelyExports'
<1>1. CASE exports' = exports
  BY <1>1 DEF TimelyExports
<1>2. ASSUME NEW e \in Exports, NEW y \in Export, Changes(e, exports[e], y), Set(e, y)
      PROVE  TimelyExports'
  <2>1. exports[e] \in Export /\ Timely(exports[e])
    BY DEF TypeOK, TimelyExports
  <2>2. Timely(y)
    BY <1>2, <2>1, ChangesTimely
  <2>3. \A d \in Exports : exports'[d] = IF d = e THEN y ELSE exports[d]
    BY <1>2 DEF Set, TypeOK
  <2> QED BY <2>2, <2>3 DEF TimelyExports
<1>3. CASE Tick
  <2>1. ASSUME NEW e \in Exports
        PROVE  Timely(Later(exports[e]))
    <3>1. exports[e] \in Export /\ Timely(exports[e])
      BY DEF TypeOK, TimelyExports
    <3>2. /\ exports[e].phase # "answered"
          /\ ~RequestTimesOut(exports[e]) /\ ~RetryDue(exports[e])
      BY <1>3 DEF Tick, MicrotasksDone
    <3> QED BY <3>1, <3>2, LaterTimely
  <2>2. \A e \in Exports : exports'[e] = Later(exports[e])
    BY <1>3 DEF Tick
  <2> QED BY <2>1, <2>2 DEF TimelyExports
<1> QED
  BY <1>1, <1>2, <1>3 DEF ExportsStep

LEMMA TimelyInit ==
  ASSUME Init
  PROVE  TimelyExports
<1>1. Bounded(0)
  BY TimeAssumption DEF Bounded
<1>2. New.phase = "new" /\ New.elapsed = 0
  BY DEF New
<1>3. Timely(New)
  BY <1>1, <1>2 DEF Timely
<1> QED
  BY <1>3 DEF Init, TimelyExports

\* The time budget is kept in every state, by every delay the code can wait: a
\* retry begins by the deadline (or 2 ms after), and what an export under timers
\* has used, what its timer leaves and what the next request gets stay within
\* the bound.
THEOREM TimeBudget == Spec => []TimelyExports
<1>1. Init => TimelyExports
  BY TimelyInit
<1>2. TypeOK /\ TimelyExports /\ [Next]_vars => TimelyExports'
  BY StepOfExports, TimelyStep
<1> QED
  BY <1>1, <1>2, TypeCorrect, PTL DEF Spec

\* An export all of whose time passed under timers that nothing began anew
\* outlives its timeout by one retry delay at most (retrying-transport.ts:61-72).
THEOREM Overshoot == Spec => []OvershootsByOneDelay
<1>1. TimelyExports => OvershootsByOneDelay
  BY DEF TimelyExports, Timely, OvershootsByOneDelay, Bounded
<1> QED
  BY <1>1, TimeBudget, PTL

\* However long requests take to open, to be sent and to be answered, no retry
\* begins more than 2 ms after the deadline (retrying-transport.ts:62).
THEOREM RetriesInTime == Spec => RetriesBeginInTime
<1> DEFINE InTimeStep ==
      \A e \in Exports :
        exports[e].phase = "waiting" /\ exports'[e].phase = "opening"
          => exports[e].elapsed <= Timeout + 2
<1>1. TypeOK /\ TimelyExports /\ [Next]_vars => InTimeStep
  <2> SUFFICES ASSUME TypeOK, TimelyExports, [Next]_vars, NEW e \in Exports,
                      exports[e].phase = "waiting", exports'[e].phase = "opening"
               PROVE  exports[e].elapsed <= Timeout + 2
    OBVIOUS
  <2> DEFINE x == exports[e]
             y == exports'[e]
  <2>1. x \in Export /\ Timely(x) /\ x.elapsed \in Nat /\ Timeout \in Nat
    BY TimeAssumption DEF TypeOK, TimelyExports, Export
  <2>2. ~(Tick \/ exports' = exports)
    <3>1. Tick => y = Later(x)
      BY DEF Tick
    <3>2. Later(x).phase = x.phase
      BY <2>1 DEF Later, Export
    <3> QED BY <3>1, <3>2
  <2>3. PICK d \in Exports, z \in Export : Changes(d, exports[d], z) /\ Set(d, z)
    BY <2>2, StepOfExports DEF ExportsStep
  <2>4. d = e /\ z = y
    BY <2>3 DEF Set, TypeOK
  <2>5. Changes(e, x, y) /\ x.phase = "waiting"
    BY <2>3, <2>4
  <2> HIDE DEF x, y
  <2>6. RetryDue(x)
    BY <2>5 DEF Changes
  <2>7. x.elapsed <= Timeout + 2
    BY <2>1, <2>6 DEF Timely, RetryDue
  <2> QED
    BY <2>7 DEF x
<1>2. TypeOK /\ TimelyExports /\ [Next]_vars => [InTimeStep]_vars
  BY <1>1
<1> QED
  BY <1>2, TypeCorrect, TimeBudget, PTL DEF Spec, RetriesBeginInTime

-------------------------------------------------------------------------------
\* The promise queue

InFlight(x) == Accepted(x) /\ x.phase # "reported"

\* An export enters the queue when it begins, and once reported it stays as it
\* is.
LEMMA PhaseStep ==
  ASSUME TypeOK, ExportsStep, NEW e \in Exports
  PROVE  /\ InFlight(exports'[e]) => InFlight(exports[e]) \/ e \in sendingPromises'
         /\ exports[e].phase = "reported" => exports'[e] = exports[e]
<1> USE DEF InFlight, Accepted, Running
<1>1. CASE exports' = exports
  BY <1>1
<1>2. CASE Tick
  <2>1. exports'[e] = Later(exports[e]) /\ exports[e] \in Export
    BY <1>2 DEF Tick, TypeOK
  <2>2. Later(exports[e]).phase = exports[e].phase
    BY <2>1 DEF Later, Export
  <2>3. exports[e].phase = "reported" => Later(exports[e]) = exports[e]
    BY DEF Later
  <2> QED BY <2>1, <2>2, <2>3
<1>3. ASSUME NEW d \in Exports, NEW z \in Export, Changes(d, exports[d], z), Set(d, z)
      PROVE  /\ InFlight(exports'[e]) => InFlight(exports[e]) \/ e \in sendingPromises'
             /\ exports[e].phase = "reported" => exports'[e] = exports[e]
  <2>1. exports[d] \in Export /\ exports'[e] = IF e = d THEN z ELSE exports[e]
    BY <1>3 DEF Set, TypeOK
  <2> DEFINE x == exports[d]
  <2>2. x \in Export /\ Changes(d, x, z)
    BY <1>3, <2>1
  <2> HIDE DEF x
  <2>3. x.phase # "reported"
    BY <2>2 DEF Changes, RetryDue
  <2>4. InFlight(z) => InFlight(x) \/ d \in sendingPromises'
    <3>1. CASE z = [x EXCEPT !.phase = "refused"] \/ z = [x EXCEPT !.phase = "empty"]
      BY <2>2, <3>1 DEF Export
    <3>2. CASE InFlight(x)
      BY <3>2
    <3>3. CASE d \in sendingPromises'
      BY <3>3
    <3> QED BY <2>2, <3>1, <3>2, <3>3 DEF Changes, RetryDue
  <2> QED BY <2>1, <2>3, <2>4 DEF x
<1> QED
  BY <1>1, <1>2, <1>3 DEF ExportsStep

\* What a step does to the queue.
LEMMA QueueStep ==
  ASSUME [Next]_vars
  PROVE  \/ sendingPromises' = sendingPromises
         \/ \E e \in Exports :
              ~HasReachedLimit /\ sendingPromises' = sendingPromises \cup {e}
         \/ \E e \in sendingPromises :
              /\ exports[e].phase = "reported" /\ exports' = exports
              /\ sendingPromises' = sendingPromises \ {e}
BY DEF Next, Application, Reaction, TimerTask, vars, ExportItems, Refuse, SendNothing,
   SendRequest, ForceFlush, Shutdown, Decide, Report, PopPromise, PopReady,
   CloseTransport, RequestTimeout, RetryTimer, Tick, Network, Connect, PartArrives,
       RequestAnswered

QueueInv ==
  /\ IsFiniteSet(sendingPromises)
  /\ Cardinality(sendingPromises) <= ConcurrencyLimit
  /\ \A e \in Exports : InFlight(exports[e]) => e \in sendingPromises

LEMMA QueueInvStep ==
  ASSUME TypeOK, QueueInv, [Next]_vars
  PROVE  QueueInv'
<1>1. ExportsStep
  BY StepOfExports
<1>2. CASE sendingPromises' = sendingPromises
  BY <1>1, <1>2, PhaseStep DEF QueueInv
<1>3. ASSUME NEW e \in Exports, ~HasReachedLimit,
             sendingPromises' = sendingPromises \cup {e}
      PROVE  QueueInv'
  <2>1. IsFiniteSet(sendingPromises)
    BY DEF QueueInv
  <2>2. /\ IsFiniteSet(sendingPromises')
        /\ \/ Cardinality(sendingPromises') = Cardinality(sendingPromises)
           \/ Cardinality(sendingPromises') = Cardinality(sendingPromises) + 1
    BY <1>3, <2>1, FS_AddElement
  <2>3. Cardinality(sendingPromises) \in Nat
    BY <2>1, FS_CardinalityType
  <2>4. Cardinality(sendingPromises') <= ConcurrencyLimit
    BY <1>3, <2>2, <2>3, LimitAssumption DEF HasReachedLimit
  <2>5. \A d \in Exports : InFlight(exports'[d]) => d \in sendingPromises'
    BY <1>1, <1>3, PhaseStep DEF QueueInv
  <2> QED BY <2>2, <2>4, <2>5 DEF QueueInv
<1>4. ASSUME NEW e \in sendingPromises, exports[e].phase = "reported",
             exports' = exports, sendingPromises' = sendingPromises \ {e}
      PROVE  QueueInv'
  <2>1. IsFiniteSet(sendingPromises)
    BY DEF QueueInv
  <2>2. /\ IsFiniteSet(sendingPromises')
        /\ Cardinality(sendingPromises') = Cardinality(sendingPromises) - 1
    BY <1>4, <2>1, FS_RemoveElement
  <2>3. Cardinality(sendingPromises) \in Nat
    BY <2>1, FS_CardinalityType
  <2>4. Cardinality(sendingPromises') <= ConcurrencyLimit
    BY <2>2, <2>3, LimitAssumption DEF QueueInv
  <2>5. \A d \in Exports : InFlight(exports'[d]) => d \in sendingPromises'
    BY <1>4 DEF QueueInv, InFlight
  <2> QED BY <2>2, <2>4, <2>5 DEF QueueInv
<1> QED
  BY <1>2, <1>3, <1>4, QueueStep

\* The queue holds every export in flight and never more than its limit.
THEOREM QueueCorrect == Spec => []QueueInv
<1>1. Init => QueueInv
  <2> SUFFICES ASSUME Init PROVE QueueInv
    OBVIOUS
  <2>1. IsFiniteSet(sendingPromises) /\ Cardinality(sendingPromises) = 0
    BY FS_EmptySet DEF Init
  <2>2. \A e \in Exports : ~InFlight(exports[e])
    BY DEF Init, New, InFlight, Accepted, Running
  <2> QED BY <2>1, <2>2, LimitAssumption DEF QueueInv
<1>2. TypeOK /\ QueueInv /\ [Next]_vars => QueueInv'
  BY QueueInvStep
<1> QED
  BY <1>1, <1>2, TypeCorrect, PTL DEF Spec

\* At most concurrencyLimit exports are in flight.
THEOREM ConcurrencyLimited == Spec => []InFlightWithinLimit
<1>1. QueueInv => InFlightWithinLimit
  BY DEF QueueInv, InFlight, InFlightWithinLimit
<1> QED
  BY <1>1, QueueCorrect, PTL

-------------------------------------------------------------------------------
\* Flushes and shutdown

\* A flush awaits every export that began before it and was not reported; the
\* transport is closed by a shutdown that resolved, the only one there is.
FlushInv ==
  /\ \A f \in ToSet(flushes), e \in Exports :
       e \in f.before => e \in f.awaits \/ exports[e].phase = "reported"
  /\ \A f, g \in Shutdowns : f = g
  /\ transportClosed => \E f \in Shutdowns : FlushResolved(f)

\* What was reported stays so, and a flush that resolved stays resolved.
LEMMA ReportedStays ==
  ASSUME TypeOK, ExportsStep
  PROVE  /\ \A e \in Exports :
              exports[e].phase = "reported" => exports'[e].phase = "reported"
         /\ \A f \in Flush : FlushResolved(f) => FlushResolved(f)'
<1>1. \A e \in Exports :
        exports[e].phase = "reported" => exports'[e] = exports[e]
  BY PhaseStep
<1>2. ASSUME NEW f \in Flush, FlushResolved(f)
      PROVE  FlushResolved(f)'
  <2>1. f.awaits \subseteq Exports
    BY DEF Flush
  <2> QED BY <1>1, <1>2, <2>1 DEF FlushResolved
<1> QED
  BY <1>1, <1>2

\* What a call of awaitAll adds to the flushes.
LEMMA AwaitAllAdds ==
  ASSUME TypeOK, NEW kind \in {"forceFlush", "shutdown"}, AwaitAll(kind)
  PROVE  ToSet(flushes') = ToSet(flushes) \cup
           {[kind |-> kind, awaits |-> sendingPromises, before |-> Begun]}
<1> DEFINE f == [kind |-> kind, awaits |-> sendingPromises, before |-> Begun]
<1>1. f \in Flush /\ flushes \in Seq(Flush)
  BY DEF TypeOK, Flush, Begun
<1>2. flushes' = Append(flushes, f)
  BY DEF AwaitAll
<1> HIDE DEF f
<1>3. /\ Len(flushes') = Len(flushes) + 1 /\ Len(flushes) \in Nat
      /\ \A i \in 1..Len(flushes) : flushes'[i] = flushes[i]
      /\ flushes'[Len(flushes) + 1] = f
      /\ DOMAIN flushes = 1..Len(flushes) /\ DOMAIN flushes' = 1..(Len(flushes) + 1)
  BY <1>1, <1>2
<1>4. ToSet(flushes') = ToSet(flushes) \cup {f}
  <2>1. ASSUME NEW g \in ToSet(flushes') PROVE g \in ToSet(flushes) \cup {f}
    BY <1>3 DEF ToSet
  <2>2. ASSUME NEW g \in ToSet(flushes) PROVE g \in ToSet(flushes')
    BY <1>3 DEF ToSet
  <2>3. f \in ToSet(flushes')
    BY <1>3 DEF ToSet
  <2> QED BY <2>1, <2>2, <2>3
<1> QED
  BY <1>4 DEF f

LEMMA FlushInvStep ==
  ASSUME TypeOK, QueueInv, FlushInv, [Next]_vars
  PROVE  FlushInv'
<1>1. ExportsStep
  BY StepOfExports
<1>2. \A f \in ToSet(flushes) : f \in Flush
  <2>1. flushes \in Seq(Flush)
    BY DEF TypeOK
  <2> QED BY <2>1 DEF ToSet
<1>3. /\ \A f \in ToSet(flushes), e \in Exports :
           e \in f.before => e \in f.awaits \/ exports'[e].phase = "reported"
      /\ \A f \in Shutdowns : FlushResolved(f) => FlushResolved(f)'
  BY <1>1, <1>2, ReportedStays DEF FlushInv, Shutdowns
<1>4. ASSUME NEW kind \in {"forceFlush", "shutdown"}, AwaitAll(kind),
             exports' = exports, transportClosed' = transportClosed,
             kind = "shutdown" => Shutdowns = {}
      PROVE  FlushInv'
  <2> DEFINE f == [kind |-> kind, awaits |-> sendingPromises, before |-> Begun]
  <2>1. /\ f.kind = kind /\ f.awaits = sendingPromises /\ f.before = Begun
        /\ ToSet(flushes') = ToSet(flushes) \cup {f}
    BY <1>4, AwaitAllAdds
  <2> HIDE DEF f
  <2>2. \A e \in Exports :
          e \in f.before => e \in f.awaits \/ exports'[e].phase = "reported"
    BY <1>4, <2>1 DEF Begun, QueueInv, InFlight
  <2>3. \A g \in ToSet(flushes'), e \in Exports :
          e \in g.before => e \in g.awaits \/ exports'[e].phase = "reported"
    BY <1>3, <2>1, <2>2
  <2>4. Shutdowns' = IF kind = "shutdown" THEN {f} ELSE Shutdowns
    BY <1>4, <2>1 DEF Shutdowns
  <2>5. \A g, h \in Shutdowns' : g = h
    BY <2>4 DEF FlushInv
  <2>6. transportClosed' => \E g \in Shutdowns' : FlushResolved(g)'
    BY <1>3, <1>4, <2>4 DEF FlushInv
  <2> QED BY <2>3, <2>5, <2>6 DEF FlushInv
<1>5. CASE ForceFlush \/ Shutdown
  BY <1>4, <1>5 DEF ForceFlush, Shutdown
<1>6. CASE UNCHANGED <<flushes, transportClosed>>
  <2>1. ToSet(flushes') = ToSet(flushes) /\ Shutdowns' = Shutdowns
    BY <1>6 DEF Shutdowns
  <2> QED BY <1>3, <1>6, <2>1 DEF FlushInv
<1>7. CASE CloseTransport
  <2>1. ToSet(flushes') = ToSet(flushes) /\ Shutdowns' = Shutdowns
    BY <1>7 DEF CloseTransport, Shutdowns
  <2>2. \E f \in Shutdowns : FlushResolved(f)
    BY <1>7 DEF CloseTransport, CloseReady
  <2> QED BY <1>3, <2>1, <2>2 DEF FlushInv
<1> QED
  BY <1>5, <1>6, <1>7 DEF Next, Application, Reaction, TimerTask, vars, ExportItems,
     Decide, Report, PopPromise, RequestTimeout, RetryTimer, Tick, Network, Connect, PartArrives,
       RequestAnswered

\* Flushes await what they should, and only a shutdown closes the transport.
THEOREM FlushesCorrect == Spec => []FlushInv
<1>1. Init => FlushInv
  BY DEF Init, FlushInv, Shutdowns, ToSet
<1>2. TypeOK /\ QueueInv /\ FlushInv /\ [Next]_vars => FlushInv'
  BY FlushInvStep
<1> QED
  BY <1>1, <1>2, TypeCorrect, QueueCorrect, PTL DEF Spec

\* When forceFlush resolves, every export begun before it has been reported.
THEOREM FlushesWait == Spec => []FlushWaitsForExports
<1>1. TypeOK /\ FlushInv => FlushWaitsForExports
  <2> SUFFICES ASSUME TypeOK, FlushInv, NEW i \in DOMAIN flushes,
                      FlushResolved(flushes[i]), NEW e \in flushes[i].before
               PROVE  exports[e].phase = "reported"
    BY DEF FlushWaitsForExports
  <2>1. flushes[i] \in ToSet(flushes) /\ flushes[i] \in Flush
    BY DEF TypeOK, ToSet
  <2>2. e \in Exports
    BY <2>1 DEF Flush
  <2> QED BY <2>1, <2>2 DEF FlushInv, FlushResolved
<1> QED
  BY <1>1, TypeCorrect, FlushesCorrect, PTL

\* The transport is not shut down under an export that began before shutdown().
THEOREM TransportClosedLast == Spec => []TransportOutlivesExports
<1>1. TypeOK /\ FlushInv => TransportOutlivesExports
  <2> SUFFICES ASSUME TypeOK, FlushInv, transportClosed,
                      NEW f \in Shutdowns, NEW e \in f.before
               PROVE  exports[e].phase = "reported"
    BY DEF TransportOutlivesExports
  <2>1. FlushResolved(f)
    BY DEF FlushInv
  <2>2. f \in ToSet(flushes) /\ f \in Flush
    <3>1. flushes \in Seq(Flush)
      BY DEF TypeOK
    <3> QED BY <3>1 DEF Shutdowns, ToSet
  <2>3. e \in Exports
    BY <2>2 DEF Flush
  <2> QED BY <2>1, <2>2, <2>3 DEF FlushInv, FlushResolved
<1> QED
  BY <1>1, TypeCorrect, FlushesCorrect, PTL
===============================================================================
