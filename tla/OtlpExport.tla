------------------------------ MODULE OtlpExport ------------------------------
(***************************************************************************)
(* The sending half of the OTLP exporters: OTLPExportDelegate over the     *)
(* bounded promise queue and the retrying transport, with the HTTP         *)
(* transport of Node.js below.                                             *)
(*                                                                         *)
(* An action is one synchronous segment of JavaScript.  Time is discrete:  *)
(* every running export counts the milliseconds since it began and those   *)
(* left until its next timer.  Tick lets one pass when no promise reaction *)
(* and no timer is due, so timers are punctual; the bounds on time that    *)
(* follow hold up to the delay of the event loop.                          *)
(*                                                                         *)
(* No timer limits a request before its socket is connected: the agent and *)
(* the headers are awaited first.  Then req.setTimeout limits idle time,   *)
(* which every part of a response begins anew.                             *)
(***************************************************************************)
EXTENDS Integers, Sequences, FiniteSets, SequencesExt

CONSTANTS
  Exports,           \* the calls of export() in one execution
  ConcurrencyLimit,  \* option concurrencyLimit
  Timeout,           \* option timeoutMillis
  MaxAttempts,       \* MAX_ATTEMPTS
  RetryDelays,       \* what retryInMillis can be: a backoff or a Retry-After
  MaxParts,          \* parts of a response that fit MAX_RESPONSE_BODY_SIZE
  CallbackMayThrow,  \* TRUE if resultCallback may throw
  MaxFlushes,        \* bound: calls of forceFlush in one execution
  MaxElapsed         \* bound: the clock of an export stops there

ASSUME LimitAssumption == ConcurrencyLimit \in Nat \ {0}

\* The clock runs until no retry could begin any more.
ASSUME TimeAssumption ==
  Timeout \in Nat \ {0} /\ MaxElapsed \in Nat /\ MaxElapsed > Timeout + 1

\* A backoff is at least 0, a Retry-After of no positive number of seconds is
\* -1 and a date that has passed 0.
ASSUME RetryAssumption ==
  /\ MaxAttempts \in Nat /\ MaxParts \in Nat
  /\ RetryDelays # {}
  /\ \A delay \in RetryDelays : delay \in Int /\ delay >= -1
ASSUME ChoiceAssumption == CallbackMayThrow \in BOOLEAN /\ MaxFlushes \in Nat

VARIABLES
  exports,          \* the progress of every export
  sendingPromises,  \* _sendingPromises, as the exports they belong to
  flushes,          \* the promises forceFlush and shutdown await, in order
  transportClosed   \* transport.shutdown() was called

vars == <<exports, sendingPromises, flushes, transportClosed>>

-------------------------------------------------------------------------------
\* An export is a call of export() and of the retrying transport's send().
\*   phase    new, or settled at once: refused at the limit, empty when there
\*            was nothing to send; opening a request, sending it, answered,
\*            waiting to retry, finished (send() settled), reported
\*            (resultCallback was called)
\*   elapsed  milliseconds since export() was called
\*   left     attempts left
\*   timer    milliseconds until the request times out or the retry begins
\*   timed    the timer is armed
\*   grant    the timeout of the request, or of the next one while it waits
\*   parts    parts of the response that have arrived
\*   result   how the last request was answered: final stands for success,
\*            failure and a rejected promise
\*   threw    resultCallback threw, which rejects the promise
\*   prompt   history: every millisecond of the export passed under a timer
\*            that nothing began anew
\* A field that is not read any more goes back to its first value.
Export ==
  [phase   : {"new", "refused", "empty", "opening", "sending", "answered",
              "waiting", "finished", "reported"},
   elapsed : Nat,
   left    : 0..MaxAttempts,
   timer   : Int,
   timed   : BOOLEAN,
   grant   : Int,
   parts   : 0..MaxParts,
   result  : {"none", "retryable", "final"},
   threw   : BOOLEAN,
   prompt  : BOOLEAN]

\* awaitAll() awaits the promises that were queued at the call.
Flush == [kind   : {"forceFlush", "shutdown"},
          awaits : SUBSET Exports,
          before : SUBSET Exports]   \* history: exports begun before the call

New == [phase |-> "new", elapsed |-> 0, left |-> MaxAttempts, timer |-> 0,
        timed |-> FALSE, grant |-> 0, parts |-> 0, result |-> "none",
        threw |-> FALSE, prompt |-> TRUE]

\* The export runs in the retrying transport.
Running(x) == x.phase \in {"opening", "sending", "answered", "waiting"}

\* export() accepted it.
Accepted(x) == Running(x) \/ x.phase \in {"finished", "reported"}

-------------------------------------------------------------------------------
\* The HTTP transport (HttpExporterTransport.send, sendWithHttp)

\* send(data, timeout): the agent, the headers and the socket are awaited.
Send(x, timeout) ==
  [x EXCEPT !.phase = "opening", !.timer = 0, !.timed = FALSE, !.grant = timeout]

\* req.setTimeout arms its timer when the socket is connected; 0 arms none.
Connected(x) ==
  [x EXCEPT !.phase = "sending", !.timer = x.grant, !.timed = (x.grant # 0)]

\* A part of the response begins the idle time anew.
Continued(x) ==
  [x EXCEPT !.timer = x.grant, !.parts = @ + 1, !.prompt = FALSE]

\* The first event of the request or its response settles the promise; a
\* negative timeout makes req.setTimeout throw.
Answers(x) == IF x.grant < 0 THEN {"final"} ELSE {"retryable", "final"}

Answered(x, result) ==
  [x EXCEPT !.phase = "answered", !.timer = 0, !.timed = FALSE, !.grant = 0,
            !.parts = 0, !.result = result]

\* The socket has been idle for as long as the timeout of the request.
RequestTimesOut(x) == x.phase = "sending" /\ x.timed /\ x.timer = 0

-------------------------------------------------------------------------------
\* The retrying transport (send and retry)

Remaining(x) == Timeout - x.elapsed

\* Mutant: attempts are not limited.
MayRetryAlways(x) == x.result = "retryable"

MayRetry(x) == x.result = "retryable" /\ x.left > 0

\* Mutant: the wait is compared with the whole timeout.
InTimeAtFirst(x, delay) == delay <= Timeout

\* The check against the deadline of the export.
InTime(x, delay) == delay <= Remaining(x)

\* setTimeout waits one millisecond at least.
Pause(delay) == IF delay < 1 THEN 1 ELSE delay

\* Mutant: the retry is given the whole timeout again.
WaitsWithFullTimeout(x, delay) ==
  [x EXCEPT !.phase = "waiting", !.left = @ - 1, !.timer = Pause(delay),
            !.timed = TRUE, !.grant = Timeout, !.result = "none"]

\* retry(): the next request gets the time that remained before the wait.
Waits(x, delay) ==
  [x EXCEPT !.phase = "waiting", !.left = @ - 1, !.timer = Pause(delay),
            !.timed = TRUE, !.grant = Remaining(x), !.result = "none"]

Finished == [New EXCEPT !.phase = "finished"]

Reported(threw) == [New EXCEPT !.phase = "reported", !.threw = threw]

\* The timer of the retry is due.
RetryDue(x) == x.phase = "waiting" /\ x.timer = 0

-------------------------------------------------------------------------------
\* The promise queue

\* Mutant: one promise too many.
HasReachedLimitLate == Cardinality(sendingPromises) > ConcurrencyLimit

HasReachedLimit == Cardinality(sendingPromises) >= ConcurrencyLimit

\* Mutants: popPromise does not run for a rejected promise; it runs as soon as
\* the transport has settled.
PopReadyIfResolved(e) ==
  e \in sendingPromises /\ exports[e].phase = "reported" /\ ~exports[e].threw
PopReadyEarly(e) ==
  e \in sendingPromises /\ exports[e].phase \in {"finished", "reported"}

\* The promise of the export has settled, popPromise is its reaction.
PopReady(e) == e \in sendingPromises /\ exports[e].phase = "reported"

FlushResolved(f) ==
  \A e \in f.awaits : exports[e].phase = "reported" /\ ~exports[e].threw

Shutdowns == {f \in ToSet(flushes) : f.kind = "shutdown"}

CloseReady == ~transportClosed /\ \E f \in Shutdowns : FlushResolved(f)

\* No promise reaction is left to run.
MicrotasksDone ==
  /\ \A e \in Exports : exports[e].phase \notin {"answered", "finished"}
  /\ \A e \in Exports : ~PopReady(e)
  /\ ~CloseReady

-------------------------------------------------------------------------------
Init ==
  /\ exports = [e \in Exports |-> New]
  /\ sendingPromises = {}
  /\ flushes = <<>>
  /\ transportClosed = FALSE

Set(e, x) == exports' = [exports EXCEPT ![e] = x]

-------------------------------------------------------------------------------
\* Public methods

\* export() at the concurrency limit.
Refuse(e) ==
  /\ HasReachedLimit
  /\ Set(e, [exports[e] EXCEPT !.phase = "refused"])
  /\ UNCHANGED sendingPromises

\* export() when the serializer returns nothing.
SendNothing(e) ==
  /\ ~HasReachedLimit
  /\ Set(e, [exports[e] EXCEPT !.phase = "empty"])
  /\ UNCHANGED sendingPromises

\* export() hands the request to the transport.
SendRequest(e) ==
  /\ ~HasReachedLimit
  /\ Set(e, Send(exports[e], Timeout))
  /\ sendingPromises' = sendingPromises \cup {e}

ExportItems(e) ==
  /\ exports[e].phase = "new"
  /\ Refuse(e) \/ SendNothing(e) \/ SendRequest(e)
  /\ UNCHANGED <<flushes, transportClosed>>

Begun == {e \in Exports : Accepted(exports[e])}

AwaitAll(kind) ==
  flushes' = Append(flushes, [kind |-> kind, awaits |-> sendingPromises,
                              before |-> Begun])

FlushCalls == {i \in DOMAIN flushes : flushes[i].kind = "forceFlush"}

ForceFlush ==
  /\ Cardinality(FlushCalls) < MaxFlushes
  /\ AwaitAll("forceFlush")
  /\ UNCHANGED <<exports, sendingPromises, transportClosed>>

\* shutdown() awaits the queue; its callers call it once.  Exports are still
\* accepted afterwards.
Shutdown ==
  /\ Shutdowns = {}
  /\ AwaitAll("shutdown")
  /\ UNCHANGED <<exports, sendingPromises, transportClosed>>

-------------------------------------------------------------------------------
\* Promise reactions

\* The loop of the retrying transport's send() has an answer: it retries if
\* the wait ends before the deadline, or returns.
Decide(e) ==
  /\ exports[e].phase = "answered"
  /\ \/ /\ MayRetry(exports[e])
        /\ \E delay \in RetryDelays :
             \/ InTime(exports[e], delay) /\ Set(e, Waits(exports[e], delay))
             \/ ~InTime(exports[e], delay) /\ Set(e, Finished)
     \/ /\ ~MayRetry(exports[e])
        /\ Set(e, Finished)
  /\ UNCHANGED <<sendingPromises, flushes, transportClosed>>

\* The reactions of export() to the transport call resultCallback.
Report(e) ==
  /\ exports[e].phase = "finished"
  /\ \E threw \in {FALSE, CallbackMayThrow} :
       Set(e, Reported(threw))
  /\ UNCHANGED <<sendingPromises, flushes, transportClosed>>

PopPromise(e) ==
  /\ PopReady(e)
  /\ sendingPromises' = sendingPromises \ {e}
  /\ UNCHANGED <<exports, flushes, transportClosed>>

\* Mutant: shutdown() does not await the queue.
CloseTransportAtOnce ==
  /\ Shutdowns # {} /\ ~transportClosed
  /\ transportClosed' = TRUE
  /\ UNCHANGED <<exports, sendingPromises, flushes>>

\* shutdown() after the queue; a rejection ends it without this.
CloseTransport ==
  /\ CloseReady
  /\ transportClosed' = TRUE
  /\ UNCHANGED <<exports, sendingPromises, flushes>>

-------------------------------------------------------------------------------
\* Timers, the network and time

\* The request is made and its socket connected.
Connect(e) ==
  /\ exports[e].phase = "opening" /\ exports[e].grant >= 0
  /\ Set(e, Connected(exports[e]))
  /\ UNCHANGED <<sendingPromises, flushes, transportClosed>>

\* Part of a response; one more than fits fails the request (RequestAnswered),
\* and without a timer a part changes nothing.
PartArrives(e) ==
  /\ exports[e].phase = "sending" /\ exports[e].timed
  /\ exports[e].parts < MaxParts
  /\ Set(e, Continued(exports[e]))
  /\ UNCHANGED <<sendingPromises, flushes, transportClosed>>

\* The collector or the network answers, or the request fails, also while it
\* is opened.
RequestAnswered(e) ==
  /\ exports[e].phase \in {"opening", "sending"}
  /\ \E result \in Answers(exports[e]) : Set(e, Answered(exports[e], result))
  /\ UNCHANGED <<sendingPromises, flushes, transportClosed>>

\* req.setTimeout's callback.
RequestTimeout(e) ==
  /\ MicrotasksDone
  /\ RequestTimesOut(exports[e])
  /\ Set(e, Answered(exports[e], "retryable"))
  /\ UNCHANGED <<sendingPromises, flushes, transportClosed>>

\* setTimeout(() => this._transport.send(data, timeoutMillis), inMillis)
RetryTimer(e) ==
  /\ MicrotasksDone
  /\ RetryDue(exports[e])
  /\ Set(e, Send(exports[e], exports[e].grant))
  /\ UNCHANGED <<sendingPromises, flushes, transportClosed>>

\* One millisecond passes for every running export.
Later(x) ==
  IF Running(x)
  THEN [x EXCEPT !.elapsed = IF @ < MaxElapsed THEN @ + 1 ELSE @,
                 !.timer = IF x.timed THEN @ - 1 ELSE @,
                 !.prompt = @ /\ x.timed]
  ELSE x

Tick ==
  /\ MicrotasksDone
  /\ \E e \in Exports : Running(exports[e])
  /\ \A e \in Exports : ~RequestTimesOut(exports[e]) /\ ~RetryDue(exports[e])
  /\ exports' = [e \in Exports |-> Later(exports[e])]
  /\ UNCHANGED <<sendingPromises, flushes, transportClosed>>

-------------------------------------------------------------------------------
Application ==
  \/ \E e \in Exports : ExportItems(e)
  \/ ForceFlush
  \/ Shutdown

Reaction ==
  \/ \E e \in Exports : Decide(e) \/ Report(e) \/ PopPromise(e)
  \/ CloseTransport

TimerTask == \E e \in Exports : RequestTimeout(e) \/ RetryTimer(e)

Network == \E e \in Exports : Connect(e) \/ PartArrives(e) \/ RequestAnswered(e)

Next ==
  \/ Application
  \/ Reaction
  \/ TimerTask
  \/ Tick
  \/ Network

Spec == Init /\ [][Next]_vars

\* A request that no timer limits goes on: it is being opened, or its timeout
\* is 0.
GoesOn(e) == ~exports[e].timed /\ (Connect(e) \/ RequestAnswered(e))

Fairness ==
  /\ WF_vars(Reaction) /\ WF_vars(TimerTask) /\ WF_vars(Tick)
  /\ \A e \in Exports : WF_vars(GoesOn(e))

\* The event loop runs every reaction and every due timer, and time passes.
\* Of the network it is assumed only that a request does not hang where the
\* code sets no timeout; a connected collector may be silent for ever.
FairSpec == Spec /\ Fairness

-------------------------------------------------------------------------------
\* Properties

\* Every variable holds a value the code can give it.
TypeOK ==
  /\ exports \in [Exports -> Export]
  /\ sendingPromises \subseteq Exports
  /\ flushes \in Seq(Flush)
  /\ transportClosed \in BOOLEAN

\* At most concurrencyLimit exports are between export() and resultCallback,
\* although the limit is only compared with the promises that are queued.
InFlightWithinLimit ==
  /\ Cardinality(sendingPromises) <= ConcurrencyLimit
  /\ \A e \in Exports :
       Accepted(exports[e]) /\ exports[e].phase # "reported"
         => e \in sendingPromises

\* An export that spent all of its time under timers that nothing began anew
\* outlives its timeout by one retry delay at most (2 ms for the shortest ones):
\* a retry gets the time that was left before the wait.
OvershootsByOneDelay ==
  \A e \in Exports :
    exports[e].prompt =>
      \/ exports[e].elapsed <= Timeout + 2
      \/ \E delay \in RetryDelays :
           delay <= Timeout /\ exports[e].elapsed <= Timeout + delay

\* However slow the network is, no retry begins after the deadline of its
\* export, but for 2 ms when the server asks for none or a negative delay.
RetriesBeginInTime ==
  [][\A e \in Exports :
       exports[e].phase = "waiting" /\ exports'[e].phase = "opening"
         => exports[e].elapsed <= Timeout + 2]_vars

\* What the documentation says of timeoutMillis: "Maximum time, in milliseconds,
\* to wait for each batch export."
ExportsEndInTime ==
  \A e \in Exports : Running(exports[e]) => exports[e].elapsed <= Timeout

\* When forceFlush resolves, every export that began before it was reported.
FlushWaitsForExports ==
  \A i \in DOMAIN flushes :
    FlushResolved(flushes[i])
      => \A e \in flushes[i].before : exports[e].phase = "reported"

\* transport.shutdown() does not cut off an export that began before
\* shutdown(), not even one that waits to retry.
TransportOutlivesExports ==
  transportClosed =>
    \A f \in Shutdowns : \A e \in f.before : exports[e].phase = "reported"

\* Every export that was accepted is reported and leaves its place in the
\* queue, although the collector may be silent or send its response in pieces,
\* and even if resultCallback throws: again and again the queue is empty (an
\* execution has finitely many exports, so it is not kept full by new ones).
PlacesAreFreed == []<>(sendingPromises = {})
===============================================================================
