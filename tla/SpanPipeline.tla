----------------------------- MODULE SpanPipeline -----------------------------
(***************************************************************************)
(* The way of a span through packages/sdk-trace: Tracer.startSpan asks the *)
(* sampler, SpanImpl takes attributes and events until end(), the          *)
(* MultiSpanProcessor hands the span to every SimpleSpanProcessor, and     *)
(* each of these exports it, as soon as the resource is complete.          *)
(* TracerProvider.forceFlush and shutdown call all processors.             *)
(*                                                                         *)
(* A processor keeps the Span object itself, not a copy, while it waits    *)
(* for the resource.  An action is one synchronous segment of JavaScript;  *)
(* promise reactions run before any timer callback, application code may   *)
(* run between two of them.                                                *)
(***************************************************************************)
EXTENDS Naturals, Sequences, FiniteSets

CONSTANTS
  Spans,        \* the spans the program starts
  Processors,   \* simple span processors, each with its exporter
  Flushable,    \* processors whose exporter has a forceFlush()
  Flushes,      \* calls of TracerProvider.forceFlush()
  MaxWrites     \* bound on the writes to spans

ASSUME PipelineAssumption == Flushable \subseteq Processors

VARIABLES
  span,      \* every span: its state, its sampled flag and its content
  writes,    \* how many writes were made; the last write gives a span its content
  resource,  \* asyncAttributesPending: "pending", "settled" when the promises
             \* have, "ready" when waitForAsyncAttributes() has seen it
  export,    \* for a processor and a span, the _doExport() of it
  stopped,   \* _shutdownOnce.isCalled of all processors
  flush,     \* for a call and a processor, the processor's forceFlush()
  result,    \* what became of a call of TracerProvider.forceFlush()
  asEnded,   \* the content a span had when it ended: a history variable
  given,     \* the content an exporter was given: a history variable
  due        \* the exports a call has to wait for: a history variable

vars == <<span, writes, resource, export, stopped, flush, result, asEnded,
          given, due>>

-------------------------------------------------------------------------------
(* Tracer and SpanImpl.                                                        *)

\* ParentBasedSampler with its defaults: the parent's decision, or the root
\* sampler's, which may be any.
Decisions(parent) ==
  IF ~parent.valid THEN {"NOT_RECORD", "RECORD", "RECORD_AND_SAMPLED"}
  ELSE IF parent.sampled THEN {"RECORD_AND_SAMPLED"} ELSE {"NOT_RECORD"}

\* A span that is not recorded is a NonRecordingSpan, which ignores every call;
\* so is one that is started while tracing is suppressed.
StartSpan(s, parent, decision) ==
  /\ span[s].state = "none"
  /\ decision \in Decisions(parent)
  /\ span' = [span EXCEPT
       ![s].state = IF decision = "NOT_RECORD" THEN "noop" ELSE "recording",
       ![s].sampled = decision = "RECORD_AND_SAMPLED"]
  /\ UNCHANGED <<writes, resource, export, stopped, flush, result, asEnded,
                 given, due>>

\* Mutant: writes to a span that has ended are not ignored.
IsRecordingOrEnded(s) == span[s].state \in {"recording", "ended"}

\* Not _isSpanEnded().
IsRecording(s) == span[s].state = "recording"

\* setAttribute(), addEvent(), addLink(), setStatus() and updateName(): what
\* the span holds is not what it was.
Write(s) ==
  /\ IsRecording(s)
  /\ writes < MaxWrites
  /\ writes' = writes + 1
  /\ span' = [span EXCEPT ![s].content = writes + 1]
  /\ UNCHANGED <<resource, export, stopped, flush, result, asEnded, given, due>>

-------------------------------------------------------------------------------
(* SimpleSpanProcessor.                                                        *)

\* Exports whose promise is in _pendingExports.
Pending(p) == {s \in Spans : export[p][s] \in {"waiting", "exporting", "exported",
                                               "failing"}}
Exported == {"exporting", "exported", "failing", "over", "failed"}

\* What onEnd() makes of a span in every processor: it is ignored after
\* shutdown() or if it is not sampled; else it is exported, at once if the
\* resource is complete.
OnEnd(s) ==
  IF stopped \/ ~span[s].sampled THEN "none"
  ELSE IF resource = "ready" THEN "exporting" ELSE "waiting"

\* span.end()
End(s) ==
  /\ IsRecording(s)
  /\ span' = [span EXCEPT ![s].state = "ended"]
  /\ asEnded' = [asEnded EXCEPT ![s] = span[s].content]
  /\ export' = [p \in Processors |-> [export[p] EXCEPT ![s] = OnEnd(s)]]
  /\ given' = IF OnEnd(s) = "exporting"
              THEN [p \in Processors |-> [given[p] EXCEPT ![s] = span[s].content]]
              ELSE given
  /\ UNCHANGED <<writes, resource, stopped, flush, result, due>>

\* The promises of the asynchronous attributes settle.
ResourceSettles ==
  /\ resource = "pending"
  /\ resource' = "settled"
  /\ UNCHANGED <<span, writes, export, stopped, flush, result, asEnded, given,
                 due>>

\* waitForAsyncAttributes() settles for an export, and the exporter is called
\* with the span as it is now.
ResumeReady(p, s) == export[p][s] = "waiting" /\ resource # "pending"

Resume(p, s) ==
  /\ ResumeReady(p, s)
  /\ resource' = "ready"
  /\ export' = [export EXCEPT ![p][s] = "exporting"]
  /\ given' = [given EXCEPT ![p][s] = span[s].content]
  /\ UNCHANGED <<span, writes, stopped, flush, result, asEnded, due>>

\* The exporter calls back, or throws.
ExporterResult(p, s, outcome) ==
  /\ export[p][s] = "exporting"
  /\ export' = [export EXCEPT ![p][s] = outcome]
  /\ UNCHANGED <<span, writes, resource, stopped, flush, result, asEnded, given,
                 due>>

\* The promise of the export settles and leaves _pendingExports.
SettleReady(p, s) == export[p][s] \in {"exported", "failing"}

Settle(p, s) ==
  /\ SettleReady(p, s)
  /\ export' = [export EXCEPT ![p][s] =
       IF @ = "exported" THEN "over" ELSE "failed"]
  /\ UNCHANGED <<span, writes, resource, stopped, flush, result, asEnded, given,
                 due>>

-------------------------------------------------------------------------------
(* TracerProvider.forceFlush() calls forceFlush() of every processor, with a   *)
(* timer each.  A processor's call awaits the pending exports, then the        *)
(* exporter's forceFlush(); its outcome is what the provider has seen of it.   *)

NoFlush == [at |-> "none", awaits |-> {}, failed |-> FALSE, outcome |-> "none"]

\* Mutant: the spans that wait for the resource are not awaited.
AwaitedExporting(p) == {s \in Pending(p) : export[p][s] # "waiting"}

\* Array.from(this._pendingExports)
AwaitedExports(p) == Pending(p)

ForceFlush(f) ==
  /\ result[f] = "none"
  /\ result' = [result EXCEPT ![f] = "pending"]
  /\ flush' = [flush EXCEPT ![f] = [p \in Processors |->
       [NoFlush EXCEPT !.at = "exports", !.awaits = AwaitedExports(p)]]]
  /\ due' = [due EXCEPT ![f] = [p \in Processors |->
       {s \in Spans : export[p][s] \notin {"none", "failed"}}]]
  /\ UNCHANGED <<span, writes, resource, export, stopped, asEnded, given>>

\* Promise.all() settles with the first rejection, or when all have resolved.
SomeFailed(f, p) == \E s \in flush[f][p].awaits : export[p][s] = "failed"
AllOver(f, p) == \A s \in flush[f][p].awaits : export[p][s] = "over"
AwaitReady(f, p) ==
  flush[f][p].at = "exports" /\ (SomeFailed(f, p) \/ AllOver(f, p))

\* A processor's call settles: the provider takes note unless the timer was first.
Outcome(call, ok) ==
  [call EXCEPT !.at = "ended",
               !.outcome = IF @ # "none" THEN @
                           ELSE IF ok THEN "resolved" ELSE "error"]

AwaitExports(f, p) ==
  /\ AwaitReady(f, p)
  /\ flush' = [flush EXCEPT ![f][p] =
       IF p \in Flushable
       THEN [@ EXCEPT !.at = "exporter", !.failed = SomeFailed(f, p)]
       ELSE Outcome(@, ~SomeFailed(f, p))]
  /\ UNCHANGED <<span, writes, resource, export, stopped, result, asEnded, given,
                 due>>

\* exporter.forceFlush() settles; an error of the exports is thrown after it.
ExporterFlushSettles(f, p, ok) ==
  /\ flush[f][p].at = "exporter"
  /\ flush' = [flush EXCEPT ![f][p] = Outcome(@, ok /\ ~@.failed)]
  /\ UNCHANGED <<span, writes, resource, export, stopped, result, asEnded, given,
                 due>>

FlushReady(f) ==
  result[f] = "pending" /\ \A p \in Processors : flush[f][p].outcome # "none"

\* Mutant: only an error counts as one.
AllResolvedOrTimedOut(f) ==
  \A p \in Processors : flush[f][p].outcome \in {"resolved", "timeout"}

AllResolved(f) == \A p \in Processors : flush[f][p].outcome = "resolved"

FlushSettles(f) ==
  /\ FlushReady(f)
  /\ result' = [result EXCEPT ![f] =
       IF AllResolved(f) THEN "resolved" ELSE "rejected"]
  /\ UNCHANGED <<span, writes, resource, export, stopped, flush, asEnded, given,
                 due>>

\* No promise reaction is left to run before the next timer.
MicrotasksDone ==
  /\ \A p \in Processors, s \in Spans : ~ResumeReady(p, s) /\ ~SettleReady(p, s)
  /\ \A f \in Flushes :
       ~FlushReady(f) /\ \A p \in Processors : ~AwaitReady(f, p)

\* Mutant: the timer of a processor is armed when its exports are done.
TimerArmedLate(f, p) ==
  flush[f][p].at = "exporter" /\ flush[f][p].outcome = "none"

\* clearTimeout() has not been called, and the timer has not fired.
TimerArmed(f, p) == flush[f][p].at # "none" /\ flush[f][p].outcome = "none"

FlushTimeout(f, p) ==
  /\ MicrotasksDone
  /\ TimerArmed(f, p)
  /\ flush' = [flush EXCEPT ![f][p].outcome = "timeout"]
  /\ UNCHANGED <<span, writes, resource, export, stopped, result, asEnded, given,
                 due>>

\* TracerProvider.shutdown(): exporter.shutdown() of every processor is called
\* at once, whatever is pending, and a second call returns the promises of the
\* first.  What becomes of them concerns the caller alone.
Shutdown ==
  /\ ~stopped
  /\ stopped' = TRUE
  /\ UNCHANGED <<span, writes, resource, export, flush, result, asEnded, given,
                 due>>

-------------------------------------------------------------------------------
Init ==
  /\ span = [s \in Spans |->
       [state |-> "none", sampled |-> FALSE, content |-> 0]]
  /\ writes = 0
  /\ resource \in {"pending", "ready"}
  /\ export = [p \in Processors |-> [s \in Spans |-> "none"]]
  /\ stopped = FALSE
  /\ flush = [f \in Flushes |-> [p \in Processors |-> NoFlush]]
  /\ result = [f \in Flushes |-> "none"]
  /\ asEnded = [s \in Spans |-> 0]
  /\ given = [p \in Processors |-> [s \in Spans |-> 0]]
  /\ due = [f \in Flushes |-> [p \in Processors |-> {}]]

Application ==
  \/ \E s \in Spans :
       \/ \E parent \in [valid : BOOLEAN, sampled : BOOLEAN],
             decision \in {"NOT_RECORD", "RECORD", "RECORD_AND_SAMPLED"} :
            StartSpan(s, parent, decision)
       \/ Write(s)
       \/ End(s)
  \/ \E f \in Flushes : ForceFlush(f)
  \/ Shutdown

Environment ==
  \/ ResourceSettles
  \/ \E p \in Processors, s \in Spans, outcome \in {"exported", "failing"} :
       ExporterResult(p, s, outcome)
  \/ \E f \in Flushes, p \in Processors, ok \in BOOLEAN :
       ExporterFlushSettles(f, p, ok)

Reaction ==
  \/ \E p \in Processors, s \in Spans : Resume(p, s) \/ Settle(p, s)
  \/ \E f \in Flushes :
       \/ \E p \in Processors : AwaitExports(f, p)
       \/ FlushSettles(f)

TimerTask == \E f \in Flushes, p \in Processors : FlushTimeout(f, p)

Next == Application \/ Environment \/ Reaction \/ TimerTask

Spec == Init /\ [][Next]_vars

\* The event loop runs promise reactions and timers; nothing makes the
\* application, the exporters or the resource go on.
FairSpec == Spec /\ WF_vars(Reaction) /\ WF_vars(TimerTask)

-------------------------------------------------------------------------------
(* Properties.                                                                 *)

\* Every exporter is given a span as it was when it ended, though the processors
\* share the object and may wait for the resource while the program still holds
\* it (Span.ts:153, SimpleSpanProcessor.ts:93).
ExportedAsEnded ==
  \A p \in Processors, s \in Spans :
    export[p][s] \in Exported => given[p][s] = asEnded[s]

\* If forceFlush() resolves, every sampled span that ended before it and before
\* shutdown() has been exported by every processor, unless its failure had been
\* reported before, and no processor was late (TracerProvider.ts:101,
\* SimpleSpanProcessor.ts:50).
ResolvedFlushIsComplete ==
  \A f \in Flushes : result[f] = "resolved" =>
    \A p \in Processors :
      /\ flush[f][p].at = "ended"
      /\ \A s \in due[f][p] : export[p][s] = "over"

\* forceFlush() settles whatever the exporters and the resource do: the timers
\* alone see to it (TracerProvider.ts:107).
FlushesSettle ==
  \A f \in Flushes : result[f] = "pending" ~> result[f] \in {"resolved", "rejected"}
===============================================================================
