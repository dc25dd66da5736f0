-------------------------- MODULE SpanPipelineProofs --------------------------
(***************************************************************************)
(* Proofs about SpanPipeline: that every exporter is given a span as it    *)
(* was when it ended, and that a forceFlush() which resolves has seen every *)
(* export it had to wait for.                                              *)
(***************************************************************************)
EXTENDS SpanPipeline, TLAPS

-------------------------------------------------------------------------------
(* Types.                                                                      *)

Span == [state : {"none", "noop", "recording", "ended"}, sampled : BOOLEAN,
         content : Nat]
Stages == {"none", "waiting"} \cup Exported
Outcomes == {"none", "resolved", "error", "timeout"}
Call == [at : {"none", "exports", "exporter", "ended"}, awaits : SUBSET Spans,
         failed : BOOLEAN, outcome : Outcomes]

TypeInv ==
  /\ span \in [Spans -> Span]
  /\ writes \in Nat
  /\ resource \in {"pending", "settled", "ready"}
  /\ export \in [Processors -> [Spans -> Stages]]
  /\ stopped \in BOOLEAN
  /\ flush \in [Flushes -> [Processors -> Call]]
  /\ result \in [Flushes -> {"none", "pending", "resolved", "rejected"}]
  /\ asEnded \in [Spans -> Nat]
  /\ given \in [Processors -> [Spans -> Nat]]
  /\ due \in [Flushes -> [Processors -> SUBSET Spans]]

\* A call whose outcome is decided by its processor.
LEMMA OutcomeFields ==
  ASSUME NEW call \in Call, NEW ok \in BOOLEAN
  PROVE  /\ Outcome(call, ok) \in Call
         /\ Outcome(call, ok).at = "ended"
         /\ Outcome(call, ok).awaits = call.awaits
         /\ Outcome(call, ok).outcome = "resolved" =>
              call.outcome = "resolved" \/ (call.outcome = "none" /\ ok)
         /\ Outcome(call, ok).outcome # "none"
BY DEF Outcome, Call, Outcomes

\* A call that awaits the exporter's forceFlush().
LEMMA AwaitingExporterFields ==
  ASSUME NEW call \in Call, NEW failed \in BOOLEAN
  PROVE  LET next == [call EXCEPT !.at = "exporter", !.failed = failed]
         IN /\ next \in Call
            /\ next.awaits = call.awaits
            /\ next.outcome = call.outcome
            /\ next.failed = failed
BY DEF Call

\* A span that is started.
LEMMA StartedFields ==
  ASSUME NEW x \in Span, NEW sampled \in BOOLEAN,
         NEW decision
  PROVE  [x EXCEPT
           !.state = IF decision = "NOT_RECORD" THEN "noop" ELSE "recording",
           !.sampled = sampled] \in Span
BY DEF Span

\* A call whose timer fires.
LEMMA TimedOutFields ==
  ASSUME NEW call \in Call
  PROVE  LET next == [call EXCEPT !.outcome = "timeout"]
         IN /\ next \in Call
            /\ next.at = call.at
            /\ next.awaits = call.awaits
            /\ next.failed = call.failed
            /\ next.outcome = "timeout"
BY DEF Call, Outcomes

LEMMA OnEndStages ==
  ASSUME NEW s
  PROVE  OnEnd(s) \in {"none", "waiting", "exporting"}
BY DEF OnEnd

LEMMA TypeInductive == TypeInv /\ [Next]_vars => TypeInv'
<1> SUFFICES ASSUME TypeInv, [Next]_vars PROVE TypeInv'
  OBVIOUS
<1> USE DEF TypeInv
<1>1. ASSUME NEW s \in Spans,
             NEW parent \in [valid : BOOLEAN, sampled : BOOLEAN],
             NEW decision \in {"NOT_RECORD", "RECORD", "RECORD_AND_SAMPLED"},
             StartSpan(s, parent, decision)
      PROVE  TypeInv'
  <2> DEFINE started ==
        [span[s] EXCEPT
          !.state = IF decision = "NOT_RECORD" THEN "noop" ELSE "recording",
          !.sampled = decision = "RECORD_AND_SAMPLED"]
  <2>1. span[s] \in Span
    OBVIOUS
  <2>2. (decision = "RECORD_AND_SAMPLED") \in BOOLEAN
    OBVIOUS
  <2>3. started \in Span
    BY <2>1, <2>2, StartedFields
  <2>4. span' = [span EXCEPT ![s] = started]
    BY <1>1 DEF StartSpan
  <2> HIDE DEF started
  <2>5. span' \in [Spans -> Span]
    BY <2>3, <2>4
  <2> QED
    BY <1>1, <2>5 DEF StartSpan
<1>2. ASSUME NEW s \in Spans, Write(s) PROVE TypeInv'
  <2>1. writes + 1 \in Nat
    OBVIOUS
  <2>2. [span[s] EXCEPT !.content = writes + 1] \in Span
    BY <2>1 DEF Span
  <2> QED
    BY <1>2, <2>1, <2>2 DEF Write
<1>3. ASSUME NEW s \in Spans, End(s) PROVE TypeInv'
  <2>1. span' \in [Spans -> Span] /\ asEnded' \in [Spans -> Nat]
    BY <1>3 DEF End, Span
  <2>2. export' \in [Processors -> [Spans -> Stages]]
    BY <1>3, OnEndStages DEF End, Stages, Exported
  <2>3. given' \in [Processors -> [Spans -> Nat]]
    BY <1>3 DEF End, Span
  <2> QED
    BY <1>3, <2>1, <2>2, <2>3 DEF End
<1>4. ASSUME NEW f \in Flushes, ForceFlush(f) PROVE TypeInv'
  <2>1. \A p \in Processors : AwaitedExports(p) \in SUBSET Spans
    BY DEF AwaitedExports, Pending
  <2>2. \A p \in Processors :
          [NoFlush EXCEPT !.at = "exports", !.awaits = AwaitedExports(p)] \in Call
    BY <2>1 DEF NoFlush, Call, Outcomes
  <2>3. flush' \in [Flushes -> [Processors -> Call]]
    BY <1>4, <2>2 DEF ForceFlush
  <2>4. due' \in [Flushes -> [Processors -> SUBSET Spans]]
    BY <1>4 DEF ForceFlush
  <2> QED
    BY <1>4, <2>3, <2>4 DEF ForceFlush
<1>5. CASE Shutdown
  BY <1>5 DEF Shutdown
<1>6. CASE ResourceSettles
  BY <1>6 DEF ResourceSettles
<1>7. ASSUME NEW p \in Processors, NEW s \in Spans,
             NEW outcome \in {"exported", "failing"},
             ExporterResult(p, s, outcome)
      PROVE  TypeInv'
  BY <1>7 DEF ExporterResult, Stages, Exported
<1>8. ASSUME NEW f \in Flushes, NEW p \in Processors, NEW ok \in BOOLEAN,
             ExporterFlushSettles(f, p, ok)
      PROVE  TypeInv'
  <2>1. flush[f][p] \in Call
    OBVIOUS
  <2>2. (ok /\ ~flush[f][p].failed) \in BOOLEAN
    OBVIOUS
  <2>3. Outcome(flush[f][p], ok /\ ~flush[f][p].failed) \in Call
    BY <2>1, <2>2, OutcomeFields
  <2> QED
    BY <1>8, <2>3 DEF ExporterFlushSettles
<1>9. ASSUME NEW p \in Processors, NEW s \in Spans, Resume(p, s) PROVE TypeInv'
  BY <1>9 DEF Resume, Stages, Exported, Span
<1>10. ASSUME NEW p \in Processors, NEW s \in Spans, Settle(p, s) PROVE TypeInv'
  BY <1>10 DEF Settle, Stages, Exported
<1>11. ASSUME NEW f \in Flushes, NEW p \in Processors, AwaitExports(f, p)
       PROVE  TypeInv'
  <2>1. flush[f][p] \in Call
    OBVIOUS
  <2>2. SomeFailed(f, p) \in BOOLEAN
    BY DEF SomeFailed
  <2>3. Outcome(flush[f][p], ~SomeFailed(f, p)) \in Call
    BY <2>1, <2>2, OutcomeFields
  <2>4. [flush[f][p] EXCEPT !.at = "exporter", !.failed = SomeFailed(f, p)] \in Call
    BY <2>1, <2>2 DEF Call
  <2> QED
    BY <1>11, <2>3, <2>4 DEF AwaitExports
<1>12. ASSUME NEW f \in Flushes, FlushSettles(f) PROVE TypeInv'
  BY <1>12 DEF FlushSettles
<1>13. ASSUME NEW f \in Flushes, NEW p \in Processors, FlushTimeout(f, p)
       PROVE  TypeInv'
  <2>1. [flush[f][p] EXCEPT !.outcome = "timeout"] \in Call
    <3>1. flush[f][p] \in Call
      OBVIOUS
    <3> QED
      BY <3>1, TimedOutFields
  <2> QED
    BY <1>13, <2>1 DEF FlushTimeout
<1>14. CASE UNCHANGED vars
  BY <1>14 DEF vars
<1> QED
  BY <1>1, <1>2, <1>3, <1>4, <1>5, <1>6, <1>7, <1>8, <1>9, <1>10, <1>11, <1>12,
     <1>13, <1>14
  DEF Next, Application, Environment, Reaction, TimerTask

LEMMA TypeInitial == Init => TypeInv
<1> SUFFICES ASSUME Init PROVE TypeInv
  OBVIOUS
<1>1. NoFlush \in Call
  BY DEF NoFlush, Call, Outcomes
<1>2. flush \in [Flushes -> [Processors -> Call]]
  BY <1>1 DEF Init
<1>3. span \in [Spans -> Span] /\ export \in [Processors -> [Spans -> Stages]]
  BY DEF Init, Span, Stages
<1> QED
  BY <1>2, <1>3 DEF Init, TypeInv

\* Every variable of SpanPipeline has its type.
THEOREM PipelineTypes == Spec => []TypeInv
BY TypeInitial, TypeInductive, PTL DEF Spec

-------------------------------------------------------------------------------
(* What is exported is what ended.                                             *)

\* A span that has ended holds what it held then, and only such spans are
\* exported.
EndedInv ==
  /\ \A s \in Spans : span[s].state = "ended" => span[s].content = asEnded[s]
  /\ \A p \in Processors, s \in Spans :
       export[p][s] # "none" => span[s].state = "ended"
  /\ ExportedAsEnded

\* A step that gives no span to an exporter and leaves spans alone.
LEMMA EndedKept ==
  ASSUME TypeInv, EndedInv, UNCHANGED <<span, asEnded, given>>,
         \A p \in Processors, s \in Spans :
           /\ export'[p][s] # "none" => export[p][s] # "none"
           /\ export'[p][s] \in Exported => export[p][s] \in Exported
  PROVE  EndedInv'
BY DEF EndedInv, ExportedAsEnded

LEMMA EndedInductive == TypeInv /\ EndedInv /\ [Next]_vars => EndedInv'
<1> SUFFICES ASSUME TypeInv, EndedInv, [Next]_vars PROVE EndedInv'
  OBVIOUS
<1>1. ASSUME NEW s \in Spans,
             NEW parent \in [valid : BOOLEAN, sampled : BOOLEAN],
             NEW decision \in {"NOT_RECORD", "RECORD", "RECORD_AND_SAMPLED"},
             StartSpan(s, parent, decision)
      PROVE  EndedInv'
  <2>1. \A x \in Spans :
          x # s => span'[x] = span[x]
    BY <1>1 DEF StartSpan, TypeInv
  <2>2. span[s].state = "none" /\ span'[s].state # "ended"
    BY <1>1 DEF StartSpan, TypeInv, Span
  <2> QED
    BY ZenonT(40), <1>1, <2>1, <2>2 DEF StartSpan, EndedInv, ExportedAsEnded
<1>2. ASSUME NEW s \in Spans, Write(s) PROVE EndedInv'
  <2>1. \A x \in Spans :
          x # s => span'[x] = span[x]
    BY <1>2 DEF Write, TypeInv
  <2>2. span[s].state = "recording" /\ span'[s].state = "recording"
    BY <1>2 DEF Write, IsRecording, TypeInv, Span
  <2> QED
    BY <1>2, <2>1, <2>2 DEF Write, EndedInv, ExportedAsEnded
<1>3. ASSUME NEW s \in Spans, End(s) PROVE EndedInv'
  <2>1. \A x \in Spans \ {s} :
          /\ span'[x] = span[x]
          /\ asEnded'[x] = asEnded[x]
          /\ \A p \in Processors :
               export'[p][x] = export[p][x] /\ given'[p][x] = given[p][x]
    BY <1>3 DEF End, TypeInv
  <2>2. /\ span'[s].state = "ended"
        /\ span'[s].content = span[s].content
        /\ asEnded'[s] = span[s].content
    BY <1>3 DEF End, TypeInv, Span
  <2>3. \A p \in Processors :
          export'[p][s] \in Exported => given'[p][s] = span[s].content
    BY <1>3, OnEndStages DEF End, TypeInv, Exported
  <2> QED
    BY <2>1, <2>2, <2>3 DEF EndedInv, ExportedAsEnded
<1>4. ASSUME NEW f \in Flushes, ForceFlush(f) PROVE EndedInv'
  BY <1>4, EndedKept DEF ForceFlush
<1>5. CASE Shutdown
  BY <1>5, EndedKept DEF Shutdown
<1>6. CASE ResourceSettles
  BY <1>6, EndedKept DEF ResourceSettles
<1>7. ASSUME NEW p \in Processors, NEW s \in Spans,
             NEW outcome \in {"exported", "failing"},
             ExporterResult(p, s, outcome)
      PROVE  EndedInv'
  BY <1>7, EndedKept DEF ExporterResult, TypeInv, Exported
<1>8. ASSUME NEW f \in Flushes, NEW p \in Processors, NEW ok \in BOOLEAN,
             ExporterFlushSettles(f, p, ok)
      PROVE  EndedInv'
  BY <1>8, EndedKept DEF ExporterFlushSettles
<1>9. ASSUME NEW p \in Processors, NEW s \in Spans, Resume(p, s) PROVE EndedInv'
  <2>1. \A q \in Processors, x \in Spans : q # p \/ x # s =>
          export'[q][x] = export[q][x] /\ given'[q][x] = given[q][x]
    BY <1>9 DEF Resume, TypeInv
  <2>2. export[p][s] = "waiting" /\ given'[p][s] = span[s].content
    BY <1>9 DEF Resume, ResumeReady, TypeInv
  <2>3. span[s].state = "ended" /\ span[s].content = asEnded[s]
    BY <2>2 DEF EndedInv
  <2> QED
    BY <1>9, <2>1, <2>2, <2>3 DEF Resume, EndedInv, ExportedAsEnded
<1>10. ASSUME NEW p \in Processors, NEW s \in Spans, Settle(p, s) PROVE EndedInv'
  BY <1>10, EndedKept DEF Settle, SettleReady, TypeInv, Exported
<1>11. ASSUME NEW f \in Flushes, NEW p \in Processors, AwaitExports(f, p)
       PROVE  EndedInv'
  BY <1>11, EndedKept DEF AwaitExports
<1>12. ASSUME NEW f \in Flushes, FlushSettles(f) PROVE EndedInv'
  BY <1>12, EndedKept DEF FlushSettles
<1>13. ASSUME NEW f \in Flushes, NEW p \in Processors, FlushTimeout(f, p)
       PROVE  EndedInv'
  BY <1>13, EndedKept DEF FlushTimeout
<1>14. CASE UNCHANGED vars
  BY <1>14, EndedKept DEF vars
<1> QED
  BY <1>1, <1>2, <1>3, <1>4, <1>5, <1>6, <1>7, <1>8, <1>9, <1>10, <1>11, <1>12,
     <1>13, <1>14
  DEF Next, Application, Environment, Reaction, TimerTask

\* Every exporter is given every span as it was when it ended, whatever is
\* written to spans and however late the resource is (SimpleSpanProcessor.ts:93).
THEOREM PipelineExportsAsEnded == Spec => []ExportedAsEnded
<1>1. Init => EndedInv
  BY DEF Init, EndedInv, ExportedAsEnded, Exported
<1>2. EndedInv => ExportedAsEnded
  BY DEF EndedInv
<1> QED
  BY <1>1, <1>2, TypeInitial, TypeInductive, EndedInductive, PTL DEF Spec

-------------------------------------------------------------------------------
(* A flush that resolves is complete.                                          *)

\* What a call knows at each await: before the exports have settled it has all
\* those it must wait for in hand; from then on they have been exported, or it
\* will be rejected.
CallInv(f, p) ==
  LET call == flush[f][p] IN
  /\ call.at # "none" =>
       \A s \in due[f][p] : s \in call.awaits \/ export[p][s] = "over"
  /\ call.at = "exporter" /\ ~call.failed =>
       \A s \in call.awaits : export[p][s] = "over"
  /\ call.outcome = "resolved" =>
       /\ call.at = "ended"
       /\ \A s \in call.awaits : export[p][s] = "over"

FlushInv ==
  /\ \A f \in Flushes, p \in Processors : CallInv(f, p)
  /\ \A f \in Flushes : result[f] = "none" =>
       \A p \in Processors :
         flush[f][p].at = "none" /\ flush[f][p].outcome = "none"
  /\ \A f \in Flushes : result[f] = "resolved" => AllResolved(f)

\* A step that leaves the calls alone, and no export that is over.
LEMMA FlushKept ==
  ASSUME TypeInv, FlushInv, UNCHANGED <<flush, result, due>>,
         \A p \in Processors, s \in Spans :
           export[p][s] = "over" => export'[p][s] = "over"
  PROVE  FlushInv'
<1>1. \A f \in Flushes, p \in Processors : CallInv(f, p)'
  <2> TAKE f \in Flushes, p \in Processors
  <2>1. CallInv(f, p) /\ due[f][p] \subseteq Spans /\ flush[f][p].awaits \subseteq Spans
    BY DEF FlushInv, TypeInv, Call
  <2> QED
    BY <2>1 DEF CallInv
<1> QED
  BY <1>1 DEF FlushInv, AllResolved

\* A step in which one call, of which the result is awaited, goes on.
LEMMA FlushGoesOn ==
  ASSUME TypeInv, FlushInv, NEW f \in Flushes, NEW p \in Processors,
         NEW call \in Call,
         UNCHANGED <<export, result, due>>,
         flush' = [flush EXCEPT ![f][p] = call],
         flush[f][p].at # "none",
         flush[f][p].outcome = "resolved" => call.outcome = "resolved",
         call.awaits = flush[f][p].awaits,
         call.at = "exporter" /\ ~call.failed =>
           \A s \in call.awaits : export[p][s] = "over",
         call.outcome = "resolved" =>
           call.at = "ended" /\ \A s \in call.awaits : export[p][s] = "over"
  PROVE  FlushInv'
<1>1. flush'[f][p] = call
  BY DEF TypeInv
<1>2. \A g \in Flushes, q \in Processors : g # f \/ q # p =>
        flush'[g][q] = flush[g][q]
  BY DEF TypeInv
<1>3. CallInv(f, p)'
  BY <1>1 DEF FlushInv, CallInv
<1>4. \A g \in Flushes, q \in Processors : CallInv(g, q)'
  BY <1>2, <1>3 DEF FlushInv, CallInv
<1>5. \A g \in Flushes : result'[g] = "none" =>
        \A q \in Processors :
          flush'[g][q].at = "none" /\ flush'[g][q].outcome = "none"
  BY <1>2 DEF FlushInv
<1>6. \A g \in Flushes : result'[g] = "resolved" => AllResolved(g)'
  BY <1>1, <1>2 DEF FlushInv, AllResolved
<1> QED
  BY <1>4, <1>5, <1>6 DEF FlushInv

LEMMA FlushInductive ==
  TypeInv /\ EndedInv /\ FlushInv /\ [Next]_vars => FlushInv'
<1> SUFFICES ASSUME TypeInv, EndedInv, FlushInv, [Next]_vars PROVE FlushInv'
  OBVIOUS
<1>1. ASSUME NEW s \in Spans,
             NEW parent \in [valid : BOOLEAN, sampled : BOOLEAN],
             NEW decision \in {"NOT_RECORD", "RECORD", "RECORD_AND_SAMPLED"},
             StartSpan(s, parent, decision)
      PROVE  FlushInv'
  BY <1>1, FlushKept DEF StartSpan
<1>2. ASSUME NEW s \in Spans, Write(s) PROVE FlushInv'
  BY <1>2, FlushKept DEF Write
<1>3. ASSUME NEW s \in Spans, End(s) PROVE FlushInv'
  <2>1. \A p \in Processors : export[p][s] = "none"
    BY <1>3 DEF End, IsRecording, EndedInv
  <2>2. \A p \in Processors, x \in Spans :
          export[p][x] = "over" => export'[p][x] = "over"
    BY <1>3, <2>1 DEF End, TypeInv
  <2> QED
    BY <1>3, <2>2, FlushKept DEF End
<1>4. ASSUME NEW f \in Flushes, ForceFlush(f) PROVE FlushInv'
  <2>1. \A p \in Processors :
          /\ flush'[f][p].at = "exports"
          /\ flush'[f][p].awaits = AwaitedExports(p)
          /\ flush'[f][p].outcome = "none"
          /\ due'[f][p] = {s \in Spans : export[p][s] \notin {"none", "failed"}}
    <3> DEFINE call(p) == [NoFlush EXCEPT !.at = "exports",
                                          !.awaits = AwaitedExports(p)]
    <3>1. \A p \in Processors : flush'[f][p] = call(p)
      BY <1>4 DEF ForceFlush, TypeInv
    <3>2. \A p : /\ call(p).at = "exports"
                 /\ call(p).awaits = AwaitedExports(p)
                 /\ call(p).outcome = "none"
      BY DEF NoFlush
    <3>3. \A p \in Processors :
            due'[f][p] = {s \in Spans : export[p][s] \notin {"none", "failed"}}
      BY <1>4 DEF ForceFlush, TypeInv
    <3> HIDE DEF call
    <3> QED
      BY <3>1, <3>2, <3>3
  <2>2. \A p \in Processors : CallInv(f, p)'
    <3> TAKE p \in Processors
    <3>1. \A s \in due'[f][p] : s \in AwaitedExports(p) \/ export[p][s] = "over"
      BY <2>1 DEF AwaitedExports, Pending, TypeInv, Stages, Exported
    <3> QED
      BY <1>4, <2>1, <3>1 DEF CallInv, ForceFlush
  <2>3. \A g \in Flushes \ {f}, p \in Processors :
          flush'[g][p] = flush[g][p] /\ due'[g][p] = due[g][p]
    BY <1>4 DEF ForceFlush, TypeInv
  <2>4. \A g \in Flushes \ {f}, p \in Processors : CallInv(g, p)'
    <3> TAKE g \in Flushes \ {f}, p \in Processors
    <3>1. CallInv(g, p) /\ export' = export
      BY <1>4 DEF FlushInv, ForceFlush
    <3>2. flush'[g][p] = flush[g][p] /\ due'[g][p] = due[g][p]
      BY <2>3
    <3> QED
      BY <3>1, <3>2 DEF CallInv
  <2>5. result'[f] = "pending" /\ \A g \in Flushes \ {f} : result'[g] = result[g]
    BY <1>4 DEF ForceFlush, TypeInv
  <2>6. \A g \in Flushes : result'[g] = "resolved" => AllResolved(g)'
    BY <2>3, <2>5 DEF FlushInv, AllResolved
  <2> QED
    BY <2>2, <2>3, <2>4, <2>5, <2>6 DEF FlushInv
<1>5. CASE Shutdown
  BY <1>5, FlushKept DEF Shutdown
<1>6. CASE ResourceSettles
  BY <1>6, FlushKept DEF ResourceSettles
<1>7. ASSUME NEW p \in Processors, NEW s \in Spans,
             NEW outcome \in {"exported", "failing"},
             ExporterResult(p, s, outcome)
      PROVE  FlushInv'
  BY <1>7, FlushKept DEF ExporterResult, TypeInv
<1>8. ASSUME NEW f \in Flushes, NEW p \in Processors, NEW ok \in BOOLEAN,
             ExporterFlushSettles(f, p, ok)
      PROVE  FlushInv'
  <2> DEFINE call == Outcome(flush[f][p], ok /\ ~flush[f][p].failed)
  <2>1. flush[f][p] \in Call /\ (ok /\ ~flush[f][p].failed) \in BOOLEAN
    BY DEF TypeInv
  <2>2. /\ call \in Call
        /\ call.at = "ended"
        /\ call.awaits = flush[f][p].awaits
        /\ call.outcome = "resolved" =>
             \/ flush[f][p].outcome = "resolved"
             \/ ok /\ ~flush[f][p].failed
    BY <2>1, OutcomeFields
  <2>3. flush[f][p].outcome = "resolved" => call.outcome = "resolved"
    BY <2>1 DEF Outcome, Call
  <2>4. CallInv(f, p)
    BY DEF FlushInv
  <2>5. call.outcome = "resolved" => \A s \in call.awaits : export[p][s] = "over"
    BY <1>8, <2>2, <2>4 DEF CallInv, ExporterFlushSettles
  <2> HIDE DEF call
  <2>6. /\ flush[f][p].at # "none"
        /\ flush' = [flush EXCEPT ![f][p] = call]
        /\ UNCHANGED <<export, result, due>>
    BY <1>8 DEF ExporterFlushSettles, call
  <2> QED
    BY <2>2, <2>3, <2>5, <2>6, FlushGoesOn
<1>9. ASSUME NEW p \in Processors, NEW s \in Spans, Resume(p, s) PROVE FlushInv'
  BY <1>9, FlushKept DEF Resume, ResumeReady, TypeInv
<1>10. ASSUME NEW p \in Processors, NEW s \in Spans, Settle(p, s) PROVE FlushInv'
  BY <1>10, FlushKept DEF Settle, SettleReady, TypeInv
<1>11. ASSUME NEW f \in Flushes, NEW p \in Processors, AwaitExports(f, p)
       PROVE  FlushInv'
  <2>1. /\ flush[f][p] \in Call
        /\ SomeFailed(f, p) \in BOOLEAN
        /\ (~SomeFailed(f, p)) \in BOOLEAN
    BY DEF TypeInv, SomeFailed
  <2>2. flush[f][p].at = "exports"
    BY <1>11 DEF AwaitExports, AwaitReady
  <2>3. ~SomeFailed(f, p) => \A s \in flush[f][p].awaits : export[p][s] = "over"
    BY <1>11 DEF AwaitExports, AwaitReady, AllOver
  <2>4. CallInv(f, p)
    BY DEF FlushInv
  <2>5. CASE p \in Flushable
    <3> DEFINE call == [flush[f][p] EXCEPT !.at = "exporter", !.failed = SomeFailed(f, p)]
    <3>1. /\ call \in Call
          /\ call.awaits = flush[f][p].awaits
          /\ call.outcome = flush[f][p].outcome
          /\ call.failed = SomeFailed(f, p)
      BY <2>1, AwaitingExporterFields
    <3>2. call.outcome # "resolved"
      BY <2>2, <2>4, <3>1 DEF CallInv
    <3>3. flush' = [flush EXCEPT ![f][p] = call] /\ UNCHANGED <<export, result, due>>
      BY <1>11, <2>5 DEF AwaitExports
    <3> HIDE DEF call
    <3> QED
      BY <2>2, <2>3, <3>1, <3>2, <3>3, FlushGoesOn
  <2>6. CASE p \notin Flushable
    <3> DEFINE call == Outcome(flush[f][p], ~SomeFailed(f, p))
    <3>1. /\ call \in Call
          /\ call.at = "ended"
          /\ call.awaits = flush[f][p].awaits
          /\ call.outcome = "resolved" =>
               flush[f][p].outcome = "resolved" \/ ~SomeFailed(f, p)
      BY <2>1, OutcomeFields
    <3>2. flush[f][p].outcome # "resolved"
      BY <2>2, <2>4 DEF CallInv
    <3>3. flush' = [flush EXCEPT ![f][p] = call] /\ UNCHANGED <<export, result, due>>
      BY <1>11, <2>6 DEF AwaitExports
    <3> HIDE DEF call
    <3> QED
      BY <2>2, <2>3, <3>1, <3>2, <3>3, FlushGoesOn
  <2> QED
    BY <2>5, <2>6
<1>12. ASSUME NEW f \in Flushes, FlushSettles(f) PROVE FlushInv'
  <2>1. /\ result[f] = "pending"
        /\ result'[f] = IF AllResolved(f) THEN "resolved" ELSE "rejected"
        /\ \A g \in Flushes \ {f} : result'[g] = result[g]
        /\ UNCHANGED <<flush, export, due>>
    BY <1>12 DEF FlushSettles, FlushReady, TypeInv
  <2>2. \A g \in Flushes, p \in Processors : CallInv(g, p)'
    BY <2>1 DEF FlushInv, CallInv
  <2> QED
    BY <2>1, <2>2 DEF FlushInv, AllResolved
<1>13. ASSUME NEW f \in Flushes, NEW p \in Processors, FlushTimeout(f, p)
       PROVE  FlushInv'
  <2> DEFINE call == [flush[f][p] EXCEPT !.outcome = "timeout"]
  <2>1. flush[f][p] \in Call
    BY DEF TypeInv
  <2>2. /\ call \in Call
        /\ call.at = flush[f][p].at
        /\ call.awaits = flush[f][p].awaits
        /\ call.failed = flush[f][p].failed
        /\ call.outcome = "timeout"
    BY <2>1, TimedOutFields
  <2>3. flush[f][p].at # "none" /\ flush[f][p].outcome = "none"
    BY <1>13 DEF FlushTimeout, TimerArmed
  <2>4. CallInv(f, p)
    BY DEF FlushInv
  <2>5. flush' = [flush EXCEPT ![f][p] = call] /\ UNCHANGED <<export, result, due>>
    BY <1>13 DEF FlushTimeout
  <2> HIDE DEF call
  <2> QED
    BY <2>2, <2>3, <2>4, <2>5, FlushGoesOn DEF CallInv
<1>14. CASE UNCHANGED vars
  BY <1>14, FlushKept DEF vars
<1> QED
  BY <1>1, <1>2, <1>3, <1>4, <1>5, <1>6, <1>7, <1>8, <1>9, <1>10, <1>11, <1>12,
     <1>13, <1>14
  DEF Next, Application, Environment, Reaction, TimerTask

\* A forceFlush() of the provider that resolves has seen, at every processor, the
\* export of every span that it had to wait for, and no processor was late
\* (TracerProvider.ts:101, SimpleSpanProcessor.ts:50).
THEOREM PipelineFlushIsComplete == Spec => []ResolvedFlushIsComplete
<1>1. Init => FlushInv
  BY DEF Init, FlushInv, CallInv, NoFlush
<1>2. FlushInv /\ TypeInv => ResolvedFlushIsComplete
  <2> SUFFICES ASSUME FlushInv, TypeInv,
                      NEW f \in Flushes, result[f] = "resolved",
                      NEW p \in Processors
               PROVE  /\ flush[f][p].at = "ended"
                      /\ \A s \in due[f][p] : export[p][s] = "over"
    BY DEF ResolvedFlushIsComplete
  <2>1. CallInv(f, p) /\ flush[f][p].outcome = "resolved"
    BY DEF FlushInv, AllResolved
  <2> QED
    BY <2>1 DEF CallInv
<1>3. Init => EndedInv
  BY DEF Init, EndedInv, ExportedAsEnded, Exported
<1> QED
  BY <1>1, <1>2, <1>3, TypeInitial, TypeInductive, EndedInductive, FlushInductive,
     PTL DEF Spec
===============================================================================
