---------------------------- MODULE MCOtlpExport ------------------------------
(* Instances of OtlpExport for TLC. *)
EXTENDS OtlpExport, TLC

CONSTANTS e1, e2, e3   \* model values

TwoExports == {e1, e2}
ThreeExports == {e1, e2, e3}

\* The Retry-After of no positive number of seconds, that of a date that has
\* passed, a wait that fits into the timeout and one that never does.
Delays == {-1, 0, 1, 2}

\* Exports are interchangeable: they begin in one order, which leaves out only
\* behaviours that differ by their names (symmetry is unsound for liveness).  One
\* call of forceFlush or shutdown is enough: they do not affect each other.
Order == <<e1, e2, e3>>

InOrder(e) ==
  \A i, j \in DOMAIN Order :
    i < j /\ Order[j] = e => exports[Order[i]].phase # "new"

OrderedNext ==
  \/ \E e \in Exports : InOrder(e) /\ ExportItems(e)
  \/ flushes = <<>> /\ (ForceFlush \/ Shutdown)
  \/ Reaction
  \/ TimerTask
  \/ Tick
  \/ Network

OrderedFairSpec == Init /\ [][OrderedNext]_vars /\ Fairness
===============================================================================
