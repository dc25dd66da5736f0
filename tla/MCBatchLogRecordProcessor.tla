----------------------- MODULE MCBatchLogRecordProcessor -----------------------
(* Instances of BatchLogRecordProcessor for TLC. *)
EXTENDS BatchLogRecordProcessor, TLC

CONSTANTS r1, r2, r3, r4, r5   \* model values

TwoRecords == {r1, r2}
FiveRecords == {r1, r2, r3, r4, r5}

\* Log records are interchangeable.
RecordSymmetry == Permutations(Records)

\* Where symmetry is unsound (liveness) the records are emitted in one order,
\* which leaves out only behaviours that differ by their names.
Order == <<r1, r2, r3, r4, r5>>

InOrder(r) ==
  \A i, j \in DOMAIN Order : i < j /\ Order[j] = r => Order[i] \in emitted

OrderedNext ==
  \/ \E r \in Records : InOrder(r) /\ OnEmit(r)
  \/ ForceFlush
  \/ ForceFlushJoins
  \/ Shutdown
  \/ Reaction
  \/ TimerTask
  \/ Environment

OrderedFairSpec ==
  /\ Init /\ [][OrderedNext]_vars
  /\ WF_vars(Reaction) /\ WF_vars(TimerTask)
  /\ WF_vars(ExporterFlush) /\ WF_vars(ResourceSettles)
===============================================================================
