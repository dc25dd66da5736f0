------------------------- MODULE MCBatchSpanProcessor -------------------------
(* Instances of BatchSpanProcessor for TLC. *)
EXTENDS BatchSpanProcessor, TLC

CONSTANTS s1, s2, s3, s4   \* model values

ThreeSpans == {s1, s2, s3}
FourSpans == {s1, s2, s3, s4}

\* Spans of the same sampling decision are interchangeable.
SampledSymmetry == Permutations(Sampled)

\* Where symmetry is unsound (liveness) the sampled spans end in one order,
\* which leaves out only behaviours that differ by their names.
Order == <<s1, s2, s3, s4>>

InOrder(s) ==
  \A i, j \in DOMAIN Order :
    i < j /\ Order[i] \in Sampled /\ Order[j] = s => Order[i] \in ended

OrderedNext ==
  \/ \E s \in Spans : InOrder(s) /\ OnEnd(s)
  \/ ForceFlush
  \/ ForceFlushJoins
  \/ Shutdown
  \/ Reaction
  \/ TimerTask
  \/ Environment

OrderedFairSpec ==
  Init /\ [][OrderedNext]_vars /\ WF_vars(Reaction) /\ WF_vars(TimerTask)
===============================================================================
