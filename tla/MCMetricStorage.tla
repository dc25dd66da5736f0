-------------------------- MODULE MCMetricStorage --------------------------
(* Instances of MetricStorage for TLC.                                      *)
EXTENDS MetricStorage, TLC

\* Readers and attribute sets may be exchanged: no property is temporal in
\* more than one step.
Symmetry == Permutations(Readers) \cup Permutations(Attributes)
UpDown == {-1, 1}
=============================================================================
