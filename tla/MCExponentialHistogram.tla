----------------------- MODULE MCExponentialHistogram -----------------------
(* An instance of ExponentialHistogram for TLC.                                *)
EXTENDS ExponentialHistogram, TLC

Symmetry == Permutations(Accumulations)

\* Values that are close, far apart and on either side of 1.
SomePositives == {-3, 0, 1, 14}
SomeNegatives == {2}

\* A histogram that a difference has left without values takes no step but
\* Create, and no other reads it: an execution ends there.
FollowedSpec ==
  Init /\ [][(\A a \in Accumulations : Followed(a)) /\ Next]_vars
==============================================================================
