---------------------------- MODULE MCDetectors ----------------------------
\* Detectors and event pipeline for TLC.
EXTENDS Detectors, TLC

\* One text with two matches, one with none.
TextHits == [t \in Texts |-> IF t = "two" THEN 2 ELSE 0]

\* Events are interchangeable.
Symmetry == Permutations(Events)
=============================================================================
