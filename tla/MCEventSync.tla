----------------------------- MODULE MCEventSync -----------------------------
\* Instances of EventSync for TLC.
EXTENDS EventSync, TLC

Symmetry == Permutations(Changes) \cup Permutations(Consumers)
=============================================================================
