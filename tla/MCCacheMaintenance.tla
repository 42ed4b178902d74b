-------------------------- MODULE MCCacheMaintenance --------------------------
\* Instances of CacheMaintenance for TLC.
EXTENDS CacheMaintenance, TLC

Symmetry == Permutations(Ops) \cup Permutations(Files)
=============================================================================
