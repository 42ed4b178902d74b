--------------------------- MODULE MCStorageElement ---------------------------
\* Instances of StorageElement for TLC.  The requests double as the seconds of
\* a storage name, so that they are permuted together.
EXTENDS StorageElement, TLC

MCSeconds == Requests
\* every upload generates its name in a second of its own
MCDistinct == [r \in Requests |-> r]

MCPatches == {{"description"}}

Symmetry == Permutations(Requests)
=============================================================================
