--------------------------- MODULE MCFileLifecycle ---------------------------
\* Instances of FileLifecycle for TLC, without symmetry, since both check temporal
\* properties: FL_lifecycle has one file and two rival finalizations, FL_expired two
\* files in batches of one and a collector that no Storage Element serves.
EXTENDS FileLifecycle
=============================================================================
