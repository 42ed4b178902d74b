------------------------------ MODULE MCDiscovery ------------------------------
\* Two Storage Elements.
EXTENDS Discovery

CONSTANTS s1, s2
=============================================================================
