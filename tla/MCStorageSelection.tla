-------------------------- MODULE MCStorageSelection --------------------------
\* Two Storage Elements whose two measures disagree: the first, preferred, has a file
\* left by its configuration and nothing on its disk; the second the other way round.
EXTENDS StorageSelection, TLC

CONSTANTS s1, s2, u1, u2, p1

MCPriority == (s1 :> 1) @@ (s2 :> 2)
MCMaxSize == (s1 :> 1) @@ (s2 :> 1)

MCWants == {[u \in Uploads |-> "edit"]}

MCFleets ==
    {(s1 :> [mode |-> "edit", used |-> 0, free |-> 0]) @@
     (s2 :> [mode |-> "edit", used |-> 1, free |-> 2])}
=============================================================================
