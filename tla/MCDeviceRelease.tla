--------------------------- MODULE MCDeviceRelease ---------------------------
(* Small instances of DeviceRelease for TLC.                                *)
EXTENDS DeviceRelease

CONSTANTS a, b, c

\* Three generations; the newest declares a contract that does not compile.
MCReleases == {[gen |-> 1, art |-> a, ctr |-> a], [gen |-> 2, art |-> b, ctr |-> b],
               [gen |-> 3, art |-> c, ctr |-> c]}

\* Two generations, and a second tuple for generation 2: a metadata conflict
\* that declares the same bytes and a contract that does not compile.
MCConflict == {[gen |-> 1, art |-> a, ctr |-> a], [gen |-> 2, art |-> b, ctr |-> a],
               [gen |-> 2, art |-> b, ctr |-> b]}

\* Two generations with sound contracts.
MCTwoReleases == {[gen |-> 1, art |-> a, ctr |-> a], [gen |-> 2, art |-> b, ctr |-> b]}
=============================================================================
