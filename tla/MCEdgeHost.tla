----------------------------- MODULE MCEdgeHost -----------------------------
(***************************************************************************)
(* Small instances of EdgeHost.                                            *)
(***************************************************************************)
EXTENDS EdgeHost

CONSTANTS a, b, c

MCInodes == 1..5

\* Three generations, two of them in conflict, one that does not compile.
MCReleases ==
  {[gen |-> 1, art |-> b], [gen |-> 2, art |-> a],
   [gen |-> 2, art |-> b], [gen |-> 3, art |-> c]}

MCTwoReleases == {[gen |-> 1, art |-> b], [gen |-> 2, art |-> c]}
=============================================================================
