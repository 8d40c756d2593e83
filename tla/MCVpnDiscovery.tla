---------------------------- MODULE MCVpnDiscovery ----------------------------
(* An instance of VpnDiscovery for model checking. *)
EXTENDS VpnDiscovery

CONSTANTS h1, h2, h3

\* A subnet with more hosts than workers, one too large to scan, and one with fewer;
\* two addresses of the interface lie in one subnet, so that h3 is asked twice.
Overlapping == <<<<h1, h2, h3>>, <<>>, <<h3>>>>

================================================================================
