------------------------------ MODULE MCApiClient ------------------------------
(* Instances of ApiClient for model checking. *)
EXTENDS ApiClient, TLC

CONSTANTS a1, e1, e2, k1, k2

OneHome == a1 :> e1
Good == {[key |-> k1, valid |-> TRUE], [key |-> k2, valid |-> TRUE]}
OneKey == {[key |-> k1, valid |-> TRUE]}
OneBad == {[key |-> k1, valid |-> TRUE], [key |-> k2, valid |-> FALSE]}

FirstUse == [set |-> TRUE, fp |-> None, onTrust |-> TRUE, dial |-> None]
Pinned == [set |-> TRUE, fp |-> k1, onTrust |-> FALSE, dial |-> None]

\* The services configure trust on first use only; an application pins the stored
\* fingerprint.
Callers == {FirstUse, Pinned}
Services == {FirstUse}

\* Public requests only: no token, no health checks.
PublicOnly == token = None /\ selected = None

Symmetry == Permutations(Threads)

================================================================================
