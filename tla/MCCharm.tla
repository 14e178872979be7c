-------------------------------- MODULE MCCharm --------------------------------
(* An instance of the charm for TLC.  Where no value of a kind is in use yet  *)
(* the first one is taken, since any other is the same up to names: leader,   *)
(* config and hosts at the beginning, later the secret and the port.          *)
EXTENDS CharmProperties

CONSTANTS u1, u2, c1, c2, s1, s2, p1, p2, h1, h2

MCInit == Init /\ leader = u1 /\ config = c1 /\ hosts = h1 /\ ~trusted

\* An action constraint.
FirstFirst ==
    /\ secret = None /\ (\A u \in Unit : environment[u] = None) => secret' \in {None, s1}
    /\ nodePort = None /\ route = None => nodePort' \in {None, p1}

MCFairSpec == MCInit /\ [][Next]_vars /\ Fairness
=============================================================================
