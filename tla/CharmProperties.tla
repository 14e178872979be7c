---------------------------- MODULE CharmProperties ----------------------------
(***************************************************************************)
(* What the charm promises.                                                *)
(***************************************************************************)
EXTENDS Charm

\* A workload runs only in a container that answers, with an environment that
\* was once wanted; a route was published for an endpoint that existed.
TypeOK ==
    /\ alive \subseteq Unit
    /\ leader \in alive \cup {None}
    /\ config \in Config /\ secret \in Secret \cup {None}
    /\ {trusted, related, leaked} \subseteq BOOLEAN
    /\ nodePort \in NodePort \cup {None}
    /\ hosts \in Hosts
    /\ route \in [config : Config, hosts : Hosts, port : NodePort] \cup {None}
    /\ addressed \subseteq alive /\ untold \subseteq alive
    /\ connected \in [Unit -> BOOLEAN]
    /\ environment \in [Unit -> (Config \X Secret) \cup {None}]
    /\ \A u \in Unit : environment[u] # None => connected[u]
    /\ health \in [Unit -> Health]
    /\ status \in [Unit -> Status]
    /\ pending \in [Unit -> SUBSET Event]
    /\ disturbances \in 0..MaxDisturbances

\* "HAProxy relation data changes only when controller ingress configuration
\* changes" (docs/adr/0003), and no status alters it (docs/operations.md): the
\* data changes only to what is true at that time, and only because it was not
\* before; errors, a blocked unit and a degraded workload leave it alone.
RouteOnlyCorrected ==
    [][route' # route => route' = CurrentRoute' /\ route # CurrentRoute']_vars

\* Nothing of the application is left in the cluster when its last unit is
\* gone, whoever was leader when, unless the clean-up itself failed.
RemovalCleansUp == alive = {} /\ ~leaked => nodePort = None

\* Why: the Service has an owner. Only a leader creates one, and a leader that is
\* removed, not one that is merely replaced, deletes it.
ServiceIsOwned == leader = None /\ ~leaked => nodePort = None

\* The published route ends up being the actual one, with the leader's address,
\* although nobody is told of new nodes, a new leader, granted trust, or the
\* Service deleted by a leader that leaves, once the secrets are there and the
\* leader's own workload runs: _update_status() publishes only then.
RouteFollows ==
    <>[](/\ leader # None /\ trusted /\ related
         /\ Wanted # None /\ environment[leader] # None
         => route = CurrentRoute /\ nodePort # None /\ leader \in addressed)

\* No order of configuration, grant, rotation, revocation and restart of its
\* container leaves a unit with an old environment for good, unless it says that
\* the secrets are missing, or runs on from before it was blocked and no event
\* told it that the secrets have come: update-status never applies the layer.
\* A unit that runs nothing says so, told or not.
RunsWhatIsWanted ==
    \A u \in Unit :
        <>[](u \in alive =>
                \/ Wanted # None /\ environment[u] = Wanted
                \/ Wanted = None /\ status[u] = "blocked"
                \/ Wanted # None /\ environment[u] = None /\ status[u] = "maintenance"
                \/ Wanted # None /\ environment[u] # None /\ u \in untold)

\* A unit that goes on saying that it is active is: its workload answers that it is
\* well, it is related, and if it is leader its route is published.
ActiveIsHonest ==
    \A u \in Unit :
        <>[](u \in alive /\ status[u] = "active" =>
                /\ health[u] = "ok" /\ environment[u] # None
                /\ related
                /\ u = leader => route = CurrentRoute)
=============================================================================
