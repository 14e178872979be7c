--------------------------------- MODULE Charm ---------------------------------
(***************************************************************************)
(* The Juju charm of the controller (charm/src/charm.py and kubernetes.py): *)
(* units that are told of some changes by events, learn of others only at  *)
(* the next update-status, start the workload through Pebble, and of which *)
(* the leader publishes the ingress route to HAProxy.                      *)
(*                                                                         *)
(* A hook is one action.  The configuration is one value, of which both    *)
(* the workload's environment and the published host names are made, and   *)
(* it names the secrets, whose content is another value, None when one of  *)
(* them is not named, not granted or of no use.                            *)
(* Events for one handler are merged: "configure" is pebble-ready,         *)
(* config-changed or secret-changed, "publish" is relation-joined or       *)
(* -changed of haproxy-route.  Simplified: the relation and the trust are  *)
(* granted and not taken away; a unit is removed and not added.            *)
(***************************************************************************)
EXTENDS Naturals

CONSTANTS
    Unit, Config, Secret,
    NodePort,         \* ports Kubernetes may allocate
    Hosts,            \* sets of node addresses, each one value
    None,
    MaxDisturbances   \* bound: changes and faults in one behaviour

ASSUME CharmAssumption ==
    /\ None \notin Unit \cup Secret \cup NodePort
    /\ MaxDisturbances \in Nat

VARIABLES
    alive, leader,
    config, trusted, related,   \* what the administrator has set
    secret,        \* what the named secrets contain, None when they are of no use
    nodePort,      \* the port of the NodePort Service, None when there is no Service
    hosts,         \* the addresses of the nodes
    route,         \* the application's data of haproxy-route, None before the first
    addressed,     \* the units whose own data of haproxy-route has their present address
    connected,     \* per unit, whether Pebble answers
    environment,   \* per unit, of the running workload, None when none runs
    health,        \* per unit, what /statusz of its workload would say
    status,        \* per unit, its Juju status
    pending,       \* per unit, the events to come
    leaked,        \* history: a removal failed to clean up
    untold,        \* history: units that no event has told, nor will tell, of the secrets
    disturbances

appVars == <<alive, leader, leaked, untold>>
adminVars == <<config, secret, trusted, related>>
clusterVars == <<nodePort, hosts, route, addressed>>
\* What _publish_route() may change.
routeVars == <<nodePort, route, addressed, disturbances>>
unitVars == <<connected, environment, health, status, pending>>
vars == <<appVars, adminVars, clusterVars, unitVars, disturbances>>

Event == {"configure", "publish"}
Health == {"starting", "ok", "degraded"}
\* The classes of ops: Blocked-, Waiting-, Maintenance- and ActiveStatus.
Status == {"blocked", "waiting", "maintenance", "active"}

\* _set_workload_status(): no answer yet, or one that names what is degraded,
\* is a waiting status.  (If what is degraded is the loop, it is a maintenance
\* status, which is as good: not active.)
Workload == [starting |-> "waiting", ok |-> "active", degraded |-> "waiting"]

Init ==
    /\ alive = Unit
    /\ leader \in Unit
    /\ config \in Config
    /\ secret = None
    /\ trusted \in BOOLEAN
    /\ related = FALSE
    /\ nodePort = None
    /\ hosts \in Hosts
    /\ route = None
    /\ addressed = {}
    /\ connected = [u \in Unit |-> FALSE]
    /\ environment = [u \in Unit |-> None]
    /\ health = [u \in Unit |-> "starting"]
    /\ status = [u \in Unit |-> "waiting"]
    /\ pending = [u \in Unit |-> {"configure"}]
    /\ leaked = FALSE
    /\ untold = {}
    /\ disturbances = 0

Disturb == /\ disturbances < MaxDisturbances
           /\ disturbances' = disturbances + 1

\* _environment(): None while a secret is missing, whatever the workload runs with.
Wanted == IF secret = None THEN None ELSE <<config, secret>>
RouteTo(port) == [config |-> config, hosts |-> hosts, port |-> port]
CurrentRoute == RouteTo(nodePort)

Notify(U, event) ==
    pending' = [u \in Unit |-> IF u \in U THEN pending[u] \cup {event} ELSE pending[u]]

-----------------------------------------------------------------------------
(* The hooks of the charm. *)

\* The Service exists after apply(): Kubernetes chooses the port of a new one.
Applied == nodePort' \in IF nodePort = None THEN NodePort ELSE {nodePort}

Outcome == {"notLeader", "blocked", "waiting", "published"}

\* Mutant: the old data is cleared before the endpoint is known.
PublishRouteClearing(u, outcome) ==
    \/ /\ u # leader /\ outcome = "notLeader"
       /\ UNCHANGED routeVars
    \/ /\ u = leader /\ ~trusted /\ outcome = "blocked"
       /\ UNCHANGED routeVars
    \/ /\ u = leader /\ trusted /\ outcome = "waiting"
       /\ Disturb
       /\ Applied \/ UNCHANGED nodePort
       /\ route' = None /\ UNCHANGED addressed
    \/ /\ u = leader /\ trusted /\ outcome = "published"
       /\ Applied
       /\ route' = RouteTo(nodePort')
       /\ addressed' = addressed \cup {u}
       /\ UNCHANGED disturbances

\* _publish_route() ends with this outcome: not the leader; blocked, access
\* being denied; waiting, after another error before or after the Service was
\* applied; published.
PublishRoute(u, outcome) ==
    \/ /\ u # leader /\ outcome = "notLeader"
       /\ UNCHANGED routeVars
    \/ /\ u = leader /\ ~trusted /\ outcome = "blocked"
       /\ UNCHANGED routeVars
    \/ /\ u = leader /\ trusted /\ outcome = "waiting"
       /\ Disturb
       /\ Applied \/ UNCHANGED nodePort
       /\ UNCHANGED <<route, addressed>>
    \/ /\ u = leader /\ trusted /\ outcome = "published"
       /\ Applied
       /\ route' = RouteTo(nodePort')
       /\ addressed' = addressed \cup {u}
       /\ UNCHANGED disturbances

\* The status of a unit after its hook.
Say(u, value) == status' = [status EXCEPT ![u] = value]

\* Mutant: the layer is added and the service is started, but not restarted.
ReplanStarting(u) ==
    /\ environment' = [environment EXCEPT ![u] = IF @ = None THEN Wanted ELSE @]
    /\ health' = [health EXCEPT ![u] = IF environment[u] # None THEN @ ELSE "starting"]

\* add_layer() and replan(): a changed environment restarts the workload.
Replan(u) ==
    /\ environment' = [environment EXCEPT ![u] = Wanted]
    /\ health' = [health EXCEPT ![u] = IF environment[u] = Wanted THEN @ ELSE "starting"]

\* Mutant: nobody asks whether Pebble answers.
ReadyUnasked(u) == Wanted # None

\* There is an environment, and a container to use it.
Ready(u) == Wanted # None /\ connected[u]

\* _configure(): a unit that is not the leader keeps the status it had.
Configure(u) ==
    /\ u \in alive /\ "configure" \in pending[u]
    /\ pending' = [pending EXCEPT ![u] = @ \ {"configure"}]
    /\ untold' = untold \ {u}
    /\ \/ /\ ~Ready(u)
          /\ Say(u, IF Wanted = None THEN "blocked" ELSE "waiting")
          /\ UNCHANGED <<environment, health, routeVars>>
       \/ /\ Ready(u)
          /\ Replan(u)
          /\ \/ /\ ~related
                /\ Say(u, "waiting")
                /\ UNCHANGED routeVars
             \/ /\ related
                /\ \E outcome \in Outcome :
                      /\ PublishRoute(u, outcome)
                      /\ CASE outcome = "notLeader" -> UNCHANGED status
                           [] outcome = "published" -> Say(u, Workload[health'[u]])
                           [] OTHER -> Say(u, outcome)
    /\ UNCHANGED <<alive, leader, leaked, adminVars, hosts, connected>>

\* The relation's events: nothing but the route, and a status if that fails.
Publish(u) ==
    /\ u \in alive /\ "publish" \in pending[u]
    /\ pending' = [pending EXCEPT ![u] = @ \ {"publish"}]
    /\ \E outcome \in Outcome :
          /\ PublishRoute(u, outcome)
          /\ IF outcome \in {"blocked", "waiting"} THEN Say(u, outcome) ELSE UNCHANGED status
    /\ UNCHANGED <<appVars, adminVars, hosts, connected, environment, health>>

\* Mutants: after its first publication update-status leaves the route alone;
\* what was published is taken to work, and the workload is not asked.
RefreshOnce(u) ==
    \/ /\ route # None \/ u # leader
       /\ Say(u, Workload[health[u]])
       /\ UNCHANGED routeVars
    \/ /\ route = None
       /\ PublishRoute(u, "published")
       /\ Say(u, Workload[health[u]])
RefreshUnasked(u) ==
    \E outcome \in Outcome :
        /\ PublishRoute(u, outcome)
        /\ Say(u, IF outcome \in {"notLeader", "published"} THEN "active" ELSE outcome)

\* The end of _update_status(): the leader publishes, the workload is asked.
Refresh(u) ==
    \E outcome \in Outcome :
        /\ PublishRoute(u, outcome)
        /\ Say(u, IF outcome \in {"notLeader", "published"} THEN Workload[health[u]] ELSE outcome)

\* _update_status(), which never applies the layer.
UpdateStatus(u) ==
    /\ u \in alive
    /\ \/ /\ ~(Ready(u) /\ environment[u] # None /\ related)
          /\ Say(u, IF Wanted = None THEN "blocked"
                    ELSE IF connected[u] /\ environment[u] = None THEN "maintenance"
                    ELSE "waiting")
          /\ UNCHANGED routeVars
       \/ /\ Ready(u) /\ environment[u] # None /\ related
          /\ Refresh(u)
    /\ UNCHANGED <<appVars, adminVars, hosts, connected, environment, health, pending>>

\* A unit that is gone leaves no state of its own, nor data in the relation.
Leave(u) ==
    /\ u \in alive
    /\ alive' = alive \ {u}
    /\ addressed' = addressed \ {u}
    /\ untold' = untold \ {u}
    /\ leader' = IF u = leader THEN None ELSE leader
    /\ connected' = [connected EXCEPT ![u] = FALSE]
    /\ environment' = [environment EXCEPT ![u] = None]
    /\ health' = [health EXCEPT ![u] = "starting"]
    /\ status' = [status EXCEPT ![u] = "waiting"]
    /\ pending' = [pending EXCEPT ![u] = {}]

\* Mutant: the units that are not the leader clean up.
RemoveUnlessLeader(u) ==
    /\ Leave(u)
    /\ nodePort' = IF u = leader THEN nodePort ELSE None
    /\ UNCHANGED <<adminVars, hosts, route, leaked, disturbances>>

\* _remove(): the leader deletes the Service, also while other units use it; a
\* failure is only logged.  Afterwards Juju has no leader for a while.
Remove(u) ==
    /\ Leave(u)
    /\ \/ u = leader /\ nodePort' = None /\ UNCHANGED <<leaked, disturbances>>
       \/ u = leader /\ Disturb /\ leaked' = TRUE /\ UNCHANGED nodePort
       \/ u # leader /\ UNCHANGED <<nodePort, leaked, disturbances>>
    /\ UNCHANGED <<adminVars, hosts, route>>

\* The reconcile action restarts the workload.
ReconcileAction(u) ==
    /\ u \in alive /\ connected[u] /\ environment[u] # None
    /\ Disturb
    /\ health' = [health EXCEPT ![u] = "starting"]
    /\ UNCHANGED <<appVars, adminVars, clusterVars, connected, environment, status, pending>>

-----------------------------------------------------------------------------
(* Juju, Kubernetes and the administrator. *)

PebbleReady(u) ==
    /\ u \in alive /\ ~connected[u]
    /\ connected' = [connected EXCEPT ![u] = TRUE]
    /\ Notify({u}, "configure")
    /\ UNCHANGED <<appVars, adminVars, clusterVars, environment, health, status, disturbances>>

\* A container that is replaced comes back without a layer, and with its pod at
\* another address.
ContainerEnds(u) ==
    /\ u \in alive /\ connected[u]
    /\ Disturb
    /\ connected' = [connected EXCEPT ![u] = FALSE]
    /\ environment' = [environment EXCEPT ![u] = None]
    /\ addressed' \in {addressed, addressed \ {u}}
    /\ UNCHANGED <<appVars, adminVars, nodePort, hosts, route, health, status, pending>>

Starts(u) ==
    /\ environment[u] # None /\ health[u] = "starting"
    /\ \E h \in {"ok", "degraded"} : health' = [health EXCEPT ![u] = h]
    /\ UNCHANGED <<appVars, adminVars, clusterVars, connected, environment, status,
                   pending, disturbances>>

HealthChanges(u) ==
    /\ environment[u] # None /\ health[u] # "starting"
    /\ Disturb
    /\ \E h \in {"ok", "degraded"} \ {health[u]} : health' = [health EXCEPT ![u] = h]
    /\ UNCHANGED <<appVars, adminVars, clusterVars, connected, environment, status, pending>>

\* What Juju announces to every unit: an option changes, or another secret is
\* named, granted already or not.
ChangeConfig ==
    /\ Disturb
    /\ \/ config' \in Config \ {config} /\ UNCHANGED secret
       \/ secret' \in (Secret \cup {None}) \ {secret} /\ UNCHANGED config
    /\ Notify(alive, "configure")
    /\ UNCHANGED <<appVars, trusted, related, clusterVars, connected, environment,
                   health, status>>

Relate ==
    /\ ~related
    /\ related' = TRUE
    /\ Notify(alive, "publish")
    /\ UNCHANGED <<appVars, config, secret, trusted, clusterVars, connected, environment,
                   health, status, disturbances>>

\* A new revision of a secret, well formed or not, is announced to the units that
\* have read it: those that looked when it was there, and possibly others.
RotateSecret ==
    /\ secret # None
    /\ Disturb
    /\ secret' \in (Secret \cup {None}) \ {secret}
    /\ \E U \in SUBSET alive :
          /\ alive \ untold \subseteq U
          /\ Notify(U, "configure")
    /\ UNCHANGED <<appVars, config, trusted, related, clusterVars, connected, environment,
                   health, status>>

\* A missing secret is granted, which is announced to nobody, or its content
\* is corrected, which is announced to the units that have read it.
GrantSecret ==
    /\ secret = None
    /\ secret' \in Secret
    /\ \E U \in SUBSET alive :
          /\ Notify(U, "configure")
          /\ untold' = untold \cup {u \in alive \ U : "configure" \notin pending[u]}
    /\ UNCHANGED <<alive, leader, leaked, config, trusted, related, clusterVars, connected,
                   environment, health, status, disturbances>>

\* What is not announced at all: a secret that is revoked or removed, trust that is
\* granted, nodes that come and go, and, to this charm, a new leader.
RevokeSecret == /\ secret # None
                /\ Disturb
                /\ secret' = None
                /\ UNCHANGED <<config, trusted, related, hosts, leader>>
Trust == /\ ~trusted
         /\ trusted' = TRUE
         /\ UNCHANGED <<config, secret, related, hosts, leader, disturbances>>
NodesChange == /\ Disturb
               /\ hosts' \in Hosts \ {hosts}
               /\ UNCHANGED <<adminVars, leader>>
Elect == /\ leader = None
         /\ leader' \in alive
         /\ UNCHANGED <<adminVars, hosts, disturbances>>
LeaderChanges == /\ leader # None
                 /\ Disturb
                 /\ leader' \in alive \ {leader}
                 /\ UNCHANGED <<adminVars, hosts>>

Unannounced ==
    /\ RevokeSecret \/ Trust \/ NodesChange \/ Elect \/ LeaderChanges
    /\ UNCHANGED <<alive, nodePort, route, addressed, unitVars, leaked, untold>>

Next ==
    \/ \E u \in Unit :
          \/ Configure(u)
          \/ Publish(u)
          \/ UpdateStatus(u)
          \/ Remove(u)
          \/ ReconcileAction(u)
          \/ PebbleReady(u)
          \/ ContainerEnds(u)
          \/ Starts(u)
          \/ HealthChanges(u)
    \/ ChangeConfig
    \/ Relate
    \/ RotateSecret
    \/ GrantSecret
    \/ Unannounced

\* Juju delivers events and fires update-status again and again, a container
\* becomes ready, a workload that was started answers, a leader is elected.
Fairness ==
    /\ \A u \in Unit : /\ WF_vars(Configure(u))
                       /\ WF_vars(Publish(u))
                       /\ WF_vars(UpdateStatus(u))
                       /\ WF_vars(PebbleReady(u))
                       /\ WF_vars(Starts(u))
    /\ WF_vars(Elect /\ Unannounced)

Spec == Init /\ [][Next]_vars

FairSpec == Spec /\ Fairness
=============================================================================
