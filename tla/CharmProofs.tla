----------------------------- MODULE CharmProofs -----------------------------
(***************************************************************************)
(* The charm cleans up when it is removed, and corrects the route it       *)
(* published only when it must: for every set of units, configurations,    *)
(* ports and nodes.                                                        *)
(***************************************************************************)
EXTENDS CharmProperties, TLAPS

-----------------------------------------------------------------------------
(* What the parts of a hook change. *)

LEMMA DisturbType == TypeOK /\ Disturb => disturbances' \in 0..MaxDisturbances
BY CharmAssumption DEF Disturb, TypeOK

\* However _publish_route() ends, the Service is kept or created, only the
\* leader creates one, and the route is kept or becomes the current one.
LEMMA PublishRouteFacts ==
    ASSUME TypeOK, NEW u \in Unit, NEW outcome, PublishRoute(u, outcome),
           config' = config, hosts' = hosts
    PROVE  /\ nodePort' \in NodePort \cup {None}
           /\ nodePort' # nodePort => u = leader
           /\ route' \in [config : Config, hosts : Hosts, port : NodePort] \cup {None}
           /\ route' = route \/ route' = CurrentRoute'
           /\ addressed' \subseteq addressed \cup {u}
           /\ disturbances' \in 0..MaxDisturbances
<1>1. Applied => nodePort' \in NodePort
  BY DEF Applied, TypeOK
<1>2. nodePort' \in NodePort /\ route' = RouteTo(nodePort') =>
         /\ route' \in [config : Config, hosts : Hosts, port : NodePort]
         /\ route' = CurrentRoute'
  BY DEF TypeOK, RouteTo, CurrentRoute
<1>3. \/ UNCHANGED <<nodePort, route, addressed, disturbances>>
      \/ /\ u = leader /\ Disturb /\ (Applied \/ UNCHANGED nodePort)
         /\ UNCHANGED <<route, addressed>>
      \/ /\ u = leader /\ Applied /\ route' = RouteTo(nodePort')
         /\ addressed' = addressed \cup {u} /\ UNCHANGED disturbances
  BY DEF PublishRoute, routeVars
<1> QED
  BY <1>1, <1>2, <1>3, DisturbType DEF TypeOK

\* A hook of one unit changes at most what it may say and run.
LEMMA ConfigureFacts ==
    ASSUME TypeOK, NEW u \in Unit, Configure(u)
    PROVE  /\ u \in alive /\ untold' \subseteq untold
           /\ UNCHANGED <<alive, leader, leaked, adminVars, hosts, connected>>
           /\ pending' \in [Unit -> SUBSET Event]
           /\ environment' \in [Unit -> (Config \X Secret) \cup {None}]
           /\ \A v \in Unit : environment'[v] # None => connected[v]
           /\ health' \in [Unit -> Health]
           /\ status' \in [Unit -> Status]
           /\ \/ UNCHANGED routeVars
              \/ \E outcome \in Outcome : PublishRoute(u, outcome)
<1>1. Wanted \in (Config \X Secret) \cup {None}
  BY DEF TypeOK, Wanted
<1>2. pending' \in [Unit -> SUBSET Event]
  BY DEF TypeOK, Configure
<1>3. CASE ~Ready(u)
  <2>1. status' \in [Unit -> Status]
    BY <1>3 DEF Configure, TypeOK, Say, Status
  <2> QED
    BY <1>2, <1>3, <2>1 DEF Configure, TypeOK
<1>4. CASE Ready(u)
  <2>1. /\ environment' \in [Unit -> (Config \X Secret) \cup {None}]
        /\ \A v \in Unit : environment'[v] # None => connected[v]
        /\ health' \in [Unit -> Health]
    BY <1>1, <1>4 DEF Configure, Replan, Ready, TypeOK, Health
  <2>2. status' \in [Unit -> Status]
    <3>1. \A h \in Health : Workload[h] \in Status
      BY DEF Workload, Health, Status
    <3>2. health'[u] \in Health
      BY <2>1
    <3>3. {"blocked", "waiting"} \subseteq Status
      BY DEF Status
    <3>4. UNCHANGED status \/ \E value \in Status : Say(u, value)
      BY <1>4, <3>1, <3>2, <3>3 DEF Configure, Outcome
    <3> QED
      BY <3>4 DEF Say, TypeOK
  <2> QED
    BY <1>2, <1>4, <2>1, <2>2 DEF Configure
<1> QED
  BY <1>3, <1>4

LEMMA PublishFacts ==
    ASSUME TypeOK, NEW u \in Unit, Publish(u)
    PROVE  /\ u \in alive
           /\ UNCHANGED <<appVars, adminVars, hosts, connected, environment, health>>
           /\ pending' \in [Unit -> SUBSET Event]
           /\ status' \in [Unit -> Status]
           /\ \E outcome \in Outcome : PublishRoute(u, outcome)
BY DEF Publish, Say, Status, TypeOK

LEMMA UpdateStatusFacts ==
    ASSUME TypeOK, NEW u \in Unit, UpdateStatus(u)
    PROVE  /\ u \in alive
           /\ UNCHANGED <<appVars, adminVars, hosts, connected, environment, health, pending>>
           /\ status' \in [Unit -> Status]
           /\ \/ UNCHANGED routeVars
              \/ \E outcome \in Outcome : PublishRoute(u, outcome)
<1>1. Workload[health[u]] \in Status
  BY DEF TypeOK, Workload, Health, Status
<1>2. \A outcome \in Outcome \ {"notLeader", "published"} : outcome \in Status
  BY DEF Outcome, Status
<1>3. \E value \in Status : Say(u, value)
  BY <1>1, <1>2 DEF UpdateStatus, Refresh, Status
<1>4. status' \in [Unit -> Status]
  BY <1>3 DEF Say, TypeOK
<1> QED
  BY <1>4 DEF UpdateStatus, Refresh

\* The hooks change the same things: what a unit runs and says, and what
\* _publish_route() changes.
HookChanges(u) ==
    /\ u \in alive /\ untold' \subseteq untold
    /\ UNCHANGED <<alive, leader, leaked, adminVars, hosts, connected>>
    /\ pending' \in [Unit -> SUBSET Event]
    /\ environment' \in [Unit -> (Config \X Secret) \cup {None}]
    /\ \A v \in Unit : environment'[v] # None => connected[v]
    /\ health' \in [Unit -> Health]
    /\ status' \in [Unit -> Status]
    /\ \/ UNCHANGED routeVars
       \/ \E outcome \in Outcome : PublishRoute(u, outcome)

LEMMA HookFacts ==
    ASSUME TypeOK, NEW u \in Unit, Configure(u) \/ Publish(u) \/ UpdateStatus(u)
    PROVE  /\ UNCHANGED <<alive, leader, leaked>>
           /\ nodePort' # nodePort => u = leader
           /\ route' = route \/ route' = CurrentRoute'
           /\ TypeOK'
<1>1. HookChanges(u)
  <2>1. CASE Configure(u)
    BY <2>1, ConfigureFacts DEF HookChanges
  <2>2. CASE Publish(u)
    BY <2>2, PublishFacts DEF HookChanges, TypeOK, appVars
  <2>3. CASE UpdateStatus(u)
    BY <2>3, UpdateStatusFacts DEF HookChanges, TypeOK, appVars
  <2> QED
    BY <2>1, <2>2, <2>3
<1>2. UNCHANGED <<alive, leader, leaked, config, secret, trusted, related, hosts, connected>>
  BY <1>1 DEF HookChanges, adminVars
<1>3. /\ nodePort' \in NodePort \cup {None}
      /\ nodePort' # nodePort => u = leader
      /\ route' \in [config : Config, hosts : Hosts, port : NodePort] \cup {None}
      /\ route' = route \/ route' = CurrentRoute'
      /\ addressed' \subseteq addressed \cup {u}
      /\ disturbances' \in 0..MaxDisturbances
  <2>1. CASE UNCHANGED routeVars
    BY <2>1 DEF TypeOK, routeVars
  <2>2. CASE \E outcome \in Outcome : PublishRoute(u, outcome)
    BY <1>2, <2>2, PublishRouteFacts
  <2> QED
    BY <1>1, <2>1, <2>2 DEF HookChanges
<1>4. TypeOK'
  BY <1>1, <1>2, <1>3 DEF HookChanges, TypeOK
<1> QED
  BY <1>2, <1>3, <1>4

-----------------------------------------------------------------------------
(* Every step keeps the types. *)

LEMMA InitType == Init => TypeOK
<1> SUFFICES ASSUME Init PROVE TypeOK
  OBVIOUS
<1>1. disturbances \in 0..MaxDisturbances
  BY CharmAssumption DEF Init
<1>2. health \in [Unit -> Health] /\ status \in [Unit -> Status] /\ pending \in [Unit -> SUBSET Event]
  BY DEF Init, Health, Status, Event
<1>3. environment \in [Unit -> (Config \X Secret) \cup {None}] /\ connected \in [Unit -> BOOLEAN]
  BY DEF Init
<1> QED
  BY <1>1, <1>2, <1>3 DEF Init, TypeOK

LEMMA RemoveType ==
    ASSUME TypeOK, NEW u \in Unit, Remove(u)
    PROVE  TypeOK'
<1>1. /\ alive' \subseteq Unit /\ leader' \in alive' \cup {None}
      /\ addressed' \subseteq alive' /\ untold' \subseteq alive'
      /\ connected' \in [Unit -> BOOLEAN]
      /\ environment' \in [Unit -> (Config \X Secret) \cup {None}]
      /\ \A v \in Unit : environment'[v] # None => connected'[v]
      /\ health' \in [Unit -> Health] /\ status' \in [Unit -> Status]
      /\ pending' \in [Unit -> SUBSET Event]
  BY DEF Remove, Leave, TypeOK, Health, Status
<1>2. /\ nodePort' \in NodePort \cup {None} /\ leaked' \in BOOLEAN
      /\ disturbances' \in 0..MaxDisturbances
  BY DisturbType DEF Remove, TypeOK
<1>3. UNCHANGED <<config, secret, trusted, related, hosts, route>>
  BY DEF Remove, adminVars
<1> QED
  BY <1>1, <1>2, <1>3 DEF TypeOK

\* What happens to a unit between its hooks.
LEMMA UnitType ==
    ASSUME TypeOK, NEW u \in Unit,
           ReconcileAction(u) \/ PebbleReady(u) \/ ContainerEnds(u) \/ Starts(u) \/ HealthChanges(u)
    PROVE  TypeOK' /\ UNCHANGED <<appVars, adminVars, nodePort, hosts, route>>
<1>1. disturbances' \in 0..MaxDisturbances
  BY DisturbType DEF ReconcileAction, PebbleReady, ContainerEnds, Starts, HealthChanges, TypeOK
<1>2. health' \in [Unit -> Health]
  BY DEF ReconcileAction, PebbleReady, ContainerEnds, Starts, HealthChanges, TypeOK, Health
<1>3. /\ connected' \in [Unit -> BOOLEAN]
      /\ environment' \in [Unit -> (Config \X Secret) \cup {None}]
      /\ \A v \in Unit : environment'[v] # None => connected'[v]
  <2>1. CASE ContainerEnds(u)
    BY <2>1 DEF ContainerEnds, TypeOK
  <2>2. CASE ~ContainerEnds(u)
    <3>1. UNCHANGED environment /\ connected' \in {connected, [connected EXCEPT ![u] = TRUE]}
      BY <2>2 DEF ReconcileAction, PebbleReady, Starts, HealthChanges
    <3> QED
      BY <3>1 DEF TypeOK
  <2> QED
    BY <2>1, <2>2
<1>4. pending' \in [Unit -> SUBSET Event] /\ UNCHANGED status
  BY DEF ReconcileAction, PebbleReady, ContainerEnds, Starts, HealthChanges, TypeOK, Notify, Event
<1>5. UNCHANGED <<appVars, adminVars, nodePort, hosts, route>> /\ addressed' \subseteq addressed
  BY DEF ReconcileAction, PebbleReady, ContainerEnds, Starts, HealthChanges, clusterVars
<1> QED
  BY <1>1, <1>2, <1>3, <1>4, <1>5 DEF TypeOK, appVars, adminVars

\* What the administrator changes and Juju announces.
LEMMA AnnouncedType ==
    ASSUME TypeOK, ChangeConfig \/ Relate \/ RotateSecret \/ GrantSecret
    PROVE  TypeOK' /\ UNCHANGED <<alive, leader, leaked, clusterVars>>
<1>1. disturbances' \in 0..MaxDisturbances
  BY DisturbType DEF ChangeConfig, Relate, RotateSecret, GrantSecret, TypeOK
<1>2. pending' \in [Unit -> SUBSET Event]
  BY DEF ChangeConfig, Relate, RotateSecret, GrantSecret, Notify, TypeOK, Event
<1>3. /\ UNCHANGED <<alive, leader, leaked, clusterVars, connected, environment, health, status>>
      /\ untold' \subseteq alive
  BY DEF ChangeConfig, Relate, RotateSecret, GrantSecret, TypeOK, appVars
<1>4. config' \in Config /\ secret' \in Secret \cup {None} /\ {trusted', related'} \subseteq BOOLEAN
  BY DEF ChangeConfig, Relate, RotateSecret, GrantSecret, TypeOK
<1> QED
  BY <1>1, <1>2, <1>3, <1>4 DEF TypeOK, clusterVars

LEMMA UnannouncedType ==
    ASSUME TypeOK, Unannounced
    PROVE  TypeOK' /\ UNCHANGED <<alive, nodePort, route, leaked>>
<1>1. disturbances' \in 0..MaxDisturbances
  BY DisturbType DEF Unannounced, RevokeSecret, Trust, NodesChange, Elect, LeaderChanges, TypeOK
<1>2. /\ config' \in Config /\ secret' \in Secret \cup {None} /\ {trusted', related'} \subseteq BOOLEAN
      /\ hosts' \in Hosts /\ leader' \in alive \cup {None}
  BY DEF Unannounced, RevokeSecret, Trust, NodesChange, Elect, LeaderChanges, TypeOK, adminVars
<1>3. UNCHANGED <<alive, nodePort, route, addressed, unitVars, leaked, untold>>
  BY DEF Unannounced
<1> QED
  BY <1>1, <1>2, <1>3 DEF TypeOK, unitVars

LEMMA TypeStep ==
    ASSUME TypeOK, [Next]_vars
    PROVE  TypeOK'
<1>1. CASE \E u \in Unit : Configure(u) \/ Publish(u) \/ UpdateStatus(u)
  BY <1>1, HookFacts
<1>2. CASE \E u \in Unit : Remove(u)
  BY <1>2, RemoveType
<1>3. CASE \E u \in Unit : ReconcileAction(u) \/ PebbleReady(u) \/ ContainerEnds(u)
                             \/ Starts(u) \/ HealthChanges(u)
  BY <1>3, UnitType
<1>4. CASE ChangeConfig \/ Relate \/ RotateSecret \/ GrantSecret
  BY <1>4, AnnouncedType
<1>5. CASE Unannounced
  BY <1>5, UnannouncedType
<1>6. CASE UNCHANGED vars
  BY <1>6 DEF vars, appVars, adminVars, clusterVars, unitVars, TypeOK
<1> QED
  BY <1>1, <1>2, <1>3, <1>4, <1>5, <1>6 DEF Next

\* Every variable keeps its type, and a workload runs only in a container that
\* answers.
THEOREM CharmTyped == Spec => []TypeOK
BY InitType, TypeStep, PTL DEF Spec

-----------------------------------------------------------------------------
(* The Service. *)

\* No step leaves a Service without a leader behind, but a failed clean-up.
LEMMA OwnerStep ==
    ASSUME TypeOK, ServiceIsOwned, [Next]_vars
    PROVE  ServiceIsOwned'
<1> USE CharmAssumption DEF ServiceIsOwned, TypeOK
<1>1. ASSUME NEW u \in Unit, Configure(u) \/ Publish(u) \/ UpdateStatus(u)
      PROVE  ServiceIsOwned'
  <2>1. UNCHANGED <<leader, leaked>> /\ (nodePort' # nodePort => u = leader)
    BY <1>1, HookFacts
  <2> QED
    BY <2>1
<1>2. ASSUME NEW u \in Unit, Remove(u)
      PROVE  ServiceIsOwned'
  BY <1>2 DEF Remove, Leave
<1>3. CASE \E u \in Unit : ReconcileAction(u) \/ PebbleReady(u) \/ ContainerEnds(u)
                             \/ Starts(u) \/ HealthChanges(u)
  BY <1>3, UnitType DEF appVars
<1>4. CASE ChangeConfig \/ Relate \/ RotateSecret \/ GrantSecret
  BY <1>4, AnnouncedType DEF clusterVars
<1>5. CASE Unannounced
  <2>1. UNCHANGED <<nodePort, leaked>> /\ (leader' = None => leader = None)
    BY <1>5 DEF Unannounced, RevokeSecret, Trust, NodesChange, Elect, LeaderChanges
  <2> QED
    BY <2>1
<1>6. CASE UNCHANGED vars
  BY <1>6 DEF vars, appVars, clusterVars
<1> QED
  BY <1>1, <1>2, <1>3, <1>4, <1>5, <1>6 DEF Next

\* As long as no clean-up failed there is a Service only while there is a leader.
THEOREM ServiceIsOwnedHolds == Spec => []ServiceIsOwned
<1>1. Init => ServiceIsOwned
  BY DEF Init, ServiceIsOwned
<1> QED
  BY <1>1, OwnerStep, CharmTyped, PTL DEF Spec

\* Nothing is left of the application when its last unit is gone, in whatever
\* order the units go and whichever of them is leader when.
THEOREM RemovalCleansUpHolds == Spec => []RemovalCleansUp
<1>1. TypeOK /\ ServiceIsOwned => RemovalCleansUp
  BY DEF TypeOK, ServiceIsOwned, RemovalCleansUp
<1> QED
  BY <1>1, CharmTyped, ServiceIsOwnedHolds, PTL

-----------------------------------------------------------------------------
(* The route. *)

\* Only the hooks that publish change the route.
LEMMA RouteChanges ==
    ASSUME TypeOK, [Next]_vars, route' # route
    PROVE  route' = CurrentRoute'
<1>1. CASE \E u \in Unit : Configure(u) \/ Publish(u) \/ UpdateStatus(u)
  BY <1>1, HookFacts
<1>2. CASE \E u \in Unit : Remove(u)
  BY <1>2 DEF Remove
<1>3. CASE \E u \in Unit : ReconcileAction(u) \/ PebbleReady(u) \/ ContainerEnds(u)
                             \/ Starts(u) \/ HealthChanges(u)
  BY <1>3, UnitType
<1>4. CASE ChangeConfig \/ Relate \/ RotateSecret \/ GrantSecret
  BY <1>4, AnnouncedType DEF clusterVars
<1>5. CASE Unannounced \/ UNCHANGED vars
  BY <1>5 DEF Unannounced, vars, clusterVars
<1> QED
  BY <1>1, <1>2, <1>3, <1>4, <1>5 DEF Next

\* The data of the relation changes only when it is not what it should be, and
\* then to what it should be: "HAProxy relation data changes only when
\* controller ingress configuration changes" (docs/adr/0003).
THEOREM RouteOnlyCorrectedHolds == Spec => RouteOnlyCorrected
<1>1. TypeOK /\ [Next]_vars => [route' # route => route' = CurrentRoute' /\ route # CurrentRoute']_vars
  BY RouteChanges
<1> QED
  BY <1>1, CharmTyped, PTL DEF Spec, RouteOnlyCorrected
=============================================================================
