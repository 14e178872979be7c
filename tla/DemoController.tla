---------------------------- MODULE DemoController ----------------------------
(***************************************************************************)
(* The demo controller: HTTP handlers, the reconciliation loop             *)
(* (src/demo_controller/reconciler.py), the Kubernetes calls the loop      *)
(* hands to a worker thread (kubernetes.py) and the process around them.   *)
(*                                                                         *)
(* Everything but the worker thread runs on one event loop: a handler may  *)
(* run only where the loop's coroutine is suspended, so handlers are       *)
(* disabled at pc = "next", the one place where the coroutine is between   *)
(* two records and does not await.                                         *)
(*                                                                         *)
(* Simplified: a project's configuration is reduced to its port, whether   *)
(* it has environment and secret entries, and the images its namespace     *)
(* admits.  All demos share one repository, hence one configuration.       *)
(* Resource names do not collide.  A call that a dead process had already  *)
(* sent does not reach the API server after the restart.                   *)
(***************************************************************************)
EXTENDS DemoStore

CONSTANTS
    Project,         \* the configurations Vault may hold
    StoreFaults,     \* whether SQLite may raise an error
    MaxDisturbances  \* bound: faults, crashes and edits in one behaviour

ProjectConfig == [port : Port, env : BOOLEAN, secret : BOOLEAN, images : SUBSET Image]

ASSUME ProjectAssumption == Project \subseteq ProjectConfig
ASSUME DisturbanceAssumption == StoreFaults \in BOOLEAN /\ MaxDisturbances \in Nat

VARIABLES
    cluster,       \* the Kubernetes objects of each demo
    project,       \* the configuration Vault holds now
    pc,            \* where the reconciliation coroutine is
    queue,         \* the rows list_reconcilable returned, still to be reconciled
    cur,           \* the demo being reconciled
    config,        \* the configuration Vault answered for cur
    stopping,      \* ReconciliationLoop._stopping
    disturbances   \* faults, crashes and edits so far

loopVars == <<pc, queue, cur, config, stopping>>
vars == <<storeVars, cluster, project, loopVars, disturbances>>

ApplyStage == {"applyConfigMap", "applySecret", "applyService", "applyDeployment",
               "pruneConfigMap", "pruneSecret", "readStatus"}
DeleteStage == {"deleteDeployment", "deleteService", "deleteConfigMap", "deleteSecret"}
KubernetesStage == ApplyStage \cup DeleteStage
ApplyDone == {"recordReady", "recordWaiting"}
Busy == {"vault", "failing", "deleteRecord"} \cup KubernetesStage \cup ApplyDone
Location == {"idle", "next", "stopped", "dead"} \cup Busy

\* The Deployment rendered for a row: rev is the history field of that row.
DeploymentSpec == [image : Image \cup {None}, port : Port, env : BOOLEAN,
                   secret : BOOLEAN, rev : Int]
\* available is what apply() reads from the status: the controller has seen
\* the last generation, and enough replicas are available.
DemoObjects == [deployment : DeploymentSpec \cup {None}, service : Port \cup {None},
                configMap : BOOLEAN, secret : BOOLEAN, available : BOOLEAN]
Nothing == [deployment |-> None, service |-> None, configMap |-> FALSE,
            secret |-> FALSE, available |-> FALSE]

ASSUME ObjectAssumption == None \notin DeploymentSpec \cup Demo \cup Project

NoQueue == [d \in Demo |-> NoRow]

TypeOK ==
    /\ StoreTypeOK
    /\ cluster \in [Demo -> DemoObjects]
    /\ project \in Project
    /\ pc \in Location
    /\ queue \in [Demo -> Row \cup {NoRow}]
    /\ cur \in Demo \cup {None}
    /\ config \in Project \cup {None}
    /\ stopping \in BOOLEAN
    /\ disturbances \in 0..MaxDisturbances

Init ==
    /\ StoreInit
    /\ cluster = [d \in Demo |-> Nothing]
    /\ project \in Project
    /\ pc = "stopped"
    /\ queue = NoQueue
    /\ cur = None
    /\ config = None
    /\ stopping = FALSE
    /\ disturbances = 0

Disturb == /\ disturbances < MaxDisturbances
           /\ disturbances' = disturbances + 1

-----------------------------------------------------------------------------
(* The HTTP API.  The handlers keep running after the loop's task has died; *)
(* once the shutdown has begun the server accepts no request.               *)

Serving == pc \notin {"next", "stopped"} /\ ~stopping

Deploy(q) ==
    /\ q.op = "deploy"
    /\ Serving
    /\ UpsertDeploy(q)
    /\ Accept(q)
    /\ UNCHANGED <<now, cluster, project, loopVars, disturbances>>

Destroy(q) ==
    /\ q.op = "destroy"
    /\ Serving
    /\ RequestDestroy(q)
    /\ Accept(q)
    /\ UNCHANGED <<now, cluster, project, loopVars, disturbances>>

-----------------------------------------------------------------------------
(* The reconciliation loop. *)

\* The coroutine is done with cur and goes on, without awaiting.
NextRecord ==
    /\ pc' = "next"
    /\ queue' = [queue EXCEPT ![cur] = NoRow]
    /\ cur' = None
    /\ config' = None

\* The coroutine's state is gone: an exception has left run(), or the process died.
Lose(location) ==
    /\ pc' = location
    /\ queue' = NoQueue
    /\ cur' = None
    /\ config' = None

\* Mutant: while True.
StartPassForever ==
    /\ pc = "idle"
    /\ pc' = "next"
    /\ queue' = ListReconcilable
    /\ UNCHANGED <<storeVars, cluster, project, cur, config, stopping, disturbances>>

StartPass ==
    /\ pc = "idle"
    /\ ~stopping
    /\ pc' = "next"
    /\ queue' = ListReconcilable
    /\ UNCHANGED <<storeVars, cluster, project, cur, config, stopping, disturbances>>

\* Mutant: the record is listed as withdrawn one tick too early.
BeginDeleteEarly(d) ==
    /\ pc = "next"
    /\ queue[d] # NoRow
    /\ Withdrawn(queue[d], now + 1)
    /\ UpdateState(d, "deleting", None)
    /\ pc' = "deleteDeployment"
    /\ cur' = d
    /\ UNCHANGED <<now, accepted, received, cluster, project, queue, config,
                   stopping, disturbances>>

\* The test reads the listed record, which may be older than the row.
BeginDelete(d) ==
    /\ pc = "next"
    /\ queue[d] # NoRow
    /\ Withdrawn(queue[d], now)
    /\ UpdateState(d, "deleting", None)
    /\ pc' = "deleteDeployment"
    /\ cur' = d
    /\ UNCHANGED <<now, accepted, received, cluster, project, queue, config,
                   stopping, disturbances>>

\* Mutant: the row keeps its state until there is an outcome to record.
BeginReconcileSilently(d) ==
    /\ pc = "next"
    /\ queue[d] # NoRow
    /\ ~Withdrawn(queue[d], now)
    /\ pc' = "vault"
    /\ cur' = d
    /\ UNCHANGED <<storeVars, cluster, project, queue, config, stopping, disturbances>>

BeginReconcile(d) ==
    /\ pc = "next"
    /\ queue[d] # NoRow
    /\ ~Withdrawn(queue[d], now)
    /\ UpdateState(d, "reconciling", None)
    /\ pc' = "vault"
    /\ cur' = d
    /\ UNCHANGED <<now, accepted, received, cluster, project, queue, config,
                   stopping, disturbances>>

EndPass ==
    /\ pc = "next"
    /\ queue = NoQueue
    /\ pc' = "idle"
    /\ UNCHANGED <<storeVars, cluster, project, queue, cur, config, stopping, disturbances>>

\* run() returns: stop() also ends the wait between two passes.
Exit ==
    /\ pc = "idle"
    /\ stopping
    /\ pc' = "stopped"
    /\ stopping' = FALSE
    /\ UNCHANGED <<storeVars, cluster, project, queue, cur, config, disturbances>>

-----------------------------------------------------------------------------
(* Vault's answer. *)

VaultAnswers ==
    /\ pc = "vault"
    /\ queue[cur].image \in project.images
    /\ config' = project
    /\ pc' = "applyConfigMap"
    /\ UNCHANGED <<storeVars, cluster, project, queue, cur, stopping, disturbances>>

\* The image is outside the namespace the project authorizes.
VaultRefuses ==
    /\ pc = "vault"
    /\ queue[cur].image \notin project.images
    /\ pc' = "failing"
    /\ UNCHANGED <<storeVars, cluster, project, queue, cur, config, stopping, disturbances>>

VaultFails ==
    /\ pc = "vault"
    /\ Disturb
    /\ pc' = "failing"
    /\ UNCHANGED <<storeVars, cluster, project, queue, cur, config, stopping>>

-----------------------------------------------------------------------------
(* The Kubernetes calls, one at a time on the worker thread. *)

\* Mutants: delete() forgets the Secret; apply() prunes before it applies the
\* Deployment that no longer refers to what is pruned.
AfterWithoutSecret ==
    [stage \in KubernetesStage \ {"readStatus"} |->
        CASE stage = "applyConfigMap"   -> "applySecret"
          [] stage = "applySecret"      -> "applyService"
          [] stage = "applyService"     -> "applyDeployment"
          [] stage = "applyDeployment"  -> "pruneConfigMap"
          [] stage = "pruneConfigMap"   -> "pruneSecret"
          [] stage = "pruneSecret"      -> "readStatus"
          [] stage = "deleteDeployment" -> "deleteService"
          [] stage = "deleteService"    -> "deleteConfigMap"
          [] stage = "deleteConfigMap"  -> "deleteRecord"
          [] stage = "deleteSecret"     -> "deleteRecord"]
AfterPruningFirst ==
    [AfterWithoutSecret EXCEPT !.applySecret = "pruneConfigMap",
                               !.pruneSecret = "applyService",
                               !.applyDeployment = "readStatus",
                               !.deleteConfigMap = "deleteSecret"]

After == [applyConfigMap   |-> "applySecret",
          applySecret      |-> "applyService",
          applyService     |-> "applyDeployment",
          applyDeployment  |-> "pruneConfigMap",
          pruneConfigMap   |-> "pruneSecret",
          pruneSecret      |-> "readStatus",
          deleteDeployment |-> "deleteService",
          deleteService    |-> "deleteConfigMap",
          deleteConfigMap  |-> "deleteSecret",
          deleteSecret     |-> "deleteRecord"]

\* Mutant: nothing is pruned.
CallsNoPruning(stage, p) ==
    /\ stage = "applyConfigMap" => p.env
    /\ stage = "applySecret"    => p.secret
    /\ stage \notin {"pruneConfigMap", "pruneSecret"}

\* RenderedResources.all() holds no ConfigMap and no Secret that has no entry,
\* and apply() deletes just those: the other stages always make their call.
Calls(stage, p) ==
    /\ stage = "applyConfigMap" => p.env
    /\ stage = "applySecret"    => p.secret
    /\ stage = "pruneConfigMap" => ~p.env
    /\ stage = "pruneSecret"    => ~p.secret

Rendered(row, p) == [image |-> row.image, port |-> p.port, env |-> p.env,
                     secret |-> p.secret, rev |-> row.rev]

\* Applying an unchanged specification starts no new generation.
SameSpec(a, b) == a # None /\ [a EXCEPT !.rev = b.rev] = b

ApplyEffect(stage, objects, row, p) ==
    CASE stage = "applyConfigMap"  -> [objects EXCEPT !.configMap = TRUE]
      [] stage = "applySecret"     -> [objects EXCEPT !.secret = TRUE]
      [] stage = "applyService"    -> [objects EXCEPT !.service = p.port]
      [] stage = "applyDeployment" ->
            [objects EXCEPT !.deployment = Rendered(row, p),
                            !.available = objects.available
                                /\ SameSpec(objects.deployment, Rendered(row, p))]
      [] stage = "pruneConfigMap"  -> [objects EXCEPT !.configMap = FALSE]
      [] stage = "pruneSecret"     -> [objects EXCEPT !.secret = FALSE]

DeleteEffect(stage, objects) ==
    CASE stage = "deleteDeployment" -> [objects EXCEPT !.deployment = None, !.available = FALSE]
      [] stage = "deleteService"    -> [objects EXCEPT !.service = None]
      [] stage = "deleteConfigMap"  -> [objects EXCEPT !.configMap = FALSE]
      [] stage = "deleteSecret"     -> [objects EXCEPT !.secret = FALSE]

\* Mutant: objects are deleted by the label all demos share, not by name.
CalledBySelector(stage) ==
    IF stage \in DeleteStage
    THEN [d \in Demo |-> DeleteEffect(stage, cluster[d])]
    ELSE [cluster EXCEPT ![cur] = ApplyEffect(stage, @, queue[cur], config)]

\* The cluster after the call of this stage, for the demo being reconciled.
Called(stage) ==
    [cluster EXCEPT ![cur] = IF stage \in DeleteStage
                             THEN DeleteEffect(stage, cluster[cur])
                             ELSE ApplyEffect(stage, cluster[cur], queue[cur], config)]

KubernetesCall ==
    /\ pc \in KubernetesStage \ {"readStatus"}
    /\ cluster' = IF Calls(pc, config) THEN Called(pc) ELSE cluster
    /\ pc' = After[pc]
    /\ UNCHANGED <<storeVars, project, queue, cur, config, stopping, disturbances>>

ReadStatus ==
    /\ pc = "readStatus"
    /\ pc' = IF cluster[cur].available THEN "recordReady" ELSE "recordWaiting"
    /\ UNCHANGED <<storeVars, cluster, project, queue, cur, config, stopping, disturbances>>

\* A call raises, before or after the API server carried it out.
KubernetesFails ==
    /\ pc \in KubernetesStage
    /\ Calls(pc, config)
    /\ Disturb
    /\ \/ cluster' = cluster
       \/ pc # "readStatus" /\ cluster' = Called(pc)
    /\ pc' = "failing"
    /\ UNCHANGED <<storeVars, project, queue, cur, config, stopping>>

-----------------------------------------------------------------------------
(* What the coroutine records when the thread is done. *)

\* Mutants: the whole listed record is written back, not two of its columns.
RecordAppliedWholeRow ==
    /\ pc \in ApplyDone
    /\ demos' = [demos EXCEPT ![cur] =
                   [queue[cur] EXCEPT !.state = IF pc = "recordReady" THEN "ready" ELSE "reconciling",
                                      !.port = config.port]]
    /\ NextRecord
    /\ UNCHANGED <<now, accepted, received, cluster, project, stopping, disturbances>>

\* Mutant: the port stays the one of the first deployment.
RecordAppliedKeepsPort ==
    /\ pc \in ApplyDone
    /\ UpdateState(cur, IF pc = "recordReady" THEN "ready" ELSE "reconciling",
                   IF demos[cur].port = None THEN config.port ELSE None)
    /\ NextRecord
    /\ UNCHANGED <<now, accepted, received, cluster, project, stopping, disturbances>>

RecordApplied ==
    /\ pc \in ApplyDone
    /\ UpdateState(cur, IF pc = "recordReady" THEN "ready" ELSE "reconciling", config.port)
    /\ NextRecord
    /\ UNCHANGED <<now, accepted, received, cluster, project, stopping, disturbances>>

RecordDeleted ==
    /\ pc = "deleteRecord"
    /\ DeleteRecord(cur)
    /\ NextRecord
    /\ UNCHANGED <<now, accepted, received, cluster, project, stopping, disturbances>>

\* Mutant: one demo's failure ends the pass.
RecordFailedEndsPass ==
    /\ pc = "failing"
    /\ UpdateState(cur, "failed", None)
    /\ Lose("idle")
    /\ UNCHANGED <<now, accepted, received, cluster, project, stopping, disturbances>>

RecordFailed ==
    /\ pc = "failing"
    /\ UpdateState(cur, "failed", None)
    /\ NextRecord
    /\ UNCHANGED <<now, accepted, received, cluster, project, stopping, disturbances>>

\* SQLite raises.  The listing, the first update of a record and the updates
\* of the handlers are outside every try: the exception ends the task for good.
\* The other writes are inside one, and the handler writes "failed".
StoreFails ==
    /\ StoreFaults
    /\ Disturb
    /\ \/ /\ \/ pc = "idle" /\ ~stopping
             \/ pc = "next" /\ queue # NoQueue
             \/ pc \in ApplyDone \cup {"deleteRecord", "failing"}
          /\ Lose("dead")
          /\ UNCHANGED demos
       \/ /\ pc \in ApplyDone \cup {"deleteRecord"}
          /\ UpdateState(cur, "failed", None)
          /\ NextRecord
    /\ UNCHANGED <<now, accepted, received, cluster, project, stopping>>

-----------------------------------------------------------------------------
(* The process. *)

Start ==
    /\ pc = "stopped"
    /\ pc' = "idle"
    /\ UNCHANGED <<storeVars, cluster, project, queue, cur, config, stopping, disturbances>>

\* The lifespan's shutdown: stop(), then the wait for the loop's task, which
\* is already over when the task had died.
Stop ==
    /\ pc \notin {"next", "stopped"}
    /\ ~stopping
    /\ Disturb
    /\ IF pc = "dead"
       THEN pc' = "stopped" /\ UNCHANGED stopping
       ELSE stopping' = TRUE /\ UNCHANGED pc
    /\ UNCHANGED <<storeVars, cluster, project, queue, cur, config>>

Crash ==
    /\ pc # "stopped"
    /\ Disturb
    /\ Lose("stopped")
    /\ stopping' = FALSE
    /\ UNCHANGED <<storeVars, cluster, project>>

-----------------------------------------------------------------------------
(* The world around the controller. *)

BecomesAvailable(d) ==
    /\ cluster[d].deployment # None
    /\ ~cluster[d].available
    /\ cluster' = [cluster EXCEPT ![d].available = TRUE]
    /\ UNCHANGED <<storeVars, project, loopVars, disturbances>>

LosesAvailability(d) ==
    /\ cluster[d].available
    /\ Disturb
    /\ cluster' = [cluster EXCEPT ![d].available = FALSE]
    /\ UNCHANGED <<storeVars, project, loopVars>>

EditProject ==
    /\ Disturb
    /\ project' \in Project \ {project}
    /\ UNCHANGED <<storeVars, cluster, loopVars>>

TimePasses ==
    /\ Tick
    /\ UNCHANGED <<cluster, project, loopVars, disturbances>>

-----------------------------------------------------------------------------
(* What the loop does when nothing goes wrong: the steps that get fairness. *)
LoopStep ==
    \/ StartPass
    \/ \E d \in Demo : BeginDelete(d) \/ BeginReconcile(d)
    \/ EndPass
    \/ Exit
    \/ VaultAnswers
    \/ VaultRefuses
    \/ KubernetesCall
    \/ ReadStatus
    \/ RecordApplied
    \/ RecordDeleted
    \/ RecordFailed
    \/ Start

\* Faults and what the environment may do, and need not.
Disturbance ==
    \/ VaultFails
    \/ KubernetesFails
    \/ StoreFails
    \/ Stop
    \/ Crash
    \/ \E d \in Demo : LosesAvailability(d)
    \/ EditProject

Next ==
    \/ \E q \in Delivery : Deploy(q) \/ Destroy(q)
    \/ LoopStep
    \/ Disturbance
    \/ \E d \in Demo : BecomesAvailable(d)
    \/ TimePasses

Spec == Init /\ [][Next]_vars

Fairness == WF_vars(LoopStep) /\ \A d \in Demo : WF_vars(BecomesAvailable(d))

FairSpec == Spec /\ Fairness
=============================================================================
