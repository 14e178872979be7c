---------------------------- MODULE DemoProperties ----------------------------
(***************************************************************************)
(* What the demo controller promises.  The first two groups hold of the    *)
(* code; the last group states what the repository's documents say and the *)
(* code does not do: each is checked by a run that finds it violated.      *)
(***************************************************************************)
EXTENDS DemoController

-----------------------------------------------------------------------------
(* Safety. *)

\* Nothing is left in the cluster for a demo the table has forgotten: the row,
\* the only thing that makes the loop delete objects, outlives the objects
\* through every fault and crash (reconciler.py: delete, then delete_record).
NoOrphans == \A d \in Demo : cluster[d] # Nothing => Exists(d)

\* A Deployment never refers to a ConfigMap or a Secret that does not exist
\* and never lacks its Service, also while a change of configuration or a
\* deletion is half done (kubernetes.py: the order of all(), of the pruning
\* and of delete()).
RefsResolve ==
    \A d \in Demo :
        LET o == cluster[d] IN
        o.deployment # None =>
            /\ o.service # None
            /\ o.deployment.env => o.configMap
            /\ o.deployment.secret => o.secret

\* When the loop is about to record an outcome the cluster agrees with it: the
\* objects are those rendered for the record and the configuration it started
\* with, no more and no less; before the row is deleted nothing is left.
OutcomeIsTrue ==
    /\ pc \in ApplyDone =>
         LET o == cluster[cur] IN
         /\ o.deployment = Rendered(queue[cur], config)
         /\ o.service = config.port
         /\ o.configMap = config.env
         /\ o.secret = config.secret
    /\ pc = "deleteRecord" => cluster[cur] = Nothing

\* The loop works on records listed earlier, but never undoes a request with
\* them: a row goes back to no older request, and neither does a Deployment.
KeepsNewest(d) ==
    /\ Exists(d) /\ Exists(d)' => demos[d].rev <= demos'[d].rev
    /\ cluster[d].deployment # None /\ cluster'[d].deployment # None =>
         cluster[d].deployment.rev <= cluster'[d].deployment.rev

NoRollback == [][\A d \in Demo : KeepsNewest(d)]_vars

\* The Deployment of a row's own request is not deleted while that request is
\* desired and has not expired, however stale the record is that the loop
\* works on.
SparesTheLive(d) ==
    cluster[d].deployment # None /\ cluster'[d].deployment = None /\ Exists(d) =>
        Withdrawn(demos[d], now) \/ cluster[d].deployment.rev < demos[d].rev

NoLiveTeardown == [][\A d \in Demo : SparesTheLive(d)]_vars

\* A demo reported ready is served: it has a Deployment, and its row has the
\* port its Service listens on and is routed unless it is withdrawn.  The row's state and port, written by
\* the loop, and the objects, changed stage by stage, agree whenever the state
\* says so, although requests change the row in between.
ReadyIsServed ==
    \A d \in Demo :
        Exists(d) /\ demos[d].state = "ready" =>
            /\ cluster[d].deployment # None
            /\ cluster[d].service = demos[d].port
            /\ demos[d].present => Routable(d)

-----------------------------------------------------------------------------
(* The inductive invariant behind the safety properties. *)

\* While the coroutine is inside reconcile() it has a record, and a
\* configuration from Vault's answer on; a record under deletion was withdrawn
\* when it was listed and stays so.
LoopShape ==
    /\ pc \in Busy => cur \in Demo /\ queue[cur] # NoRow
    /\ pc \in ApplyStage \cup ApplyDone => config \in Project
    /\ pc \in DeleteStage \cup {"deleteRecord"} => Withdrawn(queue[cur], now)

\* Only the loop deletes rows, and it lists every row anew in each pass.
ListedRowsExist == \A d \in Demo : queue[d] # NoRow => Exists(d)

AvailableIsDeployed ==
    \A d \in Demo : cluster[d].available => cluster[d].deployment # None

\* What the calls of apply() and of delete() have established so far.
ApplyProgress ==
    LET o == cluster[cur] IN
    /\ pc \in {"applySecret", "applyService", "applyDeployment"} /\ config.env =>
         o.configMap
    /\ pc \in {"applyService", "applyDeployment"} /\ config.secret => o.secret
    /\ pc = "applyDeployment" => o.service = config.port
    /\ pc \in {"pruneConfigMap", "pruneSecret", "readStatus"} \cup ApplyDone =>
         /\ o.deployment = Rendered(queue[cur], config)
         /\ o.service = config.port
         /\ config.env => o.configMap
         /\ config.secret => o.secret
    /\ pc \in {"pruneSecret", "readStatus"} \cup ApplyDone => o.configMap = config.env
    /\ pc \in {"readStatus"} \cup ApplyDone => o.secret = config.secret

DeleteProgress ==
    LET o == cluster[cur] IN
    /\ pc \in (DeleteStage \ {"deleteDeployment"}) \cup {"deleteRecord"} => o.deployment = None
    /\ pc \in {"deleteConfigMap", "deleteSecret", "deleteRecord"} => o.service = None
    /\ pc \in {"deleteSecret", "deleteRecord"} => ~o.configMap
    /\ pc = "deleteRecord" => ~o.secret

\* A Deployment is at most as recent as the record listed in this pass, a
\* listed record at most as recent as its row, and two versions of a row with
\* the same request agree on what it asks for.
RevOrder ==
    \A d \in Demo :
        /\ Exists(d) => demos[d].rev <= accepted
        /\ queue[d] # NoRow /\ Exists(d) =>
             /\ queue[d].rev <= demos[d].rev
             /\ queue[d].rev = demos[d].rev =>
                  /\ queue[d].present = demos[d].present
                  /\ queue[d].expires = demos[d].expires
        /\ cluster[d].deployment # None =>
             /\ Exists(d) => cluster[d].deployment.rev <= demos[d].rev
             /\ queue[d] # NoRow => cluster[d].deployment.rev <= queue[d].rev

Inv ==
    /\ LoopShape
    /\ ListedRowsExist
    /\ AvailableIsDeployed
    /\ NoOrphans
    /\ RefsResolve
    /\ ApplyProgress
    /\ DeleteProgress
    /\ RevOrder

\* What ReadyIsServed and the refinement need besides Inv: a demo is not
\* reported ready while the loop works on it, and apply() works for a request
\* that was desired.
WorkIsNotReady ==
    /\ pc \in Busy /\ Exists(cur) => demos[cur].state # "ready"
    /\ pc \in {"vault"} \cup ApplyStage \cup ApplyDone => queue[cur].present
ReadyInv == ReadyIsServed /\ WorkIsNotReady

-----------------------------------------------------------------------------
(* Liveness, under FairSpec and with faults that stop. *)

\* The cluster is what the row's request and the configuration ask for.  An
\* image the project does not admit is asked for in vain.
Agrees(d) ==
    IF Exists(d)
    THEN /\ ~Withdrawn(demos[d], now)
         /\ demos[d].image \in project.images =>
              /\ demos[d].port = project.port
              /\ cluster[d] = [deployment |-> Rendered(demos[d], project),
                               service    |-> project.port,
                               configMap  |-> project.env,
                               secret     |-> project.secret,
                               available  |-> TRUE]
    ELSE cluster[d] = Nothing

\* ... and the client is told so.
Reported(d) ==
    Exists(d) => demos[d].state = IF demos[d].image \in project.images
                                  THEN "ready" ELSE "failed"

\* However requests, faults, restarts and configuration edits interleaved, the
\* cluster ends up agreeing with the last request and the last configuration,
\* and the status, which every pass rewrites, says so again and again.
Convergence == /\ <>[](\A d \in Demo : Agrees(d))
               /\ \A d \in Demo : []<>Reported(d)

\* A withdrawn demo is deleted, unless it is deployed again first.
WithdrawalCompletes ==
    \A d \in Demo :
        (Exists(d) /\ Withdrawn(demos[d], now))
            ~> \/ cluster[d] = Nothing /\ demos[d] = NoRow
               \/ Exists(d) /\ ~Withdrawn(demos[d], now)

\* A shutdown that has begun ends: the pass in progress is finished first.
StopCompletes == stopping ~> pc = "stopped"

-----------------------------------------------------------------------------
(* Statements of the documents that the code does not keep. *)

\* "Each accepted deployment expires exactly three days after the request
\* unless pull-request cleanup deletes it first" (docs/configuration.md): a row
\* is removed only when it is withdrawn.
AcceptedDeploymentKept ==
    [][\A d \in Demo : Exists(d) /\ ~Exists(d)' => Withdrawn(demos[d], now)]_vars

\* "Expired records are treated as desired absent" (docs/architecture.md): once
\* the loop has begun to delete an expired demo the proxy does not route it
\* again unless it is deployed again.
ExpiredStaysUnrouted ==
    [][\A d \in Demo :
         /\ Exists(d) /\ Exists(d)'
         /\ Withdrawn(demos[d], now)
         /\ demos[d].state = "deleting"
         /\ demos[d].rev = demos'[d].rev
         => ~Routable(d)']_vars

\* "`ready`: Deployment reports available replicas" (docs/operations.md): a row
\* that says "ready" has the Deployment of its own image.
ReadyIsDeployed ==
    \A d \in Demo :
        Exists(d) /\ demos[d].state = "ready" =>
        /\ cluster[d].deployment # None
        /\ cluster[d].deployment.image = demos[d].image

\* "Persist enough successful route metadata to keep a previous deployment
\* available when an update fails" (docs/adr/0006): between passes a routed
\* demo's port is the one its Service listens on.
RouteReachesService ==
    \A d \in Demo :
        pc = "idle" /\ Routable(d) => cluster[d].service = demos[d].port

\* "Delivery retries are idempotent" (docs/adr/0004): a row's request changes
\* only to a delivery that was not accepted before.
RetriesAreIdempotent ==
    [][\A d \in Demo :
         Exists(d)' /\ (Exists(d) => demos[d].delivery # demos'[d].delivery)
             => demos'[d].delivery \notin received]_vars
=============================================================================
