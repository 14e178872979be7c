------------------------- MODULE DemoRefinementProofs -------------------------
(***************************************************************************)
(* The controller implements DemoLifecycle, and a demo it reports ready is *)
(* served: for every set of demos, deliveries and configurations and for   *)
(* every bound.                                                            *)
(***************************************************************************)
EXTENDS DemoRefinement, DemoControllerProofs

USE DEF KubernetesStage, ApplyDone

-----------------------------------------------------------------------------
(* The rows that say "ready". *)

\* An update by key changes one row only, and its state to the one given.
LEMMA UpdatedRow ==
    ASSUME StoreTypeOK,
           NEW d \in Demo, NEW state \in DemoState, NEW port \in Port \cup {None},
           Exists(d), UpdateState(d, state, port)
    PROVE  /\ demos'[d].state = state
           /\ demos'[d].port = IF port = None THEN demos[d].port ELSE port
           /\ \A e \in Demo \ {d} : demos'[e] = demos[e]
<1>1. demos[d] \in Row
  BY DEF StoreTypeOK, Exists
<1> QED
  BY <1>1 DEF UpdateState, StoreTypeOK, Row

\* A row says "ready" only if it said so before or the loop has just found the
\* Deployment available.
LEMMA ReadyRows ==
    ASSUME TypeOK, Inv, [Next]_vars, NEW d \in Demo,
           demos'[d] # NoRow, demos'[d].state = "ready"
    PROVE  \/ demos'[d] = demos[d]
           \/ /\ pc = "recordReady" /\ d = cur
              /\ demos'[d].port = config.port
              /\ cluster' = cluster
              /\ queue'[d] = NoRow
<1> USE DEF Inv
<1>1. CASE \E q \in Delivery : Deploy(q) \/ Destroy(q)
  <2>1. PICK q \in Delivery : Deploy(q) \/ Destroy(q)
    BY <1>1
  <2>2. q.demo \in Demo /\ \A e \in Demo \ {q.demo} : demos'[e] = demos[e]
    BY <2>1, RequestFacts
  <2>3. demos'[q.demo].state \in {"pending", "deleting"}
    BY <2>1, <2>2 DEF Deploy, Destroy, UpsertDeploy, RequestDestroy, TypeOK, StoreTypeOK
  <2> QED
    BY <2>2, <2>3
<1>2. CASE \E e \in Demo : BeginDelete(e) \/ BeginReconcile(e)
  <2>1. PICK e \in Demo : BeginDelete(e) \/ BeginReconcile(e)
    BY <1>2
  <2>2. Exists(e)
    BY <2>1 DEF BeginDelete, BeginReconcile, ListedRowsExist
  <2>3. PICK state \in {"deleting", "reconciling"} : UpdateState(e, state, None)
    BY <2>1 DEF BeginDelete, BeginReconcile
  <2>4. state \in DemoState
    BY <2>3 DEF DemoState
  <2>5. demos'[e].state = state /\ \A f \in Demo \ {e} : demos'[f] = demos[f]
    BY <2>2, <2>3, <2>4, UpdatedRow DEF TypeOK
  <2> QED
    BY <2>3, <2>5
<1>3. CASE RecordApplied
  <2>0. cur \in Demo /\ Exists(cur) /\ config \in Project
    BY <1>3 DEF RecordApplied, LoopShape, ListedRowsExist, Busy
  <2>1. config.port \in Port /\ config.port # None
    BY <2>0, ProjectAssumption, NullAssumption DEF ProjectConfig
  <2> DEFINE state == IF pc = "recordReady" THEN "ready" ELSE "reconciling"
  <2>2. UpdateState(cur, state, config.port) /\ cluster' = cluster
    BY <1>3 DEF RecordApplied
  <2>3. state \in DemoState
    BY DEF DemoState
  <2>4. /\ demos'[cur].state = state /\ demos'[cur].port = config.port
        /\ \A e \in Demo \ {cur} : demos'[e] = demos[e]
    BY <2>0, <2>1, <2>2, <2>3, UpdatedRow DEF TypeOK
  <2>5. queue'[cur] = NoRow
    BY <1>3, <2>0 DEF RecordApplied, NextRecord, TypeOK
  <2> QED
    BY <1>3, <2>0, <2>2, <2>4, <2>5 DEF RecordApplied
<1>4. CASE UpdateState(cur, "failed", None) /\ pc \in Busy
  <2>1. cur \in Demo /\ Exists(cur)
    BY <1>4 DEF LoopShape, ListedRowsExist
  <2>2. demos'[cur].state = "failed" /\ \A e \in Demo \ {cur} : demos'[e] = demos[e]
    BY <1>4, <2>1, UpdatedRow DEF TypeOK, DemoState
  <2> QED
    BY <2>2
<1>5. CASE RecordDeleted
  BY <1>5 DEF RecordDeleted, DeleteRecord, TypeOK, StoreTypeOK
<1>6. CASE UNCHANGED demos
  BY <1>6
<1>7. \/ \E q \in Delivery : Deploy(q) \/ Destroy(q)
      \/ \E e \in Demo : BeginDelete(e) \/ BeginReconcile(e)
      \/ RecordApplied
      \/ UpdateState(cur, "failed", None) /\ pc \in Busy
      \/ RecordDeleted
      \/ UNCHANGED demos
  BY DEF Next, LoopStep, Disturbance, StartPass, EndPass, Exit, VaultAnswers, VaultRefuses,
     KubernetesCall, ReadStatus, Start, VaultFails, KubernetesFails, Stop, Crash,
     LosesAvailability, BecomesAvailable, EditProject, TimePasses, Tick, vars, storeVars,
     RecordFailed, StoreFails, Busy
<1> QED
  BY <1>1, <1>2, <1>3, <1>4, <1>5, <1>6, <1>7

\* How the coroutine comes to be at work on a record.
LEMMA WorkMoves ==
    ASSUME TypeOK, LoopShape, [Next]_vars, pc' \in Busy
    PROVE  \/ \E d \in Demo : BeginDelete(d)
           \/ \E d \in Demo : BeginReconcile(d)
           \/ /\ pc \in Busy /\ queue' = queue /\ cur' = cur
              /\ pc' \in {"vault"} \cup ApplyStage \cup ApplyDone =>
                     pc \in {"vault"} \cup ApplyStage \cup ApplyDone
              /\ demos' = demos \/ \E q \in Delivery : Deploy(q) \/ Destroy(q)
<1> USE DEF Busy, ApplyStage, DeleteStage
<1>1. ASSUME NEW q \in Delivery, Deploy(q) \/ Destroy(q)
      PROVE  pc' = pc /\ queue' = queue /\ cur' = cur
  BY <1>1, RequestFacts
<1>2. ASSUME pc \in KubernetesStage, UNCHANGED <<demos, queue, cur>>,
             pc' = "failing" \/ (pc # "readStatus" /\ pc' = After[pc])
      PROVE  /\ pc' \in {"vault"} \cup ApplyStage \cup ApplyDone =>
                    pc \in {"vault"} \cup ApplyStage \cup ApplyDone
             /\ pc \in Busy
  BY <1>2 DEF After
<1>3. ASSUME \/ NextRecord
             \/ \E location \in {"dead", "stopped"} : Lose(location)
             \/ StartPass \/ EndPass \/ Exit \/ Start
      PROVE  FALSE
  BY <1>3 DEF NextRecord, Lose, StartPass, EndPass, Exit, Start
<1>4. ASSUME \/ VaultAnswers \/ VaultRefuses \/ VaultFails \/ ReadStatus
             \/ EditProject \/ TimePasses \/ UNCHANGED vars
             \/ \E d \in Demo : LosesAvailability(d) \/ BecomesAvailable(d)
      PROVE  /\ pc \in Busy /\ queue' = queue /\ cur' = cur /\ demos' = demos
             /\ pc' \in {"vault"} \cup ApplyStage \cup ApplyDone =>
                    pc \in {"vault"} \cup ApplyStage \cup ApplyDone
  BY <1>4 DEF VaultAnswers, VaultRefuses, VaultFails, ReadStatus, EditProject, TimePasses,
     Tick, LosesAvailability, BecomesAvailable, vars, storeVars, loopVars
<1>5. ASSUME Stop
      PROVE  /\ pc \in Busy /\ queue' = queue /\ cur' = cur /\ demos' = demos
             /\ pc' = pc
  BY <1>5 DEF Stop, storeVars
<1>6. ASSUME RecordApplied \/ RecordDeleted \/ RecordFailed \/ StoreFails \/ Crash
      PROVE  FALSE
  BY <1>3, <1>6 DEF RecordApplied, RecordDeleted, RecordFailed, StoreFails, Crash
<1>7. ASSUME KubernetesCall \/ KubernetesFails
      PROVE  /\ pc \in Busy /\ queue' = queue /\ cur' = cur /\ demos' = demos
             /\ pc' \in {"vault"} \cup ApplyStage \cup ApplyDone =>
                    pc \in {"vault"} \cup ApplyStage \cup ApplyDone
  BY <1>2, <1>7 DEF KubernetesCall, KubernetesFails, storeVars
<1> QED
  BY <1>1, <1>3, <1>4, <1>5, <1>6, <1>7 DEF Next, LoopStep, Disturbance

\* The loop does not work on a demo that is reported ready.
LEMMA WorkStep ==
    ASSUME TypeOK, Inv, WorkIsNotReady, [Next]_vars
    PROVE  WorkIsNotReady'
<1> SUFFICES ASSUME pc' \in Busy
             PROVE  /\ demos'[cur'] # NoRow => demos'[cur'].state # "ready"
                    /\ pc' \in {"vault"} \cup ApplyStage \cup ApplyDone => queue'[cur'].present
  BY DEF WorkIsNotReady, Busy, Exists
<1> USE DEF Inv
<1>1. ASSUME NEW d \in Demo, BeginDelete(d) \/ BeginReconcile(d)
      PROVE  /\ demos'[cur'].state # "ready"
             /\ cur' = d /\ queue' = queue /\ queue[d] # NoRow
  <2>1. Exists(d) /\ cur' = d /\ queue' = queue /\ queue[d] # NoRow
    BY <1>1 DEF BeginDelete, BeginReconcile, ListedRowsExist
  <2>2. PICK state \in {"deleting", "reconciling"} : UpdateState(d, state, None)
    BY <1>1 DEF BeginDelete, BeginReconcile
  <2>3. demos'[d].state = state
    BY <2>1, <2>2, UpdatedRow DEF TypeOK, DemoState
  <2> QED
    BY <2>1, <2>2, <2>3
<1>2. ASSUME NEW d \in Demo, BeginDelete(d)
      PROVE  pc' = "deleteDeployment"
  BY <1>2 DEF BeginDelete
<1>3. ASSUME NEW d \in Demo, BeginReconcile(d)
      PROVE  queue[d].present
  BY <1>3 DEF BeginReconcile, Withdrawn, TypeOK, Row
<1>4. ASSUME NEW q \in Delivery, Deploy(q) \/ Destroy(q), pc \in Busy, cur' = cur
      PROVE  demos'[cur] # NoRow => demos'[cur].state # "ready"
  <2>1. q.demo \in Demo /\ \A e \in Demo \ {q.demo} : demos'[e] = demos[e]
    BY <1>4, RequestFacts
  <2>2. demos'[q.demo].state \in {"pending", "deleting"}
    BY <1>4, <2>1 DEF Deploy, Destroy, UpsertDeploy, RequestDestroy, TypeOK, StoreTypeOK
  <2>3. cur \in Demo
    BY <1>4 DEF LoopShape
  <2> QED
    BY <1>4, <2>1, <2>2, <2>3 DEF WorkIsNotReady, Exists
<1> QED
  BY <1>1, <1>2, <1>3, <1>4, WorkMoves
  DEF WorkIsNotReady, Exists, ApplyStage, DeleteStage

\* A call for one demo leaves the others alone, and nothing else changes a
\* Service or takes a Deployment away.
LEMMA OthersUntouched ==
    ASSUME TypeOK, LoopShape, [Next]_vars, NEW d \in Demo, pc \in Busy => d # cur,
           cluster[d].deployment # None
    PROVE  cluster'[d].deployment # None /\ cluster'[d].service = cluster[d].service
<1>1. CASE pc \in KubernetesStage \ {"readStatus"} /\ cluster' = Called(pc)
  BY <1>1, CalledFacts DEF Busy
<1>2. ASSUME NEW e \in Demo, NEW b \in BOOLEAN, cluster' = [cluster EXCEPT ![e].available = b]
      PROVE  cluster'[d].deployment = cluster[d].deployment /\ cluster'[d].service = cluster[d].service
  BY <1>2 DEF TypeOK, DemoObjects
<1> QED
  BY <1>1, <1>2, ClusterChanges

LEMMA ServedStep ==
    ASSUME TypeOK, Inv, Inv', ReadyInv, [Next]_vars
    PROVE  ReadyIsServed'
<1> SUFFICES ASSUME NEW d \in Demo, demos'[d] # NoRow, demos'[d].state = "ready"
             PROVE  /\ cluster'[d].deployment # None
                    /\ cluster'[d].service = demos'[d].port
                    /\ demos'[d].present => Routable(d)'
  BY DEF ReadyIsServed, Exists
<1>1. CASE pc = "recordReady" /\ d = cur /\ demos'[d].port = config.port /\ cluster' = cluster
  <2>1. /\ cluster[d].deployment = Rendered(queue[cur], config)
        /\ cluster[d].service = config.port
    BY <1>1 DEF Inv, ApplyProgress
  <2>2. queue[cur] \in Row /\ config \in Project
    BY <1>1 DEF Inv, LoopShape, Busy, TypeOK
  <2> QED
    BY <1>1, <2>1, <2>2, RenderedFacts DEF Routable, Exists, DemoState
<1>2. CASE demos'[d] = demos[d]
  <2>1. /\ cluster[d].deployment # None /\ cluster[d].service = demos[d].port
        /\ demos[d].present => demos[d].port # None
    BY <1>2 DEF ReadyInv, ReadyIsServed, Exists, Routable
  <2>2. pc \in Busy => d # cur
    BY <1>2 DEF ReadyInv, WorkIsNotReady, Exists
  <2>3. cluster'[d].deployment # None /\ cluster'[d].service = cluster[d].service
    BY <2>1, <2>2, OthersUntouched DEF Inv
  <2> QED
    BY <1>2, <2>1, <2>3 DEF Routable, Exists, DemoState
<1> QED
  BY <1>1, <1>2, ReadyRows

\* The strengthened invariant: what is reported ready is served, and is not
\* being worked on.
THEOREM ReadyInvariance == Spec => []ReadyInv
<1>1. Init => ReadyInv
  BY DEF Init, StoreInit, ReadyInv, ReadyIsServed, WorkIsNotReady, Exists, Busy, ApplyStage,
     DeleteStage
<1>2. TypeOK /\ Inv /\ Inv' /\ ReadyInv /\ [Next]_vars => ReadyInv'
  BY ServedStep, WorkStep DEF ReadyInv
<1> QED
  BY <1>1, <1>2, Invariance, PTL DEF Spec

\* A demo that is reported ready has its Deployment and the port of its
\* Service, and is routed unless it is withdrawn.
THEOREM ReadyIsServedHolds == Spec => []ReadyIsServed
<1>1. ReadyInv => ReadyIsServed
  BY DEF ReadyInv
<1> QED
  BY <1>1, ReadyInvariance, PTL

-----------------------------------------------------------------------------
(* The refinement. *)

\* A row's wish is a record, so it is None only where there is no row.
LEMMA WishFacts ==
    ASSUME NEW row \in Row \cup {NoRow}
    PROVE  /\ row = NoRow => Wish(row) = None
           /\ row # NoRow => /\ Wish(row) # None
                             /\ Wish(row).rev = row.rev
                             /\ Wish(row).image = row.image
                             /\ Wish(row).present = row.present
                             /\ Wish(row).expires = row.expires
<1>1. CASE row # NoRow
  <2>1. Wish(row) = [rev |-> row.rev, image |-> row.image, present |-> row.present,
                     expires |-> row.expires]
    BY <1>1 DEF Wish
  <2>2. Wish(row) \in [rev : Int, image : Image \cup {None}, present : BOOLEAN, expires : Int]
    BY <1>1, <2>1 DEF Row
  <2> QED
    BY <1>1, <2>1, <2>2, WishAssumption
<1> QED
  BY <1>1 DEF Wish

\* The part of the cluster that the mapping reads does not change with the
\* availability of a Deployment.
LEMMA ClusterView ==
    ASSUME TypeOK, AvailableIsDeployed, NEW d \in Demo, NEW b \in BOOLEAN,
           cluster[d].deployment # None, cluster' = [cluster EXCEPT ![d].available = b]
    PROVE  UNCHANGED <<Running, Left>>
<1>1. \A e \in Demo : cluster'[e].deployment = cluster[e].deployment
  BY DEF TypeOK, DemoObjects
<1>2. \A e \in Demo : (cluster'[e] # Nothing) = (cluster[e] # Nothing)
  <2>1. cluster[d] # Nothing /\ cluster'[d] # Nothing
    BY <1>1 DEF Nothing
  <2>2. \A e \in Demo \ {d} : cluster'[e] = cluster[e]
    BY DEF TypeOK
  <2> QED
    BY <2>1, <2>2
<1> QED
  BY <1>1, <1>2 DEF Running, Left

\* A request is one of the abstract requests.
LEMMA RequestRefines ==
    ASSUME TypeOK, NEW q \in Delivery, Deploy(q) \/ Destroy(q)
    PROVE  \E d \in Demo : Lifecycle!AskDeployed(d) \/ Lifecycle!AskGone(d)
<1> DEFINE d == q.demo
<1>1. /\ d \in Demo /\ demos'[d] # NoRow /\ demos'[d].rev = accepted + 1
      /\ accepted' = accepted + 1
      /\ \A e \in Demo \ {d} : demos'[e] = demos[e]
      /\ UNCHANGED <<now, cluster, queue>>
  BY RequestFacts
<1>2. UNCHANGED <<Seen, Running, Left, now>>
  BY <1>1 DEF Seen, Running, Left
<1>3. demos'[d].state # "ready"
  BY <1>1 DEF Deploy, Destroy, UpsertDeploy, RequestDestroy, TypeOK, StoreTypeOK
<1>4. Ready' = [Ready EXCEPT ![d] = FALSE]
  BY <1>1, <1>3 DEF Ready, Exists
<1>5. Wanted' = [Wanted EXCEPT ![d] = Wish(demos'[d])]
  BY <1>1 DEF Wanted
<1>6. CASE Deploy(q)
  <2>1. q.image \in Image
    BY <1>6, RequestAssumption DEF Deploy
  <2>2. /\ demos'[d].image = q.image /\ demos'[d].present = TRUE
        /\ demos'[d].expires = now + Lifetime
    BY <1>1, <1>6 DEF Deploy, UpsertDeploy, TypeOK, StoreTypeOK
  <2>3. Wish(demos'[d]) = [rev |-> accepted + 1, image |-> q.image, present |-> TRUE,
                           expires |-> now + Lifetime]
    BY <1>1, <2>2 DEF Wish
  <2> QED
    BY <1>1, <1>2, <1>4, <1>5, <2>1, <2>3 DEF Lifecycle!AskDeployed, Lifecycle!Ask
<1>7. CASE Destroy(q)
  <2>1. /\ demos'[d].present = FALSE
        /\ demos'[d].image = IF Exists(d) THEN demos[d].image ELSE None
        /\ demos'[d].expires = IF Exists(d) THEN demos[d].expires ELSE now
    BY <1>1, <1>7 DEF Destroy, RequestDestroy, TypeOK, StoreTypeOK
  <2>2. Wish(demos'[d]) = [rev |-> accepted + 1, image |-> demos'[d].image, present |-> FALSE,
                           expires |-> demos'[d].expires]
    BY <1>1, <2>1 DEF Wish
  <2>3. /\ ~Exists(d) => Wanted[d] = None
        /\ Exists(d) => /\ Wanted[d] # None
                        /\ Wanted[d].image = demos[d].image
                        /\ Wanted[d].expires = demos[d].expires
    BY <1>1, WishFacts DEF Wanted, Exists, TypeOK, StoreTypeOK
  <2>4. Lifecycle!AskGone(d)
    BY <1>1, <1>2, <1>4, <1>5, <2>1, <2>2, <2>3 DEF Lifecycle!AskGone, Lifecycle!Ask
  <2> QED
    BY <1>1, <2>4
<1> QED
  BY <1>6, <1>7

\* Listing the rows is a look at all that is wanted.
LEMMA StartPassRefines ==
    ASSUME TypeOK, StartPass
    PROVE  Lifecycle!Look
<1>1. ListReconcilable = demos
  BY DEF ListReconcilable, Exists, TypeOK, StoreTypeOK, Row
<1> QED
  BY <1>1 DEF StartPass, storeVars, Lifecycle!Look, Wanted, Seen, Running, Left, Ready, Exists

\* What the loop writes into a row leaves what is wanted alone.
LEMMA WriteView ==
    ASSUME StoreTypeOK, NEW d \in Demo, NEW state \in DemoState, NEW port \in Port \cup {None},
           Exists(d), UpdateState(d, state, port)
    PROVE  Wanted' = Wanted /\ Ready' = [Ready EXCEPT ![d] = (state = "ready")]
<1>1. /\ demos'[d].state = state
      /\ \A e \in Demo \ {d} : demos'[e] = demos[e]
  BY UpdatedRow
<1>2. \A e \in Demo : Wish(demos'[e]) = Wish(demos[e])
  BY UpdateStateFacts DEF Wish, Exists
<1>3. demos'[d] # NoRow
  BY UpdateStateFacts
<1> QED
  BY <1>1, <1>2, <1>3 DEF Wanted, Ready, Exists

\* To begin with a record is to retract that its demo is ready.
LEMMA BeginRefines ==
    ASSUME TypeOK, ListedRowsExist, NEW d \in Demo, BeginDelete(d) \/ BeginReconcile(d)
    PROVE  Lifecycle!Retract(d)
<1>1. Exists(d) /\ UNCHANGED <<now, accepted, cluster, queue>>
  BY DEF BeginDelete, BeginReconcile, ListedRowsExist
<1>2. PICK state \in {"deleting", "reconciling"} : UpdateState(d, state, None)
  BY DEF BeginDelete, BeginReconcile
<1>3. Wanted' = Wanted /\ Ready' = [Ready EXCEPT ![d] = (state = "ready")]
  BY <1>1, <1>2, WriteView DEF TypeOK, DemoState
<1>4. (state = "ready") = FALSE
  BY <1>2
<1> QED
  BY <1>1, <1>3, <1>4 DEF Lifecycle!Retract, Seen, Running, Left

\* The objects of the record at work, after a call.
LEMMA CallView ==
    ASSUME TypeOK, Inv, pc \in KubernetesStage \ {"readStatus"}, cluster' = Called(pc)
    PROVE  /\ Running' = [Running EXCEPT ![cur] = Stands(Called(pc)[cur].deployment)]
           /\ Left' = [Left EXCEPT ![cur] = (Called(pc)[cur] # Nothing)]
<1>1. cur \in Demo /\ \A d \in Demo \ {cur} : cluster'[d] = cluster[d]
  BY CalledFacts DEF Inv
<1> QED
  BY <1>1 DEF Running, Left

\* A call of apply() puts objects of a demo that was desired.
LEMMA ApplyRefines ==
    ASSUME TypeOK, Inv, WorkIsNotReady, pc \in ApplyStage \ {"readStatus"}, Calls(pc, config),
           cluster' = Called(pc), UNCHANGED <<storeVars, queue>>
    PROVE  Lifecycle!Put(cur)
<1> USE DEF Inv
<1>1. /\ cur \in Demo /\ queue[cur] \in Row /\ queue[cur] # NoRow /\ config \in Project
      /\ pc \in KubernetesStage \ {"readStatus"} /\ pc \notin DeleteStage
  BY NullAssumption, CalledFacts DEF LoopShape, Busy, ApplyStage, DeleteStage
<1>2. /\ Lifecycle!Sees(cur) /\ Seen[cur].present /\ ~Ready[cur]
      /\ Lifecycle!SeenWish(cur) = Stands(Rendered(queue[cur], config))
  <2>1. Seen[cur] = Wish(queue[cur])
    BY <1>1 DEF Seen
  <2>2. queue[cur].present /\ ~Ready[cur]
    BY <1>1 DEF WorkIsNotReady, Ready, Busy
  <2>3. Stands(Rendered(queue[cur], config)) = [rev |-> queue[cur].rev, image |-> queue[cur].image]
    BY <1>1, RenderedFacts DEF Stands, Rendered
  <2> QED
    BY <1>1, <2>1, <2>2, <2>3, WishFacts DEF Lifecycle!Sees, Lifecycle!SeenWish
<1>3. Called(pc)[cur] # Nothing
  <2>0. Nothing.configMap = FALSE /\ Nothing.secret = FALSE
    BY DEF Nothing
  <2>1. CASE pc = "applyConfigMap" \/ pc = "applySecret"
    <3>1. Called(pc)[cur].configMap = TRUE \/ Called(pc)[cur].secret = TRUE
      BY <1>1, <2>1, CalledFacts
    <3> QED
      BY <2>0, <3>1
  <2>2. CASE pc = "applyService"
    BY <1>1, <2>2, CalledFacts, RenderedFacts DEF Nothing
  <2>3. CASE pc \in {"applyDeployment", "pruneConfigMap", "pruneSecret"}
    <3>1. Called(pc)[cur].deployment = Rendered(queue[cur], config)
      BY <1>1, <2>3, CalledFacts DEF ApplyProgress
    <3> QED
      BY <1>1, <3>1, RenderedFacts DEF Nothing
  <2> QED
    BY <2>1, <2>2, <2>3 DEF ApplyStage
<1>4. \/ Called(pc)[cur].deployment = cluster[cur].deployment
      \/ Called(pc)[cur].deployment = Rendered(queue[cur], config)
  BY <1>1, CalledFacts DEF DeleteStage
<1>5. Running' \in {Running, [Running EXCEPT ![cur] = Lifecycle!SeenWish(cur)]}
  BY <1>1, <1>2, <1>4, CallView DEF Running
<1>6. Left' = [Left EXCEPT ![cur] = TRUE]
  BY <1>1, <1>3, CallView
<1>7. UNCHANGED <<Wanted, Seen, Ready, accepted, now>>
  BY DEF storeVars, Wanted, Seen, Ready, Exists
<1> QED
  BY <1>2, <1>5, <1>6, <1>7 DEF Lifecycle!Put

\* A call of delete() removes objects of a demo that was over.
LEMMA DeleteRefines ==
    ASSUME TypeOK, Inv, WorkIsNotReady, pc \in DeleteStage,
           cluster' = Called(pc), UNCHANGED <<storeVars, queue>>
    PROVE  Lifecycle!Remove(cur)
<1> USE DEF Inv
<1>1. /\ cur \in Demo /\ queue[cur] \in Row /\ queue[cur] # NoRow
      /\ pc \in KubernetesStage \ {"readStatus"}
  BY NullAssumption, CalledFacts DEF LoopShape, Busy, ApplyStage, DeleteStage
<1>2. Lifecycle!SeesOver(cur) /\ ~Ready[cur]
  <2>1. Seen[cur] = Wish(queue[cur])
    BY <1>1 DEF Seen
  <2>2. Withdrawn(queue[cur], now) /\ ~Ready[cur]
    BY <1>1 DEF LoopShape, WorkIsNotReady, Ready, Busy
  <2> QED
    BY <1>1, <2>1, <2>2, WishFacts DEF Lifecycle!Sees, Lifecycle!SeesOver, Withdrawn
<1>3. Called(pc)[cur].deployment = None
  BY <1>1, CalledFacts DEF DeleteStage, DeleteProgress
<1>4. cluster[cur] = Nothing => Called(pc)[cur] = Nothing
  <2> SUFFICES ASSUME cluster[cur] = Nothing PROVE Called(pc)[cur] = Nothing
    OBVIOUS
  <2> DEFINE o == Called(pc)[cur]
  <2>1. o \in DemoObjects
    BY <1>1, CalledFacts
  <2>2. /\ cluster[cur].service = None /\ cluster[cur].configMap = FALSE
        /\ cluster[cur].secret = FALSE /\ cluster[cur].available = FALSE
    BY DEF Nothing
  <2>3. o.service = None
    BY <1>1, <2>2, CalledFacts DEF DeleteStage
  <2>4. o.configMap = FALSE /\ o.secret = FALSE
    BY <1>1, <2>2, CalledFacts DEF DeleteStage
  <2>5. o.available = FALSE
    <3>1. o.available \in BOOLEAN /\ ~o.available
      BY <1>1, <2>1, <2>2, CalledFacts DEF DemoObjects
    <3> QED
      BY <3>1
  <2> QED
    BY <1>3, <2>1, <2>3, <2>4, <2>5 DEF DemoObjects, Nothing
<1>5. Running' = [Running EXCEPT ![cur] = None]
  BY <1>1, <1>3, CallView DEF Stands
<1>6. Left' \in {Left, [Left EXCEPT ![cur] = FALSE]}
  <2>1. Left' = [Left EXCEPT ![cur] = (Called(pc)[cur] # Nothing)]
    BY <1>1, CallView
  <2>2. CASE Called(pc)[cur] = Nothing
    BY <2>1, <2>2
  <2>3. CASE Called(pc)[cur] # Nothing
    <3>1. Left = [Left EXCEPT ![cur] = TRUE]
      BY <1>1, <1>4, <2>3 DEF Left
    <3> QED
      BY <2>1, <2>3, <3>1
  <2> QED
    BY <2>2, <2>3
<1>7. UNCHANGED <<Wanted, Seen, Ready, accepted, now>>
  BY DEF storeVars, Wanted, Seen, Ready, Exists
<1> QED
  BY <1>2, <1>5, <1>6, <1>7 DEF Lifecycle!Remove

\* To leave a record is to be done with one demo; to lose the coroutine, with all.
LEMMA NextRecordView ==
    ASSUME TypeOK, LoopShape, pc \in Busy, NextRecord
    PROVE  Seen' = [Seen EXCEPT ![cur] = None]
<1>1. cur \in Demo
  BY DEF LoopShape
<1> QED
  BY <1>1, NextRecordType DEF Seen, Wish

LEMMA NextRecordDrops ==
    ASSUME TypeOK, LoopShape, pc \in Busy, NextRecord,
           UNCHANGED <<Wanted, Running, Left, Ready, accepted, now>>
    PROVE  Lifecycle!Drop
<1>1. cur \in Demo /\ Seen' = [Seen EXCEPT ![cur] = None]
  BY NextRecordView DEF LoopShape
<1>2. Seen' = [d \in Demo |-> IF d \in {cur} THEN None ELSE Seen[d]]
  BY <1>1 DEF Seen
<1> QED
  BY <1>1, <1>2 DEF Lifecycle!Drop

LEMMA LoseDrops ==
    ASSUME NEW location, Lose(location),
           UNCHANGED <<Wanted, Running, Left, Ready, accepted, now>>
    PROVE  Lifecycle!Drop
<1>1. Seen' = [d \in Demo |-> IF d \in Demo THEN None ELSE Seen[d]]
  BY LoseType DEF Seen, Wish
<1> QED
  BY <1>1 DEF Lifecycle!Drop

\* An outcome other than "ready" changes nothing that a client could see.
LEMMA SilentWrite ==
    ASSUME TypeOK, Inv, WorkIsNotReady, pc \in Busy,
           NEW state \in DemoState \ {"ready"}, NEW port \in Port \cup {None},
           UpdateState(cur, state, port)
    PROVE  UNCHANGED <<Wanted, Ready>>
<1>1. cur \in Demo /\ Exists(cur)
  BY DEF Inv, LoopShape, ListedRowsExist
<1>2. Wanted' = Wanted /\ Ready' = [Ready EXCEPT ![cur] = (state = "ready")]
  BY <1>1, WriteView DEF TypeOK
<1>3. Ready[cur] = FALSE
  BY <1>1 DEF Ready, WorkIsNotReady
<1>4. (state = "ready") = FALSE
  OBVIOUS
<1> QED
  BY <1>1, <1>2, <1>3, <1>4 DEF Ready

\* To record what apply() did is to report the demo, or to leave it for later.
LEMMA AppliedRefines ==
    ASSUME TypeOK, Inv, WorkIsNotReady, RecordApplied
    PROVE  Lifecycle!Report(cur) \/ Lifecycle!Drop
<1> USE DEF Inv
<1>1. /\ pc \in Busy /\ cur \in Demo /\ Exists(cur) /\ config \in Project
      /\ queue[cur] \in Row /\ queue[cur] # NoRow
      /\ config.port \in Port /\ config.port # None
  BY NullAssumption, RenderedFacts DEF RecordApplied, LoopShape, Busy, ListedRowsExist, TypeOK
<1>2. /\ Seen' = [Seen EXCEPT ![cur] = None]
      /\ UNCHANGED <<Running, Left, accepted, now>>
  BY <1>1, NextRecordView DEF RecordApplied, Running, Left
<1>3. CASE pc = "recordReady"
  <2>1. UpdateState(cur, "ready", config.port)
    BY <1>3 DEF RecordApplied
  <2>2. Wanted' = Wanted /\ Ready' = [Ready EXCEPT ![cur] = ("ready" = "ready")]
    BY <1>1, <2>1, WriteView DEF TypeOK, DemoState
  <2>3. Seen[cur] = Wish(queue[cur]) /\ Wanted[cur] = Wish(demos[cur])
    BY <1>1 DEF Seen, Wanted
  <2>4. Lifecycle!Sees(cur) /\ Wanted[cur] # None
    BY <1>1, <2>3, WishFacts DEF Lifecycle!Sees, Exists, TypeOK, StoreTypeOK
  <2>5. Running[cur] = Stands(Rendered(queue[cur], config))
    BY <1>1, <1>3 DEF ApplyProgress, Running
  <2>6. Running[cur] = Lifecycle!SeenWish(cur)
    BY <1>1, <2>3, <2>5, WishFacts, RenderedFacts
    DEF Lifecycle!SeenWish, Stands, Rendered
  <2> QED
    BY <1>1, <1>2, <2>2, <2>4, <2>6 DEF Lifecycle!Report
<1>4. CASE pc = "recordWaiting"
  <2>1. UpdateState(cur, "reconciling", config.port) /\ NextRecord
    BY <1>4 DEF RecordApplied
  <2>2. UNCHANGED <<Wanted, Ready>>
    BY <1>1, <2>1, SilentWrite DEF DemoState
  <2> QED
    BY <1>1, <1>2, <2>1, <2>2, NextRecordDrops
<1> QED
  BY <1>3, <1>4 DEF RecordApplied

\* The row is deleted when nothing is left.
LEMMA DeletedRefines ==
    ASSUME TypeOK, Inv, RecordDeleted
    PROVE  Lifecycle!Forget(cur)
<1> USE DEF Inv
<1>1. /\ pc = "deleteRecord" /\ pc \in Busy /\ cur \in Demo
      /\ queue[cur] \in Row /\ queue[cur] # NoRow
      /\ Withdrawn(queue[cur], now)
  BY DEF RecordDeleted, LoopShape, Busy, TypeOK
<1>2. cluster[cur] = Nothing
  <2>1. cluster[cur] \in DemoObjects
    BY <1>1 DEF TypeOK
  <2>2. /\ cluster[cur].deployment = None /\ cluster[cur].service = None
        /\ ~cluster[cur].configMap /\ ~cluster[cur].secret /\ ~cluster[cur].available
    BY <1>1 DEF DeleteProgress, AvailableIsDeployed
  <2> QED
    BY <2>1, <2>2 DEF DemoObjects, Nothing
<1>3. Lifecycle!SeesOver(cur)
  <2>1. Seen[cur] = Wish(queue[cur])
    BY <1>1 DEF Seen
  <2> QED
    BY <1>1, <2>1, WishFacts DEF Lifecycle!Sees, Lifecycle!SeesOver, Withdrawn
<1>4. /\ Seen' = [Seen EXCEPT ![cur] = None]
      /\ UNCHANGED <<Running, Left, accepted, now>>
  BY <1>1, NextRecordView DEF RecordDeleted, Running, Left
<1>5. /\ Wanted' = [Wanted EXCEPT ![cur] = None]
      /\ Ready' = [Ready EXCEPT ![cur] = FALSE]
  BY <1>1 DEF RecordDeleted, DeleteRecord, TypeOK, StoreTypeOK, Wanted, Ready, Wish, Exists
<1>6. ~Left[cur]
  BY <1>1, <1>2 DEF Left
<1> QED
  BY <1>3, <1>4, <1>5, <1>6 DEF Lifecycle!Forget

\* A failure, recorded or not, and a crash make the loop forget what it saw.
LEMMA FailureRefines ==
    ASSUME TypeOK, Inv, WorkIsNotReady, RecordFailed \/ StoreFails \/ Crash
    PROVE  Lifecycle!Drop
<1> USE DEF Inv
<1>1. UNCHANGED <<Running, Left, accepted, now>>
  BY DEF RecordFailed, StoreFails, Crash, storeVars, Running, Left
<1>2. CASE UpdateState(cur, "failed", None) /\ NextRecord /\ pc \in Busy
  <2>1. UNCHANGED <<Wanted, Ready>>
    BY <1>2, SilentWrite DEF DemoState
  <2> QED
    BY <1>1, <1>2, <2>1, NextRecordDrops
<1>3. ASSUME NEW location, Lose(location), UNCHANGED demos
      PROVE  Lifecycle!Drop
  <2>1. UNCHANGED <<Wanted, Ready>>
    BY <1>3 DEF Wanted, Ready, Exists
  <2> QED
    BY <1>1, <1>3, <2>1, LoseDrops
<1> QED
  BY <1>2, <1>3 DEF RecordFailed, StoreFails, Crash, Busy, storeVars

\* A call, whether it succeeds or raises before or after its effect.
LEMMA KubernetesRefines ==
    ASSUME TypeOK, Inv, WorkIsNotReady, KubernetesCall \/ KubernetesFails
    PROVE  \/ Lifecycle!Put(cur)
           \/ Lifecycle!Remove(cur)
           \/ UNCHANGED Lifecycle!lifecycleVars
<1>1. UNCHANGED <<storeVars, queue>>
  BY DEF KubernetesCall, KubernetesFails
<1>2. CASE UNCHANGED cluster
  BY <1>1, <1>2 DEF Lifecycle!lifecycleVars, storeVars, Wanted, Seen, Running, Left, Ready, Exists
<1>3. CASE pc \in ApplyStage \ {"readStatus"} /\ Calls(pc, config) /\ cluster' = Called(pc)
  BY <1>1, <1>3, ApplyRefines
<1>4. CASE pc \in DeleteStage /\ cluster' = Called(pc)
  BY <1>1, <1>4, DeleteRefines
<1> QED
  BY <1>2, <1>3, <1>4 DEF KubernetesCall, KubernetesFails, ApplyStage

\* The steps that the abstract reconciler does not see.
LEMMA InvisibleSteps ==
    ASSUME TypeOK, Inv,
           \/ EndPass \/ Exit \/ Start \/ VaultAnswers \/ VaultRefuses \/ VaultFails
           \/ ReadStatus \/ Stop \/ EditProject \/ UNCHANGED vars
           \/ \E d \in Demo : LosesAvailability(d) \/ BecomesAvailable(d)
    PROVE  UNCHANGED Lifecycle!lifecycleVars
<1>1. UNCHANGED <<storeVars, queue>>
  BY DEF EndPass, Exit, Start, VaultAnswers, VaultRefuses, VaultFails, ReadStatus, Stop,
     EditProject, LosesAvailability, BecomesAvailable, vars, loopVars
<1>2. UNCHANGED <<Running, Left>>
  <2>1. CASE UNCHANGED cluster
    BY <2>1 DEF Running, Left
  <2>2. ASSUME NEW d \in Demo, LosesAvailability(d) \/ BecomesAvailable(d)
        PROVE  UNCHANGED <<Running, Left>>
    <3>1. cluster[d].deployment # None
      BY <2>2 DEF LosesAvailability, BecomesAvailable, Inv, AvailableIsDeployed
    <3>2. PICK b \in BOOLEAN : cluster' = [cluster EXCEPT ![d].available = b]
      BY <2>2 DEF LosesAvailability, BecomesAvailable
    <3> QED
      BY <3>1, <3>2, ClusterView DEF Inv
  <2> QED
    BY <2>1, <2>2 DEF EndPass, Exit, Start, VaultAnswers, VaultRefuses, VaultFails,
       ReadStatus, Stop, EditProject, vars
<1> QED
  BY <1>1, <1>2 DEF Lifecycle!lifecycleVars, storeVars, Wanted, Seen, Ready, Exists

LEMMA InitRefines == Init => Lifecycle!LifecycleInit
<1> SUFFICES ASSUME Init PROVE Lifecycle!LifecycleInit
  OBVIOUS
<1>1. \A d \in Demo : demos[d] = NoRow /\ queue[d] = NoRow /\ cluster[d] = Nothing
  BY DEF Init, StoreInit, NoQueue
<1>2. Wanted = [d \in Demo |-> None] /\ Seen = [d \in Demo |-> None]
  BY <1>1 DEF Wanted, Seen, Wish
<1>3. Running = [d \in Demo |-> None]
  BY <1>1 DEF Running, Stands, Nothing
<1>4. Left = [d \in Demo |-> FALSE]
  BY <1>1 DEF Left
<1>5. Ready = [d \in Demo |-> FALSE]
  BY <1>1 DEF Ready, Exists
<1> QED
  BY <1>2, <1>3, <1>4, <1>5 DEF Init, StoreInit, Lifecycle!LifecycleInit

\* Every step of the controller is a step of the abstract reconciler, or none.
LEMMA StepRefines ==
    ASSUME TypeOK, Inv, WorkIsNotReady, [Next]_vars
    PROVE  [Lifecycle!LifecycleNext]_Lifecycle!lifecycleVars
<1> USE DEF Lifecycle!LifecycleNext
<1>1. ASSUME pc \in Busy PROVE cur \in Demo
  BY <1>1 DEF Inv, LoopShape
<1>2. CASE \E q \in Delivery : Deploy(q) \/ Destroy(q)
  BY <1>2, RequestRefines
<1>3. CASE StartPass
  BY <1>3, StartPassRefines
<1>4. CASE \E d \in Demo : BeginDelete(d) \/ BeginReconcile(d)
  BY <1>4, BeginRefines DEF Inv
<1>5. CASE KubernetesCall \/ KubernetesFails
  BY <1>1, <1>5, KubernetesRefines DEF KubernetesCall, KubernetesFails, Busy
<1>6. CASE RecordApplied
  BY <1>1, <1>6, AppliedRefines DEF RecordApplied, Busy
<1>7. CASE RecordDeleted
  BY <1>1, <1>7, DeletedRefines DEF RecordDeleted, Busy
<1>8. CASE RecordFailed \/ StoreFails \/ Crash
  BY <1>8, FailureRefines
<1>9. CASE TimePasses
  <2>1. Lifecycle!Later
    BY <1>9 DEF TimePasses, Tick, loopVars, Lifecycle!Later, Wanted, Seen, Running, Left,
       Ready, Exists
  <2> QED
    BY <2>1
<1> QED
  BY <1>2, <1>3, <1>4, <1>5, <1>6, <1>7, <1>8, <1>9, InvisibleSteps
  DEF Next, LoopStep, Disturbance

\* The controller implements the level-triggered reconciler.
THEOREM Refinement == Spec => ImplementsLifecycle
<1>1. TypeOK /\ Inv /\ ReadyInv /\ [Next]_vars => [Lifecycle!LifecycleNext]_Lifecycle!lifecycleVars
  BY StepRefines DEF ReadyInv
<1> QED
  BY <1>1, InitRefines, Invariance, ReadyInvariance, PTL
  DEF Spec, ImplementsLifecycle, Lifecycle!LifecycleSpec
=============================================================================
