------------------------- MODULE DemoControllerProofs -------------------------
(***************************************************************************)
(* Theorems about the demo controller, for every set of demos, deliveries  *)
(* and configurations and for every bound.                                 *)
(***************************************************************************)
EXTENDS DemoProperties, TLAPS

USE DEF KubernetesStage, ApplyDone

-----------------------------------------------------------------------------
(* Lemmas about the operators of the table. *)

\* An update by key keeps the table well typed, forgets no row, makes none, and
\* touches nothing of a row but its state and its port.
LEMMA UpdateStateFacts ==
    ASSUME StoreTypeOK,
           NEW d \in Demo, NEW state \in DemoState, NEW port \in Port \cup {None},
           UpdateState(d, state, port)
    PROVE  /\ demos' \in [Demo -> Row \cup {NoRow}]
           /\ \A e \in Demo : demos'[e] # NoRow <=> Exists(e)
           /\ \A e \in Demo : Exists(e) =>
                /\ demos'[e].delivery = demos[e].delivery
                /\ demos'[e].present = demos[e].present
                /\ demos'[e].image = demos[e].image
                /\ demos'[e].expires = demos[e].expires
                /\ demos'[e].rev = demos[e].rev
<1>1. CASE ~Exists(d)
  BY <1>1 DEF UpdateState, StoreTypeOK, Exists
<1>2. CASE Exists(d)
  <2> DEFINE row == [demos[d] EXCEPT !.state = state,
                                     !.port = IF port = None THEN demos[d].port ELSE port]
  <2>1. demos' = [demos EXCEPT ![d] = row]
    BY <1>2 DEF UpdateState
  <2>2. demos[d] \in Row
    BY <1>2 DEF StoreTypeOK, Exists
  <2>3. /\ row \in Row
        /\ row.delivery = demos[d].delivery
        /\ row.present = demos[d].present
        /\ row.image = demos[d].image
        /\ row.expires = demos[d].expires
        /\ row.rev = demos[d].rev
    BY <2>2 DEF Row
  <2>4. row # NoRow
    BY <2>3, NullAssumption
  <2> QED
    BY <1>2, <2>1, <2>3, <2>4 DEF StoreTypeOK, Exists
<1> QED
  BY <1>1, <1>2

\* The row a new deploy writes.
LEMMA UpsertDeployFacts ==
    ASSUME StoreTypeOK, NEW q \in Delivery, q.op = "deploy", UpsertDeploy(q)
    PROVE  /\ q.demo \in Demo
           /\ demos' \in [Demo -> Row \cup {NoRow}]
           /\ demos'[q.demo] \in Row
           /\ demos'[q.demo].image \in Image
           /\ demos'[q.demo].rev = accepted + 1
           /\ \A e \in Demo \ {q.demo} : demos'[e] = demos[e]
<1>1. q \in Request /\ q.image \in Image
  BY RequestAssumption
<1>2. q.demo \in Demo /\ q.id \in DeliveryId
  BY <1>1 DEF Request
<1>3. now + Lifetime \in Int /\ accepted + 1 \in Int
  BY BoundAssumption DEF StoreTypeOK
<1>4. (IF Exists(q.demo) THEN demos[q.demo].port ELSE None) \in Port \cup {None}
  BY <1>2 DEF StoreTypeOK, Exists, Row
<1> DEFINE row == [delivery |-> q.id, image |-> q.image, present |-> TRUE,
                   state |-> "pending",
                   port |-> IF Exists(q.demo) THEN demos[q.demo].port ELSE None,
                   expires |-> now + Lifetime, rev |-> accepted + 1]
<1>5. row \in Row
  BY <1>1, <1>2, <1>3, <1>4 DEF Row, DemoState
<1>6. demos' = [demos EXCEPT ![q.demo] = row]
  BY DEF UpsertDeploy
<1> QED
  BY <1>1, <1>2, <1>5, <1>6 DEF StoreTypeOK

\* The row a new destroy writes.
LEMMA RequestDestroyFacts ==
    ASSUME StoreTypeOK, NEW q \in Delivery, RequestDestroy(q)
    PROVE  /\ q.demo \in Demo
           /\ demos' \in [Demo -> Row \cup {NoRow}]
           /\ demos'[q.demo] \in Row
           /\ demos'[q.demo].present = FALSE
           /\ demos'[q.demo].rev = accepted + 1
           /\ \A e \in Demo \ {q.demo} : demos'[e] = demos[e]
<1>1. q \in Request
  BY RequestAssumption
<1>2. q.demo \in Demo /\ q.id \in DeliveryId
  BY <1>1 DEF Request
<1>3. now \in Int /\ accepted + 1 \in Int
  BY BoundAssumption DEF StoreTypeOK
<1> DEFINE row == [delivery |-> q.id,
                   image |-> IF Exists(q.demo) THEN demos[q.demo].image ELSE None,
                   present |-> FALSE, state |-> "deleting",
                   port |-> IF Exists(q.demo) THEN demos[q.demo].port ELSE None,
                   expires |-> IF Exists(q.demo) THEN demos[q.demo].expires ELSE now,
                   rev |-> accepted + 1]
<1>4. row \in Row
  <2>1. CASE Exists(q.demo)
    <3>1. demos[q.demo] \in Row
      BY <1>2, <2>1 DEF StoreTypeOK, Exists
    <3> QED
      BY <1>2, <1>3, <2>1, <3>1 DEF Row, DemoState
  <2>2. CASE ~Exists(q.demo)
    BY <1>2, <1>3, <2>2 DEF Row, DemoState
  <2> QED
    BY <2>1, <2>2
<1>5. demos' = [demos EXCEPT ![q.demo] = row]
  BY DEF RequestDestroy
<1> QED
  BY <1>2, <1>4, <1>5 DEF StoreTypeOK

-----------------------------------------------------------------------------
(* Lemmas about the Kubernetes calls. *)

\* One call leaves the objects of a demo well typed.
LEMMA ApplyEffectType ==
    ASSUME NEW stage \in ApplyStage \ {"readStatus"}, NEW objects \in DemoObjects,
           NEW row \in Row, NEW p \in Project
    PROVE  ApplyEffect(stage, objects, row, p) \in DemoObjects
<1>1. p.port \in Port /\ p.env \in BOOLEAN /\ p.secret \in BOOLEAN
  BY ProjectAssumption DEF ProjectConfig
<1>2. Rendered(row, p) \in DeploymentSpec
  BY <1>1 DEF Rendered, DeploymentSpec, Row
<1>3. \/ ApplyEffect(stage, objects, row, p) = [objects EXCEPT !.configMap = TRUE]
      \/ ApplyEffect(stage, objects, row, p) = [objects EXCEPT !.secret = TRUE]
      \/ ApplyEffect(stage, objects, row, p) = [objects EXCEPT !.service = p.port]
      \/ \E b \in BOOLEAN : ApplyEffect(stage, objects, row, p) =
            [objects EXCEPT !.deployment = Rendered(row, p), !.available = b]
      \/ ApplyEffect(stage, objects, row, p) = [objects EXCEPT !.configMap = FALSE]
      \/ ApplyEffect(stage, objects, row, p) = [objects EXCEPT !.secret = FALSE]
  <2>1. CASE stage = "applyDeployment"
    <3>1. (objects.available /\ SameSpec(objects.deployment, Rendered(row, p))) \in BOOLEAN
      OBVIOUS
    <3> QED
      BY <2>1, <3>1 DEF ApplyEffect
  <2>2. CASE stage # "applyDeployment"
    BY <2>2 DEF ApplyEffect, ApplyStage
  <2> QED
    BY <2>1, <2>2
<1> QED
  BY <1>1, <1>2, <1>3 DEF DemoObjects

LEMMA DeleteEffectType ==
    ASSUME NEW stage \in DeleteStage, NEW objects \in DemoObjects
    PROVE  DeleteEffect(stage, objects) \in DemoObjects
BY DEF DeleteEffect, DeleteStage, DemoObjects

LEMMA CalledType ==
    ASSUME TypeOK, LoopShape, pc \in KubernetesStage \ {"readStatus"}
    PROVE  Called(pc) \in [Demo -> DemoObjects]
<1>1. cur \in Demo /\ queue[cur] # NoRow
  BY DEF LoopShape, Busy
<1>2. queue[cur] \in Row /\ cluster[cur] \in DemoObjects
  BY <1>1 DEF TypeOK
<1>3. CASE pc \in DeleteStage
  BY <1>2, <1>3, DeleteEffectType DEF Called, TypeOK
<1>4. CASE pc \in ApplyStage
  <2>1. config \in Project /\ pc \notin DeleteStage
    BY <1>4 DEF LoopShape, ApplyStage, DeleteStage
  <2> QED
    BY <1>2, <1>4, <2>1, ApplyEffectType DEF Called, TypeOK
<1> QED
  BY <1>3, <1>4

-----------------------------------------------------------------------------
(* Type correctness. *)

LEMMA InitType == Init => TypeOK /\ LoopShape
<1> SUFFICES ASSUME Init PROVE TypeOK /\ LoopShape
  OBVIOUS
<1>1. StoreTypeOK
  BY BoundAssumption DEF Init, StoreInit, StoreTypeOK
<1>2. Nothing \in DemoObjects
  BY DEF Nothing, DemoObjects
<1>3. TypeOK
  <2>1. disturbances \in 0..MaxDisturbances
    BY DisturbanceAssumption DEF Init
  <2>2. cluster \in [Demo -> DemoObjects] /\ queue \in [Demo -> Row \cup {NoRow}]
    BY <1>2 DEF Init, NoQueue
  <2>3. stopping \in BOOLEAN /\ pc \in Location
    BY DEF Init, Location
  <2> QED
    BY <1>1, <2>1, <2>2, <2>3 DEF Init, TypeOK
<1>4. LoopShape
  BY DEF Init, LoopShape, Busy, ApplyStage, DeleteStage
<1> QED
  BY <1>3, <1>4

\* The history variables and the clock stay within their bounds.
LEMMA AcceptType ==
    ASSUME StoreTypeOK, NEW q \in Delivery, Accept(q)
    PROVE  accepted' \in 0..MaxRequests /\ received' \subseteq DeliveryId
<1>1. q.id \in DeliveryId
  BY RequestAssumption DEF Request
<1> QED
  BY <1>1, BoundAssumption DEF Accept, StoreTypeOK

\* Every step keeps the table well typed.
LEMMA StoreTypeStep ==
    ASSUME TypeOK, LoopShape, [Next]_vars
    PROVE  StoreTypeOK'
<1> USE DEF TypeOK
<1>1. ASSUME NEW q \in Delivery, Deploy(q)
      PROVE  StoreTypeOK'
  <2>1. accepted' \in 0..MaxRequests /\ received' \subseteq DeliveryId
    BY <1>1, AcceptType DEF Deploy
  <2>2. UpsertDeploy(q) /\ q.op = "deploy" /\ now' = now
    BY <1>1 DEF Deploy
  <2> QED
    BY <2>1, <2>2, UpsertDeployFacts DEF StoreTypeOK
<1>2. ASSUME NEW q \in Delivery, Destroy(q)
      PROVE  StoreTypeOK'
  <2>1. accepted' \in 0..MaxRequests /\ received' \subseteq DeliveryId
    BY <1>2, AcceptType DEF Destroy
  <2>2. RequestDestroy(q) /\ now' = now
    BY <1>2 DEF Destroy
  <2> QED
    BY <2>1, <2>2, RequestDestroyFacts DEF StoreTypeOK
<1>3. ASSUME NEW d \in Demo, NEW state \in DemoState, NEW port \in Port \cup {None},
             UpdateState(d, state, port), UNCHANGED <<now, accepted, received>>
      PROVE  StoreTypeOK'
  <2>1. \A e \in Demo : demos'[e] # NoRow /\ demos'[e].present => demos'[e].image \in Image
    BY <1>3, UpdateStateFacts DEF StoreTypeOK, Exists
  <2> QED
    BY <1>3, <2>1, UpdateStateFacts DEF StoreTypeOK
<1>4. ASSUME DeleteRecord(cur), UNCHANGED <<now, accepted, received>>
      PROVE  StoreTypeOK'
  BY <1>4 DEF DeleteRecord, StoreTypeOK
<1>5. ASSUME UNCHANGED storeVars
      PROVE  StoreTypeOK'
  BY <1>5 DEF storeVars, StoreTypeOK
<1>6. ASSUME NEW d \in Demo, BeginDelete(d) \/ BeginReconcile(d)
      PROVE  StoreTypeOK'
  BY <1>3, <1>6 DEF BeginDelete, BeginReconcile, DemoState
<1>7. ASSUME RecordApplied
      PROVE  StoreTypeOK'
  <2>1. config.port \in Port /\ cur \in Demo
    BY <1>7, ProjectAssumption DEF RecordApplied, LoopShape, Busy, ProjectConfig
  <2> QED
    BY <1>3, <1>7, <2>1 DEF RecordApplied, DemoState
<1>8. ASSUME RecordFailed
      PROVE  StoreTypeOK'
  BY <1>3, <1>8 DEF RecordFailed, LoopShape, Busy, DemoState
<1>9. ASSUME StoreFails
      PROVE  StoreTypeOK'
  <2>1. CASE UNCHANGED demos
    BY <1>5, <1>9, <2>1 DEF StoreFails, storeVars
  <2>2. CASE pc \in ApplyDone \cup {"deleteRecord"} /\ UpdateState(cur, "failed", None)
    BY <1>3, <1>9, <2>2 DEF StoreFails, LoopShape, Busy, DemoState
  <2> QED
    BY <1>9, <2>1, <2>2 DEF StoreFails
<1>10. ASSUME TimePasses
       PROVE  StoreTypeOK'
  BY <1>10, BoundAssumption DEF TimePasses, Tick, StoreTypeOK
<1>11. ASSUME RecordDeleted
       PROVE  StoreTypeOK'
  BY <1>4, <1>11 DEF RecordDeleted
<1>12. ASSUME \/ StartPass \/ EndPass \/ Exit \/ VaultAnswers \/ VaultRefuses
              \/ KubernetesCall \/ ReadStatus \/ Start \/ VaultFails
              \/ KubernetesFails \/ Stop \/ Crash \/ EditProject
              \/ \E d \in Demo : LosesAvailability(d) \/ BecomesAvailable(d)
              \/ UNCHANGED vars
       PROVE  StoreTypeOK'
  BY <1>5, <1>12 DEF StartPass, EndPass, Exit, VaultAnswers, VaultRefuses, KubernetesCall,
     ReadStatus, Start, VaultFails, KubernetesFails, Stop, Crash, EditProject,
     LosesAvailability, BecomesAvailable, vars
<1> QED
  BY <1>1, <1>2, <1>6, <1>7, <1>8, <1>9, <1>10, <1>11, <1>12
  DEF Next, LoopStep, Disturbance

\* What the coroutine does when it leaves a record or is lost.
LEMMA NextRecordType ==
    ASSUME TypeOK, LoopShape, pc \in Busy, NextRecord
    PROVE  /\ pc' = "next" /\ cur' = None /\ config' = None
           /\ queue' \in [Demo -> Row \cup {NoRow}]
           /\ queue'[cur] = NoRow
           /\ \A d \in Demo \ {cur} : queue'[d] = queue[d]
BY DEF TypeOK, LoopShape, NextRecord

LEMMA LoseType ==
    ASSUME NEW location, Lose(location)
    PROVE  /\ pc' = location /\ cur' = None /\ config' = None
           /\ queue' \in [Demo -> Row \cup {NoRow}]
           /\ \A d \in Demo : queue'[d] = NoRow
BY DEF Lose, NoQueue

\* Every step keeps the other variables well typed.
LEMMA LoopTypeStep ==
    ASSUME TypeOK, LoopShape, [Next]_vars
    PROVE  /\ cluster' \in [Demo -> DemoObjects]
           /\ project' \in Project
           /\ pc' \in Location
           /\ queue' \in [Demo -> Row \cup {NoRow}]
           /\ cur' \in Demo \cup {None}
           /\ config' \in Project \cup {None}
           /\ stopping' \in BOOLEAN
           /\ disturbances' \in 0..MaxDisturbances
<1> DEFINE Goal == /\ cluster' \in [Demo -> DemoObjects]
                   /\ project' \in Project
                   /\ pc' \in Location
                   /\ queue' \in [Demo -> Row \cup {NoRow}]
                   /\ cur' \in Demo \cup {None}
                   /\ config' \in Project \cup {None}
                   /\ stopping' \in BOOLEAN
                   /\ disturbances' \in 0..MaxDisturbances
<1> USE DEF TypeOK
<1>0. ASSUME Disturb
      PROVE  disturbances' \in 0..MaxDisturbances
  BY <1>0, DisturbanceAssumption DEF Disturb
<1>1. ASSUME UNCHANGED <<cluster, project, loopVars, disturbances>>
      PROVE  Goal
  BY <1>1 DEF loopVars
<1>2. ASSUME \/ StartPass \/ EndPass \/ Exit \/ Start \/ VaultAnswers \/ VaultRefuses
      PROVE  Goal
  <2>1. ListReconcilable \in [Demo -> Row \cup {NoRow}]
    BY DEF ListReconcilable, StoreTypeOK
  <2> QED
    BY <1>2, <2>1 DEF StartPass, EndPass, Exit, Start, VaultAnswers, VaultRefuses,
       Location, Busy, ApplyStage
<1>3. ASSUME NEW d \in Demo, BeginDelete(d) \/ BeginReconcile(d)
      PROVE  Goal
  BY <1>3 DEF BeginDelete, BeginReconcile, Location, Busy, DeleteStage
<1>4. ASSUME KubernetesCall
      PROVE  Goal
  <2>1. After[pc] \in Location
    BY <1>4 DEF KubernetesCall, After, Location, Busy, ApplyStage, DeleteStage
  <2>2. cluster' \in [Demo -> DemoObjects]
    BY <1>4, CalledType DEF KubernetesCall
  <2> QED
    BY <1>4, <2>1, <2>2 DEF KubernetesCall
<1>5. ASSUME ReadStatus
      PROVE  Goal
  BY <1>5 DEF ReadStatus, Location, Busy
<1>6. ASSUME RecordApplied \/ RecordDeleted \/ RecordFailed
      PROVE  Goal
  BY <1>6, NextRecordType DEF RecordApplied, RecordDeleted, RecordFailed, Location, Busy
<1>7. ASSUME VaultFails
      PROVE  Goal
  BY <1>0, <1>7 DEF VaultFails, Location, Busy
<1>8. ASSUME KubernetesFails
      PROVE  Goal
  <2>1. cluster' \in [Demo -> DemoObjects]
    BY <1>8, CalledType DEF KubernetesFails
  <2> QED
    BY <1>0, <1>8, <2>1 DEF KubernetesFails, Location, Busy
<1>9. ASSUME StoreFails
      PROVE  Goal
  <2>1. \/ Lose("dead")
        \/ pc \in Busy /\ NextRecord
    BY <1>9 DEF StoreFails, Busy
  <2> QED
    BY <1>0, <1>9, <2>1, NextRecordType, LoseType DEF StoreFails, Location
<1>10. ASSUME Stop
       PROVE  Goal
  BY <1>0, <1>10 DEF Stop, Location
<1>11. ASSUME Crash
       PROVE  Goal
  BY <1>0, <1>11, LoseType DEF Crash, Location
<1>12. ASSUME NEW d \in Demo, LosesAvailability(d) \/ BecomesAvailable(d)
       PROVE  Goal
  <2>1. \E b \in BOOLEAN : cluster' = [cluster EXCEPT ![d].available = b]
    BY <1>12 DEF LosesAvailability, BecomesAvailable
  <2>2. cluster' \in [Demo -> DemoObjects]
    BY <2>1 DEF DemoObjects
  <2> QED
    BY <1>0, <1>12, <2>2 DEF LosesAvailability, BecomesAvailable, loopVars
<1>13. ASSUME EditProject
       PROVE  Goal
  BY <1>0, <1>13 DEF EditProject, loopVars
<1>14. ASSUME \/ \E q \in Delivery : Deploy(q) \/ Destroy(q)
              \/ TimePasses \/ UNCHANGED vars
       PROVE  Goal
  BY <1>1, <1>14 DEF Deploy, Destroy, TimePasses, vars
<1> QED
  BY <1>2, <1>3, <1>4, <1>5, <1>6, <1>7, <1>8, <1>9, <1>10, <1>11, <1>12, <1>13, <1>14
  DEF Next, LoopStep, Disturbance

\* Every step keeps the shape of the loop.
LEMMA LoopShapeStep ==
    ASSUME TypeOK, LoopShape, [Next]_vars
    PROVE  LoopShape'
<1> USE DEF LoopShape
<1>1. ASSUME UNCHANGED <<now, pc, queue, cur, config>>
      PROVE  LoopShape'
  BY <1>1 DEF Withdrawn
<1>2. ASSUME pc' \in {"idle", "next", "stopped", "dead"}
      PROVE  LoopShape'
  BY <1>2 DEF Busy, ApplyStage, DeleteStage
<1>3. ASSUME UNCHANGED <<now, queue, cur>>, pc \in Busy, pc' = "failing"
      PROVE  LoopShape'
  BY <1>3 DEF Busy, ApplyStage, DeleteStage
<1>4. ASSUME NEW d \in Demo, BeginDelete(d) \/ BeginReconcile(d)
      PROVE  LoopShape'
  BY <1>4 DEF BeginDelete, BeginReconcile, Withdrawn, Busy, ApplyStage, DeleteStage
<1>5. ASSUME VaultAnswers
      PROVE  LoopShape'
  BY <1>5 DEF VaultAnswers, TypeOK, Busy, ApplyStage, DeleteStage
<1>6. ASSUME KubernetesCall
      PROVE  LoopShape'
  <2>1. pc \in Busy /\ UNCHANGED <<now, queue, cur, config>>
    BY <1>6 DEF KubernetesCall, Busy, storeVars
  <2>2. CASE pc \in ApplyStage
    <3>1. pc' \in ApplyStage
      BY <1>6, <2>2 DEF KubernetesCall, After, ApplyStage
    <3> QED
      BY <2>1, <2>2, <3>1 DEF Busy, ApplyStage, DeleteStage
  <2>3. CASE pc \in DeleteStage
    <3>1. pc' \in DeleteStage \cup {"deleteRecord"}
      BY <1>6, <2>3 DEF KubernetesCall, After, DeleteStage
    <3> QED
      BY <2>1, <2>3, <3>1 DEF Busy, ApplyStage, DeleteStage, Withdrawn
  <2> QED
    BY <1>6, <2>2, <2>3 DEF KubernetesCall
<1>7. ASSUME ReadStatus
      PROVE  LoopShape'
  BY <1>7 DEF ReadStatus, Busy, ApplyStage, DeleteStage
<1>8. ASSUME RecordApplied \/ RecordDeleted \/ RecordFailed
      PROVE  LoopShape'
  BY <1>2, <1>8 DEF RecordApplied, RecordDeleted, RecordFailed, NextRecord
<1>9. ASSUME StoreFails
      PROVE  LoopShape'
  BY <1>2, <1>9 DEF StoreFails, NextRecord, Lose
<1>10. ASSUME VaultRefuses \/ VaultFails \/ KubernetesFails
       PROVE  LoopShape'
  <2>1. pc \in Busy /\ pc' = "failing" /\ UNCHANGED <<now, queue, cur>>
    BY <1>10 DEF VaultRefuses, VaultFails, KubernetesFails, Busy, storeVars
  <2> QED
    BY <1>3, <2>1
<1>11. ASSUME TimePasses
       PROVE  LoopShape'
  <2>1. now' = now + 1 /\ UNCHANGED <<pc, queue, cur, config>>
    BY <1>11 DEF TimePasses, Tick, loopVars
  <2>2. CASE pc \in DeleteStage \cup {"deleteRecord"}
    <3>1. queue[cur] \in Row
      BY <2>2 DEF TypeOK, Busy
    <3>2. queue[cur].expires \in Int /\ now \in Int
      BY <3>1 DEF Row, TypeOK, StoreTypeOK
    <3>3. Withdrawn(queue[cur], now')
      BY <2>1, <2>2, <3>2 DEF Withdrawn
    <3> QED
      BY <2>1, <2>2, <3>3 DEF Withdrawn, Busy, ApplyStage, DeleteStage
  <2>3. CASE pc \notin DeleteStage \cup {"deleteRecord"}
    BY <2>1, <2>3
  <2> QED
    BY <2>2, <2>3
<1>12. ASSUME StartPass \/ EndPass \/ Exit \/ Start
       PROVE  LoopShape'
  BY <1>2, <1>12 DEF StartPass, EndPass, Exit, Start
<1>13. ASSUME Crash
       PROVE  LoopShape'
  BY <1>2, <1>13 DEF Crash, Lose
<1>14. ASSUME Stop
       PROVE  LoopShape'
  BY <1>1, <1>2, <1>14 DEF Stop, storeVars
<1>15. ASSUME \/ \E q \in Delivery : Deploy(q) \/ Destroy(q)
              \/ EditProject
              \/ \E d \in Demo : LosesAvailability(d) \/ BecomesAvailable(d)
              \/ UNCHANGED vars
       PROVE  LoopShape'
  BY <1>1, <1>15 DEF Deploy, Destroy, EditProject, LosesAvailability, BecomesAvailable,
     vars, loopVars, storeVars
<1> QED
  BY <1>4, <1>5, <1>6, <1>7, <1>8, <1>9, <1>10, <1>11, <1>12, <1>13, <1>14, <1>15
  DEF Next, LoopStep, Disturbance

LEMMA TypeStep ==
    ASSUME TypeOK, LoopShape, [Next]_vars
    PROVE  TypeOK' /\ LoopShape'
BY StoreTypeStep, LoopTypeStep, LoopShapeStep DEF TypeOK

\* Every variable keeps its type, a desired row always has an image, and the
\* coroutine inside reconcile() always has the record it works on.
THEOREM TypeCorrect == Spec => [](TypeOK /\ LoopShape)
<1>1. Init => TypeOK /\ LoopShape
  BY InitType
<1>2. TypeOK /\ LoopShape /\ [Next]_vars => (TypeOK /\ LoopShape)'
  BY TypeStep
<1> QED
  BY <1>1, <1>2, PTL DEF Spec

-----------------------------------------------------------------------------
(* The conjuncts of Inv, one lemma per group. *)

\* What the call of the current stage changes: one field of cur's objects, and
\* `available` never becomes true.
LEMMA CalledFacts ==
    ASSUME TypeOK, LoopShape, pc \in KubernetesStage \ {"readStatus"}
    PROVE  /\ cur \in Demo /\ queue[cur] \in Row /\ cluster[cur] \in DemoObjects
           /\ Called(pc)[cur] \in DemoObjects
           /\ \A d \in Demo \ {cur} : Called(pc)[d] = cluster[d]
           /\ Called(pc)[cur].deployment =
                IF pc = "applyDeployment" THEN Rendered(queue[cur], config)
                ELSE IF pc = "deleteDeployment" THEN None ELSE cluster[cur].deployment
           /\ Called(pc)[cur].service =
                IF pc = "applyService" THEN config.port
                ELSE IF pc = "deleteService" THEN None ELSE cluster[cur].service
           /\ Called(pc)[cur].configMap =
                IF pc = "applyConfigMap" THEN TRUE
                ELSE IF pc \in {"pruneConfigMap", "deleteConfigMap"} THEN FALSE
                ELSE cluster[cur].configMap
           /\ Called(pc)[cur].secret =
                IF pc = "applySecret" THEN TRUE
                ELSE IF pc \in {"pruneSecret", "deleteSecret"} THEN FALSE
                ELSE cluster[cur].secret
           /\ Called(pc)[cur].available =>
                cluster[cur].available /\ pc # "deleteDeployment"
<1>1. cur \in Demo /\ queue[cur] # NoRow
  BY DEF LoopShape, Busy
<1>2. queue[cur] \in Row /\ cluster[cur] \in DemoObjects
  BY <1>1 DEF TypeOK
<1>3. Called(pc) \in [Demo -> DemoObjects]
  BY CalledType
<1>4. \A d \in Demo \ {cur} : Called(pc)[d] = cluster[d]
  BY <1>1 DEF Called, TypeOK
<1> DEFINE o == cluster[cur]
<1> HIDE DEF o
<1>5. CASE pc \in DeleteStage
  <2>1. Called(pc)[cur] = DeleteEffect(pc, o)
    BY <1>1, <1>5 DEF Called, TypeOK, o
  <2>2. o \in DemoObjects
    BY <1>2 DEF o
  <2>3. /\ DeleteEffect(pc, o).deployment = IF pc = "deleteDeployment" THEN None ELSE o.deployment
        /\ DeleteEffect(pc, o).service = IF pc = "deleteService" THEN None ELSE o.service
        /\ DeleteEffect(pc, o).configMap = IF pc = "deleteConfigMap" THEN FALSE ELSE o.configMap
        /\ DeleteEffect(pc, o).secret = IF pc = "deleteSecret" THEN FALSE ELSE o.secret
        /\ DeleteEffect(pc, o).available = IF pc = "deleteDeployment" THEN FALSE ELSE o.available
    BY <1>5, <2>2 DEF DeleteEffect, DeleteStage, DemoObjects
  <2> QED
    BY <1>1, <1>2, <1>3, <1>4, <1>5, <2>1, <2>3 DEF DeleteStage, o
<1>6. CASE pc \in ApplyStage
  <2> DEFINE r == Rendered(queue[cur], config)
  <2> HIDE DEF r
  <2>1. Called(pc)[cur] = ApplyEffect(pc, o, queue[cur], config)
    BY <1>1, <1>6 DEF Called, TypeOK, ApplyStage, DeleteStage, o
  <2>2. o \in DemoObjects
    BY <1>2 DEF o
  <2>3. CASE pc = "applyDeployment"
    <3>1. \E b \in BOOLEAN : /\ b => o.available
                             /\ Called(pc)[cur] = [o EXCEPT !.deployment = r, !.available = b]
      <4>1. Called(pc)[cur] = [o EXCEPT !.deployment = r,
                                        !.available = o.available /\ SameSpec(o.deployment, r)]
        BY <2>1, <2>3 DEF ApplyEffect, r
      <4>2. (o.available /\ SameSpec(o.deployment, r)) \in BOOLEAN
        OBVIOUS
      <4> QED
        BY <4>1, <4>2
    <3> QED
      BY <1>1, <1>2, <1>3, <1>4, <2>2, <2>3, <3>1 DEF DemoObjects, o, r
  <2>4. CASE pc # "applyDeployment"
    <3>1. /\ ApplyEffect(pc, o, queue[cur], config).deployment = o.deployment
          /\ ApplyEffect(pc, o, queue[cur], config).service =
               IF pc = "applyService" THEN config.port ELSE o.service
          /\ ApplyEffect(pc, o, queue[cur], config).configMap =
               IF pc = "applyConfigMap" THEN TRUE
               ELSE IF pc = "pruneConfigMap" THEN FALSE ELSE o.configMap
          /\ ApplyEffect(pc, o, queue[cur], config).secret =
               IF pc = "applySecret" THEN TRUE
               ELSE IF pc = "pruneSecret" THEN FALSE ELSE o.secret
          /\ ApplyEffect(pc, o, queue[cur], config).available = o.available
      BY <1>6, <2>2, <2>4 DEF ApplyEffect, ApplyStage, DemoObjects
    <3> QED
      BY <1>1, <1>2, <1>3, <1>4, <1>6, <2>1, <2>4, <3>1 DEF ApplyStage, o
  <2> QED
    BY <2>3, <2>4
<1> QED
  BY <1>5, <1>6

\* The rows after a request: only the requested demo's changes, and it exists.
LEMMA RequestFacts ==
    ASSUME TypeOK, NEW q \in Delivery, Deploy(q) \/ Destroy(q)
    PROVE  /\ q.demo \in Demo
           /\ demos'[q.demo] # NoRow
           /\ demos'[q.demo].rev = accepted + 1
           /\ accepted' = accepted + 1
           /\ \A e \in Demo \ {q.demo} : demos'[e] = demos[e]
           /\ UNCHANGED <<now, cluster, project, pc, queue, cur, config, stopping>>
<1>1. StoreTypeOK
  BY DEF TypeOK
<1>2. CASE Deploy(q)
  BY <1>1, <1>2, UpsertDeployFacts, NullAssumption DEF Deploy, Accept, loopVars
<1>3. CASE Destroy(q)
  BY <1>1, <1>3, RequestDestroyFacts, NullAssumption DEF Destroy, Accept, loopVars
<1> QED
  BY <1>2, <1>3

\* The writes of the loop's steps, as one update by key.
LEMMA LoopWriteFacts ==
    ASSUME TypeOK, LoopShape,
           \/ \E d \in Demo : BeginDelete(d) \/ BeginReconcile(d)
           \/ RecordApplied
           \/ RecordFailed
           \/ StoreFails
    PROVE  /\ \A e \in Demo : demos'[e] # NoRow <=> Exists(e)
           /\ \A e \in Demo : Exists(e) =>
                /\ demos'[e].delivery = demos[e].delivery
                /\ demos'[e].present = demos[e].present
                /\ demos'[e].image = demos[e].image
                /\ demos'[e].expires = demos[e].expires
                /\ demos'[e].rev = demos[e].rev
<1>1. StoreTypeOK
  BY DEF TypeOK
<1>2. ASSUME NEW d \in Demo, BeginDelete(d) \/ BeginReconcile(d)
      PROVE  \E s \in DemoState, p \in Port \cup {None} : UpdateState(d, s, p)
  BY <1>2 DEF BeginDelete, BeginReconcile, DemoState
<1>3. ASSUME RecordApplied
      PROVE  cur \in Demo /\ \E s \in DemoState, p \in Port \cup {None} : UpdateState(cur, s, p)
  <2>1. config.port \in Port /\ cur \in Demo
    BY <1>3, ProjectAssumption DEF RecordApplied, LoopShape, Busy, ProjectConfig
  <2> QED
    BY <1>3, <2>1 DEF RecordApplied, DemoState
<1>4. ASSUME RecordFailed
      PROVE  cur \in Demo /\ \E s \in DemoState, p \in Port \cup {None} : UpdateState(cur, s, p)
  BY <1>4 DEF RecordFailed, LoopShape, Busy, DemoState
<1>5. ASSUME StoreFails
      PROVE  \/ UNCHANGED demos
             \/ cur \in Demo /\ \E s \in DemoState, p \in Port \cup {None} : UpdateState(cur, s, p)
  BY <1>5 DEF StoreFails, LoopShape, Busy, DemoState
<1>6. CASE UNCHANGED demos
  BY <1>6 DEF Exists
<1> QED
  BY <1>1, <1>2, <1>3, <1>4, <1>5, <1>6, UpdateStateFacts

\* Steps after which the coroutine keeps a part of what it had listed.
LEMMA QueueShrinks ==
    ASSUME TypeOK, LoopShape,
           \/ \E d \in Demo : BeginDelete(d) \/ BeginReconcile(d)
           \/ RecordApplied \/ RecordDeleted \/ RecordFailed \/ StoreFails \/ Crash
    PROVE  \A d \in Demo : queue'[d] # NoRow => queue'[d] = queue[d]
<1>1. CASE UNCHANGED queue
  BY <1>1
<1>2. CASE pc \in Busy /\ NextRecord
  BY <1>2, NextRecordType
<1>3. CASE \E location : Lose(location)
  BY <1>3, LoseType
<1>4. UNCHANGED queue \/ (pc \in Busy /\ NextRecord) \/ \E location : Lose(location)
  BY DEF BeginDelete, BeginReconcile, RecordApplied, RecordDeleted, RecordFailed, StoreFails,
     Crash, Busy
<1> QED
  BY <1>1, <1>2, <1>3, <1>4

\* Rows outlive what was listed, and what is in the cluster.
LEMMA RowsStep ==
    ASSUME TypeOK, Inv, [Next]_vars
    PROVE  ListedRowsExist' /\ NoOrphans'
<1> USE DEF Inv
<1>1. ASSUME \A d \in Demo : Exists(d) => demos'[d] # NoRow,
             \A d \in Demo : queue'[d] # NoRow => queue[d] # NoRow,
             \A d \in Demo : cluster'[d] # Nothing => cluster[d] # Nothing \/ Exists(d)
      PROVE  ListedRowsExist' /\ NoOrphans'
  BY <1>1 DEF ListedRowsExist, NoOrphans, Exists
<1>2. ASSUME NEW q \in Delivery, Deploy(q) \/ Destroy(q)
      PROVE  ListedRowsExist' /\ NoOrphans'
  BY <1>1, <1>2, RequestFacts DEF Exists
<1>3. ASSUME \/ \E d \in Demo : BeginDelete(d) \/ BeginReconcile(d)
             \/ RecordApplied \/ RecordFailed \/ StoreFails
      PROVE  ListedRowsExist' /\ NoOrphans'
  <2>1. UNCHANGED cluster
    BY <1>3 DEF BeginDelete, BeginReconcile, RecordApplied, RecordFailed, StoreFails
  <2> QED
    BY <1>1, <1>3, <2>1, LoopWriteFacts, QueueShrinks
<1>4. ASSUME StartPass
      PROVE  ListedRowsExist' /\ NoOrphans'
  BY <1>4 DEF StartPass, ListReconcilable, ListedRowsExist, NoOrphans, Exists, storeVars
<1>5. ASSUME KubernetesCall \/ KubernetesFails
      PROVE  ListedRowsExist' /\ NoOrphans'
  <2>1. cur \in Demo /\ Exists(cur)
    BY <1>5 DEF KubernetesCall, KubernetesFails, LoopShape, ListedRowsExist, Busy
  <2>2. \A d \in Demo \ {cur} : cluster'[d] = cluster[d]
    BY <1>5, CalledFacts DEF KubernetesCall, KubernetesFails
  <2> QED
    BY <1>1, <1>5, <2>1, <2>2 DEF KubernetesCall, KubernetesFails, storeVars, Exists
<1>6. ASSUME RecordDeleted
      PROVE  ListedRowsExist' /\ NoOrphans'
  <2>1. cur \in Demo /\ cluster[cur] \in DemoObjects
    BY <1>6 DEF RecordDeleted, LoopShape, Busy, TypeOK
  <2>2. /\ cluster[cur].deployment = None
        /\ cluster[cur].service = None
        /\ cluster[cur].configMap = FALSE
        /\ cluster[cur].secret = FALSE
    BY <1>6, <2>1 DEF RecordDeleted, DeleteProgress, DemoObjects, DeleteStage
  <2>3. cluster[cur].available = FALSE
    BY <2>1, <2>2 DEF AvailableIsDeployed, DemoObjects
  <2>4. cluster[cur] = Nothing
    BY <2>1, <2>2, <2>3 DEF DemoObjects, Nothing
  <2>5. /\ demos'[cur] = NoRow /\ queue'[cur] = NoRow
        /\ \A d \in Demo \ {cur} : demos'[d] = demos[d] /\ queue'[d] = queue[d]
        /\ UNCHANGED cluster
    BY <1>6, <2>1 DEF RecordDeleted, DeleteRecord, NextRecord, TypeOK, StoreTypeOK
  <2> QED
    BY <2>1, <2>4, <2>5 DEF ListedRowsExist, NoOrphans, Exists
<1>7. ASSUME Crash
      PROVE  ListedRowsExist' /\ NoOrphans'
  BY <1>1, <1>7, QueueShrinks DEF Crash, storeVars, Exists
<1>8. ASSUME NEW d \in Demo, LosesAvailability(d) \/ BecomesAvailable(d)
      PROVE  ListedRowsExist' /\ NoOrphans'
  <2>1. cluster[d] # Nothing
    BY <1>8 DEF LosesAvailability, BecomesAvailable, Nothing
  <2>2. \A e \in Demo \ {d} : cluster'[e] = cluster[e]
    BY <1>8 DEF LosesAvailability, BecomesAvailable, TypeOK
  <2> QED
    BY <1>1, <1>8, <2>1, <2>2
    DEF LosesAvailability, BecomesAvailable, loopVars, storeVars, Exists
<1>9. ASSUME \/ EndPass \/ Exit \/ VaultAnswers \/ VaultRefuses \/ ReadStatus \/ Start
             \/ VaultFails \/ Stop \/ EditProject \/ TimePasses \/ UNCHANGED vars
      PROVE  ListedRowsExist' /\ NoOrphans'
  BY <1>1, <1>9 DEF EndPass, Exit, VaultAnswers, VaultRefuses, ReadStatus, Start, VaultFails,
     Stop, EditProject, TimePasses, Tick, vars, loopVars, storeVars, Exists
<1> QED
  BY <1>2, <1>3, <1>4, <1>5, <1>6, <1>7, <1>8, <1>9 DEF Next, LoopStep, Disturbance

\* How one step may change the cluster.
LEMMA ClusterChanges ==
    ASSUME TypeOK, LoopShape, [Next]_vars
    PROVE  \/ UNCHANGED cluster
           \/ /\ pc \in KubernetesStage \ {"readStatus"}
              /\ Calls(pc, config)
              /\ cluster' = Called(pc)
           \/ \E d \in Demo, b \in BOOLEAN :
                /\ cluster' = [cluster EXCEPT ![d].available = b]
                /\ b => cluster[d].deployment # None
<1>1. CASE KubernetesCall \/ KubernetesFails
  BY <1>1 DEF KubernetesCall, KubernetesFails
<1>2. CASE \E d \in Demo : LosesAvailability(d) \/ BecomesAvailable(d)
  BY <1>2 DEF LosesAvailability, BecomesAvailable
<1>3. CASE UNCHANGED cluster
  BY <1>3
<1>4. \/ KubernetesCall \/ KubernetesFails
      \/ \E d \in Demo : LosesAvailability(d) \/ BecomesAvailable(d)
      \/ UNCHANGED cluster
  BY DEF Next, LoopStep, Disturbance, Deploy, Destroy, StartPass, BeginDelete, BeginReconcile,
     EndPass, Exit, VaultAnswers, VaultRefuses, ReadStatus, RecordApplied, RecordDeleted,
     RecordFailed, Start, VaultFails, StoreFails, Stop, Crash, EditProject, TimePasses, vars
<1> QED
  BY <1>1, <1>2, <1>3, <1>4

LEMMA RenderedFacts ==
    ASSUME NEW row \in Row, NEW p \in Project
    PROVE  /\ Rendered(row, p) \in DeploymentSpec
           /\ Rendered(row, p) # None
           /\ Rendered(row, p).rev = row.rev
           /\ Rendered(row, p).env = p.env
           /\ Rendered(row, p).secret = p.secret
           /\ p.port \in Port /\ p.port # None
           /\ p.env \in BOOLEAN /\ p.secret \in BOOLEAN
<1>1. p.port \in Port /\ p.env \in BOOLEAN /\ p.secret \in BOOLEAN
  BY ProjectAssumption DEF ProjectConfig
<1>2. Rendered(row, p) \in DeploymentSpec
  BY <1>1 DEF Rendered, DeploymentSpec, Row
<1> QED
  BY <1>1, <1>2, ObjectAssumption, NullAssumption DEF Rendered

\* What is available is deployed, and what is deployed has what it refers to.
LEMMA ObjectsStep ==
    ASSUME TypeOK, Inv, [Next]_vars
    PROVE  AvailableIsDeployed' /\ RefsResolve'
<1> USE DEF Inv
<1>1. CASE UNCHANGED cluster
  BY <1>1 DEF AvailableIsDeployed, RefsResolve
<1>2. CASE /\ pc \in KubernetesStage \ {"readStatus"}
           /\ Calls(pc, config)
           /\ cluster' = Called(pc)
  <2>1. cur \in Demo /\ queue[cur] \in Row /\ cluster[cur] \in DemoObjects
    BY <1>2, CalledFacts
  <2>2. pc \in ApplyStage => /\ Rendered(queue[cur], config) # None
                             /\ Rendered(queue[cur], config).env = config.env
                             /\ Rendered(queue[cur], config).secret = config.secret
                             /\ config.port # None
                             /\ config.env \in BOOLEAN /\ config.secret \in BOOLEAN
    BY <2>1, RenderedFacts DEF LoopShape
  <2>3. cluster'[cur].available => cluster'[cur].deployment # None
    BY <1>2, <2>1, <2>2, CalledFacts DEF AvailableIsDeployed, ApplyStage
  <2>4. cluster'[cur].deployment # None =>
          /\ cluster'[cur].service # None
          /\ cluster'[cur].deployment.env => cluster'[cur].configMap
          /\ cluster'[cur].deployment.secret => cluster'[cur].secret
    <3> SUFFICES ASSUME cluster'[cur].deployment # None
                 PROVE  /\ cluster'[cur].service # None
                        /\ cluster'[cur].deployment.env => cluster'[cur].configMap
                        /\ cluster'[cur].deployment.secret => cluster'[cur].secret
      OBVIOUS
    <3>1. CASE pc = "applyDeployment"
      BY <1>2, <2>2, <3>1, CalledFacts DEF ApplyProgress, ApplyStage
    <3>2. CASE pc \in {"pruneConfigMap", "pruneSecret"}
      <4>1. /\ cluster[cur].deployment = Rendered(queue[cur], config)
            /\ cluster[cur].service = config.port
            /\ config.env => cluster[cur].configMap
            /\ config.secret => cluster[cur].secret
        BY <3>2 DEF ApplyProgress
      <4> QED
        BY <1>2, <2>2, <3>2, <4>1, CalledFacts DEF Calls, ApplyStage
    <3>3. CASE pc \in {"applyConfigMap", "applySecret", "applyService"}
      BY <1>2, <2>1, <2>2, <3>3, CalledFacts DEF RefsResolve, ApplyStage
    <3>4. CASE pc \in DeleteStage
      BY <1>2, <2>1, <3>4, CalledFacts DEF DeleteProgress, DeleteStage
    <3> QED
      BY <1>2, <3>1, <3>2, <3>3, <3>4 DEF ApplyStage
  <2>5. \A d \in Demo \ {cur} : cluster'[d] = cluster[d]
    BY <1>2, CalledFacts
  <2> QED
    BY <2>1, <2>3, <2>4, <2>5 DEF AvailableIsDeployed, RefsResolve
<1>3. ASSUME NEW d \in Demo, NEW b \in BOOLEAN,
             cluster' = [cluster EXCEPT ![d].available = b],
             b => cluster[d].deployment # None
      PROVE  AvailableIsDeployed' /\ RefsResolve'
  <2>1. /\ cluster'[d].available = b
        /\ cluster'[d].deployment = cluster[d].deployment
        /\ cluster'[d].service = cluster[d].service
        /\ cluster'[d].configMap = cluster[d].configMap
        /\ cluster'[d].secret = cluster[d].secret
        /\ \A e \in Demo \ {d} : cluster'[e] = cluster[e]
    BY <1>3 DEF TypeOK, DemoObjects
  <2> QED
    BY <1>3, <2>1 DEF AvailableIsDeployed, RefsResolve
<1> QED
  BY <1>1, <1>2, <1>3, ClusterChanges

\* A call establishes what the stages after it rely on.
LEMMA ProgressStep ==
    ASSUME TypeOK, Inv, [Next]_vars
    PROVE  ApplyProgress' /\ DeleteProgress'
<1> USE DEF Inv
<1> DEFINE First == {"idle", "next", "stopped", "dead", "vault", "failing",
                     "applyConfigMap", "deleteDeployment"}
<1>1. ASSUME pc' \in First
      PROVE  ApplyProgress' /\ DeleteProgress'
  BY <1>1 DEF ApplyProgress, DeleteProgress, DeleteStage
<1>2. ASSUME UNCHANGED <<pc, queue, cur, config>>,
             pc \notin First => /\ cluster'[cur].deployment = cluster[cur].deployment
                                /\ cluster'[cur].service = cluster[cur].service
                                /\ cluster'[cur].configMap = cluster[cur].configMap
                                /\ cluster'[cur].secret = cluster[cur].secret
      PROVE  ApplyProgress' /\ DeleteProgress'
  <2>1. CASE pc \in First
    BY <1>1, <1>2, <2>1
  <2>2. CASE pc \notin First
    BY <1>2, <2>2 DEF ApplyProgress, DeleteProgress, DeleteStage
  <2> QED
    BY <2>1, <2>2
<1>3. ASSUME UNCHANGED <<pc, queue, cur, config, cluster>>
      PROVE  ApplyProgress' /\ DeleteProgress'
  BY <1>2, <1>3
<1>4. ASSUME KubernetesCall
      PROVE  ApplyProgress' /\ DeleteProgress'
  <2>1. /\ pc \in KubernetesStage \ {"readStatus"}
        /\ pc' = After[pc]
        /\ UNCHANGED <<queue, cur, config>>
        /\ cluster' = IF Calls(pc, config) THEN Called(pc) ELSE cluster
    BY <1>4 DEF KubernetesCall
  <2>2. cur \in Demo /\ queue[cur] \in Row /\ cluster[cur] \in DemoObjects
    BY <2>1, CalledFacts
  <2>3. CASE pc \in DeleteStage
    <3>1. cluster' = Called(pc)
      BY <2>1, <2>3 DEF Calls, DeleteStage
    <3>2. /\ cluster'[cur].deployment =
               IF pc = "deleteDeployment" THEN None ELSE cluster[cur].deployment
          /\ cluster'[cur].service =
               IF pc = "deleteService" THEN None ELSE cluster[cur].service
          /\ cluster'[cur].configMap =
               IF pc = "deleteConfigMap" THEN FALSE ELSE cluster[cur].configMap
          /\ cluster'[cur].secret =
               IF pc = "deleteSecret" THEN FALSE ELSE cluster[cur].secret
      BY <2>1, <2>3, <3>1, CalledFacts DEF DeleteStage
    <3>3. pc' \in {"deleteService", "deleteConfigMap", "deleteSecret", "deleteRecord"}
      BY <2>1, <2>3 DEF After, DeleteStage
    <3>4. ApplyProgress'
      BY <3>3 DEF ApplyProgress
    <3>5. DeleteProgress'
      <4>1. cluster[cur].configMap \in BOOLEAN /\ cluster[cur].secret \in BOOLEAN
        BY <2>2 DEF DemoObjects
      <4>2. CASE pc = "deleteDeployment"
        BY <2>1, <3>2, <4>2 DEF DeleteProgress, DeleteStage, After
      <4>3. CASE pc = "deleteService"
        BY <2>1, <3>2, <4>3 DEF DeleteProgress, DeleteStage, After
      <4>4. CASE pc = "deleteConfigMap"
        <5>1. /\ pc' = "deleteSecret" /\ cur' = cur
              /\ cluster'[cur].deployment = None
              /\ cluster'[cur].service = None
              /\ cluster'[cur].configMap = FALSE
          BY <2>1, <3>2, <4>4 DEF DeleteProgress, DeleteStage, After
        <5> QED
          BY <5>1 DEF DeleteProgress, DeleteStage
      <4>5. CASE pc = "deleteSecret"
        <5>1. /\ pc' = "deleteRecord" /\ cur' = cur
              /\ cluster'[cur].deployment = None
              /\ cluster'[cur].service = None
              /\ cluster'[cur].configMap = FALSE
              /\ cluster'[cur].secret = FALSE
          BY <2>1, <3>2, <4>1, <4>5 DEF DeleteProgress, DeleteStage, After
        <5> QED
          BY <5>1 DEF DeleteProgress, DeleteStage
      <4> QED
        BY <2>3, <4>2, <4>3, <4>4, <4>5 DEF DeleteStage
    <3> QED
      BY <3>4, <3>5
  <2>4. CASE pc \in ApplyStage
    <3> DEFINE r == Rendered(queue[cur], config)
    <3>1. config \in Project /\ config.env \in BOOLEAN /\ config.secret \in BOOLEAN
      BY <2>2, <2>4, RenderedFacts DEF LoopShape
    <3>2. /\ cluster'[cur].deployment =
               IF pc = "applyDeployment" THEN r ELSE cluster[cur].deployment
          /\ cluster'[cur].service =
               IF pc = "applyService" THEN config.port ELSE cluster[cur].service
          /\ cluster'[cur].configMap =
               IF pc = "applyConfigMap" THEN cluster[cur].configMap \/ config.env
               ELSE IF pc = "pruneConfigMap" THEN cluster[cur].configMap /\ config.env
               ELSE cluster[cur].configMap
          /\ cluster'[cur].secret =
               IF pc = "applySecret" THEN cluster[cur].secret \/ config.secret
               ELSE IF pc = "pruneSecret" THEN cluster[cur].secret /\ config.secret
               ELSE cluster[cur].secret
      <4>1. cluster[cur].configMap \in BOOLEAN /\ cluster[cur].secret \in BOOLEAN
        BY <2>2 DEF DemoObjects
      <4>2. CASE Calls(pc, config)
        BY <2>1, <2>4, <3>1, <4>1, <4>2, CalledFacts DEF Calls, ApplyStage
      <4>3. CASE ~Calls(pc, config)
        BY <2>1, <2>4, <3>1, <4>1, <4>3 DEF Calls, ApplyStage
      <4> QED
        BY <4>2, <4>3
    <3>3. r' = r /\ config' = config /\ cur' = cur
      BY <2>1 DEF Rendered
    <3>4. pc' \in {"applySecret", "applyService", "applyDeployment", "pruneConfigMap",
                   "pruneSecret", "readStatus"}
      BY <2>1, <2>4 DEF After, ApplyStage
    <3>5. DeleteProgress'
      BY <3>4 DEF DeleteProgress, DeleteStage
    <3>6. CASE pc \in {"applyConfigMap", "applySecret", "applyService"}
      BY <2>1, <3>1, <3>2, <3>3, <3>5, <3>6 DEF ApplyProgress, After
    <3>7. CASE pc = "applyDeployment"
      BY <2>1, <3>1, <3>2, <3>3, <3>5, <3>7 DEF ApplyProgress, After
    <3>8. CASE pc \in {"pruneConfigMap", "pruneSecret"}
      <4>1. cluster[cur].configMap \in BOOLEAN /\ cluster[cur].secret \in BOOLEAN
        BY <2>2 DEF DemoObjects
      <4> QED
        BY <2>1, <3>1, <3>2, <3>3, <3>5, <3>8, <4>1 DEF ApplyProgress, After
    <3> QED
      BY <2>1, <2>4, <3>6, <3>7, <3>8 DEF ApplyStage
  <2> QED
    BY <2>1, <2>3, <2>4
<1>5. ASSUME ReadStatus
      PROVE  ApplyProgress' /\ DeleteProgress'
  <2>1. pc = "readStatus" /\ pc' \in ApplyDone /\ UNCHANGED <<cluster, queue, cur, config>>
    BY <1>5 DEF ReadStatus
  <2> QED
    BY <2>1 DEF ApplyProgress, DeleteProgress, DeleteStage, Rendered
<1>6. ASSUME \/ \E d \in Demo : BeginDelete(d) \/ BeginReconcile(d)
             \/ StartPass \/ EndPass \/ Exit \/ VaultAnswers \/ VaultRefuses
             \/ RecordApplied \/ RecordDeleted \/ RecordFailed \/ Start
             \/ VaultFails \/ KubernetesFails \/ StoreFails \/ Crash
      PROVE  ApplyProgress' /\ DeleteProgress'
  <2>1. pc' \in First
    BY <1>6 DEF StartPass, BeginDelete, BeginReconcile, EndPass, Exit, VaultAnswers,
       VaultRefuses, RecordApplied, RecordDeleted, RecordFailed, Start, VaultFails,
       KubernetesFails, StoreFails, Crash, NextRecord, Lose
  <2> QED
    BY <1>1, <2>1
<1>7. ASSUME Stop
      PROVE  ApplyProgress' /\ DeleteProgress'
  BY <1>1, <1>3, <1>7 DEF Stop
<1>8. ASSUME NEW d \in Demo, LosesAvailability(d) \/ BecomesAvailable(d)
      PROVE  ApplyProgress' /\ DeleteProgress'
  <2>1. UNCHANGED <<pc, queue, cur, config>>
    BY <1>8 DEF LosesAvailability, BecomesAvailable, loopVars
  <2>2. pc \notin First => cur \in Demo
    BY DEF LoopShape, TypeOK, Location, Busy
  <2>3. \A e \in Demo : /\ cluster'[e].deployment = cluster[e].deployment
                        /\ cluster'[e].service = cluster[e].service
                        /\ cluster'[e].configMap = cluster[e].configMap
                        /\ cluster'[e].secret = cluster[e].secret
    BY <1>8 DEF LosesAvailability, BecomesAvailable, TypeOK, DemoObjects
  <2> QED
    BY <1>2, <2>1, <2>2, <2>3
<1>9. ASSUME \/ \E q \in Delivery : Deploy(q) \/ Destroy(q)
             \/ EditProject \/ TimePasses \/ UNCHANGED vars
      PROVE  ApplyProgress' /\ DeleteProgress'
  BY <1>3, <1>9 DEF Deploy, Destroy, EditProject, TimePasses, vars, loopVars
<1> QED
  BY <1>4, <1>5, <1>6, <1>7, <1>8, <1>9 DEF Next, LoopStep, Disturbance

\* Every revision number is an integer.
LEMMA RevType ==
    ASSUME TypeOK
    PROVE  /\ accepted \in Int
           /\ \A d \in Demo : Exists(d) => demos[d].rev \in Int
           /\ \A d \in Demo : queue[d] # NoRow => queue[d].rev \in Int
           /\ \A d \in Demo : cluster[d].deployment # None =>
                                /\ cluster[d].deployment.rev \in Int
                                /\ cluster[d] # Nothing
<1>1. accepted \in Int
  BY BoundAssumption DEF TypeOK, StoreTypeOK
<1>2. \A d \in Demo : /\ Exists(d) => demos[d] \in Row
                      /\ queue[d] # NoRow => queue[d] \in Row
                      /\ cluster[d] \in DemoObjects
  BY DEF TypeOK, StoreTypeOK, Exists
<1>3. \A d \in Demo : cluster[d].deployment # None => cluster[d].deployment \in DeploymentSpec
  BY <1>2 DEF DemoObjects
<1> QED
  BY <1>1, <1>2, <1>3 DEF Row, DeploymentSpec, Nothing

\* The order of revisions survives every step.
LEMMA RevStep ==
    ASSUME TypeOK, Inv, [Next]_vars
    PROVE  RevOrder'
<1> USE DEF Inv
<1>1. ASSUME NEW q \in Delivery, Deploy(q) \/ Destroy(q)
      PROVE  RevOrder'
  <2>1. /\ demos'[q.demo] # NoRow
        /\ demos'[q.demo].rev = accepted + 1
        /\ accepted' = accepted + 1
        /\ \A e \in Demo \ {q.demo} : demos'[e] = demos[e]
        /\ UNCHANGED <<cluster, queue>>
    BY <1>1, RequestFacts
  <2> SUFFICES ASSUME NEW d \in Demo
               PROVE  /\ demos'[d] # NoRow => demos'[d].rev <= accepted'
                      /\ queue[d] # NoRow /\ demos'[d] # NoRow =>
                           /\ queue[d].rev <= demos'[d].rev
                           /\ queue[d].rev = demos'[d].rev =>
                                /\ queue[d].present = demos'[d].present
                                /\ queue[d].expires = demos'[d].expires
                      /\ cluster[d].deployment # None =>
                           /\ demos'[d] # NoRow => cluster[d].deployment.rev <= demos'[d].rev
                           /\ queue[d] # NoRow => cluster[d].deployment.rev <= queue[d].rev
    BY <2>1 DEF RevOrder, Exists
  <2>2. /\ queue[d] # NoRow => Exists(d)
        /\ cluster[d].deployment # None => Exists(d)
    BY RevType DEF ListedRowsExist, NoOrphans
  <2>3. CASE d = q.demo
    BY <2>1, <2>2, <2>3, RevType DEF RevOrder
  <2>4. CASE d # q.demo
    BY <2>1, <2>4, RevType DEF RevOrder, Exists
  <2> QED
    BY <2>3, <2>4
<1>2. ASSUME \/ \E d \in Demo : BeginDelete(d) \/ BeginReconcile(d)
             \/ RecordApplied \/ RecordFailed \/ StoreFails
      PROVE  RevOrder'
  <2>1. UNCHANGED <<accepted, cluster>>
    BY <1>2 DEF BeginDelete, BeginReconcile, RecordApplied, RecordFailed, StoreFails
  <2>2. \A d \in Demo : queue'[d] # NoRow => queue'[d] = queue[d]
    BY <1>2, QueueShrinks
  <2>3. \A d \in Demo : /\ demos'[d] # NoRow <=> Exists(d)
                        /\ Exists(d) => /\ demos'[d].rev = demos[d].rev
                                        /\ demos'[d].present = demos[d].present
                                        /\ demos'[d].expires = demos[d].expires
    BY <1>2, LoopWriteFacts
  <2> QED
    BY <2>1, <2>2, <2>3 DEF RevOrder, Exists
<1>3. ASSUME StartPass
      PROVE  RevOrder'
  <2>1. /\ UNCHANGED <<accepted, cluster, demos>>
        /\ \A d \in Demo : queue'[d] # NoRow => queue'[d] = demos[d]
    BY <1>3 DEF StartPass, ListReconcilable, storeVars
  <2> QED
    BY <2>1, RevType DEF RevOrder, Exists
<1>4. ASSUME RecordDeleted
      PROVE  RevOrder'
  <2>1. cur \in Demo /\ cluster[cur].deployment = None
    BY <1>4 DEF RecordDeleted, LoopShape, Busy, DeleteProgress
  <2>2. /\ demos'[cur] = NoRow /\ queue'[cur] = NoRow
        /\ \A d \in Demo \ {cur} : demos'[d] = demos[d] /\ queue'[d] = queue[d]
        /\ UNCHANGED <<cluster, accepted>>
    BY <1>4, <2>1 DEF RecordDeleted, DeleteRecord, NextRecord, TypeOK, StoreTypeOK
  <2> QED
    BY <2>1, <2>2 DEF RevOrder, Exists
<1>5. ASSUME UNCHANGED <<accepted, demos, cluster>>,
             \A d \in Demo : queue'[d] # NoRow => queue'[d] = queue[d]
      PROVE  RevOrder'
  BY <1>5 DEF RevOrder, Exists
<1>6. ASSUME KubernetesCall \/ KubernetesFails
      PROVE  RevOrder'
  <2>1. UNCHANGED <<accepted, demos, queue>>
    BY <1>6 DEF KubernetesCall, KubernetesFails, storeVars
  <2>2. CASE UNCHANGED cluster
    BY <1>5, <2>1, <2>2
  <2>3. CASE pc \in KubernetesStage \ {"readStatus"} /\ cluster' = Called(pc)
    <3>1. /\ cur \in Demo /\ queue[cur] \in Row
          /\ \A d \in Demo \ {cur} : cluster'[d] = cluster[d]
          /\ cluster'[cur].deployment =
               IF pc = "applyDeployment" THEN Rendered(queue[cur], config)
               ELSE IF pc = "deleteDeployment" THEN None ELSE cluster[cur].deployment
      BY <2>3, CalledFacts
    <3>2. queue[cur] # NoRow /\ Exists(cur)
      BY <2>3 DEF LoopShape, Busy, ListedRowsExist
    <3>3. pc = "applyDeployment" => Rendered(queue[cur], config).rev = queue[cur].rev
      BY DEF Rendered
    <3> QED
      BY <2>1, <3>1, <3>2, <3>3, RevType DEF RevOrder, Exists
  <2> QED
    BY <1>6, <2>2, <2>3 DEF KubernetesCall, KubernetesFails
<1>7. ASSUME NEW d \in Demo, LosesAvailability(d) \/ BecomesAvailable(d)
      PROVE  RevOrder'
  <2>1. UNCHANGED <<accepted, demos, queue>>
    BY <1>7 DEF LosesAvailability, BecomesAvailable, loopVars, storeVars
  <2>2. \A e \in Demo : cluster'[e].deployment = cluster[e].deployment
    BY <1>7 DEF LosesAvailability, BecomesAvailable, TypeOK, DemoObjects
  <2> QED
    BY <2>1, <2>2 DEF RevOrder, Exists
<1>8. ASSUME Crash
      PROVE  RevOrder'
  BY <1>5, <1>8, QueueShrinks DEF Crash, storeVars
<1>9. ASSUME \/ EndPass \/ Exit \/ VaultAnswers \/ VaultRefuses \/ ReadStatus \/ Start
             \/ VaultFails \/ Stop \/ EditProject \/ TimePasses \/ UNCHANGED vars
      PROVE  RevOrder'
  BY <1>5, <1>9 DEF EndPass, Exit, VaultAnswers, VaultRefuses, ReadStatus, Start, VaultFails,
     Stop, EditProject, TimePasses, Tick, vars, loopVars, storeVars
<1> QED
  BY <1>1, <1>2, <1>3, <1>4, <1>6, <1>7, <1>8, <1>9 DEF Next, LoopStep, Disturbance

-----------------------------------------------------------------------------
(* The theorems. *)

LEMMA InitInv == Init => Inv
<1> SUFFICES ASSUME Init PROVE Inv
  OBVIOUS
<1>1. LoopShape
  BY InitType
<1>2. \A d \in Demo : demos[d] = NoRow /\ queue[d] = NoRow /\ cluster[d] = Nothing
  BY DEF Init, StoreInit, NoQueue
<1>3. ListedRowsExist /\ AvailableIsDeployed /\ NoOrphans /\ RefsResolve /\ RevOrder
  <2>1. Nothing.deployment = None /\ Nothing.available = FALSE
    BY DEF Nothing
  <2>2. AvailableIsDeployed
    BY <1>2, <2>1 DEF AvailableIsDeployed
  <2>3. RefsResolve /\ RevOrder
    BY <1>2, <2>1 DEF RefsResolve, RevOrder, Exists
  <2> QED
    BY <1>2, <2>2, <2>3 DEF ListedRowsExist, NoOrphans
<1>4. ApplyProgress /\ DeleteProgress
  BY DEF Init, ApplyProgress, DeleteProgress, DeleteStage
<1> QED
  BY <1>1, <1>3, <1>4 DEF Inv

LEMMA InvStep ==
    ASSUME TypeOK, Inv, [Next]_vars
    PROVE  Inv'
<1>1. LoopShape'
  BY LoopShapeStep DEF Inv
<1> QED
  BY <1>1, RowsStep, ObjectsStep, ProgressStep, RevStep DEF Inv

\* The inductive invariant holds of every behaviour.
THEOREM Invariance == Spec => [](TypeOK /\ Inv)
<1>1. Init => TypeOK /\ Inv
  BY InitType, InitInv
<1>2. TypeOK /\ Inv /\ [Next]_vars => (TypeOK /\ Inv)'
  <2>1. Inv => LoopShape
    BY DEF Inv
  <2> QED
    BY <2>1, TypeStep, InvStep
<1> QED
  BY <1>1, <1>2, PTL DEF Spec

\* Whatever faults, crashes and stale records: no object outlives its row.
THEOREM NoOrphansHolds == Spec => []NoOrphans
<1>1. Inv => NoOrphans
  BY DEF Inv
<1> QED
  BY <1>1, Invariance, PTL

\* A Deployment always has its Service, and the ConfigMap and Secret it names.
THEOREM RefsResolveHolds == Spec => []RefsResolve
<1>1. Inv => RefsResolve
  BY DEF Inv
<1> QED
  BY <1>1, Invariance, PTL

\* When the loop records an outcome, the cluster agrees with it.
THEOREM OutcomeIsTrueHolds == Spec => []OutcomeIsTrue
<1>1. TypeOK /\ Inv => OutcomeIsTrue
  <2> SUFFICES ASSUME TypeOK, Inv PROVE OutcomeIsTrue
    OBVIOUS
  <2>1. CASE pc \in ApplyDone
    BY <2>1 DEF Inv, ApplyProgress, OutcomeIsTrue
  <2>2. CASE pc = "deleteRecord"
    <3>1. cur \in Demo /\ cluster[cur] \in DemoObjects
      BY <2>2 DEF Inv, LoopShape, Busy, TypeOK
    <3>2. /\ cluster[cur].deployment = None
          /\ cluster[cur].service = None
          /\ cluster[cur].configMap = FALSE
          /\ cluster[cur].secret = FALSE
      BY <2>2, <3>1 DEF Inv, DeleteProgress, DemoObjects, DeleteStage
    <3>3. cluster[cur].available = FALSE
      BY <3>1, <3>2 DEF Inv, AvailableIsDeployed, DemoObjects
    <3> QED
      BY <2>2, <3>1, <3>2, <3>3 DEF DemoObjects, Nothing, OutcomeIsTrue
  <2> QED
    BY <2>1, <2>2 DEF OutcomeIsTrue
<1> QED
  BY <1>1, Invariance, PTL

\* How one step may change a row that it does not delete.
LEMMA RowRevGrows ==
    ASSUME TypeOK, Inv, [Next]_vars, NEW d \in Demo, Exists(d), demos'[d] # NoRow
    PROVE  demos[d].rev <= demos'[d].rev
<1>1. demos[d].rev \in Int /\ accepted \in Int /\ demos[d].rev <= accepted
  BY RevType DEF Inv, RevOrder
<1>2. CASE \E q \in Delivery : Deploy(q) \/ Destroy(q)
  BY <1>1, <1>2, RequestFacts
<1>3. CASE \/ \E e \in Demo : BeginDelete(e) \/ BeginReconcile(e)
           \/ RecordApplied \/ RecordFailed \/ StoreFails
  BY <1>1, <1>3, LoopWriteFacts DEF Inv
<1>4. CASE RecordDeleted
  BY <1>1, <1>4 DEF RecordDeleted, DeleteRecord, TypeOK, StoreTypeOK
<1>5. CASE UNCHANGED demos
  BY <1>1, <1>5
<1>6. \/ \E q \in Delivery : Deploy(q) \/ Destroy(q)
      \/ \E e \in Demo : BeginDelete(e) \/ BeginReconcile(e)
      \/ RecordApplied \/ RecordFailed \/ StoreFails \/ RecordDeleted
      \/ UNCHANGED demos
  BY DEF Next, LoopStep, Disturbance, StartPass, EndPass, Exit, VaultAnswers, VaultRefuses,
     KubernetesCall, ReadStatus, Start, VaultFails, KubernetesFails, Stop, Crash,
     LosesAvailability, BecomesAvailable, EditProject, TimePasses, Tick, vars, storeVars
<1> QED
  BY <1>2, <1>3, <1>4, <1>5, <1>6

\* How one step may change a Deployment.
LEMMA DeploymentChanges ==
    ASSUME TypeOK, Inv, [Next]_vars, NEW d \in Demo
    PROVE  \/ cluster'[d].deployment = cluster[d].deployment
           \/ /\ d = cur /\ queue[d] # NoRow
              /\ cluster'[d].deployment # None
              /\ cluster'[d].deployment.rev = queue[d].rev
           \/ /\ d = cur /\ queue[d] # NoRow
              /\ Withdrawn(queue[d], now)
              /\ cluster'[d].deployment = None
<1>1. LoopShape
  BY DEF Inv
<1>2. CASE UNCHANGED cluster
  BY <1>2
<1>3. CASE pc \in KubernetesStage \ {"readStatus"} /\ cluster' = Called(pc)
  <2>1. queue[cur] # NoRow
    BY <1>1, <1>3 DEF LoopShape, Busy
  <2>2. pc = "deleteDeployment" => Withdrawn(queue[cur], now)
    BY <1>1 DEF LoopShape, DeleteStage
  <2>3. pc = "applyDeployment" => /\ Rendered(queue[cur], config).rev = queue[cur].rev
                                  /\ Rendered(queue[cur], config) # None
    BY <1>1, <1>3, CalledFacts, RenderedFacts DEF LoopShape, ApplyStage
  <2> QED
    BY <1>1, <1>3, <2>1, <2>2, <2>3, CalledFacts
<1>4. ASSUME NEW e \in Demo, NEW b \in BOOLEAN, cluster' = [cluster EXCEPT ![e].available = b]
      PROVE  cluster'[d].deployment = cluster[d].deployment
  BY <1>4 DEF TypeOK, DemoObjects
<1> QED
  BY <1>1, <1>2, <1>3, <1>4, ClusterChanges

\* Neither a row nor a Deployment goes back to an older request.
THEOREM NoRollbackHolds == Spec => NoRollback
<1>1. TypeOK /\ Inv /\ [Next]_vars => \A d \in Demo : KeepsNewest(d)
  <2> SUFFICES ASSUME TypeOK, Inv, [Next]_vars, NEW d \in Demo
               PROVE  KeepsNewest(d)
    OBVIOUS
  <2>1. Exists(d) /\ Exists(d)' => demos[d].rev <= demos'[d].rev
    BY RowRevGrows DEF Exists
  <2>2. cluster[d].deployment # None /\ cluster'[d].deployment # None =>
          cluster[d].deployment.rev <= cluster'[d].deployment.rev
    BY DeploymentChanges, RevType DEF Inv, RevOrder
  <2> QED
    BY <2>1, <2>2 DEF KeepsNewest
<1> QED
  BY <1>1, Invariance, PTL DEF Spec, NoRollback

\* The loop does not delete the Deployment of a request that is still desired.
THEOREM NoLiveTeardownHolds == Spec => NoLiveTeardown
<1>1. TypeOK /\ Inv /\ [Next]_vars => \A d \in Demo : SparesTheLive(d)
  <2> SUFFICES ASSUME TypeOK, Inv, [Next]_vars, NEW d \in Demo,
                      cluster[d].deployment # None, cluster'[d].deployment = None, Exists(d)
               PROVE  Withdrawn(demos[d], now) \/ cluster[d].deployment.rev < demos[d].rev
    BY DEF SparesTheLive
  <2>1. CASE queue[d] # NoRow /\ Withdrawn(queue[d], now)
    <3>1. /\ cluster[d].deployment.rev <= queue[d].rev
          /\ queue[d].rev <= demos[d].rev
          /\ queue[d].rev = demos[d].rev =>
               /\ queue[d].present = demos[d].present
               /\ queue[d].expires = demos[d].expires
      BY <2>1 DEF Inv, RevOrder
    <3>2. CASE queue[d].rev = demos[d].rev
      BY <2>1, <3>1, <3>2 DEF Withdrawn
    <3>3. CASE queue[d].rev # demos[d].rev
      BY <2>1, <3>1, <3>3, RevType
    <3> QED
      BY <3>2, <3>3
  <2> QED
    BY <2>1, DeploymentChanges
<1> QED
  BY <1>1, Invariance, PTL DEF Spec, NoLiveTeardown
=============================================================================
