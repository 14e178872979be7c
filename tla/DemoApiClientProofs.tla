------------------------- MODULE DemoApiClientProofs -------------------------
(***************************************************************************)
(* Theorems about the workflows of a pull request and the controller they  *)
(* talk to: for every set of demos, requests and configurations, every     *)
(* order in which requests arrive and every bound.                         *)
(***************************************************************************)
EXTENDS DemoApiClient, DemoRefinementProofs

-----------------------------------------------------------------------------
(* The controller, as its clients see it. *)

\* What the controller does on its own.
OwnStep ==
    \/ LoopStep \/ Disturbance \/ TimePasses
    \/ \E d \in Demo : BecomesAvailable(d)
    \/ UNCHANGED vars

LEMMA OwnIsNext == OwnStep => [Next]_vars
  BY DEF OwnStep, Next

LEMMA RequestIsNext ==
    ASSUME NEW q \in Delivery, Deploy(q) \/ Destroy(q)
    PROVE  [Next]_vars
BY DEF Next

LEMMA DeliveryFacts ==
    ASSUME NEW q \in Delivery
    PROVE  q.demo \in Demo /\ q.id \in DeliveryId /\ q.op \in {"deploy", "destroy"}
BY RequestAssumption DEF Request

\* The row that a request writes.
LEMMA RequestedRow ==
    ASSUME TypeOK, NEW q \in Delivery, Deploy(q) \/ Destroy(q)
    PROVE  /\ demos'[q.demo] # NoRow
           /\ demos'[q.demo].delivery = q.id
           /\ demos'[q.demo].present = (q.op = "deploy")
           /\ q.op = "deploy" => demos'[q.demo].expires = now + Lifetime
           /\ demos'[q.demo].state # "ready"
           /\ \A d \in Demo \ {q.demo} : demos'[d] = demos[d]
           /\ received' = received \cup {q.id}
           /\ UNCHANGED <<now, cluster, queue>>
<1>1. /\ q.demo \in Demo /\ demos'[q.demo] # NoRow
      /\ \A d \in Demo \ {q.demo} : demos'[d] = demos[d]
      /\ UNCHANGED <<now, cluster, queue>>
  BY RequestFacts
<1>2. received' = received \cup {q.id}
  BY DEF Deploy, Destroy, Accept
<1>3. CASE Deploy(q)
  <2>1. q.op = "deploy" /\ UpsertDeploy(q)
    BY <1>3 DEF Deploy
  <2> QED
    BY <1>1, <1>2, <2>1 DEF UpsertDeploy, TypeOK, StoreTypeOK
<1>4. CASE Destroy(q)
  <2>1. q.op = "destroy" /\ RequestDestroy(q)
    BY <1>4 DEF Destroy
  <2> QED
    BY <1>1, <1>2, <2>1 DEF RequestDestroy, TypeOK, StoreTypeOK
<1> QED
  BY <1>3, <1>4

\* The clock does not go back, and only requests are received.
LEMMA OwnQuiet ==
    ASSUME TypeOK, OwnStep
    PROVE  received' = received /\ now' \in Int /\ now \in Int /\ now =< now'
<1>1. now \in Int
  BY BoundAssumption DEF TypeOK, StoreTypeOK
<1>2. CASE TimePasses
  BY <1>1, <1>2 DEF TimePasses, Tick
<1>3. CASE ~ TimePasses
  <2>1. now' = now /\ received' = received
    BY <1>3 DEF OwnStep, LoopStep, Disturbance, StartPass, BeginDelete, BeginReconcile, EndPass,
       Exit, VaultAnswers, VaultRefuses, KubernetesCall, ReadStatus, RecordApplied,
       RecordDeleted, RecordFailed, Start, VaultFails, KubernetesFails, StoreFails, Stop,
       Crash, LosesAvailability, BecomesAvailable, EditProject, vars, storeVars
  <2> QED
    BY <1>1, <2>1
<1> QED
  BY <1>2, <1>3

\* What the controller does on its own to a row: it never makes one; it deletes
\* it, or marks it as being deleted, only if it listed it as withdrawn; and it
\* changes nothing of the request in it, nor takes its port away.
LEMMA OwnRows ==
    ASSUME TypeOK, Inv, OwnStep, NEW d \in Demo
    PROVE  \/ demos'[d] = NoRow /\ ~Exists(d)
           \/ demos'[d] = NoRow /\ queue[d] # NoRow /\ Withdrawn(queue[d], now)
           \/ /\ demos'[d] # NoRow /\ Exists(d)
              /\ demos'[d].delivery = demos[d].delivery
              /\ demos'[d].present = demos[d].present
              /\ demos'[d].expires = demos[d].expires
              /\ demos[d].port # None => demos'[d].port # None
              /\ \/ demos'[d].state = demos[d].state
                 \/ demos'[d].state # "deleting"
                 \/ queue[d] # NoRow /\ Withdrawn(queue[d], now)
<1> USE DEF Inv
<1>1. ASSUME NEW e \in Demo, NEW state \in DemoState, NEW port \in Port \cup {None},
             UpdateState(e, state, port),
             state = "deleting" => queue[e] # NoRow /\ Withdrawn(queue[e], now)
      PROVE  \/ demos'[d] = NoRow /\ ~Exists(d)
             \/ /\ demos'[d] # NoRow /\ Exists(d)
                /\ demos'[d].delivery = demos[d].delivery
                /\ demos'[d].present = demos[d].present
                /\ demos'[d].expires = demos[d].expires
                /\ demos[d].port # None => demos'[d].port # None
                /\ \/ demos'[d].state = demos[d].state
                   \/ demos'[d].state # "deleting"
                   \/ queue[d] # NoRow /\ Withdrawn(queue[d], now)
  <2>1. StoreTypeOK
    BY DEF TypeOK
  <2>2. /\ demos'[d] # NoRow <=> Exists(d)
        /\ Exists(d) => /\ demos'[d].delivery = demos[d].delivery
                        /\ demos'[d].present = demos[d].present
                        /\ demos'[d].expires = demos[d].expires
    BY <1>1, <2>1, UpdateStateFacts
  <2>3. CASE Exists(e)
    <3>1. /\ demos'[e].state = state
          /\ demos'[e].port = IF port = None THEN demos[e].port ELSE port
          /\ \A f \in Demo \ {e} : demos'[f] = demos[f]
      BY <1>1, <2>1, <2>3, UpdatedRow
    <3> QED
      BY <1>1, <2>2, <3>1
  <2>4. CASE ~Exists(e)
    BY <1>1, <2>2, <2>4 DEF UpdateState
  <2> QED
    BY <2>3, <2>4
<1>2. CASE \E e \in Demo : BeginDelete(e) \/ BeginReconcile(e)
  BY <1>1, <1>2 DEF BeginDelete, BeginReconcile, DemoState
<1>3. CASE RecordApplied
  <2>1. cur \in Demo /\ config.port \in Port
    BY <1>3, ProjectAssumption DEF RecordApplied, LoopShape, Busy, ProjectConfig
  <2> QED
    BY <1>1, <1>3, <2>1 DEF RecordApplied, DemoState
<1>4. CASE pc \in Busy /\ UpdateState(cur, "failed", None)
  <2>1. cur \in Demo
    BY <1>4 DEF LoopShape
  <2> QED
    BY <1>1, <1>4, <2>1 DEF DemoState
<1>5. CASE RecordDeleted
  <2>1. cur \in Demo /\ queue[cur] # NoRow /\ Withdrawn(queue[cur], now)
    BY <1>5 DEF RecordDeleted, LoopShape, Busy
  <2>2. demos'[cur] = NoRow /\ \A e \in Demo \ {cur} : demos'[e] = demos[e]
    BY <1>5, <2>1 DEF RecordDeleted, DeleteRecord, TypeOK, StoreTypeOK
  <2> QED
    BY <2>1, <2>2 DEF Exists
<1>6. CASE UNCHANGED demos
  BY <1>6 DEF Exists
<1>7. \/ \E e \in Demo : BeginDelete(e) \/ BeginReconcile(e)
      \/ RecordApplied
      \/ pc \in Busy /\ UpdateState(cur, "failed", None)
      \/ RecordDeleted
      \/ UNCHANGED demos
  BY DEF OwnStep, LoopStep, Disturbance, StartPass, EndPass, Exit, VaultAnswers, VaultRefuses,
     KubernetesCall, ReadStatus, Start, VaultFails, KubernetesFails, Stop, Crash,
     LosesAvailability, BecomesAvailable, EditProject, TimePasses, Tick, vars, storeVars,
     RecordFailed, StoreFails, Busy
<1> QED
  BY <1>2, <1>3, <1>4, <1>5, <1>6, <1>7

\* What is listed was listed before, or is listed now.
LEMMA OwnListing ==
    ASSUME TypeOK, LoopShape, OwnStep, NEW d \in Demo, queue'[d] # NoRow
    PROVE  queue'[d] = queue[d] \/ (demos' = demos /\ queue'[d] = demos[d] /\ now' = now)
<1>1. CASE StartPass
  BY <1>1 DEF StartPass, ListReconcilable, storeVars
<1>2. CASE \/ \E e \in Demo : BeginDelete(e) \/ BeginReconcile(e)
           \/ RecordApplied \/ RecordDeleted \/ RecordFailed \/ StoreFails \/ Crash
  BY <1>2, QueueShrinks
<1>3. CASE UNCHANGED queue
  BY <1>3
<1> QED
  BY <1>1, <1>2, <1>3 DEF OwnStep, LoopStep, Disturbance, EndPass, Exit, VaultAnswers,
     VaultRefuses, KubernetesCall, ReadStatus, Start, VaultFails, KubernetesFails, Stop,
     LosesAvailability, BecomesAvailable, EditProject, TimePasses, Tick, vars, loopVars

\* The controller takes a Deployment away only if it listed the row as withdrawn.
LEMMA OwnDeployments ==
    ASSUME TypeOK, Inv, OwnStep, NEW d \in Demo, cluster[d].deployment # None
    PROVE  cluster'[d].deployment # None \/ (queue[d] # NoRow /\ Withdrawn(queue[d], now))
BY OwnIsNext, DeploymentChanges

-----------------------------------------------------------------------------
(* The runs. *)

\* Where a run goes when its request is accepted.
LEMMA AcceptedRun ==
    ASSUME RunsInOrder, NEW q \in Delivery, Accepted(q)
    PROVE  /\ Deploy(q) \/ Destroy(q)
           /\ q \in inFlight /\ inFlight' = inFlight \ {q}
           /\ latest' = [latest EXCEPT ![q.demo] = [request |-> q, at |-> now]]
           /\ run' \in [Delivery -> RunState]
           /\ \A r \in Delivery \ {q} : run'[r] = run[r]
           /\ \/ run'[q] = run[q] /\ run[q] = "cancelled"
              \/ run[q] = "sending" /\ run'[q] \in {"polling", "failed"}
<1>1. run \in [Delivery -> RunState] /\ run[q] \in {"sending", "cancelled"}
  BY DEF RunsInOrder, Accepted
<1> QED
  BY <1>1 DEF Accepted, RunState

LEMMA VerdictFacts ==
    ASSUME NEW q \in Delivery
    PROVE  /\ Verdict(q) \in {"polling", "succeeded", "failed"}
           /\ Verdict(q) = "succeeded" /\ q.op = "destroy" => ~Exists(q.demo)
           /\ Verdict(q) = "succeeded" /\ q.op = "deploy" =>
                Exists(q.demo) /\ demos[q.demo].state = "ready"
BY DEF Verdict

\* The steps of the runs and of the network that the controller does not see.
ClientOnly(q) == StartRun(q) \/ NotAccepted(q) \/ Poll(q) \/ PollFails(q)

LEMMA ClientNextCases ==
    ASSUME [ClientNext]_clientAndVars
    PROVE  \/ \E q \in Delivery : Accepted(q)
           \/ \E q \in Delivery : ClientOnly(q) /\ UNCHANGED <<vars, latest>>
           \/ OwnStep /\ UNCHANGED clientVars
BY DEF ClientNext, ClientOnly, ControllerStep, OwnStep, StartRun, NotAccepted, Poll, PollFails,
   clientAndVars

LEMMA ClientIsNext == [ClientNext]_clientAndVars => [Next]_vars
<1> SUFFICES ASSUME [ClientNext]_clientAndVars PROVE [Next]_vars
  OBVIOUS
<1>1. CASE \E q \in Delivery : Accepted(q)
  BY <1>1, RequestIsNext DEF Accepted
<1>2. CASE UNCHANGED vars
  BY <1>2
<1>3. CASE OwnStep
  BY <1>3, OwnIsNext
<1> QED
  BY <1>1, <1>2, <1>3, ClientNextCases

\* Runs and requests stay in order.
LEMMA OrderStep ==
    ASSUME TypeOK, RunsInOrder, SentOnce, [ClientNext]_clientAndVars
    PROVE  RunsInOrder' /\ SentOnce'
<1>1. ASSUME NEW q \in Delivery, Accepted(q)
      PROVE  RunsInOrder' /\ SentOnce'
  <2>1. received' = received \cup {q.id}
    BY <1>1, AcceptedRun, RequestedRow
  <2>2. /\ q \in inFlight /\ inFlight' = inFlight \ {q}
        /\ run' \in [Delivery -> RunState]
        /\ \A r \in Delivery \ {q} : run'[r] = run[r]
        /\ \/ run'[q] = run[q] /\ run[q] = "cancelled"
           \/ run[q] = "sending" /\ run'[q] \in {"polling", "failed"}
    BY <1>1, AcceptedRun
  <2>3. \A r \in Delivery : r.id = q.id => r = q
    BY FreshIdAssumption
  <2>4. latest' \in [Demo -> [request : Delivery \cup {None}, at : Int]]
    <3>1. latest' = [latest EXCEPT ![q.demo] = [request |-> q, at |-> now]] /\ now \in Int
      BY <1>1, AcceptedRun, BoundAssumption DEF TypeOK, StoreTypeOK
    <3> QED
      BY <3>1 DEF SentOnce
  <2>5. \A r \in Delivery : run'[r] \in {"sending", "polling"} => run[r] \in {"sending", "polling"}
    BY <2>2
  <2>6. SentOnce'
    BY <2>1, <2>2, <2>3, <2>4 DEF SentOnce
  <2>7. \A r \in Delivery : run'[r] \in {"polling", "succeeded"} => r.id \in received'
    BY <2>1, <2>2 DEF RunsInOrder
  <2>8. \A r \in inFlight' : run'[r] \in {"sending", "cancelled"} /\ r.id \notin received'
    BY <2>1, <2>2, <2>3 DEF RunsInOrder, SentOnce
  <2>9. \A r, t \in Delivery : r.demo = t.demo /\ run'[r] \in {"sending", "polling"}
                                               /\ run'[t] \in {"sending", "polling"} => r = t
    BY <2>5 DEF RunsInOrder
  <2> QED
    BY <2>2, <2>6, <2>7, <2>8, <2>9 DEF RunsInOrder
<1>2. ASSUME NEW q \in Delivery, StartRun(q), UNCHANGED <<vars, latest>>
      PROVE  RunsInOrder' /\ SentOnce'
  <2>1. /\ run[q] = "queued" /\ inFlight' = inFlight \cup {q} /\ received' = received /\ latest' = latest
        /\ run' = [r \in Delivery |->
                     IF r = q THEN "sending"
                     ELSE IF r.demo = q.demo /\ run[r] \in {"sending", "polling"} THEN "cancelled"
                     ELSE run[r]]
    BY <1>2 DEF StartRun, vars, storeVars
  <2>2. run \in [Delivery -> RunState] /\ run' \in [Delivery -> RunState] /\ q.id \notin received
    BY <2>1 DEF RunsInOrder, SentOnce, RunState
  <2>3. /\ run'[q] = "sending"
        /\ \A r \in Delivery \ {q} :
              \/ run'[r] = run[r] /\ ~ (r.demo = q.demo /\ run[r] \in {"sending", "polling"})
              \/ run[r] \in {"sending", "polling"} /\ run'[r] = "cancelled"
    BY <2>1
  <2>4. SentOnce'
    BY <2>1, <2>3 DEF SentOnce
  <2>5. \A r \in Delivery : run'[r] \in {"polling", "succeeded"} => r.id \in received
    BY <2>3 DEF RunsInOrder
  <2>6. \A r \in inFlight' : run'[r] \in {"sending", "cancelled"} /\ r.id \notin received
    BY <2>1, <2>2, <2>3 DEF RunsInOrder, SentOnce
  <2>7. \A r, t \in Delivery : r.demo = t.demo /\ run'[r] \in {"sending", "polling"}
                                               /\ run'[t] \in {"sending", "polling"} => r = t
    BY <2>3 DEF RunsInOrder
  <2> QED
    BY <2>1, <2>2, <2>4, <2>5, <2>6, <2>7 DEF RunsInOrder
<1>3. ASSUME NEW q \in Delivery, NotAccepted(q) \/ Poll(q) \/ PollFails(q), UNCHANGED <<vars, latest>>
      PROVE  RunsInOrder' /\ SentOnce'
  <2>1. received' = received /\ latest' = latest /\ run \in [Delivery -> RunState]
    BY <1>3 DEF vars, storeVars, RunsInOrder
  <2>2. /\ inFlight' \subseteq inFlight
        /\ run' \in [Delivery -> RunState]
        /\ \A r \in Delivery \ {q} : run'[r] = run[r]
        /\ \/ q \notin inFlight' /\ run'[q] \in {run[q], "failed"} /\ run[q] # "queued"
           \/ run[q] = "polling" /\ run'[q] \in {"succeeded", "failed"}
    <3>1. CASE NotAccepted(q)
      BY <2>1, <3>1 DEF NotAccepted, RunState, RunsInOrder
    <3>2. CASE Poll(q) \/ PollFails(q)
      BY <2>1, <3>2, VerdictFacts DEF Poll, PollFails, RunState
    <3> QED
      BY <1>3, <3>1, <3>2
  <2>3. \A r \in Delivery : run'[r] \in {"sending", "polling"} => run[r] \in {"sending", "polling"}
    BY <2>2
  <2>4. \A r \in Delivery : run'[r] \in {"polling", "succeeded"} => r.id \in received
    BY <2>2 DEF RunsInOrder
  <2>5. \A r \in inFlight' : run'[r] \in {"sending", "cancelled"} /\ r.id \notin received
    BY <2>2 DEF RunsInOrder, SentOnce
  <2>6. SentOnce'
    BY <2>1, <2>2 DEF SentOnce
  <2>7. \A r, t \in Delivery : r.demo = t.demo /\ run'[r] \in {"sending", "polling"}
                                               /\ run'[t] \in {"sending", "polling"} => r = t
    BY <2>3 DEF RunsInOrder
  <2> QED
    BY <2>1, <2>2, <2>4, <2>5, <2>6, <2>7 DEF RunsInOrder
<1>4. ASSUME OwnStep, UNCHANGED clientVars
      PROVE  RunsInOrder' /\ SentOnce'
  BY <1>4, OwnQuiet DEF RunsInOrder, SentOnce, clientVars
<1> QED
  BY <1>1, <1>2, <1>3, <1>4, ClientNextCases DEF ClientOnly

-----------------------------------------------------------------------------
(* What the controller holds of the last request. *)

\* A request that is accepted becomes the last one of its demo; it was not
\* accepted before, and its run has not ended well.
LEMMA NewLatest ==
    ASSUME RunsInOrder, SentOnce, NEW q \in Delivery, Accepted(q)
    PROVE  /\ q.id \notin received
           /\ latest'[q.demo].request = q /\ latest'[q.demo].at = now
           /\ \A d \in Demo \ {q.demo} : latest'[d] = latest[d]
           /\ run'[q] # "succeeded"
           /\ \A r \in Delivery \ {q} : run'[r] = run[r]
<1>1. latest' = [latest EXCEPT ![q.demo] = [request |-> q, at |-> now]] /\ q.demo \in Demo
  BY AcceptedRun, DeliveryFacts
<1>2. latest'[q.demo].request = q /\ latest'[q.demo].at = now
      /\ \A d \in Demo \ {q.demo} : latest'[d] = latest[d]
  BY <1>1 DEF SentOnce
<1> QED
  BY <1>2, AcceptedRun DEF RunsInOrder

\* Its demo's row is written for it; nothing else changes.
LEMMA AcceptedRow ==
    ASSUME TypeOK, RunsInOrder, SentOnce, NEW q \in Delivery, Accepted(q)
    PROVE  /\ demos'[q.demo].delivery = q.id
           /\ demos'[q.demo].present = (q.op = "deploy")
           /\ q.op = "deploy" => demos'[q.demo].expires = latest'[q.demo].at + Lifetime
           /\ received' = received \cup {q.id}
           /\ UNCHANGED <<now, cluster, queue>>
           /\ \A d \in Demo \ {q.demo} : demos'[d] = demos[d] /\ latest'[d] = latest[d]
<1>1. Deploy(q) \/ Destroy(q)
  BY AcceptedRun
<1>2. /\ demos'[q.demo].delivery = q.id
      /\ demos'[q.demo].present = (q.op = "deploy")
      /\ q.op = "deploy" => demos'[q.demo].expires = now + Lifetime
      /\ \A d \in Demo \ {q.demo} : demos'[d] = demos[d]
      /\ received' = received \cup {q.id}
      /\ UNCHANGED <<now, cluster, queue>>
  BY <1>1, RequestedRow
<1>3. latest'[q.demo].at = now /\ \A d \in Demo \ {q.demo} : latest'[d] = latest[d]
  BY NewLatest
<1> QED
  BY <1>2, <1>3

LEMMA LatestStep ==
    ASSUME TypeOK, Inv, RunsInOrder, SentOnce, LatestIsHeld, [ClientNext]_clientAndVars
    PROVE  LatestIsHeld'
<1> SUFFICES ASSUME NEW q \in Delivery, q.id \in received', latest'[q.demo].request = q,
                    demos'[q.demo] # NoRow
             PROVE  /\ demos'[q.demo].delivery = q.id
                    /\ demos'[q.demo].present = (q.op = "deploy")
                    /\ q.op = "deploy" => demos'[q.demo].expires = latest'[q.demo].at + Lifetime
  BY DEF LatestIsHeld, Exists
<1>1. q.demo \in Demo
  BY DeliveryFacts
<1>2. ASSUME NEW r \in Delivery, Accepted(r), r = q
      PROVE  /\ demos'[q.demo].delivery = q.id
             /\ demos'[q.demo].present = (q.op = "deploy")
             /\ q.op = "deploy" => demos'[q.demo].expires = latest'[q.demo].at + Lifetime
  BY <1>2, AcceptedRow
<1>3. ASSUME NEW r \in Delivery, Accepted(r), r # q
      PROVE  /\ demos'[q.demo] = demos[q.demo] /\ latest'[q.demo] = latest[q.demo]
             /\ q.id \in received
  <2>1. r.demo # q.demo
    BY <1>3, NewLatest
  <2>2. r.id # q.id
    BY <1>3, FreshIdAssumption
  <2> QED
    BY <1>1, <1>3, <2>1, <2>2, AcceptedRow
<1>4. ASSUME UNCHANGED <<vars, latest>>
      PROVE  demos' = demos /\ latest' = latest /\ received' = received
  BY <1>4 DEF vars, storeVars
<1>5. ASSUME OwnStep, UNCHANGED clientVars
      PROVE  /\ latest' = latest /\ q.id \in received /\ Exists(q.demo)
             /\ demos'[q.demo].delivery = demos[q.demo].delivery
             /\ demos'[q.demo].present = demos[q.demo].present
             /\ demos'[q.demo].expires = demos[q.demo].expires
  BY <1>1, <1>5, OwnQuiet, OwnRows DEF clientVars
<1> QED
  BY <1>2, <1>3, <1>4, <1>5, ClientNextCases DEF LatestIsHeld, Exists

LEMMA ListedStep ==
    ASSUME TypeOK, Inv, ReadyIsListed, [ClientNext]_clientAndVars
    PROVE  ReadyIsListed'
<1> SUFFICES ASSUME NEW d \in Demo, demos'[d] # NoRow, demos'[d].state = "ready", queue'[d] # NoRow
             PROVE  queue'[d].rev = demos'[d].rev
  BY DEF ReadyIsListed, Exists
<1>1. demos'[d] = demos[d]
  BY ClientIsNext, ReadyRows
<1>2. queue'[d] = queue[d] \/ queue'[d] = demos[d]
  <2>1. ASSUME NEW q \in Delivery, Accepted(q)
        PROVE  queue' = queue
    BY <2>1, RequestedRow DEF Accepted
  <2>2. CASE UNCHANGED vars
    BY <2>2 DEF vars, loopVars
  <2>3. CASE OwnStep
    BY <2>3, OwnListing DEF Inv
  <2> QED
    BY <2>1, <2>2, <2>3, ClientNextCases
<1> QED
  BY <1>1, <1>2 DEF ReadyIsListed, Exists

-----------------------------------------------------------------------------
(* What a run that has ended well promises. *)

\* A run ends well on the answer that nothing is there, or that it is ready.
LEMMA Succeeds ==
    ASSUME RunsInOrder, SentOnce, [ClientNext]_clientAndVars, NEW q \in Delivery,
           run'[q] = "succeeded", run[q] # "succeeded"
    PROVE  /\ UNCHANGED <<vars, latest>> /\ q.id \in received
           /\ q.op = "destroy" => ~Exists(q.demo)
           /\ q.op = "deploy" => Exists(q.demo) /\ demos[q.demo].state = "ready"
<1>1. run \in [Delivery -> RunState]
  BY DEF RunsInOrder
<1>2. ~ UNCHANGED clientVars
  BY DEF clientVars
<1>3. \A r \in Delivery : ~ Accepted(r)
  BY NewLatest
<1>4. PICK r \in Delivery : ClientOnly(r) /\ UNCHANGED <<vars, latest>>
  BY <1>2, <1>3, ClientNextCases
<1>5. Poll(q)
  BY <1>1, <1>4, VerdictFacts DEF ClientOnly, StartRun, NotAccepted, Poll, PollFails
<1> QED
  BY <1>1, <1>4, <1>5, VerdictFacts DEF Poll, RunsInOrder

\* A run that has ended well stays so.
LEMMA GoneStep ==
    ASSUME TypeOK, Inv, Inv', RunsInOrder, SentOnce, GoneStaysGone, [ClientNext]_clientAndVars
    PROVE  GoneStaysGone'
<1> SUFFICES ASSUME NEW q \in Delivery, q.op = "destroy", run'[q] = "succeeded",
                    latest'[q.demo].request = q
             PROVE  demos'[q.demo] = NoRow
  <2>1. \A d \in Demo : demos'[d] = NoRow => cluster'[d] = Nothing
    BY DEF Inv, NoOrphans, Exists
  <2> QED
    BY <2>1, DeliveryFacts DEF GoneStaysGone, Exists
<1>1. q.demo \in Demo
  BY DeliveryFacts
<1>2. CASE run[q] # "succeeded"
  BY <1>2, Succeeds DEF vars, storeVars, Exists
<1>3. CASE run[q] = "succeeded"
  <2>1. ASSUME NEW r \in Delivery, Accepted(r)
        PROVE  latest'[q.demo] = latest[q.demo] /\ demos'[q.demo] = demos[q.demo]
    <3>1. r # q /\ r.demo # q.demo
      BY <2>1, NewLatest
    <3> QED
      BY <1>1, <2>1, <3>1, AcceptedRow
  <2>2. CASE UNCHANGED <<vars, latest>>
    BY <1>3, <2>2 DEF vars, storeVars, GoneStaysGone, Exists
  <2>3. CASE OwnStep /\ UNCHANGED clientVars
    <3>1. ~Exists(q.demo)
      BY <1>3, <2>3 DEF clientVars, GoneStaysGone
    <3>2. queue[q.demo] = NoRow
      BY <1>1, <3>1 DEF Inv, ListedRowsExist
    <3> QED
      BY <1>1, <2>3, <3>1, <3>2, OwnRows
  <2> QED
    BY <1>3, <2>1, <2>2, <2>3, ClientNextCases DEF GoneStaysGone, Exists
<1> QED
  BY <1>2, <1>3

\* A request that is served is the last one still: its run ended well before
\* this step or on it, and neither the row nor its listing is of another.
LEMMA ServedBefore ==
    ASSUME TypeOK, RunsInOrder, SentOnce, [ClientNext]_clientAndVars, NEW q \in Delivery, Served(q)'
    PROVE  \/ /\ UNCHANGED <<vars, latest>> /\ q.id \in received
              /\ Exists(q.demo) /\ demos[q.demo].state = "ready"
              /\ latest[q.demo].request = q /\ now < latest[q.demo].at + Lifetime
           \/ /\ Served(q) /\ UNCHANGED <<vars, latest>>
           \/ /\ Served(q) /\ latest'[q.demo] = latest[q.demo] /\ demos'[q.demo] = demos[q.demo]
              /\ UNCHANGED <<now, cluster, queue>>
           \/ /\ Served(q) /\ latest'[q.demo] = latest[q.demo] /\ OwnStep
<1>1. /\ q.op = "deploy" /\ run'[q] = "succeeded" /\ q.demo \in Demo
      /\ latest'[q.demo].request = q /\ now' < latest'[q.demo].at + Lifetime
  BY DeliveryFacts DEF Served
<1>2. CASE run[q] # "succeeded"
  BY <1>1, <1>2, Succeeds DEF vars, storeVars
<1>3. ASSUME run[q] = "succeeded", NEW r \in Delivery, Accepted(r)
      PROVE  /\ Served(q) /\ latest'[q.demo] = latest[q.demo] /\ demos'[q.demo] = demos[q.demo]
             /\ UNCHANGED <<now, cluster, queue>>
  <2>1. r # q /\ r.demo # q.demo
    BY <1>1, <1>3, NewLatest
  <2>2. /\ latest'[q.demo] = latest[q.demo] /\ demos'[q.demo] = demos[q.demo]
        /\ UNCHANGED <<now, cluster, queue>>
    BY <1>1, <1>3, <2>1, AcceptedRow
  <2> QED
    BY <1>1, <1>3, <2>2 DEF Served
<1>4. ASSUME run[q] = "succeeded", UNCHANGED <<vars, latest>>
      PROVE  Served(q)
  BY <1>1, <1>4 DEF Served, vars, storeVars
<1>5. ASSUME run[q] = "succeeded", OwnStep, UNCHANGED clientVars
      PROVE  Served(q) /\ latest'[q.demo] = latest[q.demo]
  <2>1. now \in Int /\ now' \in Int /\ now =< now' /\ latest' = latest
    BY <1>5, OwnQuiet DEF clientVars
  <2>2. latest[q.demo].at \in Int
    BY <1>1 DEF SentOnce
  <2> QED
    BY <1>1, <1>5, <2>1, <2>2, BoundAssumption DEF Served
<1> QED
  BY <1>2, <1>3, <1>4, <1>5, ClientNextCases

\* A demo that is served is not listed as withdrawn.
LEMMA ServedNotWithdrawn ==
    ASSUME TypeOK, SentOnce, ServedIsListed, NEW q \in Delivery, Served(q), queue[q.demo] # NoRow
    PROVE  ~ Withdrawn(queue[q.demo], now)
<1>1. queue[q.demo].present /\ queue[q.demo].expires = latest[q.demo].at + Lifetime
  BY DEF ServedIsListed
<1>2. now < latest[q.demo].at + Lifetime /\ q.demo \in Demo
  BY DeliveryFacts DEF Served
<1>3. now \in Int /\ latest[q.demo].at \in Int /\ Lifetime \in Int
  BY <1>2, BoundAssumption DEF TypeOK, StoreTypeOK, SentOnce
<1> QED
  BY <1>1, <1>2, <1>3 DEF Withdrawn

LEMMA ServingStep ==
    ASSUME TypeOK, Inv, ReadyInv, RunsInOrder, SentOnce, LatestIsHeld, ReadyIsListed,
           ServedStaysServed, ServedIsListed, [ClientNext]_clientAndVars
    PROVE  ServedStaysServed'
<1> SUFFICES ASSUME NEW q \in Delivery, Served(q)'
             PROVE  /\ demos'[q.demo] # NoRow /\ demos'[q.demo].delivery = q.id
                    /\ Routable(q.demo)'
                    /\ cluster'[q.demo].deployment # None
  BY DEF ServedStaysServed, Exists
<1> DEFINE d == q.demo
<1>1. d \in Demo /\ (Served(q)' => q.op = "deploy")
  BY DeliveryFacts DEF Served
<1>2. ASSUME UNCHANGED <<vars, latest>>, q.id \in received,
             Exists(d), demos[d].state = "ready", latest[d].request = q
      PROVE  /\ demos'[d] # NoRow /\ demos'[d].delivery = q.id
             /\ Routable(d)'
             /\ cluster'[d].deployment # None
  <2>1. demos[d].delivery = q.id /\ demos[d].present
    BY <1>1, <1>2 DEF LatestIsHeld
  <2>2. cluster[d].deployment # None /\ Routable(d)
    BY <1>1, <1>2, <2>1 DEF ReadyInv, ReadyIsServed
  <2> QED
    BY <1>2, <2>1, <2>2 DEF vars, storeVars, Routable, Exists
<1>3. ASSUME Served(q)
      PROVE  Exists(d) /\ demos[d].delivery = q.id /\ Routable(d) /\ cluster[d].deployment # None
  BY <1>3 DEF ServedStaysServed
<1>4. ASSUME Served(q), demos'[d] = demos[d], cluster' = cluster
      PROVE  /\ demos'[d] # NoRow /\ demos'[d].delivery = q.id
             /\ Routable(d)'
             /\ cluster'[d].deployment # None
  BY <1>3, <1>4 DEF Routable, Exists
<1>5. ASSUME Served(q), OwnStep
      PROVE  /\ demos'[d] # NoRow /\ demos'[d].delivery = q.id
             /\ Routable(d)'
             /\ cluster'[d].deployment # None
  <2>1. ~ (queue[d] # NoRow /\ Withdrawn(queue[d], now))
    BY <1>5, ServedNotWithdrawn
  <2>2. /\ Exists(d) /\ demos[d].delivery = q.id /\ cluster[d].deployment # None
        /\ demos[d].present /\ demos[d].port # None /\ demos[d].state \in DemoState \ {"deleting"}
    BY <1>3, <1>5 DEF Routable
  <2>3. cluster'[d].deployment # None
    BY <1>1, <1>5, <2>1, <2>2, OwnDeployments
  <2>4. /\ demos'[d] # NoRow
        /\ demos'[d].delivery = q.id /\ demos'[d].present /\ demos'[d].port # None
        /\ demos'[d].state # "deleting"
    BY <1>1, <1>5, <2>1, <2>2, OwnRows
  <2>5. demos'[d].state \in DemoState
    <3>1. demos'[d] \in Row
      BY <1>1, <1>5, <2>4, OwnIsNext, StoreTypeStep DEF Inv, StoreTypeOK
    <3> QED
      BY <3>1 DEF Row
  <2> QED
    BY <2>3, <2>4, <2>5 DEF Routable, Exists
<1>6. ASSUME UNCHANGED vars
      PROVE  demos' = demos /\ cluster' = cluster
  BY <1>6 DEF vars, storeVars
<1> HIDE DEF d
<1>7. /\ demos'[d] # NoRow /\ demos'[d].delivery = q.id
      /\ Routable(d)'
      /\ cluster'[d].deployment # None
  BY <1>2, <1>4, <1>5, <1>6, ServedBefore DEF d
<1> QED
  BY <1>7 DEF d

LEMMA ServedListedStep ==
    ASSUME TypeOK, Inv, RunsInOrder, SentOnce, LatestIsHeld, ReadyIsListed, ServedIsListed,
           ServedStaysServed, [ClientNext]_clientAndVars
    PROVE  ServedIsListed'
<1> SUFFICES ASSUME NEW q \in Delivery, Served(q)', queue'[q.demo] # NoRow
             PROVE  queue'[q.demo].present /\ queue'[q.demo].expires = latest'[q.demo].at + Lifetime
  BY DEF ServedIsListed
<1> DEFINE d == q.demo
<1>1. d \in Demo /\ q.op = "deploy"
  BY DeliveryFacts DEF Served
<1>2. ASSUME q.id \in received, Exists(d), latest[d].request = q
      PROVE  demos[d].present /\ demos[d].expires = latest[d].at + Lifetime
  BY <1>1, <1>2 DEF LatestIsHeld
<1>3. ASSUME q.id \in received, Exists(d), latest[d].request = q, demos[d].state = "ready",
             queue[d] # NoRow
      PROVE  queue[d].present /\ queue[d].expires = latest[d].at + Lifetime
  <2>1. queue[d].rev = demos[d].rev
    BY <1>1, <1>3 DEF ReadyIsListed
  <2>2. queue[d].present = demos[d].present /\ queue[d].expires = demos[d].expires
    BY <1>1, <1>3, <2>1 DEF Inv, RevOrder
  <2> QED
    BY <1>2, <1>3, <2>2
<1>4. ASSUME Served(q), queue[d] # NoRow
      PROVE  queue[d].present /\ queue[d].expires = latest[d].at + Lifetime
  BY <1>4 DEF ServedIsListed
<1>5. ASSUME Served(q)
      PROVE  q.id \in received /\ Exists(d) /\ latest[d].request = q
  BY <1>5 DEF Served, RunsInOrder, ServedStaysServed
<1>6. ASSUME UNCHANGED <<vars, latest>>
      PROVE  queue' = queue /\ latest' = latest
  BY <1>6 DEF vars, loopVars
<1>7. ASSUME OwnStep
      PROVE  queue'[d] = queue[d] \/ queue'[d] = demos[d]
  BY <1>1, <1>7, OwnListing DEF Inv
<1> HIDE DEF d
<1>8. queue'[d].present /\ queue'[d].expires = latest'[d].at + Lifetime
  BY <1>2, <1>3, <1>4, <1>5, <1>6, <1>7, ServedBefore DEF d
<1> QED
  BY <1>8 DEF d

-----------------------------------------------------------------------------
(* The theorems. *)

\* Whatever a client does, the controller behaves as its specification says.
LEMMA ClientImplies == ClientSpec => Spec
<1>1. ClientInit => Init
  BY DEF ClientInit
<1>2. [ClientNext]_clientAndVars => [Next]_vars
  BY ClientIsNext
<1> QED
  BY <1>1, <1>2, PTL DEF ClientSpec, Spec

LEMMA ClientInvInit == ClientInit => ClientInv
<1> SUFFICES ASSUME ClientInit PROVE ClientInv
  OBVIOUS
<1>1. /\ \A q \in Delivery : run[q] = "queued"
      /\ run \in [Delivery -> RunState] /\ inFlight = {} /\ received = {}
      /\ \A d \in Demo : demos[d] = NoRow
  BY DEF ClientInit, Init, StoreInit, RunState
<1>2. RunsInOrder
  BY <1>1 DEF RunsInOrder
<1>3. SentOnce
  BY <1>1 DEF SentOnce, ClientInit
<1>4. ReadyIsListed /\ LatestIsHeld
  BY <1>1 DEF ReadyIsListed, LatestIsHeld, Exists
<1>5. GoneStaysGone /\ ServedStaysServed /\ ServedIsListed
  BY <1>1 DEF GoneStaysGone, ServedStaysServed, ServedIsListed, Served
<1> QED
  BY <1>2, <1>3, <1>4, <1>5 DEF ClientInv

\* The inductive invariant of the workflows: requests are sent once and in
\* order, the controller holds the last one, and what it told a run holds.
THEOREM ClientInvariance == ClientSpec => []ClientInv
<1>1. ClientInit => ClientInv
  BY ClientInvInit
<1>2. ASSUME TypeOK, Inv, Inv', ReadyInv, ClientInv, [ClientNext]_clientAndVars
      PROVE  ClientInv'
  <2>1. RunsInOrder /\ SentOnce /\ LatestIsHeld /\ ReadyIsListed
    BY <1>2 DEF ClientInv
  <2>2. GoneStaysGone /\ ServedStaysServed /\ ServedIsListed
    BY <1>2 DEF ClientInv
  <2>3. RunsInOrder' /\ SentOnce'
    BY <1>2, <2>1, OrderStep
  <2>4. LatestIsHeld'
    BY <1>2, <2>1, LatestStep
  <2>5. ReadyIsListed'
    BY <1>2, <2>1, ListedStep
  <2>6. GoneStaysGone'
    BY <1>2, <2>1, <2>2, GoneStep
  <2>7. ServedStaysServed'
    BY <1>2, <2>1, <2>2, ServingStep
  <2>8. ServedIsListed'
    BY <1>2, <2>1, <2>2, ServedListedStep
  <2> QED
    BY <2>3, <2>4, <2>5, <2>6, <2>7, <2>8 DEF ClientInv
<1> QED
  BY <1>1, <1>2, ClientImplies, Invariance, ReadyInvariance, PTL DEF ClientSpec

\* A run polls only after its request was accepted, and one run of a demo is
\* active at a time.
THEOREM RunsInOrderHolds == ClientSpec => []RunsInOrder
BY ClientInvariance, PTL DEF ClientInv

\* After a clean-up run has ended well nothing is left of the demo, until another
\* request is accepted.
THEOREM GoneStaysGoneHolds == ClientSpec => []GoneStaysGone
BY ClientInvariance, PTL DEF ClientInv

\* After a deploy run has ended well its demo stays deployed and routed for its
\* lifetime, unless another request is accepted.
THEOREM ServedStaysServedHolds == ClientSpec => []ServedStaysServed
BY ClientInvariance, PTL DEF ClientInv
=============================================================================
