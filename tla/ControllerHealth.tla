--------------------------- MODULE ControllerHealth ---------------------------
(***************************************************************************)
(* What /statusz says: the controller with the observations its loop keeps *)
(* of Vault and Kubernetes.  The endpoint makes no probe of its own, so an *)
(* observation lasts until the loop next uses the dependency.              *)
(*                                                                         *)
(* Simplified: times and error categories are left out, and a failed call  *)
(* is observed when it fails, not when the coroutine resumes.              *)
(***************************************************************************)
EXTENDS DemoProperties

VARIABLE observed   \* ReconciliationLoop._dependencies

healthVars == <<vars, observed>>

Unknown == [vault |-> "unknown", kubernetes |-> "unknown"]

HealthInit == Init /\ observed = Unknown

\* Mutant: a successful deletion is not observed.
ObservationOfUpdates ==
    CASE "stopped" \in {pc, pc'} -> Unknown
      [] pc = "vault" /\ pc' # pc ->
            [observed EXCEPT !.vault = IF disturbances' = disturbances THEN "ok" ELSE "error"]
      [] pc \in KubernetesStage /\ pc' = "failing" -> [observed EXCEPT !.kubernetes = "error"]
      [] pc \in ApplyDone /\ pc' # pc -> [observed EXCEPT !.kubernetes = "ok"]
      [] OTHER -> observed

\* The observations after a step.  Vault is observed when its answer or its
\* error arrives: an answer whose image is then refused counts as ok.
\* Kubernetes is observed when a call fails, when apply() is done, before the
\* outcome is stored, and when delete() is done: there an error of the store
\* counts as one of Kubernetes, because both are in one try.
Observation ==
    CASE "stopped" \in {pc, pc'} -> Unknown
      [] pc = "vault" /\ pc' # pc ->
            [observed EXCEPT !.vault = IF disturbances' = disturbances THEN "ok" ELSE "error"]
      [] pc \in KubernetesStage /\ pc' = "failing" -> [observed EXCEPT !.kubernetes = "error"]
      [] pc \in ApplyDone /\ pc' # pc -> [observed EXCEPT !.kubernetes = "ok"]
      [] pc = "deleteRecord" /\ pc' # pc ->
            [observed EXCEPT !.kubernetes = IF demos'[cur] = NoRow THEN "ok" ELSE "error"]
      [] OTHER -> observed

HealthNext == Next /\ observed' = Observation

HealthFairSpec == HealthInit /\ [][HealthNext]_healthVars /\ Fairness

\* /statusz answers 503.
Degraded ==
    \/ pc = "dead"
    \/ \E d \in Demo : Exists(d) /\ demos[d].state = "failed"
    \/ "error" \in {observed.vault, observed.kubernetes}

\* Once faults stop /statusz recovers for good, though it only repeats old
\* observations.  It keeps reporting a demo whose image the project refuses,
\* and an error of Vault that no demo is left to look up again for; no error
\* of Kubernetes survives, because a row goes only after a deletion succeeded.
StatusRecovers ==
    <>[](Degraded => \/ \E d \in Demo : Exists(d) /\ demos[d].image \notin project.images
                     \/ observed.vault = "error" /\ \A d \in Demo : ~Exists(d))
=============================================================================
