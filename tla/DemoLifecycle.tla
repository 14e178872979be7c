----------------------------- MODULE DemoLifecycle -----------------------------
(***************************************************************************)
(* What the demo controller promises, without saying how: a level-triggered *)
(* reconciler.  Requests replace what is wanted of a demo; the reconciler  *)
(* looks at all of it, and what it then does to a demo it does for what it *)
(* saw: it deploys only a request that was wanted, removes only for one    *)
(* that was withdrawn or had expired, forgets a demo only when nothing of  *)
(* it is left, and reports ready only what it has deployed.  Stages,       *)
(* errors, crashes and restarts do not exist at this level: they only make *)
(* the reconciler look again.  DemoRefinement relates it to DemoController. *)
(***************************************************************************)
EXTENDS Integers

CONSTANTS Demo, Image, Lifetime, None

VARIABLES
    wanted,    \* what the last request asked for, None when the demo is forgotten
    seen,      \* what the reconciler saw when it last looked, None when done with it
    running,   \* what is deployed, None when nothing is
    left,      \* whether anything of the demo is in the cluster
    reported,  \* whether the demo is reported ready
    requests,  \* how many requests there have been
    clock

lifecycleVars == <<wanted, seen, running, left, reported, requests, clock>>

LifecycleInit ==
    /\ wanted = [d \in Demo |-> None]
    /\ seen = [d \in Demo |-> None]
    /\ running = [d \in Demo |-> None]
    /\ left = [d \in Demo |-> FALSE]
    /\ reported = [d \in Demo |-> FALSE]
    /\ requests = 0
    /\ clock = 0

\* A request counts as number requests + 1, and is not ready yet.
Ask(d, image, present, expires) ==
    /\ wanted' = [wanted EXCEPT ![d] = [rev     |-> requests + 1,
                                        image   |-> image,
                                        present |-> present,
                                        expires |-> expires]]
    /\ reported' = [reported EXCEPT ![d] = FALSE]
    /\ requests' = requests + 1
    /\ UNCHANGED <<seen, running, left, clock>>

\* A deployment is wanted for Lifetime from now on.
AskDeployed(d) == \E i \in Image : Ask(d, i, TRUE, clock + Lifetime)

AskGone(d) == IF wanted[d] = None
              THEN Ask(d, None, FALSE, clock)
              ELSE Ask(d, wanted[d].image, FALSE, wanted[d].expires)

Look == /\ seen' = wanted
        /\ UNCHANGED <<wanted, running, left, reported, requests, clock>>

\* The reconciler is done with some demos, or has lost what it saw of them.
Drop == /\ \E D \in SUBSET Demo : seen' = [d \in Demo |-> IF d \in D THEN None ELSE seen[d]]
        /\ UNCHANGED <<wanted, running, left, reported, requests, clock>>

\* It works on the demo, and does not say that it is ready meanwhile.
Retract(d) == /\ reported' = [reported EXCEPT ![d] = FALSE]
              /\ UNCHANGED <<wanted, seen, running, left, requests, clock>>

Sees(d) == seen[d] # None
SeesOver(d) == Sees(d) /\ (~seen[d].present \/ seen[d].expires <= clock)
SeenWish(d) == [rev |-> seen[d].rev, image |-> seen[d].image]

\* Objects of a demo that was wanted appear, its Deployment among them or not.
Put(d) ==
    /\ Sees(d) /\ seen[d].present
    /\ ~reported[d]
    /\ left' = [left EXCEPT ![d] = TRUE]
    /\ running' \in {running, [running EXCEPT ![d] = SeenWish(d)]}
    /\ UNCHANGED <<wanted, seen, reported, requests, clock>>

\* Objects of a demo that was over disappear, first its Deployment.
Remove(d) ==
    /\ SeesOver(d)
    /\ ~reported[d]
    /\ running' = [running EXCEPT ![d] = None]
    /\ left' \in {left, [left EXCEPT ![d] = FALSE]}
    /\ UNCHANGED <<wanted, seen, reported, requests, clock>>

Forget(d) ==
    /\ SeesOver(d)
    /\ ~left[d]
    /\ wanted' = [wanted EXCEPT ![d] = None]
    /\ seen' = [seen EXCEPT ![d] = None]
    /\ reported' = [reported EXCEPT ![d] = FALSE]
    /\ UNCHANGED <<running, left, requests, clock>>

\* The reconciler says that the demo is ready, when what it saw is deployed.
Report(d) ==
    /\ Sees(d)
    /\ running[d] = SeenWish(d)
    /\ wanted[d] # None
    /\ reported' = [reported EXCEPT ![d] = TRUE]
    /\ seen' = [seen EXCEPT ![d] = None]
    /\ UNCHANGED <<wanted, running, left, requests, clock>>

Later == /\ clock' = clock + 1
         /\ UNCHANGED <<wanted, seen, running, left, reported, requests>>

LifecycleNext ==
    \/ \E d \in Demo :
          \/ AskDeployed(d)
          \/ AskGone(d)
          \/ Retract(d)
          \/ Put(d)
          \/ Remove(d)
          \/ Forget(d)
          \/ Report(d)
    \/ Look
    \/ Drop
    \/ Later

LifecycleSpec == LifecycleInit /\ [][LifecycleNext]_lifecycleVars
=============================================================================
