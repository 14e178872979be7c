---------------------------- MODULE DemoRefinement ----------------------------
(***************************************************************************)
(* The refinement mapping from the demo controller to DemoLifecycle.       *)
(***************************************************************************)
EXTENDS DemoProperties

ASSUME WishAssumption ==
    /\ None \notin [rev : Int, image : Image \cup {None}, present : BOOLEAN, expires : Int]
    /\ None \notin [rev : Int, image : Image \cup {None}]

\* What a row asks for.
Wish(row) == IF row = NoRow THEN None
             ELSE [rev |-> row.rev, image |-> row.image, present |-> row.present,
                   expires |-> row.expires]

\* What a Deployment stands for.
Stands(o) == IF o = None THEN None ELSE [rev |-> o.rev, image |-> o.image]

Wanted == [d \in Demo |-> Wish(demos[d])]
Seen == [d \in Demo |-> Wish(queue[d])]
Running == [d \in Demo |-> Stands(cluster[d].deployment)]
Left == [d \in Demo |-> cluster[d] # Nothing]
Ready == [d \in Demo |-> Exists(d) /\ demos[d].state = "ready"]

Lifecycle == INSTANCE DemoLifecycle WITH
    wanted   <- Wanted,
    seen     <- Seen,
    running  <- Running,
    left     <- Left,
    reported <- Ready,
    requests <- accepted,
    clock    <- now

\* The controller implements the level-triggered reconciler: whatever its
\* stages, faults, crashes and stale records, every step it takes is one that
\* the abstract reconciler may take for what it saw, or is invisible.
ImplementsLifecycle == Lifecycle!LifecycleSpec
=============================================================================
