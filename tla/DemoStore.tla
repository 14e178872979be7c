------------------------------ MODULE DemoStore ------------------------------
(***************************************************************************)
(* The controller's durable state: the `demos` table of                    *)
(* src/demo_controller/store.py, one row per (repository, pull request),   *)
(* with the operations the HTTP API and the reconciliation loop perform on *)
(* it.  Every operation is one SQLite transaction behind Store._lock, so   *)
(* every operation is one atomic change of `demos`.                        *)
(*                                                                         *)
(* Simplified: the commit hash, the Vault version, the message and the     *)
(* creation and update times of a row are left out: no decision of the     *)
(* controller reads them.  A request's hash is left out too: an identifier *)
(* met again on the same row changes nothing, whether the hash agrees (a   *)
(* retry, answered 202) or not (409).                                      *)
(***************************************************************************)
EXTENDS Integers, FiniteSets

CONSTANTS
    Demo,         \* the demos, each a (repository, pull request)
    Image,        \* container images
    Port,         \* ports a project's configuration may name
    DeliveryId,   \* delivery identifiers
    Delivery,     \* the requests the clients may send
    Lifetime,     \* DEMO_LIFETIME_SECONDS, in ticks of the model's clock
    None,         \* SQL NULL, and the absence of a Kubernetes object
    NoRow,        \* demos[d] when the table holds no row for d
    Redelivery,   \* whether an accepted request may come again later
    MaxRequests,  \* bound: requests accepted in one behaviour
    MaxTime       \* bound: the last value of the clock

DemoState == {"pending", "reconciling", "ready", "failed", "deleting"}

Request == [id : DeliveryId, op : {"deploy", "destroy"},
            demo : Demo, image : Image \cup {None}]

\* rev is a history field: the number of the accepted request the row holds.
Row == [delivery : DeliveryId, image : Image \cup {None}, present : BOOLEAN,
        state : DemoState, port : Port \cup {None}, expires : Int, rev : Int]

ASSUME RequestAssumption ==
    /\ Delivery \subseteq Request
    /\ \A q \in Delivery : q.op = "deploy" => q.image \in Image
ASSUME BoundAssumption ==
    /\ Lifetime \in Nat \ {0}
    /\ MaxRequests \in Nat
    /\ MaxTime \in Nat
    /\ Redelivery \in BOOLEAN
ASSUME NullAssumption == None \notin Image \cup Port /\ NoRow \notin Row

VARIABLES
    demos,      \* the table
    now,        \* int(time.time())
    accepted,   \* history: how many requests have been accepted
    received    \* history: the identifiers accepted so far

storeVars == <<demos, now, accepted, received>>

StoreTypeOK ==
    /\ demos \in [Demo -> Row \cup {NoRow}]
    /\ now \in 0..MaxTime
    /\ accepted \in 0..MaxRequests
    /\ received \subseteq DeliveryId
    /\ \A d \in Demo : demos[d] # NoRow /\ demos[d].present => demos[d].image \in Image

StoreInit ==
    /\ demos = [d \in Demo |-> NoRow]
    /\ now = 0
    /\ accepted = 0
    /\ received = {}

Exists(d) == demos[d] # NoRow

\* What the loop's test calls undesired, at time t.
Withdrawn(row, t) == ~row.present \/ row.expires <= t

-----------------------------------------------------------------------------
(* The two operations of the HTTP API. *)

\* The row does not already hold this delivery.
IsNew(q) == Exists(q.demo) => demos[q.demo].delivery # q.id

\* Bookkeeping of the history variables, and the bound.
Accept(q) ==
    /\ accepted < MaxRequests
    /\ Redelivery \/ q.id \notin received
    /\ accepted' = accepted + 1
    /\ received' = received \cup {q.id}

\* Mutant: a redeployment leaves the state of the row as it is.
UpsertDeployKeepsState(q) ==
    /\ IsNew(q)
    /\ demos' = [demos EXCEPT ![q.demo] =
                   [delivery |-> q.id,
                    image    |-> q.image,
                    present  |-> TRUE,
                    state    |-> IF Exists(q.demo) THEN demos[q.demo].state ELSE "pending",
                    port     |-> IF Exists(q.demo) THEN demos[q.demo].port ELSE None,
                    expires  |-> now + Lifetime,
                    rev      |-> accepted + 1]]

\* The upsert of a deploy keeps the port of the row it replaces: the
\* previous deployment stays routed until the new one is applied.
UpsertDeploy(q) ==
    /\ IsNew(q)
    /\ demos' = [demos EXCEPT ![q.demo] =
                   [delivery |-> q.id,
                    image    |-> q.image,
                    present  |-> TRUE,
                    state    |-> "pending",
                    port     |-> IF Exists(q.demo) THEN demos[q.demo].port ELSE None,
                    expires  |-> now + Lifetime,
                    rev      |-> accepted + 1]]

\* Mutant: the row a destroy inserts keeps the column's default, desired.
RequestDestroyStillDesired(q) ==
    /\ IsNew(q)
    /\ demos' = [demos EXCEPT ![q.demo] =
                   IF Exists(q.demo)
                   THEN [@ EXCEPT !.delivery = q.id, !.present = FALSE,
                                  !.state = "deleting", !.rev = accepted + 1]
                   ELSE [delivery |-> q.id, image |-> None, present |-> TRUE,
                         state |-> "deleting", port |-> None, expires |-> now + Lifetime,
                         rev |-> accepted + 1]]

\* A destroy of an unknown demo inserts a row, so that the loop still deletes
\* whatever the cluster may hold under that name.
RequestDestroy(q) ==
    /\ IsNew(q)
    /\ demos' = [demos EXCEPT ![q.demo] =
                   [delivery |-> q.id,
                    image    |-> IF Exists(q.demo) THEN demos[q.demo].image ELSE None,
                    present  |-> FALSE,
                    state    |-> "deleting",
                    port     |-> IF Exists(q.demo) THEN demos[q.demo].port ELSE None,
                    expires  |-> IF Exists(q.demo) THEN demos[q.demo].expires ELSE now,
                    rev      |-> accepted + 1]]

-----------------------------------------------------------------------------
(* The operations of the reconciliation loop. *)

\* Mutant: the query forgets a state.
ListReconcilableNotFailed ==
    [d \in Demo |-> IF Exists(d) /\ demos[d].state # "failed" THEN demos[d] ELSE NoRow]

\* The rows whose state is one of the five: every row.
ListReconcilable ==
    [d \in Demo |-> IF Exists(d) /\ demos[d].state \in DemoState
                    THEN demos[d] ELSE NoRow]

\* An UPDATE by key: it does not look at what the row holds now, keeps the
\* port when it is given none, and changes nothing when the row is gone.
UpdateState(d, state, port) ==
    demos' = IF Exists(d)
             THEN [demos EXCEPT ![d] =
                     [demos[d] EXCEPT
                        !.state = state,
                        !.port = IF port = None THEN demos[d].port ELSE port]]
             ELSE demos

\* A DELETE by key: it does not look at what the row holds now either.
DeleteRecord(d) == demos' = [demos EXCEPT ![d] = NoRow]

\* The proxy's lookup: demo d's hostname is forwarded to this row's port.
Routable(d) ==
    /\ Exists(d)
    /\ demos[d].present
    /\ demos[d].port # None
    /\ demos[d].state \in DemoState \ {"deleting"}

Tick == /\ now < MaxTime
        /\ now' = now + 1
        /\ UNCHANGED <<demos, accepted, received>>
=============================================================================
