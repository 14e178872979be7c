# Demos controller: a TLA+ verification project

The repository deploys pull-request demos: GitHub workflows push an image and
send a signed request to a controller; the controller keeps the desired state
in SQLite, reads the project's configuration from Vault, applies Kubernetes
objects and proxies browsers to them; a Juju charm runs the controller. This
directory holds the TLA+ modules of that system, their TLC configurations and
the TLAPS proofs.

## Inventory

| Part | State | Operations | Interacts with |
|---|---|---|---|
| Store, `src/demo_controller/store.py` | tables `demos` and `nonces` (SQLite, durable) | upsert_deploy, request_destroy, list_reconcilable, get, get_ready_by_hostname, update_state, delete_record, use_nonce | shared by the API, the loop and the authenticator |
| HTTP API, `api.py`, `models.py` | none of its own | deploy, destroy, status, statusz, readyz, healthz, lifespan | authenticator, store, loop |
| Authenticator, `auth.py` | a deque of request times per repository (memory) | authenticate, _check_rate | nonces of the store |
| Reconciliation loop, `reconciler.py` | stop event, last observations, last completed pass (memory) | run, reconcile, stop, health | store, Vault client, Kubernetes reconciler |
| Kubernetes reconciler, `kubernetes.py` | the cluster's objects | render_resources, apply, delete | API server, on a worker thread |
| Vault client, `vault.py` | token, its expiry and renewability, HTTP pool (memory) | project, _ensure_token, _request, _reset_client | Vault |
| Proxy, `api.py`, and names, `naming.py` | none | proxy, hostname, resource_name | store, Services |
| Process, `main.py`, `settings.py` | the process | start, shutdown, crash | Pebble |
| Charm, `charm/src/charm.py`, `charm/src/kubernetes.py` | Juju relation data, container plan, NodePort Service | configure, route publication, status, actions | Juju, Pebble, HAProxy, statusz |
| Demo logs, `charm/src/demo_logs.py` | none | pod selection, exec, frame decoding | Kubernetes |
| Workflow client, `.github/scripts/demo_api.py` | polling state | deploy, destroy, poll | HTTP API |
| Workflows, `.github/workflows` | GHCR tags, pull-request comment | build, deploy, clean up | workflow client |

What is hard in this system, and where:

- **One event loop and one worker thread.** `reconcile()` runs on the event
  loop, waits for Vault, and hands the Kubernetes calls to a thread; the API
  handlers run whenever it is suspended. The loop works on rows listed at the
  start of a pass and writes results by key, so everything it knows may be
  older than what it overwrites.
- **Partial effects.** `apply()` and `delete()` are sequences of independent
  API calls; any of them may fail, before or after it took effect, and the
  process may die between two of them.
- **Two sources of change besides requests.** Vault's configuration changes at
  any time, and rows expire.
- **Failure of the loop itself.** A database error outside the `try` blocks ends
  the task for good while the API continues.
- **Retries.** Deliveries may come again, at once or late, and a workflow run that
  is cancelled leaves a request that may still arrive.
- **Second-hand knowledge.** A workflow learns the outcome from a state that is not
  tied to its delivery, `/statusz` repeats what the loop observed last, and the charm
  is not told of everything the route and the workload depend on.

PROJECT.json lists the hazards one by one, each at its line, with the property
that would notice it going wrong.

What makes each part correct: the store keeps the last accepted request and
forgets a demo only when nothing of it is left; the loop makes the cluster agree
with the last request and never acts for an older one; `apply()` and `delete()`
keep the objects consistent at every point where they may stop; the proxy routes
what is desired and has been applied; the authenticator admits a request and its
retries once and within the rate; the Vault client never sends twice what may
have been processed; a workflow's report is true and stays true; `/statusz`
recovers when the faults are over; the charm's route and workload end up being what
is configured, and a unit that says it is active is.

## Modules

| Module | Models | Kind |
|---|---|---|
| `DemoStore` | the `demos` table: rows, and one operator per operation of the store | component |
| `DemoController` | EXTENDS `DemoStore`: API handlers, loop, Kubernetes calls, Vault's answers, process, environment | component and composition |
| `DemoProperties` | invariants, action properties, liveness, statements of the documents, the inductive invariant | properties |
| `DemoLifecycle` | what the controller promises: a level-triggered reconciler without stages, errors and crashes | abstract specification |
| `DemoRefinement` | the refinement mapping from `DemoController` to `DemoLifecycle` | refinement |
| `ControllerHealth` | EXTENDS `DemoProperties`: the cached observations and `/statusz` | component, composed with the core |
| `DemoApiClient` | EXTENDS `DemoProperties`: `demo_api.py` as run by the two workflows, with its properties | component, composed with the core |
| `DemoControllerProofs` | theorems about `DemoController` for every value of the constants | proofs |
| `DemoRefinementProofs` | that `DemoController` implements `DemoLifecycle`, and `ReadyIsServed` | proofs |
| `DemoApiClientProofs` | theorems about the workflows composed with the controller | proofs |
| `MCDemoController`, `MCControllerHealth`, `MCDemoApiClient` | requests and configurations for TLC | instance |
| `VaultClient` | `vault.py`: coroutines that look up projects, the token, both locks, the HTTP client | component |
| `VaultClientProperties` | its invariants, liveness, the inductive invariant | properties |
| `VaultClientProofs`, `VaultMaskingProofs` | theorems about `VaultClient`: locks, HTTP client and token; masking of faults | proofs |
| `Authenticator` | `auth.py` and the nonces of `store.py`: requests interleaved at the await of their body | component |
| `AuthenticatorProperties` | its invariants and action properties, the inductive invariant | properties |
| `AuthenticatorProofs` | theorems about `Authenticator` | proofs |
| `Charm` | `charm.py` and its `kubernetes.py`: hooks of several units, Juju's events | component |
| `CharmProperties` | its invariants and liveness | properties |
| `CharmProofs` | theorems about `Charm` | proofs |
| `MCVaultClient`, `MCAuthenticator`, `MCCharm` | instances for TLC | instance |

`DemoController`, `DemoApiClient` and `ControllerHealth` are composed in full. The other
components meet at interfaces: `DemoController` uses `VaultClient` through its answers (`VaultAnswers`, `VaultRefuses`,
`VaultFails`) and the API behind `Authenticator` through accepted requests; `Charm` knows of
the controller what `/statusz` says.

### State and code

`demos[d]` is the row of demo `d`, or `NoRow`. A row keeps the columns a decision
reads: delivery_id, image, desired_present, state, port, expires_at. `rev` is a
history field, the number of the request that wrote the row; it serves the
properties only. `now` is `int(time.time())`.

`pc` is the place where the loop's coroutine is:

- `stopped`, `dead`: the process is not running; the task ended with an exception;
- `idle`: waiting for the interval or the stop event;
- `next`: between two records. The coroutine does not await there, so no handler
  runs (`Serving`), exactly as on the event loop;
- `vault`: in `await self.vault.project(...)`;
- the stages of `apply()` and `delete()` on the worker thread, one API call each;
- `recordReady`, `recordWaiting`, `deleteRecord`, `failing`: the thread is done and
  the coroutine has still to write the row.

`queue` holds the listed rows that are still to be reconciled, `cur` the demo in
progress, `config` Vault's answer for it. `cluster[d]` holds the four objects of a
demo and `available`, the condition `apply()` reads from the Deployment's status.

Every action is a whole step of the code between two points where something else
may happen. `KubernetesFails` and `VaultFails` are the exceptions of a call,
`StoreFails` an SQLite error at each statement of the loop, with the two outcomes
the code has (the task dies, or the handler writes `failed`). That a task that has died is not
started again is a hazard no property covers: the table and the cluster stay consistent (`Safety`), but
nothing is reconciled until a restart. `Crash` loses all
memory; `Stop` is the lifespan's shutdown, which waits for the pass.

In `VaultClient`, `lookup[c]` is the coroutine `c` inside `project()`: the await it is
suspended in (`at`), the request it makes (`read`, `renew` or `login`), the attempt, the
HTTP client it uses and its outcome. `lock` and `requestLock` are the holders of `_lock` and
`_request_lock`; a waiter is a coroutine at the await of the lock. `token` is a number,
`issued` counts them and `valid` are those Vault still honours; `pool` is the current
HTTP client and `open` those not closed. Steps of the code between two awaits are one
action, with the calls they make: `Denied`, for example, discards the token and goes on to
`_ensure_token`. The program has one caller, the loop; the locks are there for several, and
`tests/test_vault_recovery.py` runs three at once, so the model does too.

In `Authenticator`, `handlers[h]` is a request whose handler awaits the body, with the `now`
it has read; `times` are the deques of `_requests`, `nonces` the table. `passed` and
`admitted` are history variables for the properties. The admission of a request and
`use_nonce` happen without an await between them, hence in one action.

In `DemoApiClient`, `run[q]` is the workflow run of delivery `q`: queued, sending its request,
polling, or ended. `StartRun` cancels the run in progress of the same pull request, as the
common concurrency group does; its request stays in `inFlight`, where it may be accepted
later or lost. `Verdict` is what `poll()` makes of one answer. `ControllerHealth` adds one
variable to the controller, `_dependencies`, and conjoins to every step what it makes the
loop observe.

In `Charm` a hook is one action: Juju runs one hook of a unit at a time and commits relation
data at its end. `pending[u]` are the events that unit `u` is still to be sent. What Juju or
Kubernetes changes without an event for this charm (a granted or revoked secret, trust, nodes,
a new leader, since the charm observes no leader event) leaves `pending` alone.
`environment[u]` is what the running workload was started with. `secret` is the content of the
secrets that the configuration names, and `None` as long as one of them is not named, not granted,
revoked or malformed: an administrator may name another one before granting it, also while a workload
runs. `Wanted` is the environment made of both. `route` is the application's databag, `addressed` are
the units whose own databag has their present address, which only a publishing leader writes.
`untold` is a history variable: the units that no event has told, nor will tell, of the secrets there
are, because they were granted after the unit had looked. A secret's later revisions are announced to the
units that have read it, and perhaps to others.

### The abstract specification

`DemoLifecycle` has requests that replace what is wanted (`Ask`), a reconciler that looks at
all of it (`Look`) and then acts for what it saw: it puts and removes objects, forgets a demo
of which nothing is left, and reports ready what it deployed. It says what a client may rely
on and leaves out stages, errors, crashes, configurations and the database. The mapping reads
`wanted` from the rows, `seen` from the listed records (`queue`), `running` and `left` from the
cluster, and `reported` from the state of the row. A crash is the abstract reconciler
losing what it saw (`Drop`); an exception half-way through `apply()` is one that put some of
the objects. That a report may be about an older request than the one wanted is part of
the promise: `Report` requires only that what was seen is deployed (see `StaleReady`).

### What is abstracted

Hashes of requests: a delivery identifier met again on the same row changes
nothing, whether the body agrees (202) or not (409). Configuration: a port, whether
there is an environment and a secret, and the images the namespace admits. All
demos of a model share one repository, hence one configuration. Names: distinct
demos have distinct hostnames and resource names. Calls a dead process had sent do
not arrive after its restart.

In `VaultClient` time is one flag: `fresh` says that the token is used before
`_token_expires_at - 30`, and `Age` ends it. Closing a replaced client that fails counts as
closed. The data of a project is only usable or not. In `Authenticator` method, path and
body are one content, HMAC is whether the signature verifies, and requests that leave no
trace (unknown repository, stale or malformed time stamp) do not occur. A body takes at
most `MaxDelay` seconds: the code sets no such limit, the properties name it instead.

In `DemoApiClient` a poll may fail at any time, which stands for a 429, a lost connection and the
client's own time-out. In `ControllerHealth` a failed call is observed when it fails and not
when the coroutine resumes a moment later. In `Charm` the configuration and a secret are
one value each; relation and trust are not taken away; an error that `_publish_route` does not
catch, which fails the hook and makes Juju retry it, does not occur.

## Runs

| Run | Question | Bounds |
|---|---|---|
| `Safety` | do the safety properties, the inductive invariants and the refinement survive every interleaving and fault, database errors and deliveries that come again included? | one demo, four requests, two configurations, clock 0..2 with lifetime 1, two faults |
| `TwoDemos` | do two demos disturb or starve each other? | two demos, four requests, one of them never admitted by the configuration |
| `Liveness` | does everything converge once faults stop, and does `/statusz` say so? | one demo, three requests, two faults, no database errors |
| `LostDeployment`, `ExpiredRouted`, `StaleReady`, `PortChange`, `LateDuplicate` | statements of the documents the code does not keep: each is found violated | as small as the case allows |
| `Workflow` | is what a workflow reports true, does it stay true, and does every run get its answer? | one demo, two deploys and a destroy, one fault, lifetime 1 |
| `Vault` | are locks, HTTP client and token used as they should be, is one fault masked, does every lookup end? | two coroutines, three lookups, two faults |
| `Authentication` | do nonces bind, last long enough and admit retries; is the rate kept, and nobody refused without reason? | one nonce, two contents, four requests, two at a time, limit 2 in a window of 3, one fault, clock 0..4 with `MaxAge` 1 |
| `Charm` | do route, workload and status end up right, and does the last unit clean up? | two units, two values of configuration, secret, nodes and port, two changes or faults |

One demo is enough for most questions because rows, objects and names of different
demos are disjoint and the loop handles one at a time; `TwoDemos` covers what they
share, the loop. Two deploys with different images and a destroy give every order of
request and reconciliation; two configurations differ in port, in both optional
objects and in the images admitted, so that every object is created, changed and
pruned. The clock reaches both the expiry of the first deploy and the time after a
renewed one. Two faults are one during a deletion or an update and another, or a
crash, during the recovery from it; four requests are deploy, destroy, deploy and a late
duplicate of any of them. The theorems cover every other number. `CHECK_DEADLOCK FALSE` is
used in the core's runs only with database errors, where the task ends for good.

In `Workflow` the three runs come in every order, so that a run is cancelled before and after
its request is accepted, and an older request is overtaken. Its one fault is a failed
call, a crash, a shutdown or an edit while a run polls.

In `Vault` one coroutine holds a lock while the other waits for it or reads; three lookups let a
token be renewed or replaced while it is in use, and two faults are the least that make a
lookup fail when one is masked. More coroutines are covered by the theorems, except for
`LookupEnds`. The authenticator's clock passes twice `MaxAge` with its
delays, so that nonces are deleted at both ends of the boundary; four requests fill the
limit of two and find it full or free again, before and after the window. In `Charm` two
changes are one that needs correction and another, or a fault, during the correction; a
leader that leaves, or both units, and a grant come on top: naming another secret, its late grant and a
restart of the container in between is within the bound. To keep the run short its instance takes the
first of several values that differ in name only: leader, configuration and nodes at the beginning, the first
secret while no unit runs with any, the first port while none was ever published (`FirstFirst`, an action
constraint). A behaviour with other values is one of these with the names exchanged, and the
properties name no value. Requests, lookups, time and units end
there, and so do the models: `CHECK_DEADLOCK FALSE`.

### Fairness

`FairSpec` assumes weak fairness of `LoopStep`, the loop's own steps: the coroutine
and the thread go on, Vault and Kubernetes answer or fail (`httpx` time-outs), and
Pebble starts a process that has ended. A Deployment becomes available unless its
specification changes. Nothing else is fair: no request, fault, edit or tick need
ever happen. Faults are bounded, which is the usual "once faults stop". Database
errors are excluded in liveness runs: after one that escapes, the code makes no
progress until a restart, which nobody is obliged to trigger.

`FairSpec` of `VaultClient` assumes strong fairness for a coroutine that waits for a
lock, because `asyncio.Lock` serves its waiters in order, and weak fairness for the rest:
requests are answered or fail, by the time-outs of `_new_client`. Ageing of tokens, faults,
revocation and new lookups are not fair.

`ClientSpec` has the loop's fairness only: workflows start, poll and give up as they like.
`FairSpec` of `Charm` assumes that Juju delivers pending events, fires update-status again and
again and elects a leader when there is none, that Pebble becomes ready in a new
container, and that a started workload answers. Changes, faults, trust, grants, revocations and
the relation are not fair.

## Proofs

`DemoControllerProofs` proves, for every value of the constants:

- `TypeCorrect`: `Spec => [](TypeOK /\ LoopShape)`;
- `Invariance`: `Spec => [](TypeOK /\ Inv)`;
- `NoOrphansHolds`, `RefsResolveHolds`, `OutcomeIsTrueHolds` from it;
- `NoRollbackHolds`, `NoLiveTeardownHolds`, action properties, from it and a lemma on
  what one step may do to a row and to a Deployment.

The properties are not inductive as they stand. `NoOrphans` needs to know, when the
row is deleted, that every call of `delete()` has been made (`DeleteProgress`) and that
the row a call acts for exists (`ListedRowsExist`). `RefsResolve` needs what each stage of
`apply()` has established (`ApplyProgress`): pruning is safe only because the Deployment
applied before it no longer refers to what is pruned. The action properties need
`RevOrder`: deployed revision, listed revision, revision of the row and number of
accepted requests are in this order, and a listed record with the row's revision agrees
with it on what is desired. `Inv` is their conjunction, checked by TLC in `Safety`.

`DemoRefinementProofs` proves, for every value of the constants:

- `ReadyInvariance` and `ReadyIsServedHolds`: `Spec => []ReadyInv`, `Spec => []ReadyIsServed`;
- `Refinement`: `Spec => ImplementsLifecycle`, that is, `DemoController` implements `DemoLifecycle`.

`ReadyIsServed` is not inductive: a call on the worker thread could change the objects behind a
row that says ready. `WorkIsNotReady` excludes it: the loop has written another state before
the first call, and requests do so too. The refinement has one lemma per kind of step
(`RequestRefines`, `BeginRefines`, `ApplyRefines`, `DeleteRefines`, `AppliedRefines`,
`DeletedRefines`, `FailureRefines`, `InvisibleSteps`). It uses `ListedRowsExist` and
`DeleteProgress` where the row is deleted, `ApplyProgress` where ready is reported, and
`WorkIsNotReady` where objects change. Its own assumption, `WishAssumption`, is that `None`
is not a record.

`VaultClientProofs` proves, for any number of coroutines, lookups and faults:

- `VaultInvariance`: `Spec => [](TypeOK /\ VaultInv)`;
- `PoolDisciplineHolds`, `NoRedundantLoginHolds`, `NeverReplayedHolds` from it.

`PoolDiscipline` needs mutual exclusion of the requests, hence `LocksHeld`, and that nobody
goes on with a replaced client, `ClientInUse`. `NeverReplayed` needs to know why a
client is being replaced: `ResetRaises` says that a reset that does not end in an error follows
a request that was certainly not sent. `NoRedundantLogin` needs `LocksHeld`: only the holder of
`_lock` sets a token.

`VaultMaskingProofs` proves `OneFaultMaskedHolds`: a lookup that fails has met more than one fault.
The property says nothing of a lookup that goes on, so its invariant, `MaskInv`, says of every place
where a coroutine may be what it must have met to be there: a second attempt follows a fault, an
error is raised only after two, and a coroutine that has met none, or has already authenticated
anew for the one it met, carries a token that Vault accepts. The steps of *other* coroutines are
the hard part: they replace, discard or lose the token and the HTTP client under it. Only the
holder of `_lock` obtains a token; a revocation is charged to every lookup in progress (`Fault`) and a
token that is already `Stale` to every lookup that begins (`Project`); and a request takes the
current HTTP client only when it has the lock (`Send`).
The proof takes `LocksHeld`, `ClientInUse` and `ResetRaises` from `VaultInvariance`.

`AuthenticatorProofs` proves, for all repositories, nonces, contents, limits, windows and delays:

- `AuthenticatorTyped` and `AuthInvariance`: `Spec => []TypeOK`, `Spec => [](TypeOK /\ AuthInv)`;
- `FirstUseRememberedHolds` and `NonceBindsHolds`: how long a nonce is kept and binds;
- `RetriesAdmittedHolds` and `RefusedOnlyWhenBusyHolds`: nobody is refused without reason;
- `RateKeptHolds`: the limit in real time.

All of these relate the memory of the authenticator to what really happened, at times that are
not the ones it stores: a handler reads the clock, waits for the body and uses what it read.
`HandlersOnTime` bounds the difference by `MaxDelay`. For the rate, `Mirrors` says that the deque is the
end of the log of requests that passed, element by element up to that delay, and that whatever
left it passed at least `Window - MaxDelay` ago: a late request filters the deque with an old time and
appends out of order, and the relation must survive both. For nonces, `FirstUseHeld` says
that a first use is still in the table or so old that neither its time stamp nor its binding counts;
`RowsWereAdmitted` is the converse. `NonceBinds` follows when the second request is
admitted, `RateKept` when the last one passes.

`DemoApiClientProofs` proves, for the workflows composed with the whole controller, `ClientInvariance`
(`ClientSpec => []ClientInv`) and from it `RunsInOrderHolds`, `GoneStaysGoneHolds` and
`ServedStaysServedHolds`. `ClientImplies` shows that whatever the client does is a behaviour of `Spec`, so
that the theorems of the core (`Invariance`, `ReadyInvariance`) apply. What a run was told is about a row whose state is not
tied to its delivery; it is true nevertheless because a row holds the last request accepted as
long as it exists (`LatestIsHeld`), because a record that is still listed for a ready demo is
the row's own (`ReadyIsListed`), and because the loop has not listed a demo it serves as withdrawn or
with an older expiry (`ServedIsListed`). `NoOrphans` gives the rest of `GoneStaysGone`. The deployed
objects may still be those of an older request: this is what `StaleReady` shows, and why
`ServedStaysServed` says that a Deployment is there and routed, not which.

`RunsWhatIsWanted` and `RouteFollows` are checked by TLC only, and name what the code leaves open. When
an option is set to a secret that is not yet granted, `_configure` says blocked (`charm.py:101-103`) and the
old workload runs on; the grant is announced to nobody; and `_update_status` (`charm.py:266-281`)
then finds an environment and a running service, never applies the layer, and may say active with
the old environment for good. `RunsWhatIsWanted` allows a unit in `untold` just this, if it was running
something; a unit that runs nothing must still say so, and one that an event has told must run what is wanted.
Without that disjunct TLC finds the behaviour. `RouteFollows` speaks of a leader whose secrets are there and whose
workload runs, since `_update_status` returns before publishing otherwise (`charm.py:267-277`).
`ActiveIsHonest` does not say that the environment is the wanted one.

`CharmProofs` proves, for any number of units, `CharmTyped`, `ServiceIsOwnedHolds`,
`RemovalCleansUpHolds` and `RouteOnlyCorrectedHolds`. `RemovalCleansUp` speaks of the end only; it needs
`ServiceIsOwned`: the Service exists only while there is a leader, because only a leader creates
one and a leader that is removed, unlike one that is replaced, deletes it. `RouteOnlyCorrected` is
about a single hook; its proof goes through every path of `_publish_route`, error paths included.

### Assumptions

All are named, stand in the modules that declare the constants, and are evaluated by the runs.
Requests and configurations are well formed, bounds are naturals, and null values are not values
(`NoneAssumption`, `WishAssumption` and their like). `FreshIdAssumption` of `DemoApiClient`: requests of
different runs have different delivery identifiers; the workflows build them from the run's id and
attempt. The authenticator's `MaxDelay` is an assumption on the environment, as said above: the code has
no limit, and the theorems hold for every value of it.

### What is only model-checked

- Liveness: `Convergence`, `WithdrawalCompletes`, `StopCompletes`, `StatusRecovers`, `AnswerOffered`,
  `LookupEnds`, `RouteFollows`, `RunsWhatIsWanted`, `ActiveIsHonest`. The prover does not handle fairness and
  ENABLED.
- The five violations below, which are counterexamples.

Every invariant and every action property that a passing run checks is also a theorem. `RunsInOrder` and
`NoLiveTeardown` are checked once, the one as a part of `ClientInv` in `Workflow`, the other in `TwoDemos`, where
one demo's deletion could also reach the other's Deployment.

## Findings

Five runs end in a violation; PROJECT.json quotes the statement each one contradicts.
They come from two causes. The loop writes by key what it decided on a listed record:
a deploy accepted during a deletion is deleted with the row (`LostDeployment`), and a
deploy accepted during an update is reported ready before it is applied (`StaleReady`).
And the row's route metadata survives the objects it describes: after a failed deletion
(`ExpiredRouted`) or a half-applied change of port (`PortChange`).
`LateDuplicate` shows that idempotence reaches back to the last delivery only.

## Plan

1. Done: store, API, loop, Kubernetes calls, process; safety, liveness, proofs.
2. Done: `Authenticator`: nonces, time stamps, rate limit, retries of a client, crash between
   the nonce and the row.
3. Done: `VaultClient`: token life cycle, the two locks, retry only of what was not sent; proofs.
4. Done: `ControllerHealth`: statusz and its cached observations, composed with the loop.
5. Done: `DemoLifecycle`, the abstract specification, and the proof that `DemoController`
   implements it; `DemoApiClient`: the workflows' runs composed with the controller.
6. Done: `Charm`: route publication, workload, status, removal.
7. Done: proofs about `Authenticator`, of the masking of faults in `VaultClient`, of the workflows'
   three safety properties and of the charm's.
8. Open: generations, old and new pods behind `available`.
9. Open: an abstract specification of the authenticator (a set of admissions, without deque and
   table) and the proof that `Authenticator` implements it.

## Not modelled

Forwarding of proxied requests and cookies, pod log retrieval and frame decoding, image build
and GHCR clean-up, settings: I/O or data without a protocol that a state machine would add
to. Names (`naming.py`): pure functions on strings; where two of them coincide is
recorded as a hazard, and the modules assume distinct names. HMAC itself is assumed correct.
