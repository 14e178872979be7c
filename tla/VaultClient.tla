---------------------------- MODULE VaultClient ----------------------------
(***************************************************************************)
(* The Vault client, src/demo_controller/vault.py: coroutines look up      *)
(* projects with a cached token, under two asyncio locks: `_lock` around   *)
(* the token, `_request_lock` around every HTTP request and replacement of *)
(* the HTTP client.                                                        *)
(*                                                                         *)
(* Vault and the transport are the environment.  A request may fail before *)
(* it is sent, fail with an unknown outcome, or be answered; a token may   *)
(* be revoked or expire at any time.  Time is abstracted to `fresh`, the   *)
(* comparison of the clock with the token's expiry less 30 seconds.        *)
(***************************************************************************)
EXTENDS Naturals, FiniteSets

CONSTANTS
    Caller,         \* the coroutines that look up projects
    None,           \* no caller, no token
    MaxLookups,     \* bound: lookups started
    MaxFaults       \* bound: failures, revocations and unusable answers

ASSUME CallerAssumption == None \notin Caller /\ None \notin Nat
ASSUME BoundAssumption == MaxLookups \in Nat /\ MaxFaults \in Nat

VARIABLES
    setup,          \* whether the HTTP client is owned and AppRole credentials are set
    token,          \* _token
    fresh,          \* time.monotonic() < _token_expires_at - 30
    renewable,      \* _renewable
    lock,           \* the holder of _lock
    requestLock,    \* the holder of _request_lock
    pool,           \* client, numbered by replacement
    open,           \* the clients that are not closed
    lookup,         \* the state of every coroutine
    issued,         \* the number of tokens Vault has issued, which are 1..issued
    valid,          \* the tokens Vault accepts
    lookups,        \* the number of lookups started
    faults          \* the number of faults so far

cached == <<token, fresh, renewable>>
locks == <<lock, requestLock>>
pools == <<pool, open>>
vault == <<issued, valid>>
vars == <<setup, cached, locks, pools, lookup, vault, lookups, faults>>

Places == {"idle", "ensuring", "queued", "sent", "answered", "resetting", "pausing"}
Requests == {"renew", "login", "read"}

(***************************************************************************)
(* Where a coroutine is, and what it knows.                                *)
(*   at       its place in project, _ensure_token and _request             *)
(*   request  what it asks of Vault                                        *)
(*   header   the token in the request's header, then in Vault's answer    *)
(*   answer   Vault's answer                                               *)
(*   using    the HTTP client it was given                                 *)
(*   attempt  `attempt` of _request                                        *)
(*   again    the lookup has authenticated anew after a 401 or 403         *)
(*   raising  the transport error will be raised after the reset           *)
(* and, for the properties,                                                *)
(*   unsure   a request of this lookup has an unknown outcome              *)
(*   seen     what the lookup has met, 2 and more counting as 2            *)
(*   outcome  how the last lookup ended                                    *)
(***************************************************************************)
Answers == {"none", "granted", "unusable", "invalid", "found", "missing", "denied"}
Outcomes == {"none", "found", "missing", "failed"}
Lookup == [at : Places, request : Requests, header : Nat \cup {None}, answer : Answers,
           using : Nat, attempt : 0..1, again : BOOLEAN, raising : BOOLEAN,
           unsure : BOOLEAN, seen : 0..2, outcome : Outcomes]

NoLookup == [at |-> "idle", request |-> "read", header |-> None, answer |-> "none",
             using |-> 0, attempt |-> 0, again |-> FALSE, raising |-> FALSE,
             unsure |-> FALSE, seen |-> 0, outcome |-> "none"]

Init ==
    /\ setup \in [owned : BOOLEAN, credentials : BOOLEAN]
    /\ token = None /\ fresh = FALSE /\ renewable = FALSE
    /\ lock = None /\ requestLock = None
    /\ pool = 0 /\ open = {0}
    /\ lookup = [c \in Caller |-> NoLookup]
    /\ issued = 0 /\ valid = {}
    /\ lookups = 0 /\ faults = 0

At(c, place) == lookup[c].at = place

\* c's coroutine goes on with its fields changed as in `change`.
Become(c, change) ==
    lookup' = [lookup EXCEPT ![c] = change]

\* c asks Vault: the header is evaluated before _request awaits its lock.
Asking(c, request, header) ==
    [lookup[c] EXCEPT !.at = "queued", !.request = request, !.header = header,
                      !.answer = "none", !.attempt = 0]

Ended(c, outcome) ==
    [lookup[c] EXCEPT !.at = "idle", !.outcome = outcome]

\* `async with self._lock` ends, normally or with an exception.
Release(c) == lock' = IF lock = c THEN None ELSE lock

\* A fault that weighs `weight` happens while the lookups in `after` are in progress.
Fault(weight, after) ==
    /\ faults < MaxFaults
    /\ faults' = faults + 1
    /\ lookup' = [c \in Caller |->
          [after[c] EXCEPT !.seen = IF after[c].seen + weight > 2 THEN 2 ELSE after[c].seen + weight]]

---------------------------------------------------------------------------
(***************************************************************************)
(* project and _ensure_token.                                              *)
(***************************************************************************)
\* A token that is cached, or about to be, and that Vault does not accept.
Stale ==
    \/ token \notin {None} \cup valid
    \/ \E c \in Caller : /\ At(c, "answered") /\ lookup[c].answer = "granted"
                        /\ lookup[c].header \notin valid

Project(c) ==
    /\ At(c, "idle")
    /\ pool \in open
    /\ lookups < MaxLookups
    /\ lookups' = lookups + 1
    /\ Become(c, [NoLookup EXCEPT !.at = "ensuring",
                                  !.seen = IF Stale THEN 1 ELSE 0])
    /\ UNCHANGED <<setup, cached, locks, pools, vault, faults>>

\* The cached token will do: the lock is released at once and the project read.
UseToken(c) ==
    /\ At(c, "ensuring") /\ lock = None
    /\ token # None /\ fresh
    /\ Become(c, Asking(c, "read", token))
    /\ UNCHANGED <<setup, cached, locks, pools, vault, lookups, faults>>

Renew(c) ==
    /\ At(c, "ensuring") /\ lock = None
    /\ token # None /\ ~fresh /\ renewable
    /\ lock' = c
    /\ Become(c, Asking(c, "renew", token))
    /\ UNCHANGED <<setup, cached, requestLock, pools, vault, lookups, faults>>

\* Mutant: the login does not wait for `_lock`.
LoginUnlocked(c) ==
    /\ At(c, "ensuring")
    /\ token = None \/ (~fresh /\ ~renewable)
    /\ setup.credentials
    /\ lock' = c
    /\ Become(c, Asking(c, "login", None))
    /\ UNCHANGED <<setup, cached, requestLock, pools, vault, lookups, faults>>

Login(c) ==
    /\ At(c, "ensuring") /\ lock = None
    /\ token = None \/ (~fresh /\ ~renewable)
    /\ IF setup.credentials
          THEN lock' = c /\ Become(c, Asking(c, "login", None))
          ELSE lock' = lock /\ Become(c, Ended(c, "failed"))
    /\ UNCHANGED <<setup, cached, requestLock, pools, vault, lookups, faults>>

---------------------------------------------------------------------------
(***************************************************************************)
(* _request and _reset_client.                                             *)
(***************************************************************************)
\* Mutant: no `async with self._request_lock`.
SendUnlocked(c) ==
    /\ At(c, "queued") \/ At(c, "pausing")
    /\ requestLock' = c
    /\ Become(c, [lookup[c] EXCEPT !.at = "sent", !.using = pool])
    /\ UNCHANGED <<setup, cached, lock, pools, vault, lookups, faults>>

Send(c) ==
    /\ \/ At(c, "queued") /\ requestLock = None
       \/ At(c, "pausing")
    /\ requestLock' = c
    /\ Become(c, [lookup[c] EXCEPT !.at = "sent", !.using = pool])
    /\ UNCHANGED <<setup, cached, lock, pools, vault, lookups, faults>>

\* A transport error: an owned HTTP client is replaced, and the error is raised
\* unless the request was not sent and this was its first attempt.
Failed(c) ==
    IF setup.owned
       THEN /\ pool' = pool + 1
            /\ open' = open \cup {pool + 1}
            /\ UNCHANGED locks
       ELSE /\ requestLock' = None
            /\ Release(c)
            /\ UNCHANGED pools

\* Mutant: range(3) for range(2).
RaisedLater(c, mayRetry) ==
    IF setup.owned
       THEN [lookup[c] EXCEPT !.at = "resetting",
                              !.raising = ~mayRetry \/ lookup[c].attempt = 2]
       ELSE Ended(c, "failed")

Raised(c, mayRetry) ==
    IF setup.owned
       THEN [lookup[c] EXCEPT !.at = "resetting",
                              !.raising = ~mayRetry \/ lookup[c].attempt = 1]
       ELSE Ended(c, "failed")

\* PoolTimeout, ConnectTimeout, ConnectError, ProxyError.
NotSent(c) ==
    /\ At(c, "sent")
    /\ Failed(c)
    /\ Fault(1, [lookup EXCEPT ![c] = Raised(c, TRUE)])
    /\ UNCHANGED <<setup, cached, vault, lookups>>

\* Mutant: every transport error is retried.
OutcomeUnknownRetried(c) ==
    /\ At(c, "sent") \/ At(c, "answered")
    /\ Failed(c)
    /\ Fault(2, [lookup EXCEPT ![c] = [Raised(c, TRUE) EXCEPT !.unsure = TRUE]])
    /\ UNCHANGED <<setup, cached, vault, lookups>>

\* Any other transport error: Vault may or may not have processed the request.
OutcomeUnknown(c) ==
    /\ At(c, "sent") \/ At(c, "answered")
    /\ Failed(c)
    /\ Fault(2, [lookup EXCEPT ![c] = [Raised(c, FALSE) EXCEPT !.unsure = TRUE]])
    /\ UNCHANGED <<setup, cached, vault, lookups>>

\* The replaced client has been closed.
ResetClient(c) ==
    /\ At(c, "resetting")
    /\ open' = open \ {lookup[c].using}
    /\ IF lookup[c].raising
          THEN /\ requestLock' = None
               /\ Release(c)
               /\ Become(c, Ended(c, "failed"))
          ELSE /\ UNCHANGED locks
               /\ Become(c, [lookup[c] EXCEPT !.at = "pausing", !.attempt = lookup[c].attempt + 1])
    /\ UNCHANGED <<setup, cached, pool, vault, lookups, faults>>

---------------------------------------------------------------------------
(***************************************************************************)
(* Vault.  An answer is "unusable" when its status is an error or its JSON *)
(* lacks a key, and "invalid" when its `auth` has no token of the right    *)
(* type.                                                                   *)
(***************************************************************************)
Answered(c, header, answer) ==
    [lookup EXCEPT ![c].at = "answered", ![c].header = header, ![c].answer = answer]

\* Vault answers as it should: it grants a token, renews a valid one, or looks
\* the project up; it refuses a token that is not valid.
Answer(c) ==
    /\ At(c, "sent")
    /\ \/ /\ lookup[c].request = "login"
          /\ issued' = issued + 1
          /\ valid' = valid \cup {issued + 1}
          /\ lookup' = Answered(c, issued + 1, "granted")
       \/ /\ lookup[c].request = "renew"
          /\ UNCHANGED vault
          /\ lookup' = Answered(c, lookup[c].header,
                                IF lookup[c].header \in valid THEN "granted" ELSE "unusable")
       \/ /\ lookup[c].request = "read"
          /\ UNCHANGED vault
          /\ \E answer \in {"found", "missing", "denied"} :
                /\ (answer = "denied") <=> (lookup[c].header \notin valid)
                /\ lookup' = Answered(c, lookup[c].header, answer)
    /\ UNCHANGED <<setup, cached, locks, pools, lookups, faults>>

\* Vault fails, or is not what it should be.
AnswerBadly(c) ==
    /\ At(c, "sent")
    /\ \E answer \in {"unusable", "invalid"} :
          /\ answer = "invalid" => lookup[c].request # "read"
          /\ Fault(2, Answered(c, lookup[c].header, answer))
    /\ UNCHANGED <<setup, cached, locks, pools, vault, lookups>>

\* A token is revoked, or its lease ends.
Revoke(t) ==
    /\ t \in valid
    /\ valid' = valid \ {t}
    /\ Fault(1, lookup)
    /\ UNCHANGED <<setup, cached, locks, pools, issued, lookups>>

\* The token comes within 30 seconds of its expiry.
Age ==
    /\ fresh
    /\ fresh' = FALSE
    /\ UNCHANGED <<setup, token, renewable, locks, pools, lookup, vault, lookups, faults>>

---------------------------------------------------------------------------
(***************************************************************************)
(* What project and _ensure_token make of an answer.                       *)
(***************************************************************************)
Receives(c, request, answer) ==
    /\ At(c, "answered")
    /\ lookup[c].request = request /\ lookup[c].answer = answer
    /\ requestLock' = None

\* _set_token, and back to project.
SetToken(c) ==
    /\ \E request \in {"renew", "login"} : Receives(c, request, "granted")
    /\ token' = lookup[c].header
    /\ fresh' \in BOOLEAN
    /\ renewable' \in BOOLEAN
    /\ Release(c)
    /\ Become(c, Asking(c, "read", lookup[c].header))
    /\ UNCHANGED <<setup, pools, vault, lookups, faults>>

\* Mutant: the lock is released between the renewal and the login.
RenewalRefusedReleasing(c) ==
    /\ Receives(c, "renew", "unusable")
    /\ token' = None
    /\ Release(c)
    /\ Become(c, Asking(c, "login", None))
    /\ UNCHANGED <<setup, fresh, renewable, pools, vault, lookups, faults>>

\* An unusable answer to a renewal forgets the token, and the client logs in.
RenewalRefused(c) ==
    /\ Receives(c, "renew", "unusable")
    /\ token' = None
    /\ IF setup.credentials
          THEN UNCHANGED lock /\ Become(c, Asking(c, "login", None))
          ELSE Release(c) /\ Become(c, Ended(c, "failed"))
    /\ UNCHANGED <<setup, fresh, renewable, pools, vault, lookups, faults>>

\* Mutant: acquire() without a finally clause, the lock is kept.
AuthenticationFailedHolding(c) ==
    /\ \/ Receives(c, "login", "unusable")
       \/ \E request \in {"renew", "login"} : Receives(c, request, "invalid")
    /\ Become(c, Ended(c, "failed"))
    /\ UNCHANGED <<setup, cached, lock, pools, vault, lookups, faults>>

AuthenticationFailed(c) ==
    /\ \/ Receives(c, "login", "unusable")
       \/ \E request \in {"renew", "login"} : Receives(c, request, "invalid")
    /\ Release(c)
    /\ Become(c, Ended(c, "failed"))
    /\ UNCHANGED <<setup, cached, pools, vault, lookups, faults>>

\* Mutant: the token is not discarded.
DeniedKeepsToken(c) ==
    /\ Receives(c, "read", "denied")
    /\ ~lookup[c].again
    /\ Become(c, [lookup[c] EXCEPT !.at = "ensuring", !.again = TRUE])
    /\ UNCHANGED <<setup, cached, lock, pools, vault, lookups, faults>>

\* The first 401 or 403 discards whatever token is cached, without the lock.
Denied(c) ==
    /\ Receives(c, "read", "denied")
    /\ ~lookup[c].again
    /\ token' = None /\ fresh' = FALSE
    /\ Become(c, [lookup[c] EXCEPT !.at = "ensuring", !.again = TRUE])
    /\ UNCHANGED <<setup, renewable, lock, pools, vault, lookups, faults>>

LookupFailed(c) ==
    /\ \/ Receives(c, "read", "unusable")
       \/ Receives(c, "read", "denied") /\ lookup[c].again
    /\ Become(c, Ended(c, "failed"))
    /\ UNCHANGED <<setup, cached, lock, pools, vault, lookups, faults>>

LookupDone(c) ==
    /\ \E answer \in {"found", "missing"} :
          /\ Receives(c, "read", answer)
          /\ Become(c, Ended(c, answer))
    /\ UNCHANGED <<setup, cached, lock, pools, vault, lookups, faults>>

---------------------------------------------------------------------------
\* aclose, in the finally clause of the loop that makes the lookups.
Close ==
    /\ requestLock = None
    /\ \A c \in Caller : At(c, "idle")
    /\ setup.owned /\ pool \in open
    /\ open' = open \ {pool}
    /\ UNCHANGED <<setup, cached, locks, pool, lookup, vault, lookups, faults>>
---------------------------------------------------------------------------
Ensure(c) == UseToken(c) \/ Renew(c) \/ Login(c)
Receive(c) ==
    \/ SetToken(c) \/ RenewalRefused(c) \/ AuthenticationFailed(c)
    \/ Denied(c) \/ LookupFailed(c) \/ LookupDone(c)
Goes(c) == Ensure(c) \/ Send(c) \/ ResetClient(c) \/ Receive(c)
Transport(c) == Answer(c) \/ AnswerBadly(c) \/ NotSent(c) \/ OutcomeUnknown(c)

Next ==
    \/ \E c \in Caller : Project(c) \/ Goes(c) \/ Transport(c)
    \/ \E t \in valid : Revoke(t)
    \/ Age
    \/ Close

Spec == Init /\ [][Next]_vars

\* The coroutines go on, asyncio's locks are first come first served, and every
\* request is answered or times out.
FairSpec ==
    /\ Spec
    /\ \A c \in Caller : SF_vars(Goes(c)) /\ WF_vars(Transport(c))
=============================================================================
