----------------------- MODULE VaultClientProperties -----------------------
(* What the Vault client promises the reconciliation loop. *)
EXTENDS VaultClient

TypeOK ==
    /\ setup \in [owned : BOOLEAN, credentials : BOOLEAN]
    /\ token \in Nat \cup {None} /\ fresh \in BOOLEAN /\ renewable \in BOOLEAN
    /\ lock \in Caller \cup {None} /\ requestLock \in Caller \cup {None}
    /\ pool \in Nat /\ open \in SUBSET Nat
    /\ lookup \in [Caller -> Lookup]
    /\ issued \in Nat /\ valid \in SUBSET Nat
    /\ lookups \in Nat /\ faults \in Nat

---------------------------------------------------------------------------
(***************************************************************************)
(* Where a coroutine may be with respect to the locks.                     *)
(***************************************************************************)
Requesting == {"sent", "answered", "resetting", "pausing"}
Authenticating(c) == lookup[c].at \in Requesting \cup {"queued"} /\ lookup[c].request # "read"

\* A coroutine that has, or waits for, the answer to a renewal or a login holds
\* `_lock`, and one that is inside _request holds `_request_lock`.
LocksHeld ==
    /\ \A c \in Caller : Authenticating(c) <=> lock = c
    /\ \A c \in Caller : lookup[c].at \in Requesting <=> requestLock = c

\* "Replacement must not close a pool while another Vault request is using it"
\* (vault.py:81): a request in progress has the current HTTP client, which is
\* open; all others are closed, except the one that is being closed; a client
\* that was injected is never replaced or closed (tests/test_vault_recovery.py).
PoolDiscipline ==
    /\ \A c \in Caller : lookup[c].at \in {"sent", "answered"} =>
          lookup[c].using = pool /\ pool \in open
    /\ \A p \in open : p = pool \/ \E c \in Caller : At(c, "resetting") /\ lookup[c].using = p
    /\ ~setup.owned => pool = 0 /\ open = {0}

\* Between two steps the replaced client is not the current one, and the current
\* one is open as long as a lookup is in progress.
ClientInUse ==
    /\ \A c \in Caller : ~At(c, "idle") => pool \in open
    /\ \A c \in Caller : lookup[c].at \in {"resetting", "pausing"} => setup.owned /\ lookup[c].using < pool

\* Coroutines that need a token at the same time do not all authenticate: while
\* one renews or logs in there is no usable cached token, although the check of
\* the token and the use of its result are far apart.
NoRedundantLogin ==
    \A c \in Caller : Authenticating(c) => token = None \/ ~fresh

\* "Never replay a login/renewal after an ambiguous read/write failure"
\* (vault.py:101), and do not fall through from the renewal to a login: once the
\* outcome of a request is unknown the lookup sends nothing more.
NeverReplayed ==
    \A c \in Caller : lookup[c].unsure => lookup[c].at \in {"idle", "resetting"}

\* One failure before sending, one revoked token or one token that was already
\* revoked when the lookup began does not make the lookup fail.
OneFaultMasked ==
    setup.owned /\ setup.credentials =>
        \A c \in Caller : lookup[c].outcome = "failed" => lookup[c].seen = 2

\* Every lookup ends: the two locks never block each other, and renewals, logins
\* and retries do not go on for ever.
LookupEnds == \A c \in Caller : ~At(c, "idle") ~> At(c, "idle")

---------------------------------------------------------------------------
\* While the HTTP client is replaced, either the error will be raised or the
\* request was certainly not sent, for the first time.
ResetRaises ==
    \A c \in Caller : At(c, "resetting") =>
        lookup[c].raising \/ (lookup[c].attempt = 0 /\ ~lookup[c].unsure)

\* The inductive invariant of the safety properties.
VaultInv == LocksHeld /\ ClientInUse /\ ResetRaises /\ PoolDiscipline /\ NoRedundantLogin /\ NeverReplayed

---------------------------------------------------------------------------
(***************************************************************************)
(* The inductive invariant of OneFaultMasked, coroutine by coroutine.      *)
(***************************************************************************)
\* A coroutine that has met nothing yet, or one fault that made it authenticate
\* anew: there is no token it could be refused for.
Spared(l) == l.seen = 0 \/ (l.seen = 1 /\ l.again)

\* A renewal or a lookup carries the token of its header until Vault answers.
Carries(l) == l.at \in Requesting \cup {"queued"} /\ l.request # "login"

\* What a coroutine in the state l has met explains where it is, when `stale`
\* says whether a stale token is cached and Vault accepts the tokens `good`.
Explained(l, stale, good) ==
    /\ l.outcome = "failed" => l.seen = 2
    /\ l.at # "idle" =>
         /\ Spared(l) => /\ ~stale
                         /\ Carries(l) => l.header \in good
                         /\ l.at = "answered" => l.answer \in {"granted", "found", "missing"}
         /\ l.seen = 0 => ~l.again
         /\ l.attempt = 1 => l.seen # 0
         /\ l.at = "resetting" => l.seen # 0 /\ (l.raising => l.seen = 2)
         /\ l.at = "answered" /\ l.answer = "invalid" => l.seen = 2
         /\ l.at = "answered" /\ l.answer = "unusable" /\ l.request # "renew" => l.seen = 2

\* The inductive invariant of OneFaultMasked: in every lookup of a client that is
\* owned and has credentials, what was met explains where the lookup is.
MaskInv ==
    setup.owned /\ setup.credentials =>
        \A c \in Caller : Explained(lookup[c], Stale, valid)
=============================================================================
