---------------------- MODULE AuthenticatorProperties ----------------------
(* What the authenticator promises the API and its clients. *)
EXTENDS Authenticator

TypeOK ==
    /\ clock \in 0..MaxTime
    /\ nonces \in [Repository -> [Nonce -> NonceRow \cup {None}]]
    /\ times \in [Repository -> Seq(0..clock)]
    /\ \A r \in Repository : Len(times[r]) =< RateLimit
    /\ handlers \in [Handler -> [message : Message, now : 0..clock] \cup {None}]
    /\ received \in 0..MaxRequests /\ faults \in 0..MaxFaults
    /\ passed \in [Repository -> Seq(0..clock)]
    /\ admitted \in Seq(Admission)

SameNonce(a, b) == a.repository = b.repository /\ a.nonce = b.nonce

\* A nonce is bound to the first content that used it for twice max_age_seconds,
\* less the delay of a body: the rows of the table carry times that were read
\* before the body arrived, and so does the request that deletes them.
NonceBinds ==
    \A i, j \in DOMAIN admitted :
        LET a == admitted[i]
            b == admitted[j]
        IN  i < j /\ a.first /\ SameNonce(a, b) /\ a.content # b.content
                => b.at - a.at > 2 * MaxAge - MaxDelay

\* The reason for twice max_age_seconds (auth.py:74): as long as the signature of
\* the request that first used a nonce would still be accepted, the nonce is
\* remembered, although its time stamp may lie in the future.
FirstUseRemembered ==
    \A a \in ToSet(admitted) : a.first /\ Fresh(clock, a.timestamp)
        => /\ nonces[a.repository][a.nonce] # None
           /\ nonces[a.repository][a.nonce].content = a.content

\* "Allow a repeated nonce only when repository, method, path, nonce, and raw body
\* are identical. A retry may use a fresh timestamp and signature." (ADR 0004): a
\* request is refused as a replay only if its nonce was admitted with another
\* content, however often it is retried and whatever crashes in between.
RetriesAdmitted ==
    [][\A h \in Handler : Replay(h) =>
          \E a \in ToSet(admitted) : SameNonce(a, Asked(h)) /\ a.content # Asked(h).content]_vars

\* The rate limit holds in real time, less the delay of a body: in any Window -
\* MaxDelay seconds at most RateLimit requests of a repository pass.
RateKept ==
    \A r \in Repository : \A i \in DOMAIN passed[r] :
        i + RateLimit \in DOMAIN passed[r] =>
            passed[r][i + RateLimit] - passed[r][i] >= Window - MaxDelay

\* Nor is a repository refused for requests of long ago, although delayed requests
\* leave the deque out of order: when one is, RateLimit requests passed within
\* the last Window + MaxDelay seconds.
RefusedOnlyWhenBusy ==
    [][\A h \in Handler : RateExceeded(h) =>
          LET p == passed[Asked(h).repository]
          IN  /\ Len(p) >= RateLimit
              /\ clock - p[Len(p) - RateLimit + 1] < Window + MaxDelay]_vars

---------------------------------------------------------------------------
(***************************************************************************)
(* The inductive invariant behind these properties.                        *)
(***************************************************************************)
\* A handler goes on with a time that is at most MaxDelay old, and the time stamp
\* of its request was fresh then.
HandlersOnTime ==
    \A h \in Handler : Busy(h) =>
        /\ clock =< handlers[h].now + MaxDelay
        /\ Fresh(handlers[h].now, Asked(h).timestamp)

\* The deque holds the last of the requests that passed, each with the time that
\* was read before its body arrived; a request that left it passed long ago.
Mirrors(deque, log) ==
    LET left == Len(log) - Len(deque) IN
    /\ left >= 0
    /\ \A i \in DOMAIN deque : deque[i] =< log[left + i] /\ log[left + i] =< deque[i] + MaxDelay
    /\ \A i \in 1..left : clock - log[i] >= Window - MaxDelay

DequeIsRecent == \A r \in Repository : Mirrors(times[r], passed[r])

\* A row of the table was admitted.
RowsWereAdmitted ==
    \A r \in Repository, n \in Nonce : nonces[r][n] # None =>
        \E a \in ToSet(admitted) :
            a.repository = r /\ a.nonce = n /\ a.content = nonces[r][n].content

\* A first use is remembered, or both its time stamp and its nonce are history.
Held(row, a) ==
    \/ /\ row # None /\ row.content = a.content
       /\ a.at =< row.seen + MaxDelay /\ a.timestamp =< row.seen + MaxAge
    \/ /\ clock - a.at > 2 * MaxAge - MaxDelay
       /\ clock > a.timestamp + MaxAge

FirstUseHeld ==
    \A a \in ToSet(admitted) : a.first => Held(nonces[a.repository][a.nonce], a)

\* The inductive invariant of the rate limit and of the nonces.
AuthInv == HandlersOnTime /\ DequeIsRecent /\ RowsWereAdmitted /\ FirstUseHeld
=============================================================================
