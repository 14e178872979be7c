--------------------------- MODULE Authenticator ---------------------------
(***************************************************************************)
(* Authenticated requests: src/demo_controller/auth.py and the nonces of   *)
(* src/demo_controller/store.py.                                           *)
(*                                                                         *)
(* authenticate() reads the clock, checks the time stamp, waits for the    *)
(* body and goes on with the time it read: the signature, the rate, the    *)
(* nonce.  Other requests are handled while it waits.  Nonces are durable, *)
(* the times of recent requests are in memory.                             *)
(*                                                                         *)
(* Method, path and body of a request are one value, its content; HMAC is  *)
(* reduced to whether the signature verifies.  A request of an unknown     *)
(* repository, or with a stale time stamp, leaves no trace and is not      *)
(* modelled.                                                               *)
(***************************************************************************)
EXTENDS Integers, FiniteSets, Sequences, SequencesExt

CONSTANTS
    Repository,     \* the repositories with a credential
    Nonce, Content,
    Message,        \* the requests that may arrive
    None,           \* no nonce, no row, no request
    Handler,        \* bound: requests handled at the same time
    MaxAge,         \* max_age_seconds
    RateLimit,      \* rate_limit_per_minute
    Window,         \* its minute
    MaxDelay,       \* bound: seconds that a body takes to arrive
    MaxTime,        \* bound: the last value of the clock
    MaxRequests,    \* bound: requests
    MaxFaults       \* bound: crashes and database errors

\* A row of the table: the fingerprint of the request and its seen_at.
NonceRow == [content : Content, seen : Int]

ASSUME NoneAssumption == None \notin Nonce \cup Content \cup NonceRow
ASSUME MessageAssumption ==
    Message \subseteq [repository : Repository, nonce : Nonce \cup {None}, content : Content,
                       timestamp : Int, signed : BOOLEAN]
ASSUME TimeAssumption ==
    /\ {MaxAge, RateLimit, Window, MaxDelay, MaxTime, MaxRequests, MaxFaults} \subseteq Nat
    /\ RateLimit > 0

VARIABLES
    clock,          \* int(time.time())
    nonces,         \* the table: fingerprint and seen_at by repository and nonce
    times,          \* _requests: the deque of every repository
    handlers,       \* the requests that are being handled
    received,       \* the number of requests so far
    faults,         \* the number of faults so far
    passed,         \* history: when requests passed the rate limit, in this process
    admitted        \* history: the requests admitted under a nonce

vars == <<clock, nonces, times, handlers, received, faults, passed, admitted>>

\* `first` says that the request put the nonce in the table.
Admission == [repository : Repository, nonce : Nonce, content : Content,
              timestamp : Int, at : Nat, first : BOOLEAN]

Init ==
    /\ clock = 0
    /\ nonces = [r \in Repository |-> [n \in Nonce |-> None]]
    /\ times = [r \in Repository |-> <<>>]
    /\ handlers = [h \in Handler |-> None]
    /\ received = 0 /\ faults = 0
    /\ passed = [r \in Repository |-> <<>>]
    /\ admitted = <<>>

---------------------------------------------------------------------------
\* abs(now - timestamp) <= self.max_age_seconds
Fresh(now, timestamp) == now - MaxAge =< timestamp /\ timestamp =< now + MaxAge

\* A request with a fresh time stamp arrives; its handler awaits the body.
Arrive(h, m) ==
    /\ handlers[h] = None /\ received < MaxRequests
    /\ Fresh(clock, m.timestamp)
    /\ handlers' = [handlers EXCEPT ![h] = [message |-> m, now |-> clock]]
    /\ received' = received + 1
    /\ UNCHANGED <<clock, nonces, times, faults, passed, admitted>>

(***************************************************************************)
(* _check_rate.                                                            *)
(***************************************************************************)
\* The deque without the requests at its head that left the window.  Times of
\* delayed requests may be out of order: one behind a later one stays.
From(requests, boundary) ==
    LET head == SelectInSeq(requests, LAMBDA t : t > boundary)
    IN  IF head = 0 THEN <<>> ELSE SubSeq(requests, head, Len(requests))

\* Mutant: a deque that is never pruned.
RecentAll(requests, now) == requests

\* Mutant: a window that ends a second early.
RecentShort(requests, now) == From(requests, now - Window + 1)

Recent(requests, now) == From(requests, now - Window)

\* Mutant: one request too many.
HasRoomOneMore(requests) == Len(requests) =< RateLimit

HasRoom(requests) == Len(requests) < RateLimit

(***************************************************************************)
(* use_nonce.                                                              *)
(***************************************************************************)
\* Mutant: nonces are kept for one max_age_seconds, as long as a request that is
\* signed when it is sent stays fresh.
KeptOnce(now) ==
    [r \in Repository |-> [n \in Nonce |->
        IF nonces[r][n] # None /\ nonces[r][n].seen < now - MaxAge THEN None ELSE nonces[r][n]]]

\* DELETE FROM nonces WHERE seen_at < now - max_age, with twice max_age_seconds.
Kept(now) ==
    [r \in Repository |-> [n \in Nonce |->
        IF nonces[r][n] # None /\ nonces[r][n].seen < now - 2 * MaxAge THEN None ELSE nonces[r][n]]]

\* Mutant: any nonce that was seen is a replay.
MatchesNever(row, content) == FALSE

\* Mutant: any nonce that was seen is a retry.
MatchesAlways(row, content) == TRUE

\* The fingerprint leaves the time stamp and the signature out.
Matches(row, content) == row.content = content

---------------------------------------------------------------------------
(***************************************************************************)
(* The rest of authenticate(), after the body has arrived.                 *)
(***************************************************************************)
Done(h) == handlers' = [handlers EXCEPT ![h] = None]

Busy(h) == handlers[h] # None
Asked(h) == handlers[h].message

\* 401: the signature does not verify.
BadSignature(h) ==
    /\ Busy(h) /\ ~Asked(h).signed
    /\ Done(h)
    /\ UNCHANGED <<clock, nonces, times, received, faults, passed, admitted>>

\* 429: the limit is reached.
RateExceeded(h) ==
    /\ Busy(h) /\ Asked(h).signed
    /\ LET r == Asked(h).repository
           recent == Recent(times[r], handlers[h].now)
       IN  /\ ~HasRoom(recent)
           /\ times' = [times EXCEPT ![r] = recent]
    /\ Done(h)
    /\ UNCHANGED <<clock, nonces, received, faults, passed, admitted>>

\* The request passes the limit and is counted.
Pass(h) ==
    /\ Busy(h) /\ Asked(h).signed
    /\ LET r == Asked(h).repository
           recent == Recent(times[r], handlers[h].now)
       IN  /\ HasRoom(recent)
           /\ times' = [times EXCEPT ![r] = Append(recent, handlers[h].now)]
           /\ passed' = [passed EXCEPT ![r] = Append(passed[r], clock)]

Admit(h, first) ==
    admitted' = Append(admitted,
        [repository |-> Asked(h).repository, nonce |-> Asked(h).nonce, content |-> Asked(h).content,
         timestamp |-> Asked(h).timestamp, at |-> clock, first |-> first])

\* What the table remembers of the nonce once old nonces have been deleted.
Row(h) == Kept(handlers[h].now)[Asked(h).repository][Asked(h).nonce]

\* 409: a request without a nonce, which the database does not see.
NoNonce(h) ==
    /\ Pass(h) /\ Asked(h).nonce = None
    /\ Done(h)
    /\ UNCHANGED <<clock, nonces, received, faults, admitted>>

\* The nonce is new, or forgotten.
Remember(h) ==
    /\ Pass(h) /\ Asked(h).nonce # None /\ Row(h) = None
    /\ nonces' = [Kept(handlers[h].now) EXCEPT ![Asked(h).repository][Asked(h).nonce] =
                     [content |-> Asked(h).content, seen |-> handlers[h].now]]
    /\ Admit(h, TRUE)
    /\ Done(h)
    /\ UNCHANGED <<clock, received, faults>>

\* The request comes again; the row keeps the time it was first seen.
Retry(h) ==
    /\ Pass(h) /\ Asked(h).nonce # None /\ Row(h) # None
    /\ Matches(Row(h), Asked(h).content)
    /\ nonces' = Kept(handlers[h].now)
    /\ Admit(h, FALSE)
    /\ Done(h)
    /\ UNCHANGED <<clock, received, faults>>

\* 409: the nonce belongs to a request with another content.
Replay(h) ==
    /\ Pass(h) /\ Asked(h).nonce # None /\ Row(h) # None
    /\ ~Matches(Row(h), Asked(h).content)
    /\ nonces' = Kept(handlers[h].now)
    /\ Done(h)
    /\ UNCHANGED <<clock, received, faults, admitted>>

---------------------------------------------------------------------------
(***************************************************************************)
(* Faults and time.                                                        *)
(***************************************************************************)
Fault == faults < MaxFaults /\ faults' = faults + 1

\* 500: an SQLite error rolls the table back; the request stays counted.
StoreFails(h) ==
    /\ Fault
    /\ Pass(h) /\ Asked(h).nonce # None
    /\ Done(h)
    /\ UNCHANGED <<clock, nonces, received, admitted>>

\* The process ends and starts anew: what was in memory is lost.
Crash ==
    /\ Fault
    /\ handlers' = [h \in Handler |-> None]
    /\ times' = [r \in Repository |-> <<>>]
    /\ passed' = [r \in Repository |-> <<>>]
    /\ UNCHANGED <<clock, nonces, received, admitted>>

\* Time passes; bodies arrive within MaxDelay.
Tick ==
    /\ clock < MaxTime
    /\ \A h \in Handler : Busy(h) => clock < handlers[h].now + MaxDelay
    /\ clock' = clock + 1
    /\ UNCHANGED <<nonces, times, handlers, received, faults, passed, admitted>>

Authenticates(h) ==
    \/ BadSignature(h) \/ RateExceeded(h) \/ NoNonce(h)
    \/ Remember(h) \/ Retry(h) \/ Replay(h) \/ StoreFails(h)

Next ==
    \/ \E h \in Handler, m \in Message : Arrive(h, m)
    \/ \E h \in Handler : Authenticates(h)
    \/ Crash
    \/ Tick

Spec == Init /\ [][Next]_vars
=============================================================================
