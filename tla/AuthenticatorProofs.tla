------------------------- MODULE AuthenticatorProofs -------------------------
(***************************************************************************)
(* Theorems about the authenticator: for every set of repositories, nonces *)
(* and requests, any number of concurrent handlers, and every limit.       *)
(***************************************************************************)
EXTENDS AuthenticatorProperties, SequenceTheorems, WellFoundedInduction, TLAPS

-----------------------------------------------------------------------------
LEMMA LimitsTyped ==
    /\ MaxAge \in Nat /\ Window \in Nat /\ MaxDelay \in Nat
    /\ MaxTime \in Nat /\ MaxRequests \in Nat /\ MaxFaults \in Nat
    /\ RateLimit \in Nat /\ RateLimit > 0
  BY Zenon, TimeAssumption

-----------------------------------------------------------------------------
(* Lemmas about sequences. *)

LEMMA SeqSubset ==
    ASSUME NEW T, NEW S \in SUBSET T, NEW s \in Seq(S)
    PROVE  /\ s \in Seq(T) /\ Len(s) \in Nat /\ DOMAIN s = 1..Len(s)
           /\ \A i \in 1..Len(s) : s[i] \in S
<1>1. Len(s) \in Nat /\ DOMAIN s = 1..Len(s) /\ s \in [1..Len(s) -> S]
  BY LenProperties
<1>2. s \in [1..Len(s) -> T]
  BY <1>1
<1> QED
  BY <1>1, <1>2, SeqDef

LEMMA SmallestIndex ==
    ASSUME NEW I \in SUBSET Nat, I # {}
    PROVE  \E i \in I : \A j \in I : i =< j
<1> DEFINE R == OpToRel(<, Nat)
<1>1. IsWellFoundedOn(R, Nat)
  BY NatLessThanWellFounded
<1>2. PICK i \in I : \A j \in I : ~ (<<j, i>> \in R)
  <2> HIDE DEF R
  <2> QED
    BY <1>1, WFMin
<1>3. \A j \in I : ~ (j < i)
  BY <1>2 DEF OpToRel
<1> QED
  BY <1>3

\* Pruning drops requests from the head that are out of the window, up to the
\* first that is not.
LEMMA FromFacts ==
    ASSUME NEW requests \in Seq(Int), NEW boundary \in Int
    PROVE  \E dropped \in 0..Len(requests) :
              /\ From(requests, boundary) = SubSeq(requests, dropped + 1, Len(requests))
              /\ \A i \in 1..dropped : requests[i] =< boundary
              /\ dropped < Len(requests) => requests[dropped + 1] > boundary
<1> DEFINE I == {i \in 1..Len(requests) : requests[i] > boundary}
           head == IF I # {} THEN Min(I) ELSE 0
<1>1. Len(requests) \in Nat /\ \A i \in 1..Len(requests) : requests[i] \in Int
  OBVIOUS
<1>2. From(requests, boundary) = IF head = 0 THEN <<>> ELSE SubSeq(requests, head, Len(requests))
  BY DEF From, SelectInSeq
<1>3. CASE I = {}
  <2>1. From(requests, boundary) = SubSeq(requests, Len(requests) + 1, Len(requests))
    BY <1>1, <1>2, <1>3
  <2>2. \A i \in 1..Len(requests) : requests[i] =< boundary
    BY <1>1, <1>3
  <2> DEFINE dropped == Len(requests)
  <2>3. dropped \in 0..Len(requests) /\ ~ (dropped < Len(requests))
    BY <1>1
  <2>4. From(requests, boundary) = SubSeq(requests, dropped + 1, Len(requests))
    BY <2>1
  <2>5. \A i \in 1..dropped : requests[i] =< boundary
    BY <2>2
  <2> HIDE DEF dropped
  <2> QED
    BY <2>3, <2>4, <2>5
<1>4. CASE I # {}
  <2>. I \in SUBSET Nat
    OBVIOUS
  <2>1. PICK n \in I : \A m \in I : n =< m
    BY <1>4, SmallestIndex
  <2>2. Min(I) \in I /\ \A m \in I : Min(I) =< m
    BY <2>1 DEF Min
  <2> DEFINE dropped == head - 1
  <2>3. head \in I /\ \A m \in I : head =< m
    BY <1>4, <2>2
  <2> HIDE DEF head
  <2>4. dropped \in 0..Len(requests) /\ dropped + 1 = head /\ head # 0
    BY <1>1, <2>3
  <2>5. \A i \in 1..dropped : requests[i] =< boundary
    BY <1>1, <2>3
  <2>6. requests[dropped + 1] > boundary
    BY <2>3, <2>4
  <2>7. From(requests, boundary) = SubSeq(requests, dropped + 1, Len(requests))
    BY <1>2, <2>4
  <2> HIDE DEF dropped
  <2> QED
    BY <2>4, <2>5, <2>6, <2>7
<1> QED
  BY <1>3, <1>4

\* What remains of the deque is its end.
LEMMA RecentFacts ==
    ASSUME NEW S \in SUBSET Int, NEW requests \in Seq(S), NEW now \in Int
    PROVE  \E dropped \in 0..Len(requests) :
              /\ Recent(requests, now) \in Seq(S)
              /\ Len(Recent(requests, now)) = Len(requests) - dropped
              /\ \A i \in 1..Len(requests) - dropped :
                    Recent(requests, now)[i] = requests[dropped + i]
              /\ \A i \in 1..dropped : requests[i] =< now - Window
              /\ dropped < Len(requests) => requests[dropped + 1] > now - Window
<1>1. /\ requests \in Seq(Int) /\ Len(requests) \in Nat
      /\ \A i \in 1..Len(requests) : requests[i] \in S
  BY SeqSubset
<1>. now - Window \in Int
  BY LimitsTyped
<1>2. PICK dropped \in 0..Len(requests) :
         /\ From(requests, now - Window) = SubSeq(requests, dropped + 1, Len(requests))
         /\ \A i \in 1..dropped : requests[i] =< now - Window
         /\ dropped < Len(requests) => requests[dropped + 1] > now - Window
  BY <1>1, FromFacts
<1> DEFINE rest == SubSeq(requests, dropped + 1, Len(requests))
<1>3. Recent(requests, now) = rest
  BY <1>2 DEF Recent
<1>4. /\ rest \in Seq(S)
      /\ Len(rest) = Len(requests) - dropped
      /\ \A i \in 1..Len(requests) - dropped : rest[i] = requests[dropped + i]
  <2>1. /\ dropped + 1 \in Int /\ Len(requests) \in Int
        /\ \A i \in dropped + 1..Len(requests) : requests[i] \in S
    BY <1>1
  <2>2. /\ rest \in Seq(S)
        /\ Len(rest) = IF dropped + 1 =< Len(requests) THEN Len(requests) - (dropped + 1) + 1 ELSE 0
        /\ \A i \in 1..Len(requests) - (dropped + 1) + 1 : rest[i] = requests[dropped + 1 + i - 1]
    BY <2>1, SubSeqProperties
  <2> HIDE DEF rest
  <2> QED
    BY <1>1, <2>2
<1> HIDE DEF rest
<1> QED
  BY <1>2, <1>3, <1>4

LEMMA AppendToSet ==
    ASSUME NEW S, NEW s \in Seq(S), NEW e \in S
    PROVE  ToSet(Append(s, e)) = ToSet(s) \cup {e}
<1>1. /\ Append(s, e) \in Seq(S) /\ Len(Append(s, e)) = Len(s) + 1 /\ Len(s) \in Nat
      /\ \A i \in 1..Len(s) : Append(s, e)[i] = s[i]
      /\ Append(s, e)[Len(s) + 1] = e
  BY AppendProperties
<1>2. DOMAIN s = 1..Len(s) /\ DOMAIN Append(s, e) = 1..Len(s) + 1
  BY <1>1
<1>3. ToSet(Append(s, e)) \subseteq ToSet(s) \cup {e}
  BY <1>1, <1>2 DEF ToSet
<1>4. ToSet(s) \subseteq ToSet(Append(s, e)) /\ e \in ToSet(Append(s, e))
  BY <1>1, <1>2 DEF ToSet
<1> QED
  BY <1>3, <1>4

-----------------------------------------------------------------------------
(* Type correctness. *)

\* What a handler goes on with.
LEMMA AskedTyped ==
    ASSUME TypeOK, NEW h \in Handler, Busy(h)
    PROVE  /\ handlers[h] \in [message : Message, now : 0..clock]
           /\ Asked(h) \in Message
           /\ Asked(h).repository \in Repository /\ Asked(h).nonce \in Nonce \cup {None}
           /\ Asked(h).content \in Content /\ Asked(h).timestamp \in Int
           /\ handlers[h].now \in 0..clock /\ handlers[h].now \in Int /\ clock \in Nat
<1>1. handlers[h] \in [message : Message, now : 0..clock] /\ clock \in 0..MaxTime
  BY DEF TypeOK, Busy
<1>2. clock \in Nat /\ handlers[h].now \in Int
  BY <1>1, LimitsTyped
<1>3. Asked(h) \in [repository : Repository, nonce : Nonce \cup {None}, content : Content,
                    timestamp : Int, signed : BOOLEAN]
  BY <1>1, MessageAssumption DEF Asked
<1> QED
  BY <1>1, <1>2, <1>3 DEF Asked

LEMMA KeptFacts ==
    ASSUME TypeOK, NEW now \in Int
    PROVE  /\ Kept(now) \in [Repository -> [Nonce -> NonceRow \cup {None}]]
           /\ \A r \in Repository, n \in Nonce :
                 \/ Kept(now)[r][n] = nonces[r][n]
                 \/ /\ Kept(now)[r][n] = None /\ nonces[r][n] # None
                    /\ nonces[r][n].seen < now - 2 * MaxAge
<1>1. nonces \in [Repository -> [Nonce -> NonceRow \cup {None}]]
  BY DEF TypeOK
<1>2. \A r \in Repository, n \in Nonce :
         Kept(now)[r][n] = IF nonces[r][n] # None /\ nonces[r][n].seen < now - 2 * MaxAge
                           THEN None ELSE nonces[r][n]
  BY DEF Kept
<1>3. Kept(now) \in [Repository -> [Nonce -> NonceRow \cup {None}]]
  BY <1>1 DEF Kept
<1> QED
  BY <1>2, <1>3

\* What counting a request does to the deque and to the log of its repository.
LEMMA PassFacts ==
    ASSUME TypeOK, NEW h \in Handler, Pass(h), NEW r \in Repository, r = Asked(h).repository
    PROVE  /\ Recent(times[r], handlers[h].now) \in Seq(0..clock)
           /\ Len(Recent(times[r], handlers[h].now)) \in 0..RateLimit - 1
           /\ times' = [times EXCEPT ![r] = Append(Recent(times[r], handlers[h].now), handlers[h].now)]
           /\ passed' = [passed EXCEPT ![r] = Append(passed[r], clock)]
<1>1. /\ times[r] \in Seq(0..clock) /\ handlers[h].now \in Int /\ 0..clock \in SUBSET Int
  BY AskedTyped DEF TypeOK, Pass
<1>2. Recent(times[r], handlers[h].now) \in Seq(0..clock)
  BY <1>1, RecentFacts
<1>3. Len(Recent(times[r], handlers[h].now)) \in Nat
  BY <1>2
<1>4. Len(Recent(times[r], handlers[h].now)) < RateLimit
  BY DEF Pass, HasRoom
<1> QED
  BY <1>2, <1>3, <1>4, LimitsTyped DEF Pass

LEMMA PassTyped ==
    ASSUME TypeOK, NEW h \in Handler, Pass(h), clock' = clock
    PROVE  /\ times' \in [Repository -> Seq(0..clock')]
           /\ \A r \in Repository : Len(times'[r]) =< RateLimit
           /\ passed' \in [Repository -> Seq(0..clock')]
<1> DEFINE r == Asked(h).repository
           now == handlers[h].now
           recent == Recent(times[r], now)
<1>1. r \in Repository /\ now \in 0..clock /\ clock \in 0..clock
  BY AskedTyped DEF Pass
<1>2. /\ recent \in Seq(0..clock) /\ Len(recent) \in 0..RateLimit - 1
      /\ times' = [times EXCEPT ![r] = Append(recent, now)]
      /\ passed' = [passed EXCEPT ![r] = Append(passed[r], clock)]
  BY <1>1, PassFacts
<1>3. /\ times \in [Repository -> Seq(0..clock)] /\ passed \in [Repository -> Seq(0..clock)]
      /\ \A q \in Repository : Len(times[q]) =< RateLimit
  BY DEF TypeOK
<1> HIDE DEF r, now, recent
<1>4. Append(recent, now) \in Seq(0..clock) /\ Len(Append(recent, now)) = Len(recent) + 1
  BY <1>1, <1>2, AppendProperties
<1>5. Append(passed[r], clock) \in Seq(0..clock)
  BY <1>1, <1>3, AppendProperties
<1>6. Len(Append(recent, now)) =< RateLimit
  BY <1>2, <1>4, LimitsTyped
<1> QED
  BY <1>1, <1>2, <1>3, <1>4, <1>5, <1>6

\* Tables and logs only grow in time: what was typed by one clock is by a later.
LEMMA LaterTyped ==
    ASSUME NEW c \in Int, NEW f \in [Repository -> Seq(0..c)]
    PROVE  f \in [Repository -> Seq(0..c + 1)]
<1>1. 0..c \in SUBSET (0..c + 1)
  OBVIOUS
<1>2. \A r \in Repository : f[r] \in Seq(0..c + 1)
  BY <1>1, SeqSubset
<1> QED
  BY <1>2

LEMMA AdmitTyped ==
    ASSUME TypeOK, NEW h \in Handler, Busy(h), Asked(h).nonce # None,
           NEW first \in BOOLEAN, Admit(h, first)
    PROVE  /\ admitted' \in Seq(Admission)
           /\ \E a \in Admission :
                 /\ a.repository = Asked(h).repository /\ a.nonce = Asked(h).nonce
                 /\ a.content = Asked(h).content /\ a.timestamp = Asked(h).timestamp
                 /\ a.at = clock /\ a.first = first
                 /\ admitted' = Append(admitted, a)
                 /\ ToSet(admitted') = ToSet(admitted) \cup {a}
<1> DEFINE a == [repository |-> Asked(h).repository, nonce |-> Asked(h).nonce,
                 content |-> Asked(h).content, timestamp |-> Asked(h).timestamp,
                 at |-> clock, first |-> first]
<1>1. a \in Admission
  BY AskedTyped DEF Admission
<1>2. /\ a.repository = Asked(h).repository /\ a.nonce = Asked(h).nonce
      /\ a.content = Asked(h).content /\ a.timestamp = Asked(h).timestamp
      /\ a.at = clock /\ a.first = first
  OBVIOUS
<1>3. admitted' = Append(admitted, a) /\ admitted \in Seq(Admission)
  BY DEF Admit, TypeOK
<1> HIDE DEF a
<1>4. Append(admitted, a) \in Seq(Admission) /\ ToSet(Append(admitted, a)) = ToSet(admitted) \cup {a}
  BY <1>1, <1>3, AppendProperties, AppendToSet
<1> QED
  BY <1>1, <1>2, <1>3, <1>4

LEMMA InitTyped == Init => TypeOK
<1> SUFFICES ASSUME Init PROVE TypeOK
  OBVIOUS
<1>1. clock \in 0..MaxTime /\ received \in 0..MaxRequests /\ faults \in 0..MaxFaults
  BY LimitsTyped DEF Init
<1>2. <<>> \in Seq(0..clock) /\ Len(<<>>) = 0
  OBVIOUS
<1>3. /\ times \in [Repository -> Seq(0..clock)] /\ passed \in [Repository -> Seq(0..clock)]
      /\ \A r \in Repository : Len(times[r]) =< RateLimit
  BY <1>2, LimitsTyped DEF Init
<1>4. /\ nonces \in [Repository -> [Nonce -> NonceRow \cup {None}]]
      /\ handlers \in [Handler -> [message : Message, now : 0..clock] \cup {None}]
      /\ admitted \in Seq(Admission)
  BY DEF Init
<1> QED
  BY <1>1, <1>3, <1>4 DEF TypeOK

\* What every handler does when it is done.
LEMMA DoneTyped ==
    ASSUME TypeOK, NEW h \in Handler, Done(h), clock' = clock
    PROVE  handlers' \in [Handler -> [message : Message, now : 0..clock'] \cup {None}]
BY DEF TypeOK, Done

LEMMA StepTyped == TypeOK /\ [Next]_vars => TypeOK'
<1> SUFFICES ASSUME TypeOK, [Next]_vars PROVE TypeOK'
  OBVIOUS
<1> USE LimitsTyped
<1>1. ASSUME NEW h \in Handler, NEW m \in Message, Arrive(h, m) PROVE TypeOK'
  <2>1. clock \in 0..MaxTime /\ clock \in 0..clock
    BY DEF TypeOK
  <2>2. handlers' \in [Handler -> [message : Message, now : 0..clock'] \cup {None}]
    BY <1>1, <2>1 DEF TypeOK, Arrive
  <2>3. received' \in 0..MaxRequests
    BY <1>1 DEF TypeOK, Arrive
  <2> QED
    BY <1>1, <2>2, <2>3 DEF TypeOK, Arrive
<1>2. ASSUME NEW h \in Handler, BadSignature(h) PROVE TypeOK'
  BY <1>2, DoneTyped DEF TypeOK, BadSignature
<1>3. ASSUME NEW h \in Handler, RateExceeded(h) PROVE TypeOK'
  <2> DEFINE r == Asked(h).repository
             recent == Recent(times[r], handlers[h].now)
  <2>1. /\ r \in Repository /\ handlers[h].now \in Int
        /\ times \in [Repository -> Seq(0..clock)] /\ 0..clock \in SUBSET Int
        /\ \A q \in Repository : Len(times[q]) =< RateLimit
    BY <1>3, AskedTyped DEF RateExceeded, TypeOK
  <2>2. times' = [times EXCEPT ![r] = recent]
    BY <1>3 DEF RateExceeded
  <2>3. recent \in Seq(0..clock) /\ Len(recent) =< Len(times[r]) /\ Len(times[r]) \in Nat
    <3>1. times[r] \in Seq(0..clock) /\ Len(times[r]) \in Nat
      BY <2>1
    <3>2. PICK dropped \in 0..Len(times[r]) :
             recent \in Seq(0..clock) /\ Len(recent) = Len(times[r]) - dropped
      BY <2>1, <3>1, RecentFacts
    <3> HIDE DEF r, recent
    <3> QED
      BY <3>1, <3>2
  <2> HIDE DEF r, recent
  <2>4. /\ times' \in [Repository -> Seq(0..clock)]
        /\ \A q \in Repository : Len(times'[q]) =< RateLimit
    <3>1. Len(recent) =< RateLimit
      <4>1. Len(recent) \in Nat
        BY <2>3
      <4> QED
        BY <2>1, <2>3, <4>1
    <3> QED
      BY <2>1, <2>2, <2>3, <3>1
  <2> QED
    BY <1>3, <2>4, DoneTyped DEF TypeOK, RateExceeded
<1>4. ASSUME NEW h \in Handler, NoNonce(h) PROVE TypeOK'
  BY <1>4, PassTyped, DoneTyped DEF TypeOK, NoNonce
<1>5. ASSUME NEW h \in Handler, Remember(h) PROVE TypeOK'
  <2>1. Busy(h) /\ Asked(h).nonce # None /\ Admit(h, TRUE) /\ Pass(h) /\ Done(h) /\ clock' = clock
    BY <1>5 DEF Remember, Pass
  <2>2. admitted' \in Seq(Admission)
    BY <2>1, AdmitTyped
  <2>3. nonces' \in [Repository -> [Nonce -> NonceRow \cup {None}]]
    <3>1. /\ handlers[h].now \in Int /\ Asked(h).repository \in Repository
          /\ Asked(h).nonce \in Nonce /\ Asked(h).content \in Content
      BY <2>1, AskedTyped
    <3>2. Kept(handlers[h].now) \in [Repository -> [Nonce -> NonceRow \cup {None}]]
      BY <3>1, KeptFacts
    <3> DEFINE row == [content |-> Asked(h).content, seen |-> handlers[h].now]
    <3>3. row \in NonceRow
      BY <3>1 DEF NonceRow
    <3>4. nonces' = [Kept(handlers[h].now) EXCEPT ![Asked(h).repository][Asked(h).nonce] = row]
      BY <1>5 DEF Remember
    <3> HIDE DEF row
    <3> QED
      BY <3>1, <3>2, <3>3, <3>4
  <2> QED
    BY <1>5, <2>1, <2>2, <2>3, PassTyped, DoneTyped DEF TypeOK, Remember
<1>6. ASSUME NEW h \in Handler, Retry(h) PROVE TypeOK'
  <2>1. Busy(h) /\ Asked(h).nonce # None /\ Admit(h, FALSE) /\ Pass(h) /\ Done(h) /\ clock' = clock
    BY <1>6 DEF Retry, Pass
  <2>2. admitted' \in Seq(Admission)
    BY <2>1, AdmitTyped
  <2>3. nonces' \in [Repository -> [Nonce -> NonceRow \cup {None}]]
    BY <1>6, <2>1, AskedTyped, KeptFacts DEF Retry
  <2> QED
    BY <1>6, <2>1, <2>2, <2>3, PassTyped, DoneTyped DEF TypeOK, Retry
<1>7. ASSUME NEW h \in Handler, Replay(h) PROVE TypeOK'
  <2>1. Busy(h) /\ Pass(h) /\ Done(h) /\ clock' = clock
    BY <1>7 DEF Replay, Pass
  <2>2. nonces' \in [Repository -> [Nonce -> NonceRow \cup {None}]]
    BY <1>7, <2>1, AskedTyped, KeptFacts DEF Replay
  <2> QED
    BY <1>7, <2>1, <2>2, PassTyped, DoneTyped DEF TypeOK, Replay
<1>8. ASSUME NEW h \in Handler, StoreFails(h) PROVE TypeOK'
  <2>1. faults' \in 0..MaxFaults
    BY <1>8 DEF TypeOK, StoreFails, Fault
  <2> QED
    BY <1>8, <2>1, PassTyped, DoneTyped DEF TypeOK, StoreFails
<1>9. CASE Crash
  <2>1. faults' \in 0..MaxFaults
    BY <1>9 DEF TypeOK, Crash, Fault
  <2>2. <<>> \in Seq(0..clock) /\ Len(<<>>) = 0
    OBVIOUS
  <2> QED
    BY <1>9, <2>1, <2>2 DEF TypeOK, Crash
<1>10. CASE Tick
  <2>1. /\ clock \in Nat /\ clock' \in 0..MaxTime /\ clock' = clock + 1
    BY <1>10 DEF TypeOK, Tick
  <2>2. times' \in [Repository -> Seq(0..clock')] /\ passed' \in [Repository -> Seq(0..clock')]
    BY <1>10, <2>1, LaterTyped DEF TypeOK, Tick
  <2>3. handlers' \in [Handler -> [message : Message, now : 0..clock'] \cup {None}]
    <3>1. 0..clock \subseteq 0..clock'
      BY <2>1
    <3>2. [message : Message, now : 0..clock] \subseteq [message : Message, now : 0..clock']
      BY <3>1
    <3> QED
      BY <1>10, <3>2 DEF TypeOK, Tick
  <2> QED
    BY <1>10, <2>1, <2>2, <2>3 DEF TypeOK, Tick
<1>11. CASE UNCHANGED vars
  BY <1>11 DEF TypeOK, vars
<1> QED
  BY <1>1, <1>2, <1>3, <1>4, <1>5, <1>6, <1>7, <1>8, <1>9, <1>10, <1>11 DEF Next, Authenticates

\* Every variable of the authenticator keeps its type.
THEOREM AuthenticatorTyped == Spec => []TypeOK
  BY InitTyped, StepTyped, PTL DEF Spec

-----------------------------------------------------------------------------
(* Handlers are on time. *)

LEMMA InitOnTime == Init => HandlersOnTime
  BY DEF Init, HandlersOnTime, Busy

LEMMA DoneOnTime ==
    ASSUME TypeOK, HandlersOnTime, NEW h \in Handler, Done(h), clock' = clock
    PROVE  HandlersOnTime'
BY DEF TypeOK, HandlersOnTime, Done, Busy, Asked, Fresh

LEMMA StepOnTime == TypeOK /\ HandlersOnTime /\ [Next]_vars => HandlersOnTime'
<1> SUFFICES ASSUME TypeOK, HandlersOnTime, [Next]_vars PROVE HandlersOnTime'
  OBVIOUS
<1>1. ASSUME NEW h \in Handler, NEW m \in Message, Arrive(h, m) PROVE HandlersOnTime'
  <2>1. clock \in Nat
    BY LimitsTyped DEF TypeOK
  <2>2. clock =< clock + MaxDelay
    BY <2>1, LimitsTyped
  <2>3. /\ clock' = clock /\ handlers' = [handlers EXCEPT ![h] = [message |-> m, now |-> clock]]
        /\ Fresh(clock, m.timestamp)
        /\ handlers \in [Handler -> [message : Message, now : 0..clock] \cup {None}]
    BY <1>1 DEF Arrive, TypeOK
  <2>4. handlers'[h].now = clock /\ handlers'[h].message = m
    BY <2>3
  <2>5. \A g \in Handler : g # h => handlers'[g] = handlers[g]
    BY <2>3
  <2> QED
    BY <2>2, <2>3, <2>4, <2>5 DEF HandlersOnTime, Busy, Asked, Fresh
<1>2. ASSUME NEW h \in Handler, Authenticates(h) PROVE HandlersOnTime'
  <2>1. Done(h) /\ clock' = clock
    BY <1>2 DEF Authenticates, BadSignature, RateExceeded, NoNonce, Remember, Retry, Replay, StoreFails
  <2> QED
    BY <2>1, DoneOnTime
<1>3. CASE Crash
  BY <1>3 DEF Crash, HandlersOnTime, Busy
<1>4. CASE Tick
  <2>1. \A h \in Handler : Busy(h) => handlers[h].now \in Int /\ clock \in Int
    BY AskedTyped
  <2>2. \A h \in Handler : Busy(h) => clock + 1 =< handlers[h].now + MaxDelay
    BY <1>4, <2>1, LimitsTyped DEF Tick
  <2> QED
    BY <1>4, <2>2 DEF Tick, HandlersOnTime, Busy, Asked, Fresh
<1>5. CASE UNCHANGED vars
  BY <1>5 DEF vars, HandlersOnTime, Busy, Asked, Fresh
<1> QED
  BY <1>1, <1>2, <1>3, <1>4, <1>5 DEF Next

-----------------------------------------------------------------------------
(* The deque holds the last of the requests that passed. *)

\* Pruning takes from the deque only what passed long ago.
LEMMA RecentMirrors ==
    ASSUME NEW deque \in Seq(0..clock), NEW log \in Seq(0..clock), Mirrors(deque, log),
           clock \in Nat, NEW now \in 0..clock, clock =< now + MaxDelay
    PROVE  Mirrors(Recent(deque, now), log)
<1> DEFINE recent == Recent(deque, now)
<1>1. 0..clock \in SUBSET Int /\ now \in Int
  OBVIOUS
<1>2. PICK dropped \in 0..Len(deque) :
         /\ recent \in Seq(0..clock)
         /\ Len(recent) = Len(deque) - dropped
         /\ \A i \in 1..Len(deque) - dropped : recent[i] = deque[dropped + i]
         /\ \A i \in 1..dropped : deque[i] =< now - Window
  BY <1>1, RecentFacts
<1> HIDE DEF recent
<1>3. /\ Len(deque) \in Nat /\ Len(log) \in Nat /\ Len(recent) \in Nat
      /\ DOMAIN deque = 1..Len(deque) /\ DOMAIN recent = 1..Len(recent)
      /\ \A i \in 1..Len(deque) : deque[i] \in Int
      /\ \A i \in 1..Len(log) : log[i] \in Int
  BY <1>1, <1>2, SeqSubset
<1> DEFINE left == Len(log) - Len(deque)
<1>4. /\ left \in Nat /\ left + dropped = Len(log) - Len(recent) /\ Len(log) = left + Len(deque)
  BY <1>2, <1>3 DEF Mirrors
<1>5. \A i \in 1..Len(deque) : deque[i] =< log[left + i] /\ log[left + i] =< deque[i] + MaxDelay
  BY <1>3 DEF Mirrors
<1>6. \A i \in 1..left : clock - log[i] >= Window - MaxDelay
  BY DEF Mirrors
<1> HIDE DEF left
<1>7. \A i \in 1..Len(recent) :
         recent[i] =< log[left + dropped + i] /\ log[left + dropped + i] =< recent[i] + MaxDelay
  <2> SUFFICES ASSUME NEW i \in 1..Len(recent)
               PROVE  recent[i] =< log[left + dropped + i] /\ log[left + dropped + i] =< recent[i] + MaxDelay
    OBVIOUS
  <2>1. dropped + i \in 1..Len(deque) /\ left + dropped + i = left + (dropped + i) /\ recent[i] = deque[dropped + i]
    BY <1>2, <1>3, <1>4
  <2> QED
    BY <1>5, <2>1
<1>8. \A i \in 1..left + dropped : clock - log[i] >= Window - MaxDelay
  <2> SUFFICES ASSUME NEW i \in 1..left + dropped, i > left
               PROVE  clock - log[i] >= Window - MaxDelay
    BY <1>4, <1>6
  <2> DEFINE k == i - left
  <2>1. k \in 1..dropped /\ k \in 1..Len(deque) /\ i = left + k /\ i \in 1..Len(log)
    BY <1>2, <1>3, <1>4
  <2>2. deque[k] =< now - Window /\ log[i] =< deque[k] + MaxDelay
    BY <1>2, <1>5, <2>1
  <2>3. deque[k] \in Int /\ log[i] \in Int
    BY <1>3, <2>1
  <2> HIDE DEF k
  <2> QED
    BY <2>2, <2>3, LimitsTyped
<1>9. Mirrors(recent, log)
  <2> DEFINE n == left + dropped
  <2>1. n >= 0 /\ n = Len(log) - Len(recent)
    BY <1>4
  <2> HIDE DEF n
  <2> QED
    BY <1>3, <1>7, <1>8, <2>1 DEF Mirrors, n
<1> QED
  BY <1>9 DEF recent

\* A request that passes is added to both.
LEMMA AppendMirrors ==
    ASSUME NEW deque \in Seq(0..clock), NEW log \in Seq(0..clock), Mirrors(deque, log),
           clock \in Nat, NEW now \in 0..clock, clock =< now + MaxDelay
    PROVE  Mirrors(Append(deque, now), Append(log, clock))
<1>1. clock \in 0..clock /\ 0..clock \in SUBSET Int
  OBVIOUS
<1> DEFINE d == Append(deque, now)
           l == Append(log, clock)
<1>2. /\ d \in Seq(0..clock) /\ Len(d) = Len(deque) + 1 /\ Len(deque) \in Nat
      /\ DOMAIN d = 1..Len(d) /\ DOMAIN deque = 1..Len(deque)
      /\ \A i \in 1..Len(deque) : d[i] = deque[i]
      /\ d[Len(deque) + 1] = now
  BY <1>1, AppendProperties, LenProperties
<1>3. /\ l \in Seq(0..clock) /\ Len(l) = Len(log) + 1 /\ Len(log) \in Nat
      /\ \A i \in 1..Len(log) : l[i] = log[i]
      /\ l[Len(log) + 1] = clock
  BY <1>1, AppendProperties, LenProperties
<1> HIDE DEF d, l
<1> DEFINE left == Len(log) - Len(deque)
<1>4. /\ left \in Nat /\ left = Len(l) - Len(d) /\ Len(log) = left + Len(deque)
  BY <1>2, <1>3 DEF Mirrors
<1>5. \A i \in 1..Len(deque) : deque[i] =< log[left + i] /\ log[left + i] =< deque[i] + MaxDelay
  BY <1>2 DEF Mirrors
<1>6. \A i \in 1..left : clock - log[i] >= Window - MaxDelay
  BY DEF Mirrors
<1> HIDE DEF left
<1>7. \A i \in 1..Len(d) : d[i] =< l[left + i] /\ l[left + i] =< d[i] + MaxDelay
  <2> SUFFICES ASSUME NEW i \in 1..Len(d) PROVE d[i] =< l[left + i] /\ l[left + i] =< d[i] + MaxDelay
    OBVIOUS
  <2>1. CASE i \in 1..Len(deque)
    <3>1. left + i \in 1..Len(log)
      BY <1>4, <1>2, <2>1
    <3> QED
      BY <1>2, <1>3, <1>5, <2>1, <3>1
  <2>2. CASE i = Len(deque) + 1
    <3>1. left + i = Len(log) + 1
      BY <1>2, <1>4, <2>2
    <3> QED
      BY <1>2, <1>3, <2>2, <3>1
  <2> QED
    BY <1>2, <2>1, <2>2
<1>8. \A i \in 1..left : clock - l[i] >= Window - MaxDelay
  BY <1>2, <1>3, <1>4, <1>6
<1> QED
  BY <1>2, <1>4, <1>7, <1>8 DEF Mirrors, d, l

LEMMA InitDeque == Init => DequeIsRecent
<1> SUFFICES ASSUME Init, NEW r \in Repository PROVE Mirrors(times[r], passed[r])
  BY DEF DequeIsRecent
<1>1. times[r] = <<>> /\ passed[r] = <<>>
  BY DEF Init
<1> QED
  BY <1>1 DEF Mirrors

\* What a handler does with the deque of its repository.
LEMMA HandlerMirrors ==
    ASSUME TypeOK, HandlersOnTime, DequeIsRecent, NEW h \in Handler, Busy(h)
    PROVE  Mirrors(Recent(times[Asked(h).repository], handlers[h].now), passed[Asked(h).repository])
<1> DEFINE r == Asked(h).repository
<1>1. r \in Repository /\ handlers[h].now \in 0..clock /\ clock \in Nat
  BY AskedTyped
<1>2. clock =< handlers[h].now + MaxDelay
  BY DEF HandlersOnTime
<1>3. times[r] \in Seq(0..clock) /\ passed[r] \in Seq(0..clock) /\ Mirrors(times[r], passed[r])
  BY <1>1 DEF TypeOK, DequeIsRecent
<1> HIDE DEF r
<1>4. Mirrors(Recent(times[r], handlers[h].now), passed[r])
  BY <1>1, <1>2, <1>3, RecentMirrors
<1> QED
  BY <1>4 DEF r

LEMMA PassMirrors ==
    ASSUME TypeOK, HandlersOnTime, DequeIsRecent, NEW h \in Handler, Pass(h), clock' = clock
    PROVE  DequeIsRecent'
<1> DEFINE r == Asked(h).repository
           now == handlers[h].now
           recent == Recent(times[r], now)
<1>1. r \in Repository /\ now \in 0..clock /\ clock \in Nat /\ Busy(h)
  BY AskedTyped DEF Pass
<1>2. clock =< now + MaxDelay
  BY <1>1 DEF HandlersOnTime
<1>3. /\ recent \in Seq(0..clock)
      /\ times' = [times EXCEPT ![r] = Append(recent, now)]
      /\ passed' = [passed EXCEPT ![r] = Append(passed[r], clock)]
  BY <1>1, PassFacts
<1>4. Mirrors(recent, passed[r])
  BY <1>1, HandlerMirrors
<1>5. times \in [Repository -> Seq(0..clock)] /\ passed \in [Repository -> Seq(0..clock)]
  BY DEF TypeOK
<1> HIDE DEF r, now, recent
<1>6. Mirrors(Append(recent, now), Append(passed[r], clock))
  BY <1>1, <1>2, <1>3, <1>4, <1>5, AppendMirrors
<1>7. \A q \in Repository : Mirrors(times'[q], passed'[q])
  BY <1>1, <1>3, <1>5, <1>6 DEF DequeIsRecent
<1> QED
  BY <1>7 DEF DequeIsRecent, Mirrors

LEMMA StepDeque == TypeOK /\ HandlersOnTime /\ DequeIsRecent /\ [Next]_vars => DequeIsRecent'
<1> SUFFICES ASSUME TypeOK, HandlersOnTime, DequeIsRecent, [Next]_vars PROVE DequeIsRecent'
  OBVIOUS
<1>1. ASSUME NEW h \in Handler, RateExceeded(h) PROVE DequeIsRecent'
  <2> DEFINE r == Asked(h).repository
             recent == Recent(times[r], handlers[h].now)
  <2>1. r \in Repository /\ Mirrors(recent, passed[r]) /\ times \in [Repository -> Seq(0..clock)]
    BY <1>1, AskedTyped, HandlerMirrors DEF RateExceeded, TypeOK
  <2>2. times' = [times EXCEPT ![r] = recent] /\ passed' = passed /\ clock' = clock
    BY <1>1 DEF RateExceeded
  <2> HIDE DEF r, recent
  <2>3. \A q \in Repository : Mirrors(times'[q], passed'[q])
    BY <2>1, <2>2 DEF DequeIsRecent
  <2> QED
    BY <2>2, <2>3 DEF DequeIsRecent, Mirrors
<1>2. ASSUME NEW h \in Handler, Authenticates(h), ~ BadSignature(h), ~ RateExceeded(h)
      PROVE  DequeIsRecent'
  <2>1. Pass(h) /\ clock' = clock
    BY <1>2 DEF Authenticates, NoNonce, Remember, Retry, Replay, StoreFails
  <2> QED
    BY <2>1, PassMirrors
<1>3. CASE Crash
  <2> SUFFICES ASSUME NEW r \in Repository PROVE Mirrors(times[r], passed[r])'
    BY DEF DequeIsRecent
  <2>1. times'[r] = <<>> /\ passed'[r] = <<>>
    BY <1>3 DEF Crash
  <2> QED
    BY <2>1 DEF Mirrors
<1>4. CASE Tick
  <2> SUFFICES ASSUME NEW r \in Repository PROVE Mirrors(times[r], passed[r])'
    BY DEF DequeIsRecent
  <2>1. Mirrors(times[r], passed[r]) /\ clock' = clock + 1 /\ times' = times /\ passed' = passed
    BY <1>4 DEF DequeIsRecent, Tick
  <2>2. clock \in Nat /\ times[r] \in Seq(0..clock) /\ passed[r] \in Seq(0..clock)
    BY LimitsTyped DEF TypeOK
  <2>3. /\ Len(passed[r]) \in Nat /\ Len(times[r]) \in Nat
        /\ \A i \in 1..Len(passed[r]) : passed[r][i] \in 0..clock
    BY <2>2
  <2>4. ASSUME NEW i \in 1..Len(passed[r]) - Len(times[r])
        PROVE  clock' - passed[r][i] >= Window - MaxDelay
    <3>1. i \in 1..Len(passed[r]) /\ clock - passed[r][i] >= Window - MaxDelay
      BY <2>1, <2>3 DEF Mirrors
    <3>2. passed[r][i] \in Int
      BY <2>3, <3>1
    <3> QED
      BY <2>1, <2>2, <3>1, <3>2, LimitsTyped
  <2>5. /\ Len(passed[r]) - Len(times[r]) >= 0
        /\ \A i \in DOMAIN times[r] :
              /\ times[r][i] =< passed[r][Len(passed[r]) - Len(times[r]) + i]
              /\ passed[r][Len(passed[r]) - Len(times[r]) + i] =< times[r][i] + MaxDelay
    BY <2>1 DEF Mirrors
  <2>6. times'[r] = times[r] /\ passed'[r] = passed[r]
    BY <2>1
  <2> QED
    BY Zenon, <2>4, <2>5, <2>6 DEF Mirrors
<1>5. CASE UNCHANGED <<clock, times, passed>>
  BY <1>5 DEF DequeIsRecent, Mirrors
<1>6. ASSUME NEW h \in Handler, BadSignature(h) PROVE DequeIsRecent'
  BY <1>5, <1>6 DEF BadSignature
<1>7. ASSUME NEW h \in Handler, NEW m \in Message, Arrive(h, m) PROVE DequeIsRecent'
  BY <1>5, <1>7 DEF Arrive
<1>8. CASE UNCHANGED vars
  BY <1>5, <1>8 DEF vars
<1> QED
  BY <1>1, <1>2, <1>3, <1>4, <1>6, <1>7, <1>8 DEF Next

-----------------------------------------------------------------------------
(* The table of nonces. *)

LEMMA InitTable == Init => RowsWereAdmitted /\ FirstUseHeld
<1> SUFFICES ASSUME Init PROVE RowsWereAdmitted /\ FirstUseHeld
  OBVIOUS
<1>1. ToSet(admitted) = {}
  BY DEF Init, ToSet
<1> QED
  BY <1>1 DEF Init, RowsWereAdmitted, FirstUseHeld

\* The rows that a handler keeps, and what it forgets.
LEMMA KeptHeld ==
    ASSUME TypeOK, HandlersOnTime, FirstUseHeld, NEW h \in Handler, Busy(h),
           NEW a \in ToSet(admitted), a.first
    PROVE  Held(Kept(handlers[h].now)[a.repository][a.nonce], a)
<1> DEFINE now == handlers[h].now
           old == nonces[a.repository][a.nonce]
           new == Kept(now)[a.repository][a.nonce]
<1>1. now \in 0..clock /\ clock \in Nat /\ now \in Int
  BY AskedTyped
<1>2. a \in Admission
  BY DEF TypeOK, ToSet
<1>3. a.repository \in Repository /\ a.nonce \in Nonce /\ a.timestamp \in Int /\ a.at \in Nat
  BY <1>2 DEF Admission
<1>4. Held(old, a)
  BY DEF FirstUseHeld
<1>5. \/ new = old
      \/ new = None /\ old # None /\ old.seen < now - 2 * MaxAge
  BY <1>1, <1>3, KeptFacts
<1>6. old # None => old.seen \in Int
  BY <1>3 DEF TypeOK, NonceRow
<1> HIDE DEF now, old, new
<1>7. CASE new = old
  BY <1>4, <1>7 DEF new, now
<1>8. ASSUME new = None, old # None, old.seen < now - 2 * MaxAge
      PROVE  Held(new, a)
  <2>1. CASE clock - a.at > 2 * MaxAge - MaxDelay /\ clock > a.timestamp + MaxAge
    BY <2>1 DEF Held
  <2>2. CASE a.at =< old.seen + MaxDelay /\ a.timestamp =< old.seen + MaxAge
    <3>1. clock - a.at > 2 * MaxAge - MaxDelay
      BY <1>1, <1>3, <1>6, <1>8, <2>2, LimitsTyped
    <3>2. clock > a.timestamp + MaxAge
      BY <1>1, <1>3, <1>6, <1>8, <2>2, LimitsTyped
    <3> QED
      BY <3>1, <3>2 DEF Held
  <2> QED
    BY <1>4, <2>1, <2>2 DEF Held
<1> QED
  BY <1>5, <1>7, <1>8 DEF new, now

\* The rows that a handler keeps were admitted.
LEMMA KeptAdmitted ==
    ASSUME TypeOK, RowsWereAdmitted, NEW now \in Int, NEW r \in Repository, NEW n \in Nonce,
           Kept(now)[r][n] # None
    PROVE  \E a \in ToSet(admitted) :
              a.repository = r /\ a.nonce = n /\ a.content = Kept(now)[r][n].content
<1>1. Kept(now)[r][n] = nonces[r][n]
  BY KeptFacts
<1> QED
  BY <1>1 DEF RowsWereAdmitted

LEMMA StepRows == TypeOK /\ RowsWereAdmitted /\ [Next]_vars => RowsWereAdmitted'
<1> SUFFICES ASSUME TypeOK, RowsWereAdmitted, [Next]_vars PROVE RowsWereAdmitted'
  OBVIOUS
<1>1. ASSUME NEW h \in Handler, Remember(h) PROVE RowsWereAdmitted'
  <2>1. Busy(h) /\ Asked(h).nonce # None /\ Admit(h, TRUE)
    BY <1>1 DEF Remember, Pass
  <2>2. PICK a \in Admission :
           /\ a.repository = Asked(h).repository /\ a.nonce = Asked(h).nonce
           /\ a.content = Asked(h).content
           /\ ToSet(admitted') = ToSet(admitted) \cup {a}
    BY <2>1, AdmitTyped
  <2> DEFINE now == handlers[h].now
             row == [content |-> Asked(h).content, seen |-> now]
  <2>3. now \in Int /\ Asked(h).repository \in Repository /\ Asked(h).nonce \in Nonce
    BY <2>1, AskedTyped
  <2>4. Kept(now) \in [Repository -> [Nonce -> NonceRow \cup {None}]]
    BY <2>3, KeptFacts
  <2>5. nonces' = [Kept(now) EXCEPT ![Asked(h).repository][Asked(h).nonce] = row]
    BY <1>1 DEF Remember
  <2>6. row.content = Asked(h).content
    OBVIOUS
  <2> HIDE DEF now, row
  <2>7. \A r \in Repository, n \in Nonce :
           nonces'[r][n] = IF r = Asked(h).repository /\ n = Asked(h).nonce THEN row ELSE Kept(now)[r][n]
    BY <2>3, <2>4, <2>5
  <2>8. \A r \in Repository, n \in Nonce : Kept(now)[r][n] # None =>
           \E b \in ToSet(admitted) :
              b.repository = r /\ b.nonce = n /\ b.content = Kept(now)[r][n].content
    BY <2>3, KeptAdmitted
  <2> QED
    BY <2>2, <2>6, <2>7, <2>8 DEF RowsWereAdmitted
<1>2. ASSUME NEW h \in Handler, Retry(h) \/ Replay(h) PROVE RowsWereAdmitted'
  <2>1. Busy(h) /\ nonces' = Kept(handlers[h].now) /\ handlers[h].now \in Int
    BY <1>2, AskedTyped DEF Retry, Replay, Pass
  <2>2. ToSet(admitted) \subseteq ToSet(admitted')
    <3>1. CASE Retry(h)
      <4>1. Asked(h).nonce # None /\ Admit(h, FALSE)
        BY <3>1 DEF Retry
      <4> QED
        BY <2>1, <4>1, AdmitTyped
    <3>2. CASE Replay(h)
      BY <3>2 DEF Replay
    <3> QED
      BY <1>2, <3>1, <3>2
  <2>3. \A r \in Repository, n \in Nonce : nonces'[r][n] # None =>
           \E b \in ToSet(admitted) :
              b.repository = r /\ b.nonce = n /\ b.content = nonces'[r][n].content
    BY <2>1, KeptAdmitted
  <2> QED
    BY <2>2, <2>3 DEF RowsWereAdmitted
<1>3. CASE UNCHANGED <<nonces, admitted>>
  BY <1>3 DEF RowsWereAdmitted
<1> QED
  BY <1>1, <1>2, <1>3 DEF Next, Arrive, Authenticates, BadSignature, RateExceeded, NoNonce,
     StoreFails, Crash, Tick, vars

LEMMA StepHeld == TypeOK /\ HandlersOnTime /\ FirstUseHeld /\ [Next]_vars => FirstUseHeld'
<1> SUFFICES ASSUME TypeOK, HandlersOnTime, FirstUseHeld, [Next]_vars PROVE FirstUseHeld'
  OBVIOUS
<1>1. ASSUME NEW h \in Handler, Remember(h) PROVE FirstUseHeld'
  <2>1. Busy(h) /\ Asked(h).nonce # None /\ Admit(h, TRUE) /\ clock' = clock
    BY <1>1 DEF Remember, Pass
  <2>2. PICK a \in Admission :
           /\ a.repository = Asked(h).repository /\ a.nonce = Asked(h).nonce
           /\ a.content = Asked(h).content /\ a.timestamp = Asked(h).timestamp
           /\ a.at = clock
           /\ ToSet(admitted') = ToSet(admitted) \cup {a}
    BY <2>1, AdmitTyped
  <2> DEFINE now == handlers[h].now
             row == [content |-> Asked(h).content, seen |-> now]
             forgotten == Kept(now)[Asked(h).repository][Asked(h).nonce]
  <2>3. /\ now \in Int /\ clock \in Nat
        /\ Asked(h).repository \in Repository /\ Asked(h).nonce \in Nonce
        /\ Asked(h).content \in Content /\ Asked(h).timestamp \in Int
    BY <2>1, AskedTyped
  <2>4. Kept(now) \in [Repository -> [Nonce -> NonceRow \cup {None}]]
    BY <2>3, KeptFacts
  <2>5. nonces' = [Kept(now) EXCEPT ![Asked(h).repository][Asked(h).nonce] = row]
    BY <1>1 DEF Remember
  <2>6. row.content = Asked(h).content /\ row.seen = now /\ row \in NonceRow /\ row # None
    BY <2>3, NoneAssumption DEF NonceRow
  <2>7. forgotten = None
    BY <1>1 DEF Remember, Row
  <2> HIDE DEF now, row, forgotten
  <2>8. \A r \in Repository, n \in Nonce :
           nonces'[r][n] = IF r = Asked(h).repository /\ n = Asked(h).nonce THEN row ELSE Kept(now)[r][n]
    BY <2>3, <2>4, <2>5
  <2>9. Held(row, a)
    <3>1. clock =< now + MaxDelay /\ Fresh(now, Asked(h).timestamp)
      BY <2>1 DEF HandlersOnTime, now
    <3> QED
      BY <2>2, <2>6, <3>1 DEF Held, Fresh
  <2>10. ASSUME NEW b \in ToSet(admitted), b.first
         PROVE  Held(nonces'[b.repository][b.nonce], b)
    <3>1. Held(Kept(now)[b.repository][b.nonce], b)
      BY <2>1, <2>10, KeptHeld DEF now
    <3>2. b.repository \in Repository /\ b.nonce \in Nonce
      <4>1. b \in Admission
        BY DEF TypeOK, ToSet
      <4> QED
        BY <4>1 DEF Admission
    <3>3. CASE b.repository = Asked(h).repository /\ b.nonce = Asked(h).nonce
      <4>1. Held(None, b)
        BY <2>7, <3>1, <3>3 DEF forgotten
      <4> QED
        BY <4>1 DEF Held
    <3>4. CASE ~ (b.repository = Asked(h).repository /\ b.nonce = Asked(h).nonce)
      BY <2>8, <3>1, <3>2, <3>4
    <3> QED
      BY <3>3, <3>4
  <2>11. nonces'[a.repository][a.nonce] = row
    BY <2>2, <2>3, <2>8
  <2>12. \A b \in ToSet(admitted') : b.first => Held(nonces'[b.repository][b.nonce], b)
    BY <2>2, <2>9, <2>10, <2>11
  <2> QED
    BY <2>1, <2>12 DEF FirstUseHeld, Held
<1>2. ASSUME NEW h \in Handler, Retry(h) \/ Replay(h) PROVE FirstUseHeld'
  <2>1. Busy(h) /\ nonces' = Kept(handlers[h].now) /\ clock' = clock
    BY <1>2 DEF Retry, Replay, Pass
  <2>2. \A a \in ToSet(admitted') : a.first => a \in ToSet(admitted)
    <3>1. CASE Retry(h)
      <4>1. Asked(h).nonce # None /\ Admit(h, FALSE)
        BY <3>1 DEF Retry
      <4> QED
        BY <2>1, <4>1, AdmitTyped
    <3>2. CASE Replay(h)
      BY <3>2 DEF Replay
    <3> QED
      BY <1>2, <3>1, <3>2
  <2>3. \A a \in ToSet(admitted') : a.first => Held(nonces'[a.repository][a.nonce], a)
    BY <2>1, <2>2, KeptHeld
  <2> QED
    BY <2>1, <2>3 DEF FirstUseHeld, Held
<1>3. CASE Tick
  <2> SUFFICES ASSUME NEW a \in ToSet(admitted), a.first
               PROVE  Held(nonces[a.repository][a.nonce], a)'
    BY <1>3 DEF Tick, FirstUseHeld
  <2>1. clock \in Nat /\ clock' = clock + 1 /\ nonces' = nonces
    BY <1>3, LimitsTyped DEF Tick, TypeOK
  <2>2. a.at \in Nat /\ a.timestamp \in Int
    <3>1. a \in Admission
      BY DEF TypeOK, ToSet
    <3> QED
      BY <3>1 DEF Admission
  <2>3. Held(nonces[a.repository][a.nonce], a)
    BY DEF FirstUseHeld
  <2> QED
    BY <2>1, <2>2, <2>3, LimitsTyped DEF Held
<1>4. CASE UNCHANGED <<clock, nonces, admitted>>
  BY <1>4 DEF FirstUseHeld, Held
<1> QED
  BY <1>1, <1>2, <1>3, <1>4 DEF Next, Arrive, Authenticates, BadSignature, RateExceeded, NoNonce,
     StoreFails, Crash, vars

-----------------------------------------------------------------------------
(* The theorems. *)

\* The inductive invariant: handlers are on time, the deque holds the last of the
\* requests that passed, and the table holds what was admitted.
THEOREM AuthInvariance == Spec => [](TypeOK /\ AuthInv)
<1>1. Init => AuthInv
  BY InitOnTime, InitDeque, InitTable DEF AuthInv
<1>2. TypeOK /\ AuthInv /\ [Next]_vars => AuthInv'
  BY StepOnTime, StepDeque, StepRows, StepHeld DEF AuthInv
<1> QED
  BY <1>1, <1>2, AuthenticatorTyped, PTL DEF Spec

\* As long as the signature of the request that first used a nonce would still be
\* accepted, the nonce is remembered (auth.py:74).
THEOREM FirstUseRememberedHolds == Spec => []FirstUseRemembered
<1>1. TypeOK /\ AuthInv => FirstUseRemembered
  <2> SUFFICES ASSUME TypeOK, AuthInv, NEW a \in ToSet(admitted), a.first, Fresh(clock, a.timestamp)
               PROVE  /\ nonces[a.repository][a.nonce] # None
                      /\ nonces[a.repository][a.nonce].content = a.content
    BY DEF FirstUseRemembered
  <2>1. Held(nonces[a.repository][a.nonce], a)
    BY DEF AuthInv, FirstUseHeld
  <2>2. ~ (clock > a.timestamp + MaxAge)
    <3>1. a \in Admission /\ clock \in Nat
      BY LimitsTyped DEF TypeOK, ToSet
    <3>2. a.timestamp \in Int
      BY <3>1 DEF Admission
    <3> QED
      BY <3>1, <3>2, LimitsTyped DEF Fresh
  <2> QED
    BY <2>1, <2>2 DEF Held
<1> QED
  BY <1>1, AuthInvariance, PTL

\* A request is refused as a replay only if its nonce was admitted with another
\* content (ADR 0004).
THEOREM RetriesAdmittedHolds == Spec => RetriesAdmitted
<1>1. ASSUME TypeOK, AuthInv, NEW h \in Handler, Replay(h)
      PROVE  \E a \in ToSet(admitted) : SameNonce(a, Asked(h)) /\ a.content # Asked(h).content
  <2>1. Busy(h) /\ Asked(h).nonce # None /\ Row(h) # None /\ Row(h).content # Asked(h).content
    BY <1>1 DEF Replay, Pass, Matches
  <2>2. handlers[h].now \in Int /\ Asked(h).repository \in Repository /\ Asked(h).nonce \in Nonce
    BY <1>1, <2>1, AskedTyped
  <2>3. \E a \in ToSet(admitted) :
           a.repository = Asked(h).repository /\ a.nonce = Asked(h).nonce /\ a.content = Row(h).content
    BY <1>1, <2>1, <2>2, KeptAdmitted DEF Row, AuthInv
  <2> QED
    BY <2>1, <2>3 DEF SameNonce
<1>2. TypeOK /\ AuthInv /\ [Next]_vars =>
         [\A h \in Handler : Replay(h) =>
             \E a \in ToSet(admitted) : SameNonce(a, Asked(h)) /\ a.content # Asked(h).content]_vars
  BY <1>1
<1> QED
  BY <1>2, AuthInvariance, PTL DEF Spec, RetriesAdmitted

\* Another content is admitted under a nonce only when its first use is history.
LEMMA NewBinds ==
    ASSUME TypeOK, AuthInv, NEW h \in Handler, Remember(h) \/ Retry(h),
           NEW a \in ToSet(admitted), a.first, SameNonce(a, Asked(h)), a.content # Asked(h).content
    PROVE  clock - a.at > 2 * MaxAge - MaxDelay
<1>1. Busy(h)
  BY DEF Remember, Retry, Pass
<1>2. Held(Row(h), a)
  BY <1>1, KeptHeld DEF AuthInv, Row, SameNonce
<1>3. Row(h) = None \/ Row(h).content = Asked(h).content
  BY DEF Remember, Retry, Matches
<1> QED
  BY <1>2, <1>3 DEF Held

LEMMA StepBinds == TypeOK /\ AuthInv /\ NonceBinds /\ [Next]_vars => NonceBinds'
<1> SUFFICES ASSUME TypeOK, AuthInv, NonceBinds, [Next]_vars PROVE NonceBinds'
  OBVIOUS
<1>1. ASSUME NEW h \in Handler, Remember(h) \/ Retry(h) PROVE NonceBinds'
  <2>1. PICK first \in BOOLEAN : Busy(h) /\ Asked(h).nonce # None /\ Admit(h, first)
    BY <1>1 DEF Remember, Retry, Pass
  <2>2. PICK b \in Admission :
           /\ b.repository = Asked(h).repository /\ b.nonce = Asked(h).nonce
           /\ b.content = Asked(h).content /\ b.at = clock
           /\ admitted' = Append(admitted, b)
    BY <2>1, AdmitTyped
  <2>3. /\ admitted \in Seq(Admission) /\ Len(admitted) \in Nat
        /\ DOMAIN admitted = 1..Len(admitted) /\ DOMAIN admitted' = 1..Len(admitted) + 1
        /\ \A i \in 1..Len(admitted) : admitted'[i] = admitted[i]
        /\ admitted'[Len(admitted) + 1] = b
    BY <2>2, AppendProperties, LenProperties DEF TypeOK
  <2> SUFFICES ASSUME NEW i \in DOMAIN admitted', NEW j \in DOMAIN admitted', i < j,
                      admitted'[i].first, SameNonce(admitted'[i], admitted'[j]),
                      admitted'[i].content # admitted'[j].content
               PROVE  admitted'[j].at - admitted'[i].at > 2 * MaxAge - MaxDelay
    BY DEF NonceBinds, SameNonce
  <2>4. i \in DOMAIN admitted /\ admitted'[i] = admitted[i] /\ admitted[i] \in ToSet(admitted)
    BY <2>3 DEF ToSet
  <2>5. CASE j \in DOMAIN admitted
    BY <2>3, <2>4, <2>5 DEF NonceBinds, SameNonce
  <2>6. CASE j = Len(admitted) + 1
    <3>1. admitted'[j] = b
      BY <2>3, <2>6
    <3>2. SameNonce(admitted[i], Asked(h)) /\ admitted[i].content # Asked(h).content /\ admitted[i].first
      BY <2>2, <2>4, <3>1 DEF SameNonce
    <3>3. clock - admitted[i].at > 2 * MaxAge - MaxDelay
      BY <1>1, <2>4, <3>2, NewBinds
    <3> QED
      BY <2>2, <2>4, <3>1, <3>3
  <2> QED
    BY <2>3, <2>5, <2>6
<1>2. CASE UNCHANGED admitted
  BY <1>2 DEF NonceBinds, SameNonce
<1> QED
  BY <1>1, <1>2 DEF Next, Arrive, Authenticates, BadSignature, RateExceeded, NoNonce, Replay,
     StoreFails, Crash, Tick, vars

\* A nonce is bound to the first content that used it for twice max_age_seconds,
\* less the delay of a body.
THEOREM NonceBindsHolds == Spec => []NonceBinds
<1>1. Init => NonceBinds
  BY DEF Init, NonceBinds
<1> QED
  BY <1>1, StepBinds, AuthInvariance, PTL DEF Spec

LEMMA StepRate == TypeOK /\ AuthInv /\ RateKept /\ [Next]_vars => RateKept'
<1> SUFFICES ASSUME TypeOK, AuthInv, RateKept, [Next]_vars PROVE RateKept'
  OBVIOUS
<1>1. ASSUME NEW h \in Handler, Pass(h), clock' = clock PROVE RateKept'
  <2> DEFINE r == Asked(h).repository
             recent == Recent(times[r], handlers[h].now)
  <2>1. r \in Repository /\ Busy(h) /\ clock \in Nat
    BY <1>1, AskedTyped DEF Pass
  <2>2. /\ Len(recent) \in 0..RateLimit - 1
        /\ passed' = [passed EXCEPT ![r] = Append(passed[r], clock)]
    BY <1>1, <2>1, PassFacts
  <2>3. Mirrors(recent, passed[r])
    BY <2>1, HandlerMirrors DEF AuthInv
  <2> HIDE DEF r, recent
  <2> DEFINE log == passed[r]
             new == Append(log, clock)
  <2>4. /\ passed \in [Repository -> Seq(0..clock)] /\ log \in Seq(0..clock) /\ clock \in 0..clock
    BY <2>1 DEF TypeOK
  <2>5. /\ Len(log) \in Nat /\ DOMAIN log = 1..Len(log) /\ DOMAIN new = 1..Len(log) + 1
        /\ \A i \in 1..Len(log) : new[i] = log[i]
        /\ new[Len(log) + 1] = clock
    BY <2>4, AppendProperties, LenProperties
  <2>6. \A i \in 1..Len(log) - Len(recent) : clock - log[i] >= Window - MaxDelay
    BY <2>3 DEF Mirrors
  <2>7. \A i \in DOMAIN log : i + RateLimit \in DOMAIN log => log[i + RateLimit] - log[i] >= Window - MaxDelay
    BY <2>1 DEF RateKept
  <2>8. passed'[r] = new /\ \A q \in Repository : q # r => passed'[q] = passed[q]
    BY <2>1, <2>2, <2>4
  <2> HIDE DEF log, new
  <2>9. ASSUME NEW i \in DOMAIN new, i + RateLimit \in DOMAIN new
        PROVE  new[i + RateLimit] - new[i] >= Window - MaxDelay
    <3>1. i \in 1..Len(log) /\ new[i] = log[i]
      BY <2>5, <2>9, LimitsTyped
    <3>2. CASE i + RateLimit \in 1..Len(log)
      BY <2>5, <2>7, <3>1, <3>2
    <3>3. CASE i + RateLimit = Len(log) + 1
      <4>1. i \in 1..Len(log) - Len(recent)
        BY <2>2, <2>5, <3>1, <3>3, LimitsTyped
      <4> QED
        BY <2>5, <2>6, <3>1, <3>3, <4>1
    <3> QED
      BY <2>5, <2>9, <3>2, <3>3
  <2> QED
    BY <2>8, <2>9 DEF RateKept
<1>2. CASE UNCHANGED passed
  BY <1>2 DEF RateKept
<1>3. ASSUME NEW h \in Handler, Authenticates(h) PROVE RateKept'
  <2>1. (Pass(h) /\ clock' = clock) \/ UNCHANGED passed
    BY <1>3 DEF Authenticates, BadSignature, RateExceeded, NoNonce, Remember, Retry, Replay, StoreFails
  <2> QED
    BY <1>1, <1>2, <2>1
<1>4. CASE Crash
  BY <1>4 DEF Crash, RateKept
<1> QED
  BY <1>2, <1>3, <1>4 DEF Next, Arrive, Tick, vars

\* In any Window - MaxDelay seconds at most RateLimit requests of a repository pass.
THEOREM RateKeptHolds == Spec => []RateKept
<1>1. Init => RateKept
  BY DEF Init, RateKept
<1> QED
  BY <1>1, StepRate, AuthInvariance, PTL DEF Spec

\* When a request is refused for the rate, RateLimit requests of the repository
\* passed within the last Window + MaxDelay seconds.
THEOREM RefusedOnlyWhenBusyHolds == Spec => RefusedOnlyWhenBusy
<1>1. ASSUME TypeOK, AuthInv, NEW h \in Handler, RateExceeded(h)
      PROVE  LET p == passed[Asked(h).repository]
             IN  /\ Len(p) >= RateLimit
                 /\ clock - p[Len(p) - RateLimit + 1] < Window + MaxDelay
  <2> DEFINE r == Asked(h).repository
             p == passed[r]
             now == handlers[h].now
             recent == Recent(times[r], now)
  <2>1. Busy(h) /\ Len(recent) >= RateLimit
    <3>1. Busy(h) /\ ~ (Len(recent) < RateLimit)
      BY <1>1 DEF RateExceeded, HasRoom
    <3>2. times[r] \in Seq(0..clock) /\ now \in Int /\ 0..clock \in SUBSET Int
      BY <1>1, <3>1, AskedTyped DEF TypeOK
    <3>3. recent \in Seq(0..clock)
      BY <3>2, RecentFacts
    <3>4. Len(recent) \in Nat
      BY <3>3
    <3> QED
      BY <3>1, <3>4, LimitsTyped
  <2>2. /\ r \in Repository /\ now \in Int /\ clock \in Nat /\ clock =< now + MaxDelay
        /\ 0..clock \in SUBSET Int
    BY <1>1, <2>1, AskedTyped DEF AuthInv, HandlersOnTime
  <2>3. /\ times[r] \in Seq(0..clock) /\ Len(times[r]) \in Nat /\ Len(times[r]) =< RateLimit
        /\ p \in Seq(0..clock)
    BY <1>1, <2>2 DEF TypeOK
  <2>4. Mirrors(recent, p)
    BY <1>1, <2>1, HandlerMirrors DEF AuthInv
  <2> HIDE DEF r, p, now
  <2>5. PICK dropped \in 0..Len(times[r]) :
           /\ recent \in Seq(0..clock)
           /\ Len(recent) = Len(times[r]) - dropped
           /\ \A i \in 1..Len(times[r]) - dropped : recent[i] = times[r][dropped + i]
           /\ dropped < Len(times[r]) => times[r][dropped + 1] > now - Window
    BY <2>2, <2>3, RecentFacts
  <2> HIDE DEF recent
  <2>6. Len(recent) = RateLimit /\ dropped = 0 /\ 1 \in 1..Len(recent) /\ recent[1] > now - Window
    BY <2>1, <2>3, <2>5, LimitsTyped
  <2>7. Len(p) \in Nat /\ DOMAIN recent = 1..Len(recent) /\ recent[1] \in Int
    BY <2>2, <2>3, <2>5, <2>6, SeqSubset
  <2>8. Len(p) - RateLimit >= 0 /\ recent[1] =< p[Len(p) - RateLimit + 1]
    BY <2>4, <2>6, <2>7 DEF Mirrors
  <2> DEFINE k == Len(p) - RateLimit + 1
  <2>9. k \in 1..Len(p) /\ p[k] \in Int
    BY <2>2, <2>3, <2>7, <2>8, LimitsTyped
  <2> HIDE DEF k
  <2>10. clock - p[k] < Window + MaxDelay
    BY <2>2, <2>6, <2>7, <2>8, <2>9, LimitsTyped DEF k
  <2> QED
    BY <2>7, <2>8, <2>10, LimitsTyped DEF k, p, r
<1>2. TypeOK /\ AuthInv /\ [Next]_vars =>
         [\A h \in Handler : RateExceeded(h) =>
             LET p == passed[Asked(h).repository]
             IN  /\ Len(p) >= RateLimit
                 /\ clock - p[Len(p) - RateLimit + 1] < Window + MaxDelay]_vars
  BY <1>1
<1> QED
  BY <1>2, AuthInvariance, PTL DEF Spec, RefusedOnlyWhenBusy
=============================================================================
