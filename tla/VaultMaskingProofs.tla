-------------------------- MODULE VaultMaskingProofs --------------------------
(***************************************************************************)
(* One fault does not make a lookup fail: for any number of coroutines,    *)
(* lookups and tokens.                                                     *)
(***************************************************************************)
EXTENDS VaultClientProofs

-----------------------------------------------------------------------------
(* Explained, for a step of one coroutine. *)

\* A state that is explained stays so when tokens are accepted that were not,
\* or there is no stale token any more.
LEMMA ExplainedMonotone ==
    ASSUME NEW l, NEW stale \in BOOLEAN, NEW later \in BOOLEAN, NEW good, NEW more,
           Explained(l, stale, good), later => stale, good \subseteq more
    PROVE  Explained(l, later, more)
BY DEF Explained

\* A lookup that has met two faults may be anywhere.
LEMMA TwoFaultsExplain ==
    ASSUME NEW l, l.seen = 2, NEW stale \in BOOLEAN, NEW good
    PROVE  Explained(l, stale, good)
BY DEF Explained, Spared

\* A step of one coroutine, that leaves no more stale tokens than there were,
\* needs to explain that coroutine only.
LEMMA StepExplained ==
    ASSUME TypeOK, MaskInv, NEW c \in Caller, NEW change \in Lookup, Become(c, change),
           UNCHANGED setup, valid \subseteq valid', Stale' => Stale,
           setup.owned /\ setup.credentials /\ Explained(lookup[c], Stale, valid)
               => Explained(change, Stale', valid')
    PROVE  MaskInv'
<1>1. lookup \in [Caller -> Lookup]
  BY DEF TypeOK
<1>2. lookup'[c] = change /\ \A d \in Caller \ {c} : lookup'[d] = lookup[d]
  BY <1>1, BecomeFacts
<1>3. Stale \in BOOLEAN /\ Stale' \in BOOLEAN
  BY DEF Stale
<1>4. SUFFICES ASSUME setup.owned, setup.credentials, NEW d \in Caller
               PROVE  Explained(lookup'[d], Stale', valid')
  BY DEF MaskInv
<1>5. Explained(lookup[d], Stale, valid) /\ Explained(lookup[c], Stale, valid)
  BY <1>4 DEF MaskInv
<1>6. CASE d = c
  BY <1>2, <1>4, <1>5, <1>6
<1>7. CASE d # c
  BY <1>2, <1>3, <1>5, <1>7, ExplainedMonotone
<1> QED
  BY <1>6, <1>7

\* An answer makes a token stale only if it grants one that is.
LEMMA AnsweredStep ==
    ASSUME TypeOK, NEW c \in Caller, NEW change \in Lookup, Become(c, change),
           token' = token, valid \subseteq valid',
           change.answer # "granted" \/ change.header \in valid'
    PROVE  Stale' => Stale
<1>1. lookup \in [Caller -> Lookup]
  BY DEF TypeOK
<1>2. lookup'[c] = change /\ \A d \in Caller \ {c} : lookup'[d] = lookup[d]
  BY <1>1, BecomeFacts
<1> QED
  BY <1>2 DEF Stale, At

\* Any other step of one coroutine makes no token stale.
LEMMA QuietStep ==
    ASSUME TypeOK, NEW c \in Caller, NEW change \in Lookup, Become(c, change),
           token' = token, valid' = valid, change.at # "answered"
    PROVE  Stale' => Stale
<1>1. lookup \in [Caller -> Lookup]
  BY DEF TypeOK
<1>2. lookup'[c] = change /\ \A d \in Caller \ {c} : lookup'[d] = lookup[d]
  BY <1>1, BecomeFacts
<1> QED
  BY <1>2 DEF Stale, At

\* A lookup that begins, or asks Vault, or ends well, has met no more than before.
LEMMA ProjectMasks ==
    ASSUME TypeOK, MaskInv, NEW c \in Caller, Project(c)
    PROVE  MaskInv'
<1> DEFINE seen == IF Stale THEN 1 ELSE 0
           change == [NoLookup EXCEPT !.at = "ensuring", !.seen = seen]
<1>1. seen \in 0..2 /\ (seen = 0 => ~Stale) /\ seen # 2
  OBVIOUS
<1>2. Become(c, change)
  BY DEF Project
<1> HIDE DEF seen
<1>3. /\ change \in Lookup /\ change.at = "ensuring" /\ change.outcome = "none"
      /\ change.seen = seen /\ change.again = FALSE /\ change.attempt = 0
  <2>1. NoLookup \in Lookup /\ "ensuring" \in Places
    BY NoLookupType DEF Places
  <2> QED
    BY <1>1, <2>1 DEF NoLookup, Lookup
<1> HIDE DEF change
<1>4. setup' = setup /\ token' = token /\ valid' = valid
  BY DEF Project, cached, vault
<1>5. Stale' => Stale
  BY <1>2, <1>3, <1>4, QuietStep
<1>6. Explained(change, Stale', valid')
  BY <1>1, <1>3, <1>5 DEF Explained, Spared, Carries, Requesting
<1> QED
  BY <1>2, <1>3, <1>4, <1>5, <1>6, StepExplained

LEMMA AskingKeeps ==
    ASSUME TypeOK, NEW c \in Caller, NEW request \in Requests, NEW header \in Nat \cup {None}
    PROVE  /\ Asking(c, request, header) \in Lookup
           /\ Asking(c, request, header).at = "queued"
           /\ Asking(c, request, header).request = request
           /\ Asking(c, request, header).header = header
           /\ Asking(c, request, header).attempt = 0
           /\ Asking(c, request, header).seen = lookup[c].seen
           /\ Asking(c, request, header).again = lookup[c].again
           /\ Asking(c, request, header).outcome = lookup[c].outcome
           /\ lookup[c].seen \in 0..2
<1>1. lookup \in [Caller -> Lookup] /\ lookup[c] \in Lookup
  BY DEF TypeOK
<1>2. Asking(c, request, header) \in Lookup
  BY <1>1, AskingFacts
<1> QED
  BY <1>1, <1>2 DEF Asking, Lookup

LEMMA EndedKeeps ==
    ASSUME TypeOK, NEW c \in Caller, NEW outcome \in Outcomes
    PROVE  /\ Ended(c, outcome) \in Lookup
           /\ Ended(c, outcome).at = "idle"
           /\ Ended(c, outcome).seen = lookup[c].seen
           /\ Ended(c, outcome).outcome = outcome
<1>1. lookup \in [Caller -> Lookup] /\ lookup[c] \in Lookup
  BY DEF TypeOK
<1>2. Ended(c, outcome) \in Lookup /\ Ended(c, outcome).at = "idle"
  BY <1>1, EndedFacts
<1> QED
  BY <1>1, <1>2 DEF Ended, Lookup

\* To ask Vault is safe with a token it accepts, and with none for a login.
LEMMA AskingMasks ==
    ASSUME TypeOK, MaskInv, NEW c \in Caller, lookup[c].at # "idle",
           NEW request \in Requests, NEW header \in Nat \cup {None},
           Become(c, Asking(c, request, header)),
           setup' = setup, valid' = valid, Stale' => Stale,
           request # "login" /\ ~Stale => header \in valid
    PROVE  MaskInv'
<1> DEFINE change == Asking(c, request, header)
<1>1. /\ change \in Lookup /\ change.at = "queued" /\ change.request = request
      /\ change.header = header /\ change.attempt = 0 /\ change.seen = lookup[c].seen
      /\ change.again = lookup[c].again /\ change.outcome = lookup[c].outcome
  BY AskingKeeps
<1>2. Become(c, change)
  OBVIOUS
<1> HIDE DEF change
<1>3. ASSUME Explained(lookup[c], Stale, valid)
      PROVE  Explained(change, Stale', valid')
  BY <1>1, <1>3 DEF Explained, Spared, Carries, Requesting
<1> QED
  BY <1>1, <1>2, <1>3, StepExplained

\* ... in particular with the cached token.
LEMMA AskingCachedMasks ==
    ASSUME TypeOK, MaskInv, NEW c \in Caller, lookup[c].at # "idle",
           NEW request \in Requests, NEW header \in Nat \cup {None},
           Become(c, Asking(c, request, header)),
           setup' = setup, token' = token, valid' = valid,
           request = "login" \/ (header = token /\ token # None)
    PROVE  MaskInv'
<1>1. Asking(c, request, header) \in Lookup /\ Asking(c, request, header).at = "queued"
  BY AskingKeeps
<1>2. Stale' => Stale
  BY <1>1, QuietStep
<1>3. request # "login" /\ ~Stale => header \in valid
  BY DEF Stale
<1> QED
  BY <1>2, <1>3, AskingMasks

LEMMA EndedMasks ==
    ASSUME TypeOK, MaskInv, NEW c \in Caller, NEW outcome \in Outcomes,
           Become(c, Ended(c, outcome)), setup' = setup, token' = token, valid' = valid,
           setup.owned /\ setup.credentials /\ Explained(lookup[c], Stale, valid)
               => (outcome = "failed" => lookup[c].seen = 2)
    PROVE  MaskInv'
<1> DEFINE change == Ended(c, outcome)
<1>1. /\ change \in Lookup /\ change.at = "idle" /\ change.outcome = outcome
      /\ change.seen = lookup[c].seen
  BY EndedKeeps
<1>2. Become(c, change)
  OBVIOUS
<1> HIDE DEF change
<1>3. Stale' => Stale
  BY <1>1, <1>2, QuietStep
<1>4. ASSUME setup.owned, setup.credentials, Explained(lookup[c], Stale, valid)
      PROVE  Explained(change, Stale', valid')
  BY <1>1, <1>4 DEF Explained
<1> QED
  BY <1>1, <1>2, <1>3, <1>4, StepExplained

LEMMA EnsureMasks ==
    ASSUME TypeOK, MaskInv, NEW c \in Caller, Ensure(c)
    PROVE  MaskInv'
<1>1. {"read", "renew", "login"} \subseteq Requests /\ token \in Nat \cup {None} /\ None \in Nat \cup {None}
  BY DEF Requests, TypeOK
<1>2. CASE UseToken(c)
  <2>1. /\ Become(c, Asking(c, "read", token)) /\ lookup[c].at # "idle" /\ token # None
        /\ setup' = setup /\ token' = token /\ valid' = valid
    BY <1>2 DEF UseToken, At, cached, vault
  <2> QED
    BY <1>1, <2>1, AskingCachedMasks
<1>3. CASE Renew(c)
  <2>1. /\ Become(c, Asking(c, "renew", token)) /\ lookup[c].at # "idle" /\ token # None
        /\ setup' = setup /\ token' = token /\ valid' = valid
    BY <1>3 DEF Renew, At, cached, vault
  <2> QED
    BY <1>1, <2>1, AskingCachedMasks
<1>4. CASE Login(c)
  <2>1. lookup[c].at # "idle" /\ setup' = setup /\ token' = token /\ valid' = valid
    BY <1>4 DEF Login, At, cached, vault
  <2>2. CASE setup.credentials
    <3>1. Become(c, Asking(c, "login", None))
      BY <1>4, <2>2 DEF Login
    <3> QED
      BY <1>1, <2>1, <3>1, AskingCachedMasks
  <2>3. CASE ~setup.credentials
    BY <2>1, <2>3 DEF MaskInv
  <2> QED
    BY <2>2, <2>3
<1> QED
  BY <1>2, <1>3, <1>4 DEF Ensure

\* The token in the header does not change while a request waits and is sent.
LEMMA SendMasks ==
    ASSUME TypeOK, MaskInv, NEW c \in Caller, Send(c)
    PROVE  MaskInv'
<1> DEFINE change == [lookup[c] EXCEPT !.at = "sent", !.using = pool]
<1>0. lookup[c] \in Lookup /\ pool \in Nat /\ "sent" \in Places
  BY DEF TypeOK, Places
<1>1. /\ change \in Lookup /\ change.at = "sent"
      /\ change.request = lookup[c].request /\ change.header = lookup[c].header
      /\ change.seen = lookup[c].seen /\ change.again = lookup[c].again
      /\ change.outcome = lookup[c].outcome /\ change.attempt = lookup[c].attempt
  BY <1>0 DEF Lookup
<1>2. Become(c, change) /\ setup' = setup /\ token' = token /\ valid' = valid /\ lookup[c].at \in {"queued", "pausing"}
  BY DEF Send, At, cached, vault
<1> HIDE DEF change
<1>3. Stale' => Stale
  BY <1>1, <1>2, QuietStep
<1>4. ASSUME Explained(lookup[c], Stale, valid)
      PROVE  Explained(change, Stale', valid')
  BY <1>1, <1>2, <1>3, <1>4 DEF Explained, Spared, Carries, Requesting
<1> QED
  BY <1>1, <1>2, <1>3, <1>4, StepExplained

-----------------------------------------------------------------------------
(* The end of a request. *)

\* An explained coroutine that gets to the end of the reset has met a fault, and
\* two when the error is raised.
LEMMA ResetClientMasks ==
    ASSUME TypeOK, VaultInv, MaskInv, NEW c \in Caller, ResetClient(c)
    PROVE  MaskInv'
<1>1. /\ lookup[c] \in Lookup /\ lookup[c].at = "resetting" /\ "failed" \in Outcomes
      /\ setup' = setup /\ token' = token /\ valid' = valid
  BY DEF ResetClient, TypeOK, Outcomes, At, cached, vault
<1>2. CASE lookup[c].raising
  <2>1. Become(c, Ended(c, "failed"))
    BY <1>2 DEF ResetClient
  <2>2. Explained(lookup[c], Stale, valid) => lookup[c].seen = 2
    BY <1>1, <1>2 DEF Explained
  <2> QED
    BY <1>1, <2>1, <2>2, EndedMasks
<1>3. CASE ~lookup[c].raising
  <2> DEFINE change == [lookup[c] EXCEPT !.at = "pausing", !.attempt = lookup[c].attempt + 1]
  <2>1. /\ change.at = "pausing"
        /\ change.request = lookup[c].request /\ change.header = lookup[c].header
        /\ change.seen = lookup[c].seen /\ change.again = lookup[c].again
        /\ change.outcome = lookup[c].outcome
    BY <1>1 DEF Lookup
  <2>2. Become(c, change)
    BY <1>3 DEF ResetClient
  <2>3. change \in Lookup
    <3>1. lookup[c].attempt + 1 = 1
      BY <1>1, <1>3 DEF VaultInv, ResetRaises, At
    <3>2. change = [lookup[c] EXCEPT !.at = "pausing", !.attempt = 1]
      BY <3>1
    <3>3. 1 \in 0..1 /\ "pausing" \in Places
      BY DEF Places
    <3> HIDE DEF change
    <3> QED
      BY <1>1, <3>2, <3>3 DEF Lookup
  <2> HIDE DEF change
  <2>4. Stale' => Stale
    BY <1>1, <2>1, <2>2, <2>3, QuietStep
  <2>5. ASSUME Explained(lookup[c], Stale, valid)
        PROVE  Explained(change, Stale', valid')
    BY <1>1, <2>1, <2>4, <2>5 DEF Explained, Spared, Carries, Requesting
  <2> QED
    BY <1>1, <2>2, <2>3, <2>4, <2>5, StepExplained
<1> QED
  BY <1>2, <1>3

\* What Vault answers as it should is good for a coroutine that was spared.
LEMMA AnswerMasks ==
    ASSUME TypeOK, MaskInv, NEW c \in Caller, Answer(c)
    PROVE  MaskInv'
<1>1. /\ lookup \in [Caller -> Lookup] /\ lookup[c] \in Lookup /\ lookup[c].at = "sent"
      /\ issued \in Nat /\ setup' = setup /\ token' = token
  BY DEF Answer, TypeOK, At, cached
<1>2. PICK header \in Nat \cup {None}, answer \in Answers :
         /\ lookup' = Answered(c, header, answer)
         /\ valid \subseteq valid'
         /\ answer = "granted" => header \in valid'
         /\ answer # "invalid"
         /\ answer = "unusable" => lookup[c].request = "renew"
         /\ lookup[c].request # "login" => header = lookup[c].header
         /\ answer \notin {"granted", "found", "missing"} =>
               lookup[c].request # "login" /\ header \notin valid
  <2>1. {"granted", "unusable", "found", "missing", "denied"} \subseteq Answers
    BY DEF Answers
  <2>2. lookup[c].header \in Nat \cup {None} /\ issued + 1 \in Nat
    BY <1>1 DEF Lookup
  <2>3. CASE lookup[c].request = "login"
    BY <2>1, <2>2, <2>3 DEF Answer
  <2>4. CASE lookup[c].request = "renew"
    BY <2>1, <2>2, <2>4 DEF Answer, vault
  <2>5. CASE lookup[c].request = "read"
    <3>1. PICK answer \in {"found", "missing", "denied"} :
             /\ (answer = "denied") <=> (lookup[c].header \notin valid)
             /\ lookup' = Answered(c, lookup[c].header, answer)
      BY <2>5 DEF Answer
    <3>2. valid' = valid
      BY <2>5 DEF Answer, vault
    <3> QED
      BY <2>1, <2>2, <2>5, <3>1, <3>2
  <2> QED
    BY <2>3, <2>4, <2>5 DEF Answer
<1> DEFINE change == [lookup[c] EXCEPT !.at = "answered", !.header = header, !.answer = answer]
<1>3. /\ change \in Lookup /\ change.at = "answered" /\ change.header = header
      /\ change.answer = answer /\ change.request = lookup[c].request
      /\ change.seen = lookup[c].seen /\ change.again = lookup[c].again
      /\ change.outcome = lookup[c].outcome /\ change.attempt = lookup[c].attempt
  <2>1. "answered" \in Places
    BY DEF Places
  <2> QED
    BY <1>1, <2>1 DEF Lookup
<1>4. Become(c, change)
  BY <1>1, <1>2 DEF Become, Answered, Lookup
<1> HIDE DEF change
<1>5. valid \subseteq valid' /\ (change.answer # "granted" \/ change.header \in valid')
  BY <1>2, <1>3
<1>6. Stale' => Stale
  BY <1>1, <1>3, <1>4, <1>5, AnsweredStep
<1>7. ASSUME Explained(lookup[c], Stale, valid)
      PROVE  Explained(change, Stale', valid')
  BY <1>1, <1>2, <1>3, <1>6, <1>7 DEF Explained, Spared, Carries, Requesting
<1> QED
  BY <1>1, <1>3, <1>4, <1>5, <1>6, <1>7, StepExplained

-----------------------------------------------------------------------------
(* What a lookup makes of an answer. *)

LEMMA SetTokenMasks ==
    ASSUME TypeOK, MaskInv, NEW c \in Caller, SetToken(c)
    PROVE  MaskInv'
<1> DEFINE header == lookup[c].header
<1>1. /\ lookup[c] \in Lookup /\ lookup[c].at = "answered" /\ lookup[c].answer = "granted"
      /\ setup' = setup /\ token' = header /\ valid' = valid
      /\ Become(c, Asking(c, "read", header))
  BY DEF SetToken, Receives, TypeOK, At, cached, vault
<1>2. header \in Nat \cup {None} /\ "read" \in Requests
  BY <1>1 DEF Lookup, Requests
<1> HIDE DEF header
<1>3. Asking(c, "read", header) \in Lookup /\ Asking(c, "read", header).at = "queued"
  BY <1>2, AskingKeeps
<1>4. header \in valid \/ Stale
  BY <1>1 DEF Stale, At, header
<1>5. Stale' => Stale
  <2>1. lookup'[c].at = "queued" /\ \A d \in Caller \ {c} : lookup'[d] = lookup[d]
    BY <1>1, <1>3, BecomeFacts DEF TypeOK
  <2> QED
    BY <1>1, <1>4, <2>1 DEF Stale, At
<1> QED
  BY <1>1, <1>2, <1>4, <1>5, AskingMasks

LEMMA RenewalRefusedMasks ==
    ASSUME TypeOK, MaskInv, NEW c \in Caller, RenewalRefused(c)
    PROVE  MaskInv'
<1>1. /\ lookup[c].at = "answered" /\ setup' = setup /\ token' = None /\ valid' = valid
      /\ "login" \in Requests /\ None \in Nat \cup {None}
  BY DEF RenewalRefused, Receives, At, vault, Requests
<1>2. CASE setup.credentials
  <2>1. Become(c, Asking(c, "login", None))
    BY <1>2 DEF RenewalRefused
  <2>2. Asking(c, "login", None) \in Lookup /\ Asking(c, "login", None).at = "queued"
    BY <1>1, AskingKeeps
  <2>3. lookup'[c].at = "queued" /\ \A d \in Caller \ {c} : lookup'[d] = lookup[d]
    BY <2>1, <2>2, BecomeFacts DEF TypeOK
  <2>4. Stale' => Stale
    BY <1>1, <2>3 DEF Stale, At
  <2> QED
    BY <1>1, <2>1, <2>4, AskingMasks
<1>3. CASE ~setup.credentials
  BY <1>1, <1>3 DEF MaskInv
<1> QED
  BY <1>2, <1>3

\* The first refusal: whatever token is refused is forgotten, and since no other
\* coroutine is inside _request no other token is about to be cached.
LEMMA DeniedMasks ==
    ASSUME TypeOK, VaultInv, MaskInv, NEW c \in Caller, Denied(c)
    PROVE  MaskInv'
<1> DEFINE change == [lookup[c] EXCEPT !.at = "ensuring", !.again = TRUE]
<1>1. /\ lookup[c] \in Lookup /\ lookup[c].at = "answered" /\ lookup[c].answer = "denied"
      /\ setup' = setup /\ token' = None /\ valid' = valid
  BY DEF Denied, Receives, At, TypeOK, vault
<1>2. /\ change \in Lookup /\ change.at = "ensuring"
      /\ change.seen = lookup[c].seen /\ change.again
      /\ change.outcome = lookup[c].outcome /\ change.attempt = lookup[c].attempt
  <2>1. "ensuring" \in Places
    BY DEF Places
  <2> QED
    BY <1>1, <2>1 DEF Lookup
<1>3. Become(c, change)
  BY DEF Denied
<1> HIDE DEF change
<1>4. lookup'[c].at = "ensuring" /\ \A d \in Caller \ {c} : lookup'[d] = lookup[d]
  BY <1>2, <1>3, BecomeFacts DEF TypeOK
<1>5. ~Stale'
  <2>1. \A d \in Caller \ {c} : lookup[d].at # "answered"
    BY <1>1, CallerAssumption DEF VaultInv, LocksHeld, Requesting
  <2> QED
    BY <1>1, <1>4, <2>1 DEF Stale, At
<1>6. ASSUME Explained(lookup[c], Stale, valid)
      PROVE  Explained(change, Stale', valid')
  <2>1. lookup[c].seen # 0
    BY <1>1, <1>6 DEF Explained, Spared
  <2> QED
    BY <1>1, <1>2, <1>5, <1>6, <2>1 DEF Explained, Spared, Carries, Requesting
<1> QED
  BY <1>1, <1>2, <1>3, <1>5, <1>6, StepExplained

\* The answers that make a lookup fail are those of a coroutine that was not spared.
LEMMA FailureMasks ==
    ASSUME TypeOK, MaskInv, NEW c \in Caller, AuthenticationFailed(c) \/ LookupFailed(c)
    PROVE  MaskInv'
<1>1. /\ lookup[c] \in Lookup /\ lookup[c].at = "answered" /\ "failed" \in Outcomes
      /\ setup' = setup /\ token' = token /\ valid' = valid
      /\ Become(c, Ended(c, "failed"))
  BY DEF AuthenticationFailed, LookupFailed, Receives, At, TypeOK, Outcomes, cached, vault
<1>2. \/ lookup[c].answer = "invalid"
      \/ lookup[c].answer = "unusable" /\ lookup[c].request # "renew"
      \/ lookup[c].answer = "denied" /\ lookup[c].again
  BY DEF AuthenticationFailed, LookupFailed, Receives
<1>3. ASSUME Explained(lookup[c], Stale, valid)
      PROVE  lookup[c].seen = 2
  BY <1>1, <1>2, <1>3 DEF Explained, Spared, Lookup
<1> QED
  BY <1>1, <1>3, EndedMasks

LEMMA LookupDoneMasks ==
    ASSUME TypeOK, MaskInv, NEW c \in Caller, LookupDone(c)
    PROVE  MaskInv'
<1>1. setup' = setup /\ token' = token /\ valid' = valid
  BY DEF LookupDone, cached, vault
<1>2. PICK outcome \in {"found", "missing"} : Become(c, Ended(c, outcome))
  BY DEF LookupDone
<1>3. outcome \in Outcomes /\ outcome # "failed"
  BY <1>2 DEF Outcomes
<1> QED
  BY <1>1, <1>2, <1>3, EndedMasks

-----------------------------------------------------------------------------
(* Faults, which every lookup in progress meets. *)

\* h is the state l once its lookup has met a fault that weighs `weight`.
Meets(h, l, weight) ==
    /\ h.seen = IF l.seen + weight > 2 THEN 2 ELSE l.seen + weight
    /\ h.at = l.at /\ h.request = l.request /\ h.header = l.header /\ h.answer = l.answer
    /\ h.attempt = l.attempt /\ h.again = l.again /\ h.raising = l.raising
    /\ h.outcome = l.outcome

LEMMA FaultMeets ==
    ASSUME NEW after \in [Caller -> Lookup], NEW weight \in 1..2, Fault(weight, after),
           NEW d \in Caller
    PROVE  Meets(lookup'[d], after[d], weight)
<1> DEFINE seen == IF after[d].seen + weight > 2 THEN 2 ELSE after[d].seen + weight
<1>1. lookup'[d] = [after[d] EXCEPT !.seen = seen]
  BY DEF Fault
<1>2. after[d] \in Lookup
  OBVIOUS
<1> HIDE DEF seen
<1>3. /\ lookup'[d].seen = seen
      /\ lookup'[d].at = after[d].at /\ lookup'[d].request = after[d].request
      /\ lookup'[d].header = after[d].header /\ lookup'[d].answer = after[d].answer
      /\ lookup'[d].attempt = after[d].attempt /\ lookup'[d].again = after[d].again
      /\ lookup'[d].raising = after[d].raising /\ lookup'[d].outcome = after[d].outcome
  BY <1>1, <1>2 DEF Lookup
<1> QED
  BY <1>3 DEF Meets, seen

\* One fault more explains whatever token is stale and whichever are accepted.
LEMMA OneFaultExplains ==
    ASSUME NEW l \in Lookup, NEW h, Meets(h, l, 1),
           NEW stale, NEW good, NEW later, NEW more,
           Explained(l, stale, good)
    PROVE  Explained(h, later, more)
<1>1. l.seen \in 0..2
  BY DEF Lookup
<1> QED
  BY <1>1 DEF Meets, Explained, Spared

LEMMA RevokeMasks ==
    ASSUME TypeOK, MaskInv, NEW t \in valid, Revoke(t)
    PROVE  MaskInv'
<1>1. lookup \in [Caller -> Lookup] /\ Fault(1, lookup) /\ setup' = setup
  BY DEF Revoke, TypeOK
<1>2. SUFFICES ASSUME setup.owned, setup.credentials, NEW d \in Caller
               PROVE  Explained(lookup'[d], Stale', valid')
  BY <1>1 DEF MaskInv
<1>3. Meets(lookup'[d], lookup[d], 1)
  BY <1>1, FaultMeets
<1>4. Explained(lookup[d], Stale, valid) /\ lookup[d] \in Lookup
  BY <1>1, <1>2 DEF MaskInv
<1> QED
  BY <1>3, <1>4, OneFaultExplains

\* A request that was not sent is tried again, unless it was for the second time.
LEMMA NotSentMasks ==
    ASSUME TypeOK, MaskInv, NEW c \in Caller, NotSent(c)
    PROVE  MaskInv'
<1> DEFINE change == Raised(c, TRUE)
           after == [lookup EXCEPT ![c] = change]
<1>1. lookup \in [Caller -> Lookup] /\ lookup[c] \in Lookup /\ setup' = setup /\ lookup[c].at = "sent"
  BY DEF NotSent, TypeOK, At
<1>2. change \in Lookup
  BY RaisedFacts
<1>3. Fault(1, after)
  BY DEF NotSent
<1>4. SUFFICES ASSUME setup.owned, setup.credentials, NEW d \in Caller
               PROVE  Explained(lookup'[d], Stale', valid')
  BY <1>1 DEF MaskInv
<1>5. /\ change.at = "resetting" /\ (change.raising <=> lookup[c].attempt = 1)
      /\ change.seen = lookup[c].seen /\ change.again = lookup[c].again
      /\ change.outcome = lookup[c].outcome /\ change.attempt = lookup[c].attempt
  <2> DEFINE raising == ~TRUE \/ lookup[c].attempt = 1
  <2>1. change = [lookup[c] EXCEPT !.at = "resetting", !.raising = raising]
    BY <1>4 DEF Raised
  <2>2. raising \in BOOLEAN /\ (raising <=> lookup[c].attempt = 1)
    OBVIOUS
  <2> HIDE DEF raising, change
  <2>3. /\ change.at = "resetting" /\ change.raising = raising
        /\ change.seen = lookup[c].seen /\ change.again = lookup[c].again
        /\ change.outcome = lookup[c].outcome /\ change.attempt = lookup[c].attempt
    BY <1>1, <2>1, <2>2 DEF Lookup
  <2> QED
    BY <2>2, <2>3
<1> HIDE DEF change
<1>6. after \in [Caller -> Lookup] /\ after[c] = change /\ \A e \in Caller \ {c} : after[e] = lookup[e]
  BY <1>1, <1>2
<1> HIDE DEF after
<1>7. Meets(lookup'[d], after[d], 1)
  BY <1>3, <1>6, FaultMeets
<1>8. Explained(lookup[d], Stale, valid) /\ lookup[d] \in Lookup
  BY <1>1, <1>4 DEF MaskInv
<1>9. CASE d # c
  BY <1>6, <1>7, <1>8, <1>9, OneFaultExplains
<1>10. CASE d = c
  <2>1. Meets(lookup'[c], change, 1)
    BY <1>6, <1>7, <1>10
  <2>2. lookup[c].seen \in 0..2
    BY <1>1 DEF Lookup
  <2> QED
    BY <1>1, <1>5, <1>8, <1>10, <2>1, <2>2 DEF Meets, Explained, Spared
<1> QED
  BY <1>9, <1>10

\* The other faults weigh two, which explains anything.
LEMMA HeavyFaultMasks ==
    ASSUME NEW after \in [Caller -> Lookup], Fault(2, after)
    PROVE  MaskInv'
<1>1. ASSUME NEW d \in Caller
      PROVE  Explained(lookup'[d], Stale', valid')
  <2>1. Meets(lookup'[d], after[d], 2) /\ after[d].seen \in 0..2
    BY FaultMeets DEF Lookup
  <2>2. lookup'[d].seen = 2
    BY <2>1 DEF Meets
  <2> QED
    BY <2>2 DEF Explained, Spared
<1> QED
  BY <1>1 DEF MaskInv

LEMMA AnswerBadlyMasks ==
    ASSUME TypeOK, MaskInv, NEW c \in Caller, AnswerBadly(c)
    PROVE  MaskInv'
<1>1. lookup \in [Caller -> Lookup] /\ lookup[c].header \in Nat \cup {None}
  BY DEF TypeOK, Lookup
<1>2. PICK answer \in {"unusable", "invalid"} : Fault(2, Answered(c, lookup[c].header, answer))
  BY DEF AnswerBadly
<1>3. Answered(c, lookup[c].header, answer) \in [Caller -> Lookup]
  BY <1>1, <1>2, AnsweredFacts DEF Answers
<1> QED
  BY <1>2, <1>3, HeavyFaultMasks

LEMMA OutcomeUnknownMasks ==
    ASSUME TypeOK, MaskInv, NEW c \in Caller, OutcomeUnknown(c)
    PROVE  MaskInv'
<1> DEFINE change == [Raised(c, FALSE) EXCEPT !.unsure = TRUE]
           after == [lookup EXCEPT ![c] = change]
<1>1. Fault(2, after)
  BY DEF OutcomeUnknown
<1>2. change \in Lookup
  <2>1. Raised(c, FALSE) \in Lookup
    BY RaisedFacts
  <2> QED
    BY <2>1 DEF Lookup
<1> HIDE DEF change
<1>3. after \in [Caller -> Lookup]
  BY <1>2 DEF TypeOK
<1> QED
  BY <1>1, <1>3, HeavyFaultMasks

-----------------------------------------------------------------------------
(* The theorems. *)

LEMMA MaskStep ==
    ASSUME TypeOK, VaultInv, MaskInv, [Next]_vars
    PROVE  MaskInv'
<1>1. ASSUME NEW c \in Caller, Project(c) \/ Goes(c)
      PROVE  MaskInv'
  BY <1>1, ProjectMasks, EnsureMasks, SendMasks, ResetClientMasks, SetTokenMasks,
     RenewalRefusedMasks, FailureMasks, DeniedMasks, LookupDoneMasks DEF Goes, Receive
<1>2. ASSUME NEW c \in Caller, Transport(c)
      PROVE  MaskInv'
  BY <1>2, AnswerMasks, AnswerBadlyMasks, NotSentMasks, OutcomeUnknownMasks DEF Transport
<1>3. ASSUME NEW t \in valid, Revoke(t)
      PROVE  MaskInv'
  BY <1>3, RevokeMasks
<1>4. CASE Age \/ Close \/ UNCHANGED vars
  <2>1. UNCHANGED <<setup, token, lookup, valid>>
    BY <1>4 DEF Age, Close, vars, cached, vault
  <2> QED
    BY <2>1 DEF MaskInv, Stale, At
<1> QED
  BY <1>1, <1>2, <1>3, <1>4 DEF Next

\* What a lookup has met explains where it is, in every reachable state.
THEOREM MaskInvariance == Spec => []MaskInv
<1>1. Init => MaskInv
  BY DEF Init, NoLookup, MaskInv, Explained
<1> QED
  BY <1>1, MaskStep, VaultInvariance, PTL DEF Spec

\* A client that is owned and has credentials masks one failure before sending
\* and one stale token, whatever the other coroutines do meanwhile: a lookup
\* that fails has met more.
THEOREM OneFaultMaskedHolds == Spec => []OneFaultMasked
<1>1. MaskInv => OneFaultMasked
  BY DEF MaskInv, Explained, OneFaultMasked
<1> QED
  BY <1>1, MaskInvariance, PTL
=============================================================================
