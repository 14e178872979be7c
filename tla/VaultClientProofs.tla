------------------------- MODULE VaultClientProofs -------------------------
(***************************************************************************)
(* Theorems about the Vault client, for any number of coroutines.          *)
(***************************************************************************)
EXTENDS VaultClientProperties, TLAPS

-----------------------------------------------------------------------------
(* Lemmas about the operators that change a coroutine's state. *)

LEMMA AskingFacts ==
    ASSUME NEW c \in Caller, lookup \in [Caller -> Lookup],
           NEW request \in Requests, NEW header \in Nat \cup {None}
    PROVE  /\ Asking(c, request, header) \in Lookup
           /\ Asking(c, request, header).at = "queued"
           /\ Asking(c, request, header).request = request
           /\ Asking(c, request, header).using = lookup[c].using
           /\ Asking(c, request, header).unsure = lookup[c].unsure
<1>1. lookup[c] \in Lookup
  OBVIOUS
<1>2. 0 \in 0..1 /\ "none" \in Answers /\ "queued" \in Places
  BY DEF Answers, Places
<1> QED
  BY <1>1, <1>2 DEF Asking, Lookup

LEMMA EndedFacts ==
    ASSUME NEW c \in Caller, lookup \in [Caller -> Lookup], NEW outcome \in Outcomes
    PROVE  /\ Ended(c, outcome) \in Lookup
           /\ Ended(c, outcome).at = "idle"
           /\ Ended(c, outcome).request = lookup[c].request
           /\ Ended(c, outcome).using = lookup[c].using
           /\ Ended(c, outcome).unsure = lookup[c].unsure
           /\ Ended(c, outcome).attempt = lookup[c].attempt
BY DEF Ended, Lookup, Places, Outcomes

\* A coroutine changes its own state only.
LEMMA BecomeFacts ==
    ASSUME NEW c \in Caller, lookup \in [Caller -> Lookup], NEW change \in Lookup, Become(c, change)
    PROVE  /\ lookup' \in [Caller -> Lookup]
           /\ lookup'[c] = change
           /\ \A d \in Caller \ {c} : lookup'[d] = lookup[d]
BY DEF Become

\* A fault is seen by every coroutine and changes nothing else of it.
LEMMA FaultFacts ==
    ASSUME NEW after \in [Caller -> Lookup], NEW weight \in 1..2, Fault(weight, after),
           faults \in Nat
    PROVE  /\ lookup' \in [Caller -> Lookup]
           /\ faults' \in Nat
           /\ \A d \in Caller :
                 /\ lookup'[d].at = after[d].at
                 /\ lookup'[d].request = after[d].request
                 /\ lookup'[d].using = after[d].using
                 /\ lookup'[d].unsure = after[d].unsure
                 /\ lookup'[d].raising = after[d].raising
                 /\ lookup'[d].attempt = after[d].attempt
<1> DEFINE seen(d) == IF after[d].seen + weight > 2 THEN 2 ELSE after[d].seen + weight
           hit(d) == [after[d] EXCEPT !.seen = seen(d)]
<1>1. ASSUME NEW d \in Caller
      PROVE  /\ hit(d) \in Lookup
             /\ hit(d).at = after[d].at /\ hit(d).request = after[d].request
             /\ hit(d).using = after[d].using /\ hit(d).unsure = after[d].unsure
             /\ hit(d).raising = after[d].raising /\ hit(d).attempt = after[d].attempt
  <2>1. after[d] \in Lookup
    OBVIOUS
  <2>2. seen(d) \in 0..2
    BY <2>1 DEF Lookup
  <2> HIDE DEF seen
  <2> QED
    BY <2>1, <2>2 DEF Lookup
<1>2. lookup' = [d \in Caller |-> hit(d)]
  BY DEF Fault
<1>3. faults' \in Nat
  BY DEF Fault
<1> HIDE DEF hit
<1> QED
  BY <1>1, <1>2, <1>3

\* What a transport error makes of a coroutine.
LEMMA RaisedFacts ==
    ASSUME TypeOK, NEW c \in Caller, NEW mayRetry \in BOOLEAN
    PROVE  /\ Raised(c, mayRetry) \in Lookup
           /\ Raised(c, mayRetry).at = (IF setup.owned THEN "resetting" ELSE "idle")
           /\ Raised(c, mayRetry).request = lookup[c].request
           /\ Raised(c, mayRetry).using = lookup[c].using
           /\ Raised(c, mayRetry).unsure = lookup[c].unsure
           /\ Raised(c, mayRetry).attempt = lookup[c].attempt
           /\ Raised(c, mayRetry).at = "resetting" =>
                 (Raised(c, mayRetry).raising <=> ~mayRetry \/ lookup[c].attempt = 1)
<1>1. lookup[c] \in Lookup /\ setup.owned \in BOOLEAN
  BY DEF TypeOK
<1>2. CASE setup.owned
  <2> DEFINE raising == ~mayRetry \/ lookup[c].attempt = 1
  <2>1. Raised(c, mayRetry) = [lookup[c] EXCEPT !.at = "resetting", !.raising = raising]
    BY <1>2 DEF Raised
  <2>2. raising \in BOOLEAN
    OBVIOUS
  <2> HIDE DEF raising
  <2>3. /\ Raised(c, mayRetry) \in Lookup
        /\ Raised(c, mayRetry).at = "resetting"
        /\ Raised(c, mayRetry).request = lookup[c].request
        /\ Raised(c, mayRetry).using = lookup[c].using
        /\ Raised(c, mayRetry).unsure = lookup[c].unsure
        /\ Raised(c, mayRetry).attempt = lookup[c].attempt
        /\ Raised(c, mayRetry).raising = raising
    BY <1>1, <2>1, <2>2 DEF Lookup, Places
  <2> QED
    BY <1>2, <2>3 DEF raising
<1>3. CASE ~setup.owned
  <2>1. Raised(c, mayRetry) = Ended(c, "failed")
    BY <1>3 DEF Raised
  <2>2. "failed" \in Outcomes
    BY DEF Outcomes
  <2> QED
    BY <1>1, <1>3, <2>1, <2>2, EndedFacts DEF TypeOK
<1> QED
  BY <1>2, <1>3

-----------------------------------------------------------------------------
(* Every step preserves the invariant. *)

LEMMA NoLookupType == NoLookup \in Lookup
BY DEF NoLookup, Lookup, Places, Requests, Answers, Outcomes

LEMMA InitInv == Init => TypeOK /\ VaultInv
<1> SUFFICES ASSUME Init PROVE TypeOK /\ VaultInv
  OBVIOUS
<1>2. TypeOK
  <2>1. fresh \in BOOLEAN /\ renewable \in BOOLEAN
    BY DEF Init
  <2>2. lookup \in [Caller -> Lookup]
    BY NoLookupType DEF Init
  <2> QED
    BY <2>1, <2>2 DEF Init, TypeOK
<1>1. \A c \in Caller : lookup[c].at = "idle" /\ lookup[c].unsure = FALSE
  BY DEF Init, NoLookup
<1>3. VaultInv
  BY <1>1, CallerAssumption DEF Init, VaultInv, LocksHeld, Authenticating, Requesting, ClientInUse,
     PoolDiscipline, NoRedundantLogin, NeverReplayed, ResetRaises, At
<1> QED
  BY <1>2, <1>3

LEMMA ProjectInv ==
    ASSUME TypeOK, VaultInv, NEW c \in Caller, Project(c)
    PROVE  TypeOK' /\ VaultInv'
<1> DEFINE seen == IF Stale THEN 1 ELSE 0
           change == [NoLookup EXCEPT !.at = "ensuring", !.seen = seen]
<1>0. lookup[c] \in Lookup
  BY DEF TypeOK
<1>1. /\ change \in Lookup
      /\ change.at = "ensuring" /\ change.request = "read" /\ change.unsure = FALSE
  <2>1. seen \in 0..2
    OBVIOUS
  <2> HIDE DEF seen
  <2>2. NoLookup \in Lookup /\ "ensuring" \in Places
    BY NoLookupType DEF Places
  <2> QED
    BY <2>1, <2>2 DEF NoLookup, Lookup
<1> HIDE DEF change, seen
<1>2. Become(c, change)
  BY DEF Project, change, seen
<1>3. /\ lookup' \in [Caller -> Lookup]
      /\ lookup'[c] = change
      /\ \A d \in Caller \ {c} : lookup'[d] = lookup[d]
  BY <1>1, <1>2, BecomeFacts DEF TypeOK
<1>4. TypeOK'
  BY <1>0, <1>3 DEF TypeOK, Project, Release, cached, locks, pools, vault
<1>5. LocksHeld'
  BY <1>1, <1>3, CallerAssumption DEF Project, Release, locks, VaultInv, LocksHeld, Authenticating, Requesting, At
<1>6. ClientInUse'
  BY <1>1, <1>3 DEF Project, pools, VaultInv, ClientInUse, At
<1>7. PoolDiscipline'
  BY <1>1, <1>3 DEF Project, pools, VaultInv, PoolDiscipline, ClientInUse, LocksHeld, Requesting, At
<1>8. NoRedundantLogin'
  BY <1>1, <1>3 DEF Project, cached, locks, VaultInv, NoRedundantLogin, LocksHeld, Authenticating, Requesting, At
<1>9. NeverReplayed'
  BY <1>1, <1>3 DEF Project, VaultInv, NeverReplayed, At
<1>10. ResetRaises'
  BY <1>1, <1>3 DEF Project, VaultInv, ResetRaises, At
<1> QED
  BY <1>4, <1>5, <1>6, <1>7, <1>8, <1>9, <1>10 DEF VaultInv

LEMMA UseTokenInv ==
    ASSUME TypeOK, VaultInv, NEW c \in Caller, UseToken(c)
    PROVE  TypeOK' /\ VaultInv'
<1> DEFINE change == Asking(c, "read", token)
<1>0. lookup[c] \in Lookup
  BY DEF TypeOK
<1>1. /\ change \in Lookup
      /\ change.at = "queued" /\ change.request = "read" /\ change.unsure = lookup[c].unsure
      /\ change.using = lookup[c].using
  <2>1. "read" \in Requests /\ "renew" \in Requests /\ "login" \in Requests
    BY DEF Requests
  <2>2. token \in Nat \cup {None}
    BY <1>0 DEF TypeOK, Lookup
  <2>3. lookup \in [Caller -> Lookup]
    BY DEF TypeOK
  <2> DEFINE header == token
  <2>4. header \in Nat \cup {None}
    BY <2>2
  <2>5. change = Asking(c, "read", header)
    OBVIOUS
  <2> HIDE DEF header, change
  <2> QED
    BY <2>1, <2>3, <2>4, AskingFacts, <2>5
<1> HIDE DEF change
<1>2. Become(c, change)
  BY DEF UseToken, change
<1>3. /\ lookup' \in [Caller -> Lookup]
      /\ lookup'[c] = change
      /\ \A d \in Caller \ {c} : lookup'[d] = lookup[d]
  BY <1>1, <1>2, BecomeFacts DEF TypeOK
<1>4. TypeOK'
  BY <1>0, <1>3 DEF TypeOK, UseToken, Release, cached, locks, pools, vault
<1>5. LocksHeld'
  BY <1>1, <1>3, CallerAssumption DEF UseToken, Release, locks, VaultInv, LocksHeld, Authenticating, Requesting, At
<1>6. ClientInUse'
  BY <1>1, <1>3 DEF UseToken, pools, VaultInv, ClientInUse, At
<1>7. PoolDiscipline'
  BY <1>1, <1>3 DEF UseToken, pools, VaultInv, PoolDiscipline, ClientInUse, LocksHeld, Requesting, At
<1>8. NoRedundantLogin'
  BY <1>1, <1>3 DEF UseToken, cached, locks, VaultInv, NoRedundantLogin, LocksHeld, Authenticating, Requesting, At
<1>9. NeverReplayed'
  BY <1>1, <1>3 DEF UseToken, VaultInv, NeverReplayed, At
<1>10. ResetRaises'
  BY <1>1, <1>3 DEF UseToken, VaultInv, ResetRaises, At
<1> QED
  BY <1>4, <1>5, <1>6, <1>7, <1>8, <1>9, <1>10 DEF VaultInv

LEMMA RenewInv ==
    ASSUME TypeOK, VaultInv, NEW c \in Caller, Renew(c)
    PROVE  TypeOK' /\ VaultInv'
<1> DEFINE change == Asking(c, "renew", token)
<1>0. lookup[c] \in Lookup
  BY DEF TypeOK
<1>1. /\ change \in Lookup
      /\ change.at = "queued" /\ change.request = "renew" /\ change.unsure = lookup[c].unsure
      /\ change.using = lookup[c].using
  <2>1. "read" \in Requests /\ "renew" \in Requests /\ "login" \in Requests
    BY DEF Requests
  <2>2. token \in Nat \cup {None}
    BY <1>0 DEF TypeOK, Lookup
  <2>3. lookup \in [Caller -> Lookup]
    BY DEF TypeOK
  <2> DEFINE header == token
  <2>4. header \in Nat \cup {None}
    BY <2>2
  <2>5. change = Asking(c, "renew", header)
    OBVIOUS
  <2> HIDE DEF header, change
  <2> QED
    BY <2>1, <2>3, <2>4, AskingFacts, <2>5
<1> HIDE DEF change
<1>2. Become(c, change)
  BY DEF Renew, change
<1>3. /\ lookup' \in [Caller -> Lookup]
      /\ lookup'[c] = change
      /\ \A d \in Caller \ {c} : lookup'[d] = lookup[d]
  BY <1>1, <1>2, BecomeFacts DEF TypeOK
<1>4. TypeOK'
  BY <1>0, <1>3 DEF TypeOK, Renew, Release, cached, locks, pools, vault
<1>5. LocksHeld'
  BY <1>1, <1>3, CallerAssumption DEF Renew, Release, locks, VaultInv, LocksHeld, Authenticating, Requesting, At
<1>6. ClientInUse'
  BY <1>1, <1>3 DEF Renew, pools, VaultInv, ClientInUse, At
<1>7. PoolDiscipline'
  BY <1>1, <1>3 DEF Renew, pools, VaultInv, PoolDiscipline, ClientInUse, LocksHeld, Requesting, At
<1>8. NoRedundantLogin'
  BY <1>1, <1>3 DEF Renew, cached, locks, VaultInv, NoRedundantLogin, LocksHeld, Authenticating, Requesting, At
<1>9. NeverReplayed'
  BY <1>1, <1>3 DEF Renew, VaultInv, NeverReplayed, At
<1>10. ResetRaises'
  BY <1>1, <1>3 DEF Renew, VaultInv, ResetRaises, At
<1> QED
  BY <1>4, <1>5, <1>6, <1>7, <1>8, <1>9, <1>10 DEF VaultInv

LEMMA SetTokenInv ==
    ASSUME TypeOK, VaultInv, NEW c \in Caller, SetToken(c)
    PROVE  TypeOK' /\ VaultInv'
<1> DEFINE change == Asking(c, "read", lookup[c].header)
<1>0. lookup[c] \in Lookup
  BY DEF TypeOK
<1>1. /\ change \in Lookup
      /\ change.at = "queued" /\ change.request = "read" /\ change.unsure = lookup[c].unsure
      /\ change.using = lookup[c].using
  <2>1. "read" \in Requests /\ "renew" \in Requests /\ "login" \in Requests
    BY DEF Requests
  <2>2. lookup[c].header \in Nat \cup {None}
    BY <1>0 DEF TypeOK, Lookup
  <2>3. lookup \in [Caller -> Lookup]
    BY DEF TypeOK
  <2> DEFINE header == lookup[c].header
  <2>4. header \in Nat \cup {None}
    BY <2>2
  <2>5. change = Asking(c, "read", header)
    OBVIOUS
  <2> HIDE DEF header, change
  <2> QED
    BY <2>1, <2>3, <2>4, AskingFacts, <2>5
<1> HIDE DEF change
<1>2. Become(c, change)
  BY DEF SetToken, Receives, change
<1>3. /\ lookup' \in [Caller -> Lookup]
      /\ lookup'[c] = change
      /\ \A d \in Caller \ {c} : lookup'[d] = lookup[d]
  BY <1>1, <1>2, BecomeFacts DEF TypeOK
<1>a. token' \in Nat \cup {None} /\ fresh' \in BOOLEAN /\ renewable' \in BOOLEAN
  BY <1>0 DEF SetToken, Lookup
<1>4. TypeOK'
  BY <1>0, <1>3, <1>a DEF TypeOK, SetToken, Receives, Release, cached, locks, pools, vault
<1>5. LocksHeld'
  BY <1>1, <1>3, CallerAssumption DEF SetToken, Receives, Release, locks, VaultInv, LocksHeld, Authenticating, Requesting, At
<1>6. ClientInUse'
  BY <1>1, <1>3 DEF SetToken, Receives, pools, VaultInv, ClientInUse, At
<1>7. PoolDiscipline'
  BY <1>1, <1>3 DEF SetToken, Receives, pools, VaultInv, PoolDiscipline, ClientInUse, LocksHeld, Requesting, At
<1>8. NoRedundantLogin'
  BY <1>1, <1>3 DEF SetToken, Receives, cached, locks, VaultInv, NoRedundantLogin, LocksHeld, Authenticating, Requesting, At
<1>9. NeverReplayed'
  BY <1>1, <1>3 DEF SetToken, Receives, VaultInv, NeverReplayed, At
<1>10. ResetRaises'
  BY <1>1, <1>3 DEF SetToken, Receives, VaultInv, ResetRaises, At
<1> QED
  BY <1>4, <1>5, <1>6, <1>7, <1>8, <1>9, <1>10 DEF VaultInv

LEMMA LoginInv ==
    ASSUME TypeOK, VaultInv, NEW c \in Caller, Login(c)
    PROVE  TypeOK' /\ VaultInv'
<1> DEFINE change == IF setup.credentials THEN Asking(c, "login", None) ELSE Ended(c, "failed")
<1>0. lookup[c] \in Lookup
  BY DEF TypeOK
<1>1. /\ change \in Lookup
      /\ change.using = lookup[c].using /\ change.unsure = lookup[c].unsure
      /\ IF setup.credentials THEN change.at = "queued" /\ change.request = "login"
                              ELSE change.at = "idle" /\ change.request = lookup[c].request
  <2>1. "login" \in Requests /\ "failed" \in Outcomes
    BY DEF Requests, Outcomes
  <2>2. CASE setup.credentials
    <3>1. change = Asking(c, "login", None)
      BY <2>2
    <3>2. None \in Nat \cup {None}
      OBVIOUS
    <3>3. lookup \in [Caller -> Lookup]
      BY DEF TypeOK
    <3>4. /\ Asking(c, "login", None) \in Lookup
          /\ Asking(c, "login", None).at = "queued"
          /\ Asking(c, "login", None).request = "login"
          /\ Asking(c, "login", None).using = lookup[c].using
          /\ Asking(c, "login", None).unsure = lookup[c].unsure
      BY <2>1, <3>2, <3>3, AskingFacts
    <3> HIDE DEF change
    <3> QED
      BY <2>2, <3>1, <3>4
  <2>3. CASE ~setup.credentials
    BY <2>1, <2>3, EndedFacts DEF TypeOK
  <2> QED
    BY <2>2, <2>3
<1> HIDE DEF change
<1>2. Become(c, change)
  BY DEF Login, change
<1>3. /\ lookup' \in [Caller -> Lookup]
      /\ lookup'[c] = change
      /\ \A d \in Caller \ {c} : lookup'[d] = lookup[d]
  BY <1>1, <1>2, BecomeFacts DEF TypeOK
<1>4. TypeOK'
  BY <1>0, <1>3 DEF TypeOK, Login, Release, cached, locks, pools, vault
<1>5. LocksHeld'
  BY <1>1, <1>3, CallerAssumption DEF Login, Release, locks, VaultInv, LocksHeld, Authenticating, Requesting, At
<1>6. ClientInUse'
  BY <1>1, <1>3 DEF Login, pools, VaultInv, ClientInUse, At
<1>7. PoolDiscipline'
  BY <1>1, <1>3 DEF Login, pools, VaultInv, PoolDiscipline, ClientInUse, LocksHeld, Requesting, At
<1>8. NoRedundantLogin'
  BY <1>1, <1>3 DEF Login, cached, locks, VaultInv, NoRedundantLogin, LocksHeld, Authenticating, Requesting, At
<1>9. NeverReplayed'
  BY <1>1, <1>3 DEF Login, VaultInv, NeverReplayed, At
<1>10. ResetRaises'
  BY <1>1, <1>3 DEF Login, VaultInv, ResetRaises, At
<1> QED
  BY <1>4, <1>5, <1>6, <1>7, <1>8, <1>9, <1>10 DEF VaultInv

LEMMA RenewalRefusedInv ==
    ASSUME TypeOK, VaultInv, NEW c \in Caller, RenewalRefused(c)
    PROVE  TypeOK' /\ VaultInv'
<1> DEFINE change == IF setup.credentials THEN Asking(c, "login", None) ELSE Ended(c, "failed")
<1>0. lookup[c] \in Lookup
  BY DEF TypeOK
<1>1. /\ change \in Lookup
      /\ change.using = lookup[c].using /\ change.unsure = lookup[c].unsure
      /\ IF setup.credentials THEN change.at = "queued" /\ change.request = "login"
                              ELSE change.at = "idle" /\ change.request = lookup[c].request
  <2>1. "login" \in Requests /\ "failed" \in Outcomes
    BY DEF Requests, Outcomes
  <2>2. CASE setup.credentials
    <3>1. change = Asking(c, "login", None)
      BY <2>2
    <3>2. None \in Nat \cup {None}
      OBVIOUS
    <3>3. lookup \in [Caller -> Lookup]
      BY DEF TypeOK
    <3>4. /\ Asking(c, "login", None) \in Lookup
          /\ Asking(c, "login", None).at = "queued"
          /\ Asking(c, "login", None).request = "login"
          /\ Asking(c, "login", None).using = lookup[c].using
          /\ Asking(c, "login", None).unsure = lookup[c].unsure
      BY <2>1, <3>2, <3>3, AskingFacts
    <3> HIDE DEF change
    <3> QED
      BY <2>2, <3>1, <3>4
  <2>3. CASE ~setup.credentials
    BY <2>1, <2>3, EndedFacts DEF TypeOK
  <2> QED
    BY <2>2, <2>3
<1> HIDE DEF change
<1>2. Become(c, change)
  BY DEF RenewalRefused, Receives, change
<1>3. /\ lookup' \in [Caller -> Lookup]
      /\ lookup'[c] = change
      /\ \A d \in Caller \ {c} : lookup'[d] = lookup[d]
  BY <1>1, <1>2, BecomeFacts DEF TypeOK
<1>4. TypeOK'
  BY <1>0, <1>3 DEF TypeOK, RenewalRefused, Receives, Release, cached, locks, pools, vault
<1>5. LocksHeld'
  BY <1>1, <1>3, CallerAssumption DEF RenewalRefused, Receives, Release, locks, VaultInv, LocksHeld, Authenticating, Requesting, At
<1>6. ClientInUse'
  BY <1>1, <1>3 DEF RenewalRefused, Receives, pools, VaultInv, ClientInUse, At
<1>7. PoolDiscipline'
  BY <1>1, <1>3 DEF RenewalRefused, Receives, pools, VaultInv, PoolDiscipline, ClientInUse, LocksHeld, Requesting, At
<1>8. NoRedundantLogin'
  BY <1>1, <1>3 DEF RenewalRefused, Receives, cached, locks, VaultInv, NoRedundantLogin, LocksHeld, Authenticating, Requesting, At
<1>9. NeverReplayed'
  BY <1>1, <1>3 DEF RenewalRefused, Receives, VaultInv, NeverReplayed, At
<1>10. ResetRaises'
  BY <1>1, <1>3 DEF RenewalRefused, Receives, VaultInv, ResetRaises, At
<1> QED
  BY <1>4, <1>5, <1>6, <1>7, <1>8, <1>9, <1>10 DEF VaultInv

LEMMA AuthenticationFailedInv ==
    ASSUME TypeOK, VaultInv, NEW c \in Caller, AuthenticationFailed(c)
    PROVE  TypeOK' /\ VaultInv'
<1> DEFINE change == Ended(c, "failed")
<1>0. lookup[c] \in Lookup
  BY DEF TypeOK
<1>1. /\ change \in Lookup
      /\ change.at = "idle" /\ change.request = lookup[c].request
      /\ change.using = lookup[c].using /\ change.unsure = lookup[c].unsure
  <2>1. "failed" \in Outcomes
    BY DEF Outcomes
  <2> QED
    BY <2>1, EndedFacts DEF TypeOK
<1> HIDE DEF change
<1>2. Become(c, change)
  BY DEF AuthenticationFailed, Receives, change
<1>3. /\ lookup' \in [Caller -> Lookup]
      /\ lookup'[c] = change
      /\ \A d \in Caller \ {c} : lookup'[d] = lookup[d]
  BY <1>1, <1>2, BecomeFacts DEF TypeOK
<1>4. TypeOK'
  BY <1>0, <1>3 DEF TypeOK, AuthenticationFailed, Receives, Release, cached, locks, pools, vault
<1>5. LocksHeld'
  BY <1>1, <1>3, CallerAssumption DEF AuthenticationFailed, Receives, Release, locks, VaultInv, LocksHeld, Authenticating, Requesting, At
<1>6. ClientInUse'
  BY <1>1, <1>3 DEF AuthenticationFailed, Receives, pools, VaultInv, ClientInUse, At, PoolDiscipline
<1>7. PoolDiscipline'
  BY <1>1, <1>3 DEF AuthenticationFailed, Receives, pools, VaultInv, PoolDiscipline, ClientInUse, LocksHeld, Requesting, At
<1>8. NoRedundantLogin'
  BY <1>1, <1>3 DEF AuthenticationFailed, Receives, cached, locks, VaultInv, NoRedundantLogin, LocksHeld, Authenticating, Requesting, At
<1>9. NeverReplayed'
  BY <1>1, <1>3 DEF AuthenticationFailed, Receives, VaultInv, NeverReplayed, At
<1>10. ResetRaises'
  BY <1>1, <1>3 DEF AuthenticationFailed, Receives, VaultInv, ResetRaises, At, NeverReplayed
<1> QED
  BY <1>4, <1>5, <1>6, <1>7, <1>8, <1>9, <1>10 DEF VaultInv

LEMMA LookupFailedInv ==
    ASSUME TypeOK, VaultInv, NEW c \in Caller, LookupFailed(c)
    PROVE  TypeOK' /\ VaultInv'
<1> DEFINE change == Ended(c, "failed")
<1>0. lookup[c] \in Lookup
  BY DEF TypeOK
<1>1. /\ change \in Lookup
      /\ change.at = "idle" /\ change.request = lookup[c].request
      /\ change.using = lookup[c].using /\ change.unsure = lookup[c].unsure
  <2>1. "failed" \in Outcomes
    BY DEF Outcomes
  <2> QED
    BY <2>1, EndedFacts DEF TypeOK
<1> HIDE DEF change
<1>2. Become(c, change)
  BY DEF LookupFailed, Receives, change
<1>3. /\ lookup' \in [Caller -> Lookup]
      /\ lookup'[c] = change
      /\ \A d \in Caller \ {c} : lookup'[d] = lookup[d]
  BY <1>1, <1>2, BecomeFacts DEF TypeOK
<1>4. TypeOK'
  BY <1>0, <1>3 DEF TypeOK, LookupFailed, Receives, Release, cached, locks, pools, vault
<1>5. LocksHeld'
  BY <1>1, <1>3, CallerAssumption DEF LookupFailed, Receives, Release, locks, VaultInv, LocksHeld, Authenticating, Requesting, At
<1>6. ClientInUse'
  BY <1>1, <1>3 DEF LookupFailed, Receives, pools, VaultInv, ClientInUse, At, PoolDiscipline
<1>7. PoolDiscipline'
  BY <1>1, <1>3 DEF LookupFailed, Receives, pools, VaultInv, PoolDiscipline, ClientInUse, LocksHeld, Requesting, At
<1>8. NoRedundantLogin'
  BY <1>1, <1>3 DEF LookupFailed, Receives, cached, locks, VaultInv, NoRedundantLogin, LocksHeld, Authenticating, Requesting, At
<1>9. NeverReplayed'
  BY <1>1, <1>3 DEF LookupFailed, Receives, VaultInv, NeverReplayed, At
<1>10. ResetRaises'
  BY <1>1, <1>3 DEF LookupFailed, Receives, VaultInv, ResetRaises, At, NeverReplayed
<1> QED
  BY <1>4, <1>5, <1>6, <1>7, <1>8, <1>9, <1>10 DEF VaultInv

LEMMA LookupDoneInv ==
    ASSUME TypeOK, VaultInv, NEW c \in Caller, LookupDone(c)
    PROVE  TypeOK' /\ VaultInv'
<1> DEFINE change == Ended(c, lookup[c].answer)
<1>0. lookup[c] \in Lookup
  BY DEF TypeOK
<1>1. /\ change \in Lookup
      /\ change.at = "idle" /\ change.request = lookup[c].request
      /\ change.using = lookup[c].using /\ change.unsure = lookup[c].unsure
  <2>1. lookup[c].answer \in Outcomes
    BY DEF Outcomes, LookupDone, Receives
  <2> QED
    BY <2>1, EndedFacts DEF TypeOK
<1> HIDE DEF change
<1>2. Become(c, change)
  BY DEF LookupDone, Receives, change
<1>3. /\ lookup' \in [Caller -> Lookup]
      /\ lookup'[c] = change
      /\ \A d \in Caller \ {c} : lookup'[d] = lookup[d]
  BY <1>1, <1>2, BecomeFacts DEF TypeOK
<1>4. TypeOK'
  BY <1>0, <1>3 DEF TypeOK, LookupDone, Receives, Release, cached, locks, pools, vault
<1>5. LocksHeld'
  BY <1>1, <1>3, CallerAssumption DEF LookupDone, Receives, Release, locks, VaultInv, LocksHeld, Authenticating, Requesting, At
<1>6. ClientInUse'
  BY <1>1, <1>3 DEF LookupDone, Receives, pools, VaultInv, ClientInUse, At
<1>7. PoolDiscipline'
  BY <1>1, <1>3 DEF LookupDone, Receives, pools, VaultInv, PoolDiscipline, ClientInUse, LocksHeld, Requesting, At
<1>8. NoRedundantLogin'
  BY <1>1, <1>3 DEF LookupDone, Receives, cached, locks, VaultInv, NoRedundantLogin, LocksHeld, Authenticating, Requesting, At
<1>9. NeverReplayed'
  BY <1>1, <1>3 DEF LookupDone, Receives, VaultInv, NeverReplayed, At
<1>10. ResetRaises'
  BY <1>1, <1>3 DEF LookupDone, Receives, VaultInv, ResetRaises, At
<1> QED
  BY <1>4, <1>5, <1>6, <1>7, <1>8, <1>9, <1>10 DEF VaultInv

LEMMA DeniedInv ==
    ASSUME TypeOK, VaultInv, NEW c \in Caller, Denied(c)
    PROVE  TypeOK' /\ VaultInv'
<1> DEFINE change == [lookup[c] EXCEPT !.at = "ensuring", !.again = TRUE]
<1>0. lookup[c] \in Lookup
  BY DEF TypeOK
<1>1. /\ change \in Lookup
      /\ change.at = "ensuring" /\ change.request = lookup[c].request
      /\ change.using = lookup[c].using /\ change.unsure = lookup[c].unsure
  BY <1>0 DEF Lookup, Places
<1> HIDE DEF change
<1>2. Become(c, change)
  BY DEF Denied, Receives, change
<1>3. /\ lookup' \in [Caller -> Lookup]
      /\ lookup'[c] = change
      /\ \A d \in Caller \ {c} : lookup'[d] = lookup[d]
  BY <1>1, <1>2, BecomeFacts DEF TypeOK
<1>4. TypeOK'
  BY <1>0, <1>3 DEF TypeOK, Denied, Receives, Release, cached, locks, pools, vault
<1>5. LocksHeld'
  BY <1>1, <1>3, CallerAssumption DEF Denied, Receives, Release, locks, VaultInv, LocksHeld, Authenticating, Requesting, At
<1>6. ClientInUse'
  BY <1>1, <1>3 DEF Denied, Receives, pools, VaultInv, ClientInUse, At
<1>7. PoolDiscipline'
  BY <1>1, <1>3 DEF Denied, Receives, pools, VaultInv, PoolDiscipline, ClientInUse, LocksHeld, Requesting, At
<1>8. NoRedundantLogin'
  BY <1>1, <1>3 DEF Denied, Receives, cached, locks, VaultInv, NoRedundantLogin, LocksHeld, Authenticating, Requesting, At
<1>9. NeverReplayed'
  BY <1>1, <1>3 DEF Denied, Receives, VaultInv, NeverReplayed, At
<1>10. ResetRaises'
  BY <1>1, <1>3 DEF Denied, Receives, VaultInv, ResetRaises, At
<1> QED
  BY <1>4, <1>5, <1>6, <1>7, <1>8, <1>9, <1>10 DEF VaultInv

LEMMA SendInv ==
    ASSUME TypeOK, VaultInv, NEW c \in Caller, Send(c)
    PROVE  TypeOK' /\ VaultInv'
<1> DEFINE change == [lookup[c] EXCEPT !.at = "sent", !.using = pool]
<1>0. lookup[c] \in Lookup
  BY DEF TypeOK
<1>1. /\ change \in Lookup
      /\ change.at = "sent" /\ change.request = lookup[c].request
      /\ change.using = pool /\ change.unsure = lookup[c].unsure
  <2>1. pool \in Nat
    BY DEF TypeOK
  <2> QED
    BY <1>0, <2>1 DEF Lookup, Places
<1> HIDE DEF change
<1>2. Become(c, change)
  BY DEF Send, change
<1>3. /\ lookup' \in [Caller -> Lookup]
      /\ lookup'[c] = change
      /\ \A d \in Caller \ {c} : lookup'[d] = lookup[d]
  BY <1>1, <1>2, BecomeFacts DEF TypeOK
<1>4. TypeOK'
  BY <1>0, <1>3 DEF TypeOK, Send, Release, cached, locks, pools, vault
<1>5. LocksHeld'
  BY <1>1, <1>3, CallerAssumption DEF Send, Release, locks, VaultInv, LocksHeld, Authenticating, Requesting, At
<1>6. ClientInUse'
  BY <1>1, <1>3 DEF Send, pools, VaultInv, ClientInUse, At
<1>7. PoolDiscipline'
  BY <1>1, <1>3 DEF Send, pools, VaultInv, PoolDiscipline, ClientInUse, LocksHeld, Requesting, At
<1>8. NoRedundantLogin'
  BY <1>1, <1>3 DEF Send, cached, locks, VaultInv, NoRedundantLogin, LocksHeld, Authenticating, Requesting, At
<1>9. NeverReplayed'
  BY <1>1, <1>3 DEF Send, VaultInv, NeverReplayed, At
<1>10. ResetRaises'
  BY <1>1, <1>3 DEF Send, VaultInv, ResetRaises, At
<1> QED
  BY <1>4, <1>5, <1>6, <1>7, <1>8, <1>9, <1>10 DEF VaultInv

LEMMA ResetClientInv ==
    ASSUME TypeOK, VaultInv, NEW c \in Caller, ResetClient(c)
    PROVE  TypeOK' /\ VaultInv'
<1> DEFINE change == IF lookup[c].raising
                        THEN Ended(c, "failed")
                        ELSE [lookup[c] EXCEPT !.at = "pausing", !.attempt = lookup[c].attempt + 1]
<1>0. lookup[c] \in Lookup /\ pool \in Nat /\ \A d \in Caller : lookup[d].using \in Nat
  BY DEF TypeOK, Lookup
<1>a. lookup[c].raising \/ (lookup[c].attempt = 0 /\ ~lookup[c].unsure)
  BY DEF VaultInv, ResetRaises, ResetClient, At
<1>1. /\ change \in Lookup
      /\ change.at = IF lookup[c].raising THEN "idle" ELSE "pausing"
      /\ change.request = lookup[c].request
      /\ change.using = lookup[c].using
      /\ change.unsure => lookup[c].raising
  <2>1. CASE lookup[c].raising
    <3>1. change = Ended(c, "failed") /\ "failed" \in Outcomes
      BY <2>1 DEF Outcomes
    <3>2. lookup \in [Caller -> Lookup]
      BY DEF TypeOK
    <3> HIDE DEF change
    <3> QED
      BY <2>1, <3>1, <3>2, EndedFacts
  <2>2. CASE ~lookup[c].raising
    <3>1. lookup[c].attempt + 1 = 1 /\ ~lookup[c].unsure
      BY <1>a, <2>2
    <3>2. change = [lookup[c] EXCEPT !.at = "pausing", !.attempt = 1]
      BY <2>2, <3>1
    <3>3. 1 \in 0..1 /\ "pausing" \in Places
      BY DEF Places
    <3> HIDE DEF change
    <3> QED
      BY <1>0, <2>2, <3>1, <3>2, <3>3 DEF Lookup
  <2> QED
    BY <2>1, <2>2
<1> HIDE DEF change
<1>2. Become(c, change)
  BY DEF ResetClient, change
<1>3. /\ lookup' \in [Caller -> Lookup]
      /\ lookup'[c] = change
      /\ \A d \in Caller \ {c} : lookup'[d] = lookup[d]
  BY <1>1, <1>2, BecomeFacts DEF TypeOK
<1>4. TypeOK'
  BY <1>3 DEF TypeOK, ResetClient, Release, locks, vault, cached
<1>5. LocksHeld'
  BY <1>0, <1>1, <1>3, CallerAssumption DEF ResetClient, Release, locks, VaultInv, LocksHeld, Authenticating, Requesting, At
<1>6. ClientInUse'
  BY <1>0, <1>1, <1>3 DEF ResetClient, pools, VaultInv, ClientInUse, At
<1>7. PoolDiscipline'
  BY <1>0, <1>1, <1>3 DEF ResetClient, pools, VaultInv, PoolDiscipline, ClientInUse, LocksHeld, Requesting, At
<1>8. NoRedundantLogin'
  BY <1>0, <1>1, <1>3 DEF ResetClient, cached, locks, VaultInv, NoRedundantLogin, LocksHeld, Authenticating, Requesting, At
<1>9. NeverReplayed'
  BY <1>0, <1>1, <1>3 DEF ResetClient, VaultInv, NeverReplayed, At
<1>10. ResetRaises'
  BY <1>0, <1>1, <1>3 DEF ResetClient, VaultInv, ResetRaises, At
<1> QED
  BY <1>4, <1>5, <1>6, <1>7, <1>8, <1>9, <1>10 DEF VaultInv

LEMMA NotSentInv ==
    ASSUME TypeOK, VaultInv, NEW c \in Caller, NotSent(c)
    PROVE  TypeOK' /\ VaultInv'
<1> DEFINE change == Raised(c, TRUE)
           after == [lookup EXCEPT ![c] = change]
<1>0. /\ lookup[c] \in Lookup /\ lookup \in [Caller -> Lookup]
      /\ pool \in Nat /\ faults \in Nat /\ setup.owned \in BOOLEAN
      /\ lookup[c].attempt \in 0..1 /\ \A d \in Caller : lookup[d].using \in Nat
  BY DEF TypeOK, Lookup
<1>1. /\ change \in Lookup
      /\ change.at = (IF setup.owned THEN "resetting" ELSE "idle")
      /\ change.request = lookup[c].request
      /\ change.using = lookup[c].using
      /\ change.unsure = lookup[c].unsure
      /\ change.attempt = lookup[c].attempt
      /\ change.at = "resetting" => (change.raising <=> lookup[c].attempt = 1)
  BY <1>0, RaisedFacts
<1> HIDE DEF change
<1>2. after \in [Caller -> Lookup] /\ after[c] = change /\ \A d \in Caller \ {c} : after[d] = lookup[d]
  BY <1>0, <1>1
<1>a. Fault(1, after)
  BY DEF NotSent, change
<1> HIDE DEF after
<1>3. /\ lookup' \in [Caller -> Lookup] /\ faults' \in Nat
      /\ lookup'[c].at = change.at /\ lookup'[c].request = change.request
      /\ lookup'[c].using = change.using /\ lookup'[c].unsure = change.unsure
      /\ lookup'[c].raising = change.raising /\ lookup'[c].attempt = change.attempt
      /\ \A d \in Caller \ {c} :
            /\ lookup'[d].at = lookup[d].at /\ lookup'[d].request = lookup[d].request
            /\ lookup'[d].using = lookup[d].using /\ lookup'[d].unsure = lookup[d].unsure
            /\ lookup'[d].raising = lookup[d].raising /\ lookup'[d].attempt = lookup[d].attempt
  BY <1>0, <1>2, <1>a, FaultFacts
<1>b. pool' \in Nat /\ open' \in SUBSET Nat
  <2>1. pool + 1 \in Nat /\ open \in SUBSET Nat
    BY <1>0 DEF TypeOK
  <2>2. (pool' = pool + 1 /\ open' = open \cup {pool + 1}) \/ (pool' = pool /\ open' = open)
    BY DEF NotSent, Failed, pools
  <2> QED
    BY <1>0, <2>1, <2>2
<1>c. lock' \in Caller \cup {None} /\ requestLock' \in Caller \cup {None}
  BY DEF TypeOK, NotSent, Failed, Release, locks
<1>4. TypeOK'
  BY <1>3, <1>b, <1>c DEF TypeOK, NotSent, vault, cached
<1>5. LocksHeld'
  BY <1>0, <1>1, <1>3, CallerAssumption DEF NotSent, Failed, locks, Release, locks, VaultInv, LocksHeld, Authenticating, Requesting, At
<1>6. ClientInUse'
  BY <1>0, <1>1, <1>3 DEF NotSent, Failed, locks, pools, VaultInv, ClientInUse, At, PoolDiscipline
<1>7. PoolDiscipline'
  BY <1>0, <1>1, <1>3 DEF NotSent, Failed, locks, pools, VaultInv, PoolDiscipline, ClientInUse, LocksHeld, Requesting, At
<1>8. NoRedundantLogin'
  BY <1>0, <1>1, <1>3 DEF NotSent, Failed, locks, cached, locks, VaultInv, NoRedundantLogin, LocksHeld, Authenticating, Requesting, At
<1>9. NeverReplayed'
  BY <1>0, <1>1, <1>3 DEF NotSent, Failed, locks, VaultInv, NeverReplayed, At
<1>10. ResetRaises'
  BY <1>0, <1>1, <1>3 DEF NotSent, Failed, locks, VaultInv, ResetRaises, At, NeverReplayed
<1> QED
  BY <1>4, <1>5, <1>6, <1>7, <1>8, <1>9, <1>10 DEF VaultInv

LEMMA OutcomeUnknownInv ==
    ASSUME TypeOK, VaultInv, NEW c \in Caller, OutcomeUnknown(c)
    PROVE  TypeOK' /\ VaultInv'
<1> DEFINE change == [Raised(c, FALSE) EXCEPT !.unsure = TRUE]
           after == [lookup EXCEPT ![c] = change]
<1>0. /\ lookup[c] \in Lookup /\ lookup \in [Caller -> Lookup]
      /\ pool \in Nat /\ faults \in Nat /\ setup.owned \in BOOLEAN
      /\ lookup[c].attempt \in 0..1 /\ \A d \in Caller : lookup[d].using \in Nat
  BY DEF TypeOK, Lookup
<1>1. /\ change \in Lookup
      /\ change.at = (IF setup.owned THEN "resetting" ELSE "idle")
      /\ change.request = lookup[c].request
      /\ change.using = lookup[c].using
      /\ change.unsure = TRUE
      /\ change.attempt = lookup[c].attempt
      /\ change.at = "resetting" => (change.raising <=> TRUE)
  <2>1. Raised(c, FALSE) \in Lookup
    BY RaisedFacts
  <2> QED
    BY <2>1, RaisedFacts DEF Lookup
<1> HIDE DEF change
<1>2. after \in [Caller -> Lookup] /\ after[c] = change /\ \A d \in Caller \ {c} : after[d] = lookup[d]
  BY <1>0, <1>1
<1>a. Fault(2, after)
  BY DEF OutcomeUnknown, change
<1> HIDE DEF after
<1>3. /\ lookup' \in [Caller -> Lookup] /\ faults' \in Nat
      /\ lookup'[c].at = change.at /\ lookup'[c].request = change.request
      /\ lookup'[c].using = change.using /\ lookup'[c].unsure = change.unsure
      /\ lookup'[c].raising = change.raising /\ lookup'[c].attempt = change.attempt
      /\ \A d \in Caller \ {c} :
            /\ lookup'[d].at = lookup[d].at /\ lookup'[d].request = lookup[d].request
            /\ lookup'[d].using = lookup[d].using /\ lookup'[d].unsure = lookup[d].unsure
            /\ lookup'[d].raising = lookup[d].raising /\ lookup'[d].attempt = lookup[d].attempt
  BY <1>0, <1>2, <1>a, FaultFacts
<1>b. pool' \in Nat /\ open' \in SUBSET Nat
  <2>1. pool + 1 \in Nat /\ open \in SUBSET Nat
    BY <1>0 DEF TypeOK
  <2>2. (pool' = pool + 1 /\ open' = open \cup {pool + 1}) \/ (pool' = pool /\ open' = open)
    BY DEF OutcomeUnknown, Failed, pools
  <2> QED
    BY <1>0, <2>1, <2>2
<1>c. lock' \in Caller \cup {None} /\ requestLock' \in Caller \cup {None}
  BY DEF TypeOK, OutcomeUnknown, Failed, Release, locks
<1>4. TypeOK'
  BY <1>3, <1>b, <1>c DEF TypeOK, OutcomeUnknown, vault, cached
<1>5. LocksHeld'
  BY <1>0, <1>1, <1>3, CallerAssumption DEF OutcomeUnknown, Failed, locks, Release, locks, VaultInv, LocksHeld, Authenticating, Requesting, At
<1>6. ClientInUse'
  BY <1>0, <1>1, <1>3 DEF OutcomeUnknown, Failed, locks, pools, VaultInv, ClientInUse, At, PoolDiscipline
<1>7. PoolDiscipline'
  BY <1>0, <1>1, <1>3 DEF OutcomeUnknown, Failed, locks, pools, VaultInv, PoolDiscipline, ClientInUse, LocksHeld, Requesting, At
<1>8. NoRedundantLogin'
  BY <1>0, <1>1, <1>3 DEF OutcomeUnknown, Failed, locks, cached, locks, VaultInv, NoRedundantLogin, LocksHeld, Authenticating, Requesting, At
<1>9. NeverReplayed'
  BY <1>0, <1>1, <1>3 DEF OutcomeUnknown, Failed, locks, VaultInv, NeverReplayed, At
<1>10. ResetRaises'
  BY <1>0, <1>1, <1>3 DEF OutcomeUnknown, Failed, locks, VaultInv, ResetRaises, At, NeverReplayed
<1> QED
  BY <1>4, <1>5, <1>6, <1>7, <1>8, <1>9, <1>10 DEF VaultInv

\* Vault's answer: the coroutine's request gets an answer, nothing else of it changes.
LEMMA AnsweredFacts ==
    ASSUME lookup \in [Caller -> Lookup], NEW c \in Caller,
           NEW header \in Nat \cup {None}, NEW answer \in Answers
    PROVE  /\ Answered(c, header, answer) \in [Caller -> Lookup]
           /\ Answered(c, header, answer)[c].at = "answered"
           /\ Answered(c, header, answer)[c].request = lookup[c].request
           /\ Answered(c, header, answer)[c].using = lookup[c].using
           /\ Answered(c, header, answer)[c].unsure = lookup[c].unsure
           /\ Answered(c, header, answer)[c].raising = lookup[c].raising
           /\ Answered(c, header, answer)[c].attempt = lookup[c].attempt
           /\ \A d \in Caller \ {c} : Answered(c, header, answer)[d] = lookup[d]
<1> DEFINE row == [lookup[c] EXCEPT !.at = "answered", !.header = header, !.answer = answer]
<1>1. /\ row \in Lookup /\ row.at = "answered" /\ row.request = lookup[c].request
      /\ row.using = lookup[c].using /\ row.unsure = lookup[c].unsure
      /\ row.raising = lookup[c].raising /\ row.attempt = lookup[c].attempt
  <2>1. lookup[c] \in Lookup /\ "answered" \in Places
    BY DEF Places
  <2> QED
    BY <2>1 DEF Lookup
<1>2. Answered(c, header, answer) = [lookup EXCEPT ![c] = row]
  <2>1. lookup[c] \in Lookup
    OBVIOUS
  <2> QED
    BY <2>1 DEF Answered, Lookup
<1> HIDE DEF row
<1> QED
  BY <1>1, <1>2

\* An answer moves one coroutine from `sent` to `answered`.
LEMMA AnsweredInv ==
    ASSUME TypeOK, VaultInv, NEW c \in Caller, At(c, "sent"),
           lookup' \in [Caller -> Lookup],
           lookup'[c].at = "answered",
           \A d \in Caller \ {c} : lookup'[d].at = lookup[d].at,
           \A d \in Caller :
               /\ lookup'[d].request = lookup[d].request
               /\ lookup'[d].using = lookup[d].using /\ lookup'[d].unsure = lookup[d].unsure
               /\ lookup'[d].raising = lookup[d].raising /\ lookup'[d].attempt = lookup[d].attempt,
           UNCHANGED <<setup, cached, locks, pools>>
    PROVE  VaultInv'
<1>1. LocksHeld'
  BY DEF locks, VaultInv, LocksHeld, Authenticating, Requesting, At
<1>2. ClientInUse'
  BY DEF pools, VaultInv, ClientInUse, At
<1>3. PoolDiscipline'
  BY DEF pools, VaultInv, PoolDiscipline, At
<1>4. NoRedundantLogin'
  BY DEF cached, VaultInv, NoRedundantLogin, Authenticating, Requesting, At
<1>5. NeverReplayed'
  BY DEF VaultInv, NeverReplayed, At
<1>6. ResetRaises'
  BY DEF VaultInv, ResetRaises, At
<1> QED
  BY <1>1, <1>2, <1>3, <1>4, <1>5, <1>6 DEF VaultInv

LEMMA AnswerInv ==
    ASSUME TypeOK, VaultInv, NEW c \in Caller, Answer(c)
    PROVE  TypeOK' /\ VaultInv'
<1>1. /\ lookup \in [Caller -> Lookup] /\ lookup[c] \in Lookup
      /\ issued \in Nat /\ lookup[c].header \in Nat \cup {None}
  BY DEF TypeOK, Lookup
<1>2. PICK header \in Nat \cup {None}, answer \in Answers : lookup' = Answered(c, header, answer)
  <2>1. {"granted", "unusable", "found", "missing", "denied"} \subseteq Answers
    BY DEF Answers
  <2>2. issued + 1 \in Nat
    BY <1>1
  <2>3. CASE lookup[c].request = "login"
    BY <2>1, <2>2, <2>3 DEF Answer
  <2>4. CASE lookup[c].request = "renew"
    <3>1. lookup' = Answered(c, lookup[c].header, "granted") \/ lookup' = Answered(c, lookup[c].header, "unusable")
      BY <2>4 DEF Answer
    <3> QED
      BY <1>1, <2>1, <3>1
  <2>5. CASE lookup[c].request = "read"
    <3>1. \E answer \in {"found", "missing", "denied"} : lookup' = Answered(c, lookup[c].header, answer)
      BY <2>5 DEF Answer
    <3> QED
      BY <1>1, <2>1, <3>1
  <2> QED
    BY <2>3, <2>4, <2>5 DEF Answer
<1>3. /\ lookup' \in [Caller -> Lookup]
      /\ lookup'[c].at = "answered"
      /\ lookup'[c].request = lookup[c].request
      /\ lookup'[c].using = lookup[c].using /\ lookup'[c].unsure = lookup[c].unsure
      /\ lookup'[c].raising = lookup[c].raising /\ lookup'[c].attempt = lookup[c].attempt
      /\ \A d \in Caller \ {c} : lookup'[d] = lookup[d]
  BY <1>1, <1>2, AnsweredFacts
<1>4. issued' \in Nat /\ valid' \in SUBSET Nat
  <2>1. (issued' = issued + 1 /\ valid' = valid \cup {issued + 1}) \/ (issued' = issued /\ valid' = valid)
    BY DEF Answer, vault
  <2>2. issued + 1 \in Nat /\ valid \in SUBSET Nat
    BY <1>1 DEF TypeOK
  <2>3. valid \cup {issued + 1} \in SUBSET Nat
    BY <2>2
  <2> QED
    BY <1>1, <2>1, <2>2, <2>3
<1>5. At(c, "sent") /\ UNCHANGED <<setup, cached, locks, pools, lookups, faults>>
  BY DEF Answer
<1>6. TypeOK'
  BY <1>3, <1>4, <1>5 DEF TypeOK, cached, locks, pools
<1>7. VaultInv'
  BY <1>3, <1>5, AnsweredInv
<1> QED
  BY <1>6, <1>7

LEMMA AnswerBadlyInv ==
    ASSUME TypeOK, VaultInv, NEW c \in Caller, AnswerBadly(c)
    PROVE  TypeOK' /\ VaultInv'
<1>1. /\ lookup \in [Caller -> Lookup] /\ lookup[c] \in Lookup
      /\ faults \in Nat /\ lookup[c].header \in Nat \cup {None}
  BY DEF TypeOK, Lookup
<1>2. PICK answer \in {"unusable", "invalid"} : Fault(2, Answered(c, lookup[c].header, answer))
  BY DEF AnswerBadly
<1> DEFINE after == Answered(c, lookup[c].header, answer)
<1>3. /\ after \in [Caller -> Lookup]
      /\ after[c].at = "answered"
      /\ after[c].request = lookup[c].request
      /\ after[c].using = lookup[c].using /\ after[c].unsure = lookup[c].unsure
      /\ after[c].raising = lookup[c].raising /\ after[c].attempt = lookup[c].attempt
      /\ \A d \in Caller \ {c} : after[d] = lookup[d]
  <2>1. answer \in Answers
    BY <1>2 DEF Answers
  <2> QED
    BY <1>1, <2>1, AnsweredFacts
<1>4. Fault(2, after)
  BY <1>2
<1> HIDE DEF after
<1>5. /\ lookup' \in [Caller -> Lookup] /\ faults' \in Nat
      /\ \A d \in Caller :
            /\ lookup'[d].at = after[d].at /\ lookup'[d].request = after[d].request
            /\ lookup'[d].using = after[d].using /\ lookup'[d].unsure = after[d].unsure
            /\ lookup'[d].raising = after[d].raising /\ lookup'[d].attempt = after[d].attempt
  BY <1>1, <1>3, <1>4, FaultFacts
<1>6. At(c, "sent") /\ UNCHANGED <<setup, cached, locks, pools, vault, lookups>>
  BY DEF AnswerBadly
<1>7. TypeOK'
  BY <1>5, <1>6 DEF TypeOK, cached, locks, pools, vault
<1>8. VaultInv'
  BY <1>3, <1>5, <1>6, AnsweredInv
<1> QED
  BY <1>7, <1>8

\* The passing of time and a revocation change nothing that matters but `fresh`.
LEMMA RevokeInv ==
    ASSUME TypeOK, VaultInv, NEW t \in valid, Revoke(t)
    PROVE  TypeOK' /\ VaultInv'
<1>1. lookup \in [Caller -> Lookup] /\ faults \in Nat /\ valid' \in SUBSET Nat
  BY DEF TypeOK, Revoke
<1>2. Fault(1, lookup) /\ UNCHANGED <<setup, cached, locks, pools, issued, lookups>>
  BY DEF Revoke
<1>3. /\ lookup' \in [Caller -> Lookup] /\ faults' \in Nat
      /\ \A d \in Caller :
            /\ lookup'[d].at = lookup[d].at /\ lookup'[d].request = lookup[d].request
            /\ lookup'[d].using = lookup[d].using /\ lookup'[d].unsure = lookup[d].unsure
            /\ lookup'[d].raising = lookup[d].raising /\ lookup'[d].attempt = lookup[d].attempt
  BY <1>1, <1>2, FaultFacts
<1>4. TypeOK'
  BY <1>1, <1>2, <1>3 DEF TypeOK, cached, locks, pools
<1>5. LocksHeld'
  BY <1>2, <1>3, CallerAssumption DEF Revoke, Release, locks, VaultInv, LocksHeld, Authenticating, Requesting, At
<1>6. ClientInUse'
  BY <1>2, <1>3 DEF Revoke, pools, VaultInv, ClientInUse, At
<1>7. PoolDiscipline'
  BY <1>2, <1>3 DEF Revoke, pools, VaultInv, PoolDiscipline, ClientInUse, LocksHeld, Requesting, At
<1>8. NoRedundantLogin'
  BY <1>2, <1>3 DEF Revoke, cached, locks, VaultInv, NoRedundantLogin, LocksHeld, Authenticating, Requesting, At
<1>9. NeverReplayed'
  BY <1>2, <1>3 DEF Revoke, VaultInv, NeverReplayed, At
<1>10. ResetRaises'
  BY <1>2, <1>3 DEF Revoke, VaultInv, ResetRaises, At
<1> QED
  BY <1>4, <1>5, <1>6, <1>7, <1>8, <1>9, <1>10 DEF VaultInv

LEMMA AgeInv ==
    ASSUME TypeOK, VaultInv, Age
    PROVE  TypeOK' /\ VaultInv'
<1>3. UNCHANGED <<setup, token, renewable, locks, pools, lookup, vault, lookups, faults>> /\ fresh' = FALSE
  BY DEF Age
<1>4. TypeOK'
  BY <1>3 DEF TypeOK, locks, pools, vault
<1>5. LocksHeld'
  BY <1>3, CallerAssumption DEF Age, Release, locks, VaultInv, LocksHeld, Authenticating, Requesting, At
<1>6. ClientInUse'
  BY <1>3 DEF Age, pools, VaultInv, ClientInUse, At
<1>7. PoolDiscipline'
  BY <1>3 DEF Age, pools, VaultInv, PoolDiscipline, ClientInUse, LocksHeld, Requesting, At
<1>8. NoRedundantLogin'
  BY <1>3 DEF Age, cached, locks, VaultInv, NoRedundantLogin, LocksHeld, Authenticating, Requesting, At
<1>9. NeverReplayed'
  BY <1>3 DEF Age, VaultInv, NeverReplayed, At
<1>10. ResetRaises'
  BY <1>3 DEF Age, VaultInv, ResetRaises, At
<1> QED
  BY <1>4, <1>5, <1>6, <1>7, <1>8, <1>9, <1>10 DEF VaultInv

LEMMA CloseInv ==
    ASSUME TypeOK, VaultInv, Close
    PROVE  TypeOK' /\ VaultInv'
<1>3. /\ UNCHANGED <<setup, cached, locks, pool, lookup, vault, lookups, faults>>
      /\ open' = open \ {pool} /\ setup.owned
      /\ \A c \in Caller : lookup[c].at = "idle"
  BY DEF Close, At
<1>4. TypeOK'
  BY <1>3 DEF TypeOK, cached, locks, vault
<1>5. LocksHeld'
  BY <1>3, CallerAssumption DEF Close, Release, locks, VaultInv, LocksHeld, Authenticating, Requesting, At
<1>6. ClientInUse'
  BY <1>3 DEF Close, pools, VaultInv, ClientInUse, At
<1>7. PoolDiscipline'
  BY <1>3 DEF Close, pools, VaultInv, PoolDiscipline, ClientInUse, LocksHeld, Requesting, At
<1>8. NoRedundantLogin'
  BY <1>3 DEF Close, cached, locks, VaultInv, NoRedundantLogin, LocksHeld, Authenticating, Requesting, At
<1>9. NeverReplayed'
  BY <1>3 DEF Close, VaultInv, NeverReplayed, At
<1>10. ResetRaises'
  BY <1>3 DEF Close, VaultInv, ResetRaises, At
<1> QED
  BY <1>4, <1>5, <1>6, <1>7, <1>8, <1>9, <1>10 DEF VaultInv

LEMMA StutterInv ==
    ASSUME TypeOK, VaultInv, UNCHANGED vars
    PROVE  TypeOK' /\ VaultInv'
<1>3. UNCHANGED <<setup, cached, locks, pools, lookup, vault, lookups, faults>>
  BY DEF vars
<1>4. TypeOK'
  BY <1>3 DEF TypeOK, cached, locks, pools, vault
<1>5. LocksHeld'
  BY <1>3, CallerAssumption DEF Release, locks, VaultInv, LocksHeld, Authenticating, Requesting, At
<1>6. ClientInUse'
  BY <1>3 DEF pools, VaultInv, ClientInUse, At
<1>7. PoolDiscipline'
  BY <1>3 DEF pools, VaultInv, PoolDiscipline, ClientInUse, LocksHeld, Requesting, At
<1>8. NoRedundantLogin'
  BY <1>3 DEF cached, locks, VaultInv, NoRedundantLogin, LocksHeld, Authenticating, Requesting, At
<1>9. NeverReplayed'
  BY <1>3 DEF VaultInv, NeverReplayed, At
<1>10. ResetRaises'
  BY <1>3 DEF VaultInv, ResetRaises, At
<1> QED
  BY <1>4, <1>5, <1>6, <1>7, <1>8, <1>9, <1>10 DEF VaultInv

-----------------------------------------------------------------------------
(* The theorems. *)

\* The inductive invariant, and the types of the variables, hold in every
\* reachable state, whatever fails and however many coroutines there are.
THEOREM VaultInvariance == Spec => [](TypeOK /\ VaultInv)
<1>1. Init => TypeOK /\ VaultInv
  BY InitInv
<1>2. TypeOK /\ VaultInv /\ [Next]_vars => (TypeOK /\ VaultInv)'
  <2> SUFFICES ASSUME TypeOK, VaultInv, [Next]_vars PROVE TypeOK' /\ VaultInv'
    OBVIOUS
  <2>1. ASSUME NEW c \in Caller, Project(c) PROVE TypeOK' /\ VaultInv'
    BY <2>1, ProjectInv
  <2>2. ASSUME NEW c \in Caller, Ensure(c) PROVE TypeOK' /\ VaultInv'
    BY <2>2, UseTokenInv, RenewInv, LoginInv DEF Ensure
  <2>3. ASSUME NEW c \in Caller, Send(c) \/ ResetClient(c) PROVE TypeOK' /\ VaultInv'
    BY <2>3, SendInv, ResetClientInv
  <2>4. ASSUME NEW c \in Caller, Receive(c) PROVE TypeOK' /\ VaultInv'
    BY <2>4, SetTokenInv, RenewalRefusedInv, AuthenticationFailedInv, DeniedInv, LookupFailedInv,
       LookupDoneInv DEF Receive
  <2>5. ASSUME NEW c \in Caller, Transport(c) PROVE TypeOK' /\ VaultInv'
    BY <2>5, AnswerInv, AnswerBadlyInv, NotSentInv, OutcomeUnknownInv DEF Transport
  <2>6. ASSUME NEW t \in valid, Revoke(t) PROVE TypeOK' /\ VaultInv'
    BY <2>6, RevokeInv
  <2>7. CASE Age \/ Close
    BY <2>7, AgeInv, CloseInv
  <2>8. CASE UNCHANGED vars
    BY <2>8, StutterInv
  <2> QED
    BY <2>1, <2>2, <2>3, <2>4, <2>5, <2>6, <2>7, <2>8 DEF Next, Goes
<1> QED
  BY <1>1, <1>2, PTL DEF Spec

\* Locks are held by coroutines or by nobody, and every coroutine is at one of
\* the awaits of project(), with a request, a token and an HTTP client to match.
THEOREM VaultTyped == Spec => []TypeOK
BY VaultInvariance, PTL

\* No HTTP client is used after it was closed, replaced clients are closed, and
\* an injected client is left alone.
THEOREM PoolDisciplineHolds == Spec => []PoolDiscipline
BY VaultInvariance, PTL DEF VaultInv

\* No coroutine renews or logs in while a usable token is cached.
THEOREM NoRedundantLoginHolds == Spec => []NoRedundantLogin
BY VaultInvariance, PTL DEF VaultInv

\* After a request whose outcome is unknown a lookup sends nothing more.
THEOREM NeverReplayedHolds == Spec => []NeverReplayed
BY VaultInvariance, PTL DEF VaultInv
=============================================================================
