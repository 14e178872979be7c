-------------------------- MODULE MCAuthenticator --------------------------
(* Instances of the authenticator for TLC. *)
EXTENDS AuthenticatorProperties, TLC

CONSTANTS h1, h2, n1, r1, x, y

MCMessage(r, n, c, t, signed) ==
    [repository |-> r, nonce |-> n, content |-> c, timestamp |-> t, signed |-> signed]

\* The time stamps that are fresh at some time.
Stamps == -MaxAge..MaxTime + MaxAge

\* One nonce used for two contents, a request without a nonce, one badly signed.
\* One of the requests without a nonce is fresh at any time; their time stamps
\* are used for nothing else.
OneNonce ==
    {MCMessage(r1, n1, c, t, TRUE) : c \in {x, y}, t \in Stamps}
        \cup {MCMessage(r1, None, x, t, TRUE) : t \in {0, 3}}
        \cup {MCMessage(r1, n1, x, 0, FALSE)}

Handlers == Permutations(Handler)
=============================================================================
