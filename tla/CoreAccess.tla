----------------------------- MODULE CoreAccess -----------------------------
(***************************************************************************)
(* Who a request comes from and what it may ask: the dependencies that     *)
(* auth_deps.py builds for a router, the tokens of auth.py and the roles   *)
(* of security.py.  A principal has a subject, a role and a scope, which   *)
(* is a tenant and a project; "" is a claim or a header that is missing.   *)
(***************************************************************************)
EXTENDS Integers

Roles == {"viewer", "operator", "verifier", "admin"}

\* _PERMISSIONS; the admin has them all.
Permissions(role) ==
    LET operator == {"read", "claim:create", "evidence:create", "runtime:run",
                     "grdi:create", "grdi:plan"}
        verifier == operator \cup
                    {"verification:create", "hav:verify", "grdi:authorize", "grdi:simulate",
                     "grdi:record_outcome", "grdi:replay", "grdi:compare"}
    IN CASE role = "viewer" -> {"read"}
         [] role = "operator" -> operator
         [] role \in {"verifier", "admin"} -> verifier
         [] OTHER -> {}

\* The request is refused, with 401, 403 or 503: nobody may do anything.
Nobody == [subject |-> "", role |-> "none", scope |-> <<"", "">>]

Leeway == 30

\* validate: signature, times, and issuer and audience where they are configured.
TokenHolds(auth, token) ==
    /\ token.signed
    /\ auth.now <= token.until + Leeway
    /\ token.since <= auth.now + Leeway
    /\ auth.issuer \in {"", token.issuer}
    /\ auth.audience \in {"", token.audience}

\* principal_from_claims: the headers fill in a tenant or a project that the
\* token does not name, if they are trusted.
FromClaims(token, headers, trusted) ==
    LET scope == [i \in 1..2 |-> IF token.scope[i] = "" /\ trusted THEN headers.scope[i]
                                 ELSE token.scope[i]]
    IN IF token.role \notin Roles \/ \E i \in 1..2 : scope[i] = "" THEN Nobody
       ELSE [subject |-> token.subject, role |-> token.role, scope |-> scope]

\* Behind a key: who the headers name, if they are trusted, or whom the key stands for.
Identified(auth, headers, identity) ==
    IF ~auth.trusted THEN identity
    ELSE IF headers.role \in Roles
         THEN [subject |-> headers.subject, role |-> headers.role, scope |-> headers.scope]
         ELSE Nobody

\* principal.  A router with tokens does not look at the API key, and one with an
\* API key does not look at the key of developers.
Principal(auth, ask) ==
    IF auth.bearer
    THEN IF TokenHolds(auth, ask.token)
         THEN FromClaims(ask.token, ask.headers, auth.trusted) ELSE Nobody
    ELSE IF auth.key # ""
    THEN IF ask.key = auth.key
         THEN Identified(auth, ask.headers, auth.keyIdentity) ELSE Nobody
    ELSE IF /\ auth.environment \notin {"staging", "production"}
            /\ (auth.devKey # "" /\ ask.key = auth.devKey) \/ auth.open
    THEN Identified(auth, ask.headers, auth.devIdentity)
    ELSE Nobody
=============================================================================
