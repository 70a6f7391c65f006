---------------------------- MODULE MCCoreLedger ----------------------------
(* Instances of CoreLedger. *)
EXTENDS CoreLedger

CONSTANTS t1, t2, k1

MCThreads == {t1, t2}

\* The default rule, and one that lets low risks be carried out with an approval.
MCRules ==
    {[types |-> {"note", "move"}, risk |-> 1, modes |-> {"replay", "shadow", "copilot"},
      reversible |-> FALSE, approvals |-> {}],
     [types |-> {"move"}, risk |-> 1, modes |-> {"shadow", "copilot"},
      reversible |-> TRUE, approvals |-> {"operations"}]}

\* A claim of this scope, and two pieces of evidence: the second is of another.
Home == <<"acme", "p1">>
Away == <<"acme", "p2">>
OldClaim == <<0, "claim", 1>>
OldEvidence(i) == <<0, "evidence", i>>
MCStored ==
    [c \in {"claims", "evidence", "verifications", "actions", "policy_decisions", "outcomes"} |->
        CASE c = "claims" ->
                << [scope |-> Home, id |-> OldClaim, about |-> << >>, state |-> "proposed",
                    refs |-> {}] >>
          [] c = "evidence" ->
                [i \in 1..2 |-> [scope |-> IF i = 1 THEN Home ELSE Away, id |-> OldEvidence(i),
                                 about |-> << >>, state |-> "registered", refs |-> {}]]
          [] OTHER -> << >>]

-----------------------------------------------------------------------------
(* The core router takes tokens, the others an API key: that of HAV stands  *)
(* for one verifier, and the GRDI router trusts the headers behind its key. *)
Person(subject, role, scope) == [subject |-> subject, role |-> role, scope |-> scope]

KeyRouter(trusted) ==
    [environment |-> "staging", bearer |-> FALSE, now |-> 100, issuer |-> "", audience |-> "",
     key |-> "secret", devKey |-> "", open |-> FALSE, trusted |-> trusted,
     keyIdentity |-> Person("api-key-client", "verifier", Home),
     devIdentity |-> Person("dev-client", "verifier", Home)]
MCAuth ==
    [router \in {"core", "hav", "grdi"} |->
        CASE router = "core" -> [KeyRouter(FALSE) EXCEPT !.bearer = TRUE, !.issuer = "idp"]
          [] router = "hav" -> KeyRouter(FALSE)
          [] router = "grdi" -> KeyRouter(TRUE)]

NoToken == [signed |-> FALSE, since |-> 0, until |-> 0, issuer |-> "", audience |-> "",
            subject |-> "", role |-> "viewer", scope |-> <<"", "">>]
NoHeaders == Person("api-client", "admin", <<"default", "default">>)
Token(role, until, scope) ==
    [token |-> [NoToken EXCEPT !.signed = TRUE, !.until = until, !.issuer = "idp",
                               !.subject = role, !.role = role, !.scope = scope],
     key |-> "", headers |-> NoHeaders]
As(role) == Token(role, 80, Home)    \* expired, but within the leeway
Key(subject, role, scope) ==
    [token |-> NoToken, key |-> "secret", headers |-> Person(subject, role, scope)]

Ask(op, from, key) == [op |-> op, from |-> from, key |-> key]
VerifyRequest(key, result, refs) ==
    [op |-> "verify", from |-> As("verifier"), key |-> key, claim |-> OldClaim,
     result |-> result, refs |-> refs]
\* Over HTTP there is no executor; a program that embeds the service may pass one.
RunRequest(key, claims, type, mode, reversible, approvals, executor) ==
    [op |-> "run", from |-> As("operator"), key |-> key, claims |-> claims,
     result |-> "verified", type |-> type, risk |-> 1, reversible |-> reversible,
     mode |-> mode, approvals |-> approvals, executor |-> executor]
\* Over HTTP the governance is "APPROVED", which the sandbox does not accept.
SandboxRequest(approvals, governance, readiness, isolated) ==
    [op |-> "sandbox", from |-> As("operator"), key |-> NoKey, type |-> "inspect",
     approvals |-> approvals, reversible |-> TRUE, governance |-> governance,
     readiness |-> readiness, isolated |-> isolated]
HavRequest(key, available, value, required) ==
    [op |-> "hav", from |-> Key("", "", Home), key |-> key, agent |-> "agent",
     state |-> [available |-> available,
                facts |-> IF available
                          THEN [i \in 1..2 |-> [topic |-> IF i = 1 THEN "codeql_status" ELSE "tests_status",
                                                  value |-> value, required |-> required]]
                          ELSE << >>],
     claims |-> << [topic |-> "all_required_checks_passed", value |-> "true", critical |-> TRUE] >>]

\* Home has an envelope, its decision and a plan; Away has nothing.
OldRow(coll, id) == [coll |-> coll, id |-> id, scope |-> Home, by |-> 0, key |-> NoKey]
OldGrdi(kind) == <<0, kind, 1>>
OldReplay == <<"replay", OldGrdi("plan"), FALSE, FALSE>>
MCDecided ==
    {OldRow("envelopes", OldGrdi("envelope")), OldRow("decisions", OldGrdi("decision")),
     OldRow("plans", OldGrdi("plan"))}
GrdiRequest(op, who, scope, key) ==
    [op |-> op, from |-> Key(who, "verifier", scope), key |-> key,
     envelope |-> OldGrdi("envelope"), decision |-> OldGrdi("decision"),
     plan |-> OldGrdi("plan"), baseline |-> OldReplay, candidate |-> OldReplay]

MCRequests ==
    {Ask("claim", As("operator"), k1), Ask("snapshot", As("viewer"), NoKey),
     Ask("claim", Token("operator", 60, Home), NoKey),
     Ask("claim", Token("operator", 80, <<"acme", "">>), NoKey),
     VerifyRequest(NoKey, "verified", {OldEvidence(1)}),
     VerifyRequest(k1, "refuted", {OldEvidence(2)}),
     VerifyRequest(k1, "refuted", {<<0, "evidence", 3>>}),
     RunRequest(k1, TRUE, "note", "shadow", TRUE, {}, FALSE),
     RunRequest(NoKey, FALSE, "move", "copilot", TRUE, {"operations"}, TRUE),
     RunRequest(NoKey, FALSE, "move", "copilot", FALSE, {"operations"}, TRUE),
     RunRequest(NoKey, FALSE, "move", "copilot", TRUE, {}, TRUE),
     HavRequest(k1, TRUE, "passed", TRUE), HavRequest(k1, TRUE, "failed", TRUE),
     HavRequest(NoKey, TRUE, "passed", FALSE),
     SandboxRequest(<<"ann", "bob">>, "APPROVED", "pilot_ready", FALSE),
     SandboxRequest(<<"ann", "bob">>, "ACCEPT", "shadow_ready", TRUE),
     SandboxRequest(<<"ann", "ann">>, "ACCEPT", "shadow_ready", FALSE)}
    \cup {GrdiRequest(op, "ann", Home, k1) :
              op \in {"authorize", "plan", "simulate", "outcome", "replay", "compare"}}
    \cup {GrdiRequest("envelope", "ann", Home, k1), GrdiRequest("envelope", "bob", Home, k1),
          GrdiRequest("envelope", "ann", Away, k1), GrdiRequest("plan", "ann", Away, k1),
          GrdiRequest("simulate", "bob", Home, NoKey)}

MCSqliteRequests ==
    {Ask("evidence", As("operator"), NoKey),
     VerifyRequest(NoKey, "partially_verified", {OldEvidence(1)}),
     VerifyRequest(NoKey, "verified", {OldEvidence(1)})}
=============================================================================
