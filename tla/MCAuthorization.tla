-------------------------- MODULE MCAuthorization ---------------------------
(***************************************************************************)
(* A manifest in which every check of authorize can fail, and one variant  *)
(* of it for each check of Manifest.sign: two rules share an origin and    *)
(* overlap, one credential is scoped to the first of them, one is a canary,*)
(* one has no secret.                                                      *)
(***************************************************************************)
EXTENDS Authorization

Key(id, material) == [keyId |-> id, key |-> material]

Criteria ==
    [max_event_payload_bytes |-> 1, max_requests_per_window |-> 1,
     max_admitted_requests |-> 2, max_inflight_requests |-> 2,
     max_queued_events |-> 3, max_total_events |-> 3]

Rule(id, shapes, max) ==
    [id |-> id, host |-> "a", port |-> 443, shapes |-> shapes, pins |-> {"pin"},
     path_prefixes |-> {<<"/", "v">>}, max_requests |-> max]

Credential(id, ref, canary) ==
    [id |-> id, broker_ref |-> ref, audience |-> "a", rules |-> <<1>>,
     expires_at |-> 1, max_uses |-> 1, is_canary |-> canary]

HopBody ==
    [run_id |-> "run", provider_id |-> 1, provider_key_id |-> "provider",
     issued_at |-> 0, expires_at |-> 2, evidence |-> <<1>>, assertions |-> {TRUE}]

Hop == SignHop(HopBody, "providerKey", Key("provider", "providerKey"))

HopWith(body) == SignHop(body, "providerKey", Key("provider", "providerKey"))

Base ==
    [run_id |-> "run", issued_at |-> 0, not_before |-> 0, expires_at |-> 2,
     operator_key_id |-> "operator", gateway_key |-> Key("gateway", GatewayKey),
     supervisor_key |-> Key("supervisor", "s"), witness_key |-> Key("witness", "w"),
     allowed_egress |-> <<Rule(1, {"get"}, 2), Rule(2, {"get", "put"}, 1)>>,
     credentials |-> <<Credential(1, "key", FALSE), Credential(2, "tripwire", TRUE),
                       Credential(3, "lost", FALSE)>>,
     second_hops |-> <<Hop>>, kill_criteria |-> Criteria]

\* What an operator may try to sign: each variant breaks one check, or none.
Bodies ==
    {Base,
     [Base EXCEPT !.second_hops = <<>>],
     [Base EXCEPT !.second_hops = <<HopWith([HopBody EXCEPT !.expires_at = 3])>>],
     [Base EXCEPT !.expires_at = 1, !.credentials[3].is_canary = TRUE],
     [Base EXCEPT !.allowed_egress[1].path_prefixes = {<<"/">>},
                  !.allowed_egress[2].path_prefixes = {<<"/", "v", "/">>}],
     [Base EXCEPT !.allowed_egress[1].path_prefixes = {<<"/", "v", "/", ".", ".">>}],
     [Base EXCEPT !.second_hops = <<HopWith([HopBody EXCEPT !.expires_at = 1])>>],
     [Base EXCEPT !.second_hops = <<HopWith([HopBody EXCEPT !.issued_at = 1])>>],
     [Base EXCEPT !.second_hops = <<HopWith([HopBody EXCEPT !.run_id = "other"])>>],
     [Base EXCEPT !.second_hops = <<HopWith([HopBody EXCEPT !.evidence = <<>>])>>],
     [Base EXCEPT !.second_hops = <<HopWith([HopBody EXCEPT !.assertions = {TRUE, FALSE}])>>],
     [Base EXCEPT !.second_hops = <<SignHop(HopBody, "otherKey", Key("provider", "providerKey"))>>],
     [Base EXCEPT !.second_hops = <<[Hop EXCEPT !.body.expires_at = 3]>>],
     [Base EXCEPT !.second_hops = <<Hop, Hop>>],
     [Base EXCEPT !.not_before = 2],
     [Base EXCEPT !.issued_at = 1],
     [Base EXCEPT !.witness_key = Key("gateway", "w")],
     [Base EXCEPT !.credentials[1].audience = "b"],
     [Base EXCEPT !.credentials[1].rules = <<3>>],
     [Base EXCEPT !.credentials[1].expires_at = 3],
     [Base EXCEPT !.allowed_egress[1].pins = {}],
     [Base EXCEPT !.allowed_egress[2].id = 1],
     [Base EXCEPT !.kill_criteria.max_queued_events = 4]}

MCManifests == {SignManifest(b, OperatorKey) : b \in {b \in Bodies : Signable(b)}}

Get(request, host, port, credential) ==
    [request |-> request, host |-> host, port |-> port, shape |-> "get",
     path |-> <<"/", "v">>, credential |-> credential]

\* The paths that Action lets through.
MCPaths ==
    {p \in {<<"/">>, <<"/", "v", "x">>, <<"/", "v", "/">>, <<"/", "v", "/", "x">>,
            <<"/", "v", "/", ".", ".">>, <<"/", "/", "v">>, <<"v">>} :
        path_is_unambiguous(p)}

MCActions ==
    {Get(1, "a", 443, g) : g \in 0..4}
    \cup {[Get(1, "a", 443, 0) EXCEPT !.path = p] : p \in MCPaths}
    \cup {Get(2, "a", 443, 1), Get(1, "b", 443, 1), Get(1, "a", 80, 1)}
    \cup {[Get(1, "a", 443, g) EXCEPT !.shape = "put"] : g \in {0, 1}}

\* The same gateway allowed request 1 in another run; another key signed that it
\* is allowed in this one.
MCOther ==
    LET other == [Base EXCEPT !.run_id = "other"]
        body(m) ==
            [run_id |-> m.run_id, manifest_hash |-> ManifestHash(m), request_id |-> 1,
             action_sha256 |-> ActionDigest(CHOOSE a \in MCActions : a.request = 1),
             gateway_key_id |-> "gateway", decided |-> 0, verdict |-> "ALLOW",
             hard_violation |-> FALSE, matched_rule_id |-> 1,
             authorization_id |-> "elsewhere", expires |-> 1]
    IN  {SignDecision(body(other), GatewayKey), SignDecision(body(Base), "otherKey")}
=============================================================================
