--------------------------- MODULE Authorization ----------------------------
(***************************************************************************)
(* From the operator's manifest to the side effect: the gateway signs what *)
(* the policy decides (app/gateway.py), the executor checks that the       *)
(* decision it is shown is for the action it is shown, and the broker      *)
(* releases the secret (app/executor.py).  The executor may be shown any   *)
(* action with any decision, also one this gateway or another one signed   *)
(* for another run.  Evidence, kills and leases are in Containment.        *)
(***************************************************************************)
EXTENDS Policy

CONSTANTS
    Ttl,             \* authorization_ttl_ns
    OperatorKey, GatewayKey,     \* key material of operator and gateway
    Secrets,         \* the broker references for which a secret is stored
    OtherDecisions   \* decisions signed in other runs

VARIABLES
    decision,        \* the decision signed for each caller
    used,            \* authorization ids that begin_authorized consumed
    effects          \* what reached the transport

authorizationVars == <<policyVars, decision, used, effects>>

None       == "None"
NoDecision == [verdict |-> None]
Raised     == [verdict |-> "raised"]

Init ==
    /\ PolicyInit
    /\ decision = [c \in Callers |-> NoDecision]
    /\ used = {}
    /\ effects = {}

-----------------------------------------------------------------------------
ActionDigest(a) == domain_hash("ACTION-HASH", a)

DecisionHash(b) == domain_hash("DECISION-HASH", b)
DecisionSigned  == "DECISION-SIGNATURE"

\* Mutant of DecisionBody: _kill forgets to mark the violation as hard.
DecisionBodySoft(c) ==
    [run_id |-> manifest.body.run_id, manifest_hash |-> manifest.manifest_hash,
     request_id |-> action[c].request, action_sha256 |-> ActionDigest(action[c]),
     gateway_key_id |-> manifest.body.gateway_key.keyId,
     decided |-> now[c], verdict |-> pc[c], hard_violation |-> FALSE,
     matched_rule_id |-> IF pc[c] = "ALLOW" THEN Rules[rule[c]].id ELSE 0,
     authorization_id |-> IF pc[c] = "ALLOW" THEN c ELSE None,
     expires |-> now[c] + Ttl]

\* What submit_raw puts into a decision.
DecisionBody(c) ==
    [run_id |-> manifest.body.run_id, manifest_hash |-> manifest.manifest_hash,
     request_id |-> action[c].request, action_sha256 |-> ActionDigest(action[c]),
     gateway_key_id |-> manifest.body.gateway_key.keyId,
     decided |-> now[c], verdict |-> pc[c], hard_violation |-> pc[c] = "KILL",
     matched_rule_id |-> IF pc[c] = "ALLOW" THEN Rules[rule[c]].id ELSE 0,
     authorization_id |-> IF pc[c] = "ALLOW" THEN c ELSE None,
     expires |-> now[c] + Ttl]

\* DecisionBody.capability_matches_verdict
capability_matches_verdict(b) ==
    IF b.verdict = "ALLOW"
    THEN /\ b.authorization_id # None
         /\ b.matched_rule_id # 0
         /\ ~b.hard_violation
         /\ b.expires > b.decided
    ELSE /\ b.authorization_id = None
         /\ b.verdict = "KILL" => b.hard_violation

\* Decision.sign
SignDecision(body, key) ==
    [body |-> body, decision_hash |-> DecisionHash(body),
     gateway_signature |->
        SignatureOf(body.gateway_key_id, key, DecisionSigned, DecisionHash(body))]

\* A decision that does not validate makes submit_raw raise.
Decide(c) ==
    /\ pc[c] \in {"ALLOW", "KILL"} /\ decision[c] = NoDecision
    /\ decision' = [decision EXCEPT ![c] =
          IF capability_matches_verdict(DecisionBody(c))
          THEN SignDecision(DecisionBody(c), GatewayKey)
          ELSE Raised]
    /\ UNCHANGED <<policyVars, used, effects>>

-----------------------------------------------------------------------------
\* Decision.verify
DecisionVerifies(d, key) ==
    /\ key.keyId = d.body.gateway_key_id
    /\ verify_signature(key.key, d.gateway_signature, DecisionSigned, d.decision_hash)

\* The manifests are those the operator can sign, with rules and grants numbered
\* from one; a decision of another run is for another manifest, or no signature
\* of this gateway.
ASSUME AuthorizationAssumption ==
    /\ Ttl \in Nat \ {0} /\ None \notin Callers
    /\ \A m \in Manifests :
          /\ Signable(m.body) /\ m = SignManifest(m.body, OperatorKey)
          /\ m.body.gateway_key.key = GatewayKey
          /\ \A i \in DOMAIN m.body.allowed_egress :
                i \in Nat \ {0} /\ m.body.allowed_egress[i].id \in Nat \ {0}
                /\ m.body.allowed_egress[i].max_requests \in Nat
          /\ \A g \in DOMAIN m.body.credentials :
                g \in Nat \ {0} /\ m.body.credentials[g].id \in Nat \ {0}
                /\ m.body.credentials[g].max_uses \in Nat
    /\ \A d \in OtherDecisions, m \in Manifests :
          DecisionVerifies(d, m.body.gateway_key)
              => d.body.manifest_hash # m.manifest_hash

\* Action, EgressRule, CredentialGrant and the bodies around them are typed: paths
\* and prefixes are text, times (whose text sorts as they do) are integers, and an
\* action's path was validated.
ASSUME FieldsAssumption ==
    /\ \A a \in Actions : a.path \in Seq(STRING) /\ path_is_unambiguous(a.path)
    /\ \A m \in Manifests :
          /\ m.body.not_before \in Int /\ m.body.expires_at \in Int
          /\ \A i \in DOMAIN m.body.allowed_egress :
                m.body.allowed_egress[i].path_prefixes \subseteq Seq(STRING)
          /\ \A g \in DOMAIN m.body.credentials : m.body.credentials[g].expires_at \in Int
          /\ \A h \in DOMAIN m.body.second_hops :
                /\ m.body.second_hops[h].body.issued_at \in Int
                /\ m.body.second_hops[h].body.expires_at \in Int

\* Mutant of BoundTo: a decision is taken for every action of its request.
BoundToRequest(d, a) ==
    /\ DecisionVerifies(d, manifest.body.gateway_key)
    /\ d.body.run_id = manifest.body.run_id
    /\ d.body.manifest_hash = manifest.manifest_hash
    /\ d.body.request_id = a.request

\* The checks of dispatch before it touches any state.
BoundTo(d, a) ==
    /\ DecisionVerifies(d, manifest.body.gateway_key)
    /\ d.body.run_id = manifest.body.run_id
    /\ d.body.manifest_hash = manifest.manifest_hash
    /\ d.body.request_id = a.request
    /\ d.body.action_sha256 = ActionDigest(a)
    /\ \E i \in DOMAIN Rules : Rules[i].id = d.body.matched_rule_id
    /\ d.body.authorization_id # None

\* CredentialBroker.release: the secret, or none for an action without
\* credential.  It raises by having no value.
Releases(a) ==
    IF a.credential = NoCredential
    THEN {None}
    ELSE {Grants[g].broker_ref : g \in {g \in Named(a) :
             /\ ~Grants[g].is_canary
             /\ Grants[g].audience = a.host
             /\ Grants[g].broker_ref \in Secrets}}

\* begin_authorized consumes an authorization once, and not after its expiry.  The
\* clock it is shown is read after the decision was made, and does not go back.
Dispatch(a, d, t) ==
    /\ BoundTo(d, a)
    /\ d.body.decided <= t /\ t <= d.body.expires
    /\ d.body.authorization_id \notin used
    /\ used' = used \cup {d.body.authorization_id}
    /\ effects' = effects \cup
          {[action |-> a, auth |-> d.body.authorization_id, at |-> t,
            rule |-> d.body.matched_rule_id, secret |-> s] : s \in Releases(a)}
    /\ UNCHANGED <<policyVars, decision>>

Signed == {decision[c] : c \in Callers} \ {NoDecision, Raised}

Next ==
    \/ \E c \in Callers : PolicyStep(c) /\ UNCHANGED <<decision, used, effects>>
    \/ \E c \in Callers : Decide(c)
    \/ \E a \in Actions, d \in Signed \cup OtherDecisions, t \in Times : Dispatch(a, d, t)

Spec == Init /\ [][Next]_authorizationVars

-----------------------------------------------------------------------------
\* Every decision the gateway builds validates: submit_raw does not raise with
\* its REQUEST committed and no DECISION behind it.
DecisionsValidate == \A c \in Callers : decision[c] # Raised

\* Whatever actions and decisions the executor is shown, what reaches the
\* transport is what the policy of this run allowed: the same action under the
\* same rule, with the secret of the grant that was charged for it, at most Ttl
\* later, and once.
EffectsAreAllowed ==
    \A x \in effects :
        /\ \E c \in Allowed :
              /\ x.auth = c /\ action[c] = x.action
              /\ Rules[rule[c]].id = x.rule
              /\ now[c] <= x.at /\ x.at <= now[c] + Ttl
              /\ x.secret = IF grant[c] = 0 THEN None ELSE Grants[grant[c]].broker_ref
        /\ \A y \in effects : y.auth = x.auth => y = x

\* The auditor accepts the manifest the operator signed, and its signature under
\* no other body.
OnlyTheSignedBodyVerifies ==
    \A m \in Manifests :
        ManifestVerifies([manifest EXCEPT !.body = m.body], OperatorKey)
            <=> m = manifest
=============================================================================
