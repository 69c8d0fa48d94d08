------------------------------ MODULE Manifest ------------------------------
(***************************************************************************)
(* The signed structures of app/models.py that decide which manifests a    *)
(* run can be given: kill criteria, egress rules, credential grants,       *)
(* second-hop attestations and the manifest around them.                   *)
(*                                                                         *)
(* A hash is the pair of its domain and what it covers; a signature names  *)
(* the key it was made with and what was signed.  Ids are numbers, so that *)
(* they can be sorted.                                                     *)
(***************************************************************************)
EXTENDS Paths, FiniteSets

CONSTANT MaxPayloadBytes     \* MAX_EVENT_PAYLOAD_BYTES

domain_hash(domain, body) == <<domain, body>>

SignatureOf(keyId, key, domain, digest) ==
    [keyId |-> keyId, key |-> key, message |-> <<domain, digest>>]

verify_signature(key, signature, domain, digest) ==
    signature.key = key /\ signature.message = <<domain, digest>>

sorted_unique(ids) == \A i, j \in DOMAIN ids : i < j => ids[i] < ids[j]

Ids(items) == [i \in DOMAIN items |-> items[i].id]

-----------------------------------------------------------------------------
\* KillCriteria
capacities_are_coherent(k) ==
    /\ k.max_event_payload_bytes <= MaxPayloadBytes
    /\ k.max_requests_per_window <= k.max_admitted_requests
    /\ k.max_inflight_requests <= k.max_admitted_requests
    /\ k.max_queued_events <= k.max_total_events

\* EgressRule; shapes are the methods, addresses, pins and sizes that
\* _rule_matches accepts.
RuleValid(r) ==
    /\ r.path_prefixes # {} /\ \A p \in r.path_prefixes : path_is_unambiguous(p)
    /\ r.pins # {}
    /\ r.max_requests > 0

\* CredentialGrant
GrantValid(g) == g.rules # <<>> /\ sorted_unique(g.rules) /\ g.max_uses > 0

-----------------------------------------------------------------------------
\* SecondHopAttestationBody; assertions are the nine flags that must be true.
evidence_is_fresh_and_present(b) ==
    /\ FALSE \notin b.assertions
    /\ b.issued_at < b.expires_at
    /\ b.evidence # <<>> /\ sorted_unique(b.evidence)

HopHash(b)      == domain_hash("SECOND-HOP-ATTESTATION-HASH", b)
HopSigned       == "SECOND-HOP-ATTESTATION-SIGNATURE"
ManifestHash(b) == domain_hash("MANIFEST-HASH", b)
ManifestSigned  == "MANIFEST-SIGNATURE"

\* SecondHopAttestation.sign, with the private key that belongs to `key'.
SignHop(body, key, providerKey) ==
    [body |-> body, provider_key |-> providerKey, attestation_hash |-> HopHash(body),
     provider_signature |->
        SignatureOf(body.provider_key_id, key, HopSigned, HopHash(body))]

\* SecondHopAttestation.envelope_is_coherent and verify
HopValid(h) ==
    /\ evidence_is_fresh_and_present(h.body)
    /\ h.provider_key.keyId = h.body.provider_key_id
    /\ h.provider_signature.keyId = h.body.provider_key_id
    /\ h.attestation_hash = HopHash(h.body)

HopVerifies(h) ==
    verify_signature(h.provider_key.key, h.provider_signature, HopSigned,
                      h.attestation_hash)

-----------------------------------------------------------------------------
\* ManifestBody.policy_is_coherent
policy_is_coherent(b) ==
    /\ b.not_before < b.expires_at
    /\ b.issued_at <= b.not_before
    /\ Cardinality({b.operator_key_id, b.gateway_key.keyId, b.supervisor_key.keyId,
                    b.witness_key.keyId}) = 4
    /\ \A g \in DOMAIN b.credentials :
          /\ \A k \in DOMAIN b.credentials[g].rules :
                \E r \in DOMAIN b.allowed_egress :
                    /\ b.allowed_egress[r].id = b.credentials[g].rules[k]
                    /\ b.allowed_egress[r].host = b.credentials[g].audience
          /\ b.credentials[g].expires_at <= b.expires_at

\* ManifestBody, its fields and its validators.
BodyValid(b) ==
    /\ capacities_are_coherent(b.kill_criteria)
    /\ \A r \in DOMAIN b.allowed_egress : RuleValid(b.allowed_egress[r])
    /\ \A g \in DOMAIN b.credentials : GrantValid(b.credentials[g])
    /\ \A h \in DOMAIN b.second_hops : HopValid(b.second_hops[h])
    /\ sorted_unique(Ids(b.allowed_egress))
    /\ sorted_unique(Ids(b.credentials))
    /\ sorted_unique([h \in DOMAIN b.second_hops |-> b.second_hops[h].body.provider_id])
    /\ policy_is_coherent(b)

\* Mutant of verify_second_hops: an attestation need only begin in time.
verify_second_hops_start(b) ==
    \A h \in DOMAIN b.second_hops :
        /\ HopVerifies(b.second_hops[h])
        /\ b.second_hops[h].body.run_id = b.run_id
        /\ b.second_hops[h].body.issued_at <= b.not_before

\* Manifest.verify_second_hops
verify_second_hops(b) ==
    \A h \in DOMAIN b.second_hops :
        LET hop == b.second_hops[h]
        IN  /\ HopVerifies(hop)
            /\ hop.body.run_id = b.run_id
            /\ hop.body.issued_at <= b.not_before
            /\ hop.body.expires_at >= b.expires_at

\* Manifest.sign: raises unless the body is valid and its second hops verify.
Signable(body) == BodyValid(body) /\ verify_second_hops(body)

SignManifest(body, key) ==
    [body |-> body, manifest_hash |-> ManifestHash(body),
     operator_signature |->
        SignatureOf(body.operator_key_id, key, ManifestSigned, ManifestHash(body))]

\* Manifest, its envelope_is_coherent and verify.
ManifestVerifies(m, key) ==
    /\ BodyValid(m.body)
    /\ m.manifest_hash = ManifestHash(m.body)
    /\ m.operator_signature.keyId = m.body.operator_key_id
    /\ verify_signature(key, m.operator_signature, ManifestSigned, m.manifest_hash)
    /\ verify_second_hops(m.body)
=============================================================================
