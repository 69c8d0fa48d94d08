------------------------------- MODULE Policy -------------------------------
(***************************************************************************)
(* PolicyEngine.authorize (app/policy.py), called by concurrent gateway    *)
(* threads: the manifest is matched without a lock, the budgets of the     *)
(* rule and of the credential are checked and charged under one.           *)
(*                                                                         *)
(* An action is its request id, its origin (scheme and port as one, and    *)
(* the host), its path, its shape (method, address, pin and size, which a  *)
(* rule accepts or not) and the credential it names, or NoCredential.      *)
(***************************************************************************)
EXTENDS Manifest

CONSTANTS
    Callers,         \* threads, each with one action to authorize
    Actions,         \* records [request, host, port, path, shape, credential]
    NoCredential,
    Manifests,       \* the manifests a run may be given
    Times            \* values of the clocks

ASSUME PolicyAssumption ==
    /\ IsFiniteSet(Callers)
    /\ Times \subseteq Int

VARIABLES
    manifest,        \* the manifest of the run
    pc,              \* "start", "charge" or the verdict
    action,          \* the action each caller asks about
    now,             \* now_timestamp
    rule, grant,     \* what it matched in the manifest; 0 = None
    ruleUses,        \* _rule_uses
    grantUses        \* _credential_uses

policyVars == <<manifest, pc, action, now, rule, grant, ruleUses, grantUses>>

Rules  == manifest.body.allowed_egress
Grants == manifest.body.credentials

NoAction == [request |-> 0]

PolicyInit ==
    /\ manifest \in Manifests
    /\ pc = [c \in Callers |-> "start"]
    /\ action = [c \in Callers |-> NoAction]
    /\ now = [c \in Callers |-> 0]
    /\ rule = [c \in Callers |-> 0]
    /\ grant = [c \in Callers |-> 0]
    /\ ruleUses = [i \in DOMAIN Rules |-> 0]
    /\ grantUses = [g \in DOMAIN Grants |-> 0]

\* _rule_matches, among the rules of the action's origin; the first one counts.
Matching(a) ==
    {i \in DOMAIN Rules : /\ Rules[i].host = a.host /\ Rules[i].port = a.port
                          /\ a.shape \in Rules[i].shapes
                          /\ \E p \in Rules[i].path_prefixes :
                                path_matches(a.path, p)}

FirstMatch(a) == CHOOSE i \in Matching(a) : \A j \in Matching(a) : i <= j

Named(a) == {g \in DOMAIN Grants : Grants[g].id = a.credential}

CredentialUsable(a, i, g, t) ==
    /\ ~Grants[g].is_canary
    /\ Grants[g].audience = a.host
    /\ \E k \in DOMAIN Grants[g].rules : Grants[g].rules[k] = Rules[i].id
    /\ Grants[g].expires_at >= t

Verdict(c, v) == pc' = [pc EXCEPT ![c] = v]

\* Outside the lock: manifest validity, origin, rule, credential.
Matches(a, t, i, g) ==
    /\ manifest.body.not_before <= t /\ t <= manifest.body.expires_at
    /\ Matching(a) # {} /\ i = FirstMatch(a)
    /\ IF a.credential = NoCredential
       THEN g = 0
       ELSE g \in Named(a) /\ CredentialUsable(a, i, g, t)

Match(c) ==
    /\ pc[c] = "start"
    /\ \E a \in Actions, t \in Times :
          /\ action' = [action EXCEPT ![c] = a]
          /\ now' = [now EXCEPT ![c] = t]
          /\ \/ \E i \in DOMAIN Rules, g \in DOMAIN Grants \cup {0} :
                   /\ Matches(a, t, i, g)
                   /\ rule' = [rule EXCEPT ![c] = i]
                   /\ grant' = [grant EXCEPT ![c] = g]
                   /\ Verdict(c, "charge")
             \/ /\ ~\E i \in DOMAIN Rules, g \in DOMAIN Grants \cup {0} :
                       Matches(a, t, i, g)
                /\ Verdict(c, "KILL")
                /\ UNCHANGED <<rule, grant>>
    /\ UNCHANGED <<manifest, ruleUses, grantUses>>

Exhausted(i, g) ==
    \/ ruleUses[i] >= Rules[i].max_requests
    \/ g # 0 /\ grantUses[g] >= Grants[g].max_uses

\* Mutant of Charge: the rule is charged before the credential is looked at.
ChargeRuleFirst(c) ==
    /\ pc[c] = "charge"
    /\ ruleUses' = [ruleUses EXCEPT ![rule[c]] =
                       IF @ < Rules[rule[c]].max_requests THEN @ + 1 ELSE @]
    /\ Verdict(c, IF Exhausted(rule[c], grant[c]) THEN "KILL" ELSE "ALLOW")
    /\ grantUses' = [g \in DOMAIN Grants |->
          IF g = grant[c] /\ ~Exhausted(rule[c], g) THEN grantUses[g] + 1
                                                    ELSE grantUses[g]]
    /\ UNCHANGED <<manifest, action, now, rule, grant>>

\* Under the lock: both budgets must have a use left; then both are charged.
Charge(c) ==
    /\ pc[c] = "charge"
    /\ \/ /\ Exhausted(rule[c], grant[c])
          /\ Verdict(c, "KILL")
          /\ UNCHANGED <<ruleUses, grantUses>>
       \/ /\ ~Exhausted(rule[c], grant[c])
          /\ Verdict(c, "ALLOW")
          /\ ruleUses' = [i \in DOMAIN Rules |->
                IF i = rule[c] THEN ruleUses[i] + 1 ELSE ruleUses[i]]
          /\ grantUses' = [g \in DOMAIN Grants |->
                IF g = grant[c] THEN grantUses[g] + 1 ELSE grantUses[g]]
    /\ UNCHANGED <<manifest, action, now, rule, grant>>

PolicyStep(c) == Match(c) \/ Charge(c)

-----------------------------------------------------------------------------
Allowed == {c \in Callers : pc[c] = "ALLOW"}

\* However calls of authorize interleave, each rule and each credential has been
\* allowed exactly as often as it was charged, a KILL charged nothing, and no
\* budget of the manifest is exceeded.
BudgetsAreExact ==
    /\ \A i \in DOMAIN Rules :
          /\ ruleUses[i] = Cardinality({c \in Allowed : rule[c] = i})
          /\ ruleUses[i] <= Rules[i].max_requests
    /\ \A g \in DOMAIN Grants :
          /\ grantUses[g] = Cardinality({c \in Allowed : grant[c] = g})
          /\ grantUses[g] <= Grants[g].max_uses

\* _path_matches compares text, and means segments: a path is under a prefix
\* exactly when the prefix's segments are the first ones of the path, with or
\* without a slash at the end of either.
PathsMatchBySegment ==
    \A c \in Callers, i \in DOMAIN Rules :
        action[c] # NoAction =>
            \A p \in Rules[i].path_prefixes :
                path_matches(action[c].path, p) <=> UnderPrefix(action[c].path, p)

\* Closed world: an allowed action is accepted by a rule of its own origin and
\* lies under one of its prefixes, segment by segment; a credential it names is
\* live, for that rule and host, and not a tripwire; every second hop that the
\* manifest rests on is attested for this run, at that time.
AllowedIsGranted ==
    \A c \in Allowed :
        LET a == action[c]
        IN  /\ Rules[rule[c]].host = a.host /\ Rules[rule[c]].port = a.port
            /\ a.shape \in Rules[rule[c]].shapes /\ Rules[rule[c]].pins # {}
            /\ \E p \in Rules[rule[c]].path_prefixes : UnderPrefix(a.path, p)
            /\ a.credential # NoCredential =>
                  LET g == Grants[grant[c]]
                  IN  /\ g.id = a.credential /\ ~g.is_canary /\ g.audience = a.host
                      /\ \E k \in DOMAIN g.rules : g.rules[k] = Rules[rule[c]].id
                      /\ now[c] <= g.expires_at
            /\ \A h \in DOMAIN manifest.body.second_hops :
                  LET hop == manifest.body.second_hops[h].body
                  IN  /\ hop.run_id = manifest.body.run_id
                      /\ hop.issued_at <= now[c] /\ now[c] <= hop.expires_at
=============================================================================
