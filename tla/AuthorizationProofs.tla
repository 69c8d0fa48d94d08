------------------------ MODULE AuthorizationProofs -------------------------
(***************************************************************************)
(* The policy's budgets, what it allows and the binding of effects to      *)
(* decisions, for every manifest the operator can sign, every number of    *)
(* concurrent callers and every set of actions.  That prefixes are         *)
(* compared segment by segment is proved for paths of every length, from   *)
(* the least-number principle.                                             *)
(***************************************************************************)
EXTENDS Authorization, FiniteSetTheorems, TLAPS

\* Who was matched, and with what.
PolicyTypeOK ==
    /\ manifest \in Manifests
    /\ pc \in [Callers -> {"start", "charge", "ALLOW", "KILL"}]
    /\ action \in [Callers -> Actions \cup {NoAction}]
    /\ now \in [Callers -> Int]
    /\ rule \in [Callers -> DOMAIN Rules \cup {0}]
    /\ grant \in [Callers -> DOMAIN Grants \cup {0}]
    /\ ruleUses \in [DOMAIN Rules -> Nat]
    /\ grantUses \in [DOMAIN Grants -> Nat]

\* What was matched outside the lock still matches under it: neither the manifest
\* nor the caller's action changes (policy.py:42-103).
MatchedStays ==
    \A c \in Callers : pc[c] \in {"charge", "ALLOW"} =>
        /\ action[c] \in Actions /\ rule[c] \in DOMAIN Rules
        /\ Matches(action[c], now[c], rule[c], grant[c])

PolicyInv == PolicyTypeOK /\ MatchedStays /\ BudgetsAreExact

-----------------------------------------------------------------------------
\* Numbers in a manifest the run may be given (models.py:518-760).
LEMMA Numbered ==
  ASSUME manifest \in Manifests
  PROVE  /\ \A i \in DOMAIN Rules :
               i \in Nat \ {0} /\ Rules[i].id \in Nat \ {0} /\ Rules[i].max_requests \in Nat
         /\ \A g \in DOMAIN Grants :
               g \in Nat \ {0} /\ Grants[g].id \in Nat \ {0} /\ Grants[g].max_uses \in Nat
  BY AuthorizationAssumption DEF AuthorizationAssumption, Rules, Grants

\* What matches depends on the manifest and the action only (policy.py:21-85).
LEMMA MatchesStays ==
  ASSUME UNCHANGED manifest, NEW a, NEW t, NEW i, NEW g
  PROVE  Matches(a, t, i, g)' <=> Matches(a, t, i, g)
<1>1. Rules' = Rules /\ Grants' = Grants
  BY DEF Rules, Grants
<1>2. Matching(a)' = Matching(a) /\ Named(a)' = Named(a)
  BY <1>1 DEF Matching, Named
<1>3. FirstMatch(a)' = FirstMatch(a)
  BY <1>2, Zenon DEF FirstMatch
<1>4. CredentialUsable(a, i, g, t)' <=> CredentialUsable(a, i, g, t)
  BY <1>1 DEF CredentialUsable
<1> QED
  BY <1>2, <1>3, <1>4 DEF Matches

\* How many of the callers in A are under the label n.
Uses(f, A, n) == Cardinality({x \in A : f[x] = n})

\* One more caller adds one use, of its own label.
LEMMA CountOneMore ==
  ASSUME NEW f \in [Callers -> Nat], NEW A \in SUBSET Callers,
         NEW c \in Callers \ A, NEW n \in Nat
  PROVE  /\ Uses(f, A, n) \in Nat
         /\ Uses(f, A \cup {c}, n) = Uses(f, A, n) + IF f[c] = n THEN 1 ELSE 0
<1> USE DEF Uses
<1> DEFINE S == {x \in A : f[x] = n}
<1>1. IsFiniteSet(S)
  <2>1. S \in SUBSET Callers
    OBVIOUS
  <2> QED
    BY <2>1, PolicyAssumption, FS_Subset, Zenon DEF PolicyAssumption
<1>2. Cardinality(S) \in Nat
  BY <1>1, FS_CardinalityType
<1>3. CASE f[c] = n
  <2>1. {x \in A \cup {c} : f[x] = n} = S \cup {c} /\ c \notin S
    BY <1>3
  <2>2. Cardinality(S \cup {c}) = Cardinality(S) + 1
    BY <2>1, <1>1, FS_AddElement, SMTT(30)
  <2> QED
    BY <2>1, <2>2, <1>2, <1>3
<1>4. CASE f[c] # n
  <2>1. {x \in A \cup {c} : f[x] = n} = S
    BY <1>4
  <2> QED
    BY <2>1, <1>2, <1>4
<1> QED
  BY <1>3, <1>4

-----------------------------------------------------------------------------
\* A new engine has charged nothing.
LEMMA InitPolicyInv == PolicyInit => PolicyInv
<1> SUFFICES ASSUME PolicyInit PROVE PolicyInv
  OBVIOUS
<1>1. PolicyTypeOK
  BY DEF PolicyInit, PolicyTypeOK, NoAction
<1>2. MatchedStays
  BY DEF PolicyInit, MatchedStays
<1>3. Allowed = {}
  BY DEF PolicyInit, Allowed
<1>4. BudgetsAreExact
  <2>1. Cardinality({}) = 0
    BY FS_EmptySet
  <2>2. ASSUME NEW i \in DOMAIN Rules
        PROVE  /\ ruleUses[i] = Cardinality({c \in Allowed : rule[c] = i})
               /\ ruleUses[i] <= Rules[i].max_requests
    <3>1. ruleUses[i] = 0 /\ Rules[i].max_requests \in Nat
      BY <1>1, Numbered DEF PolicyInit, PolicyTypeOK
    <3>2. {c \in Allowed : rule[c] = i} = {}
      BY <1>3
    <3> QED
      BY <3>1, <3>2, <2>1
  <2>3. ASSUME NEW g \in DOMAIN Grants
        PROVE  /\ grantUses[g] = Cardinality({c \in Allowed : grant[c] = g})
               /\ grantUses[g] <= Grants[g].max_uses
    <3>1. grantUses[g] = 0 /\ Grants[g].max_uses \in Nat
      BY <1>1, Numbered DEF PolicyInit, PolicyTypeOK
    <3>2. {c \in Allowed : grant[c] = g} = {}
      BY <1>3
    <3> QED
      BY <3>1, <3>2, <2>1
  <2> QED
    BY <2>2, <2>3, SMTT(30) DEF BudgetsAreExact
<1> QED
  BY <1>1, <1>2, <1>4 DEF PolicyInv

\* Outside the lock nothing is charged (policy.py:42-85).
LEMMA MatchKeeps ==
  ASSUME PolicyInv, NEW c \in Callers, Match(c)
  PROVE  PolicyInv'
<1>t. PolicyTypeOK
  BY DEF PolicyInv
<1>a. /\ pc[c] = "start" /\ UNCHANGED <<manifest, ruleUses, grantUses>>
  BY DEF Match
<1>m. Rules' = Rules /\ Grants' = Grants
  BY <1>a DEF Rules, Grants
<1>1. PICK a \in Actions, t \in Times :
          /\ action' = [action EXCEPT ![c] = a]
          /\ now' = [now EXCEPT ![c] = t]
          /\ \/ \E i \in DOMAIN Rules, g \in DOMAIN Grants \cup {0} :
                   /\ Matches(a, t, i, g)
                   /\ rule' = [rule EXCEPT ![c] = i]
                   /\ grant' = [grant EXCEPT ![c] = g]
                   /\ Verdict(c, "charge")
             \/ /\ Verdict(c, "KILL")
                /\ UNCHANGED <<rule, grant>>
  BY Zenon DEF Match
<1>2. t \in Int
  BY PolicyAssumption DEF PolicyAssumption
<1>3. PolicyTypeOK'
  BY <1>a, <1>1, <1>2, <1>t, <1>m DEF PolicyTypeOK, Verdict
<1>4. MatchedStays'
  <2> SUFFICES ASSUME NEW d \in Callers, pc'[d] \in {"charge", "ALLOW"}
               PROVE  /\ action'[d] \in Actions /\ rule'[d] \in DOMAIN Rules
                      /\ Matches(action'[d], now'[d], rule'[d], grant'[d])
    BY <1>m, <1>a, MatchesStays DEF MatchedStays
  <2>1. CASE d = c
    BY <2>1, <1>1, <1>t DEF PolicyTypeOK, Verdict
  <2>2. CASE d # c
    <3>1. pc'[d] = pc[d] /\ rule'[d] = rule[d] /\ grant'[d] = grant[d]
          /\ action'[d] = action[d] /\ now'[d] = now[d]
      BY <2>2, <1>1, <1>t DEF PolicyTypeOK, Verdict
    <3> QED
      BY <3>1 DEF PolicyInv, MatchedStays
  <2> QED
    BY <2>1, <2>2
<1>5. BudgetsAreExact'
  <2>1. Allowed' = Allowed
    BY <1>a, <1>1, <1>t DEF Allowed, PolicyTypeOK, Verdict
  <2>2. \A d \in Allowed : rule'[d] = rule[d] /\ grant'[d] = grant[d]
    BY <1>a, <1>1, <1>t DEF Allowed, PolicyTypeOK
  <2>3. \A v : /\ {d \in Allowed' : rule'[d] = v} = {d \in Allowed : rule[d] = v}
               /\ {d \in Allowed' : grant'[d] = v} = {d \in Allowed : grant[d] = v}
    BY <2>1, <2>2
  <2> QED
    BY <2>3, <1>a, <1>m, SMTT(30) DEF PolicyInv, BudgetsAreExact
<1> QED
  BY <1>3, <1>4, <1>5 DEF PolicyInv

\* Under the lock both budgets are charged, or none (policy.py:87-103).
LEMMA ChargeKeeps ==
  ASSUME PolicyInv, NEW c \in Callers, Charge(c)
  PROVE  PolicyInv'
<1>t. PolicyTypeOK
  BY DEF PolicyInv
<1>a. pc[c] = "charge" /\ UNCHANGED <<manifest, action, now, rule, grant>>
  BY DEF Charge
<1>m. Rules' = Rules /\ Grants' = Grants
  BY <1>a DEF Rules, Grants
<1>c. rule[c] \in DOMAIN Rules /\ grant[c] \in DOMAIN Grants \cup {0}
  BY <1>a, <1>t DEF PolicyInv, MatchedStays, PolicyTypeOK
<1>1. PolicyTypeOK'
  BY <1>a, <1>t, <1>m DEF PolicyTypeOK, Charge, Verdict
<1>2. MatchedStays'
  <2> SUFFICES ASSUME NEW d \in Callers, pc'[d] \in {"charge", "ALLOW"}
               PROVE  /\ action[d] \in Actions /\ rule[d] \in DOMAIN Rules
                      /\ Matches(action[d], now[d], rule[d], grant[d])
    BY <1>m, <1>a, MatchesStays DEF MatchedStays
  <2>1. pc[d] \in {"charge", "ALLOW"}
    BY <1>a, <1>t DEF PolicyTypeOK, Charge, Verdict
  <2> QED
    BY <2>1 DEF PolicyInv, MatchedStays
<1>3. BudgetsAreExact'
  <2>1. CASE Verdict(c, "KILL") /\ UNCHANGED <<ruleUses, grantUses>>
    <3>1. Allowed' = Allowed
      BY <2>1, <1>a, <1>t DEF Allowed, PolicyTypeOK, Verdict
    <3> QED
      BY <3>1, <2>1, <1>a, <1>m, Zenon DEF PolicyInv, BudgetsAreExact
  <2>2. CASE /\ ~Exhausted(rule[c], grant[c])
             /\ Verdict(c, "ALLOW")
             /\ ruleUses' = [i \in DOMAIN Rules |->
                   IF i = rule[c] THEN ruleUses[i] + 1 ELSE ruleUses[i]]
             /\ grantUses' = [g \in DOMAIN Grants |->
                   IF g = grant[c] THEN grantUses[g] + 1 ELSE grantUses[g]]
    <3>1. Allowed' = Allowed \cup {c} /\ c \in Callers \ Allowed /\ Allowed \in SUBSET Callers
      BY <2>2, <1>a, <1>t DEF Allowed, PolicyTypeOK, Verdict
    <3>2. rule \in [Callers -> Nat] /\ grant \in [Callers -> Nat]
      BY <1>t, Numbered DEF PolicyTypeOK
    <3>3. ASSUME NEW i \in DOMAIN Rules
          PROVE  /\ ruleUses'[i] = Cardinality({d \in Allowed' : rule'[d] = i})
                 /\ ruleUses'[i] <= Rules[i].max_requests
      <4>0. i \in Nat /\ Rules[i].max_requests \in Nat /\ ruleUses[i] \in Nat
        BY <1>t, Numbered DEF PolicyTypeOK
      <4>1. /\ ruleUses[i] = Cardinality({d \in Allowed : rule[d] = i})
            /\ ruleUses[i] <= Rules[i].max_requests
        BY DEF PolicyInv, BudgetsAreExact
      <4>2. Uses(rule, Allowed \cup {c}, i) =
                Uses(rule, Allowed, i) + IF rule[c] = i THEN 1 ELSE 0
        BY <3>1, <3>2, <4>0, CountOneMore
      <4>3. rule[c] = i => ruleUses[i] < Rules[i].max_requests
        BY <2>2, <4>0 DEF Exhausted
      <4> QED
        BY <2>2, <3>1, <4>0, <4>1, <4>2, <4>3, <1>a DEF Uses
    <3>4. ASSUME NEW g \in DOMAIN Grants
          PROVE  /\ grantUses'[g] = Cardinality({d \in Allowed' : grant'[d] = g})
                 /\ grantUses'[g] <= Grants[g].max_uses
      <4>0. g \in Nat \ {0} /\ Grants[g].max_uses \in Nat /\ grantUses[g] \in Nat
        BY <1>t, Numbered DEF PolicyTypeOK
      <4>1. /\ grantUses[g] = Cardinality({d \in Allowed : grant[d] = g})
            /\ grantUses[g] <= Grants[g].max_uses
        BY DEF PolicyInv, BudgetsAreExact
      <4>2. Uses(grant, Allowed \cup {c}, g) =
                Uses(grant, Allowed, g) + IF grant[c] = g THEN 1 ELSE 0
        BY <3>1, <3>2, <4>0, CountOneMore
      <4>3. grant[c] = g => grantUses[g] < Grants[g].max_uses
        BY <2>2, <4>0 DEF Exhausted
      <4> QED
        BY <2>2, <3>1, <4>0, <4>1, <4>2, <4>3, <1>a DEF Uses
    <3> QED
      BY <3>3, <3>4, <1>m, Zenon DEF BudgetsAreExact
  <2> QED
    BY <2>1, <2>2 DEF Charge
<1> QED
  BY <1>1, <1>2, <1>3 DEF PolicyInv

-----------------------------------------------------------------------------
\* The decision a caller was given is the one signed for what it asked and what
\* the policy answered, or none.
DecisionsAreOwn ==
    /\ DOMAIN decision = Callers
    /\ \A c \in Callers :
          \/ decision[c] = NoDecision
          \/ /\ pc[c] \in {"ALLOW", "KILL"}
             /\ decision[c] = SignDecision(DecisionBody(c), GatewayKey)

\* One effect as EffectsAreAllowed wants it.
Granted(x) ==
    \E c \in Allowed :
        /\ x.auth = c /\ action[c] = x.action
        /\ Rules[rule[c]].id = x.rule
        /\ now[c] <= x.at /\ x.at <= now[c] + Ttl
        /\ x.secret = IF grant[c] = 0 THEN None ELSE Grants[grant[c]].broker_ref

\* The inductive invariant of effects: what was dispatched was granted, once for
\* each authorization that was used.
AuthorizationInv ==
    /\ PolicyInv
    /\ DecisionsAreOwn
    /\ \A x \in effects : x.auth \in used /\ Granted(x)
    /\ \A x, y \in effects : x.auth = y.auth => x = y

\* Every decision the gateway builds passes its own validator
\* (models.py:1016-1059, gateway.py:161-200).
LEMMA BodyValidates ==
  ASSUME PolicyInv, NEW c \in Callers, pc[c] \in {"ALLOW", "KILL"}
  PROVE  capability_matches_verdict(DecisionBody(c))
<1>1. now[c] \in Int /\ Ttl \in Nat \ {0} /\ c # None
  BY AuthorizationAssumption DEF AuthorizationAssumption, PolicyInv, PolicyTypeOK
<1>2. CASE pc[c] = "ALLOW"
  <2>1. Rules[rule[c]].id \in Nat \ {0}
    BY <1>2, Numbered, SMTT(30) DEF PolicyInv, PolicyTypeOK, MatchedStays
  <2> DEFINE b == DecisionBody(c)
  <2>2. /\ b.verdict = "ALLOW" /\ b.authorization_id = c
        /\ b.matched_rule_id = Rules[rule[c]].id
        /\ b.decided = now[c] /\ b.expires = now[c] + Ttl
    BY <1>2 DEF DecisionBody
  <2>3. ~b.hard_violation
    BY <1>2, Zenon DEF DecisionBody
  <2> QED
    BY <1>1, <2>1, <2>2, <2>3 DEF capability_matches_verdict
<1>3. CASE pc[c] = "KILL"
  BY <1>1, <1>3, Zenon DEF capability_matches_verdict, DecisionBody
<1> QED
  BY <1>2, <1>3

\* A step that leaves the policy alone keeps its invariant.
LEMMA PolicyUntouched ==
  ASSUME PolicyInv, UNCHANGED policyVars
  PROVE  PolicyInv'
<1>1. UNCHANGED <<manifest, pc, action, now, rule, grant, ruleUses, grantUses>>
  BY DEF policyVars
<1>2. Rules' = Rules /\ Grants' = Grants /\ Allowed' = Allowed
  BY <1>1 DEF Rules, Grants, Allowed
<1>3. PolicyTypeOK'
  BY <1>1, <1>2 DEF PolicyInv, PolicyTypeOK
<1>4. MatchedStays'
  BY <1>1, <1>2, MatchesStays DEF PolicyInv, MatchedStays
<1>5. BudgetsAreExact'
  BY <1>1, <1>2 DEF PolicyInv, BudgetsAreExact
<1> QED
  BY <1>3, <1>4, <1>5 DEF PolicyInv

\* It keeps the decisions, too.
LEMMA DecisionsUntouched ==
  ASSUME DecisionsAreOwn, UNCHANGED policyVars, UNCHANGED decision
  PROVE  DecisionsAreOwn'
<1>1. UNCHANGED <<manifest, pc, action, now, rule>>
  BY DEF policyVars
<1>2. Rules' = Rules
  BY <1>1 DEF Rules
<1>3. \A d \in Callers : DecisionBody(d)' = DecisionBody(d)
  BY <1>1, <1>2 DEF DecisionBody, ActionDigest, domain_hash
<1> QED
  BY <1>1, <1>3
  DEF DecisionsAreOwn, SignDecision, DecisionHash, SignatureOf, domain_hash,
      DecisionSigned, NoDecision

\* A step of the policy leaves signed decisions and what they rest on alone.
LEMMA PolicyStepKeeps ==
  ASSUME AuthorizationInv, NEW c \in Callers, PolicyStep(c),
         UNCHANGED <<decision, used, effects>>
  PROVE  AuthorizationInv'
<1>t. PolicyTypeOK
  BY DEF AuthorizationInv, PolicyInv
<1>1. PolicyInv'
  BY MatchKeeps, ChargeKeeps DEF AuthorizationInv, PolicyStep
<1>2. /\ pc[c] \in {"start", "charge"} /\ UNCHANGED manifest
      /\ \A d \in Callers \ {c} :
            /\ pc'[d] = pc[d] /\ action'[d] = action[d] /\ now'[d] = now[d]
            /\ rule'[d] = rule[d] /\ grant'[d] = grant[d]
  <2>1. CASE Match(c)
    BY <2>1, <1>t DEF Match, Verdict, PolicyTypeOK
  <2>2. CASE Charge(c)
    BY <2>2, <1>t DEF Charge, Verdict, PolicyTypeOK
  <2> QED
    BY <2>1, <2>2 DEF PolicyStep
<1>3. Rules' = Rules /\ Grants' = Grants
  BY <1>2 DEF Rules, Grants
<1>4. DecisionsAreOwn'
  <2> SUFFICES ASSUME NEW d \in Callers, decision[d] # NoDecision
               PROVE  /\ pc'[d] \in {"ALLOW", "KILL"}
                      /\ decision[d] = SignDecision(DecisionBody(d)', GatewayKey)
    BY DEF AuthorizationInv, DecisionsAreOwn, SignDecision, DecisionHash, SignatureOf,
           domain_hash, DecisionSigned
  <2>1. /\ pc[d] \in {"ALLOW", "KILL"}
        /\ decision[d] = SignDecision(DecisionBody(d), GatewayKey)
    BY DEF AuthorizationInv, DecisionsAreOwn
  <2>2. d # c
    BY <2>1, <1>2, SMTT(30)
  <2>3. DecisionBody(d)' = DecisionBody(d)
    BY <2>2, <1>2, <1>3, SMTT(30) DEF DecisionBody, ActionDigest, domain_hash
  <2> QED
    BY <2>1, <2>2, <2>3, <1>2
<1>5. \A x \in effects : Granted(x)'
  <2> SUFFICES ASSUME NEW x \in effects PROVE Granted(x)'
    BY SMTT(30)
  <2>1. PICK d \in Allowed :
            /\ x.auth = d /\ action[d] = x.action
            /\ Rules[rule[d]].id = x.rule
            /\ now[d] <= x.at /\ x.at <= now[d] + Ttl
            /\ x.secret = IF grant[d] = 0 THEN None ELSE Grants[grant[d]].broker_ref
    BY DEF AuthorizationInv, Granted
  <2>2. d \in Callers /\ d # c /\ d \in Allowed'
    BY <1>2 DEF Allowed
  <2> QED
    BY <2>1, <2>2, <1>2, <1>3 DEF Granted
<1> QED
  BY <1>1, <1>4, <1>5 DEF AuthorizationInv

\* Decide signs the caller's own decision (gateway.py:185-200).
LEMMA DecideKeeps ==
  ASSUME AuthorizationInv, NEW c \in Callers, Decide(c)
  PROVE  AuthorizationInv'
<1>1. /\ pc[c] \in {"ALLOW", "KILL"}
      /\ UNCHANGED <<manifest, pc, action, now, rule, grant, ruleUses, grantUses, used,
                     effects>>
  BY DEF Decide, policyVars
<1>2. decision' = [decision EXCEPT ![c] = SignDecision(DecisionBody(c), GatewayKey)]
  BY <1>1, BodyValidates, Zenon DEF Decide, AuthorizationInv
<1>3. Rules' = Rules /\ Grants' = Grants /\ Allowed' = Allowed
  BY <1>1 DEF Rules, Grants, Allowed
<1>4. PolicyInv'
  BY PolicyUntouched, SMTT(30) DEF AuthorizationInv, Decide
<1>5. \A d \in Callers : DecisionBody(d)' = DecisionBody(d)
  BY <1>1, <1>3 DEF DecisionBody, ActionDigest, domain_hash
<1>7. DecisionsAreOwn'
  <2> SUFFICES ASSUME NEW d \in Callers
               PROVE  \/ decision'[d] = NoDecision
                      \/ /\ pc[d] \in {"ALLOW", "KILL"}
                         /\ decision'[d] = SignDecision(DecisionBody(d), GatewayKey)
    BY <1>1, <1>2, <1>5, SMTT(30) DEF AuthorizationInv, DecisionsAreOwn, SignDecision, DecisionHash,
                            SignatureOf, domain_hash, DecisionSigned, NoDecision
  <2>1. CASE d = c
    BY <2>1, <1>1, <1>2 DEF AuthorizationInv, DecisionsAreOwn
  <2>2. CASE d # c
    BY <2>2, <1>2 DEF AuthorizationInv, DecisionsAreOwn
  <2> QED
    BY <2>1, <2>2, SMTT(30)
<1>8. \A x \in effects : Granted(x)'
  BY <1>1, <1>3 DEF AuthorizationInv, Granted
<1> QED
  BY <1>1, <1>4, <1>7, <1>8 DEF AuthorizationInv

\* A credential id names one grant (models.py:700-760): the broker finds the one
\* the policy charged.
LEMMA OneGrantPerName ==
  ASSUME manifest \in Manifests, NEW a, NEW g \in Named(a), NEW h \in Named(a)
  PROVE  g = h
<1>1. sorted_unique(Ids(Grants))
  BY AuthorizationAssumption, Zenon DEF AuthorizationAssumption, Signable, BodyValid, Grants
<1>2. /\ g \in DOMAIN Grants /\ h \in DOMAIN Grants /\ Grants[g].id = Grants[h].id
      /\ g \in Nat /\ h \in Nat /\ Grants[g].id \in Nat /\ Grants[h].id \in Nat
  BY Numbered DEF Named
<1>3. \A i, j \in DOMAIN Grants : i < j => Grants[i].id < Grants[j].id
  BY <1>1 DEF sorted_unique, Ids
<1> QED
  BY <1>2, <1>3

\* What the executor accepts is the decision of a caller that was allowed, with
\* that caller's action (executor.py:109-129).
LEMMA BoundIsAllowed ==
  ASSUME AuthorizationInv, NEW a, NEW d \in Signed \cup OtherDecisions, BoundTo(d, a)
  PROVE  \E c \in Allowed : /\ d.body.authorization_id = c /\ action[c] = a
                            /\ d.body.matched_rule_id = Rules[rule[c]].id
                            /\ d.body.decided = now[c] /\ d.body.expires = now[c] + Ttl
<1>m. manifest \in Manifests
  BY DEF AuthorizationInv, PolicyInv, PolicyTypeOK
<1>1. d \notin OtherDecisions
  BY <1>m, AuthorizationAssumption DEF AuthorizationAssumption, BoundTo
<1>2. PICK c \in Callers : d = decision[c] /\ d # NoDecision
  BY <1>1 DEF Signed
<1>3. /\ pc[c] \in {"ALLOW", "KILL"}
      /\ d = SignDecision(DecisionBody(c), GatewayKey)
  BY <1>2 DEF AuthorizationInv, DecisionsAreOwn
<1>4. d.body = DecisionBody(c)
  BY <1>3 DEF SignDecision
<1>5. d.body.authorization_id # None /\ d.body.action_sha256 = ActionDigest(a)
  BY SMTT(30) DEF BoundTo
<1>6. pc[c] = "ALLOW"
  BY <1>3, <1>4, <1>5, SMTT(30) DEF DecisionBody
<1>7. action[c] = a
  BY <1>4, <1>5, SMTT(30) DEF DecisionBody, ActionDigest, domain_hash
<1>8. /\ d.body.authorization_id = c /\ d.body.matched_rule_id = Rules[rule[c]].id
      /\ d.body.decided = now[c] /\ d.body.expires = now[c] + Ttl
  BY <1>4, <1>6 DEF DecisionBody
<1> QED
  BY <1>6, <1>7, <1>8 DEF Allowed

\* The broker releases the secret of the grant that was charged, or the dispatch
\* has no effect (executor.py:60-76).
LEMMA ReleasesCharged ==
  ASSUME AuthorizationInv, NEW c \in Allowed, NEW s \in Releases(action[c])
  PROVE  s = IF grant[c] = 0 THEN None ELSE Grants[grant[c]].broker_ref
<1>m. manifest \in Manifests
  BY DEF AuthorizationInv, PolicyInv, PolicyTypeOK
<1>1. Matches(action[c], now[c], rule[c], grant[c])
  BY SMTT(30) DEF AuthorizationInv, PolicyInv, MatchedStays, Allowed
<1>2. CASE action[c].credential = NoCredential
  BY <1>1, <1>2, SMTT(30) DEF Releases, Matches
<1>3. CASE action[c].credential # NoCredential
  <2>1. grant[c] \in Named(action[c]) /\ grant[c] # 0
    BY <1>1, <1>3, <1>m, Numbered DEF Matches, Named
  <2>2. PICK g \in Named(action[c]) : s = Grants[g].broker_ref
    BY <1>3 DEF Releases
  <2>3. g = grant[c]
    BY <2>1, <2>2, <1>m, OneGrantPerName
  <2> QED
    BY <2>1, <2>2, <2>3, SMTT(30)
<1> QED
  BY <1>2, <1>3

\* A dispatch has the effect that its caller was allowed, and uses the
\* authorization up (executor.py:103-160).
LEMMA DispatchKeeps ==
  ASSUME AuthorizationInv, NEW a, NEW d \in Signed \cup OtherDecisions, NEW t,
         Dispatch(a, d, t)
  PROVE  AuthorizationInv'
<1> DEFINE effect(s) == [action |-> a, auth |-> d.body.authorization_id, at |-> t,
                         rule |-> d.body.matched_rule_id, secret |-> s]
<1>1. /\ BoundTo(d, a)
      /\ d.body.decided <= t /\ t <= d.body.expires
      /\ d.body.authorization_id \notin used
      /\ used' = used \cup {d.body.authorization_id}
      /\ effects' = effects \cup {effect(s) : s \in Releases(a)}
      /\ UNCHANGED policyVars /\ UNCHANGED decision
  BY DEF Dispatch
<1>2. UNCHANGED <<manifest, pc, action, now, rule, grant>>
  BY <1>1 DEF policyVars
<1>3. Rules' = Rules /\ Grants' = Grants /\ Allowed' = Allowed
  BY <1>2 DEF Rules, Grants, Allowed
<1>4. PolicyInv'
  BY <1>1, PolicyUntouched DEF AuthorizationInv
<1>5. DecisionsAreOwn'
  BY <1>1, DecisionsUntouched, SMTT(30) DEF AuthorizationInv
<1>6. PICK c \in Allowed :
          /\ d.body.authorization_id = c /\ action[c] = a
          /\ d.body.matched_rule_id = Rules[rule[c]].id
          /\ d.body.decided = now[c] /\ d.body.expires = now[c] + Ttl
  BY <1>1, BoundIsAllowed, SMTT(30)
<1>7. \A s \in Releases(a) :
          s = IF grant[c] = 0 THEN None ELSE Grants[grant[c]].broker_ref
  BY <1>6, ReleasesCharged, SMTT(30)
<1>8. ASSUME NEW x \in effects' PROVE x.auth \in used' /\ Granted(x)'
  <2>1. CASE x \in effects
    BY <2>1, <1>1, <1>2, <1>3, SMTT(30) DEF AuthorizationInv, Granted
  <2>2. CASE x \in {effect(s) : s \in Releases(a)}
    <3>1. PICK s \in Releases(a) : x = effect(s)
      BY <2>2
    <3>2. /\ x.action = a /\ x.auth = c /\ x.at = t
          /\ x.rule = Rules[rule[c]].id /\ x.secret = s
      BY <3>1, <1>6, Zenon
    <3> QED
      BY <3>2, <1>1, <1>2, <1>3, <1>6, <1>7, SMTT(30) DEF Granted
  <2> QED
    BY <2>1, <2>2, <1>1, SMTT(30)
<1>9. ASSUME NEW x \in effects', NEW y \in effects', x.auth = y.auth PROVE x = y
  <2>1. CASE x \in effects /\ y \in effects
    BY <2>1, <1>9, SMTT(30) DEF AuthorizationInv
  <2>2. \A s \in Releases(a) : effect(s).auth \notin used
    BY <1>1, SMTT(30)
  <2>3. CASE x \in effects /\ y \notin effects
    BY <2>2, <2>3, <1>1, <1>9 DEF AuthorizationInv
  <2>4. CASE x \notin effects /\ y \in effects
    BY <2>2, <2>4, <1>1, <1>9 DEF AuthorizationInv
  <2>5. CASE x \notin effects /\ y \notin effects
    <3>1. PICK r \in Releases(a), s \in Releases(a) : x = effect(r) /\ y = effect(s)
      BY <2>5, <1>1
    <3>2. r = s
      BY <3>1, <1>7
    <3> QED
      BY <3>1, <3>2, SMTT(30)
  <2> QED
    BY <2>1, <2>3, <2>4, <2>5
<1> QED
  BY <1>4, <1>5, <1>8, <1>9 DEF AuthorizationInv

\* At the start nothing is decided or dispatched.
LEMMA InitAuthorizationInv == Init => AuthorizationInv
  BY InitPolicyInv DEF Init, AuthorizationInv, DecisionsAreOwn

\* No step of policy, gateway or executor breaks the invariant.
LEMMA NextAuthorizationInv == AuthorizationInv /\ [Next]_authorizationVars => AuthorizationInv'
<1> SUFFICES ASSUME AuthorizationInv, [Next]_authorizationVars PROVE AuthorizationInv'
  OBVIOUS
<1>1. CASE UNCHANGED authorizationVars
  <2>1. UNCHANGED policyVars /\ UNCHANGED <<decision, used, effects>>
    BY <1>1 DEF authorizationVars
  <2>2. UNCHANGED <<manifest, pc, action, now, rule, grant>>
    BY <2>1 DEF policyVars
  <2>3. Rules' = Rules /\ Grants' = Grants /\ Allowed' = Allowed
    BY <2>2 DEF Rules, Grants, Allowed
  <2>4. PolicyInv'
    BY <2>1, PolicyUntouched DEF AuthorizationInv
  <2>5. DecisionsAreOwn'
    BY <2>1, DecisionsUntouched, SMTT(30) DEF AuthorizationInv
  <2>6. \A x \in effects : Granted(x)'
    BY <2>1, <2>2, <2>3 DEF AuthorizationInv, Granted
  <2> QED
    BY <2>1, <2>4, <2>5, <2>6 DEF AuthorizationInv
<1>2. ASSUME NEW c \in Callers, PolicyStep(c) /\ UNCHANGED <<decision, used, effects>>
      PROVE  AuthorizationInv'
  BY <1>2, PolicyStepKeeps
<1>3. ASSUME NEW c \in Callers, Decide(c) PROVE AuthorizationInv'
  BY <1>3, DecideKeeps
<1>4. ASSUME NEW a \in Actions, NEW d \in Signed \cup OtherDecisions, NEW t \in Times,
             Dispatch(a, d, t)
      PROVE  AuthorizationInv'
  BY <1>4, DispatchKeeps
<1> QED
  BY <1>1, <1>2, <1>3, <1>4 DEF Next

-----------------------------------------------------------------------------
\* The invariant of policy, decisions and effects holds in every state.
THEOREM AuthorizationInvariance == Spec => []AuthorizationInv
  BY InitAuthorizationInv, NextAuthorizationInv, PTL DEF Spec

\* Rule and credential budgets are charged exactly for what was allowed, and
\* never exceeded, for any number of concurrent callers (policy.py:87-103).
THEOREM BudgetsHold == Spec => []BudgetsAreExact
<1>1. AuthorizationInv => BudgetsAreExact
  BY DEF AuthorizationInv, PolicyInv
<1> QED
  BY <1>1, AuthorizationInvariance, PTL

\* No decision the gateway builds is refused by its own validator
\* (gateway.py:161-200, models.py:1016-1059).
THEOREM DecisionsAlwaysValidate == Spec => []DecisionsValidate
<1>1. AuthorizationInv => DecisionsValidate
  <2> SUFFICES ASSUME AuthorizationInv, NEW c \in Callers, decision[c] = Raised PROVE FALSE
    BY DEF DecisionsValidate
  <2>1. decision[c] = NoDecision \/ decision[c] = SignDecision(DecisionBody(c), GatewayKey)
    BY DEF AuthorizationInv, DecisionsAreOwn
  <2> QED
    BY <2>1 DEF Raised, NoDecision, None, SignDecision
<1> QED
  BY <1>1, AuthorizationInvariance, PTL

\* Whatever decisions the executor is shown, what reaches the transport is an
\* action this run's policy allowed, under its rule, with the secret of the grant
\* charged for it, in time, and once (executor.py:103-160).
THEOREM OnlyAllowedEffects == Spec => []EffectsAreAllowed
<1>1. AuthorizationInv => EffectsAreAllowed
  BY DEF AuthorizationInv, EffectsAreAllowed, Granted
<1> QED
  BY <1>1, AuthorizationInvariance, PTL

\* A manifest verifies with the body the operator signed and with no other
\* (models.py:783-841).
THEOREM SignatureFixesBody == Spec => []OnlyTheSignedBodyVerifies
<1>1. AuthorizationInv => OnlyTheSignedBodyVerifies
  <2> SUFFICES ASSUME AuthorizationInv, NEW m \in Manifests
               PROVE  ManifestVerifies([manifest EXCEPT !.body = m.body], OperatorKey)
                          <=> m = manifest
    BY SMTT(30) DEF OnlyTheSignedBodyVerifies
  <2>1. /\ manifest = SignManifest(manifest.body, OperatorKey) /\ Signable(manifest.body)
        /\ m = SignManifest(m.body, OperatorKey) /\ Signable(m.body)
    BY AuthorizationAssumption
    DEF AuthorizationAssumption, AuthorizationInv, PolicyInv, PolicyTypeOK
  <2>2. ASSUME ManifestVerifies([manifest EXCEPT !.body = m.body], OperatorKey)
        PROVE  m = manifest
    <3>1. manifest.manifest_hash = ManifestHash(m.body)
      BY <2>1, <2>2 DEF ManifestVerifies, SignManifest
    <3>2. manifest.manifest_hash = ManifestHash(manifest.body)
      BY <2>1 DEF SignManifest
    <3>3. m.body = manifest.body
      BY <3>1, <3>2 DEF ManifestHash, domain_hash
    <3> QED
      BY <2>1, <3>3
  <2>3. ASSUME m = manifest
        PROVE  ManifestVerifies([manifest EXCEPT !.body = m.body], OperatorKey)
    <3>1. [manifest EXCEPT !.body = m.body] = manifest
      BY <2>1, <2>3 DEF SignManifest
    <3>2. /\ manifest.manifest_hash = ManifestHash(manifest.body)
          /\ manifest.operator_signature =
                SignatureOf(manifest.body.operator_key_id, OperatorKey, ManifestSigned,
                            ManifestHash(manifest.body))
      BY <2>1 DEF SignManifest
    <3>3. /\ manifest.operator_signature.keyId = manifest.body.operator_key_id
          /\ verify_signature(OperatorKey, manifest.operator_signature, ManifestSigned,
                              manifest.manifest_hash)
      BY <3>2 DEF SignatureOf, verify_signature
    <3>4. ManifestVerifies(manifest, OperatorKey)
      BY <2>1, <3>2, <3>3 DEF ManifestVerifies, Signable
    <3> QED
      BY <3>1, <3>4
  <2> QED
    BY <2>2, <2>3
<1> QED
  BY <1>1, AuthorizationInvariance, PTL

-----------------------------------------------------------------------------
\* The least-number principle, for sets of naturals.
LEMMA Least ==
  ASSUME NEW T \in SUBSET Nat, T # {}
  PROVE  \E m \in T : \A k \in T : m <= k
<1>1. PICK m \in T : \A y \in T : <<y, m>> \notin OpToRel(<, Nat)
  BY WFMin, NatLessThanWellFounded, Zenon
<1>2. \A y \in T : ~(y < m)
  BY <1>1, Zenon DEF OpToRel
<1> QED
  BY <1>2, SMT

\* A bounded set of naturals has a greatest member.
LEMMA Greatest ==
  ASSUME NEW n \in Nat, NEW T \in SUBSET (0..n), T # {}
  PROVE  \E m \in T : \A k \in T : k <= m
<1> DEFINE U == {n - k : k \in T}
<1>1. U \in SUBSET Nat /\ U # {}
  <2>1. \A k \in T : n - k \in Nat
    BY SMT
  <2> QED
    BY <2>1, Zenon
<1>2. PICK d \in U : \A k \in U : d <= k
  BY <1>1, Least, Zenon
<1>3. PICK m \in T : d = n - m
  OBVIOUS
<1>4. \A k \in T : n - m <= n - k
  BY <1>2, <1>3, Zenon
<1> QED
  BY <1>4, SMT

\* A character that is no slash belongs to a segment.
LEMMA SegmentAround ==
  ASSUME NEW p, Len(p) \in Nat, DOMAIN p = 1..Len(p), p[1] = "/",
         NEW i \in 1..Len(p), p[i] # "/"
  PROVE  \E b, e \in DOMAIN p : IsSegment(p, b, e) /\ b <= i /\ i <= e
<1>1. Len(p) \in Nat /\ DOMAIN p = 1..Len(p)
  OBVIOUS
<1> DEFINE B == {k \in 1..i : p[k] = "/"}
           E == {k \in i..(Len(p) + 1) : k = Len(p) + 1 \/ p[k] = "/"}
<1>2. PICK m \in B : \A k \in B : k <= m
  <2>1. B \in SUBSET (0..i) /\ 1 \in B /\ i \in Nat
    BY <1>1, SMT
  <2> QED
    BY <2>1, Greatest, Zenon
<1>3. PICK n \in E : \A k \in E : n <= k
  <2>1. E \in SUBSET Nat /\ Len(p) + 1 \in E
    BY <1>1, SMT
  <2> QED
    BY <2>1, Least, Zenon
<1>4. m \in 1..(i - 1) /\ p[m] = "/" /\ \A k \in (m + 1)..i : p[k] # "/"
  BY <1>1, <1>2, SMT
<1>5. n \in (i + 1)..(Len(p) + 1) /\ (n < Len(p) + 1 => p[n] = "/")
  BY <1>1, <1>3, SMT
<1>6. \A k \in i..(n - 1) : p[k] # "/"
  BY <1>1, <1>3, <1>5, SMTT(30)
<1>7. IsSegment(p, m + 1, n - 1)
  BY <1>1, <1>4, <1>5, <1>6, SMTT(30) DEF IsSegment
<1>8. m + 1 \in DOMAIN p /\ n - 1 \in DOMAIN p /\ m + 1 <= i /\ i <= n - 1
  BY <1>1, <1>4, <1>5, SMT
<1> QED
  BY <1>7, <1>8

\* STRING, as the provers know of no literal that it is a string.
Characters == STRING \cup {"/"}

\* Paths and prefixes are sequences of characters.
LEMMA Text ==
  ASSUME NEW p \in Seq(STRING)
  PROVE  p \in Seq(Characters)
<1>1. Len(p) \in Nat /\ DOMAIN p = 1..Len(p) /\ \A i \in 1..Len(p) : p[i] \in STRING
  OBVIOUS
<1>2. \A i \in 1..Len(p) : p[i] \in Characters
  BY <1>1, Zenon DEF Characters
<1>3. p = [i \in 1..Len(p) |-> p[i]]
  OBVIOUS
<1> QED
  BY <1>1, <1>2, <1>3, SMT

\* startswith, character by character.
LEMMA Starts ==
  ASSUME NEW p \in Seq(Characters), NEW q \in Seq(Characters)
  PROVE  startswith(p, q) <=> Len(q) <= Len(p) /\ \A i \in 1..Len(q) : p[i] = q[i]
<1>1. Len(p) \in Nat /\ Len(q) \in Nat
  OBVIOUS
<1>2. ASSUME Len(q) <= Len(p)
      PROVE  SubSeq(p, 1, Len(q)) = q <=> \A i \in 1..Len(q) : p[i] = q[i]
  <2>1. /\ SubSeq(p, 1, Len(q)) \in Seq(Characters) /\ Len(SubSeq(p, 1, Len(q))) = Len(q)
        /\ \A i \in 1..Len(q) : SubSeq(p, 1, Len(q))[i] = p[i]
    BY <1>1, <1>2, SMT
  <2> QED
    BY <1>1, <2>1, SMT
<1> QED
  BY <1>2 DEF startswith

\* The path of the root.
LEMMA Slash == <<"/">> \in Seq(Characters) /\ Len(<<"/">>) = 1 /\ <<"/">>[1] = "/"
<1>1. "/" \in Characters
  BY Zenon DEF Characters
<1>2. Len(<<"/">>) = 1
  BY SMT
<1>3. <<"/">>[1] = "/"
  BY Zenon
<1>4. <<"/">> \in Seq(Characters)
  BY <1>1, SMT
<1> QED
  BY <1>2, <1>3, <1>4

\* What path_is_unambiguous leaves to rely on (action.py:68-80).
LEMMA UnambiguousPath ==
  ASSUME NEW p \in Seq(Characters), path_is_unambiguous(p)
  PROVE  /\ Len(p) \in Nat /\ DOMAIN p = 1..Len(p) /\ Len(p) >= 1 /\ p[1] = "/"
         /\ \A i \in 2..Len(p) : ~(p[i] = "/" /\ p[i - 1] = "/")
<1>1. Len(p) \in Nat /\ DOMAIN p = 1..Len(p)
  OBVIOUS
<1>2. Len(p) >= 1 /\ p[1] = "/"
  <2>1. startswith(p, <<"/">>)
    BY Zenon DEF path_is_unambiguous
  <2>2. 1 <= Len(p) /\ \A i \in 1..1 : p[i] = <<"/">>[i]
    BY <2>1, Slash, Starts, Zenon
  <2>3. p[1] = <<"/">>[1]
    BY <2>2, SMT
  <2> QED
    BY <1>1, <2>2, <2>3, Slash, SMT
<1>3. ASSUME NEW i \in 2..Len(p)
      PROVE  ~(p[i] = "/" /\ p[i - 1] = "/")
  <2>1. i \in DOMAIN p \ {1}
    BY <1>1, SMT
  <2> QED
    BY <2>1, Zenon DEF path_is_unambiguous
<1> QED
  BY <1>1, <1>2, <1>3

\* rstrip removes at most the one slash at the end (policy.py:24).
LEMMA StrippedPrefix ==
  ASSUME NEW p \in Seq(Characters), path_is_unambiguous(p), p # <<"/">>
  PROVE  LET q == Stripped(p)
         IN  /\ q \in Seq(Characters) /\ Len(q) \in 2..Len(p)
             /\ Len(p) = Len(q) \/ (Len(p) = Len(q) + 1 /\ p[Len(p)] = "/")
             /\ \A i \in 1..Len(q) : q[i] = p[i]
             /\ p[1] = "/" /\ p[Len(q)] # "/"
<1>1. Len(p) \in Nat /\ DOMAIN p = 1..Len(p) /\ Len(p) >= 1 /\ p[1] = "/"
  BY UnambiguousPath
<1>2. Len(p) >= 2
  <2>1. Len(p) = 1 => p = <<"/">>
    BY <1>1, SMT
  <2> QED
    BY <1>1, <2>1, SMT
<1>3. \A i \in 2..Len(p) : ~(p[i] = "/" /\ p[i - 1] = "/")
  BY UnambiguousPath
<1>4. CASE p[Len(p)] = "/"
  <2>1. Stripped(p) = SubSeq(p, 1, Len(p) - 1)
    BY <1>2, <1>4, SMT DEF Stripped
  <2>2. p[Len(p) - 1] # "/" /\ Len(p) - 1 >= 2
    BY <1>1, <1>2, <1>3, <1>4, SMT
  <2>3. /\ Stripped(p) \in Seq(Characters) /\ Len(Stripped(p)) = Len(p) - 1
        /\ \A i \in 1..(Len(p) - 1) : Stripped(p)[i] = p[i]
    BY <1>1, <1>2, <2>1, SMT
  <2> QED
    BY <1>1, <1>2, <1>4, <2>2, <2>3, SMT
<1>5. CASE p[Len(p)] # "/"
  <2>1. Stripped(p) = p
    BY <1>5 DEF Stripped
  <2> QED
    BY <1>1, <1>2, <1>5, <2>1, SMT
<1> QED
  BY <1>4, <1>5

\* _path_matches in terms of positions (policy.py:21-25).
LEMMA MatchesByPosition ==
  ASSUME NEW path \in Seq(Characters), NEW prefix \in Seq(Characters),
         path_is_unambiguous(prefix), prefix # <<"/">>, NEW n, n = Len(Stripped(prefix))
  PROVE  path_matches(path, prefix) <=>
            /\ n <= Len(path) /\ \A i \in 1..n : path[i] = prefix[i]
            /\ n < Len(path) => path[n + 1] = "/"
<1> DEFINE q == Stripped(prefix)
           r == q \o <<"/">>
<1>1. q \in Seq(Characters) /\ n \in Nat /\ \A i \in 1..n : q[i] = prefix[i]
  BY StrippedPrefix
<1> HIDE DEF q
<1>2. n = Len(q)
  BY DEF q
<1>3. /\ r \in Seq(Characters) /\ Len(r) = n + 1 /\ r[n + 1] = "/"
      /\ \A i \in 1..n : r[i] = q[i]
  BY <1>1, <1>2, Slash
<1>4. path = q <=> Len(path) = n /\ \A i \in 1..n : path[i] = prefix[i]
  BY <1>1, <1>2, SMT
<1> HIDE DEF r
<1>5. startswith(path, r) <=>
        /\ n + 1 <= Len(path) /\ path[n + 1] = "/"
        /\ \A i \in 1..n : path[i] = prefix[i]
  <2>1. startswith(path, r) <=> n + 1 <= Len(path) /\ \A i \in 1..(n + 1) : path[i] = r[i]
    BY <1>3, Starts
  <2>2. 1..(n + 1) = 1..n \cup {n + 1}
    BY <1>1, SMT
  <2> QED
    BY <1>1, <1>3, <2>1, <2>2, Zenon
<1>6. path_matches(path, prefix) <=> path = q \/ startswith(path, r)
  BY Zenon DEF path_matches, q, r
<1>7. Len(path) \in Nat
  OBVIOUS
<1> QED
  BY <1>1, <1>4, <1>5, <1>6, <1>7, SMTT(30)

\* IsSegment with its bounds as inequalities.
LEMMA SegmentBounds ==
  ASSUME NEW p, Len(p) \in Nat, NEW b, NEW e
  PROVE  IsSegment(p, b, e) <=>
            /\ b \in Int /\ e \in Int /\ 2 <= b /\ b <= e /\ e <= Len(p)
            /\ p[b - 1] = "/" /\ \A k \in b..e : p[k] # "/"
            /\ e < Len(p) => p[e + 1] = "/"
<1>1. e \in 2..Len(p) => (b \in 2..e <=> b \in Int /\ 2 <= b /\ b <= e)
  BY SMT
<1>2. e \in 2..Len(p) <=> e \in Int /\ 2 <= e /\ e <= Len(p)
  BY SMT
<1>3. b \in Int /\ e \in Int /\ 2 <= b /\ b <= e => 2 <= e
  BY SMT
<1> QED
  BY <1>1, <1>2, <1>3, Zenon DEF IsSegment

\* A segment of the prefix stays one where the path goes on with a slash.
LEMMA SegmentKept ==
  ASSUME NEW path, NEW prefix, Len(path) \in Nat, Len(prefix) \in Nat,
         NEW n \in Nat, prefix[n] # "/",
         Len(prefix) = n \/ (Len(prefix) = n + 1 /\ prefix[Len(prefix)] = "/"),
         n <= Len(path), \A i \in 1..n : path[i] = prefix[i],
         n < Len(path) => path[n + 1] = "/",
         NEW b, NEW e, IsSegment(prefix, b, e)
  PROVE  IsSegment(path, b, e) /\ \A k \in b..e : path[k] = prefix[k]
<1>1. /\ b \in Int /\ e \in Int /\ 2 <= b /\ b <= e /\ e <= Len(prefix)
      /\ prefix[b - 1] = "/" /\ \A k \in b..e : prefix[k] # "/"
      /\ e < Len(prefix) => prefix[e + 1] = "/"
  BY SegmentBounds
<1>2. e <= n
  BY <1>1
<1>3. \A k \in b..e : path[k] = prefix[k]
  BY <1>1, <1>2
<1>4. path[b - 1] = "/"
  BY <1>1, <1>2, SMTT(30)
<1>5. e < Len(path) => path[e + 1] = "/"
  <2>1. CASE e < n
    BY <1>1, <2>1
  <2>2. CASE e = n
    BY <2>2
  <2> QED
    BY <1>1, <1>2, <2>1, <2>2, SMTT(30)
<1>6. e <= Len(path)
  BY <1>1, <1>2, SMTT(30)
<1> QED
  BY <1>1, <1>3, <1>4, <1>5, <1>6, SegmentBounds, Zenon

\* A sequence has its positions; no two slashes follow each other.
Positioned(p) == DOMAIN p = 1..Len(p)
NoDoubleSlash(p) == \A i \in 2..Len(p) : ~(p[i] = "/" /\ p[i - 1] = "/")

\* The segments of the prefix are those of the path where they stand exactly when
\* the two agree up to the end of the last one, and the path's segment ends there.
LEMMA SegmentsByPosition ==
  ASSUME NEW path, Len(path) \in Nat, path[1] = "/",
         NEW prefix, Len(prefix) \in Nat, Positioned(prefix), prefix[1] = "/",
         NoDoubleSlash(prefix),
         NEW n \in 2..Len(prefix), prefix[n] # "/",
         Len(prefix) = n \/ (Len(prefix) = n + 1 /\ prefix[Len(prefix)] = "/")
  PROVE  UnderPrefix(path, prefix) <=>
            /\ n <= Len(path) /\ \A i \in 1..n : path[i] = prefix[i]
            /\ n < Len(path) => path[n + 1] = "/"
<1>1. ASSUME n <= Len(path), \A i \in 1..n : path[i] = prefix[i],
             n < Len(path) => path[n + 1] = "/"
      PROVE  UnderPrefix(path, prefix)
  <2>1. n \in Nat
    BY SMTT(30)
  <2>2. ASSUME NEW b \in DOMAIN prefix, NEW e \in DOMAIN prefix, IsSegment(prefix, b, e)
        PROVE  IsSegment(path, b, e) /\ \A k \in b..e : path[k] = prefix[k]
    BY <1>1, <2>1, <2>2, SegmentKept, SMTT(30)
  <2> QED
    BY <2>2, Zenon DEF UnderPrefix
<1>2. ASSUME UnderPrefix(path, prefix)
      PROVE  /\ n <= Len(path) /\ \A i \in 1..n : path[i] = prefix[i]
             /\ n < Len(path) => path[n + 1] = "/"
  <2>1. ASSUME NEW i \in 1..n, prefix[i] # "/"
        PROVE  \E b, e \in DOMAIN prefix :
                  /\ IsSegment(prefix, b, e) /\ IsSegment(path, b, e)
                  /\ b <= i /\ i <= e /\ path[i] = prefix[i]
    <3>1. i \in 1..Len(prefix)
      OBVIOUS
    <3>2. PICK b, e \in DOMAIN prefix : IsSegment(prefix, b, e) /\ b <= i /\ i <= e
      BY <2>1, <3>1, SegmentAround, Zenon DEF Positioned
    <3>3. IsSegment(path, b, e) /\ \A k \in b..e : path[k] = prefix[k]
      BY <1>2, <3>2, Zenon DEF UnderPrefix
    <3>4. i \in b..e
      BY <3>2
    <3> QED
      BY <3>2, <3>3, <3>4, Zenon
  <2>2. n <= Len(path) /\ (n < Len(path) => path[n + 1] = "/")
    <3>1. PICK b, e \in DOMAIN prefix : /\ IsSegment(prefix, b, e) /\ IsSegment(path, b, e)
                                       /\ b <= n /\ n <= e
      <4>1. n \in 1..n
        OBVIOUS
      <4> QED
        BY <2>1, <4>1, Zenon
    <3>2. e = n
      <4>1. /\ e \in Int /\ e <= Len(prefix) /\ b \in Int
            /\ \A k \in b..e : prefix[k] # "/"
        BY <3>1, SegmentBounds, Zenon
      <4>2. e \in b..e
        BY <3>1, <4>1
      <4>3. prefix[e] # "/"
        BY <4>1, <4>2, Zenon
      <4> QED
        BY <3>1, <4>1, <4>3
    <3>3. e <= Len(path) /\ (e < Len(path) => path[e + 1] = "/")
      BY <3>1, SegmentBounds, Zenon
    <3> QED
      BY <3>2, <3>3, Zenon
  <2>3. ASSUME NEW i \in 1..n, prefix[i] = "/"
        PROVE  path[i] = "/"
    <3>1. CASE i = 1
      BY <3>1
    <3>2. CASE i # 1
      <4>1. i + 1 \in 1..n /\ prefix[i + 1] # "/"
        <5>1. i # n /\ i + 1 \in 2..n
          BY <2>3
        <5>2. i + 1 \in 2..Len(prefix) /\ (i + 1) - 1 = i
          BY <5>1
        <5>3. prefix[(i + 1) - 1] = "/"
          BY <2>3, <5>2, Zenon
        <5>4. i + 1 \in 1..n
          BY <5>1
        <5> QED
          BY <5>2, <5>3, <5>4, Zenon DEF NoDoubleSlash
      <4>2. PICK b, e \in DOMAIN prefix : /\ IsSegment(prefix, b, e) /\ IsSegment(path, b, e)
                                         /\ b <= i + 1 /\ i + 1 <= e
        BY <2>1, <4>1, Zenon
      <4>3. b \in Int /\ e \in Int /\ \A k \in b..e : prefix[k] # "/"
        BY <4>2, SegmentBounds, Zenon
      <4>4. i \notin b..e
        BY <2>3, <4>3, Zenon
      <4>5. b = i + 1
        BY <4>2, <4>3, <4>4, SMTT(30)
      <4>6. path[b - 1] = "/" /\ b - 1 = i
        BY <4>2, <4>5, SegmentBounds, SMTT(30)
      <4> QED
        BY <4>6
    <3> QED
      BY <3>1, <3>2
  <2>4. \A i \in 1..n : path[i] = prefix[i]
    BY <2>1, <2>3, Zenon
  <2> QED
    BY <2>2, <2>4
<1> QED
  BY <1>1, <1>2

\* _path_matches compares text and means segments (policy.py:21-25).
LEMMA PrefixIsBySegment ==
  ASSUME NEW path \in Seq(Characters), NEW prefix \in Seq(Characters),
         path_is_unambiguous(path), path_is_unambiguous(prefix)
  PROVE  path_matches(path, prefix) <=> UnderPrefix(path, prefix)
<1>1. /\ Len(path) \in Nat /\ path[1] = "/"
      /\ Len(prefix) \in Nat /\ Positioned(prefix)
      /\ NoDoubleSlash(prefix)
  BY UnambiguousPath, Zenon DEF NoDoubleSlash, Positioned
<1>2. CASE prefix = <<"/">>
  <2>1. Len(prefix) = 1
    BY <1>2, Slash
  <2>2. \A b, e : ~IsSegment(prefix, b, e)
    BY <2>1, SMT DEF IsSegment
  <2>3. path_matches(path, prefix)
    BY <1>2, Zenon DEF path_matches
  <2> QED
    BY <2>2, <2>3, Zenon DEF UnderPrefix
<1>3. CASE prefix # <<"/">>
  <2>1. PICK n : n = Len(Stripped(prefix))
    BY Zenon
  <2>2. /\ n \in 2..Len(prefix) /\ prefix[1] = "/" /\ prefix[n] # "/"
        /\ Len(prefix) = n \/ (Len(prefix) = n + 1 /\ prefix[Len(prefix)] = "/")
    BY <1>3, <2>1, StrippedPrefix, Zenon
  <2>3. path_matches(path, prefix) <=>
            /\ n <= Len(path) /\ \A i \in 1..n : path[i] = prefix[i]
            /\ n < Len(path) => path[n + 1] = "/"
    BY <1>3, <2>1, MatchesByPosition, Zenon
  <2> QED
    BY <1>1, <2>2, <2>3, SegmentsByPosition, ZenonT(40)
<1> QED
  BY <1>2, <1>3

-----------------------------------------------------------------------------
\* Every path an action can have and every prefix a rule can have are compared
\* segment by segment (policy.py:21-25, action.py:68-80).
LEMMA RulePrefixes ==
  ASSUME manifest \in Manifests, NEW a \in Actions, NEW i \in DOMAIN Rules,
         NEW p \in Rules[i].path_prefixes
  PROVE  path_matches(a.path, p) <=> UnderPrefix(a.path, p)
<1>1. a.path \in Seq(STRING) /\ path_is_unambiguous(a.path)
  BY FieldsAssumption, Zenon DEF FieldsAssumption
<1>2. Rules[i].path_prefixes \subseteq Seq(STRING)
  BY FieldsAssumption, Zenon DEF FieldsAssumption, Rules
<1>3. path_is_unambiguous(p)
  BY AuthorizationAssumption, Zenon
  DEF AuthorizationAssumption, Signable, BodyValid, RuleValid, Rules
<1>4. a.path \in Seq(Characters) /\ p \in Seq(Characters)
  BY <1>1, <1>2, Text
<1> QED
  BY <1>1, <1>3, <1>4, PrefixIsBySegment

\* The rule that counts is one that matches (policy.py:59-64).
LEMMA FirstMatches ==
  ASSUME manifest \in Manifests, NEW a, Matching(a) # {}
  PROVE  FirstMatch(a) \in Matching(a)
<1>1. Matching(a) \in SUBSET Nat
  BY Numbered DEF Matching
<1>2. \E i \in Matching(a) : \A j \in Matching(a) : i <= j
  BY <1>1, Least, Zenon
<1> QED
  BY <1>2, Zenon DEF FirstMatch

\* While the manifest is valid, so is every second hop it rests on
\* (models.py:828-841).
LEMMA HopsAttested ==
  ASSUME manifest \in Manifests, NEW t \in Int,
         manifest.body.not_before <= t, t <= manifest.body.expires_at,
         NEW h \in DOMAIN manifest.body.second_hops
  PROVE  LET hop == manifest.body.second_hops[h].body
         IN  /\ hop.run_id = manifest.body.run_id
             /\ hop.issued_at <= t /\ t <= hop.expires_at
<1> DEFINE hop == manifest.body.second_hops[h].body
<1>1. /\ hop.run_id = manifest.body.run_id
      /\ hop.issued_at <= manifest.body.not_before
      /\ hop.expires_at >= manifest.body.expires_at
  BY AuthorizationAssumption, Zenon DEF AuthorizationAssumption, Signable, verify_second_hops
<1>2. /\ hop.issued_at \in Int /\ hop.expires_at \in Int
      /\ manifest.body.not_before \in Int /\ manifest.body.expires_at \in Int
  BY FieldsAssumption, Zenon DEF FieldsAssumption
<1> HIDE DEF hop
<1>3. hop.issued_at <= t /\ t <= hop.expires_at
  BY <1>1, <1>2, SMT
<1> QED
  BY <1>1, <1>3, Zenon DEF hop

\* What PolicyInv says of a caller that was allowed is what AllowedIsGranted asks.
LEMMA AllowedGranted == PolicyInv => AllowedIsGranted
<1> SUFFICES ASSUME PolicyInv, NEW c \in Allowed
    PROVE   LET a == action[c]
            IN  /\ Rules[rule[c]].host = a.host /\ Rules[rule[c]].port = a.port
                /\ a.shape \in Rules[rule[c]].shapes /\ Rules[rule[c]].pins # {}
                /\ \E p \in Rules[rule[c]].path_prefixes : UnderPrefix(a.path, p)
                /\ a.credential # NoCredential =>
                      LET g == Grants[grant[c]]
                      IN  /\ g.id = a.credential /\ ~g.is_canary /\ g.audience = a.host
                          /\ \E k \in DOMAIN g.rules : g.rules[k] = Rules[rule[c]].id
                          /\ now[c] <= g.expires_at
                /\ \A h \in DOMAIN manifest.body.second_hops :
                      LET hop == manifest.body.second_hops[h].body
                      IN  /\ hop.run_id = manifest.body.run_id
                          /\ hop.issued_at <= now[c] /\ now[c] <= hop.expires_at
  BY Zenon DEF AllowedIsGranted
<1> DEFINE a == action[c]
<1>1. c \in Callers /\ pc[c] = "ALLOW"
  BY DEF Allowed
<1>2. manifest \in Manifests /\ now[c] \in Int
  BY <1>1, SMTT(30) DEF PolicyInv, PolicyTypeOK
<1>3. /\ a \in Actions /\ rule[c] \in DOMAIN Rules
      /\ Matches(a, now[c], rule[c], grant[c])
  BY <1>1 DEF PolicyInv, MatchedStays
<1> HIDE DEF a
<1>4. rule[c] \in Matching(a)
  BY <1>2, <1>3, FirstMatches, Zenon DEF Matches
<1>5. /\ Rules[rule[c]].host = a.host /\ Rules[rule[c]].port = a.port
      /\ a.shape \in Rules[rule[c]].shapes
      /\ \E p \in Rules[rule[c]].path_prefixes : UnderPrefix(a.path, p)
  BY <1>2, <1>3, <1>4, RulePrefixes, Zenon DEF Matching
<1>6. Rules[rule[c]].pins # {}
  BY <1>2, <1>3, AuthorizationAssumption, Zenon
  DEF AuthorizationAssumption, Signable, BodyValid, RuleValid, Rules
<1>7. ASSUME a.credential # NoCredential
      PROVE  LET g == Grants[grant[c]]
             IN  /\ g.id = a.credential /\ ~g.is_canary /\ g.audience = a.host
                 /\ \E k \in DOMAIN g.rules : g.rules[k] = Rules[rule[c]].id
                 /\ now[c] <= g.expires_at
  <2>1. grant[c] \in Named(a) /\ CredentialUsable(a, rule[c], grant[c], now[c])
    BY <1>3, <1>7, Zenon DEF Matches
  <2>2. grant[c] \in DOMAIN Grants /\ Grants[grant[c]].id = a.credential
    BY <2>1, Zenon DEF Named
  <2>3. Grants[grant[c]].expires_at \in Int
    BY <1>2, <2>2, FieldsAssumption, Zenon DEF FieldsAssumption, Grants
  <2>4. now[c] <= Grants[grant[c]].expires_at
    <3>1. Grants[grant[c]].expires_at >= now[c]
      BY <2>1, Zenon DEF CredentialUsable
    <3> QED
      BY <1>2, <2>3, <3>1, SMT
  <2> QED
    BY <2>1, <2>2, <2>4, Zenon DEF CredentialUsable
<1>8. manifest.body.not_before <= now[c] /\ now[c] <= manifest.body.expires_at
  BY <1>3, Zenon DEF Matches
<1>9. \A h \in DOMAIN manifest.body.second_hops :
         LET hop == manifest.body.second_hops[h].body
         IN  /\ hop.run_id = manifest.body.run_id
             /\ hop.issued_at <= now[c] /\ now[c] <= hop.expires_at
  BY <1>2, <1>8, HopsAttested, Zenon
<1> QED
  BY <1>5, <1>6, <1>7, <1>9, Zenon DEF a

\* Paths are compared segment by segment, whatever actions and rules there are:
\* comparing text with a slash after the prefix is enough, because neither has
\* an empty segment (policy.py:21-25).
THEOREM PathsMatchSegments == Spec => []PathsMatchBySegment
<1>1. AuthorizationInv => PathsMatchBySegment
  <2> SUFFICES ASSUME AuthorizationInv, NEW c \in Callers, NEW i \in DOMAIN Rules,
                      action[c] # NoAction, NEW p \in Rules[i].path_prefixes
               PROVE  path_matches(action[c].path, p) <=> UnderPrefix(action[c].path, p)
    BY Zenon DEF PathsMatchBySegment
  <2>1. manifest \in Manifests /\ action[c] \in Actions
    BY DEF AuthorizationInv, PolicyInv, PolicyTypeOK
  <2> QED
    BY <2>1, RulePrefixes, Zenon
<1> QED
  BY <1>1, AuthorizationInvariance, PTL

\* The closed world of the policy: what authorize allows is granted by a rule, a
\* credential and second hops of the signed manifest, at that time
\* (policy.py:42-103, models.py:705-841).
THEOREM OnlyGrantedIsAllowed == Spec => []AllowedIsGranted
<1>1. AuthorizationInv => AllowedIsGranted
  BY AllowedGranted, Zenon DEF AuthorizationInv
<1> QED
  BY <1>1, AuthorizationInvariance, PTL
=============================================================================
