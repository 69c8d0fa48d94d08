----------------------- MODULE AcknowledgementProofs ------------------------
(***************************************************************************)
(* The kill acknowledgement of the composed runtime: KillInv of module     *)
(* ContainmentInvariant is preserved by a step that stays outside contain  *)
(* and leaves the leases alone (Roams), by one that takes or drops a lease *)
(* or a place in the registry, and by the steps of contain itself.         *)
(***************************************************************************)
EXTENDS ContainmentProofs, FiniteSetTheorems

\* What a step of thread t may do to the dispatches and leases of others.
HoldMoves(t) ==
    /\ after'[t] = "unregister" => pc'[t] \in FailLabels \cup {"unregister", "done"}
    /\ Holds(t)' =>
          /\ t \in Workers \cup Replayers /\ target'[t] \in registered'
          /\ target'[t] \notin registered \/ (Holds(t) /\ target'[t] = target[t])
    /\ pc'[t] = "transport" /\ phase' # "KILLED" => target'[t] \in Leased'
    /\ \A a \in registered : a \in registered' \/ (Holds(t) /\ a = target[t])
    /\ \A a \in Leased : a \in Leased' \/ phase' = "KILLED" \/ (Holds(t) /\ a = target[t])

\* A step outside contain and emergency_isolate.
Outside(t) ==
    /\ UNCHANGED containVars
    /\ LoggedAcks' = LoggedAcks
    /\ phase' = "KILLED" => phase = "KILLED"
    /\ pc'[t] \notin ContainLabels
    /\ pc'[t] = "transport" => pc[t] = "transport" \/ phase = "RUNNING"

\* A step under _contain_lock.
Inside(t) ==
    /\ containOwner \in {t, Free}
    /\ AckInv' /\ AckClaim(t)'

\* Where a step goes that neither takes nor drops a registration.
Walks(t) ==
    \/ pc'[t] = "done"
    \/ /\ pc[t] \in HoldLabels \ {"unregister"} /\ pc'[t] \in HoldLabels \ {"transport"}
       /\ after'[t] = after[t]
    \/ pc[t] \in HoldLabels /\ pc'[t] = "fail"
    \/ /\ pc[t] \in FailLabels
       /\ pc'[t] \in FailLabels \cup {after[t]}
       /\ after'[t] = after[t]
    \/ /\ pc[t] \notin FailLabels \cup HoldLabels \cup {"done"}
       /\ pc'[t] \notin HoldLabels
       /\ after'[t] \in {after[t], "watch"}

\* Such a step outside contain, which leaves the leases alone.
Roams(t) == Walks(t) /\ Outside(t) /\ UNCHANGED <<registered, active, inflight>>

\* What the guarantee says of the other threads.
LEMMA StepMoves ==
  ASSUME ContainmentInv, NEW t \in Threads, Guarantee(t)
  PROVE  /\ TypesOK /\ TypesOK' /\ PhaseMoves /\ consumed \subseteq consumed'
         /\ \A u \in Threads \ {t} : /\ pc'[u] = pc[u] /\ after'[u] = after[u]
                                     /\ target'[u] = target[u]
                                     /\ Holds(u)' <=> Holds(u)
<1>1. TypesOK /\ TypesOK'
  BY TypesKeep, Zenon DEF ContainmentInv, Shared
<1>2. PhaseMoves /\ consumed \subseteq consumed'
  BY Zenon DEF Guarantee
<1>3. \A u \in Threads \ {t} : pc'[u] = pc[u] /\ after'[u] = after[u] /\ target'[u] = target[u]
  BY Zenon DEF Guarantee, Jumps, LocalMoves
<1> QED
  BY <1>1, <1>2, <1>3, Zenon DEF Holds

\* Leases held by other threads stay what they are.
LEMMA OthersHold ==
  ASSUME ContainmentInv, KillInv, NEW t \in Threads, Guarantee(t), HoldMoves(t)
  PROVE  \A u \in Threads : HoldClaim(u)'
<1>1. PhaseMoves /\ \A u \in Threads \ {t} :
          /\ pc'[u] = pc[u] /\ after'[u] = after[u] /\ target'[u] = target[u]
          /\ Holds(u)' <=> Holds(u)
  BY StepMoves, Zenon
<1>2. \A u \in Threads : HoldClaim(u)
  BY Zenon DEF KillInv
<1>3. ASSUME NEW u \in Threads \ {t}, Holds(u)
      PROVE  /\ Holds(t) => target[t] # target[u]
             /\ target[u] \in registered /\ target[u] \in registered'
             /\ Holds(t)' => target'[t] # target'[u]
  <2>1. Holds(t) => target[t] # target[u]
    BY <1>2, <1>3, Zenon DEF HoldClaim
  <2>2. target[u] \in registered
    BY <1>2, <1>3, Zenon DEF HoldClaim
  <2> QED
    BY <1>1, <2>1, <2>2, Zenon DEF HoldMoves
<1>4. HoldClaim(t)'
  BY <1>1, <1>3, Zenon DEF HoldClaim, HoldMoves
<1>5. ASSUME NEW u \in Threads \ {t}
      PROVE  HoldClaim(u)'
  <2>1. (after[u] = "unregister" => pc[u] \in FailLabels \cup {"unregister", "done"})'
    BY <1>1, <1>2, Zenon DEF HoldClaim
  <2>2. (Holds(u) => u \in Workers \cup Replayers /\ target[u] \in registered)'
    BY <1>1, <1>2, <1>3, Zenon DEF HoldClaim
  <2>3. (\A v \in Threads \ {u} : Holds(u) /\ Holds(v) => target[v] # target[u])'
    <3> SUFFICES ASSUME NEW v \in Threads \ {u}, Holds(u)', Holds(v)'
                 PROVE  target'[v] # target'[u]
      BY Zenon DEF Holds
    <3>1. CASE v = t
      BY <1>1, <1>3, <3>1, Zenon
    <3>2. CASE v # t
      BY <1>1, <1>2, <3>2, Zenon DEF HoldClaim
    <3> QED
      BY <3>1, <3>2, Zenon
  <2>4. (pc[u] = "transport" /\ phase # "KILLED" => target[u] \in Leased)'
    <3> SUFFICES ASSUME pc[u] = "transport", phase' # "KILLED"
                 PROVE  target[u] \in Leased'
      BY <1>1, Zenon
    <3>1. Holds(u)
      BY Zenon DEF Holds, HoldLabels
    <3>2. phase # "KILLED"
      BY <1>1, Zenon DEF PhaseMoves
    <3> QED
      BY <1>2, <1>3, <3>1, <3>2, Zenon DEF HoldClaim, HoldMoves
  <2> QED
    BY <2>1, <2>2, <2>3, <2>4, Zenon DEF HoldClaim
<1> QED
  BY <1>4, <1>5, Zenon


\* Fewer dispatches wait for their transport when none starts to.
LEMMA FewerTransports ==
  ASSUME NEW t \in Threads, \A u \in Threads \ {t} : pc'[u] = pc[u],
         pc'[t] = "transport" => pc[t] = "transport"
  PROVE  /\ Cardinality(Transporting) \in Nat /\ Cardinality(Transporting') \in Nat
         /\ Cardinality(Transporting') <= Cardinality(Transporting)
<1>1. IsFiniteSet(Threads)
  BY RolesAssumption, Zenon
<1>2. Transporting \subseteq Threads /\ Transporting' \subseteq Transporting
  BY Zenon DEF Transporting
<1>3. IsFiniteSet(Transporting) /\ IsFiniteSet(Transporting')
  BY <1>1, <1>2, FS_Subset, Zenon
<1> QED
  BY <1>2, <1>3, FS_Subset, FS_CardinalityType, Zenon

\* A step outside contain disturbs neither the acknowledgement nor its maker.
LEMMA OutsideKeeps ==
  ASSUME ContainmentInv, KillInv, NEW t \in Threads, Guarantee(t), Outside(t)
  PROVE  AckInv' /\ \A u \in Threads : AckClaim(u)'
<1>1. PhaseMoves /\ \A u \in Threads \ {t} : pc'[u] = pc[u]
  BY StepMoves, Zenon
<1>2. /\ ack' = ack /\ emergency' = emergency /\ isolation' = isolation
      /\ containOwner' = containOwner /\ draft' = draft /\ wallSteps' = wallSteps
      /\ LoggedAcks' = LoggedAcks
  BY Zenon DEF Outside, containVars, isolateVars
<1>3. Calm' => Calm
  BY <1>1, <1>2, Zenon DEF Calm, PhaseMoves
<1>4. /\ phase' = "KILLED" <=> phase = "KILLED"
      /\ phase = "KILLING" => phase' = "KILLING"
  BY <1>1, Zenon DEF PhaseMoves, Outside, ContainmentInv, Shared, TypesOK, Phases
<1>5. AckInv'
  BY <1>2, <1>3, <1>4, Zenon DEF KillInv, AckInv, DraftOK
<1>6. AckClaim(t)'
  BY Zenon DEF AckClaim, Outside, ContainLabels
<1>7. ASSUME NEW u \in Threads \ {t}
      PROVE  AckClaim(u)'
  <2>1. AckClaim(u) /\ pc'[u] = pc[u]
    BY <1>1, Zenon DEF KillInv
  <2>2. AckCoherent' = AckCoherent
    BY <1>2, Zenon DEF AckCoherent
  <2>3. phase = "KILLING" =>
            /\ Cardinality(Transporting) \in Nat /\ Cardinality(Transporting') \in Nat
            /\ Cardinality(Transporting') <= Cardinality(Transporting)
    BY <1>1, FewerTransports, Zenon DEF Outside
  <2>4. /\ (pc[u] \in ContainLabels => containOwner = u)'
        /\ (pc[u] \in ContainLabels \ {"cut"} => LoggedAcks = {})'
        /\ (pc[u] \in {"signal", "isolate", "mark", "sign"} => ack = NoAck)'
        /\ (pc[u] = "log" => ack # NoAck)'
        /\ (pc[u] = "cut" => emergency /\ LoggedAcks = {ack} \ {NoAck})'
    BY <1>2, <2>1, Zenon DEF AckClaim
  <2> SUFFICES ASSUME Calm'
               PROVE  /\ (pc[u] \in {"signal", "isolate"} =>
                            /\ phase = "KILLING" /\ isolation = NotIsolated /\ ~draft.back
                            /\ Cardinality(Transporting) <= draft.inflight)'
                      /\ (pc[u] = "isolate" => Cardinality(Transporting) <= draft.signalled)'
                      /\ (pc[u] \in {"mark", "sign"} => AckCoherent)'
                      /\ (pc[u] = "mark" => phase = "KILLING")'
                      /\ (pc[u] \in {"sign", "log"} => phase = "KILLED")'
    BY <2>4, Zenon DEF AckClaim
  <2>5. CASE pc[u] \in {"signal", "isolate"}
    <3>1. /\ phase = "KILLING" /\ isolation = NotIsolated /\ ~draft.back
          /\ Cardinality(Transporting) <= draft.inflight
          /\ pc[u] = "isolate" => Cardinality(Transporting) <= draft.signalled
      BY <1>3, <2>1, <2>5, Zenon DEF AckClaim
    <3>2. draft.inflight \in Nat /\ draft.signalled \in Nat
      BY Zenon DEF KillInv, AckInv, DraftOK
    <3>3. /\ Cardinality(Transporting') <= draft.inflight
          /\ pc[u] = "isolate" => Cardinality(Transporting') <= draft.signalled
      BY <2>3, <3>1, <3>2, SMT
    <3> QED
      BY <1>2, <1>4, <2>1, <2>5, <3>1, <3>3, Zenon
  <2>6. CASE pc[u] \notin {"signal", "isolate"}
    BY <1>2, <1>3, <1>4, <2>1, <2>2, <2>6, Zenon DEF AckClaim
  <2> QED
    BY <2>5, <2>6, Zenon
<1> QED
  BY <1>5, <1>6, <1>7, Zenon

\* What the mirror has accepted of acknowledgements, step by step.
LEMMA AcksStay ==
  ASSUME UNCHANGED <<events, mirrored>>
  PROVE  LoggedAcks' = LoggedAcks
BY Zenon DEF LoggedAcks, Logged, Kinds

\* A commit logs the acknowledgement it carries, or none (supervisor.py:246-268).
LEMMA CommitAcks ==
  ASSUME TypesOK, NEW e, CommitOk(e) \/ CommitRaises(e)
  PROVE  /\ CommitRaises(e) \/ e.kind # "KILL_ACKNOWLEDGED" => LoggedAcks' = LoggedAcks
         /\ CommitOk(e) /\ e.kind = "KILL_ACKNOWLEDGED" =>
                LoggedAcks' = LoggedAcks \cup {e.ack}
<1>1. CASE UNCHANGED <<events, mirrored>>
  <2>1. ~CommitOk(e)
    <3>1. CommitOk(e) => mirrored' = mirrored + 1
      BY Zenon DEF CommitOk, Ledger!CommitMirrored
    <3>2. mirrored \in 0..Len(events) /\ Len(events) \in Nat
      <4>1. TypesOK /\ LedgerMoves
        BY <1>1, Zenon DEF LedgerMoves
      <4> QED
        BY <4>1, LedgerStays, Zenon DEF TypesOK
    <3> QED
      BY <1>1, <3>1, <3>2, SMTT(30)
  <2> QED
    BY <1>1, <2>1, AcksStay, Zenon
<1>2. CASE events' = Append(events, e)
  <2>1. /\ Len(events) \in Nat /\ Len(events') = Len(events) + 1
        /\ events'[Len(events) + 1] = e
        /\ \A i \in 1..Len(events) : events'[i] = events[i]
    BY <1>2, Appended, Zenon
  <2>2. mirrored \in 0..Len(events)
    BY Zenon DEF TypesOK
  <2>3. CASE mirrored' = mirrored
    <3>1. Logged' = Logged /\ \A i \in Logged : events'[i] = events[i]
      BY <2>1, <2>2, <2>3, SMTT(30) DEF Logged, Kinds
    <3>2. LoggedAcks' = LoggedAcks
      BY <3>1, Zenon DEF LoggedAcks
    <3>3. ~CommitOk(e)
      <4>1. CommitOk(e) => mirrored' = mirrored + 1
        BY Zenon DEF CommitOk, Ledger!CommitMirrored
      <4> QED
        BY <2>1, <2>2, <2>3, <4>1, SMTT(30)
    <3> QED
      BY <3>2, <3>3, Zenon
  <2>4. CASE mirrored = Len(events) /\ mirrored' = mirrored + 1 /\ ~CommitRaises(e)
    <3>1. \A i \in Logged : events'[i] = events[i]
      BY <2>1, SMT DEF Logged, Kinds
    <3>2. CASE e.kind # "KILL_ACKNOWLEDGED"
      <4>1. Logged' = Logged
        BY <2>1, <2>2, <2>4, <3>2, SMTT(30) DEF Logged, Kinds
      <4> QED
        BY <2>4, <3>1, <3>2, <4>1, Zenon DEF LoggedAcks
    <3>3. CASE e.kind = "KILL_ACKNOWLEDGED"
      <4>1. Logged' = Logged \cup {Len(events) + 1}
        BY <2>1, <2>2, <2>4, <3>3, SMTT(30) DEF Logged, Kinds
      <4>2. LoggedAcks' = LoggedAcks \cup {e.ack}
        BY <2>1, <3>1, <4>1, Zenon DEF LoggedAcks
      <4> QED
        BY <2>4, <3>3, <4>2, Zenon
    <3> QED
      BY <3>2, <3>3, Zenon
  <2>5. \/ mirrored' = mirrored
        \/ mirrored = Len(events) /\ mirrored' = mirrored + 1 /\ ~CommitRaises(e)
    <3>1. CommitOk(e) => mirrored = Len(events) /\ mirrored' = mirrored + 1
      BY Zenon DEF CommitOk, Ledger!CommitMirrored, Ledger!MirrorAccepts
    <3>2. CommitRaises(e) => mirrored' = mirrored
      BY Zenon DEF CommitRaises, Ledger!CommitUnmirrored, evidenceVars
    <3> QED
      BY <3>1, <3>2, Zenon
  <2> QED
    BY <2>3, <2>4, <2>5, Zenon
<1> QED
  BY <1>1, <1>2, Zenon DEF CommitOk, CommitRaises, Ledger!CommitMirrored, Ledger!CommitUnmirrored,
                    evidenceVars

\* A step that takes no registration or lease, and drops none, keeps them all.
LEMMA WalkKeeps ==
  ASSUME ContainmentInv, KillInv, NEW t \in Threads, Guarantee(t), Walks(t),
         UNCHANGED registered, UNCHANGED <<active, inflight>> \/ MarkKilled,
         UNCHANGED target \/ pc[t] = "replay"
  PROVE  HoldMoves(t) /\ LeaseInv'
<1>1. HoldClaim(t) /\ after[t] \in {"done", "watch", "unregister"}
  BY Zenon DEF KillInv, ContainmentInv, Shared, TypesOK
<1>2. after'[t] = "unregister" => pc'[t] \in FailLabels \cup {"unregister", "done"}
  <2>1. CASE pc[t] \in HoldLabels \ {"unregister"} /\ after'[t] = after[t]
    BY <1>1, <2>1, Zenon DEF HoldClaim, HoldLabels, FailLabels, ContainLabels
  <2>2. CASE pc'[t] \in {"done", "fail"}
    BY <2>2, Zenon DEF FailLabels
  <2>3. CASE pc'[t] \in FailLabels \cup {after[t]} /\ after'[t] = after[t]
    BY <2>3, Zenon
  <2>4. CASE /\ pc[t] \notin FailLabels \cup HoldLabels \cup {"done"}
             /\ after'[t] \in {after[t], "watch"}
    BY <1>1, <2>4, Zenon DEF HoldClaim, HoldLabels
  <2> QED
    BY <2>1, <2>2, <2>3, <2>4, Zenon DEF Walks
<1>3. Holds(t)' => Holds(t) /\ target'[t] = target[t]
  <2>1. CASE pc'[t] = "done"
    BY <2>1, Zenon DEF Holds, HoldLabels
  <2>2. CASE pc[t] \in HoldLabels
    BY <2>2, Zenon DEF Holds, HoldLabels
  <2>3. CASE /\ pc[t] \in FailLabels
             /\ pc'[t] \in FailLabels \cup {after[t]}
             /\ after'[t] = after[t]
    <3>1. pc[t] \notin {"done", "replay"}
      BY <2>3, Zenon DEF FailLabels, ContainLabels
    <3>2. CASE after[t] = "unregister"
      BY <3>1, <3>2, Zenon DEF Holds
    <3>3. CASE after[t] # "unregister"
      <4>1. pc'[t] \notin HoldLabels
        BY <1>1, <2>3, <3>3, Zenon DEF FailLabels, ContainLabels, HoldLabels
      <4> QED
        BY <2>3, <3>3, <4>1, Zenon DEF Holds
    <3> QED
      BY <3>2, <3>3, Zenon
  <2>4. CASE /\ pc[t] \notin FailLabels \cup HoldLabels \cup {"done"}
             /\ pc'[t] \notin HoldLabels
             /\ after'[t] \in {after[t], "watch"}
    <3>1. after[t] # "unregister"
      BY <1>1, <2>4, Zenon DEF HoldClaim, HoldLabels
    <3> QED
      BY <2>4, <3>1, Zenon DEF Holds
  <2> QED
    BY <2>1, <2>2, <2>3, <2>4, Zenon DEF Walks
<1>4. pc'[t] # "transport"
  BY <1>1, Zenon DEF Walks, FailLabels, ContainLabels, HoldLabels
<1>5. CASE UNCHANGED <<active, inflight>>
  <2>1. Leased' = Leased
    BY <1>5, Zenon DEF Leased
  <2>2. HoldMoves(t)
    BY <1>1, <1>2, <1>3, <1>4, <2>1, Zenon DEF HoldMoves, HoldClaim
  <2>3. LeaseInv'
    BY <1>5, <2>1, StepMoves, Zenon DEF LeaseInv, KillInv
  <2> QED
    BY <2>2, <2>3, Zenon
<1>6. CASE MarkKilled
  <2>1. phase' = "KILLED" /\ active' = [a \in Auths |-> 0] /\ inflight' = 0
    BY <1>6, Zenon DEF MarkKilled
  <2>2. active' \in [Auths -> Nat] /\ Leased' = {}
    BY <2>1, SMT DEF Leased
  <2>3. HoldMoves(t)
    BY <1>1, <1>2, <1>3, <1>4, <2>1, Zenon DEF HoldMoves, HoldClaim
  <2>4. LeaseInv'
    BY <2>1, <2>2, FS_EmptySet, Zenon DEF LeaseInv, KillInv
  <2> QED
    BY <2>3, <2>4, Zenon
<1> QED
  BY <1>5, <1>6, Zenon

-----------------------------------------------------------------------------
\* Most methods of RunState leave the leases alone and kill nobody.
LEMMA StateRoams ==
  ASSUME \/ UNCHANGED stateVars \/ LatchKill \/ MarkCompleted \/ AdmitDropped
         \/ \E v : RecordDecision(v) \/ FinishFails(v)
         \/ \E b, n : AdmitOverload(b, n) \/ AdmitOk(b, n)
         \/ \E d, n, r : BeginOverBudget(d, n, r) \/ BeginCommitFails(d, n, r)
  PROVE  UNCHANGED <<active, inflight>> /\ (phase' = "KILLED" => phase = "KILLED")
BY Zenon DEF stateVars, latchVars, leaseVars, Latch, LatchKill, MarkCompleted, AdmitDropped,
       RecordDecision, FinishFails, AdmitOverload, AdmitOk, BeginOverBudget, BeginCommitFails

\* A step outside containment and the transport leaves acknowledgements alone.
LEMMA Roam ==
  ASSUME NEW t, UNCHANGED <<active, inflight>>, phase' = "KILLED" => phase = "KILLED",
         UNCHANGED containVars, UNCHANGED registryVars, LoggedAcks' = LoggedAcks,
         Walks(t), pc'[t] \notin ContainLabels \cup {"transport"}
  PROVE  Roams(t)
BY Zenon DEF Roams, Outside, registryVars

\* _commit of an event of another kind (gateway.py:73-91).
LEMMA CommitRoams ==
  ASSUME TypesOK, NEW t \in Threads, NEW e, NEW next, NEW otherwise,
         GatewayCommit(t, e, next, otherwise), e.kind # "KILL_ACKNOWLEDGED"
  PROVE  LoggedAcks' = LoggedAcks /\ pc'[t] \in {next, "emergency"}
<1>1. CommitOk(e) \/ CommitRaises(e)
  BY Zenon DEF GatewayCommit
<1>2. pc'[t] \in {next, "emergency"}
  BY Zenon DEF GatewayCommit, Goto, TypesOK
<1> QED
  BY <1>1, <1>2, CommitAcks, Zenon

\* The watchdog's steps are such steps (supervisor.py:286-303),
LEMMA WatchRoams ==
  ASSUME TypesOK, NEW t \in Threads, WatchStep(t)
  PROVE  Roams(t)
<1> USE DEF Walks, HoldLabels, FailLabels, ContainLabels
<1>1. CASE Watch(t)
  <2>1. pc[t] = "watch" /\ pc'[t] \in {"watch", "watch_latch"} /\ after'[t] = after[t]
    BY <1>1, Zenon DEF Watch, Goto, TypesOK, returnVars
  <2> QED
    BY <1>1, <2>1, Roam, StateRoams, AcksStay, Zenon DEF Watch, evidenceVars
<1>2. CASE WatchLatch(t)
  <2>1. pc[t] = "watch_latch" /\ pc'[t] = "watch_commit" /\ after'[t] = after[t]
    BY <1>2, Zenon DEF WatchLatch, Goto, TypesOK, localVars, returnVars
  <2> QED
    BY <1>2, <2>1, Roam, StateRoams, AcksStay, Zenon DEF WatchLatch, evidenceVars
<1>3. CASE WatchCommit(t)
  <2> DEFINE e == Violation("runtime", stamp[t])
  <2>1. /\ pc[t] = "watch_commit" /\ pc'[t] \in {"contain", "watch"}
        /\ after'[t] \in {after[t], "watch"}
    BY <1>3, Zenon DEF WatchCommit, Goto, TypesOK
  <2>2. e.kind # "KILL_ACKNOWLEDGED"
    BY SMT DEF Violation
  <2>3. CommitOk(e) \/ CommitRaises(e)
    BY <1>3, Zenon DEF WatchCommit
  <2>4. LoggedAcks' = LoggedAcks
    BY <2>2, <2>3, CommitAcks, Zenon
  <2> QED
    BY <1>3, <2>1, <2>4, Roam, StateRoams, Zenon DEF WatchCommit
<1> QED
  BY <1>1, <1>2, <1>3, Zenon DEF WatchStep

\* those of the receipt (supervisor.py:281-373),
LEMMA ReceiptRoams ==
  ASSUME TypesOK, NEW t \in Threads, ReceiptStep(t)
  PROVE  Roams(t)
<1> USE DEF Walks, HoldLabels, FailLabels, ContainLabels
<1>1. UNCHANGED <<active, inflight>> /\ (phase' = "KILLED" => phase = "KILLED")
  BY StateRoams, Zenon DEF ReceiptStep, Complete, OpenReceipt, DeriveStatus, SealEvidence, Freeze
<1>2. UNCHANGED containVars /\ UNCHANGED registryVars /\ after' = after
  BY Zenon DEF ReceiptStep, Complete, OpenReceipt, DeriveStatus, SealEvidence, Freeze, localVars,
         returnVars
<1>3. LoggedAcks' = LoggedAcks
  BY AcksStay, Zenon DEF ReceiptStep, Complete, OpenReceipt, DeriveStatus, SealEvidence, Freeze,
                  evidenceVars, Ledger!Seal
<1>4. /\ pc[t] \in {"complete", "report", "status", "seal", "freeze"}
      /\ pc'[t] \in {"done", "report", "status", "seal", "freeze"}
  BY Zenon DEF ReceiptStep, Complete, OpenReceipt, DeriveStatus, SealEvidence, Freeze, Goto, TypesOK
<1> QED
  BY <1>1, <1>2, <1>3, <1>4, Roam, Zenon

\* those of submit_raw (gateway.py:93-230),
LEMMA SubmitRoams ==
  ASSUME TypesOK, NEW t \in Threads, SubmitStep(t) \/ Arrive(t)
  PROVE  Roams(t)
<1> USE DEF Walks, HoldLabels, FailLabels, ContainLabels
<1>1. CASE \/ Arrive(t) \/ LateLatch(t) \/ Admit(t) \/ MalformedLatch(t) \/ Decide(t)
           \/ SignDecision(t) \/ Record(t)
  <2>1. UNCHANGED <<active, inflight>> /\ (phase' = "KILLED" => phase = "KILLED")
    BY <1>1, StateRoams, Zenon DEF Arrive, LateLatch, Admit, MalformedLatch, Decide, SignDecision,
       Record
  <2>2. UNCHANGED containVars /\ UNCHANGED registryVars /\ after' = after
    BY <1>1, Zenon DEF Arrive, LateLatch, Admit, MalformedLatch, Decide, SignDecision, Record,
                localVars, returnVars
  <2>3. LoggedAcks' = LoggedAcks
    BY <1>1, AcksStay, Zenon DEF Arrive, LateLatch, Admit, MalformedLatch, Decide, SignDecision,
                          Record, evidenceVars
  <2>4. /\ pc[t] \in {"idle", "late_latch", "admit", "malformed_latch", "decide",
                     "sign_decision", "record"}
        /\ pc'[t] \in {"fail_latch", "late_latch", "admit", "late_commit", "done",
                      "overload_commit", "malformed_commit", "request_commit", "contain",
                      "sign_decision", "decision_commit", "dispatch", "kill_commit"}
    BY <1>1, Zenon DEF Arrive, LateLatch, Admit, MalformedLatch, Decide, SignDecision, Record, Goto,
                TypesOK
  <2> QED
    BY <2>1, <2>2, <2>3, <2>4, Roam, Zenon
<1>2. CASE \/ LateCommit(t) \/ OverloadCommit(t) \/ MalformedCommit(t) \/ RequestCommit(t)
           \/ DecisionCommit(t) \/ KillCommit(t)
  <2>1. UNCHANGED <<active, inflight>> /\ (phase' = "KILLED" => phase = "KILLED")
    BY <1>2, StateRoams, Zenon DEF LateCommit, OverloadCommit, MalformedCommit, RequestCommit,
                            DecisionCommit, KillCommit
  <2>2. UNCHANGED containVars /\ UNCHANGED registryVars /\ after' = after
    BY <1>2, Zenon DEF LateCommit, OverloadCommit, MalformedCommit, RequestCommit, DecisionCommit,
                KillCommit
  <2>3. /\ LoggedAcks' = LoggedAcks
        /\ pc'[t] \in {"contain", "malformed_latch", "decide", "record", "emergency"}
    <3>1. \A reason, ns : Violation(reason, ns).kind # "KILL_ACKNOWLEDGED"
      BY SMT DEF Violation
    <3>2. CASE LateCommit(t) \/ MalformedCommit(t) \/ KillCommit(t)
      BY <3>1, <3>2, CommitRoams, Zenon DEF LateCommit, MalformedCommit, KillCommit
    <3>3. CASE OverloadCommit(t)
      <4> DEFINE e == [kind |-> "OVERLOAD_SUMMARY", ns |-> stamp[t]]
      <4>1. e.kind # "KILL_ACKNOWLEDGED"
        BY SMT
      <4> QED
        BY <3>3, <4>1, CommitRoams, Zenon DEF OverloadCommit
    <3>4. CASE RequestCommit(t)
      <4> DEFINE e == [kind |-> "REQUEST", req |-> RequestOf[t], ns |-> stamp[t]]
      <4>1. e.kind # "KILL_ACKNOWLEDGED"
        BY SMT
      <4> QED
        BY <3>4, <4>1, CommitRoams, Zenon DEF RequestCommit
    <3>5. CASE DecisionCommit(t)
      <4> DEFINE e == [kind |-> "DECISION", req |-> RequestOf[t], ref |-> trigger[t],
                       auth |-> t, verdict |-> decision[t].verdict,
                       expiry |-> decision[t].expiry, ns |-> stamp[t]]
      <4>1. e.kind # "KILL_ACKNOWLEDGED"
        BY SMT
      <4> QED
        BY <3>5, <4>1, CommitRoams, Zenon DEF DecisionCommit
    <3> QED
      BY <1>2, <3>2, <3>3, <3>4, <3>5, Zenon
  <2>4. pc[t] \in {"late_commit", "overload_commit", "malformed_commit", "request_commit",
                  "decision_commit", "kill_commit"}
    BY <1>2, Zenon DEF LateCommit, OverloadCommit, MalformedCommit, RequestCommit, DecisionCommit,
                KillCommit
  <2> QED
    BY <2>1, <2>2, <2>3, <2>4, Roam, Zenon
<1> QED
  BY <1>1, <1>2, Zenon DEF SubmitStep

\* and those of fail_closed (gateway.py:232-255).
LEMMA FailClosedRoams ==
  ASSUME TypesOK, NEW t \in Threads, FailClosedStep(t)
  PROVE  Roams(t)
<1> USE DEF Walks, HoldLabels, FailLabels, ContainLabels
<1>1. UNCHANGED <<active, inflight>> /\ (phase' = "KILLED" => phase = "KILLED")
  BY StateRoams, Zenon DEF FailClosedStep, FailClosed, FailLatch, FailCommit, FailLast
<1>2. UNCHANGED containVars /\ UNCHANGED registryVars /\ after' = after
  BY Zenon DEF FailClosedStep, FailClosed, FailLatch, FailCommit, FailLast, localVars, returnVars
<1>3. LoggedAcks' = LoggedAcks
  <2>1. Violation("failure", stamp[t]).kind # "KILL_ACKNOWLEDGED"
    BY SMT DEF Violation
  <2> QED
    BY <2>1, CommitRoams, AcksStay, Zenon
    DEF FailClosedStep, FailClosed, FailLatch, FailCommit, FailLast, evidenceVars
<1>4. /\ pc[t] \in {"fail", "fail_latch", "fail_commit", "fail_last"}
      /\ pc'[t] \in {"fail_latch", "fail_commit", "contain", "emergency", after[t]}
  BY Zenon DEF FailClosedStep, FailClosed, FailLatch, FailCommit, FailLast, GatewayCommit, Goto,
     TypesOK
<1>5. after[t] \in {"done", "watch", "unregister"}
  BY Zenon DEF TypesOK
<1> QED
  BY <1>1, <1>2, <1>3, <1>4, <1>5, Roam, Zenon

\* The steps of a dispatch that neither take nor drop a registration or a lease.
LEMMA DispatchRoams ==
  ASSUME TypesOK, NEW t \in Threads,
         \/ Replay(t) \/ Dispatch(t) \/ BeginRefused(t) \/ Transport(t) \/ FinishStale(t)
         \/ CheckCancelled(t)
  PROVE  Roams(t)
<1> USE DEF Walks, HoldLabels, FailLabels, ContainLabels
<1>1. UNCHANGED <<active, inflight>> /\ (phase' = "KILLED" => phase = "KILLED")
  BY StateRoams, Zenon DEF Replay, Dispatch, BeginRefused, Transport, TransportRaises,
                    TransportReturns, FinishStale, CheckCancelled
<1>2. UNCHANGED containVars /\ UNCHANGED registryVars /\ LoggedAcks' = LoggedAcks
  BY AcksStay, Zenon DEF Replay, Dispatch, BeginRefused, Transport, TransportRaises,
                  TransportReturns, FinishStale, CheckCancelled, evidenceVars
<1>3. CASE CheckCancelled(t)
  <2>1. /\ pc[t] = "check"
        /\ pc'[t] = "fail" \/ (pc'[t] = "unregister" /\ after' = after)
    BY <1>3, Zenon DEF CheckCancelled, Goto, TypesOK
  <2> QED
    BY <1>1, <1>2, <2>1, Roam, Zenon
<1>4. CASE Replay(t) \/ Dispatch(t)
  <2>1. pc[t] \in {"replay", "dispatch"} /\ pc'[t] \in {"dispatch", "register"} /\ after' = after
    BY <1>4, Zenon DEF Replay, Dispatch, Goto, TypesOK, localVars, returnVars
  <2> QED
    BY <1>1, <1>2, <2>1, Roam, Zenon
<1>5. CASE BeginRefused(t) \/ Transport(t) \/ FinishStale(t)
  <2>1. /\ pc[t] \in {"begin", "transport", "finish"}
        /\ pc'[t] \in {"check", "abort", "finish"} /\ after' = after
    BY <1>5, Zenon DEF BeginRefused, Transport, TransportRaises, TransportReturns, FinishStale,
                Goto, TypesOK, localVars, returnVars
  <2> QED
    BY <1>1, <1>2, <2>1, Roam, Zenon
<1> QED
  BY <1>3, <1>4, <1>5, Zenon

-----------------------------------------------------------------------------
\* There are finitely many leases to count.
LEMMA LeasedFinite == IsFiniteSet(Leased)
<1>1. IsFiniteSet(Auths)
  BY CriteriaAssumption, Zenon
<1>2. Leased \subseteq Auths
  BY Zenon DEF Leased
<1> QED
  BY <1>1, <1>2, FS_Subset, ZenonT(40)

\* A lease taken, or dropped, is counted.
LEMMA LeaseTaken ==
  ASSUME LeaseInv, NEW a \in Auths, a \notin consumed, NEW r \in Nat, r > 0,
         active' = [active EXCEPT ![a] = r], inflight' = inflight + 1
  PROVE  active' \in [Auths -> Nat] /\ inflight' = Cardinality(Leased')
<1>1. a \notin Leased
  BY Zenon DEF LeaseInv
<1>2. active' \in [Auths -> Nat] /\ Leased' = Leased \cup {a}
  BY LeasedGrows, Zenon
<1>3. Cardinality(Leased \cup {a}) = Cardinality(Leased) + 1
  BY <1>1, LeasedFinite, FS_AddElement, Zenon
<1> QED
  BY <1>2, <1>3, Zenon DEF LeaseInv

LEMMA LeaseDropped ==
  ASSUME LeaseInv, NEW a \in Auths, active[a] > 0, Release(a)
  PROVE  active' \in [Auths -> Nat] /\ inflight' = Cardinality(Leased')
<1>1. a \in Leased
  BY Zenon DEF Leased
<1>2. active' \in [Auths -> Nat] /\ Leased' = Leased \ {a}
  BY LeasedShrinks, Zenon
<1>3. Cardinality(Leased \ {a}) = Cardinality(Leased) - 1
  BY <1>1, LeasedFinite, FS_RemoveElement, Zenon
<1> QED
  BY <1>2, <1>3, Zenon DEF LeaseInv, Release

\* register and unregister (executor.py:27-50).
LEMMA RegistryMoves ==
  ASSUME ContainmentInv, KillInv, NEW t \in Threads, Guarantee(t),
         Register(t) \/ Unregister(t)
  PROVE  HoldMoves(t) /\ LeaseInv' /\ Outside(t)
<1> USE DEF HoldLabels, FailLabels, ContainLabels
<1>1. TypesOK /\ Claim(t) /\ HoldClaim(t) /\ LeaseInv /\ consumed \subseteq consumed'
  BY StepMoves, Zenon DEF ContainmentInv, KillInv
<1>2. UNCHANGED <<active, inflight>> /\ (phase' = "KILLED" => phase = "KILLED")
  BY StateRoams, Zenon DEF Register, Unregister
<1>3. /\ UNCHANGED containVars /\ LoggedAcks' = LoggedAcks /\ after' = after
      /\ target' = target
  BY AcksStay, Zenon DEF Register, Unregister, evidenceVars, localVars, returnVars
<1>4. Leased' = Leased
  BY <1>2, Zenon DEF Leased
<1>5. /\ pc[t] \in {"register", "unregister"} /\ pc'[t] \in {"begin", "done"}
  BY <1>1, Zenon DEF Register, Unregister, Goto, TypesOK
<1>6. Outside(t)
  BY <1>2, <1>3, <1>5, Zenon DEF Outside
<1>7. CASE Register(t)
  <2>1. /\ t \in Workers \cup Replayers /\ target[t] \in Workers
        /\ after[t] # "unregister"
    BY <1>1, <1>7, Zenon DEF Register, Claim, DispatchLabels, HoldClaim
  <2>2. \/ pc'[t] = "done" /\ registered' = registered
        \/ /\ pc'[t] = "begin" /\ target[t] \notin registered
           /\ registered' = registered \cup {target[t]}
    BY <1>1, <1>7, Zenon DEF Register, Goto, TypesOK, registryVars
  <2>3. HoldMoves(t)
    BY <1>3, <1>4, <2>1, <2>2, Zenon DEF HoldMoves, Holds
  <2>4. LeaseInv'
    BY <1>1, <1>2, <1>4, <2>1, <2>2, Zenon DEF LeaseInv
  <2> QED
    BY <1>6, <2>3, <2>4, Zenon
<1>8. CASE Unregister(t)
  <2>1. /\ pc[t] = "unregister" /\ pc'[t] = "done"
        /\ registered' = registered \ {target[t]}
    BY <1>1, <1>8, Zenon DEF Unregister, Goto, TypesOK
  <2>2. HoldMoves(t)
    BY <1>3, <1>4, <2>1, Zenon DEF HoldMoves, Holds
  <2>3. LeaseInv'
    BY <1>1, <1>2, <1>4, <2>1, Zenon DEF LeaseInv
  <2> QED
    BY <1>6, <2>2, <2>3, Zenon
<1> QED
  BY <1>7, <1>8, Zenon

\* begin_authorized (executor.py:121-155, state.py:131-185).
LEMMA BeginMoves ==
  ASSUME ContainmentInv, KillInv, NEW t \in Threads, Guarantee(t), Begin(t)
  PROVE  HoldMoves(t) /\ LeaseInv' /\ Outside(t)
<1> USE DEF HoldLabels, FailLabels, ContainLabels
<1> DEFINE d == decision[target[t]]
<1>1. /\ TypesOK /\ Claim(t) /\ HoldClaim(t) /\ LeaseInv /\ CapabilityInv
      /\ consumed \subseteq consumed'
  BY StepMoves, Zenon DEF ContainmentInv, KillInv, Shared
<1>2. /\ UNCHANGED containVars /\ registered' = registered /\ after' = after
      /\ target' = target /\ pc[t] = "begin"
  BY Zenon DEF Begin, localVars, returnVars, registryVars
<1>3. Holds(t) /\ t \in Workers \cup Replayers /\ target[t] \in registered /\ target[t] \in Workers
  BY <1>1, <1>2, Zenon DEF Holds, HoldClaim, Claim, DispatchLabels
<1>4. after[t] # "unregister"
  BY <1>1, <1>2, Zenon DEF HoldClaim
<1>5. PICK e : /\ e.kind # "KILL_ACKNOWLEDGED"
               /\ \/ /\ BeginCommits(d, stamp[t], MaxResponse)
                     /\ CommitOk(e) /\ Goto(t, "transport")
                  \/ /\ BeginCommitFails(d, stamp[t], MaxResponse)
                     /\ CommitRaises(e) /\ Goto(t, "check")
  <2>1. PICK ns \in 0..MaxClock :
            LET e == [kind |-> "DISPATCH", req |-> RequestOf[target[t]],
                      auth |-> target[t], ns |-> ns]
            IN  \/ /\ BeginCommits(d, stamp[t], MaxResponse)
                   /\ CommitOk(e) /\ Goto(t, "transport")
                \/ /\ BeginCommitFails(d, stamp[t], MaxResponse)
                   /\ CommitRaises(e) /\ Goto(t, "check")
    BY Zenon DEF Begin
  <2>2. PICK e : e = [kind |-> "DISPATCH", req |-> RequestOf[target[t]],
                      auth |-> target[t], ns |-> ns]
    BY Zenon
  <2>3. e.kind # "KILL_ACKNOWLEDGED"
    BY <2>2, SMT
  <2> QED
    BY <2>1, <2>2, <2>3, Zenon
<1>6. LoggedAcks' = LoggedAcks
  BY <1>1, <1>5, CommitAcks, Zenon
<1>7. CASE BeginCommits(d, stamp[t], MaxResponse) /\ Goto(t, "transport")
  <2>1. pc'[t] = "transport" /\ phase = "RUNNING" /\ phase' = phase
    BY <1>1, <1>7, Zenon DEF Goto, TypesOK, BeginCommits, Dispatchable, latchVars
  <2>2. d.id = target[t] /\ target[t] \notin consumed /\ target[t] \in consumed'
    BY <1>1, <1>3, <1>7, Zenon DEF CapabilityInv, BeginCommits, Dispatchable
  <2>3. MaxResponse \in Nat /\ MaxResponse > 0
    BY <1>7, ExecutorAssumption, SMT DEF BeginCommits, OverBudget
  <2>4. target[t] \in Auths
    BY <1>3, GatewayAssumption, Zenon
  <2>5. active' = [active EXCEPT ![target[t]] = MaxResponse] /\ inflight' = inflight + 1
    BY <1>7, <2>2, Zenon DEF BeginCommits
  <2>6. /\ active' \in [Auths -> Nat] /\ inflight' = Cardinality(Leased')
        /\ Leased' = Leased \cup {target[t]}
    BY <1>1, <2>2, <2>3, <2>4, <2>5, LeaseTaken, LeasedGrows, Zenon
  <2>7. LeaseInv'
    BY <1>1, <1>2, <2>2, <2>6, Zenon DEF LeaseInv
  <2>8. Outside(t)
    BY <1>2, <1>6, <2>1, Zenon DEF Outside
  <2>9. HoldMoves(t)
    BY <1>2, <1>3, <1>4, <2>1, <2>6, Zenon DEF HoldMoves, Holds
  <2> QED
    BY <2>7, <2>8, <2>9, Zenon
<1>8. CASE BeginCommitFails(d, stamp[t], MaxResponse) /\ Goto(t, "check")
  <2>1. pc'[t] = "check"
    BY <1>1, <1>8, Zenon DEF Goto, TypesOK
  <2>2. UNCHANGED <<active, inflight>> /\ (phase' = "KILLED" => phase = "KILLED")
    BY <1>8, StateRoams, Zenon
  <2>3. Outside(t)
    BY <1>2, <1>6, <2>1, <2>2, Zenon DEF Outside
  <2>4. Walks(t)
    BY <1>2, <2>1, Zenon DEF Walks
  <2> QED
    BY <1>2, <2>2, <2>3, <2>4, WalkKeeps, Zenon
<1> QED
  BY <1>5, <1>7, <1>8, Zenon

\* finish_authorized and abort_authorized (executor.py:157-196, state.py:187-224).
LEMMA FinishMoves ==
  ASSUME ContainmentInv, KillInv, NEW t \in Threads, Guarantee(t), Finish(t) \/ AbortLease(t)
  PROVE  HoldMoves(t) /\ LeaseInv' /\ Outside(t)
<1> USE DEF HoldLabels, FailLabels, ContainLabels
<1>1. /\ TypesOK /\ Claim(t) /\ HoldClaim(t) /\ LeaseInv /\ consumed \subseteq consumed'
  BY StepMoves, Zenon DEF ContainmentInv, KillInv
<1>2. /\ UNCHANGED containVars /\ registered' = registered /\ after' = after
      /\ target' = target /\ pc[t] \in {"finish", "abort"}
  BY Zenon DEF Finish, AbortLease, localVars, returnVars, registryVars
<1>3. /\ Holds(t) /\ t \in Workers \cup Replayers
      /\ target[t] \in registered /\ target[t] \in Auths
  BY <1>1, <1>2, GatewayAssumption, Zenon DEF Holds, HoldClaim, Claim, DispatchLabels
<1>4. after[t] # "unregister"
  BY <1>1, <1>2, Zenon DEF HoldClaim
<1>5. ASSUME Release(target[t]), active[target[t]] > 0, UNCHANGED latchVars,
             pc'[t] \in {"unregister", "check"}, LoggedAcks' = LoggedAcks
      PROVE  HoldMoves(t) /\ LeaseInv' /\ Outside(t)
  <2>1. /\ active' \in [Auths -> Nat] /\ inflight' = Cardinality(Leased')
        /\ Leased' = Leased \ {target[t]}
    BY <1>1, <1>3, <1>5, LeaseDropped, LeasedShrinks, Zenon
  <2>2. LeaseInv'
    BY <1>1, <1>2, <2>1, Zenon DEF LeaseInv
  <2>3. HoldMoves(t)
    BY <1>2, <1>3, <1>4, <1>5, <2>1, Zenon DEF HoldMoves
  <2>4. Outside(t)
    BY <1>2, <1>5, Zenon DEF Outside, latchVars
  <2> QED
    BY <2>2, <2>3, <2>4, Zenon
<1>6. ASSUME UNCHANGED <<active, inflight>>, phase' = "KILLED" => phase = "KILLED",
             pc'[t] \in {"abort", "check"}, LoggedAcks' = LoggedAcks
      PROVE  HoldMoves(t) /\ LeaseInv' /\ Outside(t)
  <2>1. Outside(t)
    BY <1>2, <1>6, Zenon DEF Outside
  <2>2. Walks(t)
    BY <1>2, <1>6, Zenon DEF Walks
  <2> QED
    BY <1>2, <1>6, <2>1, <2>2, WalkKeeps, Zenon
<1>7. CASE Finish(t)
  <2>1. PICK ns \in 0..MaxClock, bytes \in Responses :
            LET e == [kind |-> "RESULT", req |-> RequestOf[target[t]],
                      auth |-> target[t], ns |-> ns]
            IN  \/ /\ FinishCommits(target[t], bytes)
                   /\ CommitOk(e) /\ Goto(t, "unregister")
                \/ /\ FinishFails(target[t])
                   /\ CommitRaises(e) /\ Goto(t, "abort")
    BY <1>7, Zenon DEF Finish
  <2>2. PICK e : e = [kind |-> "RESULT", req |-> RequestOf[target[t]],
                      auth |-> target[t], ns |-> ns]
    BY Zenon
  <2>3. e.kind # "KILL_ACKNOWLEDGED"
    BY <2>2, SMT
  <2>4. LoggedAcks' = LoggedAcks
    BY <1>1, <2>1, <2>2, <2>3, CommitAcks, ZenonT(40)
  <2>5. CASE FinishCommits(target[t], bytes) /\ Goto(t, "unregister")
    <3>1. pc'[t] = "unregister"
      BY <1>1, <2>5, Zenon DEF Goto, TypesOK
    <3> QED
      BY <1>5, <2>4, <2>5, <3>1, Zenon DEF FinishCommits
  <2>6. CASE FinishFails(target[t]) /\ Goto(t, "abort")
    <3>1. pc'[t] = "abort"
      BY <1>1, <2>6, Zenon DEF Goto, TypesOK
    <3> QED
      BY <1>6, <2>4, <2>6, <3>1, StateRoams, Zenon
  <2> QED
    BY <2>1, <2>5, <2>6, Zenon
<1>8. CASE AbortLease(t)
  <2>1. pc'[t] = "check" /\ LoggedAcks' = LoggedAcks
    BY <1>1, <1>8, AcksStay, Zenon DEF AbortLease, Goto, TypesOK, evidenceVars
  <2>2. CASE Abort(target[t])
    BY <1>5, <2>1, <2>2, Zenon DEF Abort
  <2>3. CASE UNCHANGED stateVars
    BY <1>6, <2>1, <2>3, StateRoams, ZenonT(40)
  <2> QED
    BY <1>8, <2>2, <2>3, Zenon DEF AbortLease
<1> QED
  BY <1>7, <1>8, Zenon

-----------------------------------------------------------------------------
\* Dispatches that wait for their transport are registered, each under its own
\* authorization; until the run is KILLED each has a lease of its own.
LEMMA TransportsCounted ==
  ASSUME KillInv
  PROVE  /\ Cardinality(Transporting) \in Nat /\ Cardinality(registered) \in Nat
         /\ inflight \in Nat
         /\ Cardinality(Transporting) <= Cardinality(registered)
         /\ phase # "KILLED" => Cardinality(Transporting) <= inflight
<1> DEFINE f == [t \in Transporting |-> target[t]]
<1>1. IsFiniteSet(Transporting) /\ IsFiniteSet(registered) /\ IsFiniteSet(Leased)
  <2>1. Transporting \subseteq Threads /\ IsFiniteSet(Threads)
    BY RolesAssumption, Zenon DEF Transporting
  <2>2. registered \subseteq Auths
    BY GatewayAssumption, Zenon DEF KillInv, LeaseInv
  <2>3. IsFiniteSet(Auths)
    BY CriteriaAssumption, Zenon
  <2> QED
    BY <2>1, <2>2, <2>3, LeasedFinite, FS_Subset, Zenon
<1>2. \A t \in Transporting : t \in Threads /\ Holds(t)
  BY Zenon DEF Transporting, Holds, HoldLabels
<1>3. /\ \A t \in Transporting : f[t] \in registered
      /\ \A t, u \in Transporting : t # u => f[t] # f[u]
  BY <1>2, Zenon DEF KillInv, HoldClaim
<1>4. phase # "KILLED" => \A t \in Transporting : f[t] \in Leased
  BY Zenon DEF KillInv, HoldClaim, Transporting
<1>5. ASSUME NEW S, IsFiniteSet(S), \A t \in Transporting : f[t] \in S
      PROVE  Cardinality(Transporting) <= Cardinality(S)
  <2>1. f \in [Transporting -> S]
    BY <1>5, Zenon
  <2>2. IsInjective(f)
    BY <1>3, Zenon DEF IsInjective
  <2>3. f \in Injection(Transporting, S)
    BY <2>1, <2>2, Zenon DEF Injection
  <2> QED
    BY <1>5, <2>3, FS_Injection, Zenon
<1> HIDE DEF f
<1>6. Cardinality(Transporting) <= Cardinality(registered)
  BY <1>1, <1>3, <1>5, Zenon
<1>7. phase # "KILLED" => Cardinality(Transporting) <= Cardinality(Leased)
  BY <1>1, <1>4, <1>5, Zenon
<1>8. inflight = Cardinality(Leased)
  BY Zenon DEF KillInv, LeaseInv
<1> QED
  BY <1>1, <1>6, <1>7, <1>8, FS_CardinalityType, Zenon

\* contain takes its lock, latches and counts the leases; an acknowledged kill is
\* returned as it is (supervisor.py:197-222).
LEMMA ContainInside ==
  ASSUME ContainmentInv, KillInv, NEW t \in Threads, Guarantee(t), Contain(t)
  PROVE  Walks(t) /\ (Outside(t) \/ Inside(t)) /\ UNCHANGED <<registered, active, inflight>>
<1> USE DEF FailLabels, ContainLabels
<1>1. TypesOK /\ AckInv /\ after[t] \in {"done", "watch", "unregister"} /\ pc[t] = "contain"
  BY Zenon DEF ContainmentInv, Shared, TypesOK, KillInv, Contain
<1>2. UNCHANGED <<active, inflight>> /\ (phase' = "KILLED" => phase = "KILLED")
  BY StateRoams, Zenon DEF Contain
<1>3. registered' = registered /\ after' = after /\ LoggedAcks' = LoggedAcks
  BY AcksStay, Zenon DEF Contain, registryVars, localVars, returnVars, evidenceVars
<1>4. pc'[t] \in {after[t], "signal"}
  BY <1>1, Zenon DEF Contain, Goto, TypesOK
<1>5. Walks(t)
  BY <1>1, <1>3, <1>4, Zenon DEF Walks
<1>6. CASE ack # NoAck
  <2>1. UNCHANGED containVars /\ pc'[t] = after[t]
    BY <1>1, <1>6, Zenon DEF Contain, Goto, TypesOK
  <2>2. Outside(t)
    BY <1>1, <1>2, <1>3, <2>1, Zenon DEF Outside
  <2> QED
    BY <1>2, <1>3, <1>5, <2>2, Zenon
<1>7. CASE ack = NoAck
  <2>1. /\ containOwner = Free /\ containOwner' = t /\ LatchKill /\ pc'[t] = "signal"
        /\ draft' = [NoDraft EXCEPT !.inflight = inflight]
        /\ ack' = ack /\ emergency' = emergency /\ isolation' = isolation
        /\ wallSteps' = wallSteps
    BY <1>1, <1>7, Zenon DEF Contain, Goto, TypesOK, isolateVars
  <2>2. inflight \in Nat
    BY TransportsCounted, Zenon
  <2>3. /\ draft'.inflight = inflight /\ ~draft'.back
        /\ DraftOK'
    <3>1. draft'.inflight = inflight
      BY <2>1, SMT DEF NoDraft
    <3>2. ~draft'.back
      BY <2>1, Zenon DEF NoDraft
    <3>3. DraftOK'
      BY <2>1, <2>2, SMTT(30) DEF NoDraft, DraftOK
    <3> QED
      BY <3>1, <3>2, <3>3, Zenon
  <2>4. AckInv'
    <3>1. containOwner' # Free
      BY <2>1, ThreadAssumption, Zenon
    <3>2. wallSteps' \in Nat
      BY <1>1, <2>1, Zenon DEF AckInv
    <3> QED
      BY <2>3, <3>1, <3>2, Zenon DEF AckInv
  <2>5. LoggedAcks' = {}
    BY <1>1, <1>3, <1>7, <2>1, Zenon DEF AckInv
  <2>6. Calm' => phase' = "KILLING" /\ phase # "KILLED" /\ isolation' = NotIsolated
    BY <1>1, <1>7, <2>1, Zenon DEF AckInv, Calm, LatchKill, Latch, TypesOK, Phases
  <2>7. Calm' => Cardinality(Transporting') <= draft'.inflight
    <3>1. \A u \in Threads \ {t} : pc'[u] = pc[u]
      BY StepMoves, Zenon
    <3>2. /\ Cardinality(Transporting) \in Nat /\ Cardinality(Transporting') \in Nat
          /\ Cardinality(Transporting') <= Cardinality(Transporting)
      BY <2>1, <3>1, FewerTransports, Zenon
    <3>3. Calm' => Cardinality(Transporting) <= inflight
      BY <2>6, TransportsCounted, Zenon
    <3> QED
      BY <2>2, <2>3, <3>2, <3>3, SMTT(30)
  <2>8. AckClaim(t)'
    BY <1>7, <2>1, <2>3, <2>5, <2>6, <2>7, Zenon DEF AckClaim
  <2>9. Inside(t)
    BY <2>1, <2>4, <2>8, Zenon DEF Inside
  <2> QED
    BY <1>2, <1>3, <1>5, <2>9, ZenonT(40)
<1> QED
  BY <1>6, <1>7, Zenon

\* The registry is signalled and the workload isolated (supervisor.py:223-238).
LEMMA SignalInside ==
  ASSUME ContainmentInv, KillInv, NEW t \in Threads, Guarantee(t), SignalInflight(t)
  PROVE  Walks(t) /\ Inside(t) /\ UNCHANGED <<registered, active, inflight>>
<1> USE DEF FailLabels, ContainLabels
<1>1. TypesOK /\ AckInv /\ AckClaim(t) /\ pc[t] = "signal"
  BY Zenon DEF ContainmentInv, Shared, KillInv, SignalInflight
<1>2. /\ UNCHANGED <<registered, active, inflight, after, ack, emergency, isolation>>
      /\ UNCHANGED <<containOwner, wallSteps, phase>> /\ LoggedAcks' = LoggedAcks
      /\ draft' = [draft EXCEPT !.signalled = Lesser(Cardinality(registered), draft.inflight)]
  BY AcksStay, Zenon DEF SignalInflight, localVars, returnVars, evidenceVars, isolateVars,
     stateVars,
                  latchVars, leaseVars
<1>3. pc'[t] = "isolate"
  BY <1>1, Zenon DEF SignalInflight, Goto, TypesOK
<1>4. Walks(t)
  BY <1>1, <1>2, <1>3, Zenon DEF Walks
<1>5. containOwner = t /\ containOwner # Free
  <2>1. t # Free
    BY ThreadAssumption, Zenon
  <2> QED
    BY <1>1, <2>1, Zenon DEF AckClaim
<1>6. Cardinality(registered) \in Nat /\ Cardinality(Transporting) <= Cardinality(registered)
  BY TransportsCounted, Zenon
<1>7. DraftOK
  BY <1>1, Zenon DEF AckInv
<1>8. /\ DraftOK'
      /\ draft'.inflight = draft.inflight /\ draft'.back = draft.back
      /\ draft'.signalled = Lesser(Cardinality(registered), draft.inflight)
  BY <1>2, <1>6, <1>7, SMTT(30) DEF Lesser, DraftOK
<1>9. AckInv'
  BY <1>1, <1>2, <1>5, <1>8, Zenon DEF AckInv
<1>10. /\ Cardinality(Transporting) \in Nat /\ Cardinality(Transporting') \in Nat
       /\ Cardinality(Transporting') <= Cardinality(Transporting)
  <2>1. \A u \in Threads \ {t} : pc'[u] = pc[u]
    BY StepMoves, Zenon
  <2> QED
    BY <1>3, <2>1, FewerTransports, Zenon
<1>11. Calm' => /\ phase' = "KILLING" /\ isolation' = NotIsolated /\ ~draft'.back
               /\ Cardinality(Transporting') <= draft'.inflight
               /\ Cardinality(Transporting') <= draft'.signalled
  <2> SUFFICES ASSUME Calm'
               PROVE  /\ phase' = "KILLING" /\ isolation' = NotIsolated /\ ~draft'.back
                      /\ Cardinality(Transporting') <= draft'.inflight
                      /\ Cardinality(Transporting') <= draft'.signalled
    BY Zenon
  <2>1. /\ phase = "KILLING" /\ isolation = NotIsolated /\ ~draft.back
        /\ Cardinality(Transporting) <= draft.inflight
    BY <1>1, <1>2, Zenon DEF AckClaim, Calm
  <2>2. draft.inflight \in Nat
    BY <1>7, Zenon DEF DraftOK
  <2>3. /\ Cardinality(Transporting') <= draft'.inflight
        /\ Cardinality(Transporting') <= draft'.signalled
    BY <1>6, <1>8, <1>10, <2>1, <2>2, SMTT(30) DEF Lesser
  <2> QED
    BY <1>2, <1>8, <2>1, <2>3, Zenon
<1>12. AckClaim(t)'
  BY <1>1, <1>2, <1>3, <1>11, Zenon DEF AckClaim
<1> QED
  BY <1>2, <1>4, <1>5, <1>9, <1>12, Zenon DEF Inside

\* The isolation calls of contain happen with the acknowledgement still open.
LEMMA IsolateInside ==
  ASSUME ContainmentInv, KillInv, NEW t \in Threads, Guarantee(t), Isolate(t)
  PROVE  Walks(t) /\ Inside(t) /\ UNCHANGED <<registered, active, inflight>>
<1> USE DEF FailLabels, ContainLabels
<1>1. TypesOK /\ AckInv /\ AckClaim(t) /\ pc[t] = "isolate"
  BY Zenon DEF ContainmentInv, Shared, KillInv, Isolate
<1>2. /\ UNCHANGED <<registered, active, inflight, after, ack, emergency>>
      /\ UNCHANGED <<containOwner, phase>> /\ LoggedAcks' = LoggedAcks
  BY AcksStay, Zenon DEF Isolate, registryVars, localVars, returnVars, evidenceVars, stateVars,
                  latchVars, leaseVars
<1>3. pc'[t] = "mark"
  BY <1>1, Zenon DEF Isolate, Goto, TypesOK
<1>4. Walks(t)
  BY <1>1, <1>2, <1>3, Zenon DEF Walks
<1>5. containOwner = t /\ containOwner # Free
  <2>1. t # Free
    BY ThreadAssumption, Zenon
  <2> QED
    BY <1>1, <2>1, Zenon DEF AckClaim
<1>6. /\ wallSteps \in Nat
      /\ DraftOK
  BY <1>1, Zenon DEF AckInv
<1>7. PICK ns \in 0..MaxClock, steps \in wallSteps..MaxWallSteps :
          /\ wallSteps' = steps
          /\ draft' = [draft EXCEPT !.ns = ns, !.back = steps > wallSteps]
  BY Zenon DEF Isolate
<1>8. /\ wallSteps' \in Nat /\ (wallSteps' = 0 => wallSteps = 0 /\ ~draft'.back)
      /\ DraftOK'
      /\ draft'.inflight = draft.inflight /\ draft'.signalled = draft.signalled
  <2>1. MaxClock \in Nat /\ MaxWallSteps \in Nat
    BY ThreadAssumption, SMTT(30)
  <2>2. /\ wallSteps' \in Nat /\ (wallSteps' = 0 => wallSteps = 0 /\ ~(steps > wallSteps))
        /\ (steps > wallSteps) \in BOOLEAN /\ ns \in Nat
    BY <1>6, <1>7, <2>1, SMTT(30)
  <2>3. draft'.inflight = draft.inflight /\ draft'.signalled = draft.signalled
    BY <1>6, <1>7, SMTT(30) DEF DraftOK
  <2>4. draft'.back = (steps > wallSteps)
    BY <1>6, <1>7, Zenon DEF DraftOK
  <2>5. DraftOK'
    BY <1>6, <1>7, <2>2, SMTT(30) DEF DraftOK
  <2> QED
    BY <2>2, <2>3, <2>4, <2>5, ZenonT(40)
<1>9. AckInv'
  BY <1>1, <1>2, <1>5, <1>8, ZenonT(40) DEF AckInv
<1>10. Calm' => /\ phase' = "KILLING" /\ AckCoherent'
  <2> SUFFICES ASSUME Calm'
               PROVE  phase' = "KILLING" /\ AckCoherent'
    BY Zenon
  <2>1. Calm
    BY <1>2, <1>8, Zenon DEF Calm
  <2>2. /\ phase = "KILLING" /\ isolation = NotIsolated
        /\ Cardinality(Transporting) <= draft.inflight
        /\ Cardinality(Transporting) <= draft.signalled
    BY <1>1, <2>1, Zenon DEF AckClaim
  <2>3. isolation' \in Reports
    BY <2>2, Zenon DEF Isolate, IsolateOnce
  <2>4. Cardinality(Transporting) \in Nat
    BY TransportsCounted, Zenon
  <2>5. isolation' \in 0..Cardinality(Transporting)
    BY <2>3, <2>4, SMTT(30) DEF Reports, Transporting
  <2>6. isolation' <= draft'.inflight /\ isolation' <= draft'.signalled
    BY <1>6, <1>8, <2>2, <2>4, <2>5, SMTT(30) DEF DraftOK
  <2>7. ~draft'.back
    BY <1>8, Zenon DEF Calm
  <2> QED
    BY <1>2, <2>2, <2>6, <2>7, Zenon DEF AckCoherent
<1>11. AckClaim(t)'
  BY <1>1, <1>2, <1>3, <1>10, Zenon DEF AckClaim
<1> QED
  BY <1>2, <1>4, <1>5, <1>9, <1>11, Zenon DEF Inside

\* What a thread under _contain_lock knows of the lock, and leaves when it goes.
LEMMA OwnerInside ==
  ASSUME KillInv, NEW t \in Threads, pc[t] \in ContainLabels
  PROVE  containOwner = t /\ t # Free /\ AckInv /\ AckClaim(t)
<1>1. t # Free
  BY ThreadAssumption, Zenon
<1> QED
  BY <1>1, Zenon DEF KillInv, AckClaim

\* Without a draft there is nothing to agree with.
LEMMA NoDraftOK ==
  ASSUME draft' = NoDraft
  PROVE  DraftOK'
BY SMT DEF DraftOK, NoDraft

\* mark_killed (supervisor.py:239-245).
LEMMA MarkInside ==
  ASSUME ContainmentInv, KillInv, NEW t \in Threads, Guarantee(t), MarkContained(t)
  PROVE  /\ Walks(t) /\ Inside(t) /\ UNCHANGED registered
         /\ UNCHANGED <<active, inflight>> \/ MarkKilled
<1> USE DEF FailLabels, ContainLabels
<1>1. /\ TypesOK /\ pc[t] = "mark" /\ after[t] \in {"done", "watch", "unregister"}
      /\ containOwner = t /\ t # Free /\ AckInv /\ AckClaim(t)
  BY OwnerInside, Zenon DEF ContainmentInv, Shared, TypesOK, MarkContained
<1>2. /\ UNCHANGED <<registered, after, ack, emergency, isolation, wallSteps>>
      /\ LoggedAcks' = LoggedAcks
  BY AcksStay, Zenon DEF MarkContained, registryVars, localVars, returnVars, evidenceVars,
     isolateVars
<1>3. LoggedAcks' = {} /\ ack' = NoAck /\ wallSteps' \in Nat /\ DraftOK
  BY <1>1, <1>2, Zenon DEF AckClaim, AckInv
<1>4. CASE MarkKilled /\ Goto(t, "sign") /\ UNCHANGED <<containOwner, draft>>
  <2>1. pc'[t] = "sign" /\ phase' = "KILLED" /\ phase \in {"KILLING", "KILLED"}
    BY <1>1, <1>4, Zenon DEF Goto, TypesOK, MarkKilled
  <2>2. AckInv'
    BY <1>1, <1>3, <1>4, Zenon DEF AckInv, DraftOK
  <2>3. Calm' => AckCoherent'
    BY <1>1, <1>2, <1>4, <2>1, Zenon DEF Calm, AckClaim, AckCoherent
  <2>4. AckClaim(t)'
    BY <1>1, <1>3, <1>4, <2>1, <2>3, Zenon DEF AckClaim
  <2>5. Walks(t)
    BY <1>1, <1>2, <2>1, Zenon DEF Walks
  <2> QED
    BY <1>1, <1>2, <1>4, <2>2, <2>4, <2>5, Zenon DEF Inside
<1>5. CASE phase \notin {"KILLING", "KILLED"} /\ LeaveContain(t) /\ UNCHANGED stateVars
  <2>1. /\ pc'[t] = after[t] /\ containOwner' = Free /\ draft' = NoDraft
        /\ UNCHANGED <<active, inflight, phase>>
    BY <1>1, <1>5, Zenon DEF LeaveContain, Goto, TypesOK, stateVars, latchVars, leaseVars
  <2>2. ~Calm'
    BY <1>1, <1>2, <1>5, <2>1, Zenon DEF Calm, AckClaim
  <2>3. AckInv'
    BY <1>3, <2>1, <2>2, NoDraftOK, Zenon DEF AckInv
  <2>4. AckClaim(t)'
    BY <1>1, <2>1, Zenon DEF AckClaim
  <2>5. Walks(t)
    BY <1>1, <1>2, <2>1, Zenon DEF Walks
  <2> QED
    BY <1>1, <1>2, <2>1, <2>3, <2>4, <2>5, ZenonT(40) DEF Inside
<1> QED
  BY <1>4, <1>5, Zenon DEF MarkContained

\* What is signed in calm validates (supervisor.py:246-258, models.py).
LEMMA SignInside ==
  ASSUME ContainmentInv, KillInv, NEW t \in Threads, Guarantee(t), SignAck(t)
  PROVE  Walks(t) /\ Inside(t) /\ UNCHANGED <<registered, active, inflight>>
<1> USE DEF FailLabels, ContainLabels
<1>1. /\ TypesOK /\ pc[t] = "sign" /\ after[t] \in {"done", "watch", "unregister"}
      /\ containOwner = t /\ t # Free /\ AckInv /\ AckClaim(t)
  BY OwnerInside, Zenon DEF ContainmentInv, Shared, TypesOK, SignAck
<1>2. /\ UNCHANGED <<registered, active, inflight, after, emergency, isolation, wallSteps>>
      /\ phase' = phase /\ LoggedAcks' = LoggedAcks
  BY AcksStay, Zenon DEF SignAck, registryVars, localVars, returnVars, evidenceVars, isolateVars,
                  stateVars, latchVars, leaseVars
<1>3. LoggedAcks' = {} /\ ack = NoAck /\ wallSteps' \in Nat /\ DraftOK
  BY <1>1, <1>2, Zenon DEF AckClaim, AckInv
<1>4. CASE /\ ack' = [trigger |-> trigger[t], inflight |-> draft.inflight, ns |-> draft.ns]
           /\ Goto(t, "log") /\ UNCHANGED <<containOwner, draft>>
  <2>1. pc'[t] = "log"
    BY <1>1, <1>4, Zenon DEF Goto, TypesOK
  <2>2. ack' # NoAck
    BY <1>4, SMT DEF NoAck
  <2>3. AckInv'
    BY <1>1, <1>3, <1>4, Zenon DEF AckInv, DraftOK
  <2>4. AckClaim(t)'
    BY <1>1, <1>2, <1>3, <1>4, <2>1, <2>2, Zenon DEF AckClaim, Calm
  <2>5. Walks(t)
    BY <1>1, <1>2, <2>1, Zenon DEF Walks
  <2> QED
    BY <1>1, <1>2, <2>3, <2>4, <2>5, Zenon DEF Inside
<1>5. CASE ~AckCoherent /\ LeaveContain(t) /\ UNCHANGED ack
  <2>1. pc'[t] = after[t] /\ containOwner' = Free /\ draft' = NoDraft
    BY <1>1, <1>5, Zenon DEF LeaveContain, Goto, TypesOK
  <2>2. ~Calm'
    BY <1>1, <1>2, <1>5, Zenon DEF Calm, AckClaim
  <2>3. AckInv'
    BY <1>3, <1>5, <2>1, <2>2, NoDraftOK, Zenon DEF AckInv
  <2>4. AckClaim(t)'
    BY <1>1, <2>1, Zenon DEF AckClaim
  <2>5. Walks(t)
    BY <1>1, <1>2, <2>1, Zenon DEF Walks
  <2> QED
    BY <1>1, <1>2, <2>3, <2>4, <2>5, Zenon DEF Inside
<1> QED
  BY <1>4, <1>5, Zenon DEF SignAck

\* The acknowledgement is logged, or withdrawn (supervisor.py:259-269).
LEMMA LogInside ==
  ASSUME ContainmentInv, KillInv, NEW t \in Threads, Guarantee(t), LogAck(t) \/ UnsignAck(t)
  PROVE  Walks(t) /\ Inside(t) /\ UNCHANGED <<registered, active, inflight>>
<1> USE DEF FailLabels, ContainLabels
<1>1. /\ TypesOK /\ pc[t] \in {"log", "unsign"} /\ after[t] \in {"done", "watch", "unregister"}
      /\ containOwner = t /\ t # Free /\ AckInv /\ AckClaim(t)
  BY OwnerInside, Zenon DEF ContainmentInv, Shared, TypesOK, LogAck, UnsignAck
<1>2. /\ UNCHANGED <<registered, active, inflight, after, isolation, wallSteps>>
      /\ phase' = phase
  BY Zenon DEF LogAck, UnsignAck, registryVars, localVars, returnVars, isolateVars, stateVars,
         latchVars, leaseVars
<1>3. LoggedAcks = {} /\ wallSteps' \in Nat /\ DraftOK
  BY <1>1, <1>2, Zenon DEF AckClaim, AckInv
<1>4. CASE LogAck(t)
  <2> DEFINE e == [kind |-> "KILL_ACKNOWLEDGED", ack |-> ack, ns |-> ack.ns]
  <2>1. e.kind = "KILL_ACKNOWLEDGED" /\ e.ack = ack
    BY SMT
  <2> HIDE DEF e
  <2>2. ack # NoAck /\ ack' = ack /\ emergency' = emergency
    BY <1>1, <1>4, Zenon DEF LogAck, AckClaim
  <2>3. CASE CommitOk(e) /\ LeaveContain(t)
    <3>1. pc'[t] = after[t] /\ containOwner' = Free /\ draft' = NoDraft
      BY <1>1, <2>3, Zenon DEF LeaveContain, Goto, TypesOK
    <3>2. LoggedAcks' = {ack}
      <4>1. LoggedAcks' = LoggedAcks \cup {e.ack}
        BY <1>1, <2>1, <2>3, CommitAcks, ZenonT(40)
      <4> QED
        BY <1>3, <2>1, <4>1, Zenon
    <3>3. Calm' => phase' = "KILLED"
      <4>1. pc[t] = "log"
        BY <1>4, Zenon DEF LogAck
      <4>2. Calm' => Calm
        BY <1>2, <2>2, Zenon DEF Calm
      <4> QED
        BY <1>1, <1>2, <4>1, <4>2, Zenon DEF AckClaim
    <3>4. AckInv'
      BY <1>3, <2>2, <3>1, <3>2, <3>3, NoDraftOK, Zenon DEF AckInv
    <3>5. AckClaim(t)'
      BY <1>1, <3>1, Zenon DEF AckClaim
    <3>6. Walks(t)
      BY <1>1, <1>2, <3>1, Zenon DEF Walks
    <3> QED
      BY <1>1, <1>2, <3>4, <3>5, <3>6, Zenon DEF Inside
  <2>4. CASE CommitRaises(e) /\ Goto(t, "unsign") /\ UNCHANGED <<containOwner, draft>>
    <3>1. pc'[t] = "unsign"
      BY <1>1, <2>4, Zenon DEF Goto, TypesOK
    <3>2. LoggedAcks' = {}
      BY <1>1, <1>3, <2>4, CommitAcks, Zenon
    <3>3. AckInv'
      BY <1>1, <1>3, <2>4, Zenon DEF AckInv, DraftOK
    <3>4. AckClaim(t)'
      BY <1>1, <2>4, <3>1, <3>2, Zenon DEF AckClaim
    <3>5. Walks(t)
      BY <1>1, <1>2, <3>1, Zenon DEF Walks
    <3> QED
      BY <1>1, <1>2, <3>3, <3>4, <3>5, Zenon DEF Inside
  <2> QED
    BY <1>4, <2>3, <2>4, Zenon DEF LogAck, e
<1>5. CASE UnsignAck(t)
  <2>1. /\ pc'[t] = after[t] /\ containOwner' = Free /\ draft' = NoDraft /\ ack' = NoAck
        /\ emergency' = TRUE /\ LoggedAcks' = LoggedAcks
    BY <1>1, <1>5, AcksStay, Zenon DEF UnsignAck, LeaveContain, Goto, TypesOK, evidenceVars
  <2>2. AckInv'
    BY <1>3, <2>1, NoDraftOK, Zenon DEF AckInv, Calm
  <2>3. AckClaim(t)'
    BY <1>1, <2>1, Zenon DEF AckClaim
  <2>4. Walks(t)
    BY <1>1, <1>2, <2>1, Zenon DEF Walks
  <2> QED
    BY <1>1, <1>2, <2>2, <2>3, <2>4, Zenon DEF Inside
<1> QED
  BY <1>4, <1>5, Zenon

\* emergency_isolate (supervisor.py:271-279).
LEMMA EmergencyInside ==
  ASSUME ContainmentInv, KillInv, NEW t \in Threads, Guarantee(t), EmergencyStep(t)
  PROVE  /\ Walks(t) /\ Inside(t) /\ UNCHANGED registered
         /\ UNCHANGED <<active, inflight>> \/ MarkKilled
<1> USE DEF FailLabels, ContainLabels
<1>1. /\ TypesOK /\ resume[t] \in {"done", "fail_last"} /\ t # Free
  <2>1. t # Free
    BY ThreadAssumption, Zenon
  <2> QED
    BY <2>1, Zenon DEF ContainmentInv, Shared, TypesOK
<1>2. /\ UNCHANGED <<registered, after, ack, draft, wallSteps>> /\ LoggedAcks' = LoggedAcks
  BY AcksStay, Zenon DEF EmergencyStep, EmergencyLatch, EmergencyCut, registryVars, localVars,
                  returnVars, evidenceVars
<1>3. AckInv /\ AckClaim(t) /\ DraftOK' /\ wallSteps' \in Nat
  BY <1>2, Zenon DEF KillInv, AckInv, DraftOK
<1>4. CASE EmergencyLatch(t)
  <2>1. /\ containOwner = Free /\ containOwner' = t /\ emergency' = TRUE
        /\ pc[t] = "emergency" /\ pc'[t] = "cut" /\ UNCHANGED <<active, inflight>>
    BY <1>1, <1>4, StateRoams, Zenon DEF EmergencyLatch, Goto, TypesOK
  <2>2. AckInv'
    BY <1>1, <1>3, <2>1, Zenon DEF AckInv
  <2>3. AckClaim(t)'
    BY <1>2, <1>3, <2>1, Zenon DEF AckInv, AckClaim, Calm
  <2>4. Walks(t)
    BY <1>2, <2>1, Zenon DEF Walks
  <2> QED
    BY <1>2, <2>1, <2>2, <2>3, <2>4, Zenon DEF Inside
<1>5. CASE EmergencyCut(t)
  <2>1. /\ pc[t] = "cut" /\ containOwner' = Free /\ pc'[t] = resume[t]
        /\ emergency' = emergency
    BY <1>1, <1>5, Zenon DEF EmergencyCut, Goto, TypesOK
  <2>2. containOwner = t /\ emergency /\ LoggedAcks = {ack} \ {NoAck}
    BY <1>3, <2>1, Zenon DEF AckClaim
  <2>3. AckInv'
    BY <1>2, <1>3, <2>1, <2>2, Zenon DEF AckInv, Calm
  <2>4. AckClaim(t)'
    BY <1>1, <2>1, Zenon DEF AckClaim
  <2>5. Walks(t)
    BY <1>1, <1>2, <2>1, Zenon DEF Walks
  <2>6. UNCHANGED <<active, inflight>> \/ MarkKilled
    BY <1>5, StateRoams, Zenon DEF EmergencyCut
  <2> QED
    BY <1>2, <2>2, <2>3, <2>4, <2>5, <2>6, Zenon DEF Inside
<1> QED
  BY <1>4, <1>5, Zenon DEF EmergencyStep

-----------------------------------------------------------------------------
\* Nobody is where the lock is needed while another has it or it is free.
LEMMA InsideKeeps ==
  ASSUME ContainmentInv, KillInv, NEW t \in Threads, Guarantee(t), Inside(t)
  PROVE  AckInv' /\ \A u \in Threads : AckClaim(u)'
<1>1. ASSUME NEW u \in Threads \ {t}
      PROVE  AckClaim(u)'
  <2>1. u # Free
    BY ThreadAssumption, Zenon
  <2>2. pc'[u] = pc[u] /\ AckClaim(u)
    BY StepMoves, Zenon DEF KillInv
  <2>3. pc'[u] \notin ContainLabels
    BY <2>1, <2>2, Zenon DEF Inside, AckClaim
  <2> QED
    BY <2>3, Zenon DEF AckClaim, ContainLabels
<1> QED
  BY <1>1, Zenon DEF Inside

\* Every step of every thread keeps the registrations, the leases and the
\* acknowledgement.
LEMMA StepKeepsKill ==
  ASSUME ContainmentInv, KillInv, NEW t \in Threads, Step(t)
  PROVE  KillInv'
<1>1. Guarantee(t) /\ TypesOK
  BY StepKeeps, Zenon DEF ContainmentInv, Shared
<1>2. ASSUME HoldMoves(t), LeaseInv', Outside(t) \/ Inside(t)
      PROVE  KillInv'
  <2>1. \A u \in Threads : HoldClaim(u)'
    BY <1>1, <1>2, OthersHold, Zenon
  <2>2. AckInv' /\ \A u \in Threads : AckClaim(u)'
    BY <1>1, <1>2, OutsideKeeps, InsideKeeps, Zenon
  <2> QED
    BY <1>2, <2>1, <2>2, Zenon DEF KillInv
<1>3. ASSUME Walks(t), Outside(t) \/ Inside(t), UNCHANGED registered,
             UNCHANGED <<active, inflight>> \/ MarkKilled,
             UNCHANGED target \/ pc[t] = "replay"
      PROVE  KillInv'
  BY <1>1, <1>2, <1>3, WalkKeeps, Zenon
<1>4. ASSUME Roams(t), UNCHANGED target \/ pc[t] = "replay"
      PROVE  KillInv'
  BY <1>3, <1>4, Zenon DEF Roams
<1>5. CASE t \in Workers /\ Arrive(t) /\ UNCHANGED target
  BY <1>1, <1>4, <1>5, SubmitRoams, Zenon
<1>6. CASE t \in Replayers /\ Replay(t)
  <2>1. pc[t] = "replay"
    BY <1>6, Zenon DEF Replay
  <2> QED
    BY <1>1, <1>4, <1>6, <2>1, DispatchRoams, Zenon
<1>7. CASE SupervisorStep(t) /\ UNCHANGED <<gatewayVars, target>>
  <2>1. CASE WatchStep(t) \/ ReceiptStep(t)
    BY <1>1, <1>4, <1>7, <2>1, WatchRoams, ReceiptRoams, Zenon
  <2>2. CASE Contain(t) \/ SignalInflight(t) \/ Isolate(t)
    BY <1>1, <1>3, <1>7, <2>2, ContainInside, SignalInside, IsolateInside, Zenon
  <2>3. CASE MarkContained(t) \/ EmergencyStep(t)
    BY <1>1, <1>3, <1>7, <2>3, MarkInside, EmergencyInside, Zenon
  <2>4. CASE SignAck(t) \/ LogAck(t) \/ UnsignAck(t)
    BY <1>1, <1>3, <1>7, <2>4, SignInside, LogInside, Zenon
  <2> QED
    BY <1>7, <2>1, <2>2, <2>3, <2>4, Zenon DEF SupervisorStep, ContainStep
<1>8. CASE (SubmitStep(t) \/ FailClosedStep(t)) /\ UNCHANGED target
  BY <1>1, <1>4, <1>8, SubmitRoams, FailClosedRoams, Zenon
<1>9. CASE Register(t) \/ Unregister(t) \/ Begin(t) \/ Finish(t) \/ AbortLease(t)
  BY <1>1, <1>2, <1>9, RegistryMoves, BeginMoves, FinishMoves, Zenon
<1>10. CASE \/ Dispatch(t) \/ BeginRefused(t) \/ Transport(t) \/ FinishStale(t)
            \/ CheckCancelled(t)
  <2>1. UNCHANGED target
    BY <1>10, Zenon DEF Dispatch, BeginRefused, Transport, TransportRaises, TransportReturns,
                 FinishStale, CheckCancelled
  <2> QED
    BY <1>1, <1>4, <1>10, <2>1, DispatchRoams, Zenon
<1> QED
  BY <1>5, <1>6, <1>7, <1>8, <1>9, <1>10, Zenon DEF Step, Proceed, DispatchStep

\* A stuttering step keeps the invariant,
LEMMA StutterKeepsKill ==
  ASSUME KillInv, UNCHANGED containmentVars
  PROVE  KillInv'
<1> USE DEF containmentVars, supervisorVars, stateVars, latchVars, leaseVars, effectVars,
            evidenceVars, containVars, isolateVars, registryVars, localVars, returnVars
<1>1. LoggedAcks' = LoggedAcks /\ Leased' = Leased /\ Transporting' = Transporting
  BY AcksStay, Zenon DEF Leased, Transporting
<1>2. LeaseInv' /\ AckInv'
  BY <1>1, Zenon DEF KillInv, LeaseInv, AckInv, DraftOK, Calm
<1>3. \A t \in Threads : HoldClaim(t)'
  BY <1>1, Zenon DEF KillInv, HoldClaim, Holds
<1>4. \A t \in Threads : AckClaim(t)'
  BY <1>1, Zenon DEF KillInv, AckClaim, AckCoherent, Calm
<1> QED
  BY <1>2, <1>3, <1>4, Zenon DEF KillInv

\* and a new run satisfies it.
LEMMA InitKillInv == Init => KillInv
<1> SUFFICES ASSUME Init
             PROVE  KillInv
  BY Zenon
<1> USE DEF Init, InitSupervisor, InitState, InitGateway, InitExecutor, Ledger!Init
<1>1. LeaseInv
  <2>1. active \in [Auths -> Nat] /\ Leased = {}
    BY SMT DEF Leased
  <2> QED
    BY <2>1, FS_EmptySet, Zenon DEF LeaseInv
<1>2. AckInv
  <2>1. DraftOK /\ wallSteps \in Nat
    BY SMTT(30) DEF DraftOK, NoDraft
  <2>2. LoggedAcks = {}
    BY SMT DEF LoggedAcks, Logged, Kinds
  <2> QED
    BY <2>1, <2>2, Zenon DEF AckInv, Calm
<1>3. ASSUME NEW t \in Threads
      PROVE  /\ pc[t] \in {"idle", "replay", "watch", "complete", "report"}
             /\ after[t] = "done" /\ ~Holds(t)
  <2>1. pc[t] \in {"idle", "replay", "watch", "complete", "report"}
    BY RolesAssumption, Zenon DEF FirstLabel
  <2> QED
    BY <2>1, Zenon DEF Holds, HoldLabels
<1>4. \A t \in Threads : HoldClaim(t) /\ AckClaim(t)
  BY <1>3, Zenon DEF HoldClaim, AckClaim, ContainLabels
<1> QED
  BY <1>1, <1>2, <1>4, Zenon DEF KillInv

-----------------------------------------------------------------------------
\* The registrations, the leases and the acknowledgement agree in every behaviour
\* of the composed runtime (supervisor.py:197-279, executor.py:103-196, state.py).
THEOREM KillInvariance == Spec => []KillInv
<1>1. ContainmentInv /\ KillInv /\ [Next]_containmentVars => KillInv'
  BY StepKeepsKill, StutterKeepsKill, NextIsStep, Zenon
<1> QED
  BY <1>1, InitKillInv, ContainmentInvariance, PTL DEF Spec

\* Outside contain, kill_acknowledgement is exactly what the mirror has accepted:
\* a commit that fails withdraws it, and no second one is logged
\* (supervisor.py:209-268).
THEOREM AckIsWhatWasLogged == Spec => []AckIsLogged
<1>1. KillInv => AckIsLogged
  BY Zenon DEF KillInv, AckInv, AckIsLogged, LoggedAcks, Logged
<1> QED
  BY <1>1, KillInvariance, PTL

\* As long as the wall clock has not stepped back, what contain signs validates,
\* whatever dispatches come and go between the count of the leases, the signals
\* and the report of the isolation backend: a killed run that has gone quiet is
\* acknowledged unless a commit failed (supervisor.py:209-268, models.py).
THEOREM KilledIsAcknowledged == Spec => [](wallSteps = 0 => AckUnlessEmergency)
<1>1. KillInv => (wallSteps = 0 => AckUnlessEmergency)
  BY Zenon DEF KillInv, AckInv, AckUnlessEmergency, Quiet, Calm
<1> QED
  BY <1>1, KillInvariance, PTL

-----------------------------------------------------------------------------
\* A client that goes away before its request is submitted takes no lease, no
\* registration and no acknowledgement with it (main.py:56-103).
LEMMA LeavingKeepsKill ==
  ASSUME ContainmentInv, KillInv, NEW w \in Workers, Leaves(w)
  PROVE  KillInv'
<1>1. w \in Threads /\ TypesOK /\ Guarantee(w)
  BY LeavingKeeps, GatewayAssumption, Zenon DEF ContainmentInv, Shared
<1>2. pc'[w] = "done"
  BY <1>1, Zenon DEF Leaves, Goto, TypesOK
<1>3. UNCHANGED <<active, inflight, registered, target, containVars>> /\ LoggedAcks' = LoggedAcks
  BY AcksStay, Zenon DEF Leaves, stateVars, leaseVars, registryVars, evidenceVars
<1>4. phase' = phase
  BY Zenon DEF Leaves, stateVars, latchVars
<1>5. Walks(w) /\ Outside(w)
  BY <1>2, <1>3, <1>4, Zenon DEF Walks, Outside, ContainLabels
<1>6. HoldMoves(w) /\ LeaseInv'
  BY <1>1, <1>3, <1>5, WalkKeeps, Zenon
<1>7. AckInv' /\ \A u \in Threads : AckClaim(u)'
  BY <1>1, <1>5, OutsideKeeps, Zenon
<1>8. \A u \in Threads : HoldClaim(u)'
  BY <1>1, <1>6, OthersHold, Zenon
<1> QED
  BY <1>6, <1>7, <1>8, Zenon DEF KillInv

\* The same agreement where requests come over the wire: in whatever order the event
\* loop and the submissions it has handed to threads take turns, and whichever clients
\* go away (main.py:56-103, supervisor.py:197-279).
THEOREM AdapterKillInvariance == AdapterSpec => []KillInv
<1>1. AdapterInit => KillInv
  BY InitKillInv, Zenon DEF AdapterInit
<1>2. AdapterInv /\ KillInv /\ [AdapterNext]_<<containmentVars, adapterVars>> => KillInv'
  <2> SUFFICES ASSUME AdapterInv, KillInv, [AdapterNext]_<<containmentVars, adapterVars>>
               PROVE  KillInv'
    BY Zenon
  <2>1. ContainmentInv
    BY Zenon DEF AdapterInv
  <2>2. ASSUME NEW t \in Threads, OwnStep(t)
        PROVE  KillInv'
    BY <2>1, <2>2, StepKeepsKill, Zenon DEF OwnStep, Step
  <2>3. ASSUME NEW w \in Workers, Leaves(w)
        PROVE  KillInv'
    BY <2>1, <2>3, LeavingKeepsKill, Zenon
  <2>4. CASE UNCHANGED containmentVars
    BY <2>1, <2>4, StutterKeepsKill, Zenon
  <2> QED
    BY <2>2, <2>3, <2>4, AdapterSteps, Zenon
<1> QED
  BY <1>1, <1>2, AdapterInvariance, PTL DEF AdapterSpec

\* Behind the adapter, too, the run acknowledges exactly what the mirror has accepted,
\* and a kill that has gone quiet is acknowledged unless a commit failed or the wall
\* clock has stepped back (main.py:56-103, supervisor.py:209-268).
THEOREM AdapterAcknowledges ==
  AdapterSpec => [](AckIsLogged /\ (wallSteps = 0 => AckUnlessEmergency))
<1>1. KillInv => AckIsLogged /\ (wallSteps = 0 => AckUnlessEmergency)
  BY Zenon DEF KillInv, AckInv, AckIsLogged, AckUnlessEmergency, LoggedAcks, Logged, Quiet, Calm
<1> QED
  BY <1>1, AdapterKillInvariance, PTL

\* "assert report.valid and report.killed" after a dispatch raced a kill: behind the
\* adapter, where nobody polls the watchdog or the receipt, a run that was killed
\* without an evidence fault has its acknowledgement once it has gone quiet, unless
\* the event budget is exhausted or the wall clock has stepped back
\* (gateway.py:225-255, supervisor.py:209-268).
THEOREM AdapterKillsAreAcknowledged ==
  AdapterSpec =>
    [](NobodyPolls /\ wallSteps = 0 /\ Len(events) < MaxEvents => KillIsAcknowledged)
<1>1. /\ (NobodyPolls => ControlInv /\ (Spoilt \/ InSequence))
      /\ (AckIsLogged /\ (wallSteps = 0 => AckUnlessEmergency)) /\ AdapterInv
      => (NobodyPolls /\ wallSteps = 0 /\ Len(events) < MaxEvents => KillIsAcknowledged)
  <2> SUFFICES ASSUME Spoilt \/ InSequence, AckUnlessEmergency, TypesOK, Len(events) < MaxEvents,
                      Quiet, phase = "KILLED", faults = MaxFaults
               PROVE  ack # NoAck /\ ~emergency
    BY Zenon DEF KillIsAcknowledged, AdapterInv, ContainmentInv, Shared
  <2>1. ~(Len(events) >= MaxEvents)
    BY ThreadAssumption, SMT DEF TypesOK
  <2>2. InSequence
    BY <2>1, Zenon DEF Spoilt
  <2> QED
    BY <2>2, Zenon DEF InSequence, AckUnlessEmergency
<1> QED
  BY <1>1, AdapterInSequence, AdapterAcknowledges, AdapterInvariance, PTL
=============================================================================
