--------------------------- MODULE EvidenceProofs ---------------------------
(***************************************************************************)
(* The evidence of the composed runtime and its offline auditor: what a    *)
(* run that has gone quiet leaves behind is what the auditor accepts and   *)
(* counts.                                                                 *)
(***************************************************************************)
EXTENDS AcknowledgementProofs, EvidenceInvariant, ContainmentAudit

\* The log is finite.
LEMMA LogFinite ==
  ASSUME TypesOK, NEW k
  PROVE  IsFiniteSet(Log(k)) /\ Cardinality(Log(k)) \in Nat
<1>1. mirrored \in Nat
  <2>2. mirrored \in 0..Len(events) /\ events \in Seq({events[i] : i \in 1..Len(events)})
    BY Zenon DEF TypesOK
  <2> QED
    BY <2>2, SMTT(30)
<1>2. IsFiniteSet(1..mirrored)
  BY <1>1, FS_Interval, SMTT(30)
<1> QED
  BY <1>2, FS_Subset, FS_CardinalityType, Zenon DEF Log

\* Counting one more.
LEMMA OneMore ==
  ASSUME NEW S, IsFiniteSet(S), NEW x, x \notin S
  PROVE  Cardinality(S \cup {x}) = Cardinality(S) + 1
BY FS_AddElement, Zenon

\* The counters stay those of the log.
LEMMA CountersKeep ==
  ASSUME ContainmentInv, EvidenceInv, NEW t \in Threads, Guarantee(t), LogMoves(t), WriteMoves
  PROVE  CountersOK'
<1>1. /\ TypesOK /\ LedgerMoves /\ CountersOK
      /\ Excused => Excused'
  BY ExcusedStays, Zenon DEF ContainmentInv, Shared, EvidenceInv, LogInv, Guarantee
<1>2. ASSUME NEW v
      PROVE  IsFiniteSet(Recorded(v))
  <2>1. IsFiniteSet(Log("DECISION")) /\ Recorded(v) \subseteq Log("DECISION")
    BY <1>1, LogFinite, Zenon DEF Recorded
  <2> QED
    BY <2>1, FS_Subset, Zenon
<1>3. ASSUME NEW k
      PROVE  IsFiniteSet(Log(k))
  BY <1>1, LogFinite, Zenon
<1> DEFINE n == mirrored + 1
<1>4. ASSUME mirrored' = mirrored
      PROVE  \A k : Log(k)' = Log(k)
  BY <1>1, <1>4, LogStays, Zenon
<1>5. ASSUME NEW e, Enters(e)
      PROVE  /\ \A k : Log(k)' = IF e.kind = k THEN Log(k) \cup {n} ELSE Log(k)
             /\ \A k : n \notin Log(k)
  BY <1>1, <1>5, LogGrows, Zenon
<1> HIDE DEF n
<1>6. CASE Silent(t)
  <2>1. mirrored' = mirrored /\ CountsNothing /\ pc[t] # "record" /\ pc'[t] # "record"
    BY <1>6, Zenon DEF Silent, Strolls
  <2>2. \A k : Log(k)' = Log(k)
    BY <1>4, <2>1, Zenon
  <2>3. \A v : Recorded(v)' = Recorded(v)
    BY <2>1, <2>2, RecordedStays, Zenon
  <2> QED
    BY <1>1, <2>1, <2>2, <2>3, Zenon DEF CountersOK, CountsNothing
<1>7. CASE Counts(t)
  <2>1. /\ mirrored' = mirrored /\ completed' = completed /\ dispatched' = dispatched
        /\ allowed' = IF decision[t].verdict = "ALLOW" THEN allowed + 1 ELSE allowed
        /\ denied' = IF decision[t].verdict = "ALLOW" THEN denied ELSE denied + 1
    BY <1>7, Zenon DEF Counts, RecordDecision, effectVars, resultVars
  <2>2. \A k : Log(k)' = Log(k)
    BY <1>4, <2>1, Zenon
  <2>3. PICK i : \A v :
            /\ i \notin Recorded(v)
            /\ Recorded(v)' =
                  IF v = decision[t].verdict THEN Recorded(v) \cup {i} ELSE Recorded(v)
    BY <1>7, RecordedNow, Zenon
  <2>4. \A v : Cardinality(Recorded(v) \cup {i}) = Cardinality(Recorded(v)) + 1
    BY <1>2, <2>3, OneMore, Zenon
  <2>5. decision[t].verdict \in {"ALLOW", "KILL"}
    BY <1>7, Zenon DEF Counts, EvidenceInv, LogInv, LogClaim, Signed
  <2>6. allowed' = Cardinality(Recorded("ALLOW")')
    BY <1>1, <2>1, <2>3, <2>4, <2>5, Zenon DEF CountersOK
  <2>7. denied' = Cardinality(Recorded("KILL")')
    BY <1>1, <2>1, <2>3, <2>4, <2>5, Zenon DEF CountersOK
  <2> QED
    BY <1>1, <2>1, <2>2, <2>6, <2>7, Zenon DEF CountersOK
<1>8. ASSUME NEW e, Enters(e), Logs(t, e)
      PROVE  CountersOK'
  <2>1. /\ \A k : Log(k)' = IF e.kind = k THEN Log(k) \cup {n} ELSE Log(k)
        /\ \A k : n \notin Log(k)
    BY <1>5, <1>8, Zenon
  <2>2. Cardinality(Log("RESULT") \cup {n}) = Cardinality(Log("RESULT")) + 1
    BY <1>3, <2>1, OneMore, Zenon
  <2>3. Cardinality(Log("DISPATCH") \cup {n}) = Cardinality(Log("DISPATCH")) + 1
    BY <1>3, <2>1, OneMore, Zenon
  <2>4. \A v : Recorded(v)' = Recorded(v)
    <3>1. CASE LogsDecision(t, e)
      BY <1>8, <3>1, RecordedLater, Zenon
    <3>2. CASE ~LogsDecision(t, e)
      <4>1. e.kind # "DECISION" /\ pc[t] # "record" /\ pc'[t] # "record"
        BY <1>8, <3>2, Zenon DEF Logs, LogsTrigger, LogsRequest, LogsDispatch, LogsResult, LogsAck,
                          Strolls
      <4>2. Log("DECISION")' = Log("DECISION")
        BY <2>1, <4>1, Zenon
      <4> QED
        BY <4>1, <4>2, RecordedStays, Zenon
    <3> QED
      BY <3>1, <3>2, Zenon
  <2>5. allowed' = allowed /\ denied' = denied
    BY <1>8, Zenon DEF Logs, LogsTrigger, LogsRequest, LogsDecision, LogsDispatch, LogsResult,
       LogsAck,
                CountsNothing
  <2>6. completed' = Cardinality(Log("RESULT")')
    <3>1. completed' = IF e.kind = "RESULT" THEN completed + 1 ELSE completed
      BY <1>8, Zenon DEF Logs, LogsTrigger, LogsRequest, LogsDecision, LogsDispatch, LogsResult,
                  LogsAck, CountsNothing
    <3> QED
      BY <1>1, <2>1, <2>2, <3>1, Zenon DEF CountersOK
  <2>7. dispatched' = Cardinality(Log("DISPATCH")') \/ Excused'
    <3>1. \/ dispatched' = IF e.kind = "DISPATCH" THEN dispatched + 1 ELSE dispatched
          \/ Excused'
      BY <1>8, Zenon DEF Logs, LogsTrigger, LogsRequest, LogsDecision, LogsDispatch, LogsResult,
                  LogsAck, CountsNothing
    <3> QED
      BY <1>1, <2>1, <2>3, <3>1, Zenon DEF CountersOK
  <2> QED
    BY <1>1, <2>4, <2>5, <2>6, <2>7, Zenon DEF CountersOK
<1> QED
  BY <1>6, <1>7, <1>8, Zenon DEF LogMoves

\* A step that keeps to EvidenceMoves preserves the invariant.
LEMMA EvidenceKeeps ==
  ASSUME DistinctIds, ContainmentInv, KillInv, EvidenceInv, NEW t \in Threads, Guarantee(t),
         EvidenceMoves(t)
  PROVE  EvidenceInv'
<1>1. /\ LogMoves(t) /\ TimeMoves(t) /\ WriteMoves /\ MirrorMoves(t) /\ OverMoves(t)
      /\ LedgerMoves /\ Jumps(t)
  BY Zenon DEF EvidenceMoves, Guarantee
<1>2. TypesOK /\ TypesOK' /\ EventsOK /\ LoggedOnce /\ TimesOK /\ MirrorInv /\ OverInv
  BY TypesKeep, Zenon DEF ContainmentInv, Shared, EvidenceInv, LogInv
<1>3. \/ mirrored' = mirrored
      \/ \E e : Enters(e) /\ Known(events, e, mirrored) /\ Fresh(e)
  BY <1>1, EntryKnown, Zenon DEF LogMoves, Silent, Counts
<1>4. EventsOK' /\ LoggedOnce'
  BY <1>1, <1>2, <1>3, EventsKeep, OnceKeeps, Zenon
<1>5. CountersOK' /\ LeasesLogged' /\ RequestsDecided'
  BY <1>1, CountersKeep, LeasesKeep, DecidedKeep, Zenon DEF MirrorMoves
<1>6. \A u \in Threads : LogClaim(u)'
  BY <1>1, ClaimsKeep, Zenon
<1>7. TimesOK' /\ MirrorInv' /\ OverInv'
  BY <1>1, <1>2, TimesKeep, MirrorKeeps, OverKeeps, Zenon
<1> QED
  BY <1>4, <1>5, <1>6, <1>7, Zenon DEF EvidenceInv, LogInv

\* and a new run satisfies it.
LEMMA InitEvidenceInv == Init => EvidenceInv
<1> SUFFICES ASSUME Init
             PROVE  EvidenceInv
  BY Zenon
<1> USE DEF Init, InitSupervisor, InitState, InitGateway, InitExecutor, Ledger!Init
<1>1. mirrored = 0 /\ events = <<>> /\ Len(events) = 0
  BY SMTT(30)
<1>2. 1..mirrored = {} /\ 2..mirrored = {} /\ 1..Len(events) = {}
  BY <1>1, SMTT(30)
<1>3. /\ \A k : Log(k) = {}
      /\ \A v : Recorded(v) = {}
  BY <1>2, Zenon DEF Log, Recorded
<1>4. Leased = {}
  BY SMTT(30) DEF Leased
<1>5. EventsOK /\ LoggedOnce /\ LeasesLogged /\ RequestsDecided
  BY <1>2, <1>3, <1>4, Zenon DEF EventsOK, LoggedOnce, LeasesLogged, RequestsDecided
<1>6. CountersOK
  BY <1>3, FS_EmptySet, Zenon DEF CountersOK
<1>7. \A t \in Threads : pc[t] \in {"idle", "replay", "watch", "complete", "report"}
  BY RolesAssumption, Zenon DEF FirstLabel
<1>8. \A t \in Threads : LogClaim(t)
  BY <1>3, <1>7, Zenon DEF LogClaim
<1>9. TimesOK
  <2>1. clock \in Nat /\ faults \in 0..MaxFaults /\ draft.ns \in 0..clock
    BY ThreadAssumption, SMTT(30) DEF NoDraft
  <2>2. 0 \in 0..0
    BY SMTT(30)
  <2>3. stamp \in [Threads -> 0..clock] /\ trigger \in [Threads -> 0..Len(events)]
    BY <1>1, <2>2, Zenon
  <2> QED
    BY <1>2, <2>1, <2>3, Zenon DEF TimesOK
<1>10. MirrorInv
  BY <1>1, Zenon DEF MirrorInv
<1>11. OverInv
  BY <1>3, <1>7, Zenon DEF OverInv, ReceiptLabels
<1> QED
  BY <1>5, <1>6, <1>8, <1>9, <1>10, <1>11, Zenon DEF EvidenceInv, LogInv

\* The log, the counters, the leases and the mirror agree in every behaviour of the
\* composed runtime in which no two requests have the same id (gateway.py:93-270,
\* state.py:156-262, supervisor.py:100-373).
THEOREM EvidenceInvariance == Spec => [](DistinctIds => EvidenceInv)
<1>1. Init => (DistinctIds => EvidenceInv)
  BY InitEvidenceInv, Zenon
<1>2. /\ ContainmentInv /\ KillInv /\ (DistinctIds => EvidenceInv) /\ [Next]_containmentVars
      => (DistinctIds => EvidenceInv)'
  <2> SUFFICES ASSUME DistinctIds, ContainmentInv, KillInv, EvidenceInv,
                      [Next]_containmentVars
               PROVE  EvidenceInv'
    BY Zenon DEF DistinctIds
  <2>1. ASSUME NEW t \in Threads, Step(t)
        PROVE  EvidenceInv'
    BY <2>1, StepKeeps, StepEvidence, EvidenceKeeps, Zenon
  <2> QED
    BY <2>1, StutterKeepsEvidence, NextIsStep, Zenon
<1> QED
  BY <1>1, <1>2, ContainmentInvariance, KillInvariance, PTL DEF Spec

-----------------------------------------------------------------------------
\* In a quiet run every request is decided, and the counters are those of the file.
LEMMA QuietCounts ==
  ASSUME ContainmentInv, KillInv, EvidenceInv, RoleInv, QuietRun
  PROVE  /\ \A i \in Of(events, "REQUEST") :
               \E j \in Of(events, "DECISION") : events[j].req = events[i].req
         /\ allowed = Cardinality(Decisions(events, "ALLOW"))
         /\ denied = Cardinality(Decisions(events, "KILL"))
         /\ dispatched = Number(events, "DISPATCH")
         /\ completed = Number(events, "RESULT")
         /\ Number(events, "KILL_ACKNOWLEDGED") = IF phase = "KILLED" THEN 1 ELSE 0
<1>1. InOrder
  BY QuietInOrder, Zenon
<1>2. mirrored = Len(events)
  BY <1>1, Zenon DEF InOrder
<1>3. \A k : Of(events, k) = Log(k)
  BY <1>2, Zenon DEF Log, Of
<1>4. \A w \in Workers : pc[w] \in {"idle", "replay", "done"}
  BY Zenon DEF QuietRun, Quiet
<1>5. CountersOK /\ RequestsDecided /\ ~emergency
  BY Zenon DEF EvidenceInv, LogInv, QuietRun
<1>6. \A i \in Log("REQUEST") : \E j \in Log("DECISION") : events[j].req = events[i].req
  BY <1>4, <1>5, Zenon DEF RequestsDecided, PendingLabels
<1>7. ASSUME NEW i \in Log("DECISION") PROVE pc[events[i].auth] # "record"
  <2>1. i \in 1..Len(events) /\ events[i].kind = "DECISION"
    BY <1>2, Zenon DEF Log
  <2>2. events[i].auth \in Workers
    BY <1>1, <2>1, AtPosition, Zenon DEF Known
  <2> QED
    BY <1>4, <2>2, Zenon
<1>8. ASSUME NEW v PROVE Recorded(v) = Decisions(events, v)
  <2>1. Of(events, "DECISION") = Log("DECISION")
    BY <1>3, Zenon
  <2>2. Recorded(v) = {i \in Log("DECISION") : events[i].verdict = v}
    BY <1>7, Zenon DEF Recorded
  <2> QED
    BY <2>1, <2>2, Zenon DEF Decisions
<1>9. ~Excused
  <2>1. ASSUME Exhausted PROVE FALSE
    <3>1. phase = "KILLED" /\ Kinds({"KILL_ACKNOWLEDGED"}) = {}
      BY <2>1, Zenon DEF Exhausted, QuietRun
    <3>2. PICK i : i \in Log("KILL_ACKNOWLEDGED")
      BY <1>2, <3>1, QuietAcks, Zenon
    <3>3. i \in Kinds({"KILL_ACKNOWLEDGED"})
      BY <1>2, <3>2, Zenon DEF Log, Kinds
    <3> QED
      BY <3>1, <3>3, Zenon
  <2> QED
    BY <1>2, <2>1, Zenon DEF Excused, QuietRun
<1>10. Cardinality(Log("KILL_ACKNOWLEDGED")) = IF phase = "KILLED" THEN 1 ELSE 0
  <2>1. CASE phase = "KILLED"
    <3>1. PICK i : Log("KILL_ACKNOWLEDGED") = {i}
      BY <1>2, <2>1, QuietAcks, Zenon
    <3>2. Cardinality({i}) = 1
      BY FS_Singleton, Zenon
    <3> QED
      BY <2>1, <3>1, <3>2, Zenon
  <2>2. CASE phase # "KILLED"
    BY <1>2, <2>2, QuietAcks, FS_EmptySet, Zenon
  <2> QED
    BY <2>1, <2>2, Zenon
<1>11. ASSUME NEW k PROVE Number(events, k) = Cardinality(Log(k))
  <2>1. Of(events, k) = Log(k)
    BY <1>3, Zenon
  <2> QED
    BY <2>1, Zenon DEF Number
<1>12. /\ allowed = Cardinality(Decisions(events, "ALLOW"))
       /\ denied = Cardinality(Decisions(events, "KILL"))
  <2>1. /\ Recorded("ALLOW") = Decisions(events, "ALLOW")
        /\ Recorded("KILL") = Decisions(events, "KILL")
    BY <1>8, Zenon
  <2> QED
    BY <1>5, <2>1, Zenon DEF CountersOK
<1>13. dispatched = Number(events, "DISPATCH") /\ completed = Number(events, "RESULT")
  BY <1>5, <1>9, <1>11, Zenon DEF CountersOK
<1>14. Number(events, "KILL_ACKNOWLEDGED") = IF phase = "KILLED" THEN 1 ELSE 0
  BY <1>10, <1>11, Zenon
<1>15. \A i \in Of(events, "REQUEST") :
          \E j \in Of(events, "DECISION") : events[j].req = events[i].req
  BY <1>3, <1>6, Zenon
<1> QED
  BY <1>12, <1>13, <1>14, <1>15, Zenon

-----------------------------------------------------------------------------
Reading == INSTANCE AuditorProofs WITH
    trail <- events, seenSoFar <- Inspection,
    Reqs <- Requests, AuthIds <- Workers, Expiry <- Ttl, MaxNs <- MaxClock,
    MaxTrail <- MaxEvents

\* What the auditor makes of a well-formed ledger of the runtime (verify.py:54-224).
LEMMA EvidenceInspected ==
  ASSUME InOrder
  PROVE  /\ Inspection.ok
         /\ \A i \in Of(events, "REQUEST") : events[i].req \in DOMAIN Inspection.at
         /\ \A r \in DOMAIN Inspection.at :
               \E i \in Of(events, "REQUEST") : events[i].req = r
         /\ \A i \in Of(events, "DECISION") : events[i].req \in DOMAIN Inspection.decided
         /\ \A r \in DOMAIN Inspection.decided :
               \E i \in Of(events, "DECISION") : events[i].req = r
         /\ Inspection.allowed = Cardinality(Decisions(events, "ALLOW"))
         /\ Inspection.denied = Cardinality(Decisions(events, "KILL"))
         /\ Inspection.dispatches = Number(events, "DISPATCH")
         /\ Inspection.results = Number(events, "RESULT")
         /\ Inspection.acks = Number(events, "KILL_ACKNOWLEDGED")
<1>1. Reading!IsFile(events)
  BY Zenon DEF InOrder, TypesOK, Reading!IsFile
<1>2. ASSUME NEW i \in 1..Len(events) PROVE Reading!Readable(events[i])
  <2>1. Known(events, events[i], i - 1)
    BY AtPosition, Zenon
  <2>2. ASSUME events[i].kind = "KILL_ACKNOWLEDGED"
        PROVE  events[i].ack.trigger \in Int /\ events[i].ack # Reading!NoLoggedAck
    <3>1. events[i].ack.trigger \in 0..(i - 1) /\ events[i].ack # NoAck
      BY <2>1, <2>2, Zenon DEF Known
    <3>2. events[i].ack.trigger \in Int
      BY <3>1, SMTT(30)
    <3> QED
      BY <3>1, <3>2, Zenon DEF NoAck, Reading!NoLoggedAck
  <2> QED
    BY <2>1, <2>2, Zenon DEF Known, RuntimeKinds, Reading!Readable
<1>3. Reading!Inspected(events, ack, Reading!InspectAll(events, ack))
  BY <1>1, <1>2, Reading!FileInspected, Zenon
<1>4. Inspection = Reading!InspectAll(events, ack)
  BY SMTT(30) DEF Inspection, Audit!InspectAll, Reading!InspectAll, Audit!Inspections,
         Reading!Inspections, Audit!Inspect, Reading!Inspect, Audit!Start, Reading!Start,
         Audit!NoLoggedAck, Reading!NoLoggedAck, Audit!OnRequest, Reading!OnRequest,
         Audit!OnDecision, Reading!OnDecision, Audit!OnDispatch, Reading!OnDispatch,
         Audit!OnResult, Reading!OnResult, Audit!OnCancellation, Reading!OnCancellation,
         Audit!OnTrigger, Reading!OnTrigger, Audit!OnAck, Reading!OnAck,
         Audit!Bound, Reading!Bound, Audit!Put, Reading!Put, Audit!Reject, Reading!Reject
<1>5. Reading!WellFormed(events, ack)
  BY LogFits, Zenon DEF WellFormed, Reading!WellFormed, Fits, Reading!Fits,
         Earlier, Reading!Earlier, Authorizes, Reading!Authorizes,
         InTime, Reading!InTime, Barrier, Reading!Barrier,
         Confirmed, Reading!Confirmed
<1>6. Inspection.ok /\ Reading!Kept(events, Inspection)
  BY <1>3, <1>4, <1>5, Zenon DEF Reading!Inspected
<1>7. \A k : Reading!Of(events, k) = Of(events, k)
  BY Zenon DEF Reading!Of, Of
<1>8. \A S : Reading!Cardinality(S) = Cardinality(S)
  BY Zenon DEF Reading!Cardinality, Cardinality
<1>9. /\ Inspection.allowed = Cardinality(Decisions(events, "ALLOW"))
      /\ Inspection.denied = Cardinality(Decisions(events, "KILL"))
      /\ Inspection.dispatches = Number(events, "DISPATCH")
      /\ Inspection.results = Number(events, "RESULT")
      /\ Inspection.acks = Number(events, "KILL_ACKNOWLEDGED")
  <2>1. Reading!CountsKept(events, Inspection)
    BY <1>6, Zenon DEF Reading!Kept
  <2>2. ASSUME NEW k PROVE Reading!Number(events, k) = Number(events, k)
    BY <1>7, <1>8, Zenon DEF Reading!Number, Number
  <2>3. ASSUME NEW v PROVE Reading!Decisions(events, v) = Decisions(events, v)
    BY Zenon DEF Reading!Decisions, Decisions, Reading!Of, Of
  <2> QED
    BY <1>8, <2>1, <2>2, <2>3, Zenon DEF Reading!CountsKept
<1>10. Reading!RequestsKept(events, Inspection) /\ Reading!DecisionsKept(events, Inspection)
  BY <1>6, Zenon DEF Reading!Kept
<1>11. /\ \A i \in Of(events, "REQUEST") : events[i].req \in DOMAIN Inspection.at
       /\ \A r \in DOMAIN Inspection.at :
             \E i \in Of(events, "REQUEST") : events[i].req = r
  <2>1. Reading!Of(events, "REQUEST") = Of(events, "REQUEST")
    BY <1>7, Zenon
  <2>2. /\ \A i \in Reading!Of(events, "REQUEST") : events[i].req \in DOMAIN Inspection.at
        /\ \A r \in DOMAIN Inspection.at :
              \E i \in Reading!Of(events, "REQUEST") : events[i].req = r
    BY <1>10, Zenon DEF Reading!RequestsKept
  <2> QED
    BY <2>1, <2>2, Zenon
<1>12. /\ \A i \in Of(events, "DECISION") : events[i].req \in DOMAIN Inspection.decided
       /\ \A r \in DOMAIN Inspection.decided :
             \E i \in Of(events, "DECISION") : events[i].req = r
  BY <1>7, <1>10, Zenon DEF Reading!DecisionsKept
<1> QED
  BY <1>6, <1>9, <1>11, <1>12, Zenon

\* What these invariants say of a run that has gone quiet (verify.py:54-278).
LEMMA QuietInspection ==
  ASSUME ContainmentInv, KillInv, DistinctIds => EvidenceInv, RoleInv
  PROVE  QuietRunAudits
<1> SUFFICES ASSUME ContainmentInv, KillInv, EvidenceInv, RoleInv, QuietRun
             PROVE  /\ Inspection.ok
                    /\ DOMAIN Inspection.at = DOMAIN Inspection.decided
                    /\ Audit!Follows(events)
                    /\ Len(events) = mirrored
                    /\ Inspection.allowed = allowed /\ Inspection.denied = denied
                    /\ Inspection.dispatches = dispatched
                    /\ Inspection.results = completed
                    /\ Inspection.acks = IF phase = "KILLED" THEN 1 ELSE 0
  BY Zenon DEF QuietRunAudits, QuietRun
<1>1. InOrder
  BY QuietInOrder, Zenon
<1>2. Len(events) = mirrored /\ Audit!Follows(events)
  BY <1>1, Zenon DEF InOrder, TimesOK, Audit!Follows
<1>3. /\ Inspection.ok
      /\ Inspection.allowed = allowed /\ Inspection.denied = denied
      /\ Inspection.dispatches = dispatched /\ Inspection.results = completed
      /\ Inspection.acks = IF phase = "KILLED" THEN 1 ELSE 0
  <2>1. /\ Inspection.ok
        /\ Inspection.allowed = Cardinality(Decisions(events, "ALLOW"))
        /\ Inspection.denied = Cardinality(Decisions(events, "KILL"))
        /\ Inspection.dispatches = Number(events, "DISPATCH")
        /\ Inspection.results = Number(events, "RESULT")
        /\ Inspection.acks = Number(events, "KILL_ACKNOWLEDGED")
    BY <1>1, EvidenceInspected, Zenon
  <2>2. /\ allowed = Cardinality(Decisions(events, "ALLOW"))
        /\ denied = Cardinality(Decisions(events, "KILL"))
        /\ dispatched = Number(events, "DISPATCH")
        /\ completed = Number(events, "RESULT")
        /\ Number(events, "KILL_ACKNOWLEDGED") = IF phase = "KILLED" THEN 1 ELSE 0
    BY QuietCounts, Zenon
  <2> QED
    BY <2>1, <2>2, Zenon
<1>4. ASSUME NEW r \in DOMAIN Inspection.at PROVE r \in DOMAIN Inspection.decided
  <2>1. PICK i \in Of(events, "REQUEST") : events[i].req = r
    BY <1>1, EvidenceInspected, ZenonT(40)
  <2>2. PICK j \in Of(events, "DECISION") : events[j].req = events[i].req
    BY QuietCounts, Zenon
  <2> QED
    BY <1>1, <2>1, <2>2, EvidenceInspected, Zenon
<1>5. ASSUME NEW r \in DOMAIN Inspection.decided PROVE r \in DOMAIN Inspection.at
  <2>1. PICK j \in Of(events, "DECISION") : events[j].req = r
    BY <1>1, EvidenceInspected, Zenon
  <2>2. j \in 1..Len(events) /\ events[j].kind = "DECISION"
    BY ZenonT(40) DEF Of
  <2>3. /\ events[j].ref \in 1..(j - 1) /\ events[events[j].ref].kind = "REQUEST"
        /\ events[events[j].ref].req = r
    BY <1>1, <2>1, <2>2, AtPosition, Zenon DEF Known
  <2>4. events[j].ref \in 1..Len(events)
    BY <1>1, <2>2, <2>3, AtPosition, Zenon
  <2> QED
    BY <1>1, <2>3, <2>4, EvidenceInspected, Zenon DEF Of
<1> QED
  BY <1>2, <1>3, <1>4, <1>5, Zenon

\* "canonical signed event chain and receipt verify offline": whatever threads raced in
\* it, a killed or completed run that has gone quiet without an evidence fault leaves
\* events in which the auditor finds nothing wrong and in which it counts what RunState
\* counted (auditor/verify.py:54-278, app/state.py:156-262).
THEOREM QuietRunsAudit == Spec => []QuietRunAudits
<1>1. ContainmentInv /\ KillInv /\ (DistinctIds => EvidenceInv) /\ RoleInv => QuietRunAudits
  BY QuietInspection, Zenon
<1> QED
  BY <1>1, ContainmentInvariance, KillInvariance, EvidenceInvariance, RolesInvariance, PTL

-----------------------------------------------------------------------------
\* A client that goes away before its request is submitted leaves no trace in the
\* evidence (main.py:56-103).
LEMMA LeavingKeepsEvidence ==
  ASSUME DistinctIds, ContainmentInv, KillInv, EvidenceInv, NEW w \in Workers, Leaves(w)
  PROVE  EvidenceInv'
<1>1. w \in Threads /\ TypesOK /\ Guarantee(w)
  BY LeavingKeeps, GatewayAssumption, Zenon DEF ContainmentInv, Shared
<1>2. pc[w] = "idle" /\ pc'[w] = "done"
  BY <1>1, Zenon DEF Leaves, Goto, TypesOK
<1>3. /\ UNCHANGED <<events, mirrored, faults, sealed, clock, stamp, trigger, draft, ack, emergency>>
      /\ UNCHANGED <<allowed, denied, completed, dispatched, active>>
  BY Zenon DEF Leaves, evidenceVars, localVars, containVars, stateVars, leaseVars, decideVars,
         effectVars, resultVars
<1>4. LogMoves(w)
  BY <1>2, <1>3, Zenon DEF LogMoves, Silent, CountsNothing, Strolls, Leased, UnaskedLabels,
         UndecidedLabels, PendingLabels
<1>5. TimeMoves(w) /\ WriteMoves /\ MirrorMoves(w) /\ OverMoves(w)
  BY <1>2, <1>3, Zenon DEF TimeMoves, WriteMoves, MirrorMoves, OverMoves, ReceiptLabels
<1> QED
  BY <1>1, <1>4, <1>5, EvidenceKeeps, Zenon DEF EvidenceMoves

\* The runs of the runtime as it is deployed audit: with the adapter in front of it,
\* whichever clients go away and in whatever order the event loop and the submissions
\* take turns (main.py:56-103, auditor/verify.py:54-278).
THEOREM AdapterRunsAudit == AdapterSpec => []QuietRunAudits
<1>1. AdapterInit => (DistinctIds => EvidenceInv)
  BY InitEvidenceInv, Zenon DEF AdapterInit
<1>2. /\ AdapterInv /\ KillInv /\ (DistinctIds => EvidenceInv)
      /\ [AdapterNext]_<<containmentVars, adapterVars>>
      => (DistinctIds => EvidenceInv)'
  <2> SUFFICES ASSUME DistinctIds, AdapterInv, KillInv, EvidenceInv,
                      [AdapterNext]_<<containmentVars, adapterVars>>
               PROVE  EvidenceInv'
    BY Zenon DEF DistinctIds
  <2>1. ContainmentInv
    BY Zenon DEF AdapterInv
  <2>2. ASSUME NEW t \in Threads, OwnStep(t)
        PROVE  EvidenceInv'
    <3>1. Step(t)
      BY <2>2, Zenon DEF OwnStep, Step
    <3> QED
      BY <2>1, <3>1, StepKeeps, StepEvidence, EvidenceKeeps, Zenon
  <2>3. ASSUME NEW w \in Workers, Leaves(w)
        PROVE  EvidenceInv'
    BY <2>1, <2>3, LeavingKeepsEvidence, Zenon
  <2>4. CASE UNCHANGED <<containmentVars, loop>>
    BY <2>4, StutterKeepsEvidence, Zenon
  <2> QED
    BY <2>2, <2>3, <2>4, AdapterSteps, Zenon
<1>3. ContainmentInv /\ KillInv /\ (DistinctIds => EvidenceInv) /\ RoleInv => QuietRunAudits
  BY QuietInspection, Zenon
<1>4. AdapterInv => ContainmentInv
  BY Zenon DEF AdapterInv
<1> QED
  BY <1>1, <1>2, <1>3, <1>4, AdapterInvariance, AdapterKillInvariance, AdapterRoles, PTL
  DEF AdapterSpec
=============================================================================
