------------------------- MODULE EvidenceInvariant --------------------------
(***************************************************************************)
(* The evidence of the composed runtime, for every number of threads in    *)
(* every role and for every bound: the invariant that relates the events   *)
(* the mirror has accepted to the counters, the leases and the clock, and  *)
(* that every step preserves it.                                           *)
(*                                                                         *)
(* A commit that raises leaves the accepted events alone, and one that     *)
(* returns adds its event to them, so each kind of event has one step that *)
(* adds it; what that step needs to know, the claim of its thread says.    *)
(***************************************************************************)
EXTENDS ContainmentProofs, WellFormedFile

\* The events of kind k that the mirror has accepted.
Log(k) == {i \in 1..mirrored : events[i].kind = k}

RuntimeKinds ==
    {"REQUEST", "DECISION", "DISPATCH", "RESULT", "VIOLATION", "OVERLOAD_SUMMARY",
     "KILL_ACKNOWLEDGED"}

\* Where a worker is before its request, or its decision, is logged.
UnaskedLabels == {"idle", "admit", "request_commit"}
UndecidedLabels == UnaskedLabels \cup {"decide", "sign_decision", "decision_commit"}

\* Where a worker whose request is logged has yet to log the decision.
PendingLabels == {"decide", "sign_decision", "decision_commit", "emergency"}

\* What the thread that logs e knows, when n events are in the log.
Known(log, e, n) ==
    /\ e.kind \in RuntimeKinds
    /\ e.kind = "REQUEST" => \E w \in Workers : e.req = RequestOf[w]
    /\ e.kind \in {"DECISION", "DISPATCH", "RESULT"} =>
          e.auth \in Workers /\ e.req = RequestOf[e.auth]
    /\ e.kind = "DECISION" =>
          /\ e.verdict \in {"ALLOW", "KILL"} /\ e.expiry \in Int
          /\ e.ref \in 1..n
          /\ log[e.ref].kind = "REQUEST" /\ log[e.ref].req = e.req
    /\ e.kind = "RESULT" =>
          \E j \in 1..n : log[j].kind = "DISPATCH" /\ log[j].auth = e.auth
    /\ e.kind = "KILL_ACKNOWLEDGED" => e.ack.trigger \in 0..n /\ e.ack # NoAck

EventsOK == \A i \in 1..mirrored : Known(events, events[i], i - 1)

\* A request, a decision, a result and an acknowledgement are logged once.
LoggedOnce ==
    /\ \A i, j \in Log("REQUEST") : events[i].req = events[j].req => i = j
    /\ \A i, j \in Log("DECISION") : events[i].auth = events[j].auth => i = j
    /\ \A i, j \in Log("RESULT") : events[i].auth = events[j].auth => i = j
    /\ \A i, j \in Log("KILL_ACKNOWLEDGED") : i = j

\* Readings of the clock are not ahead of it, nor a trigger of the ledger.
TimesOK ==
    /\ clock \in Nat /\ faults \in 0..MaxFaults
    /\ stamp \in [Threads -> 0..clock]
    /\ draft.ns \in 0..clock
    /\ ack # NoAck => ack.ns \in 0..clock /\ ack.trigger \in 0..Len(events)
    /\ trigger \in [Threads -> 0..Len(events)]
    /\ \A i \in 1..Len(events) : events[i].ns \in 0..clock
    /\ \A i \in 2..mirrored : events[i].ns >= events[i - 1].ns

\* The ledger is ahead of the mirror only for a reason.
MirrorInv ==
    \/ mirrored = Len(events)
    \/ emergency \/ Overtaken # {}
    \/ \E t \in Threads : pc[t] \in {"emergency", "unsign"}

\* A ledger without a free slot, in which the kill is not acknowledged.
Exhausted ==
    /\ Len(events) >= MaxEvents /\ Kinds({"KILL_ACKNOWLEDGED"}) = {}
    /\ phase \in {"KILLING", "KILLED"}

\* A commit has failed.
Excused == faults # MaxFaults \/ mirrored # Len(events) \/ Exhausted

\* The decisions with verdict v that record_decision has counted.
Recorded(v) ==
    {i \in Log("DECISION") : events[i].verdict = v /\ pc[events[i].auth] # "record"}

\* The counters of RunState are those of the log, but for a dispatch whose commit
\* raised.
CountersOK ==
    /\ allowed = Cardinality(Recorded("ALLOW"))
    /\ denied = Cardinality(Recorded("KILL"))
    /\ completed = Cardinality(Log("RESULT"))
    /\ dispatched = Cardinality(Log("DISPATCH")) \/ Excused

\* A lease is for a logged dispatch without a result.
LeasesLogged ==
    \A a \in Leased :
        /\ \E j \in Log("DISPATCH") : events[j].auth = a
        /\ \A j \in Log("RESULT") : events[j].auth # a

\* A logged request is decided, or will be, or its worker failed.
RequestsDecided ==
    \A i \in Log("REQUEST") :
        \/ emergency
        \/ \E w \in Workers : RequestOf[w] = events[i].req /\ pc[w] \in PendingLabels
        \/ \E j \in Log("DECISION") : events[j].req = events[i].req

\* Worker t has signed its decision.
Signed(t) == decision[t].verdict \in {"ALLOW", "KILL"} /\ decision[t].expiry \in Int

\* What the log says of thread t where it is.
LogClaim(t) ==
    /\ pc[t] \in UnaskedLabels => \A i \in Log("REQUEST") : events[i].req # RequestOf[t]
    /\ pc[t] \in UndecidedLabels => \A i \in Log("DECISION") : events[i].auth # t
    /\ pc[t] \in {"decision_commit", "record"} => Signed(t)
    /\ pc[t] = "record" =>
          \E i \in Log("DECISION") :
              events[i].auth = t /\ events[i].verdict = decision[t].verdict

LogInv ==
    /\ EventsOK /\ LoggedOnce /\ CountersOK /\ LeasesLogged /\ RequestsDecided
    /\ \A t \in Threads : LogClaim(t)

\* The kill is acknowledged, and the ledger sealed, when the run is over.
OverInv ==
    /\ sealed => phase \in {"KILLED", "COMPLETED"}
    /\ Log("KILL_ACKNOWLEDGED") # {} => phase = "KILLED"
    /\ \A t \in Threads :
          /\ pc[t] \in {"sign", "log"} => phase = "KILLED"
          /\ pc[t] \in ReceiptLabels => phase \in {"KILLED", "COMPLETED"}

EvidenceInv == LogInv /\ TimesOK /\ MirrorInv /\ OverInv

-----------------------------------------------------------------------------
\* Where a step goes that logs neither request nor decision.
Strolls(t) ==
    /\ pc'[t] \in UnaskedLabels => pc[t] \in UnaskedLabels
    /\ pc'[t] \in UndecidedLabels => pc[t] \in UndecidedLabels
    /\ pc[t] # "record" /\ pc'[t] # "record"
    /\ pc[t] \in PendingLabels => pc'[t] \in PendingLabels \/ emergency'
    /\ pc'[t] = "decision_commit" => Signed(t)'

\* A step that counts nothing and takes no lease.
CountsNothing ==
    /\ UNCHANGED <<allowed, denied, completed>>
    /\ dispatched' = dispatched \/ Excused'
    /\ Leased' \subseteq Leased

\* A step that logs nothing: also one whose commit raises.
Silent(t) == mirrored' = mirrored /\ CountsNothing /\ Strolls(t)

\* record_decision.
Counts(t) ==
    /\ t \in Workers /\ pc[t] = "record" /\ pc'[t] \in {"dispatch", "kill_commit"}
    /\ RecordDecision(decision[t].verdict)
    /\ UNCHANGED <<events, mirrored>>

\* A step that logs e, by its kind.
LogsTrigger(t, e) ==
    e.kind \in {"VIOLATION", "OVERLOAD_SUMMARY"} /\ CountsNothing /\ Strolls(t)

LogsRequest(t, e) ==
    /\ e.kind = "REQUEST" /\ e.req = RequestOf[t]
    /\ t \in Workers /\ pc[t] = "request_commit" /\ pc'[t] = "decide"
    /\ CountsNothing

LogsDecision(t, e) ==
    /\ e.kind = "DECISION" /\ e.auth = t /\ e.req = RequestOf[t] /\ e.ref = trigger[t]
    /\ e.verdict = decision[t].verdict /\ e.expiry = decision[t].expiry
    /\ t \in Workers /\ pc[t] = "decision_commit" /\ pc'[t] = "record"
    /\ UNCHANGED decision /\ CountsNothing

LogsDispatch(t, e) ==
    /\ e.kind = "DISPATCH" /\ e.auth \in Workers /\ e.req = RequestOf[e.auth]
    /\ e.auth \notin consumed
    /\ UNCHANGED <<allowed, denied, completed>> /\ dispatched' = dispatched + 1
    /\ Leased' \subseteq Leased \cup {e.auth}
    /\ Strolls(t)

LogsResult(t, e) ==
    /\ e.kind = "RESULT" /\ e.auth \in Leased /\ e.req = RequestOf[e.auth]
    /\ UNCHANGED <<allowed, denied, dispatched>> /\ completed' = completed + 1
    /\ Leased' \subseteq Leased \ {e.auth}
    /\ Strolls(t)

LogsAck(t, e) ==
    /\ e.kind = "KILL_ACKNOWLEDGED" /\ e.ack = ack
    /\ pc[t] = "log" /\ CountsNothing /\ Strolls(t)

Enters(e) ==
    mirrored = Len(events) /\ mirrored' = mirrored + 1 /\ events' = Append(events, e)

Logs(t, e) ==
    \/ LogsTrigger(t, e) \/ LogsRequest(t, e) \/ LogsDecision(t, e)
    \/ LogsDispatch(t, e) \/ LogsResult(t, e) \/ LogsAck(t, e)

LogMoves(t) == Silent(t) \/ Counts(t) \/ \E e : Enters(e) /\ Logs(t, e)

\* What a step does to readings of the clock and to triggers.
TimeMoves(t) ==
    /\ clock' \in {clock, clock + 1}
    /\ stamp' = stamp \/ stamp' = [stamp EXCEPT ![t] = clock']
    /\ draft'.ns \in {draft.ns, clock', 0}
    /\ ack' \in {ack, NoAck} \/ (ack'.ns = draft.ns /\ ack'.trigger = trigger[t])
    /\ trigger' = trigger \/ trigger' = [trigger EXCEPT ![t] = Len(events')]

\* A commit, or none, of an event stamped no later than now.
WriteMoves ==
    \/ UNCHANGED <<events, mirrored, faults>>
    \/ \E e : (CommitOk(e) \/ CommitRaises(e)) /\ e.ns \in 0..clock'

\* What a step does to the reasons for which the mirror stays behind.
MirrorMoves(t) ==
    /\ emergency \/ pc[t] \in {"emergency", "unsign"} => emergency'
    /\ mirrored = Len(events) /\ mirrored' # Len(events') =>
          Overtaken' # {} \/ pc'[t] \in {"emergency", "unsign"}

OverMoves(t) ==
    /\ sealed' => sealed \/ pc[t] \in ReceiptLabels
    /\ pc'[t] \in {"sign", "log"} => phase' = "KILLED"
    /\ pc'[t] \in ReceiptLabels => phase' \in {"KILLED", "COMPLETED"}

EvidenceMoves(t) ==
    /\ LogMoves(t) /\ TimeMoves(t) /\ WriteMoves /\ MirrorMoves(t) /\ OverMoves(t)

-----------------------------------------------------------------------------
\* What the mirror has accepted stays when a step adds nothing to it,
LEMMA LogStays ==
  ASSUME TypesOK, LedgerMoves, mirrored' = mirrored
  PROVE  /\ mirrored \in Nat
         /\ \A i \in 1..mirrored : events'[i] = events[i]
         /\ \A k : Log(k)' = Log(k)
<1>1. mirrored \in Nat
  BY LedgerStays, SMT DEF TypesOK
<1>2. \A i \in 1..mirrored : events'[i] = events[i]
  BY MirroredStays, Zenon
<1> QED
  BY <1>1, <1>2, Zenon DEF Log

\* and when it adds an event to it.
LEMMA LogGrows ==
  ASSUME TypesOK, NEW e, Enters(e)
  PROVE  /\ mirrored \in Nat /\ mirrored' = mirrored + 1
         /\ events'[mirrored + 1] = e
         /\ \A i \in 1..mirrored : events'[i] = events[i]
         /\ \A k : Log(k)' = IF e.kind = k THEN Log(k) \cup {mirrored + 1} ELSE Log(k)
         /\ \A k : mirrored + 1 \notin Log(k)
<1>1. mirrored = Len(events) /\ mirrored' = mirrored + 1 /\ events' = Append(events, e)
  BY Zenon DEF Enters
<1>2. /\ Len(events) \in Nat /\ events'[Len(events) + 1] = e
      /\ \A i \in 1..Len(events) : events'[i] = events[i]
  BY <1>1, Appended, Zenon
<1>3. /\ mirrored \in Nat /\ mirrored' = mirrored + 1 /\ events'[mirrored + 1] = e
      /\ \A i \in 1..mirrored : events'[i] = events[i]
  BY <1>1, <1>2, Zenon
<1>4. 1..mirrored' = (1..mirrored) \cup {mirrored + 1} /\ mirrored + 1 \notin 1..mirrored
  BY <1>3, SMT
<1>5. \A k : mirrored + 1 \notin Log(k)
  BY <1>4, Zenon DEF Log
<1>6. ASSUME NEW k
      PROVE  Log(k)' = IF e.kind = k THEN Log(k) \cup {mirrored + 1} ELSE Log(k)
  BY <1>3, <1>4, Zenon DEF Log
<1> QED
  BY <1>3, <1>5, <1>6, Zenon

\* What is known when an event is logged is known for good.
LEMMA KnownStays ==
  ASSUME NEW f, NEW g, NEW e, NEW n, Known(f, e, n), \A j \in 1..n : g[j] = f[j]
  PROVE  Known(g, e, n)
BY Zenon DEF Known

\* The events the mirror has accepted stay known, and a new one is known when
\* its thread knows what it logs.
LEMMA EventsKeep ==
  ASSUME TypesOK, LedgerMoves, EventsOK,
         \/ mirrored' = mirrored
         \/ \E e : Enters(e) /\ Known(events, e, mirrored)
  PROVE  EventsOK'
<1>1. mirrored \in Nat
  BY LedgerStays, SMT DEF TypesOK
<1>2. \A j \in 1..mirrored : events'[j] = events[j]
  BY MirroredStays, Zenon
<1>3. ASSUME NEW i \in 1..mirrored
      PROVE  Known(events', events'[i], i - 1)
  <2>1. Known(events, events[i], i - 1)
    BY Zenon DEF EventsOK
  <2>2. \A j \in 1..(i - 1) : j \in 1..mirrored
    BY <1>1, SMT
  <2>3. Known(events', events[i], i - 1)
    BY <1>2, <2>1, <2>2, KnownStays, Zenon
  <2> QED
    BY <1>2, <2>3, Zenon
<1>4. CASE mirrored' = mirrored
  BY <1>3, <1>4, Zenon DEF EventsOK
<1>5. ASSUME NEW e, Enters(e), Known(events, e, mirrored)
      PROVE  EventsOK'
  <2>1. mirrored' = mirrored + 1 /\ events'[mirrored + 1] = e
    BY <1>5, LogGrows, Zenon
  <2>2. Known(events', e, mirrored)
    BY <1>2, <1>5, KnownStays, Zenon
  <2>3. (mirrored + 1) - 1 = mirrored /\ 1..mirrored' = (1..mirrored) \cup {mirrored + 1}
    BY <1>1, <2>1, SMT
  <2>4. Known(events', events'[mirrored + 1], (mirrored + 1) - 1)
    BY <2>1, <2>2, <2>3, Zenon
  <2> QED
    BY <1>3, <2>3, <2>4, Zenon DEF EventsOK
<1> QED
  BY <1>4, <1>5, Zenon

\* The event e is not in the log yet.
Fresh(e) ==
    /\ e.kind = "REQUEST" => \A i \in Log("REQUEST") : events[i].req # e.req
    /\ e.kind = "DECISION" => \A i \in Log("DECISION") : events[i].auth # e.auth
    /\ e.kind = "RESULT" => \A i \in Log("RESULT") : events[i].auth # e.auth
    /\ e.kind = "KILL_ACKNOWLEDGED" => Log("KILL_ACKNOWLEDGED") = {}

LEMMA OnceKeeps ==
  ASSUME TypesOK, LedgerMoves, LoggedOnce,
         mirrored' = mirrored \/ \E e : Enters(e) /\ Fresh(e)
  PROVE  LoggedOnce'
<1>1. \A j \in 1..mirrored : events'[j] = events[j]
  BY MirroredStays, Zenon
<1>2. \A k : \A i \in Log(k) : events'[i] = events[i]
  BY <1>1, Zenon DEF Log
<1>3. CASE mirrored' = mirrored
  <2>1. \A k : Log(k)' = Log(k)
    BY <1>3, LogStays, Zenon
  <2> QED
    BY <1>2, <2>1, SMT DEF LoggedOnce
<1>4. ASSUME NEW e, Enters(e), Fresh(e)
      PROVE  LoggedOnce'
  <2> DEFINE n == mirrored + 1
  <2>1. /\ events'[n] = e
        /\ \A k : Log(k)' = IF e.kind = k THEN Log(k) \cup {n} ELSE Log(k)
    BY <1>4, LogGrows, Zenon
  <2> HIDE DEF n
  <2>2. (\A i, j \in Log("REQUEST") : events[i].req = events[j].req => i = j)'
    BY <1>2, <1>4, <2>1, SMT DEF LoggedOnce, Fresh
  <2>3. (\A i, j \in Log("DECISION") : events[i].auth = events[j].auth => i = j)'
    BY <1>2, <1>4, <2>1, SMT DEF LoggedOnce, Fresh
  <2>4. (\A i, j \in Log("RESULT") : events[i].auth = events[j].auth => i = j)'
    BY <1>2, <1>4, <2>1, SMT DEF LoggedOnce, Fresh
  <2>5. (\A i, j \in Log("KILL_ACKNOWLEDGED") : i = j)'
    BY <1>4, <2>1, Zenon DEF LoggedOnce, Fresh
  <2> QED
    BY <2>2, <2>3, <2>4, <2>5, Zenon DEF LoggedOnce
<1> QED
  BY <1>3, <1>4, Zenon

\* The thread that logs a request or a decision logs its own.
Own(t, e) ==
    /\ e.kind = "REQUEST" => t \in Workers /\ e.req = RequestOf[t]
    /\ e.kind = "DECISION" => e.auth = t

\* What a thread logs it knows, is new and its own.
LEMMA EntryKnown ==
  ASSUME ContainmentInv, KillInv, EvidenceInv, NEW t \in Threads, NEW e, Enters(e), Logs(t, e)
  PROVE  Known(events, e, mirrored) /\ Fresh(e) /\ Own(t, e)
<1>1. /\ TypesOK /\ Claim(t) /\ LogClaim(t) /\ AckClaim(t) /\ LeasesLogged /\ TimesOK
      /\ mirrored = Len(events)
  BY Zenon DEF ContainmentInv, Shared, KillInv, EvidenceInv, LogInv, Enters
<1>2. mirrored \in Nat
  BY <1>1, LogGrows, Zenon
<1>3. CASE LogsTrigger(t, e)
  BY <1>3, Zenon DEF LogsTrigger, Known, Fresh, Own, RuntimeKinds
<1>4. CASE LogsRequest(t, e)
  BY <1>1, <1>4, Zenon DEF LogsRequest, Known, Fresh, Own, RuntimeKinds, LogClaim, UnaskedLabels
<1>5. CASE LogsDecision(t, e)
  <2>1. RequestAt(t, trigger[t]) /\ Signed(t)
    BY <1>1, <1>5, Zenon DEF LogsDecision, Claim, LogClaim
  <2>2. \A i \in Log("DECISION") : events[i].auth # t
    BY <1>1, <1>5, Zenon DEF LogsDecision, LogClaim, UndecidedLabels
  <2> QED
    BY <1>5, <2>1, <2>2, Zenon
    DEF LogsDecision, Known, Fresh, Own, RuntimeKinds, RequestAt, Signed
<1>6. CASE LogsDispatch(t, e)
  BY <1>6, Zenon DEF LogsDispatch, Known, Fresh, Own, RuntimeKinds
<1>7. CASE LogsResult(t, e)
  <2>1. e.auth \in Leased /\ e.auth \in Workers
    BY <1>7, GatewayAssumption, Zenon DEF LogsResult, Leased
  <2>2. /\ \E j \in Log("DISPATCH") : events[j].auth = e.auth
        /\ \A j \in Log("RESULT") : events[j].auth # e.auth
    BY <1>1, <2>1, Zenon DEF LeasesLogged
  <2> QED
    BY <1>7, <2>1, <2>2, Zenon DEF LogsResult, Known, Fresh, Own, RuntimeKinds, Log
<1>8. CASE LogsAck(t, e)
  <2>1. ack # NoAck /\ LoggedAcks = {}
    BY <1>1, <1>8, Zenon DEF LogsAck, AckClaim, ContainLabels
  <2>2. ack.trigger \in 0..mirrored
    BY <1>1, <2>1, Zenon DEF TimesOK
  <2>3. Log("KILL_ACKNOWLEDGED") = {}
    <3>1. \A i \in Log("KILL_ACKNOWLEDGED") : i \in Logged
      BY <1>1, <1>2, SMT DEF Log, Logged, Kinds
    <3> QED
      BY <2>1, <3>1, Zenon DEF LoggedAcks
  <2> QED
    BY <1>8, <2>1, <2>2, <2>3, Zenon DEF LogsAck, Known, Fresh, Own, RuntimeKinds
<1> QED
  BY <1>3, <1>4, <1>5, <1>6, <1>7, <1>8, Zenon DEF Logs

\* What a step of thread t adds to the log, and when.
LEMMA Entries ==
  ASSUME ContainmentInv, KillInv, EvidenceInv, NEW t \in Threads, Guarantee(t), LogMoves(t)
  PROVE  /\ \A k : \A i \in Log(k) : i \in Log(k)' /\ events'[i] = events[i]
         /\ \A i \in Log("REQUEST")' \ Log("REQUEST") :
               t \in Workers /\ events'[i].req = RequestOf[t] /\ pc'[t] = "decide"
         /\ \A i \in Log("DECISION")' \ Log("DECISION") :
               events'[i].auth = t /\ pc'[t] = "record"
         /\ \A i \in Log("RESULT")' \ Log("RESULT") : events'[i].auth \notin Leased'
         /\ \A a \in Leased' \ Leased :
               a \notin consumed /\ \E j \in Log("DISPATCH")' : events'[j].auth = a
<1>1. TypesOK /\ LedgerMoves
  BY Zenon DEF ContainmentInv, Shared, Guarantee
<1>2. CASE mirrored' = mirrored /\ Leased' \subseteq Leased
  <2>1. (\A i \in 1..mirrored : events'[i] = events[i]) /\ \A k : Log(k)' = Log(k)
    BY <1>1, <1>2, LogStays, Zenon
  <2>2. \A k : \A i \in Log(k) : i \in Log(k)' /\ events'[i] = events[i]
    BY <2>1, Zenon DEF Log
  <2>3. Log("REQUEST")' = Log("REQUEST") /\ Log("DECISION")' = Log("DECISION")
    BY <2>1, Zenon
  <2>4. Log("RESULT")' = Log("RESULT")
    BY <2>1, Zenon
  <2> QED
    BY <1>2, <2>2, <2>3, <2>4, Zenon
<1>3. ASSUME NEW e, Enters(e), Logs(t, e)
      PROVE  /\ \A k : \A i \in Log(k) : i \in Log(k)' /\ events'[i] = events[i]
             /\ \A i \in Log("REQUEST")' \ Log("REQUEST") :
                   t \in Workers /\ events'[i].req = RequestOf[t] /\ pc'[t] = "decide"
             /\ \A i \in Log("DECISION")' \ Log("DECISION") :
                   events'[i].auth = t /\ pc'[t] = "record"
             /\ \A i \in Log("RESULT")' \ Log("RESULT") : events'[i].auth \notin Leased'
             /\ \A a \in Leased' \ Leased :
                   a \notin consumed /\ \E j \in Log("DISPATCH")' : events'[j].auth = a
  <2> DEFINE n == mirrored + 1
  <2>1. /\ events'[n] = e
        /\ \A i \in 1..mirrored : events'[i] = events[i]
        /\ \A k : Log(k)' = IF e.kind = k THEN Log(k) \cup {n} ELSE Log(k)
    BY <1>1, <1>3, LogGrows, Zenon
  <2> HIDE DEF n
  <2>2. \A k : \A i \in Log(k) : i \in Log(k)' /\ events'[i] = events[i]
    <3>1. \A k : Log(k) \subseteq Log(k)'
      BY <2>1, Zenon
    <3> QED
      BY <2>1, <3>1, Zenon DEF Log
  <2>3. /\ \A i \in Log("REQUEST")' \ Log("REQUEST") : i = n /\ e.kind = "REQUEST"
        /\ \A i \in Log("DECISION")' \ Log("DECISION") : i = n /\ e.kind = "DECISION"
        /\ \A i \in Log("RESULT")' \ Log("RESULT") : i = n /\ e.kind = "RESULT"
        /\ e.kind = "DISPATCH" => n \in Log("DISPATCH")'
    BY <2>1, Zenon
  <2>4. e.kind = "REQUEST" => t \in Workers /\ e.req = RequestOf[t] /\ pc'[t] = "decide"
    BY <1>3, Zenon DEF Logs, LogsTrigger, LogsRequest, LogsDecision, LogsDispatch, LogsResult,
       LogsAck
  <2>5. e.kind = "DECISION" => e.auth = t /\ pc'[t] = "record"
    BY <1>3, Zenon DEF Logs, LogsTrigger, LogsRequest, LogsDecision, LogsDispatch, LogsResult,
       LogsAck
  <2>6. e.kind = "RESULT" => e.auth \notin Leased'
    BY <1>3, Zenon DEF Logs, LogsTrigger, LogsRequest, LogsDecision, LogsDispatch, LogsResult,
       LogsAck
  <2>7. \A a \in Leased' \ Leased : a \notin consumed /\ e.kind = "DISPATCH" /\ e.auth = a
    BY <1>3, Zenon DEF Logs, LogsTrigger, LogsRequest, LogsDecision, LogsDispatch, LogsResult,
       LogsAck,
                CountsNothing
  <2> QED
    BY <2>1, <2>2, <2>3, <2>4, <2>5, <2>6, <2>7, Zenon
<1>4. Silent(t) => mirrored' = mirrored /\ Leased' \subseteq Leased
  BY Zenon DEF Silent, CountsNothing
<1>5. Counts(t) => mirrored' = mirrored /\ Leased' \subseteq Leased
  BY Zenon DEF Counts, RecordDecision, leaseVars, Leased
<1> QED
  BY <1>2, <1>3, <1>4, <1>5, Zenon DEF LogMoves

\* Where a step goes, whatever it logs.
LEMMA Gait ==
  ASSUME ContainmentInv, KillInv, EvidenceInv, NEW t \in Threads, Guarantee(t), LogMoves(t)
  PROVE  /\ pc'[t] \in UnaskedLabels => pc[t] \in UnaskedLabels
         /\ pc'[t] \in UndecidedLabels => pc[t] \in UndecidedLabels
         /\ pc'[t] \in {"decision_commit", "record"} => Signed(t)'
         /\ pc'[t] = "record" =>
               \E i \in Log("DECISION")' :
                   events'[i].auth = t /\ events'[i].verdict = decision'[t].verdict
         /\ pc[t] \in PendingLabels =>
               \/ emergency' \/ pc'[t] \in PendingLabels
               \/ \E j \in Log("DECISION")' : events'[j].req = RequestOf[t]
<1>1. CASE Strolls(t)
  BY <1>1, Zenon DEF Strolls
<1>2. CASE Counts(t)
  BY <1>2, Zenon DEF Counts, UnaskedLabels, UndecidedLabels, PendingLabels
<1>3. ASSUME NEW e, LogsRequest(t, e)
      PROVE  pc[t] = "request_commit" /\ pc'[t] = "decide"
  BY <1>3, Zenon DEF LogsRequest
<1>4. CASE pc[t] = "request_commit" /\ pc'[t] = "decide"
  BY <1>4, Zenon DEF UnaskedLabels, UndecidedLabels, PendingLabels
<1>5. ASSUME NEW e, Enters(e), LogsDecision(t, e)
      PROVE  /\ pc[t] = "decision_commit" /\ pc'[t] = "record" /\ Signed(t)'
             /\ \E i \in Log("DECISION")' :
                   /\ events'[i].auth = t /\ events'[i].verdict = decision'[t].verdict
                   /\ events'[i].req = RequestOf[t]
  <2>1. TypesOK /\ LogClaim(t)
    BY Zenon DEF ContainmentInv, Shared, EvidenceInv, LogInv
  <2>2. /\ events'[mirrored + 1] = e
        /\ \A k : Log(k)' = IF e.kind = k THEN Log(k) \cup {mirrored + 1} ELSE Log(k)
    BY <1>5, <2>1, LogGrows, Zenon
  <2>3. /\ pc[t] = "decision_commit" /\ pc'[t] = "record" /\ decision' = decision
        /\ e.kind = "DECISION" /\ e.auth = t /\ e.req = RequestOf[t]
        /\ e.verdict = decision[t].verdict
    BY <1>5, Zenon DEF LogsDecision
  <2>4. Signed(t)'
    BY <2>1, <2>3, Zenon DEF LogClaim, Signed
  <2>5. mirrored + 1 \in Log("DECISION")'
    BY <2>2, <2>3, Zenon
  <2> QED
    BY <2>2, <2>3, <2>4, <2>5, Zenon
<1>6. CASE \E e : Enters(e) /\ LogsDecision(t, e)
  BY <1>5, <1>6, Zenon DEF UnaskedLabels, UndecidedLabels
<1> QED
  BY <1>1, <1>2, <1>3, <1>4, <1>6, Zenon
  DEF LogMoves, Silent, Logs, LogsTrigger, LogsDispatch, LogsResult, LogsAck

\* What the log says of each thread, it goes on saying.
LEMMA ClaimsKeep ==
  ASSUME DistinctIds, ContainmentInv, KillInv, EvidenceInv, NEW t \in Threads, Guarantee(t),
         LogMoves(t)
  PROVE  \A u \in Threads : LogClaim(u)'
<1>1. \A u \in Threads : LogClaim(u) /\ Claim(u)
  BY Zenon DEF ContainmentInv, EvidenceInv, LogInv
<1>2. /\ \A k : \A i \in Log(k) : i \in Log(k)' /\ events'[i] = events[i]
      /\ \A i \in Log("REQUEST")' \ Log("REQUEST") :
            t \in Workers /\ events'[i].req = RequestOf[t] /\ pc'[t] = "decide"
      /\ \A i \in Log("DECISION")' \ Log("DECISION") :
            events'[i].auth = t /\ pc'[t] = "record"
  BY Entries, Zenon
<1>3. LogClaim(t)'
  <2>1. /\ pc'[t] \in UnaskedLabels => pc[t] \in UnaskedLabels
        /\ pc'[t] \in UndecidedLabels => pc[t] \in UndecidedLabels
        /\ pc'[t] \in {"decision_commit", "record"} => Signed(t)'
        /\ pc'[t] = "record" =>
              \E i \in Log("DECISION")' :
                  events'[i].auth = t /\ events'[i].verdict = decision'[t].verdict
    BY Gait, Zenon
  <2>2. (pc[t] \in UnaskedLabels => \A i \in Log("REQUEST") : events[i].req # RequestOf[t])'
    <3> SUFFICES ASSUME pc'[t] \in UnaskedLabels, NEW i \in Log("REQUEST")'
                 PROVE  events'[i].req # RequestOf[t]
      BY Zenon
    <3>1. i \in Log("REQUEST")
      BY <1>2, Zenon DEF UnaskedLabels
    <3>2. events'[i] = events[i] /\ events[i].req # RequestOf[t]
      BY <1>1, <1>2, <2>1, <3>1, Zenon DEF LogClaim
    <3> QED
      BY <3>2, Zenon
  <2>3. (pc[t] \in UndecidedLabels => \A i \in Log("DECISION") : events[i].auth # t)'
    <3> SUFFICES ASSUME pc'[t] \in UndecidedLabels, NEW i \in Log("DECISION")'
                 PROVE  events'[i].auth # t
      BY Zenon
    <3>1. i \in Log("DECISION")
      BY <1>2, Zenon DEF UndecidedLabels, UnaskedLabels
    <3>2. events'[i] = events[i] /\ events[i].auth # t
      BY <1>1, <1>2, <2>1, <3>1, Zenon DEF LogClaim
    <3> QED
      BY <3>2, Zenon
  <2> QED
    BY <2>1, <2>2, <2>3, Zenon DEF LogClaim
<1>4. ASSUME NEW u \in Threads \ {t}
      PROVE  LogClaim(u)'
  <2>1. LogClaim(u) /\ Claim(u) /\ pc'[u] = pc[u]
    BY <1>1, Zenon DEF Guarantee, Jumps
  <2>2. pc[u] \in UndecidedLabels \cup {"record"} => u \in Workers
    BY <2>1, Zenon DEF Claim, SubmitLabels, UndecidedLabels, UnaskedLabels
  <2>3. u \in Workers => decision'[u] = decision[u]
    BY Zenon DEF ContainmentInv, Shared, TypesOK, Guarantee, DecisionMoves
  <2>4. t \in Workers /\ u \in Workers => RequestOf[t] # RequestOf[u]
    BY Zenon DEF DistinctIds
  <2>5. (pc[u] \in UnaskedLabels => \A i \in Log("REQUEST") : events[i].req # RequestOf[u])'
    <3> SUFFICES ASSUME pc[u] \in UnaskedLabels, NEW i \in Log("REQUEST")'
                 PROVE  events'[i].req # RequestOf[u]
      BY <2>1, Zenon
    <3>1. u \in Workers
      BY <2>2, Zenon DEF UndecidedLabels
    <3> QED
      BY <1>2, <2>1, <2>4, <3>1, Zenon DEF LogClaim
  <2>6. (pc[u] \in UndecidedLabels => \A i \in Log("DECISION") : events[i].auth # u)'
    BY <1>2, <2>1, Zenon DEF LogClaim
  <2>7. (pc[u] \in {"decision_commit", "record"} => Signed(u))'
    BY <2>1, <2>2, <2>3, Zenon DEF LogClaim, Signed, UndecidedLabels
  <2>8. (pc[u] = "record" =>
            \E i \in Log("DECISION") :
                events[i].auth = u /\ events[i].verdict = decision[u].verdict)'
    BY <1>2, <2>1, <2>2, <2>3, Zenon DEF LogClaim
  <2> QED
    BY <2>5, <2>6, <2>7, <2>8, Zenon DEF LogClaim
<1> QED
  BY <1>3, <1>4, Zenon

\* A lease stays for a logged dispatch without a result.
LEMMA LeasesKeep ==
  ASSUME ContainmentInv, KillInv, EvidenceInv, NEW t \in Threads, Guarantee(t), LogMoves(t)
  PROVE  LeasesLogged'
<1>1. EventsOK /\ LeasesLogged /\ TypesOK /\ CapabilityInv
  BY Zenon DEF ContainmentInv, Shared, EvidenceInv, LogInv
<1>2. /\ \A k : \A i \in Log(k) : i \in Log(k)' /\ events'[i] = events[i]
      /\ \A i \in Log("RESULT")' \ Log("RESULT") : events'[i].auth \notin Leased'
      /\ \A a \in Leased' \ Leased :
            a \notin consumed /\ \E j \in Log("DISPATCH")' : events'[j].auth = a
  BY Entries, Zenon
<1>3. ASSUME NEW i \in Log("RESULT")
      PROVE  events[i].auth \in consumed
  <2>1. mirrored \in 0..Len(events) /\ Len(events) \in Nat
    BY <1>1, LedgerStays, Zenon DEF Guarantee, TypesOK
  <2>2. i \in 1..mirrored /\ Known(events, events[i], i - 1) /\ events[i].kind = "RESULT"
    BY <1>1, Zenon DEF Log, EventsOK
  <2>3. PICK j \in 1..(i - 1) : events[j].kind = "DISPATCH" /\ events[j].auth = events[i].auth
    BY <2>2, Zenon DEF Known
  <2>4. j \in Dispatches
    BY <2>1, <2>2, <2>3, SMT DEF Dispatches, Kinds
  <2> QED
    BY <1>1, <2>3, <2>4, Zenon DEF CapabilityInv
<1>4. ASSUME NEW a \in Leased'
      PROVE  \E j \in Log("DISPATCH")' : events'[j].auth = a
  BY <1>1, <1>2, ZenonT(40) DEF LeasesLogged
<1>5. ASSUME NEW a \in Leased', NEW j \in Log("RESULT")'
      PROVE  events'[j].auth # a
  <2>1. CASE j \notin Log("RESULT")
    BY <1>2, <2>1, Zenon
  <2>2. CASE j \in Log("RESULT")
    <3>1. events'[j] = events[j] /\ events[j].auth \in consumed
      BY <1>2, <1>3, <2>2, Zenon
    <3>2. a \in Leased => events[j].auth # a
      BY <1>1, <2>2, Zenon DEF LeasesLogged
    <3>3. a \notin Leased => a \notin consumed
      BY <1>2, Zenon
    <3> QED
      BY <3>1, <3>2, <3>3, Zenon
  <2> QED
    BY <2>1, <2>2, Zenon
<1> QED
  BY <1>4, <1>5, Zenon DEF LeasesLogged

\* A logged request stays decided, or on the way.
LEMMA DecidedKeep ==
  ASSUME ContainmentInv, KillInv, EvidenceInv, NEW t \in Threads, Guarantee(t), LogMoves(t),
         emergency => emergency'
  PROVE  RequestsDecided'
<1>1. RequestsDecided /\ \A u \in Threads \ {t} : pc'[u] = pc[u]
  BY Zenon DEF EvidenceInv, LogInv, Guarantee, Jumps
<1>2. /\ \A k : \A i \in Log(k) : i \in Log(k)' /\ events'[i] = events[i]
      /\ \A i \in Log("REQUEST")' \ Log("REQUEST") :
            t \in Workers /\ events'[i].req = RequestOf[t] /\ pc'[t] = "decide"
  BY Entries, Zenon
<1>3. pc[t] \in PendingLabels =>
          \/ emergency' \/ pc'[t] \in PendingLabels
          \/ \E j \in Log("DECISION")' : events'[j].req = RequestOf[t]
  BY Gait, Zenon
<1> DEFINE Settled(r) ==
      \/ emergency'
      \/ \E w \in Workers : RequestOf[w] = r /\ pc'[w] \in PendingLabels
      \/ \E j \in Log("DECISION")' : events'[j].req = r
<1>4. ASSUME NEW i \in Log("REQUEST")', i \notin Log("REQUEST")
      PROVE  Settled(events'[i].req)
  BY <1>2, <1>4, Zenon DEF PendingLabels
<1>5. ASSUME NEW i \in Log("REQUEST")
      PROVE  Settled(events'[i].req)
  <2>1. events'[i] = events[i]
    BY <1>2, Zenon
  <2>2. CASE emergency
    BY <2>2, Zenon
  <2>3. ASSUME NEW w \in Workers, RequestOf[w] = events[i].req, pc[w] \in PendingLabels
        PROVE  Settled(events'[i].req)
    <3>1. w \in Threads
      BY GatewayAssumption, Zenon
    <3> QED
      BY <1>1, <1>3, <2>1, <2>3, <3>1, Zenon
  <2>4. ASSUME NEW j \in Log("DECISION"), events[j].req = events[i].req
        PROVE  Settled(events'[i].req)
    <3>1. j \in Log("DECISION")' /\ events'[j] = events[j]
      BY <1>2, Zenon
    <3> QED
      BY <2>1, <2>4, <3>1, Zenon
  <2> QED
    BY <1>1, <2>2, <2>3, <2>4, Zenon DEF RequestsDecided
<1> QED
  BY <1>4, <1>5, Zenon DEF RequestsDecided

-----------------------------------------------------------------------------
\* What a commit, or none, does to the ledger (evidence.py:79-110).
LEMMA Written ==
  ASSUME TypesOK, WriteMoves
  PROVE  /\ faults' = faults \/ (faults > 0 /\ faults' = faults - 1)
         /\ \/ events' = events /\ mirrored' = mirrored
            \/ \E e : /\ Len(events) < MaxEvents
                      /\ events' = Append(events, e) /\ e.ns \in 0..clock'
                      /\ \/ mirrored' = mirrored
                         \/ /\ mirrored = Len(events) /\ mirrored' = mirrored + 1
                            /\ events # <<>> => e.ns >= events[Len(events)].ns
<1>1. CASE UNCHANGED <<events, mirrored, faults>>
  BY <1>1, Zenon
<1>2. ASSUME NEW e, CommitOk(e) \/ CommitRaises(e), e.ns \in 0..clock'
      PROVE  /\ faults' = faults \/ (faults > 0 /\ faults' = faults - 1)
             /\ \/ events' = events /\ mirrored' = mirrored
                \/ /\ Len(events) < MaxEvents
                   /\ events' = Append(events, e)
                   /\ \/ mirrored' = mirrored
                      \/ /\ mirrored = Len(events) /\ mirrored' = mirrored + 1
                         /\ events # <<>> => e.ns >= events[Len(events)].ns
  <2>1. Len(events) \in Nat /\ MaxEvents \in Nat
    <3>1. events \in Seq({events[i] : i \in 1..Len(events)})
      BY Zenon DEF TypesOK
    <3> QED
      BY <3>1, ThreadAssumption, SMT
  <2>2. ~(Len(events) >= MaxEvents) => Len(events) < MaxEvents
    BY <2>1, SMT
  <2> QED
    BY <1>2, <2>2, Zenon
    DEF CommitOk, CommitRaises, Ledger!CommitMirrored, Ledger!CommitUnmirrored, Ledger!Refuses,
        Ledger!MirrorAccepts, evidenceVars
<1> QED
  BY <1>1, <1>2, Zenon DEF WriteMoves

\* A failed commit is not undone.
LEMMA ExcusedStays ==
  ASSUME TypesOK, TimesOK, PhaseMoves, WriteMoves, Excused
  PROVE  Excused'
<1>1. mirrored \in 0..Len(events) /\ Len(events) \in Nat /\ MaxEvents \in Nat
  <2>1. mirrored \in 0..Len(events) /\ events \in Seq({events[i] : i \in 1..Len(events)})
    BY Zenon DEF TypesOK
  <2> QED
    BY <2>1, ThreadAssumption, SMT
<1>2. /\ faults' = faults \/ (faults > 0 /\ faults' = faults - 1)
      /\ \/ events' = events /\ mirrored' = mirrored
         \/ /\ Len(events) < MaxEvents
            /\ mirrored' = mirrored \/ mirrored = Len(events)
            /\ \E e : events' = Append(events, e)
  BY Written, Zenon
<1>3. CASE faults # MaxFaults
  <2>1. faults \in 0..MaxFaults /\ MaxFaults \in Nat
    BY ThreadAssumption, SMT DEF TimesOK
  <2>2. faults' # MaxFaults
    BY <1>2, <1>3, <2>1, SMT
  <2> QED
    BY <2>2, Zenon DEF Excused
<1>4. CASE mirrored # Len(events)
  <2>1. ASSUME NEW e, events' = Append(events, e)
        PROVE  Len(events') = Len(events) + 1
    BY <2>1, Appended, Zenon
  <2>2. mirrored' # Len(events')
    BY <1>1, <1>2, <1>4, <2>1, SMT
  <2> QED
    BY <2>2, Zenon DEF Excused
<1>5. CASE Exhausted
  <2>1. events' = events
    BY <1>1, <1>2, <1>5, SMT DEF Exhausted
  <2>2. Exhausted'
    BY <1>5, <2>1, Zenon DEF Exhausted, Kinds, PhaseMoves
  <2> QED
    BY <2>2, Zenon DEF Excused
<1> QED
  BY <1>3, <1>4, <1>5, Zenon DEF Excused

\* A thread that neither logs nor records a decision leaves those recorded alone.
LEMMA RecordedStays ==
  ASSUME ContainmentInv, EvidenceInv, NEW t \in Threads, Guarantee(t), NEW v,
         pc[t] # "record", pc'[t] # "record", Log("DECISION")' = Log("DECISION")
  PROVE  Recorded(v)' = Recorded(v)
<1>1. TypesOK /\ LedgerMoves /\ EventsOK /\ \A u \in Threads \ {t} : pc'[u] = pc[u]
  BY Zenon DEF ContainmentInv, Shared, EvidenceInv, LogInv, Guarantee, Jumps
<1>2. ASSUME NEW i \in Log("DECISION")
      PROVE  events'[i] = events[i] /\ events[i].auth \in Threads
  <2>1. i \in 1..mirrored /\ Known(events, events[i], i - 1) /\ events[i].kind = "DECISION"
    BY <1>1, Zenon DEF Log, EventsOK
  <2>2. events'[i] = events[i]
    BY <1>1, <2>1, MirroredStays, Zenon
  <2> QED
    BY <2>1, <2>2, GatewayAssumption, Zenon DEF Known
<1>3. \A i \in Log("DECISION") :
          pc'[events'[i].auth] # "record" <=> pc[events[i].auth] # "record"
  BY <1>1, <1>2, Zenon
<1> QED
  BY <1>2, <1>3, Zenon DEF Recorded

\* A decision is not recorded by being logged.
LEMMA RecordedLater ==
  ASSUME ContainmentInv, EvidenceInv, NEW t \in Threads, Guarantee(t), NEW v,
         NEW e, Enters(e), LogsDecision(t, e)
  PROVE  Recorded(v)' = Recorded(v)
<1> DEFINE n == mirrored + 1
<1>1. TypesOK /\ EventsOK /\ LogClaim(t) /\ \A u \in Threads \ {t} : pc'[u] = pc[u]
  BY Zenon DEF ContainmentInv, Shared, EvidenceInv, LogInv, Guarantee, Jumps
<1>2. e.kind = "DECISION" /\ e.auth = t /\ pc[t] = "decision_commit" /\ pc'[t] = "record"
  BY Zenon DEF LogsDecision
<1>3. /\ events'[n] = e
      /\ \A i \in 1..mirrored : events'[i] = events[i]
      /\ \A k : Log(k)' = IF e.kind = k THEN Log(k) \cup {n} ELSE Log(k)
  BY <1>1, LogGrows, Zenon
<1> HIDE DEF n
<1>4. Log("DECISION")' = Log("DECISION") \cup {n}
  BY <1>2, <1>3, Zenon
<1>5. ASSUME NEW i \in Log("DECISION")
      PROVE  events'[i] = events[i] /\ events[i].auth \in Threads \ {t}
  <2>1. i \in 1..mirrored /\ Known(events, events[i], i - 1) /\ events[i].kind = "DECISION"
    BY <1>1, Zenon DEF Log, EventsOK
  <2>2. events[i].auth # t
    BY <1>1, <1>2, Zenon DEF LogClaim, UndecidedLabels
  <2> QED
    BY <1>3, <2>1, <2>2, GatewayAssumption, Zenon DEF Known
<1>6. pc'[events'[n].auth] = "record"
  BY <1>2, <1>3, Zenon
<1> QED
  BY <1>1, <1>4, <1>5, <1>6, Zenon DEF Recorded

\* record_decision records the one decision of its worker.
LEMMA RecordedNow ==
  ASSUME ContainmentInv, EvidenceInv, NEW t \in Threads, Guarantee(t), Counts(t)
  PROVE  \E i : \A v :
            /\ i \notin Recorded(v)
            /\ Recorded(v)' =
                  IF v = decision[t].verdict THEN Recorded(v) \cup {i} ELSE Recorded(v)
<1>1. /\ TypesOK /\ EventsOK /\ LogClaim(t) /\ LoggedOnce
      /\ \A u \in Threads \ {t} : pc'[u] = pc[u]
  BY Zenon DEF ContainmentInv, Shared, EvidenceInv, LogInv, Guarantee, Jumps
<1>2. pc[t] = "record" /\ pc'[t] # "record" /\ events' = events /\ mirrored' = mirrored
  BY Zenon DEF Counts
<1>3. PICK i \in Log("DECISION") :
          events[i].auth = t /\ events[i].verdict = decision[t].verdict
  BY <1>1, <1>2, Zenon DEF LogClaim
<1>4. Log("DECISION")' = Log("DECISION")
  BY <1>2, Zenon DEF Log
<1>5. \A j \in Log("DECISION") : j # i => events[j].auth # t
  BY <1>1, <1>3, Zenon DEF LoggedOnce
<1>6. \A j \in Log("DECISION") : events[j].auth \in Threads
  <2> SUFFICES ASSUME NEW j \in Log("DECISION")
               PROVE  events[j].auth \in Threads
    BY Zenon
  <2>1. j \in 1..mirrored /\ Known(events, events[j], j - 1) /\ events[j].kind = "DECISION"
    BY <1>1, Zenon DEF Log, EventsOK
  <2> QED
    BY <2>1, GatewayAssumption, Zenon DEF Known
<1>7. \A j \in Log("DECISION") :
          pc'[events[j].auth] # "record" <=> pc[events[j].auth] # "record" \/ j = i
  BY <1>1, <1>2, <1>3, <1>5, <1>6, Zenon
<1>8. \A v : i \notin Recorded(v)
  BY <1>2, <1>3, Zenon DEF Recorded
<1>9. ASSUME NEW v
      PROVE  Recorded(v)' =
                IF v = decision[t].verdict THEN Recorded(v) \cup {i} ELSE Recorded(v)
  <2>1. Recorded(v)' =
            {j \in Log("DECISION") : events[j].verdict = v /\ pc'[events[j].auth] # "record"}
    BY <1>2, <1>4, Zenon DEF Recorded
  <2>2. CASE v = decision[t].verdict
    BY <1>3, <1>7, <2>1, <2>2, Zenon DEF Recorded
  <2>3. CASE v # decision[t].verdict
    BY <1>3, <1>7, <2>1, <2>3, Zenon DEF Recorded
  <2> QED
    BY <2>2, <2>3, Zenon
<1> QED
  BY <1>8, <1>9, Zenon

-----------------------------------------------------------------------------
\* Readings of the clock stay behind it, and triggers in the ledger.
LEMMA TimesKeep ==
  ASSUME TypesOK, TimesOK, LedgerMoves, NEW t \in Threads, TimeMoves(t), WriteMoves
  PROVE  TimesOK'
<1>1. /\ Len(events) \in Nat /\ Len(events') \in Nat /\ Len(events) <= Len(events')
      /\ mirrored \in 0..Len(events)
  BY LedgerStays, Zenon DEF TypesOK
<1>2. clock \in Nat /\ clock' \in Nat /\ clock <= clock'
  BY SMT DEF TimesOK, TimeMoves
<1>3. \A n \in 0..clock : n \in 0..clock'
  BY <1>2, SMT
<1>4. \A n \in 0..Len(events) : n \in 0..Len(events')
  BY <1>1, SMT
<1>5. faults' \in 0..MaxFaults
  <2>1. faults' = faults \/ (faults > 0 /\ faults' = faults - 1)
    BY Written, Zenon
  <2>2. faults \in 0..MaxFaults /\ MaxFaults \in Nat
    BY ThreadAssumption, SMT DEF TimesOK
  <2> QED
    BY <2>1, <2>2, SMT
<1>6. clock' \in 0..clock' /\ 0 \in 0..clock' /\ Len(events') \in 0..Len(events')
  BY <1>1, <1>2, SMT
<1>7. stamp' \in [Threads -> 0..clock']
  <2>1. stamp \in [Threads -> 0..clock']
    BY <1>3, SMT DEF TimesOK
  <2> QED
    BY <1>6, <2>1, SMT DEF TimeMoves
<1>8. draft'.ns \in 0..clock'
  BY <1>3, <1>6, Zenon DEF TimeMoves, TimesOK
<1>9. trigger' \in [Threads -> 0..Len(events')]
  <2>1. trigger \in [Threads -> 0..Len(events')]
    BY <1>4, SMT DEF TimesOK
  <2> QED
    BY <1>6, <2>1, SMT DEF TimeMoves
<1>10. ack' # NoAck => ack'.ns \in 0..clock' /\ ack'.trigger \in 0..Len(events')
  <2>1. draft.ns \in 0..clock /\ trigger[t] \in 0..Len(events)
    BY Zenon DEF TimesOK
  <2> QED
    BY <1>3, <1>4, <2>1, Zenon DEF TimeMoves, TimesOK
<1>11. CASE events' = events /\ mirrored' = mirrored
  <2>1. \A i \in 1..Len(events') : events'[i].ns \in 0..clock'
    BY <1>3, <1>11, Zenon DEF TimesOK
  <2>2. \A i \in 2..mirrored' : events'[i].ns >= events'[i - 1].ns
    BY <1>11, Zenon DEF TimesOK
  <2> QED
    BY <1>2, <1>5, <1>7, <1>8, <1>9, <1>10, <2>1, <2>2, Zenon DEF TimesOK
<1>12. ASSUME NEW e, events' = Append(events, e), e.ns \in 0..clock',
              \/ mirrored' = mirrored
              \/ /\ mirrored = Len(events) /\ mirrored' = mirrored + 1
                 /\ events # <<>> => e.ns >= events[Len(events)].ns
       PROVE  TimesOK'
  <2>1. /\ Len(events') = Len(events) + 1 /\ events'[Len(events) + 1] = e
        /\ \A i \in 1..Len(events) : events'[i] = events[i]
    BY <1>12, Appended, Zenon
  <2>2. \A i \in 1..Len(events') : i \in 1..Len(events) \/ i = Len(events) + 1
    BY <1>1, <2>1, SMT
  <2>3. \A i \in 1..Len(events') : events'[i].ns \in 0..clock'
    BY <1>3, <1>12, <2>1, <2>2, Zenon DEF TimesOK
  <2>4. ASSUME NEW i \in 2..mirrored'
        PROVE  events'[i].ns >= events'[i - 1].ns
    <3>1. CASE i \in 2..mirrored
      <4>1. i \in 1..Len(events) /\ i - 1 \in 1..Len(events)
        BY <1>1, <3>1, SMT
      <4>2. events[i].ns >= events[i - 1].ns
        BY <3>1, Zenon DEF TimesOK
      <4> QED
        BY <2>1, <4>1, <4>2, Zenon
    <3>2. CASE i \notin 2..mirrored
      <4>1. /\ mirrored = Len(events) /\ i = Len(events) + 1 /\ i - 1 = Len(events)
            /\ Len(events) \in 1..Len(events) /\ events # <<>>
        BY <1>1, <1>12, <3>2, SMT
      <4>2. e.ns >= events[Len(events)].ns
        BY <1>1, <1>12, <4>1, SMT
      <4>3. events'[i] = e /\ events'[i - 1] = events[Len(events)]
        BY <2>1, <4>1, Zenon
      <4> QED
        BY <4>2, <4>3, Zenon
    <3> QED
      BY <3>1, <3>2, Zenon
  <2> QED
    BY <1>2, <1>5, <1>7, <1>8, <1>9, <1>10, <2>3, <2>4, Zenon DEF TimesOK
<1> QED
  BY <1>11, <1>12, Written, Zenon

\* The mirror stays behind only for a reason.
LEMMA MirrorKeeps ==
  ASSUME TypesOK, TypesOK', MirrorInv, LedgerMoves, NEW t \in Threads, Jumps(t), MirrorMoves(t)
  PROVE  MirrorInv'
<1>1. CASE mirrored = Len(events)
  BY <1>1, Zenon DEF MirrorInv, MirrorMoves
<1>2. CASE emergency
  BY <1>2, Zenon DEF MirrorInv, MirrorMoves
<1>3. ASSUME NEW u \in Threads, pc[u] \in {"emergency", "unsign"}
      PROVE  MirrorInv'
  BY <1>3, Zenon DEF MirrorInv, MirrorMoves, Jumps
<1>4. CASE Overtaken # {} /\ mirrored # Len(events)
  <2>1. PICK i \in Overtaken : TRUE
    BY <1>4, Zenon
  <2>2. /\ i \in 1..Len(events) /\ events[i].kind = "VIOLATION"
        /\ events[i].reason = "runtime" /\ i > mirrored
    BY Zenon DEF Overtaken, Kinds
  <2>3. mirrored' = mirrored
    BY <1>4, Zenon DEF LedgerMoves, Adds
  <2>4. i \in 1..Len(events') /\ events'[i] = events[i]
    <3>1. /\ Len(events) \in Nat /\ Len(events') \in Nat /\ Len(events) <= Len(events')
          /\ \A j \in 1..Len(events) : events'[j] = events[j]
      BY LedgerStays, Zenon
    <3> QED
      BY <2>2, <3>1, SMT
  <2>5. i \in Overtaken'
    BY <2>2, <2>3, <2>4, Zenon DEF Overtaken, Kinds
  <2> QED
    BY <2>5, Zenon DEF MirrorInv
<1> QED
  BY <1>1, <1>2, <1>3, <1>4, Zenon DEF MirrorInv

\* The run stays over when the ledger says so.
LEMMA OverKeeps ==
  ASSUME ContainmentInv, OverInv, NEW t \in Threads, Guarantee(t), OverMoves(t), LogMoves(t)
  PROVE  OverInv'
<1>1. TypesOK /\ LedgerMoves /\ PhaseMoves /\ \A u \in Threads \ {t} : pc'[u] = pc[u]
  BY Zenon DEF ContainmentInv, Shared, Guarantee, Jumps
<1>2. /\ phase = "KILLED" => phase' = "KILLED"
      /\ phase \in {"KILLED", "COMPLETED"} => phase' \in {"KILLED", "COMPLETED"}
  BY <1>1, Zenon DEF PhaseMoves
<1>3. (sealed => phase \in {"KILLED", "COMPLETED"})'
  BY <1>2, Zenon DEF OverInv, OverMoves
<1>4. (\A u \in Threads : /\ pc[u] \in {"sign", "log"} => phase = "KILLED"
                          /\ pc[u] \in ReceiptLabels => phase \in {"KILLED", "COMPLETED"})'
  BY <1>1, <1>2, Zenon DEF OverInv, OverMoves
<1>5. (Log("KILL_ACKNOWLEDGED") # {} => phase = "KILLED")'
  <2>1. CASE mirrored' = mirrored
    <3>1. Log("KILL_ACKNOWLEDGED")' = Log("KILL_ACKNOWLEDGED")
      BY <1>1, <2>1, LogStays, Zenon
    <3> QED
      BY <1>2, <3>1, Zenon DEF OverInv
  <2>2. ASSUME NEW e, Enters(e), Logs(t, e)
        PROVE  Log("KILL_ACKNOWLEDGED")' = Log("KILL_ACKNOWLEDGED") \/ phase = "KILLED"
    <3>1. CASE e.kind = "KILL_ACKNOWLEDGED"
      <4>1. pc[t] = "log"
        BY <2>2, <3>1, Zenon DEF Logs, LogsTrigger, LogsRequest, LogsDecision, LogsDispatch,
           LogsResult,
                          LogsAck
      <4> QED
        BY <4>1, Zenon DEF OverInv
    <3>2. CASE e.kind # "KILL_ACKNOWLEDGED"
      <4>1. \A k : Log(k)' = IF e.kind = k THEN Log(k) \cup {mirrored + 1} ELSE Log(k)
        BY <1>1, <2>2, LogGrows, Zenon
      <4> QED
        BY <3>2, <4>1, Zenon
    <3> QED
      BY <3>1, <3>2, Zenon
  <2> QED
    BY <1>2, <2>1, <2>2, Zenon DEF OverInv, LogMoves, Silent, Counts
<1> QED
  BY <1>3, <1>4, <1>5, Zenon DEF OverInv

-----------------------------------------------------------------------------
\* A step that writes nothing and counts nothing.
Unlogged ==
    /\ UNCHANGED <<events, mirrored, faults, allowed, denied, completed, dispatched>>
    /\ Leased' \subseteq Leased

LEMMA PlainMoves ==
  ASSUME NEW t, Unlogged, Strolls(t), TimeMoves(t), OverMoves(t),
         emergency \/ pc[t] \in {"emergency", "unsign"} => emergency'
  PROVE  EvidenceMoves(t)
<1>1. Silent(t)
  BY Zenon DEF Unlogged, Silent, CountsNothing
<1>2. WriteMoves /\ MirrorMoves(t)
  BY Zenon DEF Unlogged, WriteMoves, MirrorMoves
<1> QED
  BY <1>1, <1>2, Zenon DEF EvidenceMoves, LogMoves

\* Most methods of RunState count no event and take no lease.
LEMMA StateCounts ==
  ASSUME LeaseInv,
         \/ UNCHANGED stateVars \/ LatchKill \/ MarkCompleted \/ MarkKilled \/ AdmitDropped
         \/ \E b, n : AdmitOverload(b, n) \/ AdmitOk(b, n)
         \/ \E d, n, r : BeginOverBudget(d, n, r)
         \/ \E a \in Auths : FinishFails(a) \/ Abort(a)
  PROVE  UNCHANGED <<allowed, denied, completed, dispatched>> /\ Leased' \subseteq Leased
<1>1. CASE \/ UNCHANGED stateVars \/ LatchKill \/ MarkCompleted \/ AdmitDropped
           \/ \E b, n : AdmitOverload(b, n) \/ AdmitOk(b, n)
           \/ \E d, n, r : BeginOverBudget(d, n, r)
           \/ \E a \in Auths : FinishFails(a)
  <2>1. UNCHANGED <<allowed, denied, completed, dispatched, active>>
    BY <1>1, Zenon DEF stateVars, leaseVars, decideVars, effectVars, resultVars, LatchKill,
                MarkCompleted, AdmitDropped, AdmitOverload, AdmitOk, BeginOverBudget,
                FinishFails
  <2> QED
    BY <2>1, Zenon DEF Leased
<1>2. CASE MarkKilled
  <2>1. UNCHANGED <<allowed, denied, completed, dispatched>> /\ active' = [a \in Auths |-> 0]
    BY <1>2, Zenon DEF MarkKilled, decideVars, effectVars, resultVars
  <2>2. Leased' = {}
    BY <2>1, SMT DEF Leased
  <2> QED
    BY <2>1, <2>2, Zenon
<1>3. ASSUME NEW a \in Auths, Abort(a)
      PROVE  UNCHANGED <<allowed, denied, completed, dispatched>> /\ Leased' \subseteq Leased
  <2>1. UNCHANGED <<allowed, denied, completed, dispatched>> /\ Release(a) /\ active[a] > 0
    BY <1>3, Zenon DEF Abort, decideVars, effectVars, resultVars
  <2>2. Leased' = Leased \ {a}
    BY <2>1, LeasedShrinks, Zenon
  <2> QED
    BY <2>1, <2>2, Zenon
<1> QED
  BY <1>1, <1>2, <1>3, Zenon

\* A reading of the clock.
LEMMA ClockRead ==
  ASSUME NEW ns, ReadClock(ns)
  PROVE  clock' \in {clock, clock + 1} /\ clock' = ns
BY Zenon DEF ReadClock

\* A step that leaves its readings and triggers alone, or takes a reading.
LEMMA TimeStays ==
  ASSUME NEW t, UNCHANGED <<ack, draft, trigger>>,
         \/ UNCHANGED <<clock, stamp>>
         \/ \E ns : ReadClock(ns) /\ (stamp' = stamp \/ stamp' = [stamp EXCEPT ![t] = ns])
  PROVE  TimeMoves(t)
BY ClockRead, Zenon DEF TimeMoves

\* The receipt is asked for when the run is over (supervisor.py:281-373).
LEMMA ReceiptEvidence ==
  ASSUME TypesOK, LeaseInv, OverInv, NEW t \in Threads, ReceiptStep(t)
  PROVE  EvidenceMoves(t)
<1> USE DEF UnaskedLabels, UndecidedLabels, PendingLabels, ReceiptLabels
<1>1. /\ pc[t] \in {"complete", "report", "status", "seal", "freeze"}
      /\ pc'[t] \in {"done", "report", "status", "seal", "freeze"}
  BY Zenon DEF ReceiptStep, Complete, OpenReceipt, DeriveStatus, SealEvidence, Freeze, Goto, TypesOK
<1>2. UNCHANGED <<allowed, denied, completed, dispatched>> /\ Leased' \subseteq Leased
  BY StateCounts, Zenon DEF ReceiptStep, Complete, OpenReceipt, DeriveStatus, SealEvidence, Freeze
<1>3. UNCHANGED <<events, mirrored, faults, ack, draft, emergency, stamp, trigger>>
  BY Zenon DEF ReceiptStep, Complete, OpenReceipt, DeriveStatus, SealEvidence, Freeze, evidenceVars,
         Ledger!Seal, containVars, localVars
<1>4. UNCHANGED clock \/ \E ns : ReadClock(ns)
  BY Zenon DEF ReceiptStep, Complete, OpenReceipt, DeriveStatus, SealEvidence, Freeze
<1>5. TimeMoves(t)
  BY <1>3, <1>4, TimeStays, Zenon
<1>6. Strolls(t)
  BY <1>1, Zenon DEF Strolls
<1>7. sealed' => sealed \/ pc[t] = "seal"
  BY Zenon DEF ReceiptStep, Complete, OpenReceipt, DeriveStatus, SealEvidence, Freeze, evidenceVars
<1>8. pc'[t] \in ReceiptLabels => phase' \in {"KILLED", "COMPLETED"}
  <2>1. CASE pc[t] \in ReceiptLabels
    <3>1. phase \in {"KILLED", "COMPLETED"}
      BY <2>1, Zenon DEF OverInv
    <3>2. phase' = phase
      BY <2>1, Zenon DEF ReceiptStep, Complete, OpenReceipt, DeriveStatus, SealEvidence, Freeze,
                  stateVars, latchVars
    <3> QED
      BY <3>1, <3>2, Zenon
  <2>2. CASE pc[t] \notin ReceiptLabels
    BY <2>2, Zenon DEF ReceiptStep, Complete, OpenReceipt, DeriveStatus, SealEvidence, Freeze, Goto,
                TypesOK, stateVars, latchVars
  <2> QED
    BY <2>1, <2>2, Zenon
<1>9. OverMoves(t)
  BY <1>1, <1>7, <1>8, Zenon DEF OverMoves
<1> QED
  BY <1>1, <1>2, <1>3, <1>5, <1>6, <1>9, PlainMoves, Zenon DEF Unlogged

\* The steps of submit_raw that log nothing (gateway.py:93-230).
LEMMA SubmitEvidence ==
  ASSUME TypesOK, LeaseInv, TimesOK, NEW t \in Threads, Claim(t),
         \/ Arrive(t) \/ LateLatch(t) \/ Admit(t) \/ MalformedLatch(t) \/ Decide(t)
         \/ SignDecision(t)
  PROVE  EvidenceMoves(t)
<1> USE DEF UnaskedLabels, UndecidedLabels, PendingLabels, ReceiptLabels
<1>1. /\ pc[t] \in {"idle", "late_latch", "admit", "malformed_latch", "decide", "sign_decision"}
      /\ pc'[t] \in {"fail_latch", "late_latch", "admit", "late_commit", "done", "contain",
                     "overload_commit", "malformed_commit", "request_commit",
                     "sign_decision", "decision_commit"}
      /\ pc'[t] \in UnaskedLabels => pc[t] \in {"idle", "admit"}
      /\ pc'[t] = "sign_decision" => pc[t] = "decide"
      /\ pc[t] = "decide" => pc'[t] = "sign_decision"
      /\ pc'[t] = "decision_commit" <=> pc[t] = "sign_decision"
  <2>1. CASE Arrive(t)
    <3>1. pc[t] = "idle" /\ pc'[t] \in {"fail_latch", "late_latch", "admit"}
      BY <2>1, Zenon DEF Arrive, Goto, TypesOK
    <3> QED
      BY <3>1, Zenon
  <2>2. CASE LateLatch(t) \/ MalformedLatch(t)
    BY <2>2, Zenon DEF LateLatch, MalformedLatch, Goto, TypesOK
  <2>3. CASE Admit(t)
    <3>1. /\ pc[t] = "admit"
          /\ pc'[t] \in {"done", "overload_commit", "malformed_commit", "request_commit"}
      BY <2>3, Zenon DEF Admit, Goto, TypesOK
    <3> QED
      BY <3>1, Zenon
  <2>4. CASE Decide(t) \/ SignDecision(t)
    BY <2>4, Zenon DEF Decide, SignDecision, Goto, TypesOK
  <2> QED
    BY <2>1, <2>2, <2>3, <2>4, Zenon
<1>2. UNCHANGED <<allowed, denied, completed, dispatched>> /\ Leased' \subseteq Leased
  BY StateCounts, Zenon DEF Arrive, LateLatch, Admit, MalformedLatch, Decide, SignDecision
<1>3. UNCHANGED <<events, mirrored, faults, sealed, ack, draft, emergency, trigger>>
  BY Zenon DEF Arrive, LateLatch, Admit, MalformedLatch, Decide, SignDecision, evidenceVars,
         containVars, localVars
<1>4. \/ UNCHANGED <<clock, stamp>>
      \/ \E ns : ReadClock(ns) /\ stamp' = [stamp EXCEPT ![t] = ns]
  BY Zenon DEF Arrive, LateLatch, Admit, MalformedLatch, Decide, SignDecision, localVars
<1>5. TimeMoves(t)
  BY <1>3, <1>4, TimeStays, Zenon
<1>6. pc[t] = "sign_decision" => Signed(t)'
  <2>1. SUFFICES ASSUME pc[t] = "sign_decision" PROVE Signed(t)'
    BY Zenon
  <2>2. PICK d : /\ decision' = [decision EXCEPT ![t] = d]
                 /\ \/ d = [verdict |-> "KILL", epoch |-> epoch', expiry |-> 0, id |-> t]
                    \/ d = [verdict |-> "ALLOW", epoch |-> epoch,
                            expiry |-> stamp[t] + Ttl, id |-> t]
    BY <2>1, Zenon DEF Arrive, LateLatch, Admit, MalformedLatch, Decide, SignDecision
  <2>3. stamp[t] \in Nat /\ Ttl \in Nat
    <3>1. stamp[t] \in 0..clock /\ clock \in Nat
      BY Zenon DEF TimesOK
    <3> QED
      BY <3>1, GatewayAssumption, SMT
  <2>4. d.verdict \in {"ALLOW", "KILL"} /\ d.expiry \in Int
    BY <2>2, <2>3, SMT
  <2>5. decision'[t] = d
    BY <2>1, <2>2, Zenon DEF TypesOK, Claim, SubmitLabels
  <2> QED
    BY <2>4, <2>5, Zenon DEF Signed
<1>7. Strolls(t)
  BY <1>1, <1>6, Zenon DEF Strolls
<1>8. OverMoves(t)
  BY <1>1, <1>3, Zenon DEF OverMoves
<1> QED
  BY <1>1, <1>2, <1>3, <1>5, <1>7, <1>8, PlainMoves, Zenon DEF Unlogged

\* record_decision counts the decision that was just logged (gateway.py:230).
LEMMA RecordEvidence ==
  ASSUME TypesOK, NEW t \in Workers, Record(t)
  PROVE  EvidenceMoves(t)
<1>1. UNCHANGED <<events, mirrored, faults, sealed, ack, draft, emergency, trigger, clock, stamp>>
  BY Zenon DEF Record, evidenceVars, containVars, localVars
<1>2. /\ pc[t] = "record" /\ pc'[t] \in {"dispatch", "kill_commit"}
      /\ RecordDecision(decision[t].verdict)
  BY GatewayAssumption, Zenon DEF Record, Goto, TypesOK
<1>3. Counts(t)
  BY <1>1, <1>2, Zenon DEF Counts
<1>4. TimeMoves(t)
  BY <1>1, TimeStays, Zenon
<1>5. WriteMoves /\ MirrorMoves(t)
  BY <1>1, <1>2, Zenon DEF WriteMoves, MirrorMoves
<1>6. OverMoves(t)
  BY <1>1, <1>2, Zenon DEF OverMoves, ReceiptLabels
<1> QED
  BY <1>3, <1>4, <1>5, <1>6, Zenon DEF EvidenceMoves, LogMoves

\* A commit that returns adds its event to what the mirror has accepted, and one
\* that raises adds nothing to it.
LEMMA CommitEnters ==
  ASSUME NEW e, CommitOk(e) \/ CommitRaises(e)
  PROVE  /\ sealed' = sealed
         /\ CommitOk(e) => Enters(e)
         /\ CommitRaises(e) => mirrored' = mirrored
BY Zenon DEF CommitOk, CommitRaises, Enters, Ledger!CommitMirrored, Ledger!CommitUnmirrored,
       Ledger!Refuses, Ledger!MirrorAccepts, evidenceVars

\* A commit of the gateway (gateway.py:60-91): what its event is, when it returns,
\* is left to the caller.
LEMMA GatewayLogs ==
  ASSUME TypesOK, LeaseInv, NEW t \in Threads, NEW e, NEW next, NEW otherwise,
         GatewayCommit(t, e, next, otherwise),
         UNCHANGED <<stateVars, containVars, stamp>>, clock' \in {clock, clock + 1},
         e.ns \in 0..clock',
         pc[t] \in {"late_commit", "overload_commit", "malformed_commit", "request_commit",
                    "decision_commit", "kill_commit", "fail_commit"},
         next \in {"contain", "malformed_latch", "decide", "record"},
         CountsNothing /\ pc'[t] = next => Logs(t, e)
  PROVE  EvidenceMoves(t)
<1> USE DEF UnaskedLabels, UndecidedLabels, PendingLabels, ReceiptLabels
<1>1. /\ UNCHANGED <<allowed, denied, completed, dispatched>> /\ Leased' \subseteq Leased
      /\ UNCHANGED <<ack, draft, emergency>>
  BY StateCounts, Zenon DEF containVars
<1>2. CountsNothing
  BY <1>1, Zenon DEF CountsNothing
<1>3. WriteMoves
  BY Zenon DEF WriteMoves, GatewayCommit
<1>4. TimeMoves(t)
  BY <1>1, Zenon DEF TimeMoves, GatewayCommit
<1>5. sealed' = sealed
  BY CommitEnters, Zenon DEF GatewayCommit
<1>6. CASE CommitOk(e) /\ Goto(t, next)
  <2>1. pc'[t] = next
    BY <1>6, Zenon DEF Goto, TypesOK
  <2>2. Logs(t, e) /\ Enters(e)
    BY <1>2, <1>6, <2>1, CommitEnters, Zenon
  <2>3. mirrored = Len(events) => mirrored' = Len(events')
    BY <2>2, Appended, Zenon DEF Enters
  <2>4. MirrorMoves(t)
    BY <1>1, <2>3, Zenon DEF MirrorMoves
  <2>5. OverMoves(t)
    BY <1>5, <2>1, Zenon DEF OverMoves
  <2> QED
    BY <1>3, <1>4, <2>2, <2>4, <2>5, Zenon DEF EvidenceMoves, LogMoves
<1>7. CASE CommitRaises(e) /\ Goto(t, "emergency")
  <2>1. pc'[t] = "emergency"
    BY <1>7, Zenon DEF Goto, TypesOK
  <2>2. mirrored' = mirrored
    BY <1>7, CommitEnters, Zenon
  <2>3. Silent(t)
    BY <1>2, <2>1, <2>2, Zenon DEF Silent, Strolls
  <2>4. MirrorMoves(t)
    BY <1>1, <2>1, Zenon DEF MirrorMoves
  <2>5. OverMoves(t)
    BY <1>5, <2>1, Zenon DEF OverMoves
  <2> QED
    BY <1>3, <1>4, <2>3, <2>4, <2>5, Zenon DEF EvidenceMoves, LogMoves
<1> QED
  BY <1>6, <1>7, Zenon DEF GatewayCommit

\* A stamp is not ahead of the clock.
LEMMA StampedBefore ==
  ASSUME TimesOK, NEW t \in Threads, clock' \in {clock, clock + 1}
  PROVE  stamp[t] \in 0..clock' /\ clock' \in 0..clock'
<1>1. stamp[t] \in 0..clock /\ clock \in Nat
  BY Zenon DEF TimesOK
<1> QED
  BY <1>1, SMT

\* The triggers the gateway logs: the deadline, an overload, a request that does not
\* parse, a KILL verdict and a failure (gateway.py:93-260).
LEMMA TriggerEvidence ==
  ASSUME TypesOK, LeaseInv, TimesOK, NEW t \in Threads,
         \/ LateCommit(t) \/ OverloadCommit(t) \/ MalformedCommit(t) \/ KillCommit(t)
         \/ FailCommit(t)
  PROVE  EvidenceMoves(t)
<1> USE DEF UnaskedLabels, UndecidedLabels, PendingLabels
<1>1. PICK e, next, otherwise :
          /\ GatewayCommit(t, e, next, otherwise)
          /\ e.kind \in {"VIOLATION", "OVERLOAD_SUMMARY"} /\ e.ns \in {stamp[t], clock'}
          /\ next \in {"contain", "malformed_latch"}
  <2>1. CASE LateCommit(t) \/ MalformedCommit(t) \/ FailCommit(t)
    <3>1. PICK reason, next, otherwise :
              /\ GatewayCommit(t, Violation(reason, stamp[t]), next, otherwise)
              /\ next \in {"contain", "malformed_latch"}
      BY <2>1, Zenon DEF LateCommit, MalformedCommit, FailCommit
    <3>2. PICK e : e = Violation(reason, stamp[t])
      BY Zenon
    <3>3. e.kind = "VIOLATION" /\ e.ns = stamp[t]
      BY <3>2, SMT DEF Violation
    <3> QED
      BY <3>1, <3>2, <3>3, Zenon
  <2>2. CASE OverloadCommit(t)
    <3>1. PICK e : e = [kind |-> "OVERLOAD_SUMMARY", ns |-> stamp[t]]
      BY Zenon
    <3>2. e.kind = "OVERLOAD_SUMMARY" /\ e.ns = stamp[t]
      BY <3>1, SMT
    <3>3. GatewayCommit(t, e, "contain", "done")
      BY <2>2, <3>1, Zenon DEF OverloadCommit
    <3> QED
      BY <3>2, <3>3, Zenon
  <2>3. CASE KillCommit(t)
    <3>1. GatewayCommit(t, Violation("policy", clock'), "contain", "done")
      BY <2>3, ClockRead, Zenon DEF KillCommit
    <3>2. PICK e : e = Violation("policy", clock')
      BY Zenon
    <3>3. e.kind = "VIOLATION" /\ e.ns = clock'
      BY <3>2, SMT DEF Violation
    <3> QED
      BY <3>1, <3>2, <3>3, Zenon
  <2> QED
    BY <2>1, <2>2, <2>3, Zenon
<1>2. clock' \in {clock, clock + 1}
  BY ClockRead, Zenon DEF LateCommit, OverloadCommit, MalformedCommit, KillCommit, FailCommit
<1>3. e.ns \in 0..clock'
  BY <1>1, <1>2, StampedBefore, Zenon
<1>4. UNCHANGED <<stateVars, containVars, stamp>>
  BY Zenon DEF LateCommit, OverloadCommit, MalformedCommit, KillCommit, FailCommit
<1>5. pc[t] \in {"late_commit", "overload_commit", "malformed_commit", "kill_commit",
                 "fail_commit"}
  BY Zenon DEF LateCommit, OverloadCommit, MalformedCommit, KillCommit, FailCommit
<1>6. ASSUME CountsNothing, pc'[t] = next PROVE Logs(t, e)
  BY <1>1, <1>5, <1>6, Zenon DEF Logs, LogsTrigger, Strolls
<1> QED
  BY <1>1, <1>2, <1>3, <1>4, <1>5, <1>6, GatewayLogs, Zenon

\* The request is logged before the policy sees it (gateway.py:178-196).
LEMMA RequestEvidence ==
  ASSUME TypesOK, LeaseInv, TimesOK, NEW t \in Workers, RequestCommit(t)
  PROVE  EvidenceMoves(t)
<1>1. PICK e : e = [kind |-> "REQUEST", req |-> RequestOf[t], ns |-> stamp[t]]
  BY Zenon
<1>2. e.kind = "REQUEST" /\ e.req = RequestOf[t] /\ e.ns = stamp[t]
  BY <1>1, SMT
<1>3. /\ GatewayCommit(t, e, "decide", "done") /\ pc[t] = "request_commit"
      /\ UNCHANGED <<stateVars, containVars, stamp>> /\ clock' = clock
  BY <1>1, Zenon DEF RequestCommit
<1>4. t \in Threads
  BY GatewayAssumption, Zenon
<1>5. e.ns \in 0..clock'
  BY <1>2, <1>3, <1>4, StampedBefore, Zenon
<1>6. ASSUME CountsNothing, pc'[t] = "decide" PROVE Logs(t, e)
  BY <1>2, <1>3, <1>6, Zenon DEF Logs, LogsRequest
<1> QED
  BY <1>3, <1>4, <1>5, <1>6, GatewayLogs, Zenon

\* The decision is logged before it is counted and returned (gateway.py:213-230).
LEMMA DecisionEvidence ==
  ASSUME TypesOK, LeaseInv, TimesOK, NEW t \in Workers, DecisionCommit(t)
  PROVE  EvidenceMoves(t)
<1>1. PICK e : e = [kind |-> "DECISION", req |-> RequestOf[t], ref |-> trigger[t],
                    auth |-> t, verdict |-> decision[t].verdict,
                    expiry |-> decision[t].expiry, ns |-> stamp[t]]
  BY Zenon
<1>2. /\ e.kind = "DECISION" /\ e.req = RequestOf[t] /\ e.ref = trigger[t] /\ e.auth = t
      /\ e.verdict = decision[t].verdict /\ e.expiry = decision[t].expiry
      /\ e.ns = stamp[t]
  BY <1>1, SMT
<1>3. /\ GatewayCommit(t, e, "record", "done") /\ pc[t] = "decision_commit"
      /\ UNCHANGED <<stateVars, containVars, stamp, decision>> /\ clock' = clock
  BY <1>1, Zenon DEF DecisionCommit, gatewayVars
<1>4. t \in Threads
  BY GatewayAssumption, Zenon
<1>5. e.ns \in 0..clock'
  BY <1>2, <1>3, <1>4, StampedBefore, Zenon
<1>6. ASSUME CountsNothing, pc'[t] = "record" PROVE Logs(t, e)
  BY <1>2, <1>3, <1>6, Zenon DEF Logs, LogsDecision
<1> QED
  BY <1>3, <1>4, <1>5, <1>6, GatewayLogs, Zenon

\* fail_closed, but for its commit (gateway.py:232-270).
LEMMA FailEvidence ==
  ASSUME TypesOK, LeaseInv, NEW t \in Threads, FailClosed(t) \/ FailLatch(t) \/ FailLast(t)
  PROVE  EvidenceMoves(t)
<1> USE DEF UnaskedLabels, UndecidedLabels, PendingLabels, ReceiptLabels
<1>1. /\ pc[t] \in {"fail", "fail_latch", "fail_last"}
      /\ pc'[t] \in {"fail_latch", "fail_commit", "contain", "done", "watch", "unregister"}
  BY Zenon DEF FailClosed, FailLatch, FailLast, Goto, TypesOK
<1>2. UNCHANGED <<allowed, denied, completed, dispatched>> /\ Leased' \subseteq Leased
  BY StateCounts, Zenon DEF FailClosed, FailLatch, FailLast
<1>3. UNCHANGED <<events, mirrored, faults, sealed, ack, draft, emergency>>
  BY Zenon DEF FailClosed, FailLatch, FailLast, evidenceVars, containVars
<1>4. /\ \/ UNCHANGED <<clock, stamp>>
         \/ \E ns : ReadClock(ns) /\ stamp' = [stamp EXCEPT ![t] = ns]
      /\ trigger' = trigger \/ trigger' = [trigger EXCEPT ![t] = Len(events')]
  BY <1>3, Zenon DEF FailClosed, FailLatch, FailLast, localVars
<1>5. TimeMoves(t)
  BY <1>3, <1>4, ClockRead, Zenon DEF TimeMoves
<1>6. Strolls(t)
  BY <1>1, Zenon DEF Strolls
<1>7. OverMoves(t)
  BY <1>1, <1>3, Zenon DEF OverMoves
<1> QED
  BY <1>1, <1>2, <1>3, <1>5, <1>6, <1>7, PlainMoves, Zenon DEF Unlogged

\* The watchdog logs the deadline with an earlier reading of the clock; when the mirror
\* refuses it, the hook raises and nothing is isolated (supervisor.py:247-279).
LEMMA WatchEvidence ==
  ASSUME TypesOK, LeaseInv, TimesOK, NEW t \in Threads, WatchStep(t)
  PROVE  EvidenceMoves(t)
<1> USE DEF UnaskedLabels, UndecidedLabels, PendingLabels, ReceiptLabels
<1>1. /\ pc[t] \in {"watch", "watch_latch", "watch_commit"}
      /\ pc'[t] \in {"watch", "watch_latch", "watch_commit", "contain"}
  BY Zenon DEF WatchStep, Watch, WatchLatch, WatchCommit, Goto, TypesOK
<1>2. UNCHANGED <<allowed, denied, completed, dispatched>> /\ Leased' \subseteq Leased
  BY StateCounts, Zenon DEF WatchStep, Watch, WatchLatch, WatchCommit
<1>3. UNCHANGED <<ack, draft, emergency>>
  BY Zenon DEF WatchStep, Watch, WatchLatch, WatchCommit, containVars
<1>4. Strolls(t)
  BY <1>1, Zenon DEF Strolls
<1>5. CASE Watch(t) \/ WatchLatch(t)
  <2>1. UNCHANGED <<events, mirrored, faults, sealed, trigger>>
    BY <1>5, Zenon DEF Watch, WatchLatch, evidenceVars, localVars
  <2>2. \/ UNCHANGED <<clock, stamp>>
        \/ \E ns : ReadClock(ns) /\ (stamp' = stamp \/ stamp' = [stamp EXCEPT ![t] = ns])
    BY <1>5, Zenon DEF Watch, WatchLatch, localVars
  <2>3. TimeMoves(t)
    BY <1>3, <2>1, <2>2, TimeStays, Zenon
  <2>4. OverMoves(t)
    BY <1>1, <2>1, Zenon DEF OverMoves
  <2> QED
    BY <1>1, <1>2, <1>3, <1>4, <2>1, <2>3, <2>4, PlainMoves, Zenon DEF Unlogged
<1>6. CASE WatchCommit(t)
  <2>1. PICK e : e = Violation("runtime", stamp[t])
    BY Zenon
  <2>2. e.kind = "VIOLATION" /\ e.reason = "runtime" /\ e.ns = stamp[t]
    BY <2>1, SMT DEF Violation
  <2>3. /\ UNCHANGED <<clock, stamp>>
        /\ \/ CommitOk(e) /\ trigger' = [trigger EXCEPT ![t] = Len(events')]
           \/ CommitRaises(e) /\ UNCHANGED trigger
    BY <1>6, <2>1, Zenon DEF WatchCommit
  <2>4. e.ns \in 0..clock'
    BY <2>2, <2>3, StampedBefore, Zenon
  <2>5. WriteMoves
    BY <2>3, <2>4, Zenon DEF WriteMoves
  <2>6. TimeMoves(t)
    BY <1>3, <2>3, Zenon DEF TimeMoves
  <2>7. OverMoves(t)
    BY <1>1, <2>3, CommitEnters, Zenon DEF OverMoves
  <2>8. CountsNothing
    BY <1>2, Zenon DEF CountsNothing
  <2>9. CASE CommitOk(e)
    <3>1. Enters(e) /\ Logs(t, e)
      BY <1>4, <2>2, <2>8, <2>9, CommitEnters, Zenon DEF Logs, LogsTrigger
    <3>2. mirrored = Len(events) => mirrored' = Len(events')
      BY <3>1, Appended, Zenon DEF Enters
    <3>3. MirrorMoves(t)
      BY <1>1, <1>3, <3>2, Zenon DEF MirrorMoves
    <3> QED
      BY <2>5, <2>6, <2>7, <3>1, <3>3, Zenon DEF EvidenceMoves, LogMoves
  <2>10. CASE CommitRaises(e)
    <3>1. mirrored' = mirrored
      BY <2>10, CommitEnters, Zenon
    <3>2. Silent(t)
      BY <1>4, <2>8, <3>1, Zenon DEF Silent
    <3>3. ASSUME mirrored = Len(events), mirrored' # Len(events')
          PROVE  Overtaken' # {}
      <4>1. events' = Append(events, e)
        BY <2>10, <3>1, <3>3, Zenon DEF CommitRaises, evidenceVars, Ledger!CommitUnmirrored
      <4>2. /\ Len(events) \in Nat /\ Len(events') = Len(events) + 1
            /\ events'[Len(events) + 1] = e
        BY <4>1, Appended, Zenon
      <4>3. Len(events) + 1 \in 1..Len(events') /\ Len(events) + 1 > mirrored'
        BY <3>1, <3>3, <4>2, SMT
      <4>4. Len(events) + 1 \in Overtaken'
        BY <2>2, <4>2, <4>3, Zenon DEF Overtaken, Kinds
      <4> QED
        BY <4>4, Zenon
    <3>4. MirrorMoves(t)
      BY <1>1, <1>3, <3>3, Zenon DEF MirrorMoves
    <3> QED
      BY <2>5, <2>6, <2>7, <3>2, <3>4, Zenon DEF EvidenceMoves, LogMoves
  <2> QED
    BY <2>3, <2>9, <2>10, Zenon
<1> QED
  BY <1>5, <1>6, Zenon DEF WatchStep

\* The steps of dispatch that log nothing (executor.py:70-200).
LEMMA DispatchEvidence ==
  ASSUME TypesOK, LeaseInv, NEW t \in Threads, Claim(t),
         \/ Replay(t) \/ Dispatch(t) \/ Register(t) \/ BeginRefused(t) \/ Transport(t)
         \/ FinishStale(t) \/ AbortLease(t) \/ CheckCancelled(t) \/ Unregister(t)
  PROVE  EvidenceMoves(t)
<1> USE DEF UnaskedLabels, UndecidedLabels, PendingLabels, ReceiptLabels
<1>1. /\ pc[t] \in {"replay", "dispatch", "register", "begin", "transport", "finish", "abort",
                    "check", "unregister"}
      /\ pc'[t] \in {"dispatch", "register", "begin", "finish", "abort", "check", "unregister",
                     "fail", "done"}
  BY Zenon DEF Replay, Dispatch, Register, BeginRefused, Transport, TransportRaises,
         TransportReturns, FinishStale, AbortLease, CheckCancelled, Unregister, Goto, TypesOK
<1>2. UNCHANGED <<allowed, denied, completed, dispatched>> /\ Leased' \subseteq Leased
  <2>1. CASE AbortLease(t)
    <3>1. target[t] \in Auths
      BY <2>1, GatewayAssumption, Zenon DEF AbortLease, Claim, DispatchLabels
    <3> QED
      BY <2>1, <3>1, StateCounts, Zenon DEF AbortLease
  <2>2. CASE ~AbortLease(t)
    BY <2>2, StateCounts, Zenon DEF Replay, Dispatch, Register, BeginRefused, Transport,
         TransportRaises, TransportReturns, FinishStale, CheckCancelled, Unregister
  <2> QED
    BY <2>1, <2>2, Zenon
<1>3. UNCHANGED <<events, mirrored, faults, sealed, ack, draft, emergency, trigger>>
  BY Zenon DEF Replay, Dispatch, Register, BeginRefused, Transport, TransportRaises,
         TransportReturns, FinishStale, AbortLease, CheckCancelled, Unregister, evidenceVars,
         containVars, localVars
<1>4. \/ UNCHANGED <<clock, stamp>>
      \/ \E ns : ReadClock(ns) /\ stamp' = [stamp EXCEPT ![t] = ns]
  BY Zenon DEF Replay, Dispatch, Register, BeginRefused, Transport, TransportRaises,
         TransportReturns, FinishStale, AbortLease, CheckCancelled, Unregister, localVars
<1>5. TimeMoves(t)
  BY <1>3, <1>4, TimeStays, Zenon
<1>6. Strolls(t)
  BY <1>1, Zenon DEF Strolls
<1>7. OverMoves(t)
  BY <1>1, <1>3, Zenon DEF OverMoves
<1> QED
  BY <1>1, <1>2, <1>3, <1>5, <1>6, <1>7, PlainMoves, Zenon DEF Unlogged

\* An event stamped now is never behind the last one: the mirror takes it unless it is
\* behind already (state.py:176-262 stamps under the lock of RunState).
LEMMA StampedNow ==
  ASSUME TypesOK, TimesOK, NEW e, e.ns = clock', clock' \in {clock, clock + 1},
         mirrored = Len(events), CommitRaises(e)
  PROVE  UNCHANGED <<events, mirrored>>
<1>1. CASE Ledger!CommitUnmirrored(e)
  <2>1. events # <<>> /\ ~(clock' >= events[Len(events)].ns)
    BY <1>1, Zenon DEF Ledger!CommitUnmirrored, Ledger!MirrorAccepts
  <2>2. events \in Seq({events[i] : i \in 1..Len(events)})
    BY Zenon DEF TypesOK
  <2>3. Len(events) \in 1..Len(events)
    BY <2>1, <2>2, SMT
  <2>4. events[Len(events)].ns \in 0..clock /\ clock \in Nat
    BY <2>3, Zenon DEF TimesOK
  <2> QED
    BY <2>1, <2>4, SMT
<1> QED
  BY <1>1, Zenon DEF CommitRaises, evidenceVars

\* When the commit of a dispatch raises, there is a reason that lasts: a sealed ledger is
\* that of a run that is over, and a full one has no acknowledgement while the run is
\* RUNNING.
LEMMA DispatchExcused ==
  ASSUME TypesOK, TimesOK, LatchInv, OverInv, NEW e, CommitRaises(e),
         phase = "RUNNING", phase' = "KILLING"
  PROVE  Excused'
<1>1. events \in Seq({events[i] : i \in 1..Len(events)}) /\ mirrored \in 0..Len(events)
  BY Zenon DEF TypesOK
<1>2. CASE Ledger!Refuses /\ UNCHANGED evidenceVars
  <2>1. ~sealed
    BY Zenon DEF OverInv
  <2>2. Len(events) >= MaxEvents /\ UNCHANGED events
    BY <1>2, <2>1, Zenon DEF Ledger!Refuses, evidenceVars
  <2>3. Kinds({"KILL_ACKNOWLEDGED"}) = {}
    BY Zenon DEF LatchInv, LatchedTrigger, IsTrigger, Kinds
  <2>4. Kinds({"KILL_ACKNOWLEDGED"})' = {}
    BY <2>2, <2>3, Zenon DEF Kinds
  <2> QED
    BY <2>2, <2>4, Zenon DEF Excused, Exhausted
<1>3. CASE Ledger!CommitUnmirrored(e)
  <2>1. events' = Append(events, e) /\ mirrored' = mirrored
    BY <1>3, Zenon DEF Ledger!CommitUnmirrored
  <2>2. Len(events') = Len(events) + 1 /\ Len(events) \in Nat
    BY <2>1, Appended, Zenon
  <2>3. mirrored' # Len(events')
    BY <1>1, <2>1, <2>2, SMT
  <2> QED
    BY <2>3, Zenon DEF Excused
<1>4. CASE faults > 0 /\ faults' = faults - 1
  <2>1. faults \in 0..MaxFaults
    BY Zenon DEF TimesOK
  <2>2. faults' # MaxFaults
    BY <1>4, <2>1, SMT
  <2> QED
    BY <2>2, Zenon DEF Excused
<1> QED
  BY <1>2, <1>3, <1>4, Zenon DEF CommitRaises

\* begin_authorized with commit_dispatch (state.py:176-224).
LEMMA BeginEvidence ==
  ASSUME ContainmentInv, KillInv, EvidenceInv, NEW t \in Threads, Begin(t)
  PROVE  EvidenceMoves(t)
<1> USE DEF UnaskedLabels, UndecidedLabels, PendingLabels, ReceiptLabels
<1> DEFINE d == decision[target[t]]
<1>1. TypesOK /\ Claim(t) /\ LatchInv /\ CapabilityInv /\ LeaseInv /\ TimesOK /\ OverInv
  BY Zenon DEF ContainmentInv, Shared, KillInv, EvidenceInv
<1>2. /\ UNCHANGED <<ack, draft, emergency, stamp, trigger>> /\ pc[t] = "begin"
  BY Zenon DEF Begin, localVars, containVars
<1>3. target[t] \in Workers /\ target[t] \in Auths
  BY <1>1, <1>2, GatewayAssumption, Zenon DEF Claim, DispatchLabels
<1>4. PICK e : /\ e.kind = "DISPATCH" /\ e.req = RequestOf[target[t]] /\ e.auth = target[t]
               /\ e.ns = clock' /\ clock' \in {clock, clock + 1}
               /\ \/ /\ BeginCommits(d, stamp[t], MaxResponse)
                     /\ CommitOk(e) /\ Goto(t, "transport")
                  \/ /\ BeginCommitFails(d, stamp[t], MaxResponse)
                     /\ CommitRaises(e) /\ Goto(t, "check")
  <2>1. PICK ns \in 0..MaxClock :
            LET e == [kind |-> "DISPATCH", req |-> RequestOf[target[t]],
                      auth |-> target[t], ns |-> ns]
            IN  /\ ReadClock(ns)
                /\ \/ /\ BeginCommits(d, stamp[t], MaxResponse)
                      /\ CommitOk(e) /\ Goto(t, "transport")
                   \/ /\ BeginCommitFails(d, stamp[t], MaxResponse)
                      /\ CommitRaises(e) /\ Goto(t, "check")
    BY Zenon DEF Begin
  <2>2. PICK e : e = [kind |-> "DISPATCH", req |-> RequestOf[target[t]],
                      auth |-> target[t], ns |-> ns]
    BY Zenon
  <2>3. e.kind = "DISPATCH" /\ e.req = RequestOf[target[t]] /\ e.auth = target[t] /\ e.ns = ns
    BY <2>2, SMT
  <2>4. clock' = ns /\ clock' \in {clock, clock + 1}
    BY <2>1, ClockRead, Zenon
  <2> QED
    BY <2>1, <2>2, <2>3, <2>4, Zenon
<1>5. e.ns \in 0..clock'
  BY <1>1, <1>4, StampedBefore, Zenon
<1>6. WriteMoves
  BY <1>4, <1>5, Zenon DEF WriteMoves
<1>7. TimeMoves(t)
  BY <1>2, <1>4, Zenon DEF TimeMoves
<1>8. sealed' = sealed
  BY <1>4, CommitEnters, Zenon
<1>9. CASE BeginCommits(d, stamp[t], MaxResponse) /\ CommitOk(e) /\ Goto(t, "transport")
  <2>1. pc'[t] = "transport"
    BY <1>1, <1>9, Zenon DEF Goto, TypesOK
  <2>2. d.id = target[t] /\ target[t] \notin consumed
    BY <1>1, <1>3, <1>9, Zenon DEF CapabilityInv, BeginCommits, Dispatchable
  <2>3. MaxResponse \in Nat /\ MaxResponse > 0
    BY <1>9, ExecutorAssumption, SMT DEF BeginCommits, OverBudget
  <2>4. /\ active' = [active EXCEPT ![target[t]] = MaxResponse] /\ inflight' = inflight + 1
        /\ UNCHANGED <<allowed, denied, completed>> /\ dispatched' = dispatched + 1
    BY <1>9, <2>2, Zenon DEF BeginCommits, decideVars, resultVars
  <2>5. Leased' = Leased \cup {target[t]}
    BY <1>1, <1>3, <2>2, <2>3, <2>4, LeasedGrows, Zenon
  <2>6. Strolls(t)
    BY <1>2, <2>1, Zenon DEF Strolls
  <2>7. Logs(t, e) /\ Enters(e)
    BY <1>3, <1>4, <1>9, <2>2, <2>4, <2>5, <2>6, CommitEnters, Zenon DEF Logs, LogsDispatch
  <2>8. mirrored = Len(events) => mirrored' = Len(events')
    BY <1>1, <2>7, Appended, Zenon DEF Enters
  <2>9. MirrorMoves(t) /\ OverMoves(t)
    BY <1>2, <1>8, <2>1, <2>8, Zenon DEF MirrorMoves, OverMoves
  <2> QED
    BY <1>6, <1>7, <2>7, <2>9, Zenon DEF EvidenceMoves, LogMoves
<1>10. CASE BeginCommitFails(d, stamp[t], MaxResponse) /\ CommitRaises(e) /\ Goto(t, "check")
  <2>1. pc'[t] = "check"
    BY <1>1, <1>10, Zenon DEF Goto, TypesOK
  <2>2. phase = "RUNNING" /\ phase' = "KILLING" /\ UNCHANGED <<allowed, denied, completed, active>>
    BY <1>10, Zenon DEF BeginCommitFails, Dispatchable, Latch, decideVars, resultVars, leaseVars
  <2>3. Excused'
    BY <1>1, <1>10, <2>2, DispatchExcused, Zenon
  <2>4. CountsNothing
    BY <2>2, <2>3, Zenon DEF CountsNothing, Leased
  <2>5. Silent(t)
    BY <1>2, <1>10, <2>1, <2>4, CommitEnters, Zenon DEF Silent, Strolls
  <2>6. mirrored = Len(events) => UNCHANGED <<events, mirrored>>
    BY <1>1, <1>4, <1>10, StampedNow, Zenon
  <2>7. MirrorMoves(t) /\ OverMoves(t)
    BY <1>2, <1>8, <2>1, <2>6, Zenon DEF MirrorMoves, OverMoves
  <2> QED
    BY <1>6, <1>7, <2>5, <2>7, Zenon DEF EvidenceMoves, LogMoves
<1> QED
  BY <1>4, <1>9, <1>10, Zenon

\* finish_authorized with commit_result (state.py:226-262).
LEMMA FinishEvidence ==
  ASSUME ContainmentInv, KillInv, EvidenceInv, NEW t \in Threads, Finish(t)
  PROVE  EvidenceMoves(t)
<1> USE DEF UnaskedLabels, UndecidedLabels, PendingLabels, ReceiptLabels
<1>1. TypesOK /\ Claim(t) /\ LeaseInv /\ TimesOK
  BY Zenon DEF ContainmentInv, Shared, KillInv, EvidenceInv
<1>2. /\ UNCHANGED <<ack, draft, emergency, stamp, trigger>> /\ pc[t] = "finish"
  BY Zenon DEF Finish, localVars, containVars
<1>3. target[t] \in Workers /\ target[t] \in Auths
  BY <1>1, <1>2, GatewayAssumption, Zenon DEF Claim, DispatchLabels
<1>4. PICK e, bytes :
          /\ e.kind = "RESULT" /\ e.req = RequestOf[target[t]] /\ e.auth = target[t]
          /\ e.ns = clock' /\ clock' \in {clock, clock + 1}
          /\ \/ FinishCommits(target[t], bytes) /\ CommitOk(e) /\ Goto(t, "unregister")
             \/ FinishFails(target[t]) /\ CommitRaises(e) /\ Goto(t, "abort")
  <2>1. PICK ns \in 0..MaxClock, bytes \in Responses :
            LET e == [kind |-> "RESULT", req |-> RequestOf[target[t]],
                      auth |-> target[t], ns |-> ns]
            IN  /\ ReadClock(ns)
                /\ \/ FinishCommits(target[t], bytes) /\ CommitOk(e) /\ Goto(t, "unregister")
                   \/ FinishFails(target[t]) /\ CommitRaises(e) /\ Goto(t, "abort")
    BY Zenon DEF Finish
  <2>2. PICK e : e = [kind |-> "RESULT", req |-> RequestOf[target[t]],
                      auth |-> target[t], ns |-> ns]
    BY Zenon
  <2>3. e.kind = "RESULT" /\ e.req = RequestOf[target[t]] /\ e.auth = target[t] /\ e.ns = ns
    BY <2>2, SMT
  <2>4. clock' = ns /\ clock' \in {clock, clock + 1}
    BY <2>1, ClockRead, Zenon
  <2> QED
    BY <2>1, <2>2, <2>3, <2>4, Zenon
<1>5. e.ns \in 0..clock'
  BY <1>1, <1>4, StampedBefore, Zenon
<1>6. WriteMoves
  BY <1>4, <1>5, Zenon DEF WriteMoves
<1>7. TimeMoves(t)
  BY <1>2, <1>4, Zenon DEF TimeMoves
<1>8. sealed' = sealed
  BY <1>4, CommitEnters, Zenon
<1>9. CASE FinishCommits(target[t], bytes) /\ CommitOk(e) /\ Goto(t, "unregister")
  <2>1. pc'[t] = "unregister"
    BY <1>1, <1>9, Zenon DEF Goto, TypesOK
  <2>2. /\ Release(target[t]) /\ active[target[t]] > 0
        /\ UNCHANGED <<allowed, denied, dispatched>> /\ completed' = completed + 1
    BY <1>9, Zenon DEF FinishCommits, decideVars, effectVars
  <2>3. Leased' = Leased \ {target[t]} /\ target[t] \in Leased
    BY <1>1, <1>3, <2>2, LeasedShrinks, Zenon DEF Leased
  <2>4. Strolls(t)
    BY <1>2, <2>1, Zenon DEF Strolls
  <2>5. Logs(t, e) /\ Enters(e)
    BY <1>4, <1>9, <2>2, <2>3, <2>4, CommitEnters, Zenon DEF Logs, LogsResult
  <2>6. mirrored = Len(events) => mirrored' = Len(events')
    BY <1>1, <2>5, Appended, Zenon DEF Enters
  <2>7. MirrorMoves(t) /\ OverMoves(t)
    BY <1>2, <1>8, <2>1, <2>6, Zenon DEF MirrorMoves, OverMoves
  <2> QED
    BY <1>6, <1>7, <2>5, <2>7, Zenon DEF EvidenceMoves, LogMoves
<1>10. CASE FinishFails(target[t]) /\ CommitRaises(e) /\ Goto(t, "abort")
  <2>1. pc'[t] = "abort"
    BY <1>1, <1>10, Zenon DEF Goto, TypesOK
  <2>2. CountsNothing
    BY <1>1, <1>3, <1>10, StateCounts, Zenon DEF CountsNothing
  <2>3. Silent(t)
    BY <1>2, <1>10, <2>1, <2>2, CommitEnters, Zenon DEF Silent, Strolls
  <2>4. mirrored = Len(events) => UNCHANGED <<events, mirrored>>
    BY <1>1, <1>4, <1>10, StampedNow, Zenon
  <2>5. MirrorMoves(t) /\ OverMoves(t)
    BY <1>2, <1>8, <2>1, <2>4, Zenon DEF MirrorMoves, OverMoves
  <2> QED
    BY <1>6, <1>7, <2>3, <2>5, Zenon DEF EvidenceMoves, LogMoves
<1> QED
  BY <1>4, <1>9, <1>10, Zenon

\* contain, but for the commit of the acknowledgement, and emergency_isolate
\* (supervisor.py:100-245).
LEMMA ContainEvidence ==
  ASSUME TypesOK, LeaseInv, DraftOK, OverInv, NEW t \in Threads,
         \/ Contain(t) \/ SignalInflight(t) \/ Isolate(t) \/ MarkContained(t) \/ SignAck(t)
         \/ UnsignAck(t) \/ EmergencyStep(t)
  PROVE  EvidenceMoves(t)
<1> USE DEF UnaskedLabels, UndecidedLabels, PendingLabels, ReceiptLabels
<1>1. /\ pc[t] \in {"contain", "signal", "isolate", "mark", "sign", "unsign", "emergency", "cut"}
      /\ pc'[t] \in {"signal", "isolate", "mark", "sign", "log", "cut", "done", "watch",
                     "unregister", "fail_last"}
      /\ pc[t] \in {"emergency", "unsign"} => emergency'
      /\ pc'[t] = "log" => pc[t] = "sign"
  BY Zenon DEF Contain, SignalInflight, Isolate, MarkContained, SignAck, UnsignAck, EmergencyStep,
         EmergencyLatch, EmergencyCut, LeaveContain, Goto, TypesOK
<1>2. UNCHANGED <<allowed, denied, completed, dispatched>> /\ Leased' \subseteq Leased
  BY StateCounts, Zenon DEF Contain, SignalInflight, Isolate, MarkContained, SignAck, UnsignAck,
         EmergencyStep, EmergencyLatch, EmergencyCut
<1>3. UNCHANGED <<events, mirrored, faults, sealed, stamp, trigger>>
  BY Zenon DEF Contain, SignalInflight, Isolate, MarkContained, SignAck, UnsignAck, EmergencyStep,
         EmergencyLatch, EmergencyCut, evidenceVars, localVars
<1>4. emergency => emergency'
  BY Zenon DEF Contain, SignalInflight, Isolate, MarkContained, SignAck, UnsignAck, EmergencyStep,
         EmergencyLatch, EmergencyCut, containVars
<1>5. clock' \in {clock, clock + 1}
  BY ClockRead, Zenon DEF Contain, SignalInflight, Isolate, MarkContained, SignAck, UnsignAck,
         EmergencyStep, EmergencyLatch, EmergencyCut
<1>6. draft'.ns \in {draft.ns, clock', 0}
  <2>1. \/ draft' = draft
        \/ draft' = NoDraft
        \/ \E n : draft' = [NoDraft EXCEPT !.inflight = n]
        \/ \E n : draft' = [draft EXCEPT !.signalled = n]
        \/ \E b : draft' = [draft EXCEPT !.ns = clock', !.back = b]
    BY ClockRead, Zenon DEF Contain, SignalInflight, Isolate, MarkContained, SignAck, UnsignAck,
         EmergencyStep, EmergencyLatch, EmergencyCut, LeaveContain, containVars
  <2>2. DOMAIN draft = {"inflight", "signalled", "ns", "back"}
    BY Zenon DEF DraftOK
  <2>3. ASSUME NEW n, draft' = [NoDraft EXCEPT !.inflight = n] \/ draft' = NoDraft
        PROVE  draft'.ns = 0
    BY <2>3, SMT DEF NoDraft
  <2>4. ASSUME NEW n, draft' = [draft EXCEPT !.signalled = n]
        PROVE  draft'.ns = draft.ns
    BY <2>2, <2>4, SMT
  <2>5. ASSUME NEW b, draft' = [draft EXCEPT !.ns = clock', !.back = b]
        PROVE  draft'.ns = clock'
    BY <2>2, <2>5, SMT
  <2> QED
    BY <2>1, <2>3, <2>4, <2>5, Zenon
<1>7. ack' \in {ack, NoAck} \/ (ack'.ns = draft.ns /\ ack'.trigger = trigger[t])
  <2>1. \/ ack' \in {ack, NoAck}
        \/ ack' = [trigger |-> trigger[t], inflight |-> draft.inflight, ns |-> draft.ns]
    BY Zenon DEF Contain, SignalInflight, Isolate, MarkContained, SignAck, UnsignAck,
         EmergencyStep, EmergencyLatch, EmergencyCut, containVars
  <2>2. CASE ack' = [trigger |-> trigger[t], inflight |-> draft.inflight, ns |-> draft.ns]
    BY <2>2, SMT
  <2> QED
    BY <2>1, <2>2, Zenon
<1>8. TimeMoves(t)
  BY <1>3, <1>5, <1>6, <1>7, Zenon DEF TimeMoves
<1>9. Strolls(t)
  BY <1>1, Zenon DEF Strolls
<1>10. OverMoves(t)
  <2>1. ASSUME pc'[t] = "sign" PROVE phase' = "KILLED"
    <3>1. MarkContained(t)
      BY <2>1, Zenon DEF Contain, SignalInflight, Isolate, SignAck, UnsignAck, EmergencyStep,
         EmergencyLatch, EmergencyCut, LeaveContain, Goto, TypesOK
    <3> QED
      BY <2>1, <3>1, Zenon DEF MarkContained, MarkKilled, LeaveContain, Goto, TypesOK
  <2>2. ASSUME pc'[t] = "log" PROVE phase' = "KILLED"
    <3>1. pc[t] = "sign"
      BY <1>1, <2>2, Zenon
    <3>2. phase = "KILLED"
      BY <3>1, Zenon DEF OverInv
    <3>3. phase' = phase
      BY <3>1, Zenon DEF Contain, SignalInflight, Isolate, MarkContained, SignAck, UnsignAck,
         EmergencyStep, EmergencyLatch, EmergencyCut, stateVars, latchVars
    <3> QED
      BY <3>2, <3>3, Zenon
  <2> QED
    BY <1>1, <1>3, <2>1, <2>2, Zenon DEF OverMoves
<1> QED
  BY <1>1, <1>2, <1>3, <1>4, <1>8, <1>9, <1>10, PlainMoves, Zenon DEF Unlogged

\* The commit of the acknowledgement (supervisor.py:205-245).
LEMMA AckEvidence ==
  ASSUME TypesOK, LeaseInv, TimesOK, NEW t \in Threads, AckClaim(t), LogAck(t)
  PROVE  EvidenceMoves(t)
<1> USE DEF UnaskedLabels, UndecidedLabels, PendingLabels, ReceiptLabels
<1>1. PICK e : e = [kind |-> "KILL_ACKNOWLEDGED", ack |-> ack, ns |-> ack.ns]
  BY Zenon
<1>2. e.kind = "KILL_ACKNOWLEDGED" /\ e.ack = ack /\ e.ns = ack.ns
  BY <1>1, SMT
<1>3. /\ pc[t] = "log" /\ UNCHANGED <<stateVars, clock, ack, emergency, stamp, trigger>>
      /\ \/ CommitOk(e) /\ draft' = NoDraft /\ Goto(t, after[t])
         \/ CommitRaises(e) /\ draft' = draft /\ Goto(t, "unsign")
  BY <1>1, Zenon DEF LogAck, LeaveContain, localVars
<1>4. NoDraft.ns = 0
  BY SMT DEF NoDraft
<1>5. e.ns \in 0..clock'
  BY <1>2, <1>3, Zenon DEF AckClaim, TimesOK
<1>6. WriteMoves
  BY <1>3, <1>5, Zenon DEF WriteMoves
<1>7. TimeMoves(t)
  BY <1>3, <1>4, Zenon DEF TimeMoves
<1>8. CountsNothing
  BY <1>3, StateCounts, Zenon DEF CountsNothing
<1>9. pc'[t] \in {"done", "watch", "unregister", "unsign"}
  BY <1>3, Zenon DEF Goto, TypesOK
<1>10. Strolls(t)
  BY <1>3, <1>9, Zenon DEF Strolls
<1>11. OverMoves(t)
  BY <1>3, <1>9, CommitEnters, Zenon DEF OverMoves
<1>12. CASE CommitOk(e)
  <2>1. Logs(t, e) /\ Enters(e)
    BY <1>2, <1>3, <1>8, <1>10, <1>12, CommitEnters, Zenon DEF Logs, LogsAck
  <2>2. mirrored = Len(events) => mirrored' = Len(events')
    BY <2>1, Appended, Zenon DEF Enters
  <2>3. MirrorMoves(t)
    BY <1>3, <2>2, Zenon DEF MirrorMoves
  <2> QED
    BY <1>6, <1>7, <1>11, <2>1, <2>3, Zenon DEF EvidenceMoves, LogMoves
<1>13. CASE CommitRaises(e) /\ Goto(t, "unsign")
  <2>1. pc'[t] = "unsign"
    BY <1>13, Zenon DEF Goto, TypesOK
  <2>2. Silent(t)
    BY <1>8, <1>10, <1>13, CommitEnters, Zenon DEF Silent
  <2>3. MirrorMoves(t)
    BY <1>3, <2>1, Zenon DEF MirrorMoves
  <2> QED
    BY <1>6, <1>7, <1>11, <2>2, <2>3, Zenon DEF EvidenceMoves, LogMoves
<1> QED
  BY <1>3, <1>12, <1>13, Zenon

\* Every step of every thread moves the evidence as described,
LEMMA StepEvidence ==
  ASSUME ContainmentInv, KillInv, EvidenceInv, NEW t \in Threads, Step(t)
  PROVE  EvidenceMoves(t)
<1>1. /\ TypesOK /\ Claim(t) /\ LeaseInv /\ TimesOK /\ OverInv /\ AckClaim(t) /\ DraftOK
  BY Zenon DEF ContainmentInv, Shared, KillInv, AckInv, EvidenceInv
<1>2. CASE \/ Arrive(t) \/ LateLatch(t) \/ Admit(t) \/ MalformedLatch(t) \/ Decide(t)
           \/ SignDecision(t)
  BY <1>1, <1>2, SubmitEvidence, Zenon
<1>3. CASE RequestCommit(t) \/ DecisionCommit(t) \/ Record(t)
  <2>1. t \in Workers
    BY <1>1, <1>3, Zenon DEF RequestCommit, DecisionCommit, Record, Claim, SubmitLabels
  <2> QED
    BY <1>1, <1>3, <2>1, RequestEvidence, DecisionEvidence, RecordEvidence, Zenon
<1>4. CASE \/ LateCommit(t) \/ OverloadCommit(t) \/ MalformedCommit(t) \/ KillCommit(t)
           \/ FailCommit(t)
  BY <1>1, <1>4, TriggerEvidence, Zenon
<1>5. CASE FailClosed(t) \/ FailLatch(t) \/ FailLast(t)
  BY <1>1, <1>5, FailEvidence, Zenon
<1>6. CASE WatchStep(t) \/ ReceiptStep(t)
  BY <1>1, <1>6, WatchEvidence, ReceiptEvidence, Zenon
<1>7. CASE ContainStep(t) \/ EmergencyStep(t)
  BY <1>1, <1>7, ContainEvidence, AckEvidence, Zenon DEF ContainStep
<1>8. CASE \/ Replay(t) \/ Dispatch(t) \/ Register(t) \/ BeginRefused(t) \/ Transport(t)
           \/ FinishStale(t) \/ AbortLease(t) \/ CheckCancelled(t) \/ Unregister(t)
  BY <1>1, <1>8, DispatchEvidence, Zenon
<1>9. CASE Begin(t) \/ Finish(t)
  BY <1>9, BeginEvidence, FinishEvidence, Zenon
<1> QED
  BY <1>2, <1>3, <1>4, <1>5, <1>6, <1>7, <1>8, <1>9, Zenon
  DEF Step, Proceed, SupervisorStep, SubmitStep, FailClosedStep, DispatchStep

\* a stuttering step keeps the invariant,
LEMMA StutterKeepsEvidence ==
  ASSUME EvidenceInv, UNCHANGED containmentVars
  PROVE  EvidenceInv'
<1> USE DEF containmentVars, supervisorVars, stateVars, latchVars, leaseVars, decideVars,
            effectVars, resultVars, evidenceVars, containVars, localVars, returnVars,
            gatewayVars
<1>1. /\ \A k : Log(k)' = Log(k)
      /\ \A K : Kinds(K)' = Kinds(K)
      /\ \A v : Recorded(v)' = Recorded(v)
      /\ Leased' = Leased
  BY Zenon DEF Log, Kinds, Recorded, Leased
<1>2. Overtaken' = Overtaken
  BY <1>1, Zenon DEF Overtaken
<1>3. EventsOK' /\ LoggedOnce' /\ LeasesLogged' /\ RequestsDecided'
  BY <1>1, Zenon DEF EvidenceInv, LogInv, EventsOK, LoggedOnce, LeasesLogged, RequestsDecided
<1>4. CountersOK'
  BY <1>1, Zenon DEF EvidenceInv, LogInv, CountersOK, Excused, Exhausted
<1>5. ASSUME NEW t \in Threads
      PROVE  LogClaim(t)'
  <2>1. LogClaim(t) /\ pc'[t] = pc[t] /\ decision'[t] = decision[t] /\ events' = events
    BY Zenon DEF EvidenceInv, LogInv
  <2>2. Signed(t)' <=> Signed(t)
    BY <2>1, Zenon DEF Signed
  <2> HIDE DEF containmentVars
  <2> QED
    BY <1>1, <2>1, <2>2, Zenon DEF LogClaim
<1>6. TimesOK' /\ MirrorInv' /\ OverInv'
  BY <1>1, <1>2, Zenon DEF EvidenceInv, TimesOK, MirrorInv, OverInv
<1> QED
  BY <1>3, <1>4, <1>5, <1>6, Zenon DEF EvidenceInv, LogInv

-----------------------------------------------------------------------------
\* In a run that has gone quiet without an evidence fault the mirror has everything.
LEMMA QuietIsMirrored ==
  ASSUME KillInv, RoleInv, MirrorInv, Quiet, ~emergency, Overtaken = {}
  PROVE  mirrored = Len(events)
<1>1. ASSUME NEW t \in Threads, pc[t] \in {"emergency", "unsign"} PROVE FALSE
  <2>1. CASE t \in Workers \cup Replayers
    BY <1>1, <2>1, Zenon DEF Quiet
  <2>2. CASE t \notin Workers \cup Replayers
    <3>1. pc[t] = "unsign"
      BY <1>1, <2>2, Zenon DEF RoleInv
    <3>2. containOwner = t
      BY <3>1, Zenon DEF KillInv, AckClaim, ContainLabels
    <3> QED
      BY <3>2, ThreadAssumption, Zenon DEF Quiet
  <2> QED
    BY <2>1, <2>2, Zenon
<1> QED
  BY <1>1, Zenon DEF MirrorInv

\* The evidence is in order: what the runtime's invariants say of a ledger that is
\* mirrored, and the premises about its dispatches.
InOrder ==
    /\ TypesOK /\ TimesOK /\ EventsOK /\ LoggedOnce /\ mirrored = Len(events)
    /\ DispatchIsAuthorized /\ NoDispatchAfterLatchedTrigger
    /\ DistinctIds /\ DispatchBeforeExpiry
    /\ \A i \in Malformed, j \in Dispatches : j < i
    /\ \A i \in Log("KILL_ACKNOWLEDGED") : events[i].ack = ack

\* What is known of each event, by its position.
LEMMA AtPosition ==
  ASSUME InOrder, NEW j \in 1..Len(events)
  PROVE  /\ Known(events, events[j], j - 1)
         /\ \A i \in 1..(j - 1) : i \in 1..Len(events) /\ i < j
         /\ \A k : events[j].kind = k => j \in Log(k)
         /\ events[j].ns \in Int
<1>1. mirrored = Len(events) /\ EventsOK /\ TimesOK
  BY Zenon DEF InOrder
<1>2. events \in Seq({events[i] : i \in 1..Len(events)})
  BY Zenon DEF InOrder, TypesOK
<1>3. Len(events) \in Nat
  BY <1>2, SMT
<1>4. \A i \in 1..(j - 1) : i \in 1..Len(events) /\ i < j
  BY <1>3, SMT
<1>5. events[j].ns \in 0..clock
  BY <1>1, Zenon DEF TimesOK
<1>6. events[j].ns \in Int
  BY <1>5, SMT
<1> QED
  BY <1>1, <1>4, <1>6, Zenon DEF EventsOK, Log

\* Decisions, dispatches and results on one request are on one authorization.
LEMMA OneAuthorization ==
  ASSUME InOrder, NEW i \in 1..Len(events), NEW j \in 1..Len(events),
         events[i].kind \in {"DECISION", "DISPATCH", "RESULT"},
         events[j].kind \in {"DECISION", "DISPATCH", "RESULT"}
  PROVE  events[i].req = events[j].req <=> events[i].auth = events[j].auth
<1>1. /\ events[i].auth \in Workers /\ events[i].req = RequestOf[events[i].auth]
      /\ events[j].auth \in Workers /\ events[j].req = RequestOf[events[j].auth]
  BY AtPosition, Zenon DEF Known
<1> QED
  BY <1>1, Zenon DEF InOrder, DistinctIds

\* A request and its decision fit where they stand,
LEMMA DecisionsFit ==
  ASSUME InOrder, NEW j \in 1..Len(events)
  PROVE  /\ events[j].kind = "REQUEST" =>
              Earlier(events, j, "REQUEST", events[j].req) = {}
         /\ events[j].kind = "DECISION" =>
              /\ Earlier(events, j, "REQUEST", events[j].req) = {events[j].ref}
              /\ Earlier(events, j, "DECISION", events[j].req) = {}
<1>1. \A i \in 1..(j - 1) : i \in 1..Len(events) /\ i < j
  BY AtPosition, Zenon
<1>2. j \in Int /\ ~(j < j)
  BY SMT
<1>3. \A i \in 1..(j - 1) : i # j
  BY <1>1, <1>2, Zenon
<1>4. LoggedOnce
  BY Zenon DEF InOrder
<1>5. ASSUME events[j].kind = "REQUEST"
      PROVE  Earlier(events, j, "REQUEST", events[j].req) = {}
  <2>1. ASSUME NEW i \in Earlier(events, j, "REQUEST", events[j].req) PROVE FALSE
    <3>1. i \in 1..(j - 1) /\ events[i].kind = "REQUEST" /\ events[i].req = events[j].req
      BY <2>1, Zenon DEF Earlier
    <3>2. i \in Log("REQUEST") /\ j \in Log("REQUEST")
      BY <1>1, <1>5, <3>1, AtPosition, Zenon
    <3> QED
      BY <1>3, <1>4, <3>1, <3>2, Zenon DEF LoggedOnce
  <2> QED
    BY <2>1, Zenon
<1>6. ASSUME events[j].kind = "DECISION"
      PROVE  Earlier(events, j, "REQUEST", events[j].req) = {events[j].ref}
  <2>1. /\ events[j].ref \in 1..(j - 1)
        /\ events[events[j].ref].kind = "REQUEST"
        /\ events[events[j].ref].req = events[j].req
    BY <1>6, AtPosition, Zenon DEF Known
  <2>2. ASSUME NEW i \in Earlier(events, j, "REQUEST", events[j].req)
        PROVE  i = events[j].ref
    <3>1. i \in 1..(j - 1) /\ events[i].kind = "REQUEST" /\ events[i].req = events[j].req
      BY <2>2, Zenon DEF Earlier
    <3>2. i \in Log("REQUEST") /\ events[j].ref \in Log("REQUEST")
      BY <1>1, <2>1, <3>1, AtPosition, Zenon
    <3> QED
      BY <1>4, <2>1, <3>1, <3>2, Zenon DEF LoggedOnce
  <2>3. events[j].ref \in Earlier(events, j, "REQUEST", events[j].req)
    BY <2>1, Zenon DEF Earlier
  <2> QED
    BY <2>2, <2>3, Zenon
<1>7. ASSUME events[j].kind = "DECISION"
      PROVE  Earlier(events, j, "DECISION", events[j].req) = {}
  <2>1. ASSUME NEW i \in Earlier(events, j, "DECISION", events[j].req) PROVE FALSE
    <3>1. i \in 1..(j - 1) /\ events[i].kind = "DECISION" /\ events[i].req = events[j].req
      BY <2>1, Zenon DEF Earlier
    <3>2. i \in Log("DECISION") /\ j \in Log("DECISION") /\ events[i].auth = events[j].auth
      BY <1>1, <1>7, <3>1, AtPosition, OneAuthorization, Zenon
    <3> QED
      BY <1>3, <1>4, <3>1, <3>2, Zenon DEF LoggedOnce
  <2> QED
    BY <2>1, Zenon
<1> QED
  BY <1>5, <1>6, <1>7, Zenon

\* a dispatch is authorized by what comes before it,
LEMMA DispatchAuthorized ==
  ASSUME InOrder, NEW j \in 1..Len(events), events[j].kind = "DISPATCH"
  PROVE  Authorizes(events, j)
<1>1. j \in Dispatches
  BY Zenon DEF Dispatches, Kinds
<1>2. PICK i \in 1..(j - 1) :
          /\ events[i].kind = "DECISION" /\ events[i].verdict = "ALLOW"
          /\ events[i].auth = events[j].auth
  BY <1>1, Zenon DEF InOrder, DispatchIsAuthorized
<1>3. i \in 1..Len(events)
  BY AtPosition, Zenon
<1>4. events[i].req = events[j].req
  BY <1>2, <1>3, OneAuthorization, Zenon
<1> QED
  BY <1>2, <1>4, Zenon DEF Authorizes, Earlier

\* comes before every trigger, in time, and once,
LEMMA DispatchFits ==
  ASSUME InOrder, NEW j \in 1..Len(events), events[j].kind = "DISPATCH"
  PROVE  /\ ~Barrier(events, j) /\ Authorizes(events, j) /\ InTime(events, j)
         /\ \A i \in 1..(j - 1) :
               events[i].kind = "DISPATCH" => events[i].auth # events[j].auth
<1>1. \A i \in 1..(j - 1) : i \in 1..Len(events) /\ i < j
  BY AtPosition, Zenon
<1>2. \A i \in 1..(j - 1) : ~(j < i) /\ i # j
  BY SMT
<1>3. j \in Dispatches
  BY Zenon DEF Dispatches, Kinds
<1>4. ~Barrier(events, j)
  <2>1. SUFFICES ASSUME NEW i \in 1..(j - 1), IsTrigger(events[i])
                 PROVE  FALSE
    BY Zenon DEF Barrier, IsTrigger
  <2>2. i \in 1..Len(events) /\ ~(j < i)
    BY <1>1, <1>2, Zenon
  <2>3. CASE i \in Malformed
    BY <1>3, <2>2, <2>3, Zenon DEF InOrder
  <2>4. CASE i \notin Malformed
    BY <1>3, <2>1, <2>2, <2>4, Zenon DEF InOrder, NoDispatchAfterLatchedTrigger
  <2> QED
    BY <2>3, <2>4, Zenon
<1>5. InTime(events, j)
  <2>1. SUFFICES ASSUME NEW i \in Earlier(events, j, "DECISION", events[j].req)
                 PROVE  ~(events[j].ns > events[i].expiry)
    BY Zenon DEF InTime
  <2>2. i \in 1..Len(events) /\ events[i].kind = "DECISION" /\ events[i].req = events[j].req
    BY <1>1, Zenon DEF Earlier
  <2>3. events[i].auth = events[j].auth
    BY <2>2, OneAuthorization, Zenon
  <2>4. events[j].ns <= events[i].expiry
    BY <2>2, <2>3, Zenon DEF InOrder, DispatchBeforeExpiry
  <2>5. events[i].expiry \in Int /\ events[j].ns \in Int
    BY <2>2, AtPosition, Zenon DEF Known
  <2> QED
    BY <2>4, <2>5, SMT
<1>6. ASSUME NEW i \in 1..(j - 1), events[i].kind = "DISPATCH"
      PROVE  events[i].auth # events[j].auth
  <2>1. i \in Dispatches /\ i # j
    BY <1>1, <1>2, <1>6, Zenon DEF Dispatches, Kinds
  <2> QED
    BY <1>3, <2>1, Zenon DEF InOrder, DispatchIsAuthorized
<1> QED
  BY <1>4, <1>5, <1>6, DispatchAuthorized, Zenon

\* a result follows its dispatch, once,
LEMMA ResultFits ==
  ASSUME InOrder, NEW j \in 1..Len(events), events[j].kind = "RESULT"
  PROVE  /\ Authorizes(events, j)
         /\ Earlier(events, j, "DISPATCH", events[j].req) # {}
         /\ Earlier(events, j, "RESULT", events[j].req) = {}
<1>1. \A i \in 1..(j - 1) : i \in 1..Len(events) /\ i < j
  BY AtPosition, Zenon
<1>2. \A i \in 1..(j - 1) : i # j
  BY SMT
<1>3. PICK d \in 1..(j - 1) : events[d].kind = "DISPATCH" /\ events[d].auth = events[j].auth
  BY AtPosition, Zenon DEF Known
<1>4. d \in 1..Len(events)
  BY <1>1, Zenon
<1>5. events[d].req = events[j].req
  BY <1>3, <1>4, OneAuthorization, Zenon
<1>6. Earlier(events, j, "DISPATCH", events[j].req) # {}
  BY <1>3, <1>5, Zenon DEF Earlier
<1>7. Authorizes(events, j)
  <2>1. PICK i \in Earlier(events, d, "DECISION", events[d].req) :
            events[i].verdict = "ALLOW" /\ events[i].auth = events[d].auth
    BY <1>3, <1>4, DispatchAuthorized, Zenon DEF Authorizes
  <2>2. i \in 1..(d - 1) /\ events[i].kind = "DECISION" /\ events[i].req = events[d].req
    BY Zenon DEF Earlier
  <2>3. i \in 1..(j - 1)
    BY <1>3, <2>2, SMT
  <2> QED
    BY <1>3, <1>5, <2>1, <2>2, <2>3, Zenon DEF Authorizes, Earlier
<1>8. ASSUME NEW i \in Earlier(events, j, "RESULT", events[j].req) PROVE FALSE
  <2>1. i \in 1..(j - 1) /\ events[i].kind = "RESULT" /\ events[i].req = events[j].req
    BY <1>8, Zenon DEF Earlier
  <2>2. i \in Log("RESULT") /\ j \in Log("RESULT") /\ events[i].auth = events[j].auth
    BY <1>1, <2>1, AtPosition, OneAuthorization, Zenon
  <2> QED
    BY <1>2, <2>1, <2>2, Zenon DEF InOrder, LoggedOnce
<1> QED
  BY <1>6, <1>7, <1>8, Zenon

\* and so does every event: the file is well-formed.
LEMMA LogFits ==
  ASSUME InOrder
  PROVE  WellFormed(events, ack)
<1> SUFFICES ASSUME NEW j \in 1..Len(events)
             PROVE  Fits(events, ack, j)
  BY Zenon DEF WellFormed
<1>1. Known(events, events[j], j - 1)
  BY AtPosition, Zenon
<1>2. ASSUME events[j].kind = "KILL_ACKNOWLEDGED"
      PROVE  /\ events[j].ack = ack /\ events[j].ack.trigger < j
             /\ \A i \in 1..(j - 1) : events[i].kind # "KILL_ACKNOWLEDGED"
  <2>1. j \in Log("KILL_ACKNOWLEDGED")
    BY <1>2, AtPosition, Zenon
  <2>2. events[j].ack = ack
    BY <2>1, Zenon DEF InOrder
  <2>3. events[j].ack.trigger \in 0..(j - 1)
    BY <1>1, <1>2, Zenon DEF Known
  <2>4. events[j].ack.trigger < j
    BY <2>3, SMT
  <2>5. ASSUME NEW i \in 1..(j - 1) PROVE events[i].kind # "KILL_ACKNOWLEDGED"
    <3>1. i \in 1..Len(events)
      BY AtPosition, Zenon
    <3>2. i # j
      BY SMT
    <3> QED
      BY <2>1, <3>1, <3>2, AtPosition, Zenon DEF InOrder, LoggedOnce
  <2> QED
    BY <2>2, <2>4, <2>5, Zenon
<1>3. events[j].kind # "CANCELLATION"
  BY <1>1, Zenon DEF Known, RuntimeKinds
<1> QED
  BY <1>2, <1>3, DecisionsFit, DispatchFits, ResultFits, Zenon DEF Fits

\* The acknowledgement of a quiet run is in its log exactly when it was killed.
LEMMA QuietAcks ==
  ASSUME KillInv, EvidenceInv, QuietRun, mirrored = Len(events)
  PROVE  /\ \A i \in Log("KILL_ACKNOWLEDGED") : events[i].ack = ack
         /\ phase = "KILLED" => \E i : Log("KILL_ACKNOWLEDGED") = {i}
         /\ phase # "KILLED" => Log("KILL_ACKNOWLEDGED") = {}
<1>1. Log("KILL_ACKNOWLEDGED") = Logged
  BY SMT DEF Log, Logged, Kinds
<1>2. {events[i].ack : i \in Logged} = {ack} \ {NoAck}
  BY Zenon DEF KillInv, AckInv, LoggedAcks, QuietRun, Quiet
<1>3. phase = "KILLED" => ack # NoAck
  BY Zenon DEF KillInv, AckInv, QuietRun, Quiet, Calm
<1>4. phase = "KILLED" => Logged # {}
  BY <1>2, <1>3, Zenon
<1>5. \A i, j \in Log("KILL_ACKNOWLEDGED") : i = j
  BY Zenon DEF EvidenceInv, LogInv, LoggedOnce
<1>6. phase # "KILLED" => Log("KILL_ACKNOWLEDGED") = {}
  BY Zenon DEF EvidenceInv, OverInv
<1>7. ASSUME NEW i \in Log("KILL_ACKNOWLEDGED") PROVE events[i].ack = ack
  BY <1>1, <1>2, Zenon
<1>8. ASSUME phase = "KILLED" PROVE \E i : Log("KILL_ACKNOWLEDGED") = {i}
  <2>1. PICK i : i \in Log("KILL_ACKNOWLEDGED")
    BY <1>1, <1>4, <1>8, Zenon
  <2>2. Log("KILL_ACKNOWLEDGED") = {i}
    BY <1>5, <2>1, Zenon
  <2> QED
    BY <2>2, Zenon
<1> QED
  BY <1>6, <1>7, <1>8, Zenon

\* The evidence of a quiet run is in order.
LEMMA QuietInOrder ==
  ASSUME ContainmentInv, KillInv, EvidenceInv, RoleInv, QuietRun
  PROVE  InOrder
<1>1. mirrored = Len(events)
  BY QuietIsMirrored, Zenon DEF EvidenceInv, QuietRun
<1>2. \A i \in Log("KILL_ACKNOWLEDGED") : events[i].ack = ack
  BY <1>1, QuietAcks, Zenon
<1>3. TypesOK /\ DispatchIsAuthorized /\ NoDispatchAfterLatchedTrigger
  BY Zenon DEF ContainmentInv, Shared, CapabilityInv, LatchInv
<1>4. TimesOK /\ EventsOK /\ LoggedOnce
  BY Zenon DEF EvidenceInv, LogInv
<1> QED
  BY <1>1, <1>2, <1>3, <1>4, Zenon DEF InOrder, QuietRun
=============================================================================
