--------------------------- MODULE AuditorProofs ----------------------------
(***************************************************************************)
(* The one pass of _inspect_events (auditor/verify.py:54-224) accepts      *)
(* exactly the well-formed evidence files and counts what is in them,      *)
(* whatever the length of the file and the requests it speaks of.          *)
(*                                                                         *)
(* The invariant says what each field that _inspect_events keeps           *)
(* remembers of the events read so far.  One lemma for each kind of event  *)
(* shows that the fields decide whether the event fits and that they       *)
(* remember it when it does.  The lemmas are about any file, so that they  *)
(* serve the auditor's own loop (Spec) and, through FileInspected, every   *)
(* module that asks what the auditor makes of the evidence it has.         *)
(***************************************************************************)
EXTENDS AuditorSpec, FiniteSetTheorems, TLAPS

Fields ==
    {"ok", "count", "at", "decided", "dispatched", "completed", "confirmed", "auths",
     "barrier", "ack", "acks", "allowed", "denied", "dispatches", "results"}

IsFile(tr) == tr \in Seq({tr[i] : i \in 1..Len(tr)})

\* The traces of the requests and of the decisions.
RequestsKept(tr, s) ==
    /\ \A i \in Of(tr, "REQUEST") : tr[i].req \in DOMAIN s.at /\ s.at[tr[i].req] = i
    /\ \A r \in DOMAIN s.at : s.at[r] \in Of(tr, "REQUEST") /\ tr[s.at[r]].req = r

DecisionsKept(tr, s) ==
    /\ \A i \in Of(tr, "DECISION") :
          tr[i].req \in DOMAIN s.decided /\ s.decided[tr[i].req] = tr[i]
    /\ \A r \in DOMAIN s.decided : \E i \in Of(tr, "DECISION") : tr[i].req = r

\* A request is dispatched at most once, under the authorization of its decision.
DispatchesKept(tr, s) ==
    /\ s.dispatched = {tr[i].req : i \in Of(tr, "DISPATCH")}
    /\ s.auths = {tr[i].auth : i \in Of(tr, "DISPATCH")}
    /\ \A i \in Of(tr, "DISPATCH") :
          /\ tr[i].req \in DOMAIN s.decided
          /\ s.decided[tr[i].req].auth = tr[i].auth
          /\ s.decided[tr[i].req].verdict = "ALLOW"
    /\ \A i, j \in Of(tr, "DISPATCH") : tr[i].req = tr[j].req => i = j

ConfirmedAt(tr) == {i \in Of(tr, "CANCELLATION") : tr[i].confirmed}

EndsKept(tr, s) ==
    /\ s.completed = {tr[i].req : i \in Of(tr, "RESULT")}
    /\ s.confirmed = {tr[i].req : i \in ConfirmedAt(tr)}

BarrierKept(tr, s) == s.barrier <=> Barrier(tr, Len(tr) + 1)

AckKept(tr, s) == s.ack # NoLoggedAck <=> Of(tr, "KILL_ACKNOWLEDGED") # {}

CountsKept(tr, s) ==
    /\ s.count = Len(tr)
    /\ s.allowed = Cardinality(Decisions(tr, "ALLOW"))
    /\ s.denied = Cardinality(Decisions(tr, "KILL"))
    /\ s.dispatches = Number(tr, "DISPATCH")
    /\ s.results = Number(tr, "RESULT")
    /\ s.acks = Number(tr, "KILL_ACKNOWLEDGED")

Kept(tr, s) ==
    /\ DOMAIN s = Fields
    /\ RequestsKept(tr, s) /\ DecisionsKept(tr, s) /\ DispatchesKept(tr, s) /\ EndsKept(tr, s)
    /\ BarrierKept(tr, s) /\ AckKept(tr, s) /\ CountsKept(tr, s)

\* The events a file is made of (verify.py:67-209, and the types of models.py).
Readable(e) ==
    /\ e.kind \in {"REQUEST", "DECISION", "DISPATCH", "RESULT", "CANCELLATION", "VIOLATION",
                   "OVERLOAD_SUMMARY", "KILL_ACKNOWLEDGED"}
    /\ e.kind = "DECISION" => e.verdict \in {"ALLOW", "KILL"}
    /\ e.kind = "CANCELLATION" => e.confirmed \in BOOLEAN
    /\ e.kind = "KILL_ACKNOWLEDGED" => e.ack.trigger \in Int /\ e.ack # NoLoggedAck

\* What has been read, and the verdict on it.
Inspected(tr, a, s) ==
    /\ IsFile(tr)
    /\ s.ok \in BOOLEAN
    /\ s.ok <=> WellFormed(tr, a)
    /\ s.ok => Kept(tr, s)

-----------------------------------------------------------------------------
\* What _inspect_events keeps for one kind of event is untouched by the others.
SameTraces(s, n) == n.at = s.at /\ n.decided = s.decided
SameVerdicts(s, n) == n.allowed = s.allowed /\ n.denied = s.denied
SameDispatches(s, n) ==
    n.dispatched = s.dispatched /\ n.auths = s.auths /\ n.dispatches = s.dispatches
SameEnds(s, n) ==
    n.completed = s.completed /\ n.confirmed = s.confirmed /\ n.results = s.results
SameMarks(s, n) == n.barrier = s.barrier /\ n.ack = s.ack /\ n.acks = s.acks

\* One turn of the loop ends with the count (verify.py:67-209).
LEMMA Counted ==
  ASSUME NEW h, DOMAIN h = Fields, NEW n, n = [h EXCEPT !.count = @ + 1]
  PROVE  /\ DOMAIN n = Fields /\ n.ok = h.ok /\ n.count = h.count + 1
         /\ SameTraces(h, n) /\ SameVerdicts(h, n) /\ SameDispatches(h, n)
         /\ SameEnds(h, n) /\ SameMarks(h, n)
  BY SMT DEF Fields, SameTraces, SameVerdicts, SameDispatches, SameEnds, SameMarks

\* A rejected event leaves the inspection failed.
LEMMA Rejected ==
  ASSUME NEW s, DOMAIN s = Fields
  PROVE  DOMAIN Reject(s) = Fields /\ Reject(s).ok = FALSE
  BY SMT DEF Fields, Reject

\* What makes _inspect_events reject the event (verify.py:69-205).
RequestRejected(s, e) == e.req \in DOMAIN s.at

DecisionRejected(s, e) ==
    e.req \notin DOMAIN s.at \/ s.at[e.req] # e.ref \/ e.req \in DOMAIN s.decided

DispatchRejected(s, e) ==
    \/ s.barrier
    \/ ~Bound(s, e)
    \/ s.decided[e.req].verdict # "ALLOW"
    \/ e.req \in s.dispatched
    \/ e.auth \in s.auths
    \/ e.ns > s.decided[e.req].expiry

ResultRejected(s, e) == ~Bound(s, e) \/ e.req \notin s.dispatched \/ e.req \in s.completed

CancellationRejected(s, e) ==
    \/ ~Bound(s, e)
    \/ e.req \notin s.dispatched
    \/ e.req \in s.completed \cup s.confirmed

AckRejected(s, e, a) ==
    s.ack # NoLoggedAck \/ e.ack.trigger > s.count \/ e.ack # a

\* What Inspect does with a REQUEST (verify.py:69-82),
LEMMA RequestTurn ==
  ASSUME NEW s, DOMAIN s = Fields, s.ok = TRUE, NEW e, e.kind = "REQUEST",
         NEW a, NEW n, n = Inspect(s, e, a)
  PROVE  /\ RequestRejected(s, e) => n.ok = FALSE
         /\ ~RequestRejected(s, e) =>
              /\ DOMAIN n = Fields /\ n.ok = TRUE /\ n.count = s.count + 1
              /\ n.at = Put(s.at, e.req, s.count + 1) /\ n.decided = s.decided
              /\ SameVerdicts(s, n) /\ SameDispatches(s, n) /\ SameEnds(s, n) /\ SameMarks(s, n)
<1> DEFINE h == OnRequest(s, e)
<1>1. n = [h EXCEPT !.count = @ + 1]
  BY Zenon DEF Inspect
<1>2. RequestRejected(s, e) => DOMAIN h = Fields /\ h.ok = FALSE
  BY Rejected, Zenon DEF OnRequest, RequestRejected
<1>3. ~RequestRejected(s, e) =>
        /\ DOMAIN h = Fields /\ h.ok = TRUE /\ h.count = s.count
        /\ h.at = Put(s.at, e.req, s.count + 1) /\ h.decided = s.decided
        /\ SameVerdicts(s, h) /\ SameDispatches(s, h) /\ SameEnds(s, h) /\ SameMarks(s, h)
  BY SMT DEF OnRequest, Fields, SameVerdicts, SameDispatches, SameEnds, SameMarks, RequestRejected
<1> HIDE DEF h
<1>5. CASE RequestRejected(s, e)
  BY <1>1, <1>2, <1>5, Counted, Zenon
<1>6. CASE ~RequestRejected(s, e)
  <2>1. /\ DOMAIN n = Fields /\ n.ok = h.ok /\ n.count = h.count + 1
        /\ SameTraces(h, n) /\ SameVerdicts(h, n) /\ SameDispatches(h, n)
        /\ SameEnds(h, n) /\ SameMarks(h, n)
    BY <1>1, <1>3, <1>6, Counted, Zenon
  <2> QED
    BY <1>3, <1>6, <2>1, Zenon DEF SameTraces, SameVerdicts, SameDispatches, SameEnds, SameMarks
<1> QED
  BY <1>5, <1>6, Zenon

\* with a DECISION (verify.py:83-110),
LEMMA DecisionTurn ==
  ASSUME NEW s, DOMAIN s = Fields, s.ok = TRUE, NEW e, e.kind = "DECISION",
         NEW a, NEW n, n = Inspect(s, e, a)
  PROVE  /\ DecisionRejected(s, e) => n.ok = FALSE
         /\ ~DecisionRejected(s, e) =>
              /\ DOMAIN n = Fields /\ n.ok = TRUE /\ n.count = s.count + 1
              /\ n.barrier = (s.barrier \/ e.verdict = "KILL")
              /\ n.at = s.at /\ n.decided = Put(s.decided, e.req, e)
              /\ n.ack = s.ack /\ n.acks = s.acks
              /\ n.allowed = IF e.verdict = "ALLOW" THEN s.allowed + 1 ELSE s.allowed
              /\ n.denied = IF e.verdict = "ALLOW" THEN s.denied ELSE s.denied + 1
              /\ SameDispatches(s, n) /\ SameEnds(s, n)
<1> DEFINE h == OnDecision(s, e)
<1>1. n = [h EXCEPT !.count = @ + 1]
  BY Zenon DEF Inspect
<1>2. DecisionRejected(s, e) => DOMAIN h = Fields /\ h.ok = FALSE
  BY Rejected, Zenon DEF OnDecision, DecisionRejected
<1>3. ~DecisionRejected(s, e) =>
        /\ DOMAIN h = Fields /\ h.ok = TRUE /\ h.count = s.count
        /\ h.at = s.at /\ h.decided = Put(s.decided, e.req, e)
        /\ h.ack = s.ack /\ h.acks = s.acks
        /\ h.allowed = IF e.verdict = "ALLOW" THEN s.allowed + 1 ELSE s.allowed
        /\ h.denied = IF e.verdict = "ALLOW" THEN s.denied ELSE s.denied + 1
        /\ SameDispatches(s, h) /\ SameEnds(s, h)
  BY SMT DEF OnDecision, Fields, SameDispatches, SameEnds, DecisionRejected
<1>4. ~DecisionRejected(s, e) => h.barrier = (s.barrier \/ e.verdict = "KILL")
  BY Zenon DEF OnDecision, Fields, DecisionRejected
<1> HIDE DEF h
<1>5. CASE DecisionRejected(s, e)
  BY <1>1, <1>2, <1>5, Counted, Zenon
<1>6. CASE ~DecisionRejected(s, e)
  <2>1. /\ DOMAIN n = Fields /\ n.ok = h.ok /\ n.count = h.count + 1
        /\ SameTraces(h, n) /\ SameVerdicts(h, n) /\ SameDispatches(h, n)
        /\ SameEnds(h, n) /\ SameMarks(h, n)
    BY <1>1, <1>3, <1>6, Counted, Zenon
  <2> QED
    BY <1>3, <1>4, <1>6, <2>1, Zenon DEF SameTraces, SameVerdicts, SameDispatches, SameEnds,
       SameMarks
<1> QED
  BY <1>5, <1>6, Zenon

\* with a DISPATCH (verify.py:111-139),
LEMMA DispatchTurn ==
  ASSUME NEW s, DOMAIN s = Fields, s.ok = TRUE, NEW e, e.kind = "DISPATCH",
         NEW a, NEW n, n = Inspect(s, e, a)
  PROVE  /\ DispatchRejected(s, e) => n.ok = FALSE
         /\ ~DispatchRejected(s, e) =>
              /\ DOMAIN n = Fields /\ n.ok = TRUE /\ n.count = s.count + 1
              /\ n.dispatched = s.dispatched \cup {e.req} /\ n.auths = s.auths \cup {e.auth}
              /\ n.dispatches = s.dispatches + 1
              /\ SameTraces(s, n) /\ SameVerdicts(s, n) /\ SameEnds(s, n) /\ SameMarks(s, n)
<1> DEFINE h == OnDispatch(s, e)
<1>1. n = [h EXCEPT !.count = @ + 1]
  BY Zenon DEF Inspect
<1>2. DispatchRejected(s, e) => DOMAIN h = Fields /\ h.ok = FALSE
  BY Rejected, Zenon DEF OnDispatch, DispatchRejected
<1>3. ~DispatchRejected(s, e) =>
        /\ DOMAIN h = Fields /\ h.ok = TRUE /\ h.count = s.count
        /\ h.dispatched = s.dispatched \cup {e.req} /\ h.auths = s.auths \cup {e.auth}
        /\ h.dispatches = s.dispatches + 1
        /\ SameTraces(s, h) /\ SameVerdicts(s, h) /\ SameEnds(s, h) /\ SameMarks(s, h)
  BY SMT DEF OnDispatch, Fields, SameTraces, SameVerdicts, SameEnds, SameMarks, DispatchRejected
<1> HIDE DEF h
<1>5. CASE DispatchRejected(s, e)
  BY <1>1, <1>2, <1>5, Counted, Zenon
<1>6. CASE ~DispatchRejected(s, e)
  <2>1. /\ DOMAIN n = Fields /\ n.ok = h.ok /\ n.count = h.count + 1
        /\ SameTraces(h, n) /\ SameVerdicts(h, n) /\ SameDispatches(h, n)
        /\ SameEnds(h, n) /\ SameMarks(h, n)
    BY <1>1, <1>3, <1>6, Counted, Zenon
  <2> QED
    BY <1>3, <1>6, <2>1, Zenon DEF SameTraces, SameVerdicts, SameDispatches, SameEnds, SameMarks
<1> QED
  BY <1>5, <1>6, Zenon

\* with a RESULT (verify.py:140-158),
LEMMA ResultTurn ==
  ASSUME NEW s, DOMAIN s = Fields, s.ok = TRUE, NEW e, e.kind = "RESULT",
         NEW a, NEW n, n = Inspect(s, e, a)
  PROVE  /\ ResultRejected(s, e) => n.ok = FALSE
         /\ ~ResultRejected(s, e) =>
              /\ DOMAIN n = Fields /\ n.ok = TRUE /\ n.count = s.count + 1
              /\ n.completed = s.completed \cup {e.req} /\ n.confirmed = s.confirmed
              /\ n.results = s.results + 1
              /\ SameTraces(s, n) /\ SameVerdicts(s, n) /\ SameDispatches(s, n) /\ SameMarks(s, n)
<1> DEFINE h == OnResult(s, e)
<1>1. n = [h EXCEPT !.count = @ + 1]
  BY Zenon DEF Inspect
<1>2. ResultRejected(s, e) => DOMAIN h = Fields /\ h.ok = FALSE
  BY Rejected, Zenon DEF OnResult, ResultRejected
<1>3. ~ResultRejected(s, e) =>
        /\ DOMAIN h = Fields /\ h.ok = TRUE /\ h.count = s.count
        /\ h.completed = s.completed \cup {e.req} /\ h.confirmed = s.confirmed
        /\ h.results = s.results + 1
        /\ SameTraces(s, h) /\ SameVerdicts(s, h) /\ SameDispatches(s, h) /\ SameMarks(s, h)
  BY SMT DEF OnResult, Fields, SameTraces, SameVerdicts, SameDispatches, SameMarks, ResultRejected
<1> HIDE DEF h
<1>5. CASE ResultRejected(s, e)
  BY <1>1, <1>2, <1>5, Counted, Zenon
<1>6. CASE ~ResultRejected(s, e)
  <2>1. /\ DOMAIN n = Fields /\ n.ok = h.ok /\ n.count = h.count + 1
        /\ SameTraces(h, n) /\ SameVerdicts(h, n) /\ SameDispatches(h, n)
        /\ SameEnds(h, n) /\ SameMarks(h, n)
    BY <1>1, <1>3, <1>6, Counted, Zenon
  <2> QED
    BY <1>3, <1>6, <2>1, Zenon DEF SameTraces, SameVerdicts, SameDispatches, SameEnds, SameMarks
<1> QED
  BY <1>5, <1>6, Zenon

\* with a CANCELLATION (verify.py:159-176),
LEMMA CancellationTurn ==
  ASSUME NEW s, DOMAIN s = Fields, s.ok = TRUE, NEW e, e.kind = "CANCELLATION",
         NEW a, NEW n, n = Inspect(s, e, a)
  PROVE  /\ CancellationRejected(s, e) => n.ok = FALSE
         /\ ~CancellationRejected(s, e) =>
              /\ DOMAIN n = Fields /\ n.ok = TRUE /\ n.count = s.count + 1
              /\ n.completed = s.completed /\ n.results = s.results
              /\ n.confirmed = IF e.confirmed THEN s.confirmed \cup {e.req} ELSE s.confirmed
              /\ SameTraces(s, n) /\ SameVerdicts(s, n) /\ SameDispatches(s, n) /\ SameMarks(s, n)
<1> DEFINE h == OnCancellation(s, e)
<1>1. n = [h EXCEPT !.count = @ + 1]
  BY Zenon DEF Inspect
<1>2. CancellationRejected(s, e) => DOMAIN h = Fields /\ h.ok = FALSE
  BY Rejected, Zenon DEF OnCancellation, CancellationRejected
<1>3. ~CancellationRejected(s, e) =>
        /\ DOMAIN h = Fields /\ h.ok = TRUE /\ h.count = s.count
        /\ h.completed = s.completed /\ h.results = s.results
        /\ h.confirmed = IF e.confirmed THEN s.confirmed \cup {e.req} ELSE s.confirmed
        /\ SameTraces(s, h) /\ SameVerdicts(s, h) /\ SameDispatches(s, h) /\ SameMarks(s, h)
  BY SMT DEF OnCancellation, Fields, SameTraces, SameVerdicts, SameDispatches, SameMarks,
     CancellationRejected
<1> HIDE DEF h
<1>5. CASE CancellationRejected(s, e)
  BY <1>1, <1>2, <1>5, Counted, Zenon
<1>6. CASE ~CancellationRejected(s, e)
  <2>1. /\ DOMAIN n = Fields /\ n.ok = h.ok /\ n.count = h.count + 1
        /\ SameTraces(h, n) /\ SameVerdicts(h, n) /\ SameDispatches(h, n)
        /\ SameEnds(h, n) /\ SameMarks(h, n)
    BY <1>1, <1>3, <1>6, Counted, Zenon
  <2> QED
    BY <1>3, <1>6, <2>1, Zenon DEF SameTraces, SameVerdicts, SameDispatches, SameEnds, SameMarks
<1> QED
  BY <1>5, <1>6, Zenon

Triggers(e) == e.kind \in {"VIOLATION", "OVERLOAD_SUMMARY"}

Triggered(s, n) ==
    /\ DOMAIN n = Fields /\ n.ok = TRUE /\ n.count = s.count + 1
    /\ n.barrier = TRUE
    /\ n.ack = s.ack /\ n.acks = s.acks
    /\ SameTraces(s, n) /\ SameVerdicts(s, n) /\ SameDispatches(s, n) /\ SameEnds(s, n)

\* with a VIOLATION or an OVERLOAD_SUMMARY (verify.py:177-186),
LEMMA TriggerTurn ==
  ASSUME NEW s, DOMAIN s = Fields, s.ok = TRUE, NEW e, Triggers(e),
         NEW a, NEW n, n = Inspect(s, e, a)
  PROVE  Triggered(s, n)
<1> DEFINE h == OnTrigger(s)
<1>1. n = [h EXCEPT !.count = @ + 1]
  BY Zenon DEF Inspect, Triggers
<1>3. /\ DOMAIN h = Fields /\ h.ok = TRUE /\ h.count = s.count
      /\ h.ack = s.ack /\ h.acks = s.acks
      /\ SameTraces(s, h) /\ SameVerdicts(s, h) /\ SameDispatches(s, h) /\ SameEnds(s, h)
  BY SMT DEF OnTrigger, Fields, SameTraces, SameVerdicts, SameDispatches, SameEnds
<1>4. h.barrier = TRUE
  BY Zenon DEF OnTrigger, Fields
<1> HIDE DEF h
<1>5. /\ DOMAIN n = Fields /\ n.ok = h.ok /\ n.count = h.count + 1
      /\ SameTraces(h, n) /\ SameVerdicts(h, n) /\ SameDispatches(h, n)
      /\ SameEnds(h, n) /\ SameMarks(h, n)
  BY <1>1, <1>3, Counted, Zenon
<1> QED
  BY <1>3, <1>4, <1>5, Zenon DEF Triggered, SameTraces, SameVerdicts, SameDispatches, SameEnds,
     SameMarks

\* and with a KILL_ACKNOWLEDGED (verify.py:187-205).
LEMMA AckTurn ==
  ASSUME NEW s, DOMAIN s = Fields, s.ok = TRUE, NEW e, e.kind = "KILL_ACKNOWLEDGED",
         NEW a, NEW n, n = Inspect(s, e, a)
  PROVE  /\ AckRejected(s, e, a) => n.ok = FALSE
         /\ ~AckRejected(s, e, a) =>
              /\ DOMAIN n = Fields /\ n.ok = TRUE /\ n.count = s.count + 1
              /\ n.ack = e.ack /\ n.acks = s.acks + 1 /\ n.barrier = s.barrier
              /\ SameTraces(s, n) /\ SameVerdicts(s, n) /\ SameDispatches(s, n) /\ SameEnds(s, n)
<1> DEFINE h == OnAck(s, e, a)
<1>1. n = [h EXCEPT !.count = @ + 1]
  BY Zenon DEF Inspect
<1>2. AckRejected(s, e, a) => DOMAIN h = Fields /\ h.ok = FALSE
  BY Rejected, Zenon DEF OnAck, AckRejected
<1>3. ~AckRejected(s, e, a) =>
        /\ DOMAIN h = Fields /\ h.ok = TRUE /\ h.count = s.count
        /\ h.ack = e.ack /\ h.acks = s.acks + 1 /\ h.barrier = s.barrier
        /\ SameTraces(s, h) /\ SameVerdicts(s, h) /\ SameDispatches(s, h) /\ SameEnds(s, h)
  BY SMT DEF OnAck, Fields, SameTraces, SameVerdicts, SameDispatches, SameEnds, AckRejected
<1> HIDE DEF h
<1>5. CASE AckRejected(s, e, a)
  BY <1>1, <1>2, <1>5, Counted, Zenon
<1>6. CASE ~AckRejected(s, e, a)
  <2>1. /\ DOMAIN n = Fields /\ n.ok = h.ok /\ n.count = h.count + 1
        /\ SameTraces(h, n) /\ SameVerdicts(h, n) /\ SameDispatches(h, n)
        /\ SameEnds(h, n) /\ SameMarks(h, n)
    BY <1>1, <1>3, <1>6, Counted, Zenon
  <2> QED
    BY <1>3, <1>6, <2>1, Zenon DEF SameTraces, SameVerdicts, SameDispatches, SameEnds, SameMarks
<1> QED
  BY <1>5, <1>6, Zenon

-----------------------------------------------------------------------------
\* The file grows by the event read, and what was read stays.
Grows(tr, e, tn) ==
    /\ IsFile(tr) /\ IsFile(tn)
    /\ Len(tr) \in Nat /\ Len(tn) = Len(tr) + 1
    /\ tn[Len(tr) + 1] = e
    /\ \A i \in 1..Len(tr) : tn[i] = tr[i]

\* The file with one more event.
LEMMA AppendGrows ==
  ASSUME NEW tr, NEW e, IsFile(tr)
  PROVE  Grows(tr, e, Append(tr, e))
<1> DEFINE S == {tr[i] : i \in 1..Len(tr)}
           tn == Append(tr, e)
<1>1. tr \in Seq(S) /\ tr \in Seq(S \cup {e}) /\ e \in S \cup {e}
  <2>1. tr \in Seq(S)
    BY Zenon DEF IsFile
  <2> QED
    BY <2>1, SMT
<1>2. tn \in Seq(S \cup {e})
  BY <1>1, SMT
<1>3. /\ Len(tr) \in Nat /\ Len(tn) = Len(tr) + 1
      /\ tn[Len(tr) + 1] = e
      /\ \A i \in 1..Len(tr) : tn[i] = tr[i]
  BY <1>1, SMT
<1>4. tn \in Seq({tn[i] : i \in 1..Len(tn)})
  BY <1>2, <1>3, SMT
<1> QED
  BY <1>3, <1>4, Zenon DEF Grows, IsFile

\* The positions of each kind of event, before and after.
LEMMA KindsGrow ==
  ASSUME NEW tr, NEW e, NEW tn, Grows(tr, e, tn), NEW k
  PROVE  /\ Of(tr, k) \subseteq 1..Len(tr)
         /\ \A i \in Of(tr, k) : tn[i] = tr[i] /\ i # Len(tr) + 1
         /\ e.kind # k => Of(tn, k) = Of(tr, k)
         /\ e.kind = k => Of(tn, k) = Of(tr, k) \cup {Len(tr) + 1}
<1>1. /\ Len(tr) \in Nat /\ Len(tn) = Len(tr) + 1
      /\ tn[Len(tr) + 1] = e
      /\ \A i \in 1..Len(tr) : tn[i] = tr[i]
  BY Zenon DEF Grows
<1>2. 1..Len(tn) = 1..Len(tr) \cup {Len(tr) + 1} /\ Len(tr) + 1 \notin 1..Len(tr)
  BY <1>1, SMT
<1>3. Of(tr, k) \subseteq 1..Len(tr)
  BY Zenon DEF Of
<1>4. \A i \in Of(tr, k) : tn[i] = tr[i] /\ i # Len(tr) + 1
  BY <1>1, <1>2, <1>3, Zenon
<1>5. e.kind # k => Of(tn, k) = Of(tr, k)
  BY <1>1, <1>2, Zenon DEF Of
<1>6. e.kind = k => Of(tn, k) = Of(tr, k) \cup {Len(tr) + 1}
  BY <1>1, <1>2, Zenon DEF Of
<1> QED
  BY <1>3, <1>4, <1>5, <1>6, Zenon

\* The counts are of finite sets and grow by one.
LEMMA NumbersGrow ==
  ASSUME NEW tr, NEW e, NEW tn, Grows(tr, e, tn), NEW k
  PROVE  /\ Number(tr, k) \in Nat
         /\ e.kind # k => Number(tn, k) = Number(tr, k)
         /\ e.kind = k => Number(tn, k) = Number(tr, k) + 1
<1>1. Len(tr) \in Nat
  BY Zenon DEF Grows
<1>2. IsFiniteSet(1..Len(tr))
  BY <1>1, FS_Interval, SMT
<1>3. IsFiniteSet(Of(tr, k))
  BY <1>2, KindsGrow, FS_Subset, Zenon
<1>4. Cardinality(Of(tr, k)) \in Nat
  BY <1>3, FS_CardinalityType, Zenon
<1>5. Len(tr) + 1 \notin Of(tr, k)
  BY KindsGrow, Zenon
<1>6. Cardinality(Of(tr, k) \cup {Len(tr) + 1}) = Cardinality(Of(tr, k)) + 1
  BY <1>3, <1>5, FS_AddElement, Zenon
<1>7. /\ e.kind # k => Of(tn, k) = Of(tr, k)
      /\ e.kind = k => Of(tn, k) = Of(tr, k) \cup {Len(tr) + 1}
  BY KindsGrow, SMT
<1> QED
  BY <1>4, <1>6, <1>7, Zenon DEF Number

\* Whether an event fits depends on the events before it.
LEMMA FitsStays ==
  ASSUME NEW tr, NEW e, NEW tn, Grows(tr, e, tn), NEW a, NEW j \in 1..Len(tr)
  PROVE  Fits(tn, a, j) <=> Fits(tr, a, j)
<1>1. Len(tr) \in Nat /\ \A i \in 1..Len(tr) : tn[i] = tr[i]
  BY Zenon DEF Grows
<1>2. 1..(j - 1) \subseteq 1..Len(tr)
  BY <1>1, SMT
<1>3. \A i \in 1..(j - 1) : tn[i] = tr[i]
  BY <1>1, <1>2, Zenon
<1>4. tn[j] = tr[j]
  BY <1>1, Zenon
<1>5. /\ Earlier(tn, j, "REQUEST", tn[j].req) = Earlier(tr, j, "REQUEST", tr[j].req)
      /\ Earlier(tn, j, "DECISION", tn[j].req) = Earlier(tr, j, "DECISION", tr[j].req)
      /\ Earlier(tn, j, "DISPATCH", tn[j].req) = Earlier(tr, j, "DISPATCH", tr[j].req)
      /\ Earlier(tn, j, "RESULT", tn[j].req) = Earlier(tr, j, "RESULT", tr[j].req)
  BY <1>3, <1>4, Zenon DEF Earlier
<1>6. Barrier(tn, j) <=> Barrier(tr, j)
  BY <1>3, Zenon DEF Barrier
<1>7. Authorizes(tn, j) <=> Authorizes(tr, j)
  BY <1>3, <1>4, Zenon DEF Authorizes, Earlier
<1>8. Confirmed(tn, j) = Confirmed(tr, j)
  BY <1>3, <1>4, Zenon DEF Confirmed, Earlier
<1>9. InTime(tn, j) <=> InTime(tr, j)
  BY <1>3, <1>4, Zenon DEF InTime, Earlier
<1> QED
  BY <1>3, <1>4, <1>5, <1>6, <1>7, <1>8, <1>9, Zenon DEF Fits

\* What the event that was just read has before it.
LEMMA Before ==
  ASSUME NEW tr, NEW e, NEW tn, Grows(tr, e, tn), NEW n, n = Len(tr) + 1
  PROVE  /\ \A k, r : Earlier(tn, n, k, r) = {i \in Of(tr, k) : tr[i].req = r}
         /\ Barrier(tn, n) <=> Barrier(tr, n)
         /\ Authorizes(tn, n) <=> \E i \in Of(tr, "DECISION") :
                /\ tr[i].req = e.req
                /\ tr[i].verdict = "ALLOW" /\ tr[i].auth = e.auth
         /\ Confirmed(tn, n) = {i \in ConfirmedAt(tr) : tr[i].req = e.req}
<1>1. /\ Len(tr) \in Nat /\ tn[n] = e
      /\ \A i \in 1..Len(tr) : tn[i] = tr[i]
  BY Zenon DEF Grows
<1>2. 1..(n - 1) = 1..Len(tr)
  BY <1>1, SMT
<1>3. \A k, r : Earlier(tn, n, k, r) = {i \in Of(tr, k) : tr[i].req = r}
  BY <1>1, <1>2, Zenon DEF Earlier, Of
<1>4. Barrier(tn, n) <=> Barrier(tr, n)
  BY <1>1, <1>2, Zenon DEF Barrier
<1>5. Authorizes(tn, n) <=> \E i \in Of(tr, "DECISION") :
                /\ tr[i].req = e.req
                /\ tr[i].verdict = "ALLOW" /\ tr[i].auth = e.auth
  <2>1. Earlier(tn, n, "DECISION", tn[n].req) = {i \in Of(tr, "DECISION") : tr[i].req = e.req}
    BY <1>1, <1>2, Zenon DEF Earlier, Of
  <2>2. \A i \in Of(tr, "DECISION") : tn[i] = tr[i]
    BY <1>1, Zenon DEF Of
  <2>3. Authorizes(tn, n) <=> \E i \in Earlier(tn, n, "DECISION", tn[n].req) :
                tn[i].verdict = "ALLOW" /\ tn[i].auth = tn[n].auth
    BY Zenon DEF Authorizes
  <2> QED
    BY <1>1, <2>1, <2>2, <2>3, Zenon
<1>6. Confirmed(tn, n) = {i \in ConfirmedAt(tr) : tr[i].req = e.req}
  BY <1>1, <1>2, Zenon DEF Confirmed, ConfirmedAt, Earlier, Of
<1> QED
  BY <1>3, <1>4, <1>5, <1>6, Zenon

-----------------------------------------------------------------------------
\* Events of other kinds leave what is kept of a kind as it is.
LEMMA RequestsStay ==
  ASSUME NEW tr, NEW e, NEW tn, Grows(tr, e, tn),
         NEW s, NEW sn, Kept(tr, s), e.kind # "REQUEST",
         sn.at = s.at
  PROVE  RequestsKept(tn, sn)
<1>1. Of(tn, "REQUEST") = Of(tr, "REQUEST") /\ \A i \in Of(tr, "REQUEST") : tn[i] = tr[i]
  BY KindsGrow, SMT
<1>2. RequestsKept(tr, s)
  BY Zenon DEF Kept
<1> QED
  BY <1>1, <1>2, SMT DEF RequestsKept

\* The traces of decisions, when an event of another kind is read,
LEMMA DecisionsStay ==
  ASSUME NEW tr, NEW e, NEW tn, Grows(tr, e, tn),
         NEW s, NEW sn, Kept(tr, s), e.kind # "DECISION",
         sn.decided = s.decided
  PROVE  DecisionsKept(tn, sn)
<1>1. Of(tn, "DECISION") = Of(tr, "DECISION") /\ \A i \in Of(tr, "DECISION") : tn[i] = tr[i]
  BY KindsGrow, SMT
<1>2. DecisionsKept(tr, s)
  BY Zenon DEF Kept
<1> QED
  BY <1>1, <1>2, Zenon DEF DecisionsKept

\* those of dispatches,
LEMMA DispatchesStay ==
  ASSUME NEW tr, NEW e, NEW tn, Grows(tr, e, tn),
         NEW s, NEW sn, Kept(tr, s), e.kind # "DISPATCH",
         SameDispatches(s, sn),
         \A r \in DOMAIN s.decided :
            r \in DOMAIN sn.decided /\ sn.decided[r] = s.decided[r]
  PROVE  DispatchesKept(tn, sn)
<1>1. Of(tn, "DISPATCH") = Of(tr, "DISPATCH") /\ \A i \in Of(tr, "DISPATCH") : tn[i] = tr[i]
  BY KindsGrow, SMT
<1>2. /\ {tn[i].req : i \in Of(tn, "DISPATCH")} = {tr[i].req : i \in Of(tr, "DISPATCH")}
      /\ {tn[i].auth : i \in Of(tn, "DISPATCH")} = {tr[i].auth : i \in Of(tr, "DISPATCH")}
  BY <1>1, Zenon
<1>3. DispatchesKept(tr, s)
  BY Zenon DEF Kept
<1>4. ASSUME NEW i \in Of(tn, "DISPATCH")
      PROVE  /\ tn[i].req \in DOMAIN sn.decided
             /\ sn.decided[tn[i].req].auth = tn[i].auth
             /\ sn.decided[tn[i].req].verdict = "ALLOW"
  <2>1. i \in Of(tr, "DISPATCH") /\ tn[i] = tr[i]
    BY <1>1, Zenon
  <2> QED
    BY <1>3, <2>1, ZenonT(40) DEF DispatchesKept
<1>5. \A i, j \in Of(tn, "DISPATCH") : tn[i].req = tn[j].req => i = j
  BY <1>1, <1>3, SMT DEF DispatchesKept
<1> QED
  BY <1>2, <1>3, <1>4, <1>5, Zenon DEF DispatchesKept, SameDispatches

\* and those of results and cancellations.
LEMMA EndsStay ==
  ASSUME NEW tr, NEW e, NEW tn, Grows(tr, e, tn),
         NEW s, NEW sn, Kept(tr, s), e.kind \notin {"RESULT", "CANCELLATION"},
         SameEnds(s, sn)
  PROVE  EndsKept(tn, sn)
<1>1. Of(tn, "RESULT") = Of(tr, "RESULT") /\ \A i \in Of(tr, "RESULT") : tn[i] = tr[i]
  BY KindsGrow, SMT
<1>2. /\ Of(tn, "CANCELLATION") = Of(tr, "CANCELLATION")
      /\ \A i \in Of(tr, "CANCELLATION") : tn[i] = tr[i]
  BY KindsGrow, SMT
<1>3. {tn[i].req : i \in Of(tn, "RESULT")} = {tr[i].req : i \in Of(tr, "RESULT")}
  BY <1>1, Zenon
<1>4. {tn[i].req : i \in ConfirmedAt(tn)} = {tr[i].req : i \in ConfirmedAt(tr)}
  BY <1>2, Zenon DEF ConfirmedAt
<1> QED
  BY <1>3, <1>4, Zenon DEF Kept, EndsKept, SameEnds

\* A violation, an overload summary or a KILL decision raises the barrier.
LEMMA BarrierGrows ==
  ASSUME NEW tr, NEW e, NEW tn, Grows(tr, e, tn)
  PROVE  Barrier(tn, Len(tn) + 1) <=>
            \/ Barrier(tr, Len(tr) + 1)
            \/ e.kind \in {"VIOLATION", "OVERLOAD_SUMMARY"}
            \/ e.kind = "DECISION" /\ e.verdict = "KILL"
<1>1. /\ Len(tr) \in Nat /\ Len(tn) = Len(tr) + 1
      /\ tn[Len(tr) + 1] = e
      /\ \A i \in 1..Len(tr) : tn[i] = tr[i]
  BY Zenon DEF Grows
<1>2. /\ 1..(Len(tn) + 1 - 1) = 1..Len(tr) \cup {Len(tr) + 1}
      /\ 1..(Len(tr) + 1 - 1) = 1..Len(tr)
  BY <1>1, SMT
<1> QED
  BY <1>1, <1>2, SMT DEF Barrier

\* The acknowledgement, when an event of another kind is read.
LEMMA AckStays ==
  ASSUME NEW tr, NEW e, NEW tn, Grows(tr, e, tn),
         NEW s, NEW sn, Kept(tr, s), e.kind # "KILL_ACKNOWLEDGED",
         sn.ack = s.ack
  PROVE  AckKept(tn, sn)
<1>1. Of(tn, "KILL_ACKNOWLEDGED") = Of(tr, "KILL_ACKNOWLEDGED")
  BY KindsGrow, SMT
<1> QED
  BY <1>1, Zenon DEF Kept, AckKept

\* So are those of the decisions.
LEMMA DecisionsGrow ==
  ASSUME NEW tr, NEW e, NEW tn, Grows(tr, e, tn), NEW v
  PROVE  /\ Cardinality(Decisions(tr, v)) \in Nat
         /\ ~(e.kind = "DECISION" /\ e.verdict = v) =>
                Cardinality(Decisions(tn, v)) = Cardinality(Decisions(tr, v))
         /\ e.kind = "DECISION" /\ e.verdict = v =>
                Cardinality(Decisions(tn, v)) = Cardinality(Decisions(tr, v)) + 1
<1> DEFINE n == Len(tr) + 1
<1>1. /\ Of(tr, "DECISION") \subseteq 1..Len(tr) /\ n \notin Of(tr, "DECISION")
      /\ \A i \in Of(tr, "DECISION") : tn[i] = tr[i]
      /\ e.kind # "DECISION" => Of(tn, "DECISION") = Of(tr, "DECISION")
      /\ e.kind = "DECISION" => Of(tn, "DECISION") = Of(tr, "DECISION") \cup {n}
  BY KindsGrow, SMT
<1>0. Len(tr) \in Nat /\ tn[n] = e
  BY Zenon DEF Grows
<1> HIDE DEF n
<1>2. IsFiniteSet(Decisions(tr, v))
  <2>1. IsFiniteSet(1..Len(tr))
    BY <1>0, FS_Interval, SMT
  <2>2. Decisions(tr, v) \subseteq 1..Len(tr)
    BY <1>1, Zenon DEF Decisions
  <2> QED
    BY <2>1, <2>2, FS_Subset, Zenon
<1>3. Cardinality(Decisions(tr, v)) \in Nat
  BY <1>2, FS_CardinalityType, Zenon
<1>4. CASE e.kind # "DECISION"
  <2>1. Decisions(tn, v) = Decisions(tr, v)
    BY <1>1, <1>4, Zenon DEF Decisions
  <2> QED
    BY <1>3, <1>4, <2>1, Zenon
<1>5. CASE e.kind = "DECISION" /\ e.verdict # v
  <2>1. Decisions(tn, v) = Decisions(tr, v)
    BY <1>0, <1>1, <1>5, Zenon DEF Decisions
  <2> QED
    BY <1>3, <1>5, <2>1, Zenon
<1>6. CASE e.kind = "DECISION" /\ e.verdict = v
  <2>1. Decisions(tn, v) = Decisions(tr, v) \cup {n} /\ n \notin Decisions(tr, v)
    BY <1>0, <1>1, <1>6, Zenon DEF Decisions
  <2>2. Cardinality(Decisions(tr, v) \cup {n}) = Cardinality(Decisions(tr, v)) + 1
    BY <1>2, <2>1, FS_AddElement, Zenon
  <2> QED
    BY <1>3, <1>6, <2>1, <2>2, Zenon
<1> QED
  BY <1>4, <1>5, <1>6, Zenon

\* The counters follow the file.
LEMMA CountsGrow ==
  ASSUME NEW tr, NEW e, NEW tn, Grows(tr, e, tn), NEW s, NEW sn, Kept(tr, s),
         sn.count = s.count + 1,
         e.kind # "DECISION" => SameVerdicts(s, sn),
         e.kind = "DECISION" =>
            \/ e.verdict = "ALLOW" /\ sn.allowed = s.allowed + 1 /\ sn.denied = s.denied
            \/ e.verdict = "KILL" /\ sn.allowed = s.allowed /\ sn.denied = s.denied + 1,
         sn.dispatches = IF e.kind = "DISPATCH" THEN s.dispatches + 1 ELSE s.dispatches,
         sn.results = IF e.kind = "RESULT" THEN s.results + 1 ELSE s.results,
         sn.acks = IF e.kind = "KILL_ACKNOWLEDGED" THEN s.acks + 1 ELSE s.acks
  PROVE  CountsKept(tn, sn)
<1>0. CountsKept(tr, s)
  BY Zenon DEF Kept
<1>1. sn.count = Len(tn)
  BY <1>0, Zenon DEF Grows, CountsKept
<1>2. /\ sn.allowed = Cardinality(Decisions(tn, "ALLOW"))
      /\ sn.denied = Cardinality(Decisions(tn, "KILL"))
  <2>1. /\ s.allowed = Cardinality(Decisions(tr, "ALLOW"))
        /\ s.denied = Cardinality(Decisions(tr, "KILL"))
    BY <1>0, Zenon DEF CountsKept
  <2>2. CASE e.kind # "DECISION"
    BY <2>1, <2>2, DecisionsGrow, SMT DEF SameVerdicts
  <2>3. CASE e.kind = "DECISION" /\ e.verdict = "ALLOW"
    BY <2>1, <2>3, DecisionsGrow, SMT
  <2>4. CASE e.kind = "DECISION" /\ e.verdict = "KILL"
    BY <2>1, <2>4, DecisionsGrow, SMT
  <2> QED
    BY <2>2, <2>3, <2>4, Zenon
<1>3. sn.dispatches = Number(tn, "DISPATCH")
  BY <1>0, NumbersGrow, SMT DEF CountsKept
<1>4. sn.results = Number(tn, "RESULT")
  BY <1>0, NumbersGrow, SMT DEF CountsKept
<1>5. sn.acks = Number(tn, "KILL_ACKNOWLEDGED")
  BY <1>0, NumbersGrow, SMT DEF CountsKept
<1> QED
  BY <1>1, <1>2, <1>3, <1>4, <1>5, Zenon DEF CountsKept

-----------------------------------------------------------------------------
\* Whether the event just read fits, in terms of the events before it.
AuthorizedIn(tr, e) ==
    \E i \in Of(tr, "DECISION") :
        tr[i].req = e.req /\ tr[i].verdict = "ALLOW" /\ tr[i].auth = e.auth

About(tr, k, e) == {i \in Of(tr, k) : tr[i].req = e.req}

\* The decision on its request has not expired.
InTimeFor(tr, e) == \A i \in About(tr, "DECISION", e) : ~(e.ns > tr[i].expiry)

\* What fitting means for an event of each kind that has just been read.
LEMMA FitsByKind ==
  ASSUME NEW tr, NEW e, NEW tn, Grows(tr, e, tn), NEW a, NEW n, n = Len(tr) + 1
  PROVE  /\ e.kind = "REQUEST" => (Fits(tn, a, n) <=> About(tr, "REQUEST", e) = {})
         /\ e.kind = "DECISION" =>
              (Fits(tn, a, n) <=> About(tr, "REQUEST", e) = {e.ref} /\ About(tr, "DECISION", e) = {})
         /\ e.kind = "DISPATCH" =>
              (Fits(tn, a, n) <=> /\ ~Barrier(tr, n) /\ AuthorizedIn(tr, e) /\ InTimeFor(tr, e)
                            /\ \A i \in Of(tr, "DISPATCH") : tr[i].auth # e.auth)
         /\ e.kind = "RESULT" =>
              (Fits(tn, a, n) <=> /\ AuthorizedIn(tr, e) /\ About(tr, "DISPATCH", e) # {}
                            /\ About(tr, "RESULT", e) = {})
         /\ e.kind = "CANCELLATION" =>
              (Fits(tn, a, n) <=> /\ AuthorizedIn(tr, e) /\ About(tr, "DISPATCH", e) # {}
                            /\ About(tr, "RESULT", e) = {}
                            /\ {i \in ConfirmedAt(tr) : tr[i].req = e.req} = {})
         /\ e.kind \in {"VIOLATION", "OVERLOAD_SUMMARY"} => Fits(tn, a, n)
         /\ e.kind = "KILL_ACKNOWLEDGED" =>
              (Fits(tn, a, n) <=> /\ e.ack = a /\ e.ack.trigger < n
                            /\ Of(tr, "KILL_ACKNOWLEDGED") = {})
<1>1. /\ Len(tr) \in Nat /\ tn[n] = e
      /\ \A i \in 1..Len(tr) : tn[i] = tr[i]
  BY Zenon DEF Grows
<1>2. 1..(n - 1) = 1..Len(tr)
  BY <1>1, SMT
<1>3. /\ Earlier(tn, n, "REQUEST", tn[n].req) = About(tr, "REQUEST", e)
      /\ Earlier(tn, n, "DECISION", tn[n].req) = About(tr, "DECISION", e)
      /\ Earlier(tn, n, "DISPATCH", tn[n].req) = About(tr, "DISPATCH", e)
      /\ Earlier(tn, n, "RESULT", tn[n].req) = About(tr, "RESULT", e)
  BY <1>1, <1>2, Zenon DEF Earlier, Of, About
<1>4. /\ Barrier(tn, n) <=> Barrier(tr, n)
      /\ Authorizes(tn, n) <=> AuthorizedIn(tr, e)
      /\ Confirmed(tn, n) = {i \in ConfirmedAt(tr) : tr[i].req = e.req}
  BY Before, SMT DEF AuthorizedIn
<1>5. (\A i \in 1..(n - 1) : tn[i].kind = "DISPATCH" => tn[i].auth # e.auth)
        <=> \A i \in Of(tr, "DISPATCH") : tr[i].auth # e.auth
  BY <1>1, <1>2, Zenon DEF Of
<1>6. (\A i \in 1..(n - 1) : tn[i].kind # "KILL_ACKNOWLEDGED")
        <=> Of(tr, "KILL_ACKNOWLEDGED") = {}
  BY <1>1, <1>2, Zenon DEF Of
<1>14. InTime(tn, n) <=> InTimeFor(tr, e)
  <2>1. \A i \in About(tr, "DECISION", e) : tn[i] = tr[i]
    BY <1>1, Zenon DEF About, Of
  <2> QED
    BY <1>1, <1>3, <2>1, Zenon DEF InTime, InTimeFor
<1>7. CASE e.kind = "REQUEST"
  BY <1>1, <1>3, <1>7, Zenon DEF Fits
<1>8. CASE e.kind = "DECISION"
  BY <1>1, <1>3, <1>8, Zenon DEF Fits
<1>9. CASE e.kind = "DISPATCH"
  BY <1>1, <1>4, <1>5, <1>9, <1>14, Zenon DEF Fits
<1>10. CASE e.kind = "RESULT"
  BY <1>1, <1>3, <1>4, <1>10, Zenon DEF Fits
<1>11. CASE e.kind = "CANCELLATION"
  BY <1>1, <1>3, <1>4, <1>11, Zenon DEF Fits
<1>12. CASE e.kind \in {"VIOLATION", "OVERLOAD_SUMMARY"}
  BY <1>1, <1>12, Zenon DEF Fits
<1>13. CASE e.kind = "KILL_ACKNOWLEDGED"
  BY <1>1, <1>6, <1>13, Zenon DEF Fits
<1> QED
  BY <1>7, <1>8, <1>9, <1>10, <1>11, <1>12, <1>13, Zenon

\* The decision on a request is the one that is kept.
LEMMA Authorized ==
  ASSUME NEW tr, NEW s, DecisionsKept(tr, s), NEW e
  PROVE  /\ AuthorizedIn(tr, e) <=> Bound(s, e) /\ s.decided[e.req].verdict = "ALLOW"
         /\ Bound(s, e) => (InTimeFor(tr, e) <=> ~(e.ns > s.decided[e.req].expiry))
<1>1. ASSUME e.req \in DOMAIN s.decided
      PROVE  \E i \in Of(tr, "DECISION") : tr[i].req = e.req /\ s.decided[e.req] = tr[i]
  BY <1>1, SMT DEF DecisionsKept
<1>2. AuthorizedIn(tr, e) => Bound(s, e) /\ s.decided[e.req].verdict = "ALLOW"
  BY Zenon DEF AuthorizedIn, Bound, DecisionsKept
<1>3. Bound(s, e) /\ s.decided[e.req].verdict = "ALLOW" => AuthorizedIn(tr, e)
  BY <1>1, Zenon DEF AuthorizedIn, Bound
<1>4. \A i \in About(tr, "DECISION", e) : tr[i] = s.decided[e.req]
  BY Zenon DEF About, DecisionsKept
<1>5. Bound(s, e) => \E i \in About(tr, "DECISION", e) : tr[i] = s.decided[e.req]
  BY <1>1, Zenon DEF Bound, About
<1>6. Bound(s, e) => (InTimeFor(tr, e) <=> ~(e.ns > s.decided[e.req].expiry))
  BY <1>4, <1>5, Zenon DEF InTimeFor
<1> QED
  BY <1>2, <1>3, <1>6, Zenon

\* The turn of the loop that reads e, and what it has to come to.
Reading(tr, s, e, a, tn, sn) == Grows(tr, e, tn) /\ sn = Inspect(s, e, a)

Judged(tn, sn, a, n) ==
    \/ Fits(tn, a, n) /\ sn.ok = TRUE /\ Kept(tn, sn)
    \/ ~Fits(tn, a, n) /\ sn.ok = FALSE

\* Inspect judges a REQUEST as Fits does, and remembers it (verify.py:69-82);
LEMMA RequestJudged ==
  ASSUME NEW tr, NEW e, NEW tn, NEW s, NEW sn, NEW a, Reading(tr, s, e, a, tn, sn),
         Kept(tr, s), s.ok = TRUE, e.kind = "REQUEST",
         NEW n, n = Len(tr) + 1
  PROVE  Judged(tn, sn, a, n)
<1>1. Grows(tr, e, tn) /\ RequestsKept(tr, s) /\ DOMAIN s = Fields /\ s.count + 1 = n
  BY Zenon DEF Kept, Reading, CountsKept
<1>2. About(tr, "REQUEST", e) = {} <=> ~RequestRejected(s, e)
  <2>1. ASSUME RequestRejected(s, e)
        PROVE  s.at[e.req] \in About(tr, "REQUEST", e)
    BY <1>1, <2>1, Zenon DEF RequestsKept, RequestRejected, About
  <2>2. \A i \in About(tr, "REQUEST", e) : RequestRejected(s, e)
    BY <1>1, Zenon DEF RequestsKept, RequestRejected, About
  <2> QED
    BY <2>1, <2>2, Zenon
<1>3. CASE RequestRejected(s, e)
  <2>1. sn.ok = FALSE
    BY <1>1, <1>3, RequestTurn, Zenon DEF Reading
  <2> QED
    BY <1>1, <1>2, <1>3, <2>1, FitsByKind, Zenon DEF Judged
<1>4. CASE ~RequestRejected(s, e)
  <2>1. /\ DOMAIN sn = Fields /\ sn.ok = TRUE /\ sn.count = n
        /\ sn.at = Put(s.at, e.req, n)
        /\ sn.decided = s.decided
        /\ SameVerdicts(s, sn) /\ SameDispatches(s, sn)
        /\ SameEnds(s, sn) /\ SameMarks(s, sn)
    BY <1>1, <1>4, RequestTurn, Zenon DEF Reading
  <2>2. RequestsKept(tn, sn)
    <3>0. tn[n] = e
      BY <1>1, Zenon DEF Grows
    <3>1. /\ Of(tn, "REQUEST") = Of(tr, "REQUEST") \cup {n} /\ n \notin Of(tr, "REQUEST")
          /\ tn[n] = e /\ \A i \in Of(tr, "REQUEST") : tn[i] = tr[i]
      BY <1>1, <3>0, KindsGrow, SMT
    <3>2. /\ DOMAIN sn.at = DOMAIN s.at \cup {e.req}
          /\ e.req \notin DOMAIN s.at /\ sn.at[e.req] = n
          /\ \A r \in DOMAIN s.at : sn.at[r] = s.at[r]
      BY <1>4, <2>1, Zenon DEF Put, RequestRejected
    <3>3. ASSUME NEW i \in Of(tn, "REQUEST")
          PROVE  tn[i].req \in DOMAIN sn.at /\ sn.at[tn[i].req] = i
      <4>1. CASE i = n
        BY <3>1, <3>2, <4>1, Zenon
      <4>2. CASE i \in Of(tr, "REQUEST")
        BY <1>1, <3>1, <3>2, <4>2, SMT DEF RequestsKept
      <4> QED
        BY <3>1, <4>1, <4>2, Zenon
    <3>4. ASSUME NEW r \in DOMAIN sn.at
          PROVE  sn.at[r] \in Of(tn, "REQUEST") /\ tn[sn.at[r]].req = r
      <4>1. CASE r = e.req
        BY <3>1, <3>2, <4>1, Zenon
      <4>2. CASE r \in DOMAIN s.at
        BY <1>1, <3>1, <3>2, <4>2, SMT DEF RequestsKept
      <4> QED
        BY <3>2, <4>1, <4>2, Zenon
    <3> QED
      BY <3>3, <3>4, Zenon DEF RequestsKept
  <2>3. DecisionsKept(tn, sn) /\ DispatchesKept(tn, sn) /\ EndsKept(tn, sn)
    BY <1>1, <2>1, DecisionsStay, DispatchesStay, EndsStay, Zenon
  <2>4. BarrierKept(tn, sn) /\ AckKept(tn, sn)
    BY <1>1, <2>1, BarrierGrows, AckStays, Zenon DEF Kept, BarrierKept, SameMarks
  <2>5. CountsKept(tn, sn)
    BY <1>1, <2>1, CountsGrow, Zenon DEF SameDispatches, SameEnds, SameMarks
  <2>6. Kept(tn, sn)
    BY <1>1, <2>1, <2>2, <2>3, <2>4, <2>5, Zenon DEF Grows, Kept
  <2> QED
    BY <1>1, <1>2, <1>4, <2>1, <2>6, FitsByKind, Zenon DEF Judged
<1> QED
  BY <1>3, <1>4, Zenon

\* a DECISION (verify.py:83-110);
LEMMA DecisionJudged ==
  ASSUME NEW tr, NEW e, NEW tn, NEW s, NEW sn, NEW a, Reading(tr, s, e, a, tn, sn),
         Kept(tr, s), s.ok = TRUE, e.kind = "DECISION",
         e.verdict \in {"ALLOW", "KILL"}, NEW n, n = Len(tr) + 1
  PROVE  Judged(tn, sn, a, n)
<1>1. /\ Grows(tr, e, tn) /\ DOMAIN s = Fields /\ s.count + 1 = n
      /\ RequestsKept(tr, s) /\ DecisionsKept(tr, s) /\ BarrierKept(tr, s)
  BY Zenon DEF Kept, Reading, CountsKept
<1>2. Fits(tn, a, n) <=> ~DecisionRejected(s, e)
  <2>1. About(tr, "REQUEST", e) = {e.ref} <=>
          e.req \in DOMAIN s.at /\ s.at[e.req] = e.ref
    <3>1. \A i \in About(tr, "REQUEST", e) :
            e.req \in DOMAIN s.at /\ s.at[e.req] = i
      BY <1>1, Zenon DEF RequestsKept, About
    <3>2. e.req \in DOMAIN s.at => s.at[e.req] \in About(tr, "REQUEST", e)
      BY <1>1, Zenon DEF RequestsKept, About
    <3> QED
      BY <3>1, <3>2, Zenon
  <2>2. About(tr, "DECISION", e) = {} <=> e.req \notin DOMAIN s.decided
    <3>1. \A i \in About(tr, "DECISION", e) : e.req \in DOMAIN s.decided
      BY <1>1, Zenon DEF DecisionsKept, About
    <3>2. e.req \in DOMAIN s.decided => \E i : i \in About(tr, "DECISION", e)
      BY <1>1, Zenon DEF DecisionsKept, About
    <3> QED
      BY <3>1, <3>2, Zenon
  <2> QED
    BY <1>1, <2>1, <2>2, FitsByKind, SMT DEF DecisionRejected
<1>3. CASE DecisionRejected(s, e)
  <2>1. sn.ok = FALSE
    BY <1>1, <1>3, DecisionTurn, Zenon DEF Reading
  <2> QED
    BY <1>2, <1>3, <2>1, Zenon DEF Judged
<1>4. CASE ~DecisionRejected(s, e)
  <2>1. /\ DOMAIN sn = Fields /\ sn.ok = TRUE /\ sn.count = n
        /\ sn.barrier = (s.barrier \/ e.verdict = "KILL")
        /\ sn.at = s.at /\ sn.ack = s.ack /\ sn.acks = s.acks
        /\ sn.decided = Put(s.decided, e.req, e)
        /\ sn.allowed = IF e.verdict = "ALLOW" THEN s.allowed + 1
                                                 ELSE s.allowed
        /\ sn.denied = IF e.verdict = "ALLOW" THEN s.denied
                                                ELSE s.denied + 1
        /\ SameDispatches(s, sn) /\ SameEnds(s, sn)
    BY <1>1, <1>4, DecisionTurn, Zenon DEF Reading
  <2>2. /\ DOMAIN sn.decided = DOMAIN s.decided \cup {e.req}
        /\ e.req \notin DOMAIN s.decided /\ sn.decided[e.req] = e
        /\ \A r \in DOMAIN s.decided : sn.decided[r] = s.decided[r]
    BY <1>4, <2>1, Zenon DEF Put, DecisionRejected
  <2>3. DecisionsKept(tn, sn)
    <3>0. tn[n] = e
      BY <1>1, Zenon DEF Grows
    <3>1. /\ Of(tn, "DECISION") = Of(tr, "DECISION") \cup {n}
          /\ tn[n] = e /\ \A i \in Of(tr, "DECISION") : tn[i] = tr[i]
      BY <1>1, <3>0, KindsGrow, SMT
    <3>2. ASSUME NEW i \in Of(tn, "DECISION")
          PROVE  /\ tn[i].req \in DOMAIN sn.decided
                 /\ sn.decided[tn[i].req] = tn[i]
      <4>1. CASE i = n
        BY <2>2, <3>1, <4>1, Zenon
      <4>2. CASE i \in Of(tr, "DECISION")
        BY <1>1, <2>2, <3>1, <4>2, SMT DEF DecisionsKept
      <4> QED
        BY <3>1, <4>1, <4>2, Zenon
    <3>3. ASSUME NEW r \in DOMAIN sn.decided
          PROVE  \E i \in Of(tn, "DECISION") : tn[i].req = r
      <4>1. CASE r = e.req
        BY <3>1, <4>1, Zenon
      <4>2. CASE r \in DOMAIN s.decided
        <5>1. PICK i \in Of(tr, "DECISION") : tr[i].req = r
          BY <1>1, <4>2, Zenon DEF DecisionsKept
        <5> QED
          BY <3>1, <5>1, Zenon
      <4> QED
        BY <2>2, <4>1, <4>2, Zenon
    <3> QED
      BY <3>2, <3>3, Zenon DEF DecisionsKept
  <2>4. RequestsKept(tn, sn) /\ DispatchesKept(tn, sn) /\ EndsKept(tn, sn)
    BY <1>1, <2>1, <2>2, RequestsStay, DispatchesStay, EndsStay, Zenon
  <2>5. BarrierKept(tn, sn)
    BY <1>1, <2>1, BarrierGrows, Zenon DEF BarrierKept
  <2>6. AckKept(tn, sn)
    BY <1>1, <2>1, AckStays, Zenon
  <2>7. CountsKept(tn, sn)
    BY <1>1, <2>1, CountsGrow, Zenon DEF SameDispatches, SameEnds, SameMarks
  <2>9. Kept(tn, sn)
    BY <1>1, <2>1, <2>3, <2>4, <2>5, <2>6, <2>7, Zenon DEF Grows, Kept
  <2> QED
    BY <1>2, <1>4, <2>1, <2>9, Zenon DEF Judged
<1> QED
  BY <1>3, <1>4, Zenon

\* What the events of a kind name, when one more of them is read.
LEMMA NamesGrow ==
  ASSUME NEW tr, NEW tn, NEW P, NEW Q, NEW n, NEW e, Q = P \cup {n},
         tn[n] = e, \A i \in P : tn[i] = tr[i]
  PROVE  {tn[i].req : i \in Q} = {tr[i].req : i \in P} \cup {e.req}
  BY Zenon

\* The same for the authorizations.
LEMMA AuthsGrow ==
  ASSUME NEW tr, NEW tn, NEW P, NEW Q, NEW n, NEW e, Q = P \cup {n},
         tn[n] = e, \A i \in P : tn[i] = tr[i]
  PROVE  {tn[i].auth : i \in Q} = {tr[i].auth : i \in P} \cup {e.auth}
  BY Zenon

\* a DISPATCH (verify.py:111-139);
LEMMA DispatchJudged ==
  ASSUME NEW tr, NEW e, NEW tn, NEW s, NEW sn, NEW a, Reading(tr, s, e, a, tn, sn),
         Kept(tr, s), s.ok = TRUE, e.kind = "DISPATCH", NEW n, n = Len(tr) + 1
  PROVE  Judged(tn, sn, a, n)
<1>1. /\ Grows(tr, e, tn) /\ DOMAIN s = Fields /\ s.count + 1 = n
      /\ DecisionsKept(tr, s) /\ DispatchesKept(tr, s) /\ BarrierKept(tr, s)
  BY Zenon DEF Kept, Reading, CountsKept
<1>2. Fits(tn, a, n) <=> ~DispatchRejected(s, e)
  <2>1. s.barrier <=> Barrier(tr, n)
    BY <1>1, Zenon DEF BarrierKept
  <2>2. AuthorizedIn(tr, e) <=> Bound(s, e) /\ s.decided[e.req].verdict = "ALLOW"
    BY <1>1, Authorized, Zenon
  <2>3. Bound(s, e) => (InTimeFor(tr, e) <=> ~(e.ns > s.decided[e.req].expiry))
    BY <1>1, Authorized, Zenon
  <2>4. (\A i \in Of(tr, "DISPATCH") : tr[i].auth # e.auth) <=> e.auth \notin s.auths
    BY <1>1, Zenon DEF DispatchesKept
  <2>5. Bound(s, e) /\ e.req \in s.dispatched => e.auth \in s.auths
    <3>1. ASSUME Bound(s, e), NEW i \in Of(tr, "DISPATCH"), tr[i].req = e.req
          PROVE  tr[i].auth = e.auth
      BY <1>1, <3>1, Zenon DEF DispatchesKept, Bound
    <3> QED
      BY <1>1, <3>1, Zenon DEF DispatchesKept
  <2> QED
    BY <1>1, <2>1, <2>2, <2>3, <2>4, <2>5, FitsByKind, Zenon DEF DispatchRejected
<1>3. CASE DispatchRejected(s, e)
  <2>1. sn.ok = FALSE
    BY <1>1, <1>3, DispatchTurn, Zenon DEF Reading
  <2> QED
    BY <1>2, <1>3, <2>1, Zenon DEF Judged
<1>4. CASE ~DispatchRejected(s, e)
  <2>1. /\ DOMAIN sn = Fields /\ sn.ok = TRUE /\ sn.count = n
        /\ sn.dispatched = s.dispatched \cup {e.req}
        /\ sn.auths = s.auths \cup {e.auth}
        /\ sn.dispatches = s.dispatches + 1
        /\ SameTraces(s, sn) /\ SameVerdicts(s, sn)
        /\ SameEnds(s, sn) /\ SameMarks(s, sn)
    BY <1>1, <1>4, DispatchTurn, Zenon DEF Reading
  <2>2. DispatchesKept(tn, sn)
    <3>0. tn[n] = e
      BY <1>1, Zenon DEF Grows
    <3>1. /\ Of(tn, "DISPATCH") = Of(tr, "DISPATCH") \cup {n}
          /\ tn[n] = e /\ \A i \in Of(tr, "DISPATCH") : tn[i] = tr[i]
      BY <1>1, <3>0, KindsGrow, SMT
    <3>2. {tn[i].req : i \in Of(tn, "DISPATCH")} =
            {tr[i].req : i \in Of(tr, "DISPATCH")} \cup {e.req}
      BY <3>1, NamesGrow, SMT
    <3>5. {tn[i].auth : i \in Of(tn, "DISPATCH")} =
            {tr[i].auth : i \in Of(tr, "DISPATCH")} \cup {e.auth}
      BY <3>1, AuthsGrow, SMT
    <3>3. ASSUME NEW i \in Of(tn, "DISPATCH")
          PROVE  /\ tn[i].req \in DOMAIN s.decided
                 /\ s.decided[tn[i].req].auth = tn[i].auth
                 /\ s.decided[tn[i].req].verdict = "ALLOW"
      <4>1. CASE i = n
        BY <1>4, <3>1, <4>1, Zenon DEF DispatchRejected, Bound
      <4>2. CASE i \in Of(tr, "DISPATCH")
        BY <1>1, <3>1, <4>2, Zenon DEF DispatchesKept
      <4> QED
        BY <3>1, <4>1, <4>2, Zenon
    <3>4. ASSUME NEW i \in Of(tn, "DISPATCH"), NEW j \in Of(tn, "DISPATCH"),
                 tn[i].req = tn[j].req
          PROVE  i = j
      <4>1. \A m \in Of(tr, "DISPATCH") : tr[m].req # e.req
        BY <1>1, <1>4, Zenon DEF DispatchesKept, DispatchRejected
      <4>2. CASE i \in Of(tr, "DISPATCH") /\ j \in Of(tr, "DISPATCH")
        BY <1>1, <3>1, <3>4, <4>2, Zenon DEF DispatchesKept
      <4> QED
        BY <3>1, <3>4, <4>1, <4>2, Zenon
    <3>6. /\ sn.dispatched = {tn[i].req : i \in Of(tn, "DISPATCH")}
          /\ sn.auths = {tn[i].auth : i \in Of(tn, "DISPATCH")}
      BY <1>1, <2>1, <3>2, <3>5, Zenon DEF DispatchesKept
    <3>7. sn.decided = s.decided
      BY <2>1, Zenon DEF SameTraces
    <3> QED
      BY <3>3, <3>4, <3>6, <3>7, Zenon DEF DispatchesKept
  <2>3. RequestsKept(tn, sn) /\ DecisionsKept(tn, sn) /\ EndsKept(tn, sn)
    BY <1>1, <2>1, RequestsStay, DecisionsStay, EndsStay, Zenon DEF SameTraces
  <2>4. BarrierKept(tn, sn)
    BY <1>1, <2>1, BarrierGrows, Zenon DEF BarrierKept, SameMarks
  <2>5. AckKept(tn, sn)
    BY <1>1, <2>1, AckStays, Zenon DEF SameMarks
  <2>6. CountsKept(tn, sn)
    BY <1>1, <2>1, CountsGrow, Zenon DEF SameEnds, SameMarks
  <2>9. Kept(tn, sn)
    BY <1>1, <2>1, <2>2, <2>3, <2>4, <2>5, <2>6, Zenon DEF Grows, Kept
  <2> QED
    BY <1>2, <1>4, <2>1, <2>9, Zenon DEF Judged
<1> QED
  BY <1>3, <1>4, Zenon

\* a RESULT (verify.py:140-158);
LEMMA ResultJudged ==
  ASSUME NEW tr, NEW e, NEW tn, NEW s, NEW sn, NEW a, Reading(tr, s, e, a, tn, sn),
         Kept(tr, s), s.ok = TRUE, e.kind = "RESULT",
         NEW n, n = Len(tr) + 1
  PROVE  Judged(tn, sn, a, n)
<1>1. /\ Grows(tr, e, tn) /\ DOMAIN s = Fields /\ s.count + 1 = n
      /\ DecisionsKept(tr, s) /\ DispatchesKept(tr, s) /\ EndsKept(tr, s) /\ BarrierKept(tr, s)
  BY Zenon DEF Kept, Reading, CountsKept
<1>2. Fits(tn, a, n) <=> ~ResultRejected(s, e)
  <2>1. AuthorizedIn(tr, e) <=> Bound(s, e) /\ s.decided[e.req].verdict = "ALLOW"
    BY <1>1, Authorized, Zenon
  <2>2. About(tr, "DISPATCH", e) # {} <=> e.req \in s.dispatched
    BY <1>1, Zenon DEF DispatchesKept, About
  <2>3. e.req \in s.dispatched => s.decided[e.req].verdict = "ALLOW"
    BY <1>1, Zenon DEF DispatchesKept
  <2>4. About(tr, "RESULT", e) = {} <=> e.req \notin s.completed
    BY <1>1, Zenon DEF EndsKept, About
  <2> QED
    BY <1>1, <2>1, <2>2, <2>3, <2>4, FitsByKind, SMT DEF ResultRejected
<1>3. CASE ResultRejected(s, e)
  <2>1. sn.ok = FALSE
    BY <1>1, <1>3, ResultTurn, Zenon DEF Reading
  <2> QED
    BY <1>2, <1>3, <2>1, Zenon DEF Judged
<1>4. CASE ~ResultRejected(s, e)
  <2>1. /\ DOMAIN sn = Fields /\ sn.ok = TRUE /\ sn.count = n
        /\ sn.completed = s.completed \cup {e.req}
        /\ sn.confirmed = s.confirmed
        /\ sn.results = s.results + 1
        /\ SameTraces(s, sn) /\ SameVerdicts(s, sn)
        /\ SameDispatches(s, sn) /\ SameMarks(s, sn)
    BY <1>1, <1>4, ResultTurn, Zenon DEF Reading
  <2>2. EndsKept(tn, sn)
    <3>0. tn[n] = e
      BY <1>1, Zenon DEF Grows
    <3>1. /\ Of(tn, "RESULT") = Of(tr, "RESULT") \cup {n}
          /\ tn[n] = e /\ \A i \in Of(tr, "RESULT") : tn[i] = tr[i]
      BY <1>1, <3>0, KindsGrow, SMT
    <3>2. {tn[i].req : i \in Of(tn, "RESULT")} = {tr[i].req : i \in Of(tr, "RESULT")} \cup {e.req}
      BY <3>1, NamesGrow, SMT
    <3>3. /\ Of(tn, "CANCELLATION") = Of(tr, "CANCELLATION")
          /\ \A i \in Of(tr, "CANCELLATION") : tn[i] = tr[i]
      BY <1>1, KindsGrow, SMT
    <3>4. {tn[i].req : i \in ConfirmedAt(tn)} = {tr[i].req : i \in ConfirmedAt(tr)}
      BY <3>3, Zenon DEF ConfirmedAt
    <3> QED
      BY <1>1, <2>1, <3>2, <3>4, Zenon DEF EndsKept
  <2>3. RequestsKept(tn, sn) /\ DecisionsKept(tn, sn) /\ DispatchesKept(tn, sn)
    BY <1>1, <2>1, RequestsStay, DecisionsStay, DispatchesStay, Zenon DEF SameTraces
  <2>4. BarrierKept(tn, sn)
    BY <1>1, <2>1, BarrierGrows, Zenon DEF BarrierKept, SameMarks
  <2>5. AckKept(tn, sn)
    BY <1>1, <2>1, AckStays, Zenon DEF SameMarks
  <2>6. CountsKept(tn, sn)
    BY <1>1, <2>1, CountsGrow, Zenon DEF SameDispatches, SameMarks
  <2>9. Kept(tn, sn)
    BY <1>1, <2>1, <2>2, <2>3, <2>4, <2>5, <2>6, Zenon DEF Grows, Kept
  <2> QED
    BY <1>2, <1>4, <2>1, <2>9, Zenon DEF Judged
<1> QED
  BY <1>3, <1>4, Zenon

\* a CANCELLATION (verify.py:159-176);
LEMMA CancellationJudged ==
  ASSUME NEW tr, NEW e, NEW tn, NEW s, NEW sn, NEW a, Reading(tr, s, e, a, tn, sn),
         Kept(tr, s), s.ok = TRUE, e.kind = "CANCELLATION",
         e.confirmed \in BOOLEAN, NEW n, n = Len(tr) + 1
  PROVE  Judged(tn, sn, a, n)
<1>1. /\ Grows(tr, e, tn) /\ DOMAIN s = Fields /\ s.count + 1 = n
      /\ DecisionsKept(tr, s) /\ DispatchesKept(tr, s) /\ EndsKept(tr, s) /\ BarrierKept(tr, s)
  BY Zenon DEF Kept, Reading, CountsKept
<1>2. Fits(tn, a, n) <=> ~CancellationRejected(s, e)
  <2>1. AuthorizedIn(tr, e) <=> Bound(s, e) /\ s.decided[e.req].verdict = "ALLOW"
    BY <1>1, Authorized, Zenon
  <2>2. About(tr, "DISPATCH", e) # {} <=> e.req \in s.dispatched
    BY <1>1, Zenon DEF DispatchesKept, About
  <2>3. e.req \in s.dispatched => s.decided[e.req].verdict = "ALLOW"
    BY <1>1, Zenon DEF DispatchesKept
  <2>4. About(tr, "RESULT", e) = {} <=> e.req \notin s.completed
    BY <1>1, Zenon DEF EndsKept, About
  <2>5. {i \in ConfirmedAt(tr) : tr[i].req = e.req} = {} <=> e.req \notin s.confirmed
    BY <1>1, Zenon DEF EndsKept
  <2> QED
    BY <1>1, <2>1, <2>2, <2>3, <2>4, <2>5, FitsByKind, ZenonT(40) DEF CancellationRejected
<1>3. CASE CancellationRejected(s, e)
  <2>1. sn.ok = FALSE
    BY <1>1, <1>3, CancellationTurn, Zenon DEF Reading
  <2> QED
    BY <1>2, <1>3, <2>1, Zenon DEF Judged
<1>4. CASE ~CancellationRejected(s, e)
  <2>1. /\ DOMAIN sn = Fields /\ sn.ok = TRUE /\ sn.count = n
        /\ sn.completed = s.completed /\ sn.results = s.results
        /\ sn.confirmed = IF e.confirmed THEN s.confirmed \cup {e.req}
                                              ELSE s.confirmed
        /\ SameTraces(s, sn) /\ SameVerdicts(s, sn)
        /\ SameDispatches(s, sn) /\ SameMarks(s, sn)
    BY <1>1, <1>4, CancellationTurn, Zenon DEF Reading
  <2>2. EndsKept(tn, sn)
    <3>0. tn[n] = e
      BY <1>1, Zenon DEF Grows
    <3>1. /\ Of(tn, "CANCELLATION") = Of(tr, "CANCELLATION") \cup {n}
          /\ tn[n] = e /\ \A i \in Of(tr, "CANCELLATION") : tn[i] = tr[i]
      BY <1>1, <3>0, KindsGrow, SMT
    <3>3. \A i \in ConfirmedAt(tr) : tn[i] = tr[i]
      BY <3>1, Zenon DEF ConfirmedAt
    <3>4. s.confirmed = {tr[i].req : i \in ConfirmedAt(tr)}
      BY <1>1, Zenon DEF EndsKept
    <3>9. sn.confirmed = {tn[i].req : i \in ConfirmedAt(tn)}
      <4>7. CASE e.confirmed
        <5>1. ConfirmedAt(tn) = ConfirmedAt(tr) \cup {n}
          BY <3>1, <4>7, Zenon DEF ConfirmedAt
        <5>2. {tn[i].req : i \in ConfirmedAt(tn)} = {tr[i].req : i \in ConfirmedAt(tr)} \cup {e.req}
          BY <3>1, <3>3, <5>1, NamesGrow, SMT
        <5> QED
          BY <2>1, <3>4, <4>7, <5>2, Zenon
      <4>8. CASE ~e.confirmed
        <5>1. ConfirmedAt(tn) = ConfirmedAt(tr)
          BY <3>1, <4>8, Zenon DEF ConfirmedAt
        <5>2. {tn[i].req : i \in ConfirmedAt(tn)} = {tr[i].req : i \in ConfirmedAt(tr)}
          BY <3>3, <5>1, Zenon
        <5> QED
          BY <2>1, <3>4, <4>8, <5>2, Zenon
      <4> QED
        BY <4>7, <4>8, Zenon
    <3>5. /\ Of(tn, "RESULT") = Of(tr, "RESULT")
          /\ \A i \in Of(tr, "RESULT") : tn[i] = tr[i]
      BY <1>1, KindsGrow, SMT
    <3>6. {tn[i].req : i \in Of(tn, "RESULT")} = {tr[i].req : i \in Of(tr, "RESULT")}
      BY <3>5, Zenon
    <3> QED
      BY <1>1, <2>1, <3>6, <3>9, Zenon DEF EndsKept
  <2>3. RequestsKept(tn, sn) /\ DecisionsKept(tn, sn) /\ DispatchesKept(tn, sn)
    BY <1>1, <2>1, RequestsStay, DecisionsStay, DispatchesStay, Zenon DEF SameTraces
  <2>4. BarrierKept(tn, sn)
    BY <1>1, <2>1, BarrierGrows, Zenon DEF BarrierKept, SameMarks
  <2>5. AckKept(tn, sn)
    BY <1>1, <2>1, AckStays, Zenon DEF SameMarks
  <2>6. CountsKept(tn, sn)
    BY <1>1, <2>1, CountsGrow, Zenon DEF SameDispatches, SameMarks
  <2>9. Kept(tn, sn)
    BY <1>1, <2>1, <2>2, <2>3, <2>4, <2>5, <2>6, Zenon DEF Grows, Kept
  <2> QED
    BY <1>2, <1>4, <2>1, <2>9, Zenon DEF Judged
<1> QED
  BY <1>3, <1>4, Zenon

\* a VIOLATION or an OVERLOAD_SUMMARY (verify.py:177-186);
LEMMA TriggerJudged ==
  ASSUME NEW tr, NEW e, NEW tn, NEW s, NEW sn, NEW a, Reading(tr, s, e, a, tn, sn),
         Kept(tr, s), s.ok = TRUE, Triggers(e),
         NEW n, n = Len(tr) + 1
  PROVE  Judged(tn, sn, a, n)
<1>1. /\ Grows(tr, e, tn) /\ DOMAIN s = Fields /\ s.count + 1 = n
      /\ BarrierKept(tr, s)
  BY Zenon DEF Kept, Reading, CountsKept
<1>2. Fits(tn, a, n)
  BY <1>1, FitsByKind, Zenon DEF Triggers
<1>3. e.kind \notin {"REQUEST", "DECISION", "DISPATCH", "RESULT", "CANCELLATION",
                    "KILL_ACKNOWLEDGED"}
  BY Zenon DEF Triggers
<1>4. Judged(tn, sn, a, n)
  <2>1. /\ DOMAIN sn = Fields /\ sn.ok = TRUE /\ sn.count = n
        /\ sn.barrier = TRUE /\ sn.ack = s.ack /\ sn.acks = s.acks
        /\ SameTraces(s, sn) /\ SameVerdicts(s, sn)
        /\ SameDispatches(s, sn) /\ SameEnds(s, sn)
    <3>1. sn = Inspect(s, e, a)
      BY Zenon DEF Reading
    <3>2. Triggered(s, sn)
      BY <1>1, <3>1, TriggerTurn, Zenon
    <3> QED
      BY <1>1, <3>2, Zenon DEF Triggered
  <2>2. RequestsKept(tn, sn) /\ DecisionsKept(tn, sn) /\ DispatchesKept(tn, sn) /\ EndsKept(tn, sn)
    BY <1>1, <1>3, <2>1, RequestsStay, DecisionsStay, DispatchesStay, EndsStay, Zenon DEF SameTraces
  <2>3. BarrierKept(tn, sn)
    BY <1>1, <2>1, BarrierGrows, Zenon DEF BarrierKept, Triggers
  <2>5. CountsKept(tn, sn)
    BY <1>1, <1>3, <2>1, CountsGrow, Zenon DEF SameDispatches, SameEnds, SameMarks
  <2>6. AckKept(tn, sn)
    BY <1>1, <1>3, <2>1, AckStays, Zenon
  <2>9. Kept(tn, sn)
    BY <1>1, <2>1, <2>2, <2>3, <2>5, <2>6, Zenon DEF Grows, Kept
  <2> QED
    BY <1>2, <2>1, <2>9, Zenon DEF Judged
<1> QED
  BY <1>4, Zenon

\* a KILL_ACKNOWLEDGED (verify.py:187-205).
LEMMA AckJudged ==
  ASSUME NEW tr, NEW e, NEW tn, NEW s, NEW sn, NEW a, Reading(tr, s, e, a, tn, sn),
         Kept(tr, s), s.ok = TRUE, e.kind = "KILL_ACKNOWLEDGED",
         e.ack.trigger \in Int, e.ack # NoLoggedAck, NEW n, n = Len(tr) + 1
  PROVE  Judged(tn, sn, a, n)
<1>1. /\ Grows(tr, e, tn) /\ DOMAIN s = Fields /\ s.count + 1 = n
      /\ AckKept(tr, s) /\ BarrierKept(tr, s)
  BY Zenon DEF Kept, Reading, CountsKept
<1>2. Fits(tn, a, n) <=> ~AckRejected(s, e, a)
  <2>1. e.ack.trigger < n <=> ~(e.ack.trigger > s.count)
    <3>1. s.count \in Int
      BY <1>1, SMT DEF Grows, Kept, CountsKept
    <3> QED
      BY <1>1, <3>1, SMT
  <2> QED
    BY <1>1, <2>1, FitsByKind, SMT DEF AckRejected, AckKept
<1>3. CASE AckRejected(s, e, a)
  <2>1. sn.ok = FALSE
    BY <1>1, <1>3, AckTurn, Zenon DEF Reading
  <2> QED
    BY <1>2, <1>3, <2>1, Zenon DEF Judged
<1>4. CASE ~AckRejected(s, e, a)
  <2>1. /\ DOMAIN sn = Fields /\ sn.ok = TRUE /\ sn.count = n
        /\ sn.ack = e.ack /\ sn.acks = s.acks + 1 /\ sn.barrier = s.barrier
        /\ SameTraces(s, sn) /\ SameVerdicts(s, sn)
        /\ SameDispatches(s, sn) /\ SameEnds(s, sn)
    BY <1>1, <1>4, AckTurn, Zenon DEF Reading
  <2>2. RequestsKept(tn, sn) /\ DecisionsKept(tn, sn) /\ DispatchesKept(tn, sn) /\ EndsKept(tn, sn)
    BY <1>1, <2>1, RequestsStay, DecisionsStay, DispatchesStay, EndsStay, Zenon DEF SameTraces
  <2>3. BarrierKept(tn, sn)
    BY <1>1, <2>1, BarrierGrows, Zenon DEF BarrierKept
  <2>5. CountsKept(tn, sn)
    BY <1>1, <2>1, CountsGrow, Zenon DEF SameDispatches, SameEnds, SameMarks
  <2>6. AckKept(tn, sn)
    <3>3. n \in Of(tn, "KILL_ACKNOWLEDGED")
      BY <1>1, KindsGrow, SMT
    <3> QED
      BY <2>1, <3>3, Zenon DEF AckKept
  <2>9. Kept(tn, sn)
    BY <1>1, <2>1, <2>2, <2>3, <2>5, <2>6, Zenon DEF Grows, Kept
  <2> QED
    BY <1>2, <1>4, <2>1, <2>9, Zenon DEF Judged
<1> QED
  BY <1>3, <1>4, Zenon

-----------------------------------------------------------------------------
\* The verdict on the event just read is the verdict on the file.
LEMMA FileJudged ==
  ASSUME NEW tr, NEW e, NEW tn, Grows(tr, e, tn), NEW s, NEW sn, NEW a,
         Inspected(tr, a, s), s.ok = TRUE, Judged(tn, sn, a, Len(tr) + 1)
  PROVE  Inspected(tn, a, sn)
<1> DEFINE n == Len(tr) + 1
<1>1. /\ Len(tr) \in Nat /\ Len(tn) = n /\ IsFile(tn)
  BY Zenon DEF Grows
<1>2. 1..Len(tn) = 1..Len(tr) \cup {n}
  BY <1>1, SMT
<1>3. \A j \in 1..Len(tr) : Fits(tn, a, j)
  BY FitsStays, Zenon DEF Inspected, WellFormed
<1> HIDE DEF n
<1>4. WellFormed(tn, a) <=> Fits(tn, a, n)
  BY <1>2, <1>3, Zenon DEF WellFormed
<1>5. Judged(tn, sn, a, n)
  BY Zenon DEF n
<1> QED
  BY <1>1, <1>4, <1>5, Zenon DEF Inspected, Judged

\* One turn of the loop, whatever event it reads (verify.py:67-209).
LEMMA TurnJudges ==
  ASSUME NEW tr, NEW e, NEW a, NEW s, Inspected(tr, a, s), Readable(e)
  PROVE  Inspected(Append(tr, e), a, Inspect(s, e, a))
<1> DEFINE tn == Append(tr, e)
           sn == Inspect(s, e, a)
           n == Len(tr) + 1
<1>1. Grows(tr, e, tn) /\ Reading(tr, s, e, a, tn, sn)
  BY AppendGrows, Zenon DEF Reading, Inspected
<1>2. sn = Inspect(s, e, a)
  BY Zenon
<1> HIDE DEF tn, sn, n
<1>3. CASE s.ok = TRUE
  <2>1. Kept(tr, s)
    BY <1>3, Zenon DEF Inspected
  <2>2. n = Len(tr) + 1
    BY Zenon DEF n
  <2>3. e.kind = "REQUEST" => Judged(tn, sn, a, n)
    BY <1>1, <1>3, <2>1, <2>2, RequestJudged, Zenon
  <2>4. e.kind = "DECISION" => Judged(tn, sn, a, n)
    BY <1>1, <1>3, <2>1, <2>2, DecisionJudged, Zenon DEF Readable
  <2>5. e.kind = "DISPATCH" => Judged(tn, sn, a, n)
    BY <1>1, <1>3, <2>1, <2>2, DispatchJudged, Zenon
  <2>6. e.kind = "RESULT" => Judged(tn, sn, a, n)
    BY <1>1, <1>3, <2>1, <2>2, ResultJudged, Zenon
  <2>7. e.kind = "CANCELLATION" => Judged(tn, sn, a, n)
    BY <1>1, <1>3, <2>1, <2>2, CancellationJudged, Zenon DEF Readable
  <2>8. Triggers(e) => Judged(tn, sn, a, n)
    BY <1>1, <1>3, <2>1, <2>2, TriggerJudged, Zenon
  <2>9. e.kind = "KILL_ACKNOWLEDGED" => Judged(tn, sn, a, n)
    BY <1>1, <1>3, <2>1, <2>2, AckJudged, Zenon DEF Readable
  <2>10. Judged(tn, sn, a, n)
    BY <2>3, <2>4, <2>5, <2>6, <2>7, <2>8, <2>9, Zenon DEF Readable, Triggers
  <2>11. Inspected(tn, a, sn)
    BY <1>1, <1>3, <2>2, <2>10, FileJudged, Zenon
  <2> QED
    BY <2>11, Zenon DEF tn, sn
<1>4. CASE s.ok = FALSE
  <2>1. sn = s
    BY <1>2, <1>4, Zenon DEF Inspect
  <2>2. PICK j \in 1..Len(tr) : ~Fits(tr, a, j)
    BY <1>4, Zenon DEF Inspected, WellFormed
  <2>3. ~Fits(tn, a, j)
    BY <1>1, <2>2, FitsStays, Zenon
  <2>4. Len(tr) \in Nat /\ Len(tn) = Len(tr) + 1 /\ IsFile(tn)
    BY <1>1, Zenon DEF Grows, IsFile
  <2>5. j \in 1..Len(tn)
    BY <2>4, SMT
  <2>6. ~WellFormed(tn, a)
    BY <2>3, <2>5, Zenon DEF WellFormed
  <2>7. Inspected(tn, a, sn)
    BY <1>4, <2>1, <2>4, <2>6, Zenon DEF Inspected
  <2> QED
    BY <2>7, Zenon DEF tn, sn
<1> QED
  BY <1>3, <1>4, Zenon DEF Inspected

\* Before the first event there is nothing to remember.
LEMMA NothingRead ==
  ASSUME NEW a
  PROVE  Inspected(<<>>, a, Start)
<1> DEFINE tr == <<>>
           s == Start
<1>1. tr = <<>> /\ s = Start /\ Len(tr) = 0 /\ tr \in Seq({tr[i] : i \in 1..Len(tr)})
  BY SMT
<1> HIDE DEF tr, s
<1>2. /\ s.ok = TRUE /\ DOMAIN s = Fields /\ s.count = 0
      /\ DOMAIN s.at = {} /\ DOMAIN s.decided = {}
      /\ s.dispatched = {} /\ s.auths = {} /\ s.completed = {} /\ s.confirmed = {}
      /\ s.ack = NoLoggedAck /\ s.acks = 0 /\ s.allowed = 0 /\ s.denied = 0
      /\ s.dispatches = 0 /\ s.results = 0
  BY <1>1, SMT DEF Start, Fields
<1>3. ~s.barrier
  BY <1>1, SMT DEF Start
<1>4. 1..Len(tr) = {} /\ 1..(Len(tr) + 1 - 1) = {}
  BY <1>1, SMT
<1>5. \A k : Of(tr, k) = {}
  BY <1>4, Zenon DEF Of
<1>6. RequestsKept(tr, s) /\ DecisionsKept(tr, s) /\ DispatchesKept(tr, s)
  BY <1>2, <1>5, Zenon DEF RequestsKept, DecisionsKept, DispatchesKept
<1>7. EndsKept(tr, s)
  BY <1>2, <1>5, Zenon DEF EndsKept, ConfirmedAt
<1>8. BarrierKept(tr, s)
  BY <1>3, <1>4, SMT DEF BarrierKept, Barrier
<1>9. AckKept(tr, s)
  BY <1>2, <1>5, Zenon DEF AckKept
<1>10. CountsKept(tr, s)
  <2>1. \A v : Decisions(tr, v) = {}
    BY <1>5, Zenon DEF Decisions
  <2> QED
    BY <1>1, <1>2, <1>5, <2>1, FS_EmptySet, Zenon DEF CountsKept, Number
<1>11. WellFormed(tr, a)
  BY <1>4, Zenon DEF WellFormed
<1>12. Kept(tr, s)
  BY <1>2, <1>6, <1>7, <1>8, <1>9, <1>10, Zenon DEF Kept
<1>13. Inspected(tr, a, s)
  BY <1>1, <1>2, <1>11, <1>12, Zenon DEF Inspected, IsFile
<1> QED
  BY <1>13, Zenon DEF tr, s

\* The dispatches without an end are the positions without one: each request is
\* dispatched once.
LEMMA OpenDispatches ==
  ASSUME NEW tr, NEW s, IsFile(tr), Kept(tr, s)
  PROVE  Incomplete(s) = Cardinality(Open(tr))
<1> DEFINE P == Open(tr)
           Left == s.dispatched \ (s.completed \cup s.confirmed)
           f == [i \in P |-> tr[i].req]
<1>1. DispatchesKept(tr, s) /\ EndsKept(tr, s) /\ Len(tr) \in Nat
  <2>1. tr \in Seq({tr[i] : i \in 1..Len(tr)})
    BY Zenon DEF IsFile
  <2>2. Len(tr) \in Nat
    BY <2>1, SMT
  <2> QED
    BY <2>2, Zenon DEF Kept
<1>2. \A j \in Of(tr, "RESULT") : tr[j].kind = "RESULT"
  BY Zenon DEF Of
<1>3. \A j \in Of(tr, "CANCELLATION") : tr[j].kind = "CANCELLATION"
  BY Zenon DEF Of
<1>4. ASSUME NEW i \in Of(tr, "DISPATCH")
      PROVE  i \in P <=> tr[i].req \in Left
  <2>1. tr[i].req \in s.dispatched
    BY <1>1, Zenon DEF DispatchesKept
  <2>2. tr[i].req \in s.completed <=>
            \E j \in Of(tr, "RESULT") : tr[j].req = tr[i].req
    BY <1>1, Zenon DEF EndsKept
  <2>3. tr[i].req \in s.confirmed <=>
            \E j \in Of(tr, "CANCELLATION") : tr[j].confirmed /\ tr[j].req = tr[i].req
    BY <1>1, Zenon DEF EndsKept, ConfirmedAt
  <2>4. i \in P <=>
            /\ \A j \in Of(tr, "RESULT") : tr[j].req # tr[i].req
            /\ \A j \in Of(tr, "CANCELLATION") : tr[j].confirmed => tr[j].req # tr[i].req
    BY <1>2, <1>3, Zenon DEF Open
  <2> QED
    BY <2>1, <2>2, <2>3, <2>4, Zenon
<1>5. IsFiniteSet(P)
  <2>1. IsFiniteSet(1..Len(tr))
    BY <1>1, FS_Interval, SMT
  <2>2. P \subseteq 1..Len(tr)
    BY Zenon DEF Open, Of
  <2> QED
    BY <2>1, <2>2, FS_Subset, Zenon
<1>11. P \subseteq Of(tr, "DISPATCH")
  BY Zenon DEF Open
<1>6. f \in [P -> Left] /\ \A i \in P : f[i] = tr[i].req
  BY <1>4, <1>11, Zenon
<1>7. \A i, j \in P : f[i] = f[j] => i = j
  BY <1>1, <1>6, <1>11, Zenon DEF DispatchesKept
<1>8. \A r \in Left : \E i \in P : f[i] = r
  <2> TAKE r \in Left
  <2>1. PICK i \in Of(tr, "DISPATCH") : tr[i].req = r
    BY <1>1, Zenon DEF DispatchesKept
  <2> QED
    BY <1>4, <1>6, <2>1, Zenon
<1> HIDE DEF P, Left, f
<1>9. f \in Bijection(P, Left)
  BY <1>6, <1>7, <1>8, Zenon DEF Bijection, Injection, IsInjective, Surjection
<1>10. Cardinality(Left) = Cardinality(P)
  BY <1>5, <1>9, FS_Bijection, Zenon DEF ExistsBijection
<1> QED
  BY <1>10, Zenon DEF Incomplete, P, Left

-----------------------------------------------------------------------------
\* A set of numbers has a least member.
LEMMA Least ==
  ASSUME NEW T \in SUBSET Nat, T # {}
  PROVE  \E m \in T : \A k \in T : m <= k
<1>1. PICK m \in T : \A y \in T : <<y, m>> \notin OpToRel(<, Nat)
  BY WFMin, NatLessThanWellFounded, Zenon
<1>2. \A y \in T : ~(y < m)
  BY <1>1, Zenon DEF OpToRel
<1> QED
  BY <1>2, SMT

\* A set of numbers that holds 0 and the successor of each of its members holds
\* them all.
LEMMA Induction ==
  ASSUME NEW S, 0 \in S, \A n \in Nat : n \in S => n + 1 \in S
  PROVE  \A n \in Nat : n \in S
<1> DEFINE T == Nat \ S
<1>1. SUFFICES ASSUME T # {}
               PROVE  FALSE
  BY Zenon
<1>2. PICK m \in T : \A k \in T : m <= k
  BY <1>1, Least, Zenon
<1>3. m \in Nat /\ m \notin S /\ m # 0
  BY Zenon
<1>4. m - 1 \in Nat /\ ~(m <= m - 1) /\ m = (m - 1) + 1
  BY <1>3, SMT
<1>5. m - 1 \notin T
  BY <1>2, <1>4, Zenon
<1> QED
  BY <1>3, <1>4, <1>5, Zenon

\* What the loop keeps after each number of events.
IsLoop(f, m) == f = [n \in 0..m |-> f[n]]

LoopsOver(f, m, tr, a) ==
    /\ f[0] = Start
    /\ \A n \in 1..m : f[n] = Inspect(f[n - 1], tr[n], a)

\* The loop can be followed to the end of the file.
LEMMA LoopRuns ==
  ASSUME NEW tr, NEW a
  PROVE  \A m \in Nat : \E f : IsLoop(f, m) /\ LoopsOver(f, m, tr, a)
<1> DEFINE S == {m \in Nat : \E f : IsLoop(f, m) /\ LoopsOver(f, m, tr, a)}
<1>1. 0 \in S
  <2> DEFINE f == [n \in 0..0 |-> Start]
  <2>1. IsLoop(f, 0) /\ f[0] = Start /\ 1..0 = {}
    BY SMT DEF IsLoop
  <2>2. LoopsOver(f, 0, tr, a)
    BY <2>1, Zenon DEF LoopsOver
  <2> QED
    BY <2>1, <2>2, Zenon
<1>2. ASSUME NEW m \in Nat, m \in S
      PROVE  m + 1 \in S
  <2>1. PICK f : IsLoop(f, m) /\ LoopsOver(f, m, tr, a)
    BY <1>2, Zenon
  <2> DEFINE g == [n \in 0..(m + 1) |-> IF n = m + 1 THEN Inspect(f[m], tr[m + 1], a) ELSE f[n]]
  <2>2. /\ IsLoop(g, m + 1) /\ g[m + 1] = Inspect(f[m], tr[m + 1], a)
        /\ \A n \in 0..m : g[n] = f[n]
    BY SMT DEF IsLoop
  <2> HIDE DEF g
  <2>3. /\ 0 \in 0..m /\ m \in 0..m /\ (m + 1) - 1 = m
        /\ 1..(m + 1) = 1..m \cup {m + 1}
        /\ \A n \in 1..m : n \in 0..m /\ n - 1 \in 0..m
    BY SMT
  <2>4. g[0] = Start
    BY <2>1, <2>2, <2>3, Zenon DEF LoopsOver
  <2>5. \A n \in 1..m : g[n] = Inspect(g[n - 1], tr[n], a)
    BY <2>1, <2>2, <2>3, Zenon DEF LoopsOver
  <2>6. g[m + 1] = Inspect(g[(m + 1) - 1], tr[m + 1], a)
    BY <2>2, <2>3, Zenon
  <2>7. LoopsOver(g, m + 1, tr, a)
    BY <2>3, <2>4, <2>5, <2>6, Zenon DEF LoopsOver
  <2>8. m + 1 \in Nat
    BY SMT
  <2> QED
    BY <2>2, <2>7, <2>8, Zenon
<1> HIDE DEF S
<1>3. \A m \in Nat : m \in S
  BY <1>1, <1>2, Induction, Zenon
<1> QED
  BY <1>3, Zenon DEF S

\* Inspections is that run: one Inspect for each event (verify.py:67-209).
LEMMA LoopFollows ==
  ASSUME NEW tr, NEW a, Len(tr) \in Nat
  PROVE  LoopsOver(Inspections(tr, a), Len(tr), tr, a)
<1> DEFINE m == Len(tr)
           Turn(f) == [n \in 0..m |-> IF n = 0 THEN Start ELSE Inspect(f[n - 1], tr[n], a)]
<1>1. PICK f : IsLoop(f, m) /\ LoopsOver(f, m, tr, a)
  BY LoopRuns, Zenon
<1>2. 0 \in 0..m /\ \A n \in 0..m : n # 0 => n \in 1..m
  BY SMT
<1>3. \A n \in 0..m : f[n] = Turn(f)[n]
  BY <1>1, <1>2, Zenon DEF LoopsOver
<1>4. f = [n \in 0..m |-> f[n]]
  BY <1>1, Zenon DEF IsLoop
<1>5. f = Turn(f)
  BY <1>3, <1>4, Zenon
<1> DEFINE after == Inspections(tr, a)
<1>6. after = CHOOSE g : g = Turn(g)
  BY Zenon DEF Inspections
<1> HIDE DEF after
<1>7. after = Turn(after)
  BY <1>5, <1>6, Zenon
<1>8. \A n \in 1..m : n \in 0..m /\ n # 0
  BY SMT
<1>9. LoopsOver(after, m, tr, a)
  BY <1>2, <1>7, <1>8, Zenon DEF LoopsOver
<1> QED
  BY <1>9, Zenon DEF after

LOCAL INSTANCE SequenceTheorems

\* What inspect_events returns for a file is the verdict on it and what it holds
\* (verify.py:54-224).
THEOREM FileInspected ==
  ASSUME NEW tr, IsFile(tr), \A i \in 1..Len(tr) : Readable(tr[i]), NEW a
  PROVE  Inspected(tr, a, InspectAll(tr, a))
<1> DEFINE after == Inspections(tr, a)
           UpTo(n) == SubSeq(tr, 1, n)
           S == {n \in Nat : n <= Len(tr) => Inspected(UpTo(n), a, after[n])}
           E == {tr[i] : i \in 1..Len(tr)}
<1>1. tr \in Seq(E)
  BY Zenon DEF IsFile
<1>2. Len(tr) \in Nat
  BY <1>1, SMT
<1>3. after[0] = Start /\ \A n \in 1..Len(tr) : after[n] = Inspect(after[n - 1], tr[n], a)
  BY <1>2, LoopFollows, Zenon DEF LoopsOver
<1> HIDE DEF after
<1>4. 0 \in S
  <2>1. UpTo(0) = <<>>
    BY SubSeqEmpty, SMT
  <2>2. Inspected(UpTo(0), a, after[0])
    BY <1>3, <2>1, NothingRead, Zenon
  <2> QED
    BY <2>2, Zenon
<1>5. ASSUME NEW n \in Nat, n \in S
      PROVE  n + 1 \in S
  <2>1. SUFFICES ASSUME n + 1 <= Len(tr)
                 PROVE  Inspected(UpTo(n + 1), a, after[n + 1])
    BY SMT
  <2>2. n <= Len(tr) /\ n + 1 \in 1..Len(tr) /\ (n + 1) - 1 = n /\ n + 1 \in Nat
    BY <1>2, <2>1, SMTT(30)
  <2>3. Inspected(UpTo(n), a, after[n])
    BY <1>5, <2>2, Zenon
  <2>4. after[n + 1] = Inspect(after[n], tr[n + 1], a)
    BY <1>3, <2>2, Zenon
  <2>5. UpTo(n + 1) = Append(UpTo(n), tr[n + 1])
    <3>1. 1 \in 1..(n + 2) /\ n + 1 \in 1..Len(tr) /\ 1 <= n + 1
      BY <2>2, SMT
    <3> QED
      BY <1>1, <1>2, <2>2, <3>1, SubSeqRecursiveSecond, SMTT(30)
  <2>6. Readable(tr[n + 1])
    BY <2>2, Zenon
  <2> HIDE DEF UpTo
  <2> QED
    BY <2>3, <2>4, <2>5, <2>6, TurnJudges, Zenon
<1>6. \A n \in Nat : n \in S
  <2> HIDE DEF S
  <2> QED
    BY <1>4, <1>5, Induction, Zenon
<1>7. Len(tr) <= Len(tr)
  BY <1>2, SMT
<1>8. Inspected(UpTo(Len(tr)), a, after[Len(tr)])
  BY <1>2, <1>6, <1>7, Zenon
<1>9. UpTo(Len(tr)) = tr
  BY <1>1, SubSeqFull, Zenon
<1> QED
  BY <1>8, <1>9, Zenon DEF InspectAll, after

-----------------------------------------------------------------------------
AuditInv == Inspected(trail, ReceiptAck, seenSoFar)

LEMMA ReadKeeps ==
  ASSUME AuditInv, NEW e, Readable(e), Read(e)
  PROVE  AuditInv'
<1>1. Inspected(Append(trail, e), ReceiptAck, Inspect(seenSoFar, e, ReceiptAck))
  BY TurnJudges, Zenon DEF AuditInv
<1>2. trail' = Append(trail, e) /\ seenSoFar' = Inspect(seenSoFar, e, ReceiptAck)
  BY Zenon DEF Read
<1> QED
  BY <1>1, <1>2, Zenon DEF AuditInv, ReceiptAck

\* What _inspect_events keeps is what it has read (verify.py:54-209).
THEOREM AuditInvariance == Spec => []AuditInv
<1>1. Init => AuditInv
  BY NothingRead, Zenon DEF Init, AuditInv
<1>2. AuditInv /\ [Next]_auditVars => AuditInv'
  <2> SUFFICES ASSUME AuditInv, [Next]_auditVars
               PROVE  AuditInv'
    BY Zenon
  <2>1. CASE ReadRequest
    <3>1. PICK r \in Reqs : Read([kind |-> "REQUEST", req |-> r])
      BY <2>1, Zenon DEF ReadRequest
    <3>2. Readable([kind |-> "REQUEST", req |-> r])
      BY SMT DEF Readable
    <3> QED
      BY <3>1, <3>2, ReadKeeps, Zenon
  <2>2. CASE ReadDecision
    <3>1. PICK r \in Reqs, i \in 1..Len(trail), a \in AuthIds, v \in {"ALLOW", "KILL"} :
            Read([kind |-> "DECISION", req |-> r, ref |-> i, auth |-> a, verdict |-> v,
                  expiry |-> Expiry])
      BY <2>2, Zenon DEF ReadDecision
    <3>2. Readable([kind |-> "DECISION", req |-> r, ref |-> i, auth |-> a, verdict |-> v,
                    expiry |-> Expiry])
      BY SMT DEF Readable
    <3> QED
      BY <3>1, <3>2, ReadKeeps, Zenon
  <2>3. CASE ReadDispatch
    <3>1. PICK r \in Reqs, a \in AuthIds, ns \in 0..MaxNs :
            Read([kind |-> "DISPATCH", req |-> r, auth |-> a, ns |-> ns])
      BY <2>3, Zenon DEF ReadDispatch
    <3>2. Readable([kind |-> "DISPATCH", req |-> r, auth |-> a, ns |-> ns])
      BY SMT DEF Readable
    <3> QED
      BY <3>1, <3>2, ReadKeeps, Zenon
  <2>4. CASE ReadResult
    <3>1. PICK r \in Reqs, a \in AuthIds : Read([kind |-> "RESULT", req |-> r, auth |-> a])
      BY <2>4, Zenon DEF ReadResult
    <3>2. Readable([kind |-> "RESULT", req |-> r, auth |-> a])
      BY SMT DEF Readable
    <3> QED
      BY <3>1, <3>2, ReadKeeps, Zenon
  <2>5. CASE ReadCancellation
    <3>1. PICK r \in Reqs, a \in AuthIds, c \in BOOLEAN :
            Read([kind |-> "CANCELLATION", req |-> r, auth |-> a, confirmed |-> c])
      BY <2>5, Zenon DEF ReadCancellation
    <3>2. Readable([kind |-> "CANCELLATION", req |-> r, auth |-> a, confirmed |-> c])
      BY SMT DEF Readable
    <3> QED
      BY <3>1, <3>2, ReadKeeps, Zenon
  <2>6. CASE ReadTrigger
    <3>1. PICK k \in {"VIOLATION", "OVERLOAD_SUMMARY"} : Read([kind |-> k])
      BY <2>6, Zenon DEF ReadTrigger
    <3>2. Readable([kind |-> k])
      BY SMT DEF Readable
    <3> QED
      BY <3>1, <3>2, ReadKeeps, Zenon
  <2>7. CASE ReadAck
    <3>1. PICK i \in 1..2 :
            Read([kind |-> "KILL_ACKNOWLEDGED", ack |-> [ReceiptAck EXCEPT !.trigger = i]])
      BY <2>7, Zenon DEF ReadAck
    <3>2. [ReceiptAck EXCEPT !.trigger = i] = [trigger |-> i, inflight |-> 1, ns |-> 0]
      BY SMT DEF ReceiptAck
    <3>3. Readable([kind |-> "KILL_ACKNOWLEDGED", ack |-> [ReceiptAck EXCEPT !.trigger = i]])
      BY <3>2, SMT DEF Readable, NoLoggedAck
    <3> QED
      BY <3>1, <3>3, ReadKeeps, Zenon
  <2>8. CASE UNCHANGED auditVars
    BY <2>8, Zenon DEF auditVars, AuditInv, ReceiptAck
  <2> QED
    BY <2>1, <2>2, <2>3, <2>4, <2>5, <2>6, <2>7, <2>8, Zenon DEF Next
<1> QED
  BY <1>1, <1>2, PTL DEF Spec

\* The single pass accepts a file of any length exactly when each of its events
\* fits those before it: the traces remember all that the checks need
\* (verify.py:67-209).
THEOREM AuditorAcceptsWellFormed == Spec => []AcceptsWellFormed
<1>1. AuditInv => AcceptsWellFormed
  BY Zenon DEF AuditInv, Inspected, AcceptsWellFormed
<1> QED
  BY <1>1, AuditInvariance, PTL

\* What verify_bundle compares with the receipt is what the file holds, and the
\* dispatches it calls incomplete are those without an end (verify.py:211-278).
THEOREM AuditorCountsTheFile == Spec => []CountsTheFile
<1>1. AuditInv => CountsTheFile
  BY OpenDispatches, Zenon DEF AuditInv, Inspected, CountsTheFile, Kept, CountsKept
<1> QED
  BY <1>1, AuditInvariance, PTL

=========================
