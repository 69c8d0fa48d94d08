------------------------------ MODULE Auditor -------------------------------
(***************************************************************************)
(* The offline auditor (auditor/verify.py): _inspect_events reads the      *)
(* evidence once, in order, and keeps a trace per request; verify_bundle   *)
(* compares what it counted with the receipt, whose own verify_against     *)
(* (app/models.py) checks the chain.                                       *)
(*                                                                         *)
(* Digests, hashes and signatures bind what they cover: a DECISION names   *)
(* its REQUEST by position (ref), and a DISPATCH, RESULT or CANCELLATION   *)
(* names its decision by authorization id (auth).                          *)
(***************************************************************************)
EXTENDS Integers, Sequences, FiniteSets

NoLoggedAck == [trigger |-> 0]

\* The assignment f[x] = v of a dictionary.
Put(f, x, v) == [y \in DOMAIN f \cup {x} |-> IF y = x THEN v ELSE f[y]]

\* at: position of each REQUEST; decided: its DECISION event.
Start ==
    [ok |-> TRUE, count |-> 0,
     at |-> <<>>, decided |-> <<>>,
     dispatched |-> {}, completed |-> {}, confirmed |-> {},
     auths |-> {}, barrier |-> FALSE, ack |-> NoLoggedAck, acks |-> 0,
     allowed |-> 0, denied |-> 0, dispatches |-> 0, results |-> 0]

Reject(s) == [s EXCEPT !.ok = FALSE]

OnRequest(s, e) ==
    IF e.req \in DOMAIN s.at
    THEN Reject(s)
    ELSE [s EXCEPT !.at = Put(@, e.req, s.count + 1)]

OnDecision(s, e) ==
    IF \/ e.req \notin DOMAIN s.at
       \/ s.at[e.req] # e.ref
       \/ e.req \in DOMAIN s.decided
    THEN Reject(s)
    ELSE [s EXCEPT !.decided = Put(@, e.req, e),
                   !.allowed = IF e.verdict = "ALLOW" THEN @ + 1 ELSE @,
                   !.denied  = IF e.verdict = "ALLOW" THEN @ ELSE @ + 1,
                   !.barrier = @ \/ e.verdict = "KILL"]

\* The binding checks of DISPATCH, RESULT and CANCELLATION.
Bound(s, e) == e.req \in DOMAIN s.decided /\ s.decided[e.req].auth = e.auth

\* Mutant of OnDispatch: a trace that was dispatched is dispatched again.
OnDispatchAgain(s, e) ==
    IF \/ s.barrier
       \/ ~Bound(s, e)
       \/ s.decided[e.req].verdict # "ALLOW"
       \/ e.ns > s.decided[e.req].expiry
    THEN Reject(s)
    ELSE [s EXCEPT !.dispatched = @ \cup {e.req}, !.auths = @ \cup {e.auth},
                   !.dispatches = @ + 1]

OnDispatch(s, e) ==
    IF \/ s.barrier
       \/ ~Bound(s, e)
       \/ s.decided[e.req].verdict # "ALLOW"
       \/ e.req \in s.dispatched
       \/ e.auth \in s.auths
       \/ e.ns > s.decided[e.req].expiry
    THEN Reject(s)
    ELSE [s EXCEPT !.dispatched = @ \cup {e.req}, !.auths = @ \cup {e.auth},
                   !.dispatches = @ + 1]

OnResult(s, e) ==
    IF ~Bound(s, e) \/ e.req \notin s.dispatched \/ e.req \in s.completed
    THEN Reject(s)
    ELSE [s EXCEPT !.completed = @ \cup {e.req}, !.results = @ + 1]

\* Mutant of OnCancellation: a signalled cancellation counts as a confirmed one.
OnCancellationSignalled(s, e) ==
    IF \/ ~Bound(s, e)
       \/ e.req \notin s.dispatched
       \/ e.req \in s.completed \cup s.confirmed
    THEN Reject(s)
    ELSE [s EXCEPT !.confirmed = @ \cup {e.req}]

OnCancellation(s, e) ==
    IF \/ ~Bound(s, e)
       \/ e.req \notin s.dispatched
       \/ e.req \in s.completed \cup s.confirmed
    THEN Reject(s)
    ELSE [s EXCEPT !.confirmed = IF e.confirmed THEN @ \cup {e.req} ELSE @]

\* Violations and overload summaries raise the barrier.
OnTrigger(s) == [s EXCEPT !.barrier = TRUE]

\* receiptAck is the acknowledgement in the receipt.
OnAck(s, e, receiptAck) ==
    IF \/ s.ack # NoLoggedAck
       \/ e.ack.trigger > s.count
       \/ e.ack # receiptAck
    THEN Reject(s)
    ELSE [s EXCEPT !.ack = e.ack, !.acks = @ + 1]

\* One turn of the loop of _inspect_events.
Inspect(s, e, receiptAck) ==
    LET next == CASE e.kind = "REQUEST"           -> OnRequest(s, e)
                  [] e.kind = "DECISION"          -> OnDecision(s, e)
                  [] e.kind = "DISPATCH"          -> OnDispatch(s, e)
                  [] e.kind = "RESULT"            -> OnResult(s, e)
                  [] e.kind = "CANCELLATION"      -> OnCancellation(s, e)
                  [] e.kind \in {"VIOLATION", "OVERLOAD_SUMMARY"} -> OnTrigger(s)
                  [] e.kind = "KILL_ACKNOWLEDGED" -> OnAck(s, e, receiptAck)
    IN  IF s.ok THEN [next EXCEPT !.count = @ + 1] ELSE s

\* What it keeps once it has read n events.
Inspections(events, receiptAck) ==
    LET after[n \in 0..Len(events)] ==
            IF n = 0 THEN Start ELSE Inspect(after[n - 1], events[n], receiptAck)
    IN  after

InspectAll(events, receiptAck) == Inspections(events, receiptAck)[Len(events)]

Incomplete(s) == Cardinality(s.dispatched \ (s.completed \cup s.confirmed))

\* What _inspect_events checks once it has read everything.
InspectionEnds(s, receipt) ==
    /\ s.ok
    /\ DOMAIN s.at = DOMAIN s.decided
    /\ receipt.status = "COMPLETED" => Incomplete(s) = 0
    /\ Incomplete(s) > 0 =>
          /\ receipt.ack # NoLoggedAck
          /\ Incomplete(s) <= receipt.ack.inflight

\* Event.follows, for events numbered and hashed by EvidenceLedger.append.
Follows(events) ==
    \A i \in 2..Len(events) : events[i].ns >= events[i - 1].ns

\* Receipt.verify_against; the kill-latency SLA is left out.
VerifyAgainst(events, receipt) ==
    /\ Follows(events)
    /\ Len(events) = receipt.count
    /\ receipt.ack # NoLoggedAck => receipt.ack.trigger \in 1..Len(events)

\* verify_bundle
VerifyBundle(events, receipt) ==
    LET s == InspectAll(events, receipt.ack)
    IN  /\ InspectionEnds(s, receipt)
        /\ VerifyAgainst(events, receipt)
        /\ s.allowed = receipt.allowed
        /\ s.denied = receipt.denied
        /\ s.dispatches = receipt.dispatched
        /\ s.results = receipt.completed
        /\ s.acks = IF receipt.ack # NoLoggedAck THEN 1 ELSE 0
=============================================================================
