---------------------------- MODULE AuditorSpec -----------------------------
(***************************************************************************)
(* The auditor reading an evidence file event by event, whatever the file  *)
(* says, against a definition of what a well-formed file is.               *)
(***************************************************************************)
EXTENDS Auditor, WellFormedFile

CONSTANTS
    Reqs,            \* request ids in the file
    AuthIds,         \* authorization ids in the file
    Expiry,          \* when its authorizations expire
    MaxNs,           \* bound on event times
    MaxTrail         \* bound on the length of the file

VARIABLES
    trail,           \* the events read
    seenSoFar        \* what _inspect_events keeps

auditVars == <<trail, seenSoFar>>

\* The acknowledgement that the receipt carries.
ReceiptAck == [trigger |-> 1, inflight |-> 1, ns |-> 0]

Init == trail = <<>> /\ seenSoFar = Start

Read(e) ==
    /\ seenSoFar.ok
    /\ Len(trail) < MaxTrail
    /\ trail' = Append(trail, e)
    /\ seenSoFar' = Inspect(seenSoFar, e, ReceiptAck)

ReadRequest == \E r \in Reqs : Read([kind |-> "REQUEST", req |-> r])

ReadDecision ==
    \E r \in Reqs, i \in 1..Len(trail), a \in AuthIds, v \in {"ALLOW", "KILL"} :
        Read([kind |-> "DECISION", req |-> r, ref |-> i, auth |-> a, verdict |-> v,
              expiry |-> Expiry])

ReadDispatch ==
    \E r \in Reqs, a \in AuthIds, ns \in 0..MaxNs :
        Read([kind |-> "DISPATCH", req |-> r, auth |-> a, ns |-> ns])

ReadResult ==
    \E r \in Reqs, a \in AuthIds : Read([kind |-> "RESULT", req |-> r, auth |-> a])

ReadCancellation ==
    \E r \in Reqs, a \in AuthIds, c \in BOOLEAN :
        Read([kind |-> "CANCELLATION", req |-> r, auth |-> a, confirmed |-> c])

ReadTrigger ==
    \E k \in {"VIOLATION", "OVERLOAD_SUMMARY"} : Read([kind |-> k])

ReadAck ==
    \E i \in 1..2 :
        Read([kind |-> "KILL_ACKNOWLEDGED", ack |-> [ReceiptAck EXCEPT !.trigger = i]])

Next ==
    \/ ReadRequest \/ ReadDecision \/ ReadDispatch \/ ReadResult
    \/ ReadCancellation \/ ReadTrigger \/ ReadAck

Spec == Init /\ [][Next]_auditVars

-----------------------------------------------------------------------------
\* The single pass of _inspect_events accepts a file exactly when each of its
\* events fits: the traces it keeps remember all that the check needs.
AcceptsWellFormed == seenSoFar.ok <=> WellFormed(trail, ReceiptAck)

\* What verify_bundle compares with the receipt is what the file holds.
CountsTheFile ==
    seenSoFar.ok =>
        /\ seenSoFar.count = Len(trail)
        /\ seenSoFar.allowed = Cardinality(Decisions(trail, "ALLOW"))
        /\ seenSoFar.denied = Cardinality(Decisions(trail, "KILL"))
        /\ seenSoFar.dispatches = Number(trail, "DISPATCH")
        /\ seenSoFar.results = Number(trail, "RESULT")
        /\ seenSoFar.acks = Number(trail, "KILL_ACKNOWLEDGED")
        /\ Incomplete(seenSoFar) = Cardinality(Open(trail))

\* "The offline verifier MUST validate the full per-request ... RESULT or
\* cancellation state machine": an accepted dispatch ends once, with a result
\* or with a confirmed cancellation.
EndsOnce ==
    seenSoFar.ok =>
        \A j \in 1..Len(trail) : trail[j].kind = "RESULT" => Confirmed(trail, j) = {}
=============================================================================
