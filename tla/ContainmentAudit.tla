-------------------------- MODULE ContainmentAudit --------------------------
(***************************************************************************)
(* What the offline auditor (auditor/verify.py) makes of the evidence that *)
(* the running system of module Containment leaves behind.                 *)
(***************************************************************************)
EXTENDS Containment

Audit == INSTANCE Auditor

\* The receipt that could be frozen now.
ReceiptNow ==
    [status |-> phase, count |-> mirrored, ack |-> ack,
     allowed |-> allowed, denied |-> denied,
     dispatched |-> dispatched, completed |-> completed]

Inspection == Audit!InspectAll(events, ack)

\* "canonical signed event chain and receipt verify offline": when a killed or
\* completed run has gone quiet and no commit failed for want of a slot or disk,
\* the auditor finds nothing wrong with any event, counter or acknowledgement.
\* (A dispatch behind the violation of a malformed request is the subject of
\* NoDispatchAfterTrigger, one stamped after its expiry of DispatchBeforeExpiry,
\* the number of unfinished ones of QuietKillVerifies.)
QuietRunAudits ==
    QuietRun =>
        /\ Inspection.ok
        /\ DOMAIN Inspection.at = DOMAIN Inspection.decided
        /\ Audit!Follows(events)
        /\ Len(events) = mirrored
        /\ Inspection.allowed = allowed /\ Inspection.denied = denied
        /\ Inspection.dispatches = dispatched
        /\ Inspection.results = completed
        /\ Inspection.acks = IF phase = "KILLED" THEN 1 ELSE 0

\* "canonical signed event chain and receipt verify offline": the receipt of a
\* killed run that has gone quiet without an evidence failure verifies.
QuietKillVerifies ==
    Quiet /\ phase = "KILLED" /\ ~emergency => Audit!VerifyBundle(events, ReceiptNow)

\* Every frozen receipt of a run that has gone quiet verifies.
FrozenReceiptVerifies ==
    Quiet /\ receipt # NoReceipt /\ receipt.status # "SUPERVISOR_FAILURE" =>
        Audit!VerifyBundle(events, receipt)
=============================================================================
