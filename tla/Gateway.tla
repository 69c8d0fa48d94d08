------------------------------ MODULE Gateway -------------------------------
(***************************************************************************)
(* Gateway (app/gateway.py): submit_raw and fail_closed, with the checks   *)
(* the HTTP adapter (app/main.py) makes before it calls them.              *)
(*                                                                         *)
(* A worker thread handles one request.  What the request is decides what  *)
(* parser and policy say of it: they have no state that matters here, and  *)
(* the budgets of PolicyEngine are in module Policy.                       *)
(***************************************************************************)
EXTENDS Supervisor

CONSTANTS
    Workers,         \* threads that handle a request
    Inputs,          \* the kinds of request they may get
    Requests,        \* request ids
    RequestOf,       \* the id of each worker's request
    Ttl              \* authorization_ttl_ns

\* "allow" and "kill" are well-formed requests and the policy's verdict on
\* them; "malformed" does not parse; "oversize" exceeds the payload limit when
\* submit_raw is called directly; the adapter refuses "misframed" for its content
\* type or its length.
ASSUME GatewayAssumption ==
    /\ Workers \subseteq Threads
    /\ Workers = Auths
    /\ Inputs \subseteq {"allow", "kill", "malformed", "oversize", "misframed"}
    /\ RequestOf \in [Workers -> Requests]
    /\ Ttl \in Nat

VARIABLES
    input,           \* what each worker got
    decision,        \* the decision it signed
    released         \* workers whose capability was returned to the caller

gatewayVars == <<input, decision, released>>

NoDecision == [verdict |-> "NONE"]

InitGateway ==
    /\ input = [w \in Workers |-> "none"]
    /\ decision = [w \in Workers |-> NoDecision]
    /\ released = {}

\* _commit: when the commit raises, isolate, then raise (to `otherwise').
GatewayCommit(t, e, next, otherwise) ==
    \/ /\ CommitOk(e)
       /\ trigger' = [trigger EXCEPT ![t] = Len(events')]
       /\ Goto(t, next)
       /\ UNCHANGED resume
    \/ /\ CommitRaises(e)
       /\ resume' = [resume EXCEPT ![t] = otherwise]
       /\ Goto(t, "emergency")
       /\ UNCHANGED trigger

-----------------------------------------------------------------------------
\* The adapter and the first lines of submit_raw: the arrival time, and the
\* runtime deadline.
Arrive(w) ==
    /\ pc[w] = "idle"
    /\ \E i \in Inputs, ns \in 0..MaxClock :
          /\ input' = [input EXCEPT ![w] = i]
          /\ ReadClock(ns)
          /\ stamp' = [stamp EXCEPT ![w] = ns]
          /\ Goto(w, CASE i = "misframed" -> "fail_latch"
                       [] i # "misframed" /\ ns > Deadline -> "late_latch"
                       [] OTHER -> "admit")
    /\ UNCHANGED <<stateVars, evidenceVars, containVars, receiptVars, registryVars,
                   trigger, returnVars, decision, released>>

LateLatch(w) ==
    /\ pc[w] = "late_latch"
    /\ LatchKill
    /\ Goto(w, "late_commit")
    /\ UNCHANGED <<clock, evidenceVars, containVars, receiptVars, registryVars,
                   localVars, gatewayVars>>

LateCommit(w) ==
    /\ pc[w] = "late_commit"
    /\ GatewayCommit(w, Violation("runtime", stamp[w]), "contain", "done")
    /\ UNCHANGED <<stateVars, clock, containVars, receiptVars, registryVars, stamp,
                   after, gatewayVars>>

Bytes(w) == IF input[w] = "oversize" THEN MaxPayload + 1 ELSE 1

Admit(w) ==
    /\ pc[w] = "admit"
    /\ \/ AdmitDropped /\ Goto(w, "done")
       \/ AdmitOverload(Bytes(w), stamp[w]) /\ Goto(w, "overload_commit")
       \/ /\ AdmitOk(Bytes(w), stamp[w])
          /\ Goto(w, IF input[w] = "malformed" THEN "malformed_commit"
                                               ELSE "request_commit")
    /\ UNCHANGED <<clock, evidenceVars, containVars, receiptVars, registryVars,
                   localVars, gatewayVars>>

OverloadCommit(w) ==
    /\ pc[w] = "overload_commit"
    /\ GatewayCommit(w, [kind |-> "OVERLOAD_SUMMARY", ns |-> stamp[w]],
                     "contain", "done")
    /\ UNCHANGED <<stateVars, clock, containVars, receiptVars, registryVars, stamp,
                   after, gatewayVars>>

\* An unparseable request: the violation is logged first, the kill latched next.
MalformedCommit(w) ==
    /\ pc[w] = "malformed_commit"
    /\ GatewayCommit(w, Violation("malformed", stamp[w]), "malformed_latch", "done")
    /\ UNCHANGED <<stateVars, clock, containVars, receiptVars, registryVars, stamp,
                   after, gatewayVars>>

MalformedLatch(w) ==
    /\ pc[w] = "malformed_latch"
    /\ LatchKill
    /\ Goto(w, "contain")
    /\ UNCHANGED <<clock, evidenceVars, containVars, receiptVars, registryVars,
                   localVars, gatewayVars>>

RequestCommit(w) ==
    /\ pc[w] = "request_commit"
    /\ GatewayCommit(w, [kind |-> "REQUEST", req |-> RequestOf[w], ns |-> stamp[w]],
                     "decide", "done")
    /\ UNCHANGED <<stateVars, clock, containVars, receiptVars, registryVars, stamp,
                   after, gatewayVars>>

\* Read the clock and ask the policy.
Decide(w) ==
    /\ pc[w] = "decide"
    /\ \E ns \in 0..MaxClock :
          ReadClock(ns) /\ stamp' = [stamp EXCEPT ![w] = ns]
    /\ Goto(w, "sign_decision")
    /\ UNCHANGED <<stateVars, evidenceVars, containVars, receiptVars, registryVars,
                   trigger, returnVars, gatewayVars>>

\* Mutant of SignDecision: a KILL verdict is latched by contain only.
SignDecisionUnlatched(w) ==
    /\ pc[w] = "sign_decision"
    /\ decision' = [decision EXCEPT ![w] =
          [verdict |-> IF input[w] = "kill" THEN "KILL" ELSE "ALLOW",
           epoch |-> epoch, expiry |-> stamp[w] + Ttl, id |-> w]]
    /\ Goto(w, "decision_commit")
    /\ UNCHANGED <<stateVars, clock, evidenceVars, containVars, receiptVars,
                   registryVars, localVars, input, released>>

\* A KILL verdict latches first.  The decision carries the epoch read here.
SignDecision(w) ==
    /\ pc[w] = "sign_decision"
    /\ \/ /\ input[w] = "kill"
          /\ LatchKill
          /\ decision' = [decision EXCEPT ![w] = [verdict |-> "KILL", epoch |-> epoch',
                                                  expiry |-> 0, id |-> w]]
       \/ /\ input[w] # "kill"
          /\ UNCHANGED stateVars
          /\ decision' = [decision EXCEPT ![w] = [verdict |-> "ALLOW", epoch |-> epoch,
                                                  expiry |-> stamp[w] + Ttl, id |-> w]]
    /\ Goto(w, "decision_commit")
    /\ UNCHANGED <<clock, evidenceVars, containVars, receiptVars, registryVars,
                   localVars, input, released>>

DecisionCommit(w) ==
    /\ pc[w] = "decision_commit"
    /\ GatewayCommit(w, [kind |-> "DECISION", req |-> RequestOf[w], ref |-> trigger[w],
                         auth |-> w, verdict |-> decision[w].verdict,
                         expiry |-> decision[w].expiry, ns |-> stamp[w]],
                     "record", "done")
    /\ UNCHANGED <<stateVars, clock, containVars, receiptVars, registryVars, stamp,
                   after, gatewayVars>>

\* record_decision; an ALLOW decision is then returned: the capability is out.
Record(w) ==
    /\ pc[w] = "record"
    /\ RecordDecision(decision[w].verdict)
    /\ \/ /\ decision[w].verdict = "ALLOW"
          /\ released' = released \cup {w}
          /\ Goto(w, "dispatch")
       \/ /\ decision[w].verdict = "KILL"
          /\ Goto(w, "kill_commit")
          /\ UNCHANGED released
    /\ UNCHANGED <<clock, evidenceVars, containVars, receiptVars, registryVars,
                   localVars, input, decision>>

\* Stamped inside the ledger, so never behind the mirror.
KillCommit(w) ==
    /\ pc[w] = "kill_commit"
    /\ \E ns \in 0..MaxClock :
          /\ ReadClock(ns)
          /\ GatewayCommit(w, Violation("policy", ns), "contain", "done")
    /\ UNCHANGED <<stateVars, containVars, receiptVars, registryVars, stamp,
                   after, gatewayVars>>

-----------------------------------------------------------------------------
\* fail_closed: read the clock (in Arrive for the adapter), latch, log, contain.

FailClosed(t) ==
    /\ pc[t] = "fail"
    /\ \E ns \in 0..MaxClock :
          ReadClock(ns) /\ stamp' = [stamp EXCEPT ![t] = ns]
    /\ Goto(t, "fail_latch")
    /\ UNCHANGED <<stateVars, evidenceVars, containVars, receiptVars, registryVars,
                   trigger, returnVars, gatewayVars>>

\* Mutant of FailLatch: latching is left to contain.
FailLatchLate(t) ==
    /\ pc[t] = "fail_latch"
    /\ Goto(t, "fail_commit")
    /\ UNCHANGED <<stateVars, clock, evidenceVars, containVars, receiptVars,
                   registryVars, localVars, gatewayVars>>

FailLatch(t) ==
    /\ pc[t] = "fail_latch"
    /\ LatchKill
    /\ Goto(t, "fail_commit")
    /\ UNCHANGED <<clock, evidenceVars, containVars, receiptVars, registryVars,
                   localVars, gatewayVars>>

FailCommit(t) ==
    /\ pc[t] = "fail_commit"
    /\ GatewayCommit(t, Violation("failure", stamp[t]), "contain", "fail_last")
    /\ UNCHANGED <<stateVars, clock, containVars, receiptVars, registryVars, stamp,
                   after, gatewayVars>>

\* The violation could not be logged: the last event there is becomes the trigger.
FailLast(t) ==
    /\ pc[t] = "fail_last"
    /\ \/ events = <<>> /\ Goto(t, after[t]) /\ UNCHANGED trigger
       \/ /\ events # <<>>
          /\ trigger' = [trigger EXCEPT ![t] = Len(events)]
          /\ Goto(t, "contain")
    /\ UNCHANGED <<stateVars, clock, evidenceVars, containVars, receiptVars,
                   registryVars, stamp, returnVars, gatewayVars>>

-----------------------------------------------------------------------------
SubmitStep(w) ==
    \/ LateLatch(w) \/ LateCommit(w) \/ Admit(w) \/ OverloadCommit(w)
    \/ MalformedCommit(w) \/ MalformedLatch(w) \/ RequestCommit(w) \/ Decide(w)
    \/ SignDecision(w) \/ DecisionCommit(w) \/ Record(w) \/ KillCommit(w)

FailClosedStep(t) == FailClosed(t) \/ FailLatch(t) \/ FailCommit(t) \/ FailLast(t)
=============================================================================
