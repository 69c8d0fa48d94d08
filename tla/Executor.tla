------------------------------ MODULE Executor ------------------------------
(***************************************************************************)
(* Executor and InflightRegistry (app/executor.py): dispatch of a released *)
(* capability.  A worker dispatches its own; a replayer presents the one   *)
(* of some worker again.  Transport and credential broker answer or raise. *)
(***************************************************************************)
EXTENDS Gateway

CONSTANTS
    Replayers,       \* threads that present a capability a second time
    MaxResponse,     \* rule.max_response_bytes, reserved for each dispatch
    Responses        \* sizes of the responses the transport returns

ASSUME ExecutorAssumption ==
    /\ Replayers \subseteq Threads
    /\ MaxResponse \in Nat
    /\ Responses \subseteq 0..MaxResponse

VARIABLE target      \* the authorization each thread dispatches

InitExecutor == target = [t \in Workers \cup Replayers |-> t]

containmentVars == <<supervisorVars, gatewayVars, target>>

Replay(t) ==
    /\ pc[t] = "replay"
    /\ \E w \in released : target' = [target EXCEPT ![t] = w]
    /\ Goto(t, "dispatch")
    /\ UNCHANGED <<stateVars, clock, evidenceVars, containVars, receiptVars,
                   registryVars, localVars, gatewayVars>>

\* The caller reads the clock and calls dispatch; the decision verifies.
Dispatch(t) ==
    /\ pc[t] = "dispatch"
    /\ \E ns \in 0..MaxClock :
          ReadClock(ns) /\ stamp' = [stamp EXCEPT ![t] = ns]
    /\ Goto(t, "register")
    /\ UNCHANGED <<stateVars, evidenceVars, containVars, receiptVars, registryVars,
                   trigger, returnVars, gatewayVars, target>>

\* register raises on an authorization in flight, before the try block.
Register(t) ==
    /\ pc[t] = "register"
    /\ \/ target[t] \in registered /\ Goto(t, "done") /\ UNCHANGED registryVars
       \/ /\ target[t] \notin registered
          /\ registered' = registered \cup {target[t]}
          /\ cancelled' = cancelled \ {target[t]}
          /\ Goto(t, "begin")
    /\ UNCHANGED <<stateVars, clock, evidenceVars, containVars, receiptVars,
                   localVars, gatewayVars, target>>

\* begin_authorized refuses without a trace, or for want of egress budget.
BeginRefused(t) ==
    /\ pc[t] = "begin"
    /\ LET d == decision[target[t]]
       IN  \/ ~Dispatchable(d, stamp[t]) /\ UNCHANGED stateVars
           \/ BeginOverBudget(d, stamp[t], MaxResponse)
    /\ Goto(t, "check")
    /\ UNCHANGED <<clock, evidenceVars, containVars, receiptVars, registryVars,
                   localVars, gatewayVars, target>>

\* begin_authorized with commit_dispatch, all under the lock of RunState.
Begin(t) ==
    /\ pc[t] = "begin"
    /\ \E ns \in 0..MaxClock :
          LET d == decision[target[t]]
              e == [kind |-> "DISPATCH", req |-> RequestOf[target[t]],
                    auth |-> target[t], ns |-> ns]
          IN  /\ ReadClock(ns)
              /\ \/ /\ BeginCommits(d, stamp[t], MaxResponse)
                    /\ CommitOk(e)
                    /\ Goto(t, "transport")
                 \/ /\ BeginCommitFails(d, stamp[t], MaxResponse)
                    /\ CommitRaises(e)
                    /\ Goto(t, "check")
    /\ UNCHANGED <<containVars, receiptVars, registryVars, localVars, gatewayVars,
                   target>>

\* The broker refuses, the transport raises, or it returns too much.
TransportRaises(t) ==
    /\ pc[t] = "transport"
    /\ Goto(t, "abort")
    /\ UNCHANGED <<stateVars, clock, evidenceVars, containVars, receiptVars,
                   registryVars, localVars, gatewayVars, target>>

TransportReturns(t) ==
    /\ pc[t] = "transport"
    /\ Goto(t, "finish")
    /\ UNCHANGED <<stateVars, clock, evidenceVars, containVars, receiptVars,
                   registryVars, localVars, gatewayVars, target>>

\* finish_authorized of a lease that mark_killed has cleared raises.
FinishStale(t) ==
    /\ pc[t] = "finish"
    /\ active[target[t]] = 0
    /\ Goto(t, "abort")
    /\ UNCHANGED <<stateVars, clock, evidenceVars, containVars, receiptVars,
                   registryVars, localVars, gatewayVars, target>>

Finish(t) ==
    /\ pc[t] = "finish"
    /\ \E ns \in 0..MaxClock, bytes \in Responses :
          LET e == [kind |-> "RESULT", req |-> RequestOf[target[t]],
                    auth |-> target[t], ns |-> ns]
          IN  /\ ReadClock(ns)
              /\ \/ /\ FinishCommits(target[t], bytes)
                    /\ CommitOk(e)
                    /\ Goto(t, "unregister")
                 \/ /\ FinishFails(target[t])
                    /\ CommitRaises(e)
                    /\ Goto(t, "abort")
    /\ UNCHANGED <<containVars, receiptVars, registryVars, localVars, gatewayVars,
                   target>>

\* abort_authorized does nothing for a lease that is gone.
AbortLease(t) ==
    /\ pc[t] = "abort"
    /\ Abort(target[t]) \/ (active[target[t]] = 0 /\ UNCHANGED stateVars)
    /\ Goto(t, "check")
    /\ UNCHANGED <<clock, evidenceVars, containVars, receiptVars, registryVars,
                   localVars, gatewayVars, target>>

\* Mutant of CheckCancelled: every failed dispatch is left to somebody else.
CheckCancelledAlways(t) ==
    /\ pc[t] = "check"
    /\ Goto(t, "unregister")
    /\ UNCHANGED <<stateVars, clock, evidenceVars, containVars, receiptVars,
                   registryVars, localVars, gatewayVars, target>>

\* A dispatch that containment cancelled just raises; any other fails closed.
CheckCancelled(t) ==
    /\ pc[t] = "check"
    /\ \/ /\ target[t] \in cancelled
          /\ Goto(t, "unregister")
          /\ UNCHANGED after
       \/ /\ target[t] \notin cancelled
          /\ after' = [after EXCEPT ![t] = "unregister"]
          /\ Goto(t, "fail")
    /\ UNCHANGED <<stateVars, clock, evidenceVars, containVars, receiptVars,
                   registryVars, stamp, trigger, resume, gatewayVars, target>>

Unregister(t) ==
    /\ pc[t] = "unregister"
    /\ registered' = registered \ {target[t]}
    /\ cancelled' = cancelled \ {target[t]}
    /\ Goto(t, "done")
    /\ UNCHANGED <<stateVars, clock, evidenceVars, containVars, receiptVars,
                   localVars, gatewayVars, target>>

-----------------------------------------------------------------------------
\* Everything dispatch does but wait for the transport.
DispatchStep(t) ==
    \/ Dispatch(t) \/ Register(t) \/ BeginRefused(t) \/ Begin(t)
    \/ FinishStale(t) \/ Finish(t) \/ AbortLease(t) \/ CheckCancelled(t)
    \/ Unregister(t)
=============================================================================
