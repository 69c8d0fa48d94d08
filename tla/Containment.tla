---------------------------- MODULE Containment -----------------------------
(***************************************************************************)
(* The runtime that app/factory.py wires together: workers submit and      *)
(* dispatch requests through Gateway and Executor while the supervisor's   *)
(* watchdog, completion and receipt run, all over one RunState and one     *)
(* evidence ledger.                                                        *)
(***************************************************************************)
EXTENDS Executor

\* Every thread has a role, and there are finitely many.
ASSUME RolesAssumption ==
    /\ IsFiniteSet(Threads)
    /\ Threads = Workers \cup Replayers \cup Watchdogs \cup Completers \cup Reporters

FirstLabel(t) ==
    CASE t \in Workers    -> "idle"
      [] t \in Replayers  -> "replay"
      [] t \in Watchdogs  -> "watch"
      [] t \in Completers -> "complete"
      [] t \in Reporters  -> "report"

Init ==
    /\ InitSupervisor
    /\ InitGateway
    /\ InitExecutor
    /\ pc = [t \in Threads |-> FirstLabel(t)]

\* What a thread does without waiting for the outside world.
Proceed(t) ==
    \/ SupervisorStep(t) /\ UNCHANGED <<gatewayVars, target>>
    \/ SubmitStep(t) /\ UNCHANGED target
    \/ FailClosedStep(t) /\ UNCHANGED target
    \/ DispatchStep(t)

Transport(t) == TransportRaises(t) \/ TransportReturns(t)

\* The threads that only poll may do so for ever.
Finished ==
    /\ \A t \in Threads : pc[t] \in {"done", "watch", "report", "replay"}
    /\ UNCHANGED containmentVars

Next ==
    \/ \E w \in Workers : Arrive(w) /\ UNCHANGED target
    \/ \E t \in Replayers : Replay(t)
    \/ \E t \in Threads : Proceed(t) \/ Transport(t)
    \/ Finished

Spec == Init /\ [][Next]_containmentVars

\* A thread that can take a step of its own takes it.  Requests need not come,
\* and the transport need not answer.
FairSpec == Spec /\ \A t \in Threads : WF_containmentVars(Proceed(t))

-----------------------------------------------------------------------------
Kinds(K) == {i \in 1..Len(events) : events[i].kind \in K}

Dispatches == Kinds({"DISPATCH"})

\* The violations that submit_raw logs for requests it cannot parse.
Malformed == {i \in Kinds({"VIOLATION"}) : events[i].reason = "malformed"}

\* Events after which the run is killed.
IsTrigger(e) ==
    \/ e.kind \in {"VIOLATION", "OVERLOAD_SUMMARY", "KILL_ACKNOWLEDGED"}
    \/ e.kind = "DECISION" /\ e.verdict = "KILL"

TypeOK ==
    /\ phase \in Phases
    /\ clock \in 0..MaxClock
    /\ mirrored \in 0..Len(events) /\ Len(events) <= MaxEvents
    /\ containOwner \in Threads \cup {Free}
    /\ receiptOwner \in Threads \cup {Free}
    /\ cancelled \subseteq registered /\ registered \subseteq Workers
    /\ released \subseteq Workers

\* The kill latched by fail_closed, a KILL verdict, an overload or the deadline
\* comes before its event, so no DISPATCH follows that event in the ledger.
NoDispatchAfterLatchedTrigger ==
    \A i \in 1..Len(events) \ Malformed, j \in Dispatches : IsTrigger(events[i]) => j < i

\* "A trusted violation observation must automatically isolate the workload
\* before any later dispatch": no DISPATCH follows any trigger in the ledger.
NoDispatchAfterTrigger ==
    \A i \in 1..Len(events), j \in Dispatches : IsTrigger(events[i]) => j < i

\* No DISPATCH is committed unless its REQUEST and its ALLOW decision were
\* committed and mirrored before, and no authorization has two.
DispatchIsAuthorized ==
    \A j \in Dispatches :
        /\ \E i \in 1..(j - 1) :
              /\ i <= mirrored
              /\ events[i].kind = "DECISION" /\ events[i].verdict = "ALLOW"
              /\ events[i].auth = events[j].auth
              /\ events[i].ref \in 1..(i - 1)
              /\ events[events[i].ref].kind = "REQUEST"
              /\ events[events[i].ref].req = events[j].req
        /\ \A k \in Dispatches : events[k].auth = events[j].auth => k = j

\* The isolate callback runs at most once, and has run when the run is KILLED.
IsolatedOnce ==
    /\ isolations <= 1
    /\ phase = "KILLED" => isolations = 1

\* Outside contain, kill_acknowledgement is exactly what the mirror has seen: a
\* published acknowledgement was logged and mirrored, and it is the only one.
AckIsLogged ==
    LET logged == {i \in Kinds({"KILL_ACKNOWLEDGED"}) : i <= mirrored}
    IN  containOwner = Free =>
          {events[i].ack : i \in logged} = {ack} \ {NoAck}

\* The root the witness signed, and so the receipt, is the mirror's for good.
WitnessedRootStands ==
    /\ root # NoRoot => root = mirrored /\ sealed
    /\ receipt # NoReceipt => receipt.count = root

\* A frozen receipt never changes.
ReceiptIsFrozen ==
    [][receipt # NoReceipt => UNCHANGED <<receipt, events, mirrored>>]_containmentVars

Switch == INSTANCE KillSwitch WITH
    mode <- phase, used <- {events[i].auth : i \in Dispatches}

\* Evidence and all, the runtime implements the kill switch: an authorization
\* gets its DISPATCH event at most once, and only while the run is RUNNING.
ImplementsKillSwitch == Switch!Spec

\* A latched kill is carried through: the workload is isolated, the run KILLED
\* and the kill acknowledged or recorded as a supervisor failure, even if the
\* transport of a dispatch in flight never answers, a commit fails or the event
\* budget runs out on the way.
KillCompletes ==
    phase = "KILLING" ~> phase = "KILLED" /\ (ack # NoAck \/ emergency)

-----------------------------------------------------------------------------
\* No request is being handled and nobody is containing.
Quiet ==
    /\ \A t \in Workers \cup Replayers : pc[t] \in {"idle", "replay", "done"}
    /\ containOwner = Free

\* The adapter's callers give every request an id of its own.
DistinctIds == \A v, w \in Workers : RequestOf[v] = RequestOf[w] => v = w

\* Violations of the runtime deadline that the mirror refused: the watchdog stamped
\* them before it latched, another thread logged in between, and all the hook does
\* is raise.
Overtaken == {i \in Kinds({"VIOLATION"}) : events[i].reason = "runtime" /\ i > mirrored}

\* What contain signs always validates (KillAcknowledgementBody), although it
\* counts the leases, signals the registry and hears from the isolation backend
\* one after the other while dispatches come and go: a killed run that has gone
\* quiet has its acknowledgement unless a commit failed.
AckUnlessEmergency == Quiet /\ phase = "KILLED" /\ ~emergency => ack # NoAck

\* "assert report.valid and report.killed" after a dispatch raced a kill: a run
\* that was killed without an evidence fault has its acknowledgement.
KillIsAcknowledged ==
    Quiet /\ phase = "KILLED" /\ faults = MaxFaults => ack # NoAck /\ ~emergency

\* "Later burst traffic MUST only increment bounded counters": no event is
\* logged for a request that arrived after the kill was acknowledged.
NoEventPerLateRequest ==
    \A i, j \in 1..Len(events) :
        /\ events[i].kind = "KILL_ACKNOWLEDGED"
        /\ events[j].kind = "VIOLATION" /\ events[j].reason = "runtime"
        => events[j].ns <= events[i].ns

\* "DISPATCH used an expired authorization": none is stamped after its expiry.
DispatchBeforeExpiry ==
    \A i, j \in 1..Len(events) :
        /\ events[i].kind = "DECISION" /\ events[j].kind = "DISPATCH"
        /\ events[i].auth = events[j].auth
        => events[j].ns <= events[i].expiry

\* A killed or completed run that has gone quiet and in which no commit failed, no
\* clock stepped back, no violation was overtaken, and no dispatch came late or
\* behind a malformed request.
QuietRun ==
    /\ Quiet /\ phase \in {"KILLED", "COMPLETED"}
    /\ ~emergency /\ faults = MaxFaults /\ wallSteps = 0
    /\ DistinctIds /\ Overtaken = {} /\ DispatchBeforeExpiry
    /\ \A i \in Malformed, j \in Dispatches : j < i

\* A killed run eventually gets its receipt if somebody keeps asking for it.
KilledRunGetsReceipt == phase = "KILLED" ~> receipt # NoReceipt
=============================================================================
