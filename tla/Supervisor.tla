----------------------------- MODULE Supervisor -----------------------------
(***************************************************************************)
(* Supervisor (app/supervisor.py): containment, emergency isolation, the   *)
(* runtime watchdog, completion and the receipt.  Threads run its methods  *)
(* concurrently; a step ends where another thread can observe or change    *)
(* something: at a lock of another object, or at an attribute that another *)
(* method reads without the lock (kill_acknowledgement, _emergency_failure *)
(* between contain and receipt).                                           *)
(*                                                                         *)
(* Evidence is committed through AtomicLedger.                             *)
(***************************************************************************)
EXTENDS RunState, Sequences

CONSTANTS
    Threads,         \* every thread
    Watchdogs,       \* those that poll enforce_runtime_deadline
    Completers,      \* those that call complete
    Reporters,       \* those that call receipt until they get one
    Free,            \* the value of a lock nobody holds
    MaxEvents,       \* criteria.max_total_events
    Deadline,        \* criteria.max_runtime_ms, from a start at time 0
    MaxClock,        \* bound on the clock
    MaxFaults,       \* bound on commits that fail for want of a slot or disk
    Cancelling,      \* the isolation backend ends dispatches and reports them
    MaxWallSteps     \* bound on steps back of the wall clock

ASSUME ThreadAssumption ==
    /\ Watchdogs \cup Completers \cup Reporters \subseteq Threads
    /\ Free \notin Threads
    /\ {MaxEvents, Deadline, MaxClock, MaxFaults, MaxWallSteps} \subseteq Nat
    /\ Cancelling \in BOOLEAN

VARIABLES
    clock,           \* time.monotonic_ns
    events, mirrored, sealed,        \* the ledger and its mirror
    faults,          \* commits that may still fail for a passing reason
    ack,             \* kill_acknowledgement
    emergency,       \* _emergency_failure
    isolation,       \* inflight_cancelled of _isolation_result; NotIsolated = None
    isolations,      \* calls of the isolate callback
    containOwner,    \* holder of _contain_lock
    draft,           \* what its holder has noted for the acknowledgement
    wallSteps,       \* steps back of the wall clock so far
    receiptOwner,    \* holder of _receipt_lock
    snap,            \* its holder's snapshot, status and finished_ns
    receipt,         \* _receipt
    root,            \* the root registered with the witness
    registered,      \* InflightRegistry._events: its keys ...
    cancelled,       \* ... and those whose event is set
    pc,              \* where each thread is
    stamp,           \* the clock reading each thread carries
    trigger,         \* the position of its trigger_event
    after,           \* where it goes when contain returns or raises
    resume           \* where it goes when emergency_isolate does

evidenceVars == <<events, mirrored, sealed, faults>>
isolateVars  == <<isolation, isolations>>
containVars  == <<ack, emergency, isolateVars, containOwner, draft, wallSteps>>
receiptVars  == <<receiptOwner, snap, receipt, root>>
registryVars == <<registered, cancelled>>
returnVars   == <<after, resume>>
localVars    == <<stamp, trigger, returnVars>>

supervisorVars == <<stateVars, clock, evidenceVars, containVars, receiptVars,
                    registryVars, pc, localVars>>

Ledger == INSTANCE AtomicLedger

NoAck       == [trigger |-> 0]
NoReceipt   == [status |-> "NONE"]
NoRoot      == -1
NotIsolated == -1

\* inflight and the cancellation signals counted by contain, acknowledged_ns, and
\* whether acknowledged_at is earlier than requested_at.
NoDraft == [inflight |-> 0, signalled |-> 0, ns |-> 0, back |-> FALSE]

InitSupervisor ==
    /\ InitState
    /\ clock = 0
    /\ Ledger!Init
    /\ faults = MaxFaults
    /\ ack = NoAck /\ emergency = FALSE
    /\ isolation = NotIsolated /\ isolations = 0
    /\ containOwner = Free /\ draft = NoDraft /\ wallSteps = 0
    /\ receiptOwner = Free /\ snap = NoReceipt
    /\ receipt = NoReceipt /\ root = NoRoot
    /\ registered = {} /\ cancelled = {}
    /\ stamp = [t \in Threads |-> 0] /\ trigger = [t \in Threads |-> 0]
    /\ after = [t \in Threads |-> "done"] /\ resume = [t \in Threads |-> "done"]

Goto(t, label) == pc' = [pc EXCEPT ![t] = label]

\* A reading of the monotonic clock.
ReadClock(ns) ==
    /\ ns \in {clock, clock + 1}
    /\ ns <= MaxClock
    /\ clock' = ns

-----------------------------------------------------------------------------
\* EvidenceLedger.commit(commit_observation, ...): returns, or raises.

CommitOk(e) == Ledger!CommitMirrored(e) /\ UNCHANGED faults

CommitRaises(e) ==
    \/ Ledger!Refuses /\ UNCHANGED evidenceVars
    \/ Ledger!CommitUnmirrored(e) /\ UNCHANGED faults
    \/ /\ faults > 0
       /\ faults' = faults - 1
       /\ UNCHANGED <<events, mirrored, sealed>>

Violation(reason, ns) == [kind |-> "VIOLATION", reason |-> reason, ns |-> ns]

-----------------------------------------------------------------------------
\* contain

LeaveContain(t) ==
    /\ containOwner' = Free
    /\ draft' = NoDraft
    /\ Goto(t, after[t])

\* An acknowledged kill is returned as it is; otherwise latch, and note how
\* many dispatches are in flight.
Contain(t) ==
    /\ pc[t] = "contain" /\ containOwner = Free
    /\ \/ /\ ack # NoAck
          /\ Goto(t, after[t])
          /\ UNCHANGED <<stateVars, containVars>>
       \/ /\ ack = NoAck
          /\ containOwner' = t
          /\ LatchKill
          /\ draft' = [NoDraft EXCEPT !.inflight = inflight]
          /\ Goto(t, "signal")
          /\ UNCHANGED <<ack, emergency, isolateVars, wallSteps>>
    /\ UNCHANGED <<clock, evidenceVars, receiptVars, registryVars, localVars>>

\* Mutant of SignalInflight: cancel_inflight is left at its default, which
\* signals nobody.
SignalNobody(t) ==
    /\ pc[t] = "signal"
    /\ Goto(t, "isolate")
    /\ UNCHANGED <<stateVars, clock, evidenceVars, containVars, receiptVars,
                   registryVars, localVars>>

Lesser(m, n) == IF m <= n THEN m ELSE n

\* cancel_inflight, which is InflightRegistry.signal_all; what is signalled may
\* be fewer, or more, than the leases counted before.
SignalInflight(t) ==
    /\ pc[t] = "signal"
    /\ cancelled' = registered
    /\ draft' = [draft EXCEPT !.signalled = Lesser(Cardinality(registered), draft.inflight)]
    /\ Goto(t, "isolate")
    /\ UNCHANGED <<stateVars, clock, evidenceVars, ack, emergency, isolateVars,
                   containOwner, wallSteps, receiptVars, registered, localVars>>

\* What the isolation backend may report as cancelled: nothing when it only
\* simulates, at most the dispatches that wait for their transport otherwise.
Reports ==
    IF Cancelling THEN 0..Cardinality({t \in Threads : pc[t] = "transport"}) ELSE {0}

\* Mutant of IsolateOnce: the flag is not consulted.
IsolateAgain ==
    /\ isolation' \in Reports
    /\ isolations' = isolations + 1

\* The callback runs once; later containments reuse its report.
IsolateOnce ==
    \/ /\ isolation = NotIsolated
       /\ isolation' \in Reports
       /\ isolations' = isolations + 1
    \/ isolation # NotIsolated /\ UNCHANGED isolateVars

Isolate(t) ==
    /\ pc[t] = "isolate"
    /\ IsolateOnce
    /\ \E ns \in 0..MaxClock, steps \in wallSteps..MaxWallSteps :
          /\ ReadClock(ns)
          /\ wallSteps' = steps
          /\ draft' = [draft EXCEPT !.ns = ns, !.back = steps > wallSteps]
    /\ Goto(t, "mark")
    /\ UNCHANGED <<stateVars, evidenceVars, ack, emergency, containOwner,
                   receiptVars, registryVars, localVars>>

\* mark_killed; on a completed run it raises, and so does contain.
MarkContained(t) ==
    /\ pc[t] = "mark"
    /\ \/ /\ MarkKilled
          /\ Goto(t, "sign")
          /\ UNCHANGED <<containOwner, draft>>
       \/ /\ phase \notin {"KILLING", "KILLED"}
          /\ LeaveContain(t)
          /\ UNCHANGED stateVars
    /\ UNCHANGED <<clock, evidenceVars, ack, emergency, isolateVars, wallSteps,
                   receiptVars, registryVars, localVars>>

\* KillAcknowledgementBody.timing_is_coherent.  The monotonic readings are in
\* order and signalled <= inflight by construction.
AckCoherent ==
    /\ ~draft.back
    /\ isolation <= draft.inflight
    /\ isolation <= draft.signalled

\* An acknowledgement that does not validate makes contain raise, with the run
\* already KILLED; one that does is published before it is logged.
SignAck(t) ==
    /\ pc[t] = "sign"
    /\ \/ /\ AckCoherent
          /\ ack' = [trigger |-> trigger[t], inflight |-> draft.inflight,
                     ns |-> draft.ns]
          /\ Goto(t, "log")
          /\ UNCHANGED <<containOwner, draft>>
       \/ ~AckCoherent /\ LeaveContain(t) /\ UNCHANGED ack
    /\ UNCHANGED <<stateVars, clock, evidenceVars, emergency, isolateVars,
                   wallSteps, receiptVars, registryVars, localVars>>

LogAck(t) ==
    /\ pc[t] = "log"
    /\ LET e == [kind |-> "KILL_ACKNOWLEDGED", ack |-> ack, ns |-> ack.ns]
       IN  \/ /\ CommitOk(e)
              /\ LeaveContain(t)
           \/ /\ CommitRaises(e)
              /\ Goto(t, "unsign")
              /\ UNCHANGED <<containOwner, draft>>
    /\ UNCHANGED <<stateVars, clock, ack, emergency, isolateVars, wallSteps,
                   receiptVars, registryVars, localVars>>

\* Mutant of UnsignAck: the unlogged acknowledgement stays published.
UnsignAckKept(t) ==
    /\ pc[t] = "unsign"
    /\ emergency' = TRUE
    /\ LeaveContain(t)
    /\ UNCHANGED <<stateVars, clock, evidenceVars, ack, isolateVars, wallSteps,
                   receiptVars, registryVars, localVars>>

\* The commit raised: the acknowledgement is withdrawn.
UnsignAck(t) ==
    /\ pc[t] = "unsign"
    /\ emergency' = TRUE
    /\ ack' = NoAck
    /\ LeaveContain(t)
    /\ UNCHANGED <<stateVars, clock, evidenceVars, isolateVars, wallSteps,
                   receiptVars, registryVars, localVars>>

-----------------------------------------------------------------------------
\* emergency_isolate

EmergencyLatch(t) ==
    /\ pc[t] = "emergency" /\ containOwner = Free
    /\ containOwner' = t
    /\ emergency' = TRUE
    /\ LatchKill
    /\ Goto(t, "cut")
    /\ UNCHANGED <<clock, evidenceVars, ack, isolateVars, draft, wallSteps,
                   receiptVars, registryVars, localVars>>

\* mark_killed raises on a completed run; the caller is unwinding anyway.
EmergencyCut(t) ==
    /\ pc[t] = "cut"
    /\ IsolateOnce
    /\ MarkKilled \/ (phase \notin {"KILLING", "KILLED"} /\ UNCHANGED stateVars)
    /\ containOwner' = Free
    /\ Goto(t, resume[t])
    /\ UNCHANGED <<clock, evidenceVars, ack, emergency, draft, wallSteps,
                   receiptVars, registryVars, localVars>>

-----------------------------------------------------------------------------
\* enforce_runtime_deadline, polled.

Watch(t) ==
    /\ pc[t] = "watch"
    /\ \E ns \in 0..MaxClock :
          /\ ReadClock(ns)
          /\ \/ /\ phase # "RUNNING" \/ ns <= Deadline
                /\ UNCHANGED <<pc, stamp>>
             \/ /\ phase = "RUNNING" /\ ns > Deadline
                /\ stamp' = [stamp EXCEPT ![t] = ns]
                /\ Goto(t, "watch_latch")
    /\ UNCHANGED <<stateVars, evidenceVars, containVars, receiptVars,
                   registryVars, trigger, returnVars>>

\* Mutant of WatchLatch: latching is left to contain.
WatchLatchLate(t) ==
    /\ pc[t] = "watch_latch"
    /\ Goto(t, "watch_commit")
    /\ UNCHANGED <<stateVars, clock, evidenceVars, containVars, receiptVars,
                   registryVars, localVars>>

WatchLatch(t) ==
    /\ pc[t] = "watch_latch"
    /\ LatchKill
    /\ Goto(t, "watch_commit")
    /\ UNCHANGED <<clock, evidenceVars, containVars, receiptVars, registryVars,
                   localVars>>

\* When the commit raises, so does the hook: nothing is isolated.
WatchCommit(t) ==
    /\ pc[t] = "watch_commit"
    /\ LET e == Violation("runtime", stamp[t])
       IN  \/ /\ CommitOk(e)
              /\ trigger' = [trigger EXCEPT ![t] = Len(events')]
              /\ after' = [after EXCEPT ![t] = "watch"]
              /\ Goto(t, "contain")
           \/ /\ CommitRaises(e)
              /\ Goto(t, "watch")
              /\ UNCHANGED <<trigger, after>>
    /\ UNCHANGED <<stateVars, clock, containVars, receiptVars, registryVars,
                   stamp, resume>>

-----------------------------------------------------------------------------
\* complete and receipt

Complete(t) ==
    /\ pc[t] = "complete"
    /\ \/ MarkCompleted /\ Goto(t, "report")
       \/ phase # "RUNNING" /\ Goto(t, "done") /\ UNCHANGED stateVars
    /\ UNCHANGED <<clock, evidenceVars, containVars, receiptVars, registryVars,
                   localVars>>

\* A frozen receipt is returned; a run that is not over has none.
OpenReceipt(t) ==
    /\ pc[t] = "report" /\ receiptOwner = Free
    /\ \/ /\ receipt # NoReceipt
          /\ Goto(t, "done")
          /\ UNCHANGED <<receiptOwner, snap>>
       \/ /\ receipt = NoReceipt
          /\ phase \in {"KILLED", "COMPLETED"}
          /\ receiptOwner' = t
          /\ snap' = [status |-> phase, finished |-> 0,
                      observed |-> observed, admitted |-> admitted,
                      allowed |-> allowed, denied |-> denied,
                      dispatched |-> dispatched, completed |-> completed,
                      rejected |-> rejected, dropped |-> dropped]
          /\ Goto(t, "status")
    /\ UNCHANGED <<stateVars, clock, evidenceVars, containVars, receipt, root,
                   registryVars, localVars>>

DeriveStatus(t) ==
    /\ pc[t] = "status"
    /\ snap' = [snap EXCEPT !.status = IF emergency THEN "SUPERVISOR_FAILURE" ELSE @]
    /\ Goto(t, "seal")
    /\ UNCHANGED <<stateVars, clock, evidenceVars, containVars, receiptOwner,
                   receipt, root, registryVars, localVars>>

\* Mutant of SealEvidence: the ledger stays open.
SealForgotten(t) ==
    /\ pc[t] = "seal"
    /\ \E ns \in 0..MaxClock : ReadClock(ns) /\ snap' = [snap EXCEPT !.finished = ns]
    /\ root' = IF root = NoRoot THEN mirrored ELSE root
    /\ Goto(t, "freeze")
    /\ UNCHANGED <<stateVars, evidenceVars, containVars, receiptOwner, receipt,
                   registryVars, localVars>>

\* seal, read the clock, and have the witness sign the mirror's root; sealed,
\* the mirror no longer moves.  The witness keeps the first root of a run.
SealEvidence(t) ==
    /\ pc[t] = "seal"
    /\ Ledger!Seal /\ UNCHANGED faults
    /\ \E ns \in 0..MaxClock : ReadClock(ns) /\ snap' = [snap EXCEPT !.finished = ns]
    /\ root' = IF root = NoRoot THEN mirrored ELSE root
    /\ Goto(t, "freeze")
    /\ UNCHANGED <<stateVars, containVars, receiptOwner, receipt, registryVars,
                   localVars>>

\* ReceiptBody.receipt_is_coherent
Coherent(s, a) ==
    /\ s.admitted <= s.observed
    /\ s.allowed + s.denied <= s.admitted
    /\ s.dispatched <= s.allowed
    /\ s.completed <= s.dispatched
    /\ s.rejected + s.dropped <= s.observed
    /\ s.status = "KILLED" <=> a # NoAck
    /\ a # NoAck => a.ns <= s.finished

\* The body reads kill_acknowledgement now; if it does not validate, receipt
\* raises with the ledger sealed, and a reporter may ask again.
Freeze(t) ==
    /\ pc[t] = "freeze"
    /\ \/ /\ Coherent(snap, ack)
          /\ receipt' = [status |-> snap.status, count |-> root, ack |-> ack,
                         allowed |-> snap.allowed, denied |-> snap.denied,
                         dispatched |-> snap.dispatched,
                         completed |-> snap.completed]
          /\ Goto(t, "done")
       \/ /\ ~Coherent(snap, ack)
          /\ Goto(t, IF t \in Reporters THEN "report" ELSE "done")
          /\ UNCHANGED receipt
    /\ receiptOwner' = Free
    /\ snap' = NoReceipt
    /\ UNCHANGED <<stateVars, clock, evidenceVars, containVars, root, registryVars,
                   localVars>>

-----------------------------------------------------------------------------
ContainStep(t) ==
    \/ Contain(t) \/ SignalInflight(t) \/ Isolate(t) \/ MarkContained(t)
    \/ SignAck(t) \/ LogAck(t) \/ UnsignAck(t)

EmergencyStep(t) == EmergencyLatch(t) \/ EmergencyCut(t)

WatchStep(t) == Watch(t) \/ WatchLatch(t) \/ WatchCommit(t)

ReceiptStep(t) ==
    \/ Complete(t) \/ OpenReceipt(t) \/ DeriveStatus(t) \/ SealEvidence(t)
    \/ Freeze(t)

SupervisorStep(t) ==
    ContainStep(t) \/ EmergencyStep(t) \/ WatchStep(t) \/ ReceiptStep(t)
=============================================================================
