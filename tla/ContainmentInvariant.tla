------------------------ MODULE ContainmentInvariant ------------------------
(***************************************************************************)
(* The invariants of the composed runtime, for every number of workers,    *)
(* replayers, watchdogs, completers and reporters and for every bound.     *)
(*                                                                         *)
(* The argument is rely-guarantee.  An invariant is a part about shared    *)
(* state and a claim per thread that depends on where the thread is; every *)
(* step of a thread keeps to Guarantee, whatever it is, and establishes    *)
(* the thread's own claim; the guarantee preserves the shared part and the *)
(* claim of every other thread.                                            *)
(*                                                                         *)
(* This module states the invariant of the kill switch, ContainmentInv,    *)
(* with its guarantee, the one of the acknowledgement, KillInv, and what   *)
(* requests handled one after the other add: AnswerInv, MalformedInv and   *)
(* InSequence.  Modules ContainmentProofs and AcknowledgementProofs prove  *)
(* them.                                                                   *)
(***************************************************************************)
EXTENDS Containment

\* Where a thread is only after somebody latched the kill.
LatchedLabels ==
    {"late_commit", "overload_commit", "kill_commit", "fail_commit", "watch_commit",
     "sign", "log"}

\* Where a thread holds _receipt_lock.
ReceiptLabels == {"status", "seal", "freeze"}

\* Where a worker is between the admission of its request and its capability.
SubmitLabels ==
    {"idle", "late_latch", "admit", "malformed_commit", "request_commit", "decide",
     "sign_decision", "decision_commit", "record"}

\* Where a thread has a capability in hand.
DispatchLabels == {"dispatch", "register", "begin", "transport", "finish", "abort", "check"}

\* A trigger whose kill was latched before it was logged.
LatchedTrigger(e) == IsTrigger(e) /\ ~(e.kind = "VIOLATION" /\ e.reason = "malformed")

\* The mirror has accepted the REQUEST of worker w at position i.
RequestAt(w, i) ==
    i \in 1..mirrored /\ events[i].kind = "REQUEST" /\ events[i].req = RequestOf[w]

\* The mirror has accepted the ALLOW decision of worker w, for its request.
Authorized(w) ==
    \E i \in 1..mirrored :
        /\ events[i].kind = "DECISION" /\ events[i].verdict = "ALLOW"
        /\ events[i].auth = w
        /\ events[i].ref < i /\ RequestAt(w, events[i].ref)

-----------------------------------------------------------------------------
\* What holds of shared state whoever is where.

TypesOK ==
    /\ phase \in Phases
    /\ events \in Seq({events[i] : i \in 1..Len(events)})
    /\ mirrored \in 0..Len(events)
    /\ DOMAIN pc = Threads
    /\ after \in [Threads -> {"done", "watch", "unregister"}]
    /\ resume \in [Threads -> {"done", "fail_last"}]
    /\ DOMAIN trigger = Threads
    /\ DOMAIN target = Workers \cup Replayers
    /\ DOMAIN decision = Workers
    /\ released \subseteq Workers

\* The kill is latched before the ledger shows it or a decision orders it.
LatchInv ==
    /\ \A i \in 1..Len(events) : LatchedTrigger(events[i]) => phase # "RUNNING"
    /\ \A w \in Workers : decision[w].verdict = "KILL" => phase # "RUNNING"
    /\ NoDispatchAfterLatchedTrigger

\* Capabilities out are authorized, and those used are consumed.
CapabilityInv ==
    /\ \A w \in Workers : decision[w].verdict # "NONE" => decision[w].id = w
    /\ \A w \in released : Authorized(w)
    /\ \A j \in Dispatches : events[j].auth \in consumed \cap Workers
    /\ DispatchIsAuthorized

IsolationInv ==
    /\ isolations = IF isolation = NotIsolated THEN 0 ELSE 1
    /\ phase = "KILLED" => isolation # NotIsolated

\* The witness has signed the root of a sealed ledger, and a receipt is about it.
ReceiptInv ==
    /\ root # NoRoot => root = mirrored /\ sealed
    /\ receipt # NoReceipt => root # NoRoot /\ receipt.count = root

Shared == TypesOK /\ LatchInv /\ CapabilityInv /\ IsolationInv /\ ReceiptInv

\* What holds of thread t where it is.
Claim(t) ==
    /\ pc[t] \in LatchedLabels => phase # "RUNNING"
    /\ pc[t] = "mark" => isolation # NotIsolated
    /\ pc[t] \in ReceiptLabels => receiptOwner = t /\ receipt = NoReceipt
    /\ pc[t] = "freeze" => root # NoRoot
    /\ pc[t] \in SubmitLabels => t \in Workers /\ target[t] = t
    /\ pc[t] \in {"decide", "sign_decision", "decision_commit"} => RequestAt(t, trigger[t])
    /\ pc[t] = "record" /\ decision[t].verdict = "ALLOW" => Authorized(t)
    /\ pc[t] \in DispatchLabels =>
          t \in Workers \cup Replayers /\ target[t] \in Workers /\ Authorized(target[t])

ContainmentInv == Shared /\ \A t \in Threads : Claim(t)

-----------------------------------------------------------------------------
\* A step of thread t.
Step(t) ==
    \/ t \in Workers /\ Arrive(t) /\ UNCHANGED target
    \/ t \in Replayers /\ Replay(t)
    \/ Proceed(t)
    \/ Transport(t)

\* What a step of thread t may do to shared state.

PhaseMoves ==
    \/ phase' = phase
    \/ phase = "RUNNING" /\ phase' \in {"KILLING", "COMPLETED"}
    \/ phase = "KILLING" /\ phase' = "KILLED" /\ isolation' # NotIsolated

IsolationMoves ==
    \/ UNCHANGED isolateVars
    \/ isolation = NotIsolated /\ isolation' # NotIsolated /\ isolations' = isolations + 1

\* A DISPATCH is committed while the run is RUNNING, for an authorized capability
\* that this step consumes.
MayDispatch(e) ==
    /\ phase = "RUNNING" /\ phase' \in {"RUNNING", "KILLING"}
    /\ e.auth \in Workers /\ e.req = RequestOf[e.auth]
    /\ e.auth \notin consumed /\ e.auth \in consumed'
    /\ Authorized(e.auth)

Permitted(e) ==
    /\ LatchedTrigger(e) => phase' # "RUNNING"
    /\ e.kind = "DISPATCH" => MayDispatch(e)

Adds(e) ==
    /\ ~sealed
    /\ events' = Append(events, e)
    /\ mirrored' = mirrored \/ (mirrored = Len(events) /\ mirrored' = mirrored + 1)

LedgerMoves ==
    \/ UNCHANGED <<events, mirrored>>
    \/ \E e : Adds(e) /\ Permitted(e)

ReceiptMoves(t) ==
    /\ sealed => sealed'
    /\ \/ root' = root
       \/ root = NoRoot /\ root' = mirrored /\ mirrored' = mirrored /\ sealed'
    /\ \/ receipt' = receipt
       \/ /\ receiptOwner = t /\ receipt = NoReceipt
          /\ root # NoRoot /\ root' = root /\ receipt'.count = root
    /\ receiptOwner \in Threads \ {t} => receiptOwner' = receiptOwner

DecisionMoves(t) ==
    \/ decision' = decision
    \/ /\ t \in Workers
       /\ \E d : /\ decision' = [decision EXCEPT ![t] = d]
                 /\ d.id = t
                 /\ d.verdict = "KILL" => phase' # "RUNNING"

ReleaseMoves(t) ==
    \/ released' = released
    \/ t \in Workers /\ released' = released \cup {t} /\ Authorized(t)

\* The thread's own variables, and nobody else's.
Jumps(t) ==
    /\ DOMAIN pc' = Threads
    /\ \A u \in Threads \ {t} : pc'[u] = pc[u]

LocalMoves(t) ==
    /\ after' \in [Threads -> {"done", "watch", "unregister"}]
    /\ resume' \in [Threads -> {"done", "fail_last"}]
    /\ DOMAIN trigger' = Threads
    /\ DOMAIN target' = Workers \cup Replayers
    /\ \A u \in Threads \ {t} :
          trigger'[u] = trigger[u] /\ target'[u] = target[u] /\ after'[u] = after[u]

Guarantee(t) ==
    /\ PhaseMoves
    /\ IsolationMoves
    /\ LedgerMoves
    /\ ReceiptMoves(t)
    /\ consumed \subseteq consumed'
    /\ DecisionMoves(t)
    /\ ReleaseMoves(t)
    /\ Jumps(t)
    /\ LocalMoves(t)

(***************************************************************************)
(* The kill acknowledgement.  contain counts the leases, signals the       *)
(* registry, hears from the isolation backend, marks the run KILLED, signs *)
(* and logs, one after the other, while dispatches come and go.  That what *)
(* it signs validates needs three facts of three components: RunState      *)
(* counts its leases, the registry holds every dispatch that waits for its *)
(* transport, and nobody but the holder of _contain_lock kills or isolates.*)
(***************************************************************************)

\* Where a thread holds _contain_lock.
ContainLabels == {"signal", "isolate", "mark", "sign", "log", "unsign", "cut"}

\* Where a thread is when it fails closed or contains.
FailLabels ==
    {"fail", "fail_latch", "fail_commit", "fail_last", "contain", "emergency"}
        \cup ContainLabels

\* Where a dispatch is between register and unregister, unless it fails closed.
HoldLabels == {"begin", "transport", "finish", "abort", "check", "unregister"}

\* The dispatch of thread t is registered.
Holds(t) == pc[t] \in HoldLabels \/ (after[t] = "unregister" /\ pc[t] # "done")

Transporting == {t \in Threads : pc[t] = "transport"}

Leased == {a \in Auths : active[a] > 0}

\* The acknowledgements the mirror has accepted.
Logged == {i \in Kinds({"KILL_ACKNOWLEDGED"}) : i <= mirrored}
LoggedAcks == {events[i].ack : i \in Logged}

\* No commit has failed, the wall clock has not stepped back, and the run did
\* not complete.
Calm == ~emergency /\ wallSteps = 0 /\ phase # "COMPLETED"

-----------------------------------------------------------------------------
\* RunState counts its leases; a lease is for a consumed authorization.
LeaseInv ==
    /\ active \in [Auths -> Nat]
    /\ inflight = Cardinality(Leased)
    /\ Leased \subseteq consumed
    /\ registered \subseteq Workers

\* A dispatch under way is registered, nobody else's is under its authorization,
\* and while it waits for the transport it has a lease.
HoldClaim(t) ==
    /\ after[t] = "unregister" => pc[t] \in FailLabels \cup {"unregister", "done"}
    /\ Holds(t) => t \in Workers \cup Replayers /\ target[t] \in registered
    /\ \A u \in Threads \ {t} : Holds(t) /\ Holds(u) => target[u] # target[t]
    /\ pc[t] = "transport" /\ phase # "KILLED" => target[t] \in Leased

DraftOK ==
    /\ DOMAIN draft = {"inflight", "signalled", "ns", "back"}
    /\ draft.inflight \in Nat /\ draft.signalled \in Nat

\* Outside contain, the acknowledgement is what was logged, and in calm it is
\* there exactly when the run is KILLED.
AckInv ==
    /\ wallSteps \in Nat
    /\ DraftOK
    /\ containOwner = Free =>
          /\ LoggedAcks = {ack} \ {NoAck}
          /\ Calm /\ phase # "KILLED" => isolation = NotIsolated /\ ack = NoAck
          /\ Calm /\ phase = "KILLED" => ack # NoAck

\* What the holder of _contain_lock knows on its way to the acknowledgement.
AckClaim(t) ==
    /\ pc[t] \in ContainLabels => containOwner = t
    /\ pc[t] \in ContainLabels \ {"cut"} => LoggedAcks = {}
    /\ pc[t] \in {"signal", "isolate", "mark", "sign"} => ack = NoAck
    /\ pc[t] = "log" => ack # NoAck
    /\ pc[t] = "cut" => emergency /\ LoggedAcks = {ack} \ {NoAck}
    /\ Calm =>
          /\ pc[t] \in {"signal", "isolate"} =>
                /\ phase = "KILLING" /\ isolation = NotIsolated /\ ~draft.back
                /\ Cardinality(Transporting) <= draft.inflight
          /\ pc[t] = "isolate" => Cardinality(Transporting) <= draft.signalled
          /\ pc[t] \in {"mark", "sign"} => AckCoherent
          /\ pc[t] = "mark" => phase = "KILLING"
          /\ pc[t] \in {"sign", "log"} => phase = "KILLED"

KillInv ==
    /\ LeaseInv /\ AckInv
    /\ \A t \in Threads : HoldClaim(t) /\ AckClaim(t)

\* Only workers and replayers are ever in the gateway or in the executor.
RoleInv ==
    \A t \in Threads \ (Workers \cup Replayers) :
        /\ pc[t] \in {"watch", "watch_latch", "watch_commit", "complete", "report", "status",
                      "seal", "freeze", "contain", "signal", "isolate", "mark", "sign", "log",
                      "unsign", "done"}
        /\ after[t] \in {"done", "watch"}

(***************************************************************************)
(* What a request ends with.  Where only workers dispatch, each its own    *)
(* capability, neither the registry nor a cancellation stops a dispatch    *)
(* while the run goes on; where workers take turns, a malformed request    *)
(* has latched the kill before the next one gets that far.                 *)
(***************************************************************************)

\* Where a thread is only when the run is no longer RUNNING.
ClosedLabels ==
    LatchedLabels \cup {"contain", "signal", "isolate", "mark", "unsign", "cut", "fail_last"}

\* Where the authorization of a worker is not registered yet.
FreshLabels == SubmitLabels \cup {"dispatch", "register"}

\* Where nobody has submitted a request.
NoRequestLabels == ReceiptLabels \cup {"idle", "complete", "report"}

\* The RESULT of worker w is in the ledger.
Answered(w) == \E i \in Kinds({"RESULT"}) : events[i].auth = w

AnswerClaim(t) ==
    /\ pc[t] \in ClosedLabels => phase # "RUNNING"
    /\ pc[t] \in DispatchLabels => t \in Workers
    /\ t \in Workers =>
          /\ pc[t] \in FreshLabels => t \notin registered
          /\ pc[t] \in NoRequestLabels => input[t] = "none"
          /\ pc[t] \in {"unregister", "done"} =>
                input[t] = "none" \/ phase # "RUNNING" \/ Answered(t)

AnswerInv ==
    /\ \A w \in Workers : target[w] = w
    /\ DOMAIN input = Workers
    /\ cancelled # {} => phase # "RUNNING"
    /\ \A t \in Threads : AnswerClaim(t)

\* A step of thread t but to present a capability again.
OwnStep(t) ==
    (t \in Workers /\ Arrive(t) /\ UNCHANGED target) \/ Proceed(t) \/ Transport(t)

\* A client goes away before its request is submitted.
Leaves(w) ==
    /\ pc[w] = "idle" /\ Goto(w, "done")
    /\ UNCHANGED <<stateVars, clock, evidenceVars, containVars, receiptVars, registryVars,
                   localVars, gatewayVars, target>>

\* What OwnStep(t) may do to what the claims of others are about.
AnswerMoves(t) ==
    /\ target' = target /\ DOMAIN input' = Workers
    /\ cancelled' \subseteq cancelled \/ phase' # "RUNNING"
    /\ \A w \in Workers \ {t} : input'[w] = input[w] /\ (w \in registered' => w \in registered)

\* What thread t may log: a DISPATCH in begin_authorized; a malformed request where
\* latching the kill comes next.
EntryMoves(t) ==
    \/ events' = events
    \/ \E e : /\ events' = Append(events, e)
              /\ e.kind = "DISPATCH" => pc[t] = "begin"
              /\ e.kind = "VIOLATION" /\ e.reason = "malformed" =>
                    t \in Workers /\ pc'[t] \in {"malformed_latch", "emergency"}

\* A malformed request that is logged has latched the kill, or does so next.
MalformedInv ==
    /\ Malformed # {} =>
          phase # "RUNNING" \/ \E w \in Workers : pc[w] \in {"malformed_latch", "emergency"}
    /\ NoDispatchAfterTrigger

(***************************************************************************)
(* Where handlers take turns and nobody polls, no reading of the clock     *)
(* grows old before it is logged: a commit fails only for a fault, for the *)
(* event budget, or once the run is completed.                             *)
(***************************************************************************)

\* Nobody polls enforce_runtime_deadline or the receipt, and no handler of requests
\* completes the run.
NobodyPolls == Watchdogs = {} /\ Reporters = {} /\ Workers \cap Completers = {}

\* Who is not a worker completes the run, and only a completed run is sealed.
ControlInv ==
    /\ \A t \in Threads : after[t] # "watch"
    /\ \A t \in Threads \ Workers : pc[t] \in NoRequestLabels \cup {"replay", "done"}
    /\ \A w \in Workers :
          pc[w] \notin ReceiptLabels \cup {"complete", "report", "watch", "watch_latch",
                                           "watch_commit"}
    /\ \A t \in Threads : pc[t] \in ReceiptLabels \cup {"report"} => phase = "COMPLETED"
    /\ sealed => phase = "COMPLETED"
    /\ faults \in 0..MaxFaults

\* A commit may have failed for a reason other than the time of its event.
Spoilt == faults # MaxFaults \/ Len(events) >= MaxEvents \/ phase = "COMPLETED"

\* The mirror accepts an event of time ns, which is not in the future.
Current(ns) == ns \in 0..clock /\ (events # <<>> => ns >= events[Len(events)].ns)

\* Where a thread is on its way out of a commit that raised.
RaisedLabels == {"emergency", "cut", "unsign", "fail_last"}

\* Where a thread carries a reading that it will log.
StampLabels ==
    {"fail_latch", "fail_commit", "late_latch", "late_commit", "admit", "overload_commit",
     "malformed_commit", "request_commit", "sign_decision", "decision_commit"}

CarryingLabels ==
    RaisedLabels \cup StampLabels \cup {"signal", "isolate", "mark", "sign", "log"}

CurrentClaim(t) ==
    /\ pc[t] \notin RaisedLabels
    /\ pc[t] \in StampLabels => Current(stamp[t])
    /\ pc[t] \in {"signal", "isolate"} => "ns" \in DOMAIN draft
    /\ pc[t] \in {"mark", "sign"} => Current(draft.ns)
    /\ pc[t] = "log" => Current(ack.ns)

InSequence ==
    /\ mirrored = Len(events) /\ ~emergency
    /\ clock \in Nat /\ Current(clock) /\ DOMAIN stamp = Threads
    /\ events # <<>> => events[Len(events)].ns \in Nat
    /\ \A w \in Workers : CurrentClaim(w)

\* What a step of worker w does to all this: it logs nothing, or a current event.
InTurn(w) ==
    /\ clock' \in {clock, clock + 1}
    /\ emergency' = emergency /\ DOMAIN stamp' = Threads
    /\ \/ UNCHANGED <<events, mirrored>> /\ CurrentClaim(w)'
       \/ /\ \E e : CommitOk(e) /\ e.ns \in 0..clock'
          /\ pc'[w] \notin CarryingLabels
=============================================================================
