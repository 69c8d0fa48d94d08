---------------------------- MODULE RunStateSpec ----------------------------
(***************************************************************************)
(* RunState under every order in which the threads of a run can call it.   *)
(* The callers add only what the gateway and the executor guarantee:       *)
(* a decision is recorded for an admitted request and once, an             *)
(* authorization id is fresh when its decision is issued, and a lease is   *)
(* one that begin_authorized returned.                                     *)
(***************************************************************************)
EXTENDS RunState

CONSTANTS
    Sizes, Times, Reserves, Responses,   \* the inputs of the calls
    MaxObserved                          \* bound on the calls of admit

ASSUME InputAssumption ==
    /\ Sizes \subseteq Nat
    /\ Times \subseteq Nat
    /\ Reserves \subseteq Int
    /\ Responses \subseteq Int
    /\ MaxObserved \in Nat

VARIABLES
    issued,          \* authorization ids the gateway has issued
    signed           \* the epoch and expiry signed with each of them

vars == <<stateVars, issued, signed>>

callerVars == <<issued, signed>>

Decision(a) ==
    [verdict |-> "ALLOW", epoch |-> signed[a].epoch,
     expiry |-> signed[a].expiry, id |-> a]

Init ==
    /\ InitState
    /\ issued = {}
    /\ signed \in [Auths -> [epoch : {0}, expiry : {0}]]

Admit(bytes, now) ==
    /\ observed < MaxObserved
    /\ AdmitDropped \/ AdmitOverload(bytes, now) \/ AdmitOk(bytes, now)
    /\ UNCHANGED callerVars

\* Gateway.submit_raw, decision part: the id is a fresh token and the epoch is
\* the current one.
IssueAllow(a, expiry) ==
    /\ allowed + denied < admitted
    /\ a \notin issued
    /\ issued' = issued \cup {a}
    /\ signed' = [signed EXCEPT ![a] = [epoch |-> epoch, expiry |-> expiry]]
    /\ RecordDecision("ALLOW")

IssueKill ==
    /\ allowed + denied < admitted
    /\ phase # "RUNNING"
    /\ RecordDecision("KILL")
    /\ UNCHANGED callerVars

Kill == LatchKill /\ UNCHANGED callerVars

Begin(a, now, reserve) ==
    /\ a \in issued
    /\ \/ BeginOverBudget(Decision(a), now, reserve)
       \/ BeginCommits(Decision(a), now, reserve)
       \/ BeginCommitFails(Decision(a), now, reserve)
    /\ UNCHANGED callerVars

Finish(a, bytes) ==
    /\ a \in issued
    /\ FinishCommits(a, bytes) \/ FinishFails(a)
    /\ UNCHANGED callerVars

AbortLease(a) == Abort(a) /\ UNCHANGED callerVars

Acknowledge == MarkKilled /\ UNCHANGED callerVars

Complete == MarkCompleted /\ UNCHANGED callerVars

Next ==
    \/ \E bytes \in Sizes, now \in Times : Admit(bytes, now)
    \/ \E a \in Auths, expiry \in Times : IssueAllow(a, expiry)
    \/ IssueKill
    \/ Kill
    \/ \E a \in Auths, now \in Times, reserve \in Reserves : Begin(a, now, reserve)
    \/ \E a \in Auths, bytes \in Responses : Finish(a, bytes)
    \/ \E a \in Auths : AbortLease(a)
    \/ Acknowledge
    \/ Complete

Spec == Init /\ [][Next]_vars

-----------------------------------------------------------------------------
TypeOK ==
    /\ phase \in Phases /\ epoch \in Nat
    /\ active \in [Auths -> Nat] /\ inflight \in Nat /\ reserved \in Nat
    /\ windowStart \in Nat \cup {NoWindow} /\ windowCount \in Nat
    /\ observed \in Nat /\ admitted \in Nat /\ rejected \in Nat /\ dropped \in Nat
    /\ allowed \in Nat /\ denied \in Nat
    /\ consumed \subseteq Auths /\ dispatched \in Nat
    /\ completed \in Nat /\ egress \in Nat
    /\ issued \subseteq Auths
    /\ signed \in [Auths -> [epoch : Nat, expiry : Nat]]

\* The authorizations with a lease, and the bytes these reserve: one element
\* per byte, so that the number of elements is the sum of the reservations.
Live(leases) == {a \in Auths : leases[a] > 0}

Held(leases) == {h \in Auths \X (1..MaxEgress) : h[2] <= leases[h[1]]}

\* _inflight and _reserved_egress_bytes are kept by hand in six methods; they
\* always equal the number of active leases and the bytes these reserve, and
\* only consumed authorizations have a lease (state.py:172-184, 209-232).
LeaseAccounting ==
    /\ inflight = Cardinality(Live(active))
    /\ reserved = Cardinality(Held(active))
    /\ Live(active) \subseteq consumed

\* Bytes received plus the worst case of every lease still out never exceed
\* max_total_egress_bytes, whatever finishes, aborts or is killed in between
\* (state.py:163-171).
EgressWithinBudget == egress + reserved <= MaxEgress

\* Every authorization is dispatched at most once (each counted dispatch has
\* its own consumed id), and a result or a live lease always has a dispatch
\* of its own (state.py:161-176, 209-213).
OneUse ==
    /\ dispatched = Cardinality(consumed)
    /\ completed + inflight <= dispatched

\* The inequalities that ReceiptBody.receipt_is_coherent demands
\* (models.py:1343-1355) hold of every snapshot, so no counter can make the
\* supervisor unable to build a receipt.
CountersCoherent ==
    /\ observed = admitted + rejected + dropped
    /\ allowed + denied <= admitted
    /\ dispatched <= allowed
    /\ completed <= dispatched

\* The epoch is advanced by the kill latch and by nothing else, at most once
\* in a run; at most one request is ever answered as the first overload, and
\* only in a latched run (state.py:98-118).
LatchedOnce ==
    /\ epoch = (IF phase \in {"KILLING", "KILLED"} THEN 1 ELSE 0)
    /\ rejected <= epoch

\* After mark_killed a transport that returns late is not credited: no result
\* is counted, no byte added and no lease taken (state.py:199-200, 226-233).
KilledIsFinal ==
    [][phase = "KILLED" => UNCHANGED <<resultVars, effectVars, leaseVars, latchVars>>]_vars

Switch == INSTANCE KillSwitch WITH mode <- phase, used <- consumed

\* RunState implements the kill switch: authorizations are consumed once,
\* only while RUNNING, and the phase only moves forward (state.py:131-185).
ImplementsKillSwitch == Switch!Spec

\* The inductive invariant behind the properties above.
IInv ==
    /\ TypeOK
    /\ LeaseAccounting
    /\ \A a \in Auths : active[a] <= MaxEgress
    /\ EgressWithinBudget
    /\ OneUse
    /\ observed = admitted + rejected + dropped
    /\ allowed + denied <= admitted
    /\ allowed = Cardinality(issued)
    /\ consumed \subseteq issued
    /\ LatchedOnce
    /\ phase = "KILLED" => \A a \in Auths : active[a] = 0
=============================================================================
