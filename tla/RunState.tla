------------------------------ MODULE RunState ------------------------------
(***************************************************************************)
(* RunState (app/state.py): the phase, the kill epoch, the consumed        *)
(* authorizations, the active leases and the counters of one run.          *)
(*                                                                         *)
(* Every method holds one RLock from its first to its last statement, so a *)
(* method is one atomic action however many threads call it.  The two      *)
(* methods that run a callback under the lock (begin_authorized and        *)
(* finish_authorized commit evidence) are atomic too, and have one action  *)
(* for the callback returning and one for it raising.                      *)
(*                                                                         *)
(* A branch that raises without touching the state is a predicate          *)
(* (~Dispatchable, active[a] = 0, ...) that Containment uses.              *)
(***************************************************************************)
EXTENDS Integers, FiniteSets

CONSTANTS
    Auths,           \* authorization ids
    MaxPayload,      \* criteria.max_event_payload_bytes
    MaxAdmitted,     \* criteria.max_admitted_requests
    MaxPerWindow,    \* criteria.max_requests_per_window
    WindowLength,    \* criteria.rate_window_ms, in clock units
    MaxInflight,     \* criteria.max_inflight_requests
    MaxEgress        \* criteria.max_total_egress_bytes

ASSUME CriteriaAssumption ==
    /\ IsFiniteSet(Auths)
    /\ {MaxPayload, MaxAdmitted, MaxPerWindow, WindowLength, MaxInflight,
        MaxEgress} \subseteq Nat \ {0}
    /\ MaxPerWindow <= MaxAdmitted
    /\ MaxInflight <= MaxAdmitted

VARIABLES
    phase, epoch,                     \* _phase, _kill_epoch
    consumed,                         \* _consumed_authorizations
    active,                           \* _active_authorizations; 0 = absent
    inflight, reserved,               \* _inflight, _reserved_egress_bytes
    windowStart, windowCount,         \* the rate window
    observed, admitted, rejected, dropped,
    allowed, denied, dispatched, completed, egress

latchVars  == <<phase, epoch>>
leaseVars  == <<active, inflight, reserved>>
admitVars  == <<windowStart, windowCount, observed, admitted, rejected, dropped>>
decideVars == <<allowed, denied>>
effectVars == <<consumed, dispatched>>
resultVars == <<completed, egress>>

stateVars == <<latchVars, leaseVars, admitVars, decideVars, effectVars, resultVars>>

Phases == {"RUNNING", "KILLING", "KILLED", "COMPLETED"}

NoWindow == -1          \* _window_started_ns is None

InitState ==
    /\ phase = "RUNNING" /\ epoch = 0
    /\ active = [a \in Auths |-> 0] /\ inflight = 0 /\ reserved = 0
    /\ windowStart = NoWindow /\ windowCount = 0
    /\ observed = 0 /\ admitted = 0 /\ rejected = 0 /\ dropped = 0
    /\ allowed = 0 /\ denied = 0
    /\ consumed = {} /\ dispatched = 0
    /\ completed = 0 /\ egress = 0

-----------------------------------------------------------------------------
\* Mutant of Latch: the epoch advances on every latch, not on the first.
LatchAdvancesAlways ==
    /\ phase' = IF phase = "RUNNING" THEN "KILLING" ELSE phase
    /\ epoch' = epoch + 1

\* _latch_kill_locked: only a RUNNING run moves, and takes the next epoch.
Latch ==
    /\ phase' = IF phase = "RUNNING" THEN "KILLING" ELSE phase
    /\ epoch' = IF phase = "RUNNING" THEN epoch + 1 ELSE epoch

LatchKill ==
    /\ Latch
    /\ UNCHANGED <<leaseVars, admitVars, decideVars, effectVars, resultVars>>

-----------------------------------------------------------------------------
\* admit: fixed-cost limits before anything is parsed.

CountIn(now) ==
    IF windowStart = NoWindow \/ now - windowStart >= WindowLength
    THEN 0
    ELSE windowCount

StartAt(now) ==
    IF windowStart = NoWindow \/ now - windowStart >= WindowLength
    THEN now
    ELSE windowStart

WouldOverload(bytes, now) ==
    \/ bytes > MaxPayload
    \/ admitted >= MaxAdmitted
    \/ CountIn(now) >= MaxPerWindow
    \/ inflight >= MaxInflight

AdmitDropped ==
    /\ phase # "RUNNING"
    /\ observed' = observed + 1
    /\ dropped' = dropped + 1
    /\ UNCHANGED <<windowStart, windowCount, admitted, rejected>>
    /\ UNCHANGED <<latchVars, leaseVars, decideVars, effectVars, resultVars>>

\* Mutant of AdmitOverload: the overflowing request is counted as admitted.
AdmitOverloadAsAdmitted(bytes, now) ==
    /\ phase = "RUNNING"
    /\ WouldOverload(bytes, now)
    /\ Latch
    /\ observed' = observed + 1
    /\ rejected' = rejected + 1
    /\ admitted' = admitted + 1
    /\ UNCHANGED <<windowStart, windowCount, dropped>>
    /\ UNCHANGED <<leaseVars, decideVars, effectVars, resultVars>>

AdmitOverload(bytes, now) ==
    /\ phase = "RUNNING"
    /\ WouldOverload(bytes, now)
    /\ Latch
    /\ observed' = observed + 1
    /\ rejected' = rejected + 1
    /\ windowStart' = StartAt(now)
    /\ windowCount' = CountIn(now)
    /\ UNCHANGED <<admitted, dropped>>
    /\ UNCHANGED <<leaseVars, decideVars, effectVars, resultVars>>

AdmitOk(bytes, now) ==
    /\ phase = "RUNNING"
    /\ ~WouldOverload(bytes, now)
    /\ observed' = observed + 1
    /\ admitted' = admitted + 1
    /\ windowStart' = StartAt(now)
    /\ windowCount' = CountIn(now) + 1
    /\ UNCHANGED <<rejected, dropped>>
    /\ UNCHANGED <<latchVars, leaseVars, decideVars, effectVars, resultVars>>

-----------------------------------------------------------------------------
RecordDecision(verdict) ==
    /\ allowed' = IF verdict = "ALLOW" THEN allowed + 1 ELSE allowed
    /\ denied' = IF verdict = "ALLOW" THEN denied ELSE denied + 1
    /\ UNCHANGED <<latchVars, leaseVars, admitVars, effectVars, resultVars>>

-----------------------------------------------------------------------------
\* begin_authorized.  A decision d is a record with a verdict, the epoch it
\* was signed under, its expiry and its authorization id.

\* Mutant of Dispatchable: the nonce registry is not consulted.
DispatchableAgain(d, now) ==
    phase = "RUNNING" /\ d.verdict = "ALLOW" /\ d.epoch = epoch /\ now <= d.expiry

\* Mutant of Dispatchable: the epoch is trusted to tell that the run is latched.
DispatchableByEpoch(d, now) ==
    /\ d.verdict = "ALLOW" /\ d.epoch = epoch
    /\ now <= d.expiry /\ d.id \notin consumed

Dispatchable(d, now) ==
    /\ phase = "RUNNING"
    /\ d.verdict = "ALLOW"
    /\ d.epoch = epoch
    /\ now <= d.expiry
    /\ d.id \notin consumed

\* Mutant of OverBudget: bytes reserved by other leases are not counted.
OverBudgetAlone(reserve) == reserve <= 0 \/ egress + reserve > MaxEgress

OverBudget(reserve) ==
    \/ reserve <= 0
    \/ egress + reserved + reserve > MaxEgress

\* The budget cannot cover the worst case: latch and raise.
BeginOverBudget(d, now, reserve) ==
    /\ Dispatchable(d, now)
    /\ OverBudget(reserve)
    /\ Latch
    /\ UNCHANGED <<leaseVars, admitVars, decideVars, effectVars, resultVars>>

BeginCommits(d, now, reserve) ==
    /\ Dispatchable(d, now)
    /\ ~OverBudget(reserve)
    /\ consumed' = consumed \cup {d.id}
    /\ dispatched' = dispatched + 1
    /\ inflight' = inflight + 1
    /\ reserved' = reserved + reserve
    /\ active' = [active EXCEPT ![d.id] = reserve]
    /\ UNCHANGED <<latchVars, admitVars, decideVars, resultVars>>

\* commit_dispatch raised: the lease is undone and the kill latched, but the
\* authorization stays consumed and the dispatch stays counted.
BeginCommitFails(d, now, reserve) ==
    /\ Dispatchable(d, now)
    /\ ~OverBudget(reserve)
    /\ consumed' = consumed \cup {d.id}
    /\ dispatched' = dispatched + 1
    /\ Latch
    /\ UNCHANGED <<leaseVars, admitVars, decideVars, resultVars>>

-----------------------------------------------------------------------------
\* finish_authorized and abort_authorized of a lease on authorization a.

\* Mutant of Release: the reservation is not given back.
ReleaseKeepsBytes(a) ==
    /\ active' = [active EXCEPT ![a] = 0]
    /\ inflight' = inflight - 1
    /\ UNCHANGED reserved

Release(a) ==
    /\ active' = [active EXCEPT ![a] = 0]
    /\ inflight' = inflight - 1
    /\ reserved' = reserved - active[a]

FitsReservation(a, bytes) == 0 <= bytes /\ bytes <= active[a]

FinishCommits(a, bytes) ==
    /\ active[a] > 0
    /\ FitsReservation(a, bytes)
    /\ Release(a)
    /\ completed' = completed + 1
    /\ egress' = egress + bytes
    /\ UNCHANGED <<latchVars, admitVars, decideVars, effectVars>>

\* The transport overran its reservation, or commit_result raised: latch and
\* raise; the lease stays active until the executor aborts it.
FinishFails(a) ==
    /\ active[a] > 0
    /\ Latch
    /\ UNCHANGED <<leaseVars, admitVars, decideVars, effectVars, resultVars>>

Abort(a) ==
    /\ active[a] > 0
    /\ Release(a)
    /\ UNCHANGED <<latchVars, admitVars, decideVars, effectVars, resultVars>>

-----------------------------------------------------------------------------
\* Mutant of MarkKilled: leases survive the kill.
MarkKilledKeepsLeases ==
    /\ phase \in {"KILLING", "KILLED"}
    /\ phase' = "KILLED"
    /\ UNCHANGED <<epoch, leaseVars, admitVars, decideVars, effectVars, resultVars>>

MarkKilled ==
    /\ phase \in {"KILLING", "KILLED"}
    /\ phase' = "KILLED"
    /\ active' = [a \in Auths |-> 0]
    /\ inflight' = 0
    /\ reserved' = 0
    /\ UNCHANGED <<epoch, admitVars, decideVars, effectVars, resultVars>>

\* Mutant of MarkCompleted: any run can complete, a killed one too.
MarkCompletedAnyPhase ==
    /\ phase' = "COMPLETED"
    /\ UNCHANGED <<epoch, leaseVars, admitVars, decideVars, effectVars, resultVars>>

MarkCompleted ==
    /\ phase = "RUNNING"
    /\ phase' = "COMPLETED"
    /\ UNCHANGED <<epoch, leaseVars, admitVars, decideVars, effectVars, resultVars>>
=============================================================================
