--------------------------- MODULE RunStateProofs ---------------------------
(***************************************************************************)
(* Proofs about RunStateSpec, for every set of authorizations and every    *)
(* value of the limits.                                                    *)
(***************************************************************************)
EXTENDS RunStateSpec, FiniteSetTheorems, TLAPS

(***************************************************************************)
(* Counting leases.  state.py keeps _inflight and _reserved_egress_bytes   *)
(* by adding and subtracting; the lemmas say what adding and removing one  *)
(* lease does to the number of leases and of reserved bytes.               *)
(***************************************************************************)

\* The leases and the reserved bytes of a run are finite in number, and a run
\* without leases reserves nothing.
LEMMA LeasesFinite ==
    ASSUME NEW f \in [Auths -> Nat]
    PROVE  /\ IsFiniteSet(Live(f)) /\ Cardinality(Live(f)) \in Nat
           /\ IsFiniteSet(Held(f)) /\ Cardinality(Held(f)) \in Nat
<1>1. IsFiniteSet(Auths) /\ MaxEgress \in Nat
  BY CriteriaAssumption
<1>2. IsFiniteSet(1..MaxEgress)
  BY <1>1, FS_Interval
<1>3. IsFiniteSet(Auths \X (1..MaxEgress))
  BY <1>1, <1>2, FS_Product
<1>4. Live(f) \in SUBSET Auths /\ Held(f) \in SUBSET (Auths \X (1..MaxEgress))
  BY DEF Live, Held
<1>5. IsFiniteSet(Live(f)) /\ IsFiniteSet(Held(f))
  BY <1>1, <1>3, <1>4, FS_Subset
<1> QED
  BY <1>5, FS_CardinalityType

\* Nothing is counted when no authorization has a lease, as after mark_killed.
LEMMA NoLeases ==
    ASSUME NEW f \in [Auths -> Nat], \A a \in Auths : f[a] = 0
    PROVE  Cardinality(Live(f)) = 0 /\ Cardinality(Held(f)) = 0
<1>1. Live(f) = {}
  BY DEF Live
<1>2. Held(f) = {}
  BY DEF Held
<1> QED
  BY <1>1, <1>2, FS_EmptySet

\* begin_authorized: a lease of r bytes on an id that had none adds one lease
\* and r reserved bytes.
LEMMA TakeLease ==
    ASSUME NEW f \in [Auths -> Nat], NEW a \in Auths, f[a] = 0,
           NEW r \in 1..MaxEgress
    PROVE  LET g == [f EXCEPT ![a] = r]
           IN  /\ Cardinality(Live(g)) = Cardinality(Live(f)) + 1
               /\ Cardinality(Held(g)) = Cardinality(Held(f)) + r
<1> DEFINE g == [f EXCEPT ![a] = r]
           block == {a} \X (1..r)
<1>1. MaxEgress \in Nat /\ r \in Nat /\ r > 0
  BY CriteriaAssumption
<1>2. g \in [Auths -> Nat]
  BY <1>1
<1>3. Live(g) = Live(f) \cup {a} /\ a \notin Live(f)
  BY <1>1 DEF Live
<1>4. Cardinality(Live(g)) = Cardinality(Live(f)) + 1
  <2>1. IsFiniteSet(Live(f))
    BY LeasesFinite
  <2>2. Cardinality(Live(f) \cup {a}) = Cardinality(Live(f)) + 1
    BY <2>1, <1>3, FS_AddElement, Zenon
  <2> QED
    BY <2>2, <1>3, Zenon
<1>5. Held(g) = Held(f) \cup block /\ Held(f) \cap block = {}
  <2>1. ASSUME NEW h \in Auths \X (1..MaxEgress)
        PROVE  h \in Held(g) <=> h \in Held(f) \/ h \in block
    <3>1. PICK b \in Auths, k \in 1..MaxEgress : h = <<b, k>>
      BY <2>1
    <3>2. k \in Nat /\ k > 0
      BY <1>1
    <3>3. CASE b = a
      BY <3>1, <3>2, <3>3, <1>1 DEF Held
    <3>4. CASE b # a
      BY <3>1, <3>2, <3>4, <1>1 DEF Held
    <3> QED
      BY <3>3, <3>4
  <2>2. block \subseteq Auths \X (1..MaxEgress)
    BY <1>1
  <2>3. Held(f) \subseteq Auths \X (1..MaxEgress)
        /\ Held(g) \subseteq Auths \X (1..MaxEgress)
    BY DEF Held
  <2>4. Held(g) = Held(f) \cup block
    BY <2>1, <2>2, <2>3, Zenon
  <2>5. ASSUME NEW h \in Held(f), h \in block PROVE FALSE
    BY <2>5, <1>1 DEF Held
  <2> QED
    BY <2>4, <2>5, Zenon
<1>6. IsFiniteSet(block) /\ Cardinality(block) = r
  <2>1. IsFiniteSet({a}) /\ Cardinality({a}) = 1
    BY FS_Singleton, Zenon
  <2>2. IsFiniteSet(1..r) /\ Cardinality(1..r) = r
    <3>1. 1 \in Int /\ r \in Int
      BY <1>1
    <3>2. /\ IsFiniteSet(1..r)
          /\ Cardinality(1..r) = IF 1 > r THEN 0 ELSE r - 1 + 1
      BY <3>1, FS_Interval, Zenon
    <3> QED
      BY <3>2, <1>1
  <2>3. IsFiniteSet(block) /\ Cardinality(block) = Cardinality({a}) * Cardinality(1..r)
    BY <2>1, <2>2, FS_Product, Zenon
  <2> QED
    BY <2>1, <2>2, <2>3, <1>1
<1>7. Cardinality(Held(g)) = Cardinality(Held(f)) + r
  <2>1. Cardinality(Held(f) \cup block)
          = Cardinality(Held(f)) + Cardinality(block) - Cardinality(Held(f) \cap block)
    BY <1>6, LeasesFinite, FS_Union
  <2>2. Cardinality(Held(f) \cap block) = 0
    BY <1>5, FS_EmptySet, Zenon
  <2>3. Cardinality(Held(f)) \in Nat
    BY LeasesFinite
  <2>4. Cardinality(Held(g)) = Cardinality(Held(f) \cup block)
    BY <1>5, Zenon
  <2> HIDE DEF g, block
  <2> QED
    BY <2>1, <2>2, <2>3, <2>4, <1>1, <1>6
<1> QED
  BY <1>4, <1>7

\* finish_authorized and abort_authorized: removing the lease of a subtracts
\* one lease and the bytes it reserved.
LEMMA DropLease ==
    ASSUME NEW f \in [Auths -> Nat], NEW a \in Auths, f[a] \in 1..MaxEgress
    PROVE  LET g == [f EXCEPT ![a] = 0]
           IN  /\ Cardinality(Live(f)) = Cardinality(Live(g)) + 1
               /\ Cardinality(Held(f)) = Cardinality(Held(g)) + f[a]
<1> DEFINE g == [f EXCEPT ![a] = 0]
<1>1. g \in [Auths -> Nat] /\ g[a] = 0
  OBVIOUS
<1>2. f = [g EXCEPT ![a] = f[a]]
  BY Zenon
<1> HIDE DEF g
<1>3. /\ Cardinality(Live(f)) = Cardinality(Live(g)) + 1
      /\ Cardinality(Held(f)) = Cardinality(Held(g)) + f[a]
  BY <1>1, <1>2, TakeLease
<1> QED
  BY <1>3 DEF g

-----------------------------------------------------------------------------
(***************************************************************************)
(* The inductive invariant.  EgressWithinBudget alone is not inductive:    *)
(* finish_authorized subtracts a reservation and adds at most as many      *)
(* bytes, which needs the lease table to agree with the two counters       *)
(* (LeaseAccounting); OneUse needs that only consumed ids have a lease.    *)
(***************************************************************************)

\* The initial state of RunState.__init__ satisfies the invariant.
LEMMA InitIInv == Init => IInv
<1> SUFFICES ASSUME Init PROVE IInv
  OBVIOUS
<1>1. TypeOK
  BY CriteriaAssumption DEF Init, InitState, TypeOK, Phases, NoWindow
<1>2. active \in [Auths -> Nat] /\ \A a \in Auths : active[a] = 0
  BY DEF Init, InitState
<1>3. Cardinality(Live(active)) = 0 /\ Cardinality(Held(active)) = 0 /\ Live(active) = {}
  BY <1>2, NoLeases DEF Live
<1>4. Cardinality({}) = 0
  BY FS_EmptySet
<1> QED
  BY <1>1, <1>2, <1>3, <1>4, CriteriaAssumption
  DEF Init, InitState, IInv, LeaseAccounting, EgressWithinBudget, OneUse, LatchedOnce

\* The invariant beside the types, in two halves: what the leases hold, and
\* what the counters and the epoch say.
LeaseInv ==
    /\ LeaseAccounting
    /\ \A a \in Auths : active[a] <= MaxEgress
    /\ EgressWithinBudget
    /\ phase = "KILLED" => \A a \in Auths : active[a] = 0

CounterInv ==
    /\ OneUse
    /\ observed = admitted + rejected + dropped
    /\ allowed + denied <= admitted
    /\ allowed = Cardinality(issued)
    /\ consumed \subseteq issued
    /\ LatchedOnce

\* Every method of RunState, called by any thread at any time, preserves the
\* invariant.
LEMMA NextIInv == IInv /\ [Next]_vars => IInv'
<1> SUFFICES ASSUME TypeOK, LeaseInv, CounterInv, [Next]_vars
             PROVE  TypeOK' /\ LeaseInv' /\ CounterInv'
  BY DEF IInv, LeaseInv, CounterInv
<1> USE CriteriaAssumption, InputAssumption
<1>f. /\ Cardinality(Live(active)) \in Nat /\ Cardinality(Held(active)) \in Nat
      /\ IsFiniteSet(consumed) /\ IsFiniteSet(issued)
      /\ Cardinality(consumed) \in Nat /\ Cardinality(issued) \in Nat
  <2>1. active \in [Auths -> Nat] /\ consumed \subseteq Auths /\ issued \subseteq Auths
    BY DEF TypeOK
  <2>2. IsFiniteSet(consumed) /\ IsFiniteSet(issued)
    BY <2>1, FS_Subset
  <2> QED
    BY <2>1, <2>2, LeasesFinite, FS_CardinalityType
<1>1. ASSUME NEW bytes \in Sizes, NEW now \in Times, Admit(bytes, now)
      PROVE  TypeOK' /\ LeaseInv' /\ CounterInv'
  <2> USE <1>1 DEF callerVars, latchVars, leaseVars, decideVars, effectVars, resultVars
  <2>1. CASE AdmitDropped
    <3>1. TypeOK'
      BY <2>1, <1>f
      DEF Admit, AdmitDropped, TypeOK, Phases
    <3>2. LeaseInv'
      BY <2>1, <1>f
      DEF Admit, AdmitDropped, LeaseInv, LeaseAccounting, EgressWithinBudget, TypeOK
    <3>3. CounterInv'
      BY <2>1, <1>f
      DEF Admit, AdmitDropped, CounterInv, OneUse, LatchedOnce, TypeOK
    <3> QED
      BY <3>1, <3>2, <3>3
  <2>2. CASE AdmitOverload(bytes, now)
    <3>1. TypeOK'
      BY <2>2, <1>f
      DEF Admit, AdmitOverload, Latch, StartAt, CountIn, TypeOK, Phases
    <3>2. LeaseInv'
      BY <2>2, <1>f
      DEF Admit, AdmitOverload, Latch, StartAt, CountIn, LeaseInv, LeaseAccounting,
          EgressWithinBudget, TypeOK
    <3>3. CounterInv'
      BY <2>2, <1>f
      DEF Admit, AdmitOverload, Latch, StartAt, CountIn, CounterInv, OneUse, LatchedOnce,
          TypeOK
    <3> QED
      BY <3>1, <3>2, <3>3
  <2>3. CASE AdmitOk(bytes, now)
    <3>1. TypeOK'
      BY <2>3, <1>f
      DEF Admit, AdmitOk, StartAt, CountIn, TypeOK, Phases
    <3>2. LeaseInv'
      BY <2>3, <1>f
      DEF Admit, AdmitOk, StartAt, CountIn, LeaseInv, LeaseAccounting, EgressWithinBudget,
          TypeOK
    <3>3. CounterInv'
      BY <2>3, <1>f
      DEF Admit, AdmitOk, StartAt, CountIn, CounterInv, OneUse, LatchedOnce, TypeOK
    <3> QED
      BY <3>1, <3>2, <3>3
  <2> QED
    BY <2>1, <2>2, <2>3 DEF Admit
<1>2. ASSUME NEW a \in Auths, NEW expiry \in Times, IssueAllow(a, expiry)
      PROVE  TypeOK' /\ LeaseInv' /\ CounterInv'
  <2>c. Cardinality(issued') = Cardinality(issued) + 1
    BY <1>2, <1>f, FS_AddElement, ZenonT(60) DEF IssueAllow
  <2>1. TypeOK'
    BY <1>2, <2>c, <1>f
    DEF IssueAllow, RecordDecision, latchVars, leaseVars, admitVars, effectVars, resultVars,
        TypeOK, Phases
  <2>2. LeaseInv'
    BY <1>2, <2>c, <1>f
    DEF IssueAllow, RecordDecision, latchVars, leaseVars, admitVars, effectVars, resultVars,
        LeaseInv, LeaseAccounting, EgressWithinBudget
  <2>3. CounterInv'
    BY <1>2, <2>c, <1>f
    DEF IssueAllow, RecordDecision, latchVars, leaseVars, admitVars, effectVars, resultVars,
        CounterInv, OneUse, LatchedOnce, TypeOK
  <2> QED
    BY <2>1, <2>2, <2>3
<1>3. CASE IssueKill
  <2>1. TypeOK'
    BY <1>3, <1>f
    DEF IssueKill, RecordDecision, callerVars, latchVars, leaseVars, admitVars, effectVars,
        resultVars, TypeOK, Phases
  <2>2. LeaseInv'
    BY <1>3, <1>f
    DEF IssueKill, RecordDecision, callerVars, latchVars, leaseVars, admitVars, effectVars,
        resultVars, LeaseInv, LeaseAccounting, EgressWithinBudget
  <2>3. CounterInv'
    BY <1>3, <1>f
    DEF IssueKill, RecordDecision, callerVars, latchVars, leaseVars, admitVars, effectVars,
        resultVars, CounterInv, OneUse, LatchedOnce, TypeOK
  <2> QED
    BY <2>1, <2>2, <2>3
<1>4. CASE Kill
  <2>1. TypeOK'
    BY <1>4
    DEF Kill, LatchKill, Latch, callerVars, leaseVars, admitVars, decideVars, effectVars,
        resultVars, TypeOK, Phases
  <2>2. LeaseInv'
    BY <1>4
    DEF Kill, LatchKill, Latch, callerVars, leaseVars, admitVars, decideVars, effectVars,
        resultVars, LeaseInv, LeaseAccounting, EgressWithinBudget, TypeOK
  <2>3. CounterInv'
    BY <1>4
    DEF Kill, LatchKill, Latch, callerVars, leaseVars, admitVars, decideVars, effectVars,
        resultVars, CounterInv, OneUse, LatchedOnce, TypeOK
  <2> QED
    BY <2>1, <2>2, <2>3
<1>5. ASSUME NEW a \in Auths, NEW now \in Times, NEW reserve \in Reserves,
             Begin(a, now, reserve)
      PROVE  TypeOK' /\ LeaseInv' /\ CounterInv'
  <2> DEFINE d == Decision(a)
  <2>0. /\ d.id = a /\ a \in issued /\ UNCHANGED callerVars /\ reserve \in Int
        /\ \/ BeginOverBudget(d, now, reserve)
           \/ BeginCommits(d, now, reserve)
           \/ BeginCommitFails(d, now, reserve)
    BY <1>5, Zenon DEF Begin, Decision
  <2> HIDE DEF d
  <2>c. a \notin consumed => /\ Cardinality(consumed \cup {a}) = Cardinality(consumed) + 1
                             /\ active[a] = 0
    <3>1. a \notin consumed => Cardinality(consumed \cup {a}) = Cardinality(consumed) + 1
      BY <1>f, FS_AddElement, ZenonT(60)
    <3>2. a \notin consumed => active[a] = 0
      BY DEF LeaseInv, TypeOK, LeaseAccounting, Live
    <3> QED
      BY <3>1, <3>2
  <2>1. CASE BeginOverBudget(d, now, reserve)
    <3>1. TypeOK'
      BY <2>0, <2>1
      DEF BeginOverBudget, Dispatchable, Latch, callerVars, leaseVars, admitVars, decideVars,
          effectVars, resultVars, TypeOK, Phases
    <3>2. LeaseInv'
      BY <2>0, <2>1
      DEF BeginOverBudget, Dispatchable, Latch, callerVars, leaseVars, admitVars, decideVars,
          effectVars, resultVars, LeaseInv, LeaseAccounting, EgressWithinBudget, TypeOK
    <3>3. CounterInv'
      BY <2>0, <2>1
      DEF BeginOverBudget, Dispatchable, Latch, callerVars, leaseVars, admitVars, decideVars,
          effectVars, resultVars, CounterInv, OneUse, LatchedOnce, TypeOK
    <3> QED
      BY <3>1, <3>2, <3>3
  <2>2. CASE BeginCommits(d, now, reserve)
    <3>1. reserve \in 1..MaxEgress
      BY <2>0, <2>2 DEF BeginCommits, OverBudget, TypeOK
    <3>2. a \notin consumed /\ active[a] = 0 /\ active \in [Auths -> Nat]
      BY <2>0, <2>2, <2>c DEF BeginCommits, Dispatchable, TypeOK
    <3>3. active' = [active EXCEPT ![a] = reserve]
      BY <2>0, <2>2 DEF BeginCommits
    <3>4. /\ Cardinality(Live(active')) = Cardinality(Live(active)) + 1
          /\ Cardinality(Held(active')) = Cardinality(Held(active)) + reserve
      BY <3>1, <3>2, <3>3, TakeLease, ZenonT(60)
    <3>5. TypeOK'
      BY <2>0, <2>2, <3>1, <3>3
      DEF BeginCommits, callerVars, latchVars, admitVars, decideVars, resultVars, TypeOK
    <3>6. LeaseAccounting'
      BY <2>0, <2>2, <3>1, <3>2, <3>3, <3>4 DEF BeginCommits, LeaseInv, LeaseAccounting, Live
    <3>7. EgressWithinBudget'
      BY <2>0, <2>2 DEF BeginCommits, OverBudget, EgressWithinBudget, TypeOK, resultVars
    <3>8. \A b \in Auths : active'[b] <= MaxEgress
      BY <3>1, <3>3 DEF LeaseInv, TypeOK
    <3>9. phase' = "RUNNING"
      BY <2>2, SMTT(30) DEF BeginCommits, Dispatchable, latchVars
    <3>10. CounterInv'
      BY <2>0, <2>2, <2>c, <3>2, <1>f, SMTT(30)
      DEF BeginCommits, CounterInv, OneUse, LatchedOnce, TypeOK, callerVars, latchVars,
          admitVars, decideVars, resultVars
    <3> QED
      BY <3>5, <3>6, <3>7, <3>8, <3>9, <3>10 DEF LeaseInv
  <2>3. CASE BeginCommitFails(d, now, reserve)
    <3>1. TypeOK'
      BY <2>0, <2>3, <2>c, <1>f, SMTT(30)
      DEF BeginCommitFails, Dispatchable, Latch, callerVars, leaseVars, admitVars, decideVars,
          resultVars, TypeOK, Phases
    <3>2. LeaseInv'
      BY <2>0, <2>3, <2>c, <1>f, SMTT(30)
      DEF BeginCommitFails, Dispatchable, Latch, callerVars, leaseVars, admitVars, decideVars,
          resultVars, LeaseInv, LeaseAccounting, EgressWithinBudget, TypeOK
    <3>3. CounterInv'
      BY <2>0, <2>3, <2>c, <1>f, SMTT(30)
      DEF BeginCommitFails, Dispatchable, Latch, callerVars, leaseVars, admitVars, decideVars,
          resultVars, CounterInv, OneUse, LatchedOnce, TypeOK
    <3> QED
      BY <3>1, <3>2, <3>3
  <2> QED
    BY <2>0, <2>1, <2>2, <2>3
<1>r. ASSUME NEW a \in Auths, active[a] > 0, Release(a)
      PROVE  /\ active' \in [Auths -> Nat] /\ inflight' \in Nat /\ reserved' \in Nat
             /\ inflight = inflight' + 1 /\ reserved = reserved' + active[a]
             /\ inflight' = Cardinality(Live(active')) /\ reserved' = Cardinality(Held(active'))
             /\ Live(active') \subseteq Live(active)
             /\ \A b \in Auths : active'[b] <= active[b]
  <2>1. active \in [Auths -> Nat] /\ active[a] \in 1..MaxEgress
    BY <1>r DEF LeaseInv, TypeOK
  <2>2. active' = [active EXCEPT ![a] = 0]
    BY <1>r DEF Release
  <2>3. /\ Cardinality(Live(active)) = Cardinality(Live(active')) + 1
        /\ Cardinality(Held(active)) = Cardinality(Held(active')) + active[a]
    BY <2>1, <2>2, DropLease, ZenonT(60)
  <2>4. active' \in [Auths -> Nat]
    BY <2>1, <2>2
  <2>5. Cardinality(Live(active')) \in Nat /\ Cardinality(Held(active')) \in Nat
    BY <2>4, LeasesFinite
  <2>6. inflight = Cardinality(Live(active)) /\ reserved = Cardinality(Held(active))
    BY DEF LeaseInv, LeaseAccounting
  <2>7. Live(active') \subseteq Live(active) /\ \A b \in Auths : active'[b] <= active[b]
    BY <2>1, <2>2 DEF Live
  <2>8. inflight' = inflight - 1 /\ reserved' = reserved - active[a]
    BY <1>r DEF Release
  <2> QED
    BY <2>1, <2>3, <2>4, <2>5, <2>6, <2>7, <2>8, SMTT(30)
<1>6. ASSUME NEW a \in Auths, NEW bytes \in Responses, Finish(a, bytes)
      PROVE  TypeOK' /\ LeaseInv' /\ CounterInv'
  <2>1. CASE FinishFails(a)
    <3>1. TypeOK'
      BY <1>6, <2>1
      DEF Finish, FinishFails, Latch, callerVars, leaseVars, admitVars, decideVars, effectVars,
          resultVars, TypeOK, Phases
    <3>2. LeaseInv'
      BY <1>6, <2>1
      DEF Finish, FinishFails, Latch, callerVars, leaseVars, admitVars, decideVars, effectVars,
          resultVars, LeaseInv, LeaseAccounting, EgressWithinBudget, TypeOK
    <3>3. CounterInv'
      BY <1>6, <2>1, SMTT(30)
      DEF Finish, FinishFails, Latch, callerVars, leaseVars, admitVars, decideVars, effectVars,
          resultVars, CounterInv, OneUse, LatchedOnce, TypeOK
    <3> QED
      BY <3>1, <3>2, <3>3, SMTT(30)
  <2>2. CASE FinishCommits(a, bytes)
    <3>r. /\ active' \in [Auths -> Nat] /\ inflight' \in Nat /\ reserved' \in Nat
          /\ inflight = inflight' + 1 /\ reserved = reserved' + active[a]
          /\ inflight' = Cardinality(Live(active')) /\ reserved' = Cardinality(Held(active'))
          /\ Live(active') \subseteq Live(active)
          /\ \A b \in Auths : active'[b] <= active[b]
      BY <1>r, <2>2 DEF FinishCommits
    <3>b. bytes \in Nat /\ bytes <= active[a] /\ egress' = egress + bytes
      BY <2>2 DEF FinishCommits, FitsReservation
    <3>e. egress \in Nat
      BY DEF TypeOK
    <3>c. egress' \in Nat
      BY <3>b, <3>e, SMTT(30)
    <3>1. TypeOK'
      BY <1>6, <2>2, <3>r, <3>b, <3>c, <1>f, SMTT(30)
      DEF Finish, FinishCommits, callerVars, latchVars, admitVars, decideVars, effectVars,
          TypeOK, Phases
    <3>2. LeaseInv'
      BY <1>6, <2>2, <3>r, <3>b, <3>c, <1>f, SMTT(30)
      DEF Finish, FinishCommits, callerVars, latchVars, admitVars, decideVars, effectVars,
          LeaseInv, LeaseAccounting, EgressWithinBudget, TypeOK
    <3>3. CounterInv'
      BY <1>6, <2>2, <3>r, <3>b, <3>c, <1>f
      DEF Finish, FinishCommits, callerVars, latchVars, admitVars, decideVars, effectVars,
          CounterInv, OneUse, LatchedOnce, TypeOK
    <3> QED
      BY <3>1, <3>2, <3>3
  <2> QED
    BY <1>6, <2>1, <2>2 DEF Finish
<1>7. ASSUME NEW a \in Auths, AbortLease(a)
      PROVE  TypeOK' /\ LeaseInv' /\ CounterInv'
  <2>r. /\ active' \in [Auths -> Nat] /\ inflight' \in Nat /\ reserved' \in Nat
        /\ inflight = inflight' + 1 /\ reserved = reserved' + active[a]
        /\ inflight' = Cardinality(Live(active')) /\ reserved' = Cardinality(Held(active'))
        /\ Live(active') \subseteq Live(active)
        /\ \A b \in Auths : active'[b] <= active[b]
    BY <1>r, <1>7, SMTT(30) DEF AbortLease, Abort
  <2>1. TypeOK'
    BY <1>7, <2>r, <1>f, SMTT(30)
    DEF AbortLease, Abort, callerVars, latchVars, admitVars, decideVars, effectVars,
        resultVars, TypeOK, Phases
  <2>2. LeaseInv'
    BY <1>7, <2>r, <1>f, SMTT(30)
    DEF AbortLease, Abort, callerVars, latchVars, admitVars, decideVars, effectVars,
        resultVars, LeaseInv, LeaseAccounting, EgressWithinBudget, TypeOK
  <2>3. CounterInv'
    BY <1>7, <2>r, <1>f
    DEF AbortLease, Abort, callerVars, latchVars, admitVars, decideVars, effectVars,
        resultVars, CounterInv, OneUse, LatchedOnce, TypeOK
  <2> QED
    BY <2>1, <2>2, <2>3
<1>8. CASE Acknowledge
  <2>a. active' \in [Auths -> Nat] /\ \A a \in Auths : active'[a] = 0
    BY <1>8 DEF Acknowledge, MarkKilled
  <2>c. Cardinality(Live(active')) = 0 /\ Cardinality(Held(active')) = 0 /\ Live(active') = {}
    BY <2>a, NoLeases, SMTT(30) DEF Live
  <2>1. TypeOK'
    BY <1>8, <2>a, <2>c, <1>f, SMTT(30)
    DEF Acknowledge, MarkKilled, callerVars, admitVars, decideVars, effectVars, resultVars,
        TypeOK, Phases
  <2>2. LeaseInv'
    BY <1>8, <2>a, <2>c, <1>f, SMTT(30)
    DEF Acknowledge, MarkKilled, callerVars, admitVars, decideVars, effectVars, resultVars,
        LeaseInv, LeaseAccounting, EgressWithinBudget, TypeOK
  <2>3. CounterInv'
    BY <1>8, <2>a, <2>c, <1>f
    DEF Acknowledge, MarkKilled, callerVars, admitVars, decideVars, effectVars, resultVars,
        CounterInv, OneUse, LatchedOnce, TypeOK
  <2> QED
    BY <2>1, <2>2, <2>3
<1>9. CASE Complete
  <2>1. TypeOK'
    BY <1>9
    DEF Complete, MarkCompleted, callerVars, leaseVars, admitVars, decideVars, effectVars,
        resultVars, TypeOK, Phases
  <2>2. LeaseInv'
    BY <1>9
    DEF Complete, MarkCompleted, callerVars, leaseVars, admitVars, decideVars, effectVars,
        resultVars, LeaseInv, LeaseAccounting, EgressWithinBudget, TypeOK
  <2>3. CounterInv'
    BY <1>9
    DEF Complete, MarkCompleted, callerVars, leaseVars, admitVars, decideVars, effectVars,
        resultVars, CounterInv, OneUse, LatchedOnce, TypeOK
  <2> QED
    BY <2>1, <2>2, <2>3
<1>10. CASE UNCHANGED vars
  <2>1. TypeOK'
    BY <1>10
    DEF vars, stateVars, latchVars, leaseVars, admitVars, decideVars, effectVars, resultVars,
        TypeOK, Phases
  <2>2. LeaseInv'
    BY <1>10
    DEF vars, stateVars, latchVars, leaseVars, admitVars, decideVars, effectVars, resultVars,
        LeaseInv, LeaseAccounting, EgressWithinBudget
  <2>3. CounterInv'
    BY <1>10
    DEF vars, stateVars, latchVars, leaseVars, admitVars, decideVars, effectVars, resultVars,
        CounterInv, OneUse, LatchedOnce
  <2> QED
    BY <2>1, <2>2, <2>3
<1> QED
  BY <1>1, <1>2, <1>3, <1>4, <1>5, <1>6, <1>7, <1>8, <1>9, <1>10, Zenon DEF Next

\* IInv holds in every reachable state.
THEOREM Invariance == Spec => []IInv
BY InitIInv, NextIInv, PTL DEF Spec

\* The two counters that six methods of RunState update by hand always equal
\* what the lease table says (state.py:172-184, 209-232).
THEOREM LeaseAccountingHolds == Spec => []LeaseAccounting
<1>1. IInv => LeaseAccounting
  BY DEF IInv
<1> QED
  BY <1>1, Invariance, PTL

\* No interleaving of dispatches, results, aborts and kills lets the bytes
\* received and reserved exceed max_total_egress_bytes (state.py:163-171).
THEOREM EgressBounded == Spec => []EgressWithinBudget
<1>1. IInv => EgressWithinBudget
  BY DEF IInv
<1> QED
  BY <1>1, Invariance, PTL

\* An authorization is dispatched at most once (state.py:161-176).
THEOREM DispatchedOnce == Spec => []OneUse
<1>1. IInv => OneUse
  BY DEF IInv
<1> QED
  BY <1>1, Invariance, PTL

\* The counters of every snapshot satisfy the validator of ReceiptBody
\* (models.py:1343-1355).
THEOREM SnapshotsCoherent == Spec => []CountersCoherent
<1>1. IInv => CountersCoherent
  <2> SUFFICES ASSUME IInv PROVE CountersCoherent
    OBVIOUS
  <2>1. /\ IsFiniteSet(issued) /\ consumed \in SUBSET issued
        /\ inflight \in Nat /\ completed \in Nat /\ dispatched \in Nat
    BY FS_Subset, CriteriaAssumption DEF IInv, TypeOK
  <2>2. Cardinality(consumed) <= Cardinality(issued)
    BY <2>1, FS_Subset
  <2> QED
    BY <2>1, <2>2 DEF IInv, OneUse, CountersCoherent
<1> QED
  BY <1>1, Invariance, PTL

\* The kill epoch moves once, with the latch (state.py:115-118).
THEOREM EpochLatchesOnce == Spec => []LatchedOnce
<1>1. IInv => LatchedOnce
  BY DEF IInv
<1> QED
  BY <1>1, Invariance, PTL

\* Nothing a thread does after mark_killed is credited to the run
\* (state.py:199-200, 226-233).
THEOREM NothingAfterKilled == Spec => KilledIsFinal
<1> DEFINE Frozen == phase = "KILLED" => UNCHANGED <<resultVars, effectVars, leaseVars, latchVars>>
<1>1. IInv /\ [Next]_vars => [Frozen]_vars
  <2> SUFFICES ASSUME IInv, Next, phase = "KILLED"
               PROVE  UNCHANGED <<resultVars, effectVars, leaseVars, latchVars>>
    OBVIOUS
  <2>0. /\ active = [a \in Auths |-> 0] /\ inflight = 0 /\ reserved = 0
    <3>1. active \in [Auths -> Nat] /\ \A a \in Auths : active[a] = 0
      BY DEF IInv, TypeOK
    <3>2. Cardinality(Live(active)) = 0 /\ Cardinality(Held(active)) = 0
      BY <3>1, NoLeases
    <3> QED
      BY <3>1, <3>2 DEF IInv, LeaseAccounting
  <2> USE DEF resultVars, effectVars, leaseVars, latchVars
  <2>1. ASSUME NEW bytes \in Sizes, NEW now \in Times, Admit(bytes, now)
        PROVE  UNCHANGED <<resultVars, effectVars, leaseVars, latchVars>>
    BY <2>1 DEF Admit, AdmitDropped, AdmitOverload, AdmitOk
  <2>2. ASSUME NEW a \in Auths, NEW expiry \in Times, IssueAllow(a, expiry)
        PROVE  UNCHANGED <<resultVars, effectVars, leaseVars, latchVars>>
    BY <2>2 DEF IssueAllow, RecordDecision
  <2>3. CASE IssueKill
    BY <2>3 DEF IssueKill, RecordDecision
  <2>4. CASE Kill
    BY <2>4 DEF Kill, LatchKill, Latch
  <2>5. ASSUME NEW a \in Auths, NEW now \in Times, NEW reserve \in Reserves,
               Begin(a, now, reserve)
        PROVE  FALSE
    BY <2>5 DEF Begin, BeginOverBudget, BeginCommits, BeginCommitFails, Dispatchable
  <2>6. ASSUME NEW a \in Auths, NEW bytes \in Responses, Finish(a, bytes)
        PROVE  FALSE
    BY <2>0, <2>6 DEF Finish, FinishCommits, FinishFails
  <2>7. ASSUME NEW a \in Auths, AbortLease(a)
        PROVE  FALSE
    BY <2>0, <2>7 DEF AbortLease, Abort
  <2>8. CASE Acknowledge
    BY <2>0, <2>8 DEF Acknowledge, MarkKilled
  <2>9. CASE Complete
    BY <2>9 DEF Complete, MarkCompleted
  <2> QED
    BY <2>1, <2>2, <2>3, <2>4, <2>5, <2>6, <2>7, <2>8, <2>9 DEF Next
<1> QED
  BY <1>1, Invariance, PTL DEF Spec, KilledIsFinal

-----------------------------------------------------------------------------
\* RunState implements KillSwitch: every call is a step of the switch or
\* leaves phase and consumed authorizations alone (state.py:107-118, 131-239).
THEOREM RefinesKillSwitch == Spec => ImplementsKillSwitch
<1>1. Init => Switch!Init
  BY DEF Init, InitState, Switch!Init
<1>2. [Next]_vars => [Switch!Next]_(Switch!switchVars)
  <2> SUFFICES ASSUME [Next]_vars
               PROVE  Switch!Next \/ (phase' = phase /\ consumed' = consumed)
    BY DEF Switch!switchVars
  <2> USE DEF latchVars, effectVars
  <2>l. Latch /\ consumed' = consumed
          => Switch!Latch \/ (phase' = phase /\ consumed' = consumed)
    BY DEF Latch, Switch!Latch
  <2>1. ASSUME NEW bytes \in Sizes, NEW now \in Times, Admit(bytes, now)
        PROVE  Switch!Latch \/ (phase' = phase /\ consumed' = consumed)
    BY <2>1, <2>l DEF Admit, AdmitDropped, AdmitOverload, AdmitOk
  <2>2. ASSUME NEW a \in Auths, NEW expiry \in Times, IssueAllow(a, expiry)
        PROVE  phase' = phase /\ consumed' = consumed
    BY <2>2 DEF IssueAllow, RecordDecision
  <2>3. CASE IssueKill
    BY <2>3 DEF IssueKill, RecordDecision
  <2>4. CASE Kill
    BY <2>4, <2>l, SMTT(30) DEF Kill, LatchKill, Switch!Next
  <2>5. ASSUME NEW a \in Auths, NEW now \in Times, NEW reserve \in Reserves,
               Begin(a, now, reserve)
        PROVE  Switch!Latch \/ Switch!Use(a)
    BY <2>5, <2>l, Zenon
    DEF Begin, BeginOverBudget, BeginCommits, BeginCommitFails, Dispatchable, Decision, Latch,
        Switch!Use, Switch!Latch
  <2>6. ASSUME NEW a \in Auths, NEW bytes \in Responses, Finish(a, bytes)
        PROVE  Switch!Latch \/ (phase' = phase /\ consumed' = consumed)
    BY <2>6, <2>l DEF Finish, FinishCommits, FinishFails
  <2>7. ASSUME NEW a \in Auths, AbortLease(a)
        PROVE  phase' = phase /\ consumed' = consumed
    BY <2>7 DEF AbortLease, Abort
  <2>8. CASE Acknowledge
    BY <2>8 DEF Acknowledge, MarkKilled, Switch!Next, Switch!Kill
  <2>9. CASE Complete
    BY <2>9 DEF Complete, MarkCompleted, Switch!Next, Switch!Complete
  <2>10. CASE UNCHANGED vars
    BY <2>10 DEF vars, stateVars
  <2> QED
    BY <2>1, <2>2, <2>3, <2>4, <2>5, <2>6, <2>7, <2>8, <2>9, <2>10 DEF Next, Switch!Next
<1> QED
  BY <1>1, <1>2, PTL DEF Spec, ImplementsKillSwitch, Switch!Spec
=============================================================================
