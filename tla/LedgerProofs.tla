---------------------------- MODULE LedgerProofs ----------------------------
(***************************************************************************)
(* The safety of the evidence ledger, for every number of threads, slots,  *)
(* events and processes.  One process (first part): LedgerInv is           *)
(* inductive, the ledger is final once sealed, and commit implements the   *)
(* atomic step of AtomicLedger.  What survives crashes and restarts        *)
(* (second part): returned commits are in the log, receipts have one root, *)
(* and with a log a receipt covers every commit that returned.             *)
(***************************************************************************)
EXTENDS LedgerRestart, FiniteSetTheorems, SequenceTheorems, TLAPS

(***************************************************************************)
(* One process.                                                            *)
(***************************************************************************)

\* The threads inside commit are finitely many, so that they can be counted.
LEMMA HoldersFinite == IsFiniteSet(Holders) /\ Cardinality(Holders) \in Nat
<1>1. Holders \in SUBSET Threads
  BY DEF Holders
<1>2. IsFiniteSet(Holders)
  BY <1>1, LedgerAssumption, FS_Subset, Zenon DEF LedgerAssumption
<1> QED
  BY <1>2, FS_CardinalityType

\* A step that takes t into commit, out of it, or neither (evidence.py:119,
\* 133) moves one slot the other way, or none.
LEMMA SlotsStep == TypeOK /\ SlotsConserved /\ [Next]_vars => SlotsConserved'
<1> SUFFICES ASSUME TypeOK, SlotsConserved, [Next]_vars
             PROVE  SlotsConserved'
  OBVIOUS
<1>f. IsFiniteSet(Holders) /\ Cardinality(Holders) \in Nat
  BY HoldersFinite
<1>s. slots + Cardinality(Holders) = MaxPending /\ slots \in Nat /\ MaxPending \in Nat
  BY LedgerAssumption DEF SlotsConserved, TypeOK
<1>same. ASSUME Holders' = Holders, slots' = slots
         PROVE  SlotsConserved'
  BY <1>same, <1>s DEF SlotsConserved
<1>1. ASSUME UNCHANGED <<pc, slots>>
      PROVE  SlotsConserved'
  BY <1>1, <1>same DEF Holders
<1>2. ASSUME NEW t \in Threads,
             Call(t) \/ AppendEvent(t) \/ AppendRefused(t) \/ LogFails(t) \/ Observe(t)
      PROVE  SlotsConserved'
  <2>1. Holders' = Holders /\ slots' = slots
    BY <1>2, SMTT(30) DEF Call, AppendEvent, AppendRefused, LogFails, Observe, Goto, Holders, TypeOK
  <2> QED
    BY <2>1, <1>same
<1>3. ASSUME NEW t \in Threads, AcquireSlot(t)
      PROVE  SlotsConserved'
  <2>1. CASE slots > 0
    <3>1. Holders' = Holders \cup {t} /\ t \notin Holders /\ slots' = slots - 1
      BY <1>3, <2>1 DEF AcquireSlot, Goto, Holders, TypeOK
    <3>2. Cardinality(Holders') = Cardinality(Holders) + 1
      BY <3>1, <1>f, FS_AddElement
    <3> QED
      BY <3>1, <3>2, <1>f, <1>s DEF SlotsConserved
  <2>2. CASE ~(slots > 0)
    <3>1. Holders' = Holders /\ slots' = slots
      BY <1>3, <2>2 DEF AcquireSlot, Goto, Holders, TypeOK
    <3> QED
      BY <3>1, <1>same
  <2> QED
    BY <2>1, <2>2
<1>4. ASSUME NEW t \in Threads, ReleaseSlot(t)
      PROVE  SlotsConserved'
  <2>1. Holders' = Holders \ {t} /\ t \in Holders /\ slots' = slots + 1
    BY <1>4 DEF ReleaseSlot, Goto, Holders, TypeOK
  <2>2. Cardinality(Holders') = Cardinality(Holders) - 1
    BY <2>1, <1>f, FS_RemoveElement
  <2> QED
    BY <2>1, <2>2, <1>f, <1>s DEF SlotsConserved
<1>5. CASE Tick \/ Seal \/ Checkpoint \/ UNCHANGED vars
  BY <1>5, <1>1 DEF Tick, Seal, Checkpoint, vars
<1> QED
  BY <1>2, <1>3, <1>4, <1>5 DEF Next

-----------------------------------------------------------------------------
\* What append writes is an event, numbered after memory and hashed after the
\* log (evidence.py:82-98).
LEMMA NewEventType ==
  ASSUME TypeOK, Chained, NEW t \in Threads
  PROVE  /\ NewEvent(t) \in EventType
         /\ NewEvent(t).seq = Len(events)
         /\ NewEvent(t).hash = Len(wal) + 1
         /\ events # <<>> => NewEvent(t).prev = events[Len(events)].hash
<1>1. Len(events) \in Nat /\ Len(wal) \in Nat
  BY DEF TypeOK
<1>2. events # <<>> => events[Len(events)] \in EventType
  BY <1>1, EmptySeq, ElementOfSeq DEF TypeOK
<1>3. (IF events = <<>> THEN Genesis ELSE Last(events).hash) \in Nat
  BY <1>2 DEF Genesis, Last, EventType
<1>4. (IF stamp[t] = OwnClock THEN clock ELSE stamp[t]) \in Nat
  BY DEF TypeOK
<1> QED
  BY <1>1, <1>3, <1>4 DEF NewEvent, EventType, Last

\* A step that leaves memory, log, mirror, flags and lock alone keeps the
\* invariant on them.
LEMMA Untouched ==
  ASSUME LedgerInv, UNCHANGED <<events, wal, seen, sealed, owner, root, acked>>,
         \A t \in Threads : pc'[t] = "appended" <=> pc[t] = "appended"
  PROVE  /\ LockHeld' /\ Chained' /\ MirrorIsPrefix' /\ ReturnedIsMirrored'
         /\ MemoryIsDurable' /\ (root # <<>> => sealed)' /\ RootIsFinal'
<1>1. LockHeld'
  BY DEF LedgerInv, LockHeld
<1>2. Chained' /\ MirrorIsPrefix' /\ ReturnedIsMirrored' /\ MemoryIsDurable'
  BY DEF LedgerInv, Chained, MirrorIsPrefix, ReturnedIsMirrored, MemoryIsDurable
<1>3. (root # <<>> => sealed)' /\ RootIsFinal'
  BY DEF LedgerInv, RootIsFinal, MirrorRoot
<1> QED
  BY <1>1, <1>2, <1>3

\* append under the lock (evidence.py:66-106) keeps chain, log and mirror.
LEMMA AppendKeeps ==
  ASSUME LedgerInv, NEW t \in Threads, AppendEvent(t)
  PROVE  /\ TypeOK' /\ LockHeld' /\ Chained' /\ MirrorIsPrefix' /\ ReturnedIsMirrored'
         /\ MemoryIsDurable' /\ (root # <<>> => sealed)' /\ RootIsFinal'
<1> DEFINE e == NewEvent(t)
<1>t. TypeOK /\ Chained /\ LockHeld /\ MirrorIsPrefix /\ MemoryIsDurable
  BY DEF LedgerInv
<1>e. /\ e \in EventType /\ e.seq = Len(events) /\ e.hash = Len(wal) + 1
      /\ events # <<>> => e.prev = events[Len(events)].hash
  BY <1>t, NewEventType
<1> HIDE DEF e
<1>n. Len(events) \in Nat /\ Len(wal) \in Nat /\ Len(seen) \in Nat
  BY <1>t DEF TypeOK
<1>a. /\ events' \in Seq(EventType) /\ Len(events') = Len(events) + 1
      /\ \A i \in 1..Len(events) : events'[i] = events[i]
      /\ events'[Len(events) + 1] = e
  BY <1>t, <1>e, AppendProperties DEF TypeOK, AppendEvent, e
<1>w. /\ wal' \in Seq(EventType) /\ Len(wal') = Len(wal) + 1
      /\ \A i \in 1..Len(wal) : wal'[i] = wal[i]
      /\ wal'[Len(wal) + 1] = e
  BY <1>t, <1>e, AppendProperties DEF TypeOK, AppendEvent, e
<1>1. TypeOK'
  BY <1>t, <1>a, <1>w DEF TypeOK, AppendEvent, Goto
<1>2. LockHeld'
  <2>1. ~sealed' /\ Len(seen') < Len(events')
    BY <1>t, <1>n, <1>a DEF AppendEvent, Refuses, MirrorIsPrefix
  <2>2. \A u \in Threads : pc'[u] = "appended" <=> owner' = u
    BY <1>t, LedgerAssumption DEF AppendEvent, Goto, TypeOK, LockHeld
  <2> QED
    BY <2>1, <2>2 DEF LockHeld
<1>3. Chained'
  <2>1. Len(events') <= MaxEvents
    BY <1>n, <1>a, LedgerAssumption DEF AppendEvent, Refuses
  <2>2. \A i \in 1..Len(events') : events'[i].seq = i - 1
    BY <1>t, <1>n, <1>a, <1>e, SMTT(30) DEF Chained
  <2>3. \A i \in 2..Len(events') : events'[i].prev = events'[i - 1].hash
    <3> SUFFICES ASSUME NEW i \in 2..Len(events')
                 PROVE  events'[i].prev = events'[i - 1].hash
      OBVIOUS
    <3>1. CASE i <= Len(events)
      BY <3>1, <1>t, <1>n, <1>a DEF Chained
    <3>2. CASE i = Len(events) + 1
      <4>1. events # <<>> /\ i - 1 = Len(events) /\ i - 1 \in 1..Len(events)
        BY <3>2, <1>n, EmptySeq
      <4> QED
        BY <4>1, <3>2, <1>a, <1>e
    <3> QED
      BY <3>1, <3>2, <1>n, <1>a
  <2> QED
    BY <2>1, <2>2, <2>3 DEF Chained
<1>4. MirrorIsPrefix'
  BY <1>t, <1>n, <1>a DEF MirrorIsPrefix, AppendEvent
<1>5. ReturnedIsMirrored' /\ (root # <<>> => sealed)' /\ RootIsFinal'
  BY DEF LedgerInv, ReturnedIsMirrored, RootIsFinal, MirrorRoot, AppendEvent
<1>6. MemoryIsDurable'
  <2>1. \A i \in 1..Len(events') :
           events'[i].hash \in 1..Len(wal') /\ wal'[events'[i].hash] = events'[i]
    <3> SUFFICES ASSUME NEW i \in 1..Len(events')
                 PROVE  events'[i].hash \in 1..Len(wal') /\ wal'[events'[i].hash] = events'[i]
      OBVIOUS
    <3>1. CASE i \in 1..Len(events)
      <4>1. /\ events'[i] = events[i] /\ events[i].hash \in 1..Len(wal)
            /\ wal[events[i].hash] = events[i]
        BY <3>1, <1>t, <1>a DEF MemoryIsDurable
      <4>2. wal'[events[i].hash] = wal[events[i].hash] /\ events[i].hash \in 1..Len(wal')
        BY <4>1, <1>n, <1>w, SMTT(30)
      <4> QED
        BY <4>1, <4>2
    <3>2. CASE i = Len(events) + 1
      BY <3>2, <1>n, <1>a, <1>w, <1>e
    <3> QED
      BY <3>1, <3>2, <1>n, <1>a
  <2>2. \A i, j \in 1..Len(events') : i < j => events'[i].hash < events'[j].hash
    <3> SUFFICES ASSUME NEW i \in 1..Len(events'), NEW j \in 1..Len(events'), i < j
                 PROVE  events'[i].hash < events'[j].hash
      OBVIOUS
    <3>1. i \in 1..Len(events) /\ events'[i] = events[i] /\ events[i].hash \in 1..Len(wal)
      BY <1>t, <1>n, <1>a DEF MemoryIsDurable
    <3>2. CASE j <= Len(events)
      BY <3>1, <3>2, <1>t, <1>n, <1>a DEF MemoryIsDurable
    <3>3. CASE j = Len(events) + 1
      BY <3>1, <3>3, <1>n, <1>a, <1>e
    <3> QED
      BY <3>2, <3>3, <1>n, <1>a
  <2> QED
    BY <2>1, <2>2 DEF MemoryIsDurable
<1> QED
  BY <1>1, <1>2, <1>3, <1>4, <1>5, <1>6

\* When the mirror accepts the event of the commit in progress, it has seen all
\* the others, and none is missing (supervisor.py:66-81).
LEMMA AcceptedIsNext ==
  ASSUME LedgerInv, events # <<>>
  PROVE  Accepts(Last(events)) <=>
            /\ Len(seen) = Len(events) - 1
            /\ Len(seen) > 0 => events[Len(events)].ns >= events[Len(seen)].ns
<1>t. TypeOK /\ Chained /\ MirrorIsPrefix
  BY DEF LedgerInv
<1>n. Len(events) \in Nat \ {0} /\ Len(seen) \in Nat /\ Len(seen) <= Len(events)
  BY <1>t, EmptySeq DEF TypeOK, MirrorIsPrefix
<1>1. events[Len(events)].seq = Len(events) - 1
  BY <1>t, <1>n DEF Chained
<1>2. CASE seen = <<>>
  BY <1>2, <1>1, <1>n DEF Accepts, Last
<1>3. CASE seen # <<>>
  <2>1. Len(seen) \in 1..Len(events) /\ seen[Len(seen)] = events[Len(seen)]
    BY <1>3, <1>t, <1>n, EmptySeq DEF TypeOK, MirrorIsPrefix
  <2>2. events[Len(seen)].seq = Len(seen) - 1
    BY <2>1, <1>t DEF Chained
  <2>3. Len(seen) = Len(events) - 1 => events[Len(events)].prev = events[Len(seen)].hash
    <3> SUFFICES ASSUME Len(seen) = Len(events) - 1
                 PROVE  events[Len(events)].prev = events[Len(seen)].hash
      OBVIOUS
    <3>1. Len(events) \in 2..Len(events)
      BY <2>1, <1>n
    <3> QED
      BY <3>1, <1>t DEF Chained
  <2>4. Accepts(Last(events)) <=>
          /\ events[Len(events)].seq = events[Len(seen)].seq + 1
          /\ events[Len(events)].prev = events[Len(seen)].hash
          /\ events[Len(events)].ns >= events[Len(seen)].ns
    BY <1>3, <2>1 DEF Accepts, Last
  <2>5. (events[Len(events)].seq = events[Len(seen)].seq + 1) <=> Len(seen) = Len(events) - 1
    BY <1>1, <2>1, <2>2, <1>n
  <2> QED
    BY <2>1, <2>3, <2>4, <2>5
<1> QED
  BY <1>2, <1>3

\* The mirror's observation, inside the critical section of commit
\* (evidence.py:130), keeps prefix and acknowledged events, and cannot move a
\* root that is already signed.
LEMMA ObserveKeeps ==
  ASSUME LedgerInv, NEW t \in Threads, Observe(t)
  PROVE  /\ TypeOK' /\ LockHeld' /\ Chained' /\ MirrorIsPrefix' /\ ReturnedIsMirrored'
         /\ MemoryIsDurable' /\ (root # <<>> => sealed)' /\ RootIsFinal'
<1>t. TypeOK /\ Chained /\ LockHeld /\ MirrorIsPrefix /\ MemoryIsDurable /\ ReturnedIsMirrored
  BY DEF LedgerInv
<1>o. owner = t /\ t # Free /\ ~sealed /\ Len(seen) < Len(events) /\ root = <<>>
  BY <1>t, LedgerAssumption DEF LockHeld, Observe, LedgerInv
<1>n. Len(events) \in Nat /\ Len(seen) \in Nat
  BY <1>t DEF TypeOK
<1>e. events # <<>> /\ Last(events) = events[Len(events)] /\ Last(events) \in EventType
  BY <1>t, <1>o, <1>n, EmptySeq, ElementOfSeq DEF TypeOK, Last
<1>1. LockHeld'
  BY <1>t, <1>o, LedgerAssumption DEF Observe, Goto, LockHeld, TypeOK
<1>2. Chained' /\ MemoryIsDurable'
  BY <1>t DEF Observe, Chained, MemoryIsDurable
<1>3. (root # <<>> => sealed)' /\ RootIsFinal'
  BY <1>o DEF Observe, RootIsFinal
<1>4. CASE ~Accepts(Last(events))
  <2>1. seen' = seen /\ acked' = acked /\ events' = events
    BY <1>4 DEF Observe
  <2>2. TypeOK'
    BY <1>t, <2>1 DEF TypeOK, Observe, Goto
  <2>3. MirrorIsPrefix' /\ ReturnedIsMirrored'
    BY <1>t, <2>1 DEF MirrorIsPrefix, ReturnedIsMirrored
  <2> QED
    BY <1>1, <1>2, <1>3, <2>2, <2>3
<1>5. CASE Accepts(Last(events))
  <2>1. /\ seen' = Append(seen, Last(events)) /\ events' = events
        /\ acked' = acked \cup {Last(events).hash}
    BY <1>5 DEF Observe
  <2>2. /\ seen' \in Seq(EventType) /\ Len(seen') = Len(seen) + 1
        /\ \A i \in 1..Len(seen) : seen'[i] = seen[i]
        /\ seen'[Len(seen) + 1] = events[Len(events)]
    BY <2>1, <1>e, <1>t, AppendProperties DEF TypeOK
  <2>3. Len(seen) = Len(events) - 1
    BY <1>5, <1>e, AcceptedIsNext
  <2>4. TypeOK'
    <3>1. acked' \in SUBSET Nat
      BY <2>1, <1>e, <1>t, Zenon DEF TypeOK, EventType
    <3> QED
      BY <3>1, <2>2, <1>t DEF TypeOK, Observe, Goto
  <2>5. MirrorIsPrefix'
    BY <2>1, <2>2, <2>3, <1>n, <1>t DEF MirrorIsPrefix
  <2>6. ReturnedIsMirrored'
    <3> SUFFICES ASSUME NEW h \in acked'
                 PROVE  \E i \in 1..Len(seen') : seen'[i].hash = h
      BY DEF ReturnedIsMirrored
    <3>1. CASE h \in acked
      <4>1. PICK i \in 1..Len(seen) : seen[i].hash = h
        BY <3>1, <1>t DEF ReturnedIsMirrored
      <4> QED
        BY <4>1, <2>2, <1>n
    <3>2. CASE h = Last(events).hash
      BY <3>2, <2>2, <1>e, <1>n
    <3> QED
      BY <3>1, <3>2, <2>1
  <2> QED
    BY <1>1, <1>2, <1>3, <2>4, <2>5, <2>6
<1> QED
  BY <1>4, <1>5

\* A log write that raised may leave a line, never a gap in memory
\* (evidence.py:100-104).
LEMMA LogFailureKeeps ==
  ASSUME LedgerInv, NEW t \in Threads, LogFails(t)
  PROVE  /\ TypeOK' /\ LockHeld' /\ Chained' /\ MirrorIsPrefix' /\ ReturnedIsMirrored'
         /\ MemoryIsDurable' /\ (root # <<>> => sealed)' /\ RootIsFinal'
<1>t. TypeOK /\ Chained /\ LockHeld /\ MirrorIsPrefix /\ MemoryIsDurable
  BY DEF LedgerInv
<1>n. Len(wal) \in Nat
  BY <1>t DEF TypeOK
<1>w. /\ wal' \in Seq(EventType) /\ Len(wal') \in {Len(wal), Len(wal) + 1}
      /\ \A i \in 1..Len(wal) : wal'[i] = wal[i]
  <2>1. wal \in Seq(EventType) /\ NewEvent(t) \in EventType
    BY <1>t, NewEventType DEF TypeOK
  <2>2. CASE wal' = wal
    BY <2>1, <2>2
  <2>3. CASE wal' = Append(wal, NewEvent(t))
    BY <2>1, <2>3, AppendProperties
  <2> QED
    BY <2>2, <2>3 DEF LogFails
<1>1. TypeOK'
  BY <1>t, <1>w DEF TypeOK, LogFails, Goto
<1>2. LockHeld'
  BY <1>t, LedgerAssumption DEF LockHeld, TypeOK, LogFails, Goto
<1>3. Chained' /\ MirrorIsPrefix' /\ ReturnedIsMirrored'
  BY DEF LedgerInv, Chained, MirrorIsPrefix, ReturnedIsMirrored, LogFails
<1>4. (root # <<>> => sealed)' /\ RootIsFinal'
  BY DEF LedgerInv, RootIsFinal, MirrorRoot, LogFails
<1>5. MemoryIsDurable'
  <2>1. events' = events
    BY DEF LogFails
  <2>2. \A i \in 1..Len(events) :
           events[i].hash \in 1..Len(wal') /\ wal'[events[i].hash] = events[i]
    BY <1>t, <1>n, <1>w DEF MemoryIsDurable
  <2> QED
    BY <2>1, <2>2, <1>t DEF MemoryIsDurable
<1> QED
  BY <1>1, <1>2, <1>3, <1>4, <1>5

-----------------------------------------------------------------------------
\* A new ledger satisfies the invariant.
LEMMA InitLedgerInv == Init => LedgerInv
<1> SUFFICES ASSUME Init PROVE LedgerInv
  OBVIOUS
<1>1. TypeOK
  BY LedgerAssumption, EmptySeq, Zenon DEF Init, TypeOK, OwnClock
<1>2. Holders = {}
  BY DEF Init, Holders
<1>3. SlotsConserved
  BY <1>2, FS_EmptySet, LedgerAssumption DEF Init, SlotsConserved
<1>4. LockHeld
  BY LedgerAssumption DEF Init, LockHeld
<1>5. Chained /\ MirrorIsPrefix /\ ReturnedIsMirrored /\ MemoryIsDurable /\ RootIsFinal
  BY LedgerAssumption
  DEF Init, Chained, MirrorIsPrefix, ReturnedIsMirrored, MemoryIsDurable, RootIsFinal
<1>6. root # <<>> => sealed
  BY DEF Init
<1> QED
  BY <1>1, <1>3, <1>4, <1>5, <1>6 DEF LedgerInv

\* Every step of every thread, of seal and of the witness keeps it.
LEMMA NextLedgerInv == LedgerInv /\ [Next]_vars => LedgerInv'
<1> SUFFICES ASSUME LedgerInv, [Next]_vars PROVE LedgerInv'
  OBVIOUS
<1> DEFINE Rest == /\ LockHeld /\ Chained /\ MirrorIsPrefix /\ ReturnedIsMirrored
                   /\ MemoryIsDurable /\ (root # <<>> => sealed) /\ RootIsFinal
<1>t. TypeOK
  BY DEF LedgerInv
<1>1. SlotsConserved'
  BY SlotsStep DEF LedgerInv
<1>2. ASSUME NEW t \in Threads, Call(t) \/ AcquireSlot(t) \/ AppendRefused(t) \/ ReleaseSlot(t)
      PROVE  TypeOK' /\ Rest'
  <2>1. TypeOK'
    <3>1. CASE Call(t)
      <4>1. PICK ns \in {clock, OwnClock} : stamp' = [stamp EXCEPT ![t] = ns]
        BY <3>1, Zenon DEF Call
      <4>2. ns \in Nat \cup {OwnClock}
        BY <1>t DEF TypeOK
      <4>3. stamp' \in [Threads -> Nat \cup {OwnClock}]
        BY <4>1, <4>2, <1>t DEF TypeOK
      <4> QED
        BY <3>1, <4>3, <1>t DEF Call, Goto, TypeOK
    <3>2. CASE AcquireSlot(t)
      <4>1. slots' \in Nat
        BY <3>2, <1>t DEF AcquireSlot, TypeOK
      <4>2. pc' = [pc EXCEPT ![t] = "slot"] \/ pc' = [pc EXCEPT ![t] = "idle"]
        BY <3>2 DEF AcquireSlot, Goto
      <4>3. pc' \in [Threads -> {"idle", "called", "slot", "appended", "leaving"}]
        BY <4>2, <1>t DEF TypeOK
      <4> QED
        BY <3>2, <4>1, <4>3, <1>t DEF AcquireSlot, TypeOK
    <3>3. CASE AppendRefused(t)
      BY <3>3, <1>t DEF AppendRefused, Goto, TypeOK
    <3>4. CASE ReleaseSlot(t)
      BY <3>4, <1>t DEF ReleaseSlot, Goto, TypeOK
    <3> QED
      BY <1>2, <3>1, <3>2, <3>3, <3>4
  <2>2. /\ UNCHANGED <<events, wal, seen, sealed, owner, root, acked>>
        /\ \A u \in Threads : pc'[u] = "appended" <=> pc[u] = "appended"
    BY <1>2, <1>t DEF Call, AcquireSlot, AppendRefused, ReleaseSlot, Goto, TypeOK
  <2> QED
    BY <2>1, <2>2, Untouched
<1>3. ASSUME NEW t \in Threads, AppendEvent(t)
      PROVE  TypeOK' /\ Rest'
  BY <1>3, AppendKeeps
<1>4. ASSUME NEW t \in Threads, LogFails(t)
      PROVE  TypeOK' /\ Rest'
  BY <1>4, LogFailureKeeps
<1>5. ASSUME NEW t \in Threads, Observe(t)
      PROVE  TypeOK' /\ Rest'
  BY <1>5, ObserveKeeps
<1>6. ASSUME Tick \/ UNCHANGED vars
      PROVE  TypeOK' /\ Rest'
  <2>1. TypeOK'
    <3>1. CASE Tick
      BY <3>1, <1>t DEF Tick, TypeOK
    <3>2. CASE UNCHANGED vars
      BY <3>2, <1>t DEF vars, TypeOK
    <3> QED
      BY <1>6, <3>1, <3>2
  <2>2. UNCHANGED <<events, wal, seen, sealed, owner, root, acked, pc>>
    BY <1>6 DEF Tick, vars
  <2> QED
    BY <2>1, <2>2, Untouched
<1>7. ASSUME Seal
      PROVE  TypeOK' /\ Rest'
  <2>1. TypeOK'
    BY <1>7, <1>t DEF Seal, TypeOK
  <2>2. LockHeld' /\ (root # <<>> => sealed)'
    BY <1>7 DEF Seal, LedgerInv, LockHeld
  <2>3. Chained' /\ MirrorIsPrefix' /\ ReturnedIsMirrored' /\ MemoryIsDurable' /\ RootIsFinal'
    BY <1>7
    DEF Seal, LedgerInv, Chained, MirrorIsPrefix, ReturnedIsMirrored, MemoryIsDurable,
        RootIsFinal, MirrorRoot
  <2> QED
    BY <2>1, <2>2, <2>3
<1>8. ASSUME Checkpoint
      PROVE  TypeOK' /\ Rest'
  <2>1. MirrorRoot \in Nat \X Nat
    <3>1. Len(seen) \in Nat /\ (seen # <<>> => Last(seen) \in EventType)
      BY <1>t, EmptySeq, ElementOfSeq DEF TypeOK, Last
    <3> QED
      BY <3>1 DEF MirrorRoot, Genesis, EventType
  <2>2. TypeOK'
    BY <1>8, <2>1, <1>t DEF Checkpoint, TypeOK
  <2>3. LockHeld' /\ (root # <<>> => sealed)'
    BY <1>8 DEF Checkpoint, LedgerInv, LockHeld
  <2>4. RootIsFinal'
    BY <1>8, SMTT(30) DEF Checkpoint, RootIsFinal, MirrorRoot
  <2>5. Chained' /\ MirrorIsPrefix' /\ ReturnedIsMirrored' /\ MemoryIsDurable'
    BY <1>8
    DEF Checkpoint, LedgerInv, Chained, MirrorIsPrefix, ReturnedIsMirrored, MemoryIsDurable
  <2> QED
    BY <2>2, <2>3, <2>4, <2>5
<1>9. TypeOK' /\ Rest'
  BY <1>2, <1>3, <1>4, <1>5, <1>6, <1>7, <1>8 DEF Next
<1> QED
  BY <1>1, <1>9 DEF LedgerInv

\* The ledger's invariant holds in every state, for any number of threads,
\* slots and events (evidence.py, and supervisor.py:56-93).
THEOREM LedgerInvariance == Spec => []LedgerInv
  BY InitLedgerInv, NextLedgerInv, PTL DEF Spec

\* The mirror's events are a prefix of the ledger's (supervisor.py:66-90).
THEOREM MirrorHoldsPrefix == Spec => []MirrorIsPrefix
<1>1. LedgerInv => MirrorIsPrefix
  BY DEF LedgerInv
<1> QED
  BY <1>1, LedgerInvariance, PTL

\* A commit that returned has its event in the mirror (evidence.py:122-131).
THEOREM ReturnedCommitsStay == Spec => []ReturnedIsMirrored
<1>1. LedgerInv => ReturnedIsMirrored
  BY DEF LedgerInv
<1> QED
  BY <1>1, LedgerInvariance, PTL

\* No way out of commit loses or doubles a slot (evidence.py:119-133).
THEOREM SlotsAreConserved == Spec => []SlotsConserved
<1>1. LedgerInv => SlotsConserved
  BY DEF LedgerInv
<1> QED
  BY <1>1, LedgerInvariance, PTL

\* Memory was logged before, in order (evidence.py:99-105).
THEOREM MemoryWasLogged == Spec => []MemoryIsDurable
<1>1. LedgerInv => MemoryIsDurable
  BY DEF LedgerInv
<1> QED
  BY <1>1, LedgerInvariance, PTL

\* The witnessed root stays the mirror's root (supervisor.py:328-340).
THEOREM WitnessedRootIsFinal == Spec => []RootIsFinal
<1>1. LedgerInv => RootIsFinal
  BY DEF LedgerInv
<1> QED
  BY <1>1, LedgerInvariance, PTL

-----------------------------------------------------------------------------
\* Once sealed, neither ledger nor mirror changes: a commit in progress would
\* hold the lock, and seal waits for it (evidence.py:139-142, 122-131).
THEOREM SealedIsFinal == Spec => SealIsFinal
<1>1. LedgerInv /\ [Next]_vars => (sealed => UNCHANGED <<events, seen, sealed>>)
  <2> SUFFICES ASSUME LedgerInv, [Next]_vars, sealed
               PROVE  UNCHANGED <<events, seen, sealed>>
    BY Zenon
  <2>1. ASSUME NEW t \in Threads, AppendEvent(t)
        PROVE  FALSE
    BY <2>1 DEF AppendEvent, Refuses
  <2>2. ASSUME NEW t \in Threads, Observe(t)
        PROVE  FALSE
    BY <2>2, LedgerAssumption DEF Observe, LedgerInv, LockHeld
  <2>3. ASSUME NEW t \in Threads,
               Call(t) \/ AcquireSlot(t) \/ AppendRefused(t) \/ LogFails(t) \/ ReleaseSlot(t)
        PROVE  UNCHANGED <<events, seen, sealed>>
    BY <2>3, Zenon DEF Call, AcquireSlot, AppendRefused, LogFails, ReleaseSlot
  <2>4. CASE Tick \/ Seal \/ Checkpoint \/ UNCHANGED vars
    BY <2>4, Zenon DEF Tick, Seal, Checkpoint, vars
  <2> QED
    BY <2>1, <2>2, <2>3, <2>4, Zenon DEF Next
<1> QED
  BY <1>1, LedgerInvariance, PTL DEF Spec, SealIsFinal

-----------------------------------------------------------------------------
\* What is left of a sequence without its last element.
LEMMA Front ==
  ASSUME NEW S, NEW s \in Seq(S), Len(s) > 0
  PROVE  /\ SubSeq(s, 1, Len(s) - 1) \in Seq(S)
         /\ Len(SubSeq(s, 1, Len(s) - 1)) = Len(s) - 1
         /\ \A i \in 1..(Len(s) - 1) : SubSeq(s, 1, Len(s) - 1)[i] = s[i]
<1> DEFINE n == Len(s) - 1
<1>1. n \in Nat /\ 1 \in Int /\ n \in Int
  BY LenProperties
<1>2. \A i \in 1..n : s[i] \in S
  BY <1>1, ElementOfSeq, SMTT(30)
<1> HIDE DEF n
<1>3. /\ SubSeq(s, 1, n) \in Seq(S)
      /\ Len(SubSeq(s, 1, n)) = IF 1 <= n THEN n - 1 + 1 ELSE 0
      /\ \A i \in 1..(n - 1 + 1) : SubSeq(s, 1, n)[i] = s[1 + i - 1]
  BY <1>1, <1>2, SubSeqProperties, SMTT(30)
<1>4. /\ SubSeq(s, 1, n) \in Seq(S) /\ Len(SubSeq(s, 1, n)) = n
      /\ \A i \in 1..n : SubSeq(s, 1, n)[i] = s[i]
  BY <1>1, <1>3, SMTT(30)
<1> QED
  BY <1>4 DEF n

\* While the lock is held, the atomic ledger is the ledger without the event in
\* progress.
LEMMA CommittedWhileHeld ==
  ASSUME LedgerInv, owner # Free
  PROVE  /\ Committed \in Seq(EventType)
         /\ Len(Committed) = Len(events) - 1
         /\ \A i \in 1..(Len(events) - 1) : Committed[i] = events[i]
<1>1. Len(events) > 0 /\ events \in Seq(EventType)
  BY DEF LedgerInv, TypeOK, LockHeld
<1> QED
  BY <1>1, Front, SMTT(30) DEF Committed

\* Taking the lock and appending changes nothing for the callers yet.
LEMMA AppendIsHidden ==
  ASSUME LedgerInv, LedgerInv', NEW t \in Threads, AppendEvent(t)
  PROVE  UNCHANGED <<Committed, Len(seen), sealed>>
<1>1. Committed = events /\ owner' # Free
  BY LedgerAssumption DEF AppendEvent, Committed
<1>2. /\ Committed' \in Seq(EventType) /\ Len(Committed') = Len(events') - 1
      /\ \A i \in 1..(Len(events') - 1) : Committed'[i] = events'[i]
  <2>1. Len(events') > 0 /\ events' \in Seq(EventType)
    BY <1>1, SMTT(30) DEF LedgerInv, TypeOK, LockHeld
  <2>2. Committed' = SubSeq(events', 1, Len(events') - 1)
    BY <1>1, SMTT(30) DEF Committed
  <2> QED
    BY <2>1, <2>2, Front, SMTT(30)
<1>3. /\ Len(events') = Len(events) + 1 /\ events \in Seq(EventType)
      /\ \A i \in 1..Len(events) : events'[i] = events[i]
  BY NewEventType, AppendProperties, SMTT(30) DEF LedgerInv, TypeOK, AppendEvent
<1>4. Committed' = events
  <2>1. Len(Committed') = Len(events) /\ \A i \in 1..Len(Committed') : Committed'[i] = events[i]
    BY <1>2, <1>3
  <2> QED
    BY <2>1, <1>2, <1>3, SeqEqual, SMTT(30)
<1> QED
  BY <1>1, <1>4, SMTT(30) DEF AppendEvent

\* The observation of the mirror is the moment a commit takes effect.
LEMMA ObserveIsCommit ==
  ASSUME LedgerInv, NEW t \in Threads, Observe(t)
  PROVE  Atomic!Commit
<1>t. TypeOK /\ Chained /\ LockHeld
  BY DEF LedgerInv
<1>o. owner # Free /\ ~sealed /\ Len(seen) < Len(events)
  BY <1>t, LedgerAssumption, SMTT(30) DEF LockHeld, Observe
<1>n. Len(events) \in Nat \ {0} /\ Len(seen) \in Nat /\ events # <<>>
  BY <1>t, <1>o, EmptySeq, SMTT(30) DEF TypeOK
<1> DEFINE e == events[Len(events)]
<1>c. /\ Committed \in Seq(EventType) /\ Len(Committed) = Len(events) - 1
      /\ \A i \in 1..(Len(events) - 1) : Committed[i] = events[i]
  BY <1>o, CommittedWhileHeld, SMTT(30)
<1>1. Committed' = events /\ sealed' = sealed
  BY DEF Observe, Committed
<1>2. Committed' = Append(Committed, e)
  <2>1. e \in EventType /\ events \in Seq(EventType)
    BY <1>t, <1>n, ElementOfSeq, SMTT(30) DEF TypeOK
  <2>2. /\ Append(Committed, e) \in Seq(EventType)
        /\ Len(Append(Committed, e)) = Len(events)
        /\ \A i \in 1..(Len(events) - 1) : Append(Committed, e)[i] = events[i]
        /\ Append(Committed, e)[Len(events)] = e
    BY <2>1, <1>c, <1>n, AppendProperties, SMTT(30)
  <2>3. \A i \in 1..Len(events) : Append(Committed, e)[i] = events[i]
    BY <2>2, <1>n, SMTT(30)
  <2> QED
    BY <2>1, <2>2, <2>3, <1>1, SeqEqual, SMTT(30)
<1>3. ~Atomic!Refuses
  BY <1>o, <1>c, <1>n, <1>t, LedgerAssumption, SMTT(30) DEF Atomic!Refuses, Chained
<1>4. Accepts(Last(events)) <=> Atomic!MirrorAccepts(e.ns)
  <2>1. Committed # <<>> <=> Len(events) - 1 > 0
    BY <1>c, <1>n, EmptySeq, SMTT(30)
  <2>2. Len(events) - 1 > 0 => Committed[Len(Committed)] = events[Len(events) - 1]
    BY <1>c, <1>n, SMTT(30)
  <2>3. Atomic!MirrorAccepts(e.ns) <=>
          /\ Len(seen) = Len(events) - 1
          /\ Len(events) - 1 > 0 => e.ns >= events[Len(events) - 1].ns
    BY <2>1, <2>2, <1>c, SMTT(30) DEF Atomic!MirrorAccepts
  <2>4. Accepts(Last(events)) <=>
          /\ Len(seen) = Len(events) - 1
          /\ Len(seen) > 0 => e.ns >= events[Len(seen)].ns
    BY <1>n, AcceptedIsNext, SMTT(30)
  <2> QED
    BY <2>3, <2>4, SMTT(30)
<1>5. Len(seen)' = IF Accepts(Last(events)) THEN Len(seen) + 1 ELSE Len(seen)
  <2>1. seen \in Seq(EventType) /\ Last(events) \in EventType
    BY <1>t, <1>n, ElementOfSeq, SMTT(30) DEF TypeOK, Last
  <2> QED
    BY <2>1, AppendProperties, SMTT(30) DEF Observe
<1>6. Atomic!CommitMirrored(e) \/ Atomic!CommitUnmirrored(e)
  BY <1>1, <1>2, <1>3, <1>4, <1>5, Zenon DEF Atomic!CommitMirrored, Atomic!CommitUnmirrored
<1>7. Len(Committed') = Len(Committed) + 1 /\ Committed'[Len(Committed')] = e
  BY <1>1, <1>c, <1>n
<1> QED
  BY <1>6, <1>7 DEF Atomic!Commit

\* Slots, lock, log and mirror implement the atomic ledger that gateway,
\* executor and supervisor commit through (evidence.py:108-142).
THEOREM RefinesAtomicLedger == Spec => ImplementsAtomicLedger
<1>1. Init => Atomic!Init
  BY EmptySeq, SMTT(30) DEF Init, Atomic!Init, Committed
<1>2. LedgerInv /\ LedgerInv' /\ [Next]_vars => [Atomic!Next]_(Atomic!ledgerVars)
  <2> SUFFICES ASSUME LedgerInv, LedgerInv', [Next]_vars
               PROVE  Atomic!Next \/ UNCHANGED <<Committed, Len(seen), sealed>>
    BY DEF Atomic!ledgerVars
  <2>1. ASSUME NEW t \in Threads, AppendEvent(t)
        PROVE  UNCHANGED <<Committed, Len(seen), sealed>>
    BY <2>1, AppendIsHidden, SMTT(30)
  <2>2. ASSUME NEW t \in Threads, Observe(t)
        PROVE  Atomic!Next
    BY <2>2, ObserveIsCommit, SMTT(30) DEF Atomic!Next
  <2>3. ASSUME NEW t \in Threads,
               Call(t) \/ AcquireSlot(t) \/ AppendRefused(t) \/ LogFails(t) \/ ReleaseSlot(t)
        PROVE  UNCHANGED <<Committed, Len(seen), sealed>>
    BY <2>3, SMTT(30) DEF Call, AcquireSlot, AppendRefused, LogFails, ReleaseSlot, Committed
  <2>4. CASE Seal
    BY <2>4, SMTT(30) DEF Seal, Committed, Atomic!Next, Atomic!Seal
  <2>5. CASE Tick \/ Checkpoint \/ UNCHANGED vars
    BY <2>5 DEF Tick, Checkpoint, vars, Committed
  <2> QED
    BY <2>1, <2>2, <2>3, <2>4, <2>5, SMTT(30) DEF Next
<1> QED
  BY <1>1, <1>2, LedgerInvariance, PTL DEF Spec, ImplementsAtomicLedger, Atomic!Spec

(***************************************************************************)
(* Crashes and restarts.                                                   *)
(***************************************************************************)

Labels == {"idle", "called", "slot", "appended", "leaving"}

RestartTypeOK ==
    /\ clock \in Nat
    /\ events \in Seq(EventType) /\ wal \in Seq(EventType) /\ seen \in Seq(EventType)
    /\ pc \in [Threads -> Labels] /\ stamp \in [Threads -> Nat \cup {OwnClock}]
    /\ file \in Seq(Nat) /\ shortWrites \in Nat
    /\ open \in BOOLEAN /\ durable \in BOOLEAN /\ up \in BOOLEAN

\* Somewhere in the file f there is a whole line with this event.
Logged(f, h) == h # Torn /\ \E i \in 1..Len(f) : f[i] = h

\* A process that is up has no torn line behind it; one that died leaves at most
\* the last line torn.  Memory and returned commits are in the file.
FileIsSound ==
    /\ up => ~open
    /\ \A i \in 1..Len(file) : up \/ i < Len(file) => file[i] # Torn
    /\ \A i \in 1..Len(events) : Logged(file, events[i].hash)
    /\ \A h \in acked : Logged(file, h)

\* The inductive invariant.  What keeps the processes apart is the refusal of a
\* file that is not empty (evidence.py:62-64): a process that starts with a log
\* starts before any commit has returned.
RestartInv ==
    /\ RestartTypeOK
    /\ \A t \in Threads : pc[t] = "appended" => events # <<>>
    /\ receipts \subseteq {root} \ {<<>>}
    /\ durable /\ up => ReturnedIsMirrored
    /\ durable /\ (events # <<>> \/ acked # {} \/ open) => file # <<>>
    /\ durable /\ shortWrites = 0 => FileIsSound

-----------------------------------------------------------------------------
\* What append writes is an event with a hash that is no torn line
\* (evidence.py:82-98).
LEMMA NewHash ==
  ASSUME RestartTypeOK, NEW t \in Threads
  PROVE  /\ NewEvent(t) \in EventType
         /\ NewEvent(t).hash \in Nat \ {Torn}
<1>1. Len(events) \in Nat /\ Len(wal) \in Nat
  BY DEF RestartTypeOK
<1>2. events # <<>> => events[Len(events)] \in EventType
  BY <1>1, EmptySeq, ElementOfSeq DEF RestartTypeOK
<1>3. (IF events = <<>> THEN Genesis ELSE Last(events).hash) \in Nat
  BY <1>2 DEF Genesis, Last, EventType
<1>4. (IF stamp[t] = OwnClock THEN clock ELSE stamp[t]) \in Nat
  BY DEF RestartTypeOK
<1> QED
  BY <1>1, <1>3, <1>4 DEF NewEvent, EventType, Torn

\* A line or a part of one makes the file longer, or ends its last line; it is
\* never empty afterwards (evidence.py:99-105).
LEMMA Written ==
  ASSUME file \in Seq(Nat), open \in BOOLEAN, open => file # <<>>,
         NEW h \in Nat, WriteLine(h) \/ WritePart
  PROVE  file' \in Seq(Nat) /\ open' \in BOOLEAN /\ file' # <<>>
<1>1. file' = file \/ file' = Append(file, h) \/ file' = Append(file, Torn)
  BY DEF WriteLine, WritePart
<1>0. Append(file, h) \in Seq(Nat) /\ Append(file, Torn) \in Seq(Nat)
  BY DEF Torn
<1>2. file' \in Seq(Nat)
  BY <1>0, <1>1, Zenon
<1>3. file' # <<>>
  <2>1. CASE open
    BY <2>1 DEF WriteLine, WritePart
  <2>2. CASE ~open
    <3>1. file' = Append(file, h) \/ file' = Append(file, Torn)
      BY <2>2 DEF WriteLine, WritePart
    <3>2. Append(file, h) # <<>> /\ Append(file, Torn) # <<>>
      BY AppendProperties DEF Torn
    <3> QED
      BY <3>1, <3>2
  <2> QED
    BY <2>1, <2>2
<1> QED
  BY <1>2, <1>3, Zenon DEF WriteLine, WritePart

\* A whole line after whole lines keeps what is logged, and adds itself.
LEMMA LineKeeps ==
  ASSUME file \in Seq(Nat), ~open, NEW h \in Nat \ {Torn}, WriteLine(h),
         \A i \in 1..Len(file) : file[i] # Torn
  PROVE  /\ ~open'
         /\ \A i \in 1..Len(file') : file'[i] # Torn
         /\ \A x : Logged(file, x) => Logged(file', x)
         /\ Logged(file', h)
<1>1. /\ file' = Append(file, h) /\ ~open'
      /\ Len(file) \in Nat /\ Len(file') = Len(file) + 1
      /\ file'[Len(file) + 1] = h
      /\ \A i \in 1..Len(file) : file'[i] = file[i]
  BY AppendProperties DEF WriteLine
<1>2. \A x : Logged(file, x) => Logged(file', x)
  BY <1>1 DEF Logged
<1>3. Logged(file', h)
  BY <1>1 DEF Logged
<1>4. \A i \in 1..Len(file') : file'[i] # Torn
  BY <1>1
<1> QED
  BY <1>1, <1>2, <1>3, <1>4

-----------------------------------------------------------------------------
\* The first process starts with nothing.
LEMMA InitRestartInv == RestartInit => RestartInv
<1> SUFFICES ASSUME RestartInit PROVE RestartInv
  OBVIOUS
<1>1. RestartTypeOK
  BY EmptySeq, Zenon DEF RestartInit, Init, RestartTypeOK, OwnClock, Labels
<1>2. \A t \in Threads : pc[t] # "appended"
  BY DEF RestartInit, Init
<1>3. ReturnedIsMirrored /\ acked = {} /\ events = <<>> /\ receipts = {} /\ ~open
  BY DEF RestartInit, Init, ReturnedIsMirrored
<1>4. FileIsSound
  BY EmptySeq DEF RestartInit, Init, FileIsSound
<1> QED
  BY <1>1, <1>2, <1>3, <1>4 DEF RestartInv

\* A step that leaves file, memory, mirror and receipts alone keeps it.
LEMMA Elsewhere ==
  ASSUME RestartInv, RestartTypeOK',
         UNCHANGED <<events, seen, acked, root, receipts, file, open, shortWrites,
                     durable, up>>,
         \A t \in Threads : pc'[t] = "appended" => pc[t] = "appended"
  PROVE  RestartInv'
<1>1. (durable /\ up => ReturnedIsMirrored)'
  BY DEF RestartInv, ReturnedIsMirrored
<1>2. (durable /\ shortWrites = 0 => FileIsSound)'
  BY DEF RestartInv, FileIsSound, Logged
<1> QED
  BY <1>1, <1>2 DEF RestartInv

-----------------------------------------------------------------------------
\* The steps inside commit that touch neither file nor memory, the clock and
\* sealing.
LEMMA InMemoryKeeps ==
  ASSUME RestartInv,
         \/ Tick /\ UNCHANGED <<fileVars, processVars, receipts>>
         \/ /\ Seal \/ \E t \in Threads : \/ Call(t) \/ AcquireSlot(t)
                                          \/ AppendRefused(t) \/ ReleaseSlot(t)
            /\ UNCHANGED <<fileVars, processVars, receipts>>
  PROVE  RestartInv'
<1>t. RestartTypeOK
  BY SMTT(30) DEF RestartInv
<1>1. /\ UNCHANGED <<events, wal, seen, acked, root, receipts, file, open, shortWrites,
                     durable, up>>
      /\ clock' \in Nat
  BY <1>t, SMTT(30) DEF Tick, Seal, Call, AcquireSlot, AppendRefused, ReleaseSlot, fileVars,
              processVars, RestartTypeOK
<1>2. /\ pc' \in [Threads -> Labels]
      /\ \A u \in Threads : pc'[u] = "appended" => pc[u] = "appended"
  <2>1. CASE UNCHANGED pc
    BY <2>1, <1>t DEF RestartTypeOK
  <2>2. ASSUME NEW t \in Threads, NEW label \in Labels \ {"appended"}, Goto(t, label)
        PROVE  <1>2!1 /\ <1>2!2
    BY <2>2, <1>t, SMTT(30) DEF Goto, RestartTypeOK
  <2> QED
    BY <2>1, <2>2 DEF Tick, Seal, Call, AcquireSlot, AppendRefused, ReleaseSlot, Labels
<1>3. stamp' \in [Threads -> Nat \cup {OwnClock}]
  <2>1. CASE UNCHANGED stamp
    BY <2>1, <1>t DEF RestartTypeOK
  <2>2. ASSUME NEW t \in Threads, Call(t)
        PROVE  stamp' \in [Threads -> Nat \cup {OwnClock}]
    <3>1. PICK ns \in {clock, OwnClock} : stamp' = [stamp EXCEPT ![t] = ns]
      BY <2>2, Zenon DEF Call
    <3>2. ns \in Nat \cup {OwnClock}
      BY <1>t DEF RestartTypeOK
    <3> QED
      BY <3>1, <3>2, <1>t DEF RestartTypeOK
  <2> QED
    BY <2>1, <2>2 DEF Tick, Seal, AcquireSlot, AppendRefused, ReleaseSlot
<1>4. RestartTypeOK'
  BY <1>t, <1>1, <1>2, <1>3, SMTT(30) DEF RestartTypeOK
<1> QED
  BY <1>1, <1>2, <1>4, Elsewhere

\* append (evidence.py:66-106): without short writes, the event is in the file
\* when it is in memory.
LEMMA AppendLoggedKeeps ==
  ASSUME RestartInv, up, NEW t \in Threads, AppendLogged(t)
  PROVE  RestartInv'
<1>t. RestartTypeOK
  BY DEF RestartInv
<1> DEFINE e == NewEvent(t)
<1>e. e \in EventType /\ e.hash \in Nat \ {Torn} /\ e.hash \in Nat
  BY <1>t, NewHash
<1> HIDE DEF e
<1>a. /\ events' = Append(events, e) /\ wal' = Append(wal, e)
      /\ Goto(t, "appended")
      /\ UNCHANGED <<clock, seen, root, stamp, acked, durable, up, receipts>>
      /\ \/ durable /\ WriteLine(e.hash) /\ shortWrites' = shortWrites
         \/ durable /\ shortWrites' = shortWrites + 1 /\ WritePart
         \/ ~durable /\ UNCHANGED <<file, open, shortWrites>>
  BY DEF AppendLogged, AppendEvent, processVars, fileVars, e
<1>s. /\ events' \in Seq(EventType) /\ wal' \in Seq(EventType) /\ events' # <<>>
      /\ Len(events) \in Nat /\ Len(events') = Len(events) + 1
      /\ events'[Len(events) + 1] = e
      /\ \A i \in 1..Len(events) : events'[i] = events[i]
  <2>1. events \in Seq(EventType) /\ wal \in Seq(EventType)
    BY <1>t DEF RestartTypeOK
  <2>2. events' = Append(events, e) /\ wal' = Append(wal, e)
    BY <1>a
  <2> QED
    BY <1>e, <2>1, <2>2, AppendProperties
<1>f. /\ file' \in Seq(Nat) /\ open' \in BOOLEAN /\ shortWrites' \in Nat
      /\ durable => file' # <<>>
  <2>1. CASE durable
    <3>1. open => file # <<>>
      BY <2>1 DEF RestartInv
    <3>2. WriteLine(e.hash) \/ WritePart
      BY <1>a, <2>1
    <3>3. file' \in Seq(Nat) /\ open' \in BOOLEAN /\ file' # <<>>
      BY <3>1, <3>2, <1>e, <1>t, Written, SMTT(30) DEF RestartTypeOK
    <3> QED
      BY <3>3, <1>a, <1>t, SMTT(30) DEF RestartTypeOK
  <2>2. CASE ~durable
    BY <1>a, <2>2, <1>t DEF RestartTypeOK
  <2> QED
    BY <2>1, <2>2, <1>t DEF RestartTypeOK
<1>1. RestartTypeOK'
  <2>1. pc' \in [Threads -> Labels]
    BY <1>a, <1>t DEF Goto, RestartTypeOK, Labels
  <2> QED
    BY <2>1, <1>a, <1>s, <1>f, <1>t, SMTT(30) DEF RestartTypeOK
<1>2. (durable /\ up => ReturnedIsMirrored)'
  BY <1>a DEF RestartInv, ReturnedIsMirrored
<1>3. (durable /\ shortWrites = 0 => FileIsSound)'
  <2> SUFFICES ASSUME durable, shortWrites' = 0
               PROVE  FileIsSound'
    BY <1>a
  <2>1. shortWrites = 0 /\ WriteLine(e.hash)
    BY <1>a, <1>t DEF RestartTypeOK
  <2>2. FileIsSound
    BY <2>1, SMTT(30) DEF RestartInv
  <2>3. /\ ~open'
        /\ \A i \in 1..Len(file') : file'[i] # Torn
        /\ \A x : Logged(file, x) => Logged(file', x)
        /\ Logged(file', e.hash)
    BY <2>1, <2>2, <1>e, <1>t, LineKeeps, SMTT(30) DEF FileIsSound, RestartTypeOK
  <2>4. ASSUME NEW i \in 1..Len(events') PROVE Logged(file', events'[i].hash)
    <3>1. CASE i \in 1..Len(events)
      BY <3>1, <1>s, <2>2, <2>3, SMTT(30) DEF FileIsSound
    <3>2. CASE i = Len(events) + 1
      BY <3>2, <1>s, <2>3, SMTT(30)
    <3> QED
      BY <3>1, <3>2, <1>s
  <2>5. \A h \in acked' : Logged(file', h)
    BY <1>a, <2>2, <2>3, SMTT(30) DEF FileIsSound
  <2> QED
    BY <2>3, <2>4, <2>5 DEF FileIsSound, Logged
<1> QED
  BY <1>1, <1>2, <1>3, <1>a, <1>s, <1>f, Zenon DEF RestartInv

\* A log that raises (evidence.py:100-105) leaves memory alone.
LEMMA LogRaisesKeeps ==
  ASSUME RestartInv, up, NEW t \in Threads, LogRaises(t)
  PROVE  RestartInv'
<1>t. RestartTypeOK
  BY DEF RestartInv
<1> DEFINE e == NewEvent(t)
<1>e. e \in EventType /\ e.hash \in Nat \ {Torn} /\ e.hash \in Nat
  BY <1>t, NewHash
<1> HIDE DEF e
<1>a. /\ durable /\ wal' \in {wal, Append(wal, e)}
      /\ Goto(t, "leaving")
      /\ UNCHANGED <<clock, events, seen, root, stamp, acked, durable, up, receipts,
                     shortWrites>>
      /\ UNCHANGED <<file, open>> \/ WriteLine(e.hash)
  BY DEF LogRaises, LogFails, processVars, fileVars, e
<1>1. file' \in Seq(Nat) /\ open' \in BOOLEAN
      /\ (file # <<>> => file' # <<>>) /\ (open' => file' # <<>>)
  <2>1. CASE UNCHANGED <<file, open>>
    BY <2>1, <1>a, <1>t, Zenon DEF RestartTypeOK, RestartInv
  <2>2. CASE WriteLine(e.hash)
    <3>1. open => file # <<>>
      BY <1>a DEF RestartInv
    <3> QED
      BY <2>2, <3>1, <1>e, <1>t, Written, SMTT(30) DEF RestartTypeOK
  <2> QED
    BY <1>a, <2>1, <2>2, SMTT(30)
<1>2. RestartTypeOK'
  <2>1. wal' \in Seq(EventType)
    <3>1. Append(wal, e) \in Seq(EventType) /\ wal \in Seq(EventType)
      BY <1>e, <1>t DEF RestartTypeOK
    <3> QED
      BY <3>1, <1>a, Zenon
  <2>2. pc' \in [Threads -> Labels]
    BY <1>a, <1>t DEF Goto, RestartTypeOK, Labels
  <2> QED
    BY <2>1, <2>2, <1>1, <1>a, <1>t, SMTT(30) DEF RestartTypeOK
<1>3. (durable /\ up => ReturnedIsMirrored)'
  BY <1>a DEF RestartInv, ReturnedIsMirrored
<1>4. (durable /\ shortWrites = 0 => FileIsSound)'
  <2> SUFFICES ASSUME durable, shortWrites = 0
               PROVE  FileIsSound'
    BY <1>a
  <2>1. FileIsSound
    BY DEF RestartInv
  <2>2. CASE UNCHANGED <<file, open>>
    BY <2>1, <2>2, <1>a, SMTT(30) DEF FileIsSound
  <2>3. CASE WriteLine(e.hash)
    <3>1. /\ ~open'
          /\ \A i \in 1..Len(file') : file'[i] # Torn
          /\ \A x : Logged(file, x) => Logged(file', x)
      BY <2>1, <2>3, <1>e, <1>t, LineKeeps, SMTT(30) DEF FileIsSound, RestartTypeOK
    <3> QED
      BY <3>1, <2>1, <1>a, SMTT(30) DEF FileIsSound
  <2> QED
    BY <1>a, <2>2, <2>3
<1>5. \A u \in Threads : pc'[u] = "appended" => events' # <<>>
  BY <1>a, <1>t, SMTT(30) DEF RestartInv, Goto, RestartTypeOK
<1> QED
  BY <1>1, <1>2, <1>3, <1>4, <1>5, <1>a, SMTT(30) DEF RestartInv

\* The observer (evidence.py:124-130): what returns is in memory, so in the
\* file, and in the mirror.
LEMMA ObserveLoggedKeeps ==
  ASSUME RestartInv, NEW t \in Threads, Observe(t),
         UNCHANGED <<fileVars, processVars, receipts>>
  PROVE  RestartInv'
<1>t. RestartTypeOK
  BY DEF RestartInv
<1>a. /\ pc[t] = "appended" /\ Goto(t, "leaving")
      /\ UNCHANGED <<clock, events, wal, root, stamp, file, open, shortWrites, durable,
                     up, receipts>>
      /\ \/ seen' = Append(seen, Last(events)) /\ acked' = acked \cup {Last(events).hash}
         \/ UNCHANGED <<seen, acked>>
  BY DEF Observe, fileVars, processVars
<1>e. /\ events # <<>> /\ Len(events) \in 1..Len(events)
      /\ Last(events) = events[Len(events)] /\ Last(events) \in EventType
  BY <1>a, <1>t, EmptySeq, ElementOfSeq, SMTT(30) DEF RestartInv, RestartTypeOK, Last
<1>s. /\ seen' \in Seq(EventType)
      /\ \A i \in 1..Len(seen) : i \in 1..Len(seen') /\ seen'[i] = seen[i]
      /\ \/ /\ acked' = acked \cup {Last(events).hash}
            /\ Len(seen') \in 1..Len(seen') /\ seen'[Len(seen')] = Last(events)
         \/ acked' = acked
  <2>1. CASE seen' = Append(seen, Last(events)) /\ acked' = acked \cup {Last(events).hash}
    <3>1. /\ Len(seen) \in Nat /\ seen' \in Seq(EventType) /\ Len(seen') = Len(seen) + 1
          /\ seen'[Len(seen) + 1] = Last(events)
          /\ \A i \in 1..Len(seen) : seen'[i] = seen[i]
      BY <2>1, <1>e, <1>t, AppendProperties DEF RestartTypeOK
    <3> QED
      BY <2>1, <3>1, SMTT(30)
  <2>2. CASE UNCHANGED <<seen, acked>>
    BY <2>2, <1>t, SMTT(30) DEF RestartTypeOK
  <2> QED
    BY <1>a, <2>1, <2>2, SMTT(30)
<1>1. RestartTypeOK'
  BY <1>a, <1>s, <1>t, SMTT(30) DEF RestartTypeOK, Goto, Labels
<1>2. (durable /\ up => ReturnedIsMirrored)'
  BY <1>a, <1>s DEF RestartInv, ReturnedIsMirrored
<1>3. (durable /\ (events # <<>> \/ acked # {} \/ open) => file # <<>>)'
  BY <1>a, <1>e, SMTT(30) DEF RestartInv
<1>4. (durable /\ shortWrites = 0 => FileIsSound)'
  BY <1>a, <1>e, <1>s, SMTT(30) DEF RestartInv, FileIsSound
<1>5. \A u \in Threads : pc'[u] = "appended" => events' # <<>>
  BY <1>a, <1>e, Zenon
<1> QED
  BY <1>1, <1>2, <1>3, <1>4, <1>5, <1>a, SMTT(30) DEF RestartInv

\* The witness (supervisor.py:99-152) signs its first root and no other.
LEMMA IssueKeeps ==
  ASSUME RestartInv, Issue
  PROVE  RestartInv'
<1>a. /\ root \in {<<>>, MirrorRoot} /\ root' = MirrorRoot
      /\ receipts' = receipts \cup {MirrorRoot}
      /\ UNCHANGED <<clock, events, wal, seen, pc, stamp, acked, file, open, shortWrites,
                     durable, up>>
  BY DEF Issue, fileVars, processVars
<1>1. MirrorRoot # <<>>
  BY DEF MirrorRoot
<1>2. receipts' \subseteq {root'} \ {<<>>}
  BY <1>a, <1>1 DEF RestartInv
<1>3. RestartTypeOK'
  BY <1>a DEF RestartInv, RestartTypeOK
<1>4. (durable /\ up => ReturnedIsMirrored)' /\ (durable /\ shortWrites = 0 => FileIsSound)'
  BY <1>a DEF RestartInv, ReturnedIsMirrored, FileIsSound
<1> QED
  BY <1>2, <1>3, <1>4, <1>a DEF RestartInv

-----------------------------------------------------------------------------
\* A process that dies loses its memory; the file may get a part of a line or
\* all of it.
LEMMA CrashKeeps ==
  ASSUME RestartInv, Crash
  PROVE  RestartInv'
<1>t. RestartTypeOK
  BY DEF RestartInv
<1>a. /\ up /\ ~up' /\ up' \in BOOLEAN /\ events' = <<>> /\ seen' = <<>>
      /\ pc' = [t \in Threads |-> "idle"] /\ stamp' = [t \in Threads |-> OwnClock]
      /\ UNCHANGED <<clock, root, acked, shortWrites, durable, receipts>>
  BY Zenon DEF Crash
<1>b. \/ UNCHANGED <<wal, file, open>>
      \/ \E t \in Threads :
            /\ durable
            /\ \/ WritePart /\ UNCHANGED wal
               \/ WriteLine(NewEvent(t).hash) /\ wal' = Append(wal, NewEvent(t))
  BY DEF Crash
<1>1. /\ wal' \in Seq(EventType) /\ file' \in Seq(Nat) /\ open' \in BOOLEAN
      /\ durable /\ (acked # {} \/ open') => file' # <<>>
      /\ durable /\ shortWrites = 0 => FileIsSound'
  <2>s. durable /\ shortWrites = 0 =>
            /\ FileIsSound /\ ~open
            /\ \A i \in 1..Len(file) : file[i] # Torn
    BY <1>a, SMTT(30) DEF RestartInv, FileIsSound
  <2>1. CASE UNCHANGED <<wal, file, open>>
    BY <2>1, <2>s, <1>a, <1>t, EmptySeq DEF RestartInv, RestartTypeOK, FileIsSound
  <2>2. ASSUME NEW t \in Threads, durable, WritePart, UNCHANGED wal
        PROVE  <1>1!1 /\ <1>1!2 /\ <1>1!3
    <3>1. file' \in Seq(Nat) /\ open' \in BOOLEAN /\ file' # <<>>
      <4>1. open => file # <<>>
        BY <2>2 DEF RestartInv
      <4> QED
        BY <2>2, <4>1, <1>t, Written, Zenon DEF RestartTypeOK
    <3>2. ASSUME shortWrites = 0 PROVE FileIsSound'
      <4>1. /\ file' = Append(file, Torn) /\ Len(file) \in Nat
            /\ Len(file') = Len(file) + 1
            /\ \A i \in 1..Len(file) : file'[i] = file[i]
        BY <3>2, <2>s, <2>2, <1>t, AppendProperties, SMTT(30) DEF WritePart, RestartTypeOK, Torn
      <4>2. \A i \in 1..Len(file') : i < Len(file') => file'[i] # Torn
        BY <4>1, <3>2, <2>s, <2>2, SMTT(30)
      <4>3. \A h \in acked' : Logged(file', h)
        BY <4>1, <3>2, <2>s, <2>2, <1>a, SMTT(30) DEF FileIsSound, Logged
      <4> QED
        BY <4>2, <4>3, <1>a, EmptySeq, SMTT(30) DEF FileIsSound
    <3> QED
      BY <3>1, <3>2, <2>2, <1>t, SMTT(30) DEF RestartTypeOK
  <2>3. ASSUME NEW t \in Threads, durable, WriteLine(NewEvent(t).hash),
               wal' = Append(wal, NewEvent(t))
        PROVE  <1>1!1 /\ <1>1!2 /\ <1>1!3
    <3> DEFINE e == NewEvent(t)
    <3>e. e \in EventType /\ e.hash \in Nat \ {Torn} /\ e.hash \in Nat
      BY <1>t, NewHash
    <3>w. WriteLine(e.hash) /\ wal' = Append(wal, e)
      BY <2>3
    <3> HIDE DEF e
    <3>1. file' \in Seq(Nat) /\ open' \in BOOLEAN /\ file' # <<>>
      <4>1. open => file # <<>>
        BY <2>3, SMTT(30) DEF RestartInv
      <4> QED
        BY <3>w, <3>e, <4>1, <1>t, Written, SMTT(30) DEF RestartTypeOK
    <3>2. ASSUME shortWrites = 0 PROVE FileIsSound'
      <4>1. /\ \A i \in 1..Len(file') : file'[i] # Torn
            /\ \A x : Logged(file, x) => Logged(file', x)
        BY <3>w, <3>e, <3>2, <2>s, <2>3, <1>t, LineKeeps, SMTT(30) DEF RestartTypeOK
      <4> QED
        BY <4>1, <3>2, <2>s, <2>3, <1>a, EmptySeq, SMTT(30) DEF FileIsSound
    <3>3. wal' \in Seq(EventType)
      BY <3>w, <3>e, <1>t, SMTT(30) DEF RestartTypeOK
    <3> QED
      BY <3>1, <3>2, <3>3, SMTT(30)
  <2> QED
    BY <1>b, <2>1, <2>2, <2>3
<1>2. RestartTypeOK'
  BY <1>1, <1>a, <1>t, EmptySeq, SMTT(30) DEF RestartTypeOK, Labels
<1>3. \A t \in Threads : pc'[t] # "appended"
  BY <1>a
<1> QED
  BY <1>1, <1>2, <1>3, <1>a DEF RestartInv

\* A new process with a log finds it empty (evidence.py:62-64): no commit had
\* returned.
LEMMA RestartKeeps ==
  ASSUME RestartInv, Restart
  PROVE  RestartInv'
<1>a. /\ durable => file = <<>>
      /\ up' /\ up' \in BOOLEAN /\ clock' \in {0, clock}
      /\ UNCHANGED <<events, wal, seen, root, pc, stamp, acked, file, open, shortWrites,
                     durable, receipts>>
  BY SMTT(30) DEF Restart, fileVars
<1>1. RestartTypeOK'
  BY <1>a, SMTT(30) DEF RestartInv, RestartTypeOK
<1>2. durable => acked = {} /\ events = <<>> /\ ~open
  BY <1>a DEF RestartInv
<1>3. durable => ReturnedIsMirrored' /\ FileIsSound'
  BY <1>a, <1>2, EmptySeq, SMTT(30) DEF ReturnedIsMirrored, FileIsSound
<1> QED
  BY <1>1, <1>3, <1>a, SMTT(30) DEF RestartInv

\* No step of any process, and no crash, breaks the invariant.
LEMMA NextRestartInv == RestartInv /\ [RestartNext]_restartVars => RestartInv'
<1> SUFFICES ASSUME RestartInv, [RestartNext]_restartVars PROVE RestartInv'
  OBVIOUS
<1>1. CASE UNCHANGED restartVars
  <2>1. /\ UNCHANGED <<clock, events, wal, seen, acked, root, pc, stamp, receipts, file,
                       open, shortWrites, durable, up>>
    BY <1>1, SMTT(30) DEF restartVars, vars, fileVars, processVars
  <2>2. RestartTypeOK'
    BY <2>1 DEF RestartInv, RestartTypeOK
  <2> QED
    BY <2>1, <2>2, Elsewhere, SMTT(30)
<1>2. CASE Tick /\ UNCHANGED <<fileVars, processVars, receipts>>
  BY <1>2, InMemoryKeeps
<1>3. CASE up /\ InMemory
  <2>1. CASE \E t \in Threads : Observe(t)
    BY <1>3, <2>1, ObserveLoggedKeeps, SMTT(30) DEF InMemory
  <2>2. CASE ~\E t \in Threads : Observe(t)
    BY <1>3, <2>2, InMemoryKeeps, SMTT(30) DEF InMemory
  <2> QED
    BY <2>1, <2>2, SMTT(30)
<1>4. CASE up /\ Issue
  BY <1>4, IssueKeeps
<1>5. ASSUME NEW t \in Threads, up, AppendLogged(t) \/ LogRaises(t) PROVE RestartInv'
  BY <1>5, AppendLoggedKeeps, LogRaisesKeeps, SMTT(30)
<1>6. CASE Crash
  BY <1>6, CrashKeeps
<1>7. CASE Restart
  BY <1>7, RestartKeeps
<1> QED
  BY <1>1, <1>2, <1>3, <1>4, <1>5, <1>6, <1>7, SMTT(30) DEF RestartNext

\* However often the process dies and is started again, the invariant of file,
\* memory, mirror and receipts holds (evidence.py:39-133).
THEOREM RestartInvariance == RestartSpec => []RestartInv
  BY InitRestartInv, NextRestartInv, PTL DEF RestartSpec

\* The witness refuses a second root for the manifest (supervisor.py:138-152), so
\* that all receipts of all processes have the same one.
THEOREM ReceiptsHaveOneRoot == RestartSpec => []OneRootPerManifest
<1>1. RestartInv => OneRootPerManifest
  <2> SUFFICES ASSUME RestartInv PROVE OneRootPerManifest
    OBVIOUS
  <2>1. receipts = {} \/ receipts = {root}
    BY DEF RestartInv
  <2>2. Cardinality({}) = 0 /\ Cardinality({root}) = 1
    BY FS_EmptySet, FS_Singleton, Zenon
  <2> QED
    BY <2>1, <2>2 DEF OneRootPerManifest
<1> QED
  BY <1>1, RestartInvariance, PTL

\* Unless a write was short, every commit that returned can be read back from the
\* log (evidence.py:99-105, 124-131).
THEOREM ReturnedCommitsAreReadable == RestartSpec => []ReturnedIsReadable
<1>1. RestartInv => ReturnedIsReadable
  <2> SUFFICES ASSUME RestartInv, shortWrites = 0, durable, NEW h \in acked
               PROVE  \E i \in Readable : file[i] = h
    BY DEF ReturnedIsReadable, DurablyCommitted
  <2>1. FileIsSound /\ Len(file) \in Nat
    BY SMTT(30) DEF RestartInv, RestartTypeOK
  <2>2. PICK i \in 1..Len(file) : file[i] = h /\ h # Torn
    BY <2>1, SMTT(30) DEF FileIsSound, Logged
  <2>3. \A j \in 1..i : file[j] # Torn
    BY <2>1, <2>2, SMTT(30) DEF FileIsSound
  <2> QED
    BY <2>2, <2>3 DEF Readable
<1> QED
  BY <1>1, RestartInvariance, PTL

\* With a log, a receipt (supervisor.py:305-373) covers every commit that returned
\* in any process: only one process has ever committed.
THEOREM ReceiptsCoverReturned == RestartSpec => ReceiptCoversReturned
<1>1. RestartInv /\ [RestartNext]_restartVars =>
          [receipts' # receipts /\ durable =>
              \A h \in acked : \E i \in 1..Len(seen) : seen[i].hash = h]_restartVars
  <2> SUFFICES ASSUME RestartInv, RestartNext, receipts' # receipts, durable
               PROVE  \A h \in acked : \E i \in 1..Len(seen) : seen[i].hash = h
    BY SMTT(30) DEF restartVars
  <2>1. up
    BY Zenon DEF RestartNext, AppendLogged, LogRaises, Crash, Restart
  <2> QED
    BY <2>1 DEF RestartInv, ReturnedIsMirrored
<1> QED
  BY <1>1, RestartInvariance, PTL DEF RestartSpec, ReceiptCoversReturned
-----------------------------------------------------------------------------
\* Events numbered from the first, each naming the one before it.
IsChain(s) ==
    \A i \in 1..Len(s) : s[i].seq = i - 1 /\ s[i].prev = i - 1 /\ s[i].hash = i

Whole == \A i \in 1..Len(file) : file[i] # Torn

\* Line i holds event i as far as the file can be read; while no line is torn it
\* has a line for every event written.
FileFollows ==
    /\ Whole => Len(file) = Len(wal) /\ ~open
    /\ \A i \in Readable : file[i] = i /\ i <= Len(wal)

\* The inductive invariant of a log no write to which raised: memory is what was
\* written, and a process that found the file empty found nothing written.
ChainInv ==
    /\ walFailures \in Nat
    /\ ~durable => file = <<>>
    /\ durable /\ walFailures = 0 =>
          /\ events = IF up THEN wal ELSE <<>>
          /\ IsChain(wal)
          /\ FileFollows

\* A write leaves the lines that were whole, and can be read only behind whole ones.
LEMMA ReadableGrows ==
  ASSUME file \in Seq(Nat), NEW x \in Nat, file' = file \/ file' = Append(file, x)
  PROVE  /\ Whole' => Whole
         /\ \A i \in 1..Len(file) : file'[i] = file[i]
         /\ \A i \in Readable' :
               \/ i \in Readable
               \/ Whole /\ file' = Append(file, x) /\ i = Len(file) + 1
<1>1. CASE file' = file
  BY <1>1 DEF Whole, Readable
<1>2. CASE file' = Append(file, x)
  <2>1. /\ Len(file) \in Nat /\ Len(file') = Len(file) + 1
        /\ \A i \in 1..Len(file) : file'[i] = file[i]
    BY <1>2, AppendProperties, SMTT(30)
  <2>2. Whole' => Whole
    BY <2>1, SMTT(30) DEF Whole
  <2>3. ASSUME NEW i \in Readable', i \notin Readable
        PROVE  Whole /\ i = Len(file) + 1
    <3>1. i \in 1..Len(file) + 1 /\ \A j \in 1..i : file'[j] # Torn
      BY <2>1 DEF Readable
    <3>2. ASSUME i \in 1..Len(file) PROVE FALSE
      <4>1. \A j \in 1..i : j \in 1..Len(file)
        BY <2>1, <3>2, SMTT(30)
      <4>2. \A j \in 1..i : file[j] # Torn
        BY <2>1, <3>1, <4>1, SMTT(30)
      <4> QED
        BY <2>3, <3>2, <4>2, SMTT(30) DEF Readable
    <3>3. i = Len(file) + 1
      BY <3>1, <3>2, <2>1, SMTT(30)
    <3> QED
      BY <3>1, <3>3, <2>1, SMTT(30) DEF Whole
  <2> QED
    BY <2>1, <2>2, <2>3, <1>2, SMTT(30)
<1> QED
  BY <1>1, <1>2

\* A whole line (evidence.py:99-105) is the next event, or ends a torn line.
LEMMA LineFollows ==
  ASSUME RestartTypeOK, FileFollows, NEW e \in EventType, e.hash = Len(wal) + 1,
         wal' = Append(wal, e), WriteLine(e.hash)
  PROVE  FileFollows'
<1>1. /\ Len(wal) \in Nat /\ Len(wal') = Len(wal) + 1 /\ e.hash \in Nat
      /\ file \in Seq(Nat) /\ Len(file) \in Nat /\ e.hash # Torn
  BY AppendProperties, SMTT(30) DEF RestartTypeOK, EventType, Torn
<1>2. file' = (IF open THEN file ELSE Append(file, e.hash)) /\ ~open'
  BY DEF WriteLine
<1>g. file' = file \/ file' = Append(file, e.hash)
  BY <1>2, SMTT(30)
<1>3. /\ Whole' => Whole
      /\ \A i \in 1..Len(file) : file'[i] = file[i]
      /\ \A i \in Readable' :
            i \in Readable \/ (Whole /\ file' = Append(file, e.hash) /\ i = Len(file) + 1)
  BY <1>1, <1>g, ReadableGrows, SMTT(30)
<1>4. file' = Append(file, e.hash) =>
          Len(file') = Len(file) + 1 /\ file'[Len(file) + 1] = e.hash
  BY <1>1, AppendProperties, SMTT(30)
<1>5. ASSUME Whole' PROVE Len(file') = Len(wal') /\ ~open'
  BY <1>1, <1>2, <1>3, <1>4, <1>5, SMTT(30) DEF FileFollows
<1>6. ASSUME NEW i \in Readable' PROVE file'[i] = i /\ i <= Len(wal')
  <2>1. CASE i \in Readable
    <3>1. i \in 1..Len(file) /\ file[i] = i /\ i <= Len(wal)
      BY <2>1, SMTT(30) DEF FileFollows, Readable
    <3> QED
      BY <3>1, <1>1, <1>3, SMTT(30)
  <2>2. CASE Whole /\ file' = Append(file, e.hash) /\ i = Len(file) + 1
    BY <2>2, <1>1, <1>4, SMTT(30) DEF FileFollows
  <2> QED
    BY <2>1, <2>2, <1>3, SMTT(30)
<1> QED
  BY <1>5, <1>6, SMTT(30) DEF FileFollows

\* A part of a line adds nothing that can be read.
LEMMA PartFollows ==
  ASSUME RestartTypeOK, FileFollows, open => file # <<>>,
         WritePart, wal' = wal \/ \E e \in EventType : wal' = Append(wal, e)
  PROVE  FileFollows'
<1>1. /\ Len(wal) \in Nat /\ Len(wal') \in Nat /\ Len(wal') >= Len(wal)
      /\ file \in Seq(Nat) /\ Len(file) \in Nat
  BY AppendProperties, SMTT(30) DEF RestartTypeOK
<1>2. file' = (IF open THEN file ELSE Append(file, Torn))
  BY DEF WritePart
<1>g. (file' = file \/ file' = Append(file, Torn)) /\ Torn \in Nat
  BY <1>2, SMTT(30) DEF Torn
<1>3. /\ Whole' => Whole
      /\ \A i \in 1..Len(file) : file'[i] = file[i]
      /\ \A i \in Readable' :
            i \in Readable \/ (Whole /\ file' = Append(file, Torn) /\ i = Len(file) + 1)
  BY <1>1, <1>g, ReadableGrows, SMTT(30)
<1>4. file' = Append(file, Torn) =>
          Len(file') = Len(file) + 1 /\ file'[Len(file) + 1] = Torn
  BY <1>1, <1>g, AppendProperties, SMTT(30)
<1>5. ~Whole'
  <2>1. CASE open
    BY <2>1, <1>2, <1>3 DEF FileFollows
  <2>2. CASE ~open
    BY <2>2, <1>1, <1>2, <1>4 DEF Whole
  <2> QED
    BY <2>1, <2>2, SMTT(30)
<1>6. ASSUME NEW i \in Readable' PROVE file'[i] = i /\ i <= Len(wal')
  <2>1. CASE i \in Readable
    BY <2>1, <1>1, <1>3, SMTT(30) DEF FileFollows, Readable
  <2>2. CASE file' = Append(file, Torn) /\ i = Len(file) + 1
    BY <2>2, <1>1, <1>4 DEF Readable
  <2> QED
    BY <2>1, <2>2, <1>3
<1> QED
  BY <1>5, <1>6, SMTT(30) DEF FileFollows

\* What append makes of a chain (evidence.py:82-98) continues it.
LEMMA NewContinues ==
  ASSUME RestartTypeOK, events = wal, IsChain(wal), NEW t \in Threads,
         wal' = Append(wal, NewEvent(t))
  PROVE  IsChain(wal') /\ NewEvent(t).hash = Len(wal) + 1
<1> DEFINE e == NewEvent(t)
<1>1. wal \in Seq(EventType) /\ Len(wal) \in Nat /\ e \in EventType
  BY NewHash, SMTT(30) DEF RestartTypeOK
<1>2. e.seq = Len(wal) /\ e.prev = Len(wal) /\ e.hash = Len(wal) + 1
  <2>1. wal # <<>> => Len(wal) \in 1..Len(wal)
    BY <1>1, EmptySeq
  <2>2. wal = <<>> => Len(wal) = 0
    BY EmptySeq
  <2> QED
    BY <2>1, <2>2, <1>1, Zenon DEF NewEvent, IsChain, Genesis, Last
<1>3. wal' = Append(wal, e)
  OBVIOUS
<1> HIDE DEF e
<1>4. /\ Len(wal') = Len(wal) + 1 /\ wal'[Len(wal) + 1] = e
      /\ \A i \in 1..Len(wal) : wal'[i] = wal[i]
  BY <1>1, <1>3, AppendProperties, SMTT(30)
<1>5. IsChain(wal')
  BY <1>1, <1>2, <1>4 DEF IsChain
<1> QED
  BY <1>2, <1>5 DEF e

\* Init, and every step of every process, keep the chain.
LEMMA InitChainInv == RestartInit => ChainInv
<1> SUFFICES ASSUME RestartInit PROVE ChainInv
  OBVIOUS
<1>1. events = <<>> /\ wal = <<>> /\ file = <<>> /\ ~open /\ up /\ walFailures = 0
  BY DEF RestartInit, Init
<1>2. Len(<<>>) = 0
  BY EmptySeq
<1>3. IsChain(wal) /\ FileFollows
  BY <1>1, <1>2 DEF IsChain, FileFollows, Readable
<1> QED
  BY <1>1, <1>3 DEF ChainInv

\* No append, crash or reopening breaks the chain (evidence.py:79-110).
LEMMA NextChainInv ==
  RestartInv /\ ChainInv /\ [RestartNext]_restartVars => ChainInv'
<1> SUFFICES ASSUME RestartInv, ChainInv, [RestartNext]_restartVars PROVE ChainInv'
  OBVIOUS
<1>t. RestartTypeOK /\ (durable /\ open => file # <<>>)
  BY DEF RestartInv
<1>1. CASE UNCHANGED <<events, wal, file, open, durable, up, walFailures>>
  BY <1>1 DEF ChainInv, FileFollows, Whole, Readable
<1>2. ASSUME NEW t \in Threads, up, AppendLogged(t) PROVE ChainInv'
  <2>1. /\ wal' = Append(wal, NewEvent(t)) /\ events' = Append(events, NewEvent(t))
        /\ UNCHANGED <<durable, up, walFailures>>
        /\ \/ WriteLine(NewEvent(t).hash) \/ WritePart
           \/ ~durable /\ UNCHANGED <<file, open>>
    BY <1>2 DEF AppendLogged, AppendEvent, processVars, fileVars
  <2>2. ASSUME durable, walFailures = 0
        PROVE  events' = wal' /\ IsChain(wal') /\ FileFollows'
    <3>1. events = wal /\ IsChain(wal) /\ FileFollows
      BY <2>2, <1>2 DEF ChainInv
    <3>2. IsChain(wal') /\ NewEvent(t).hash = Len(wal) + 1 /\ NewEvent(t) \in EventType
      BY <3>1, <2>1, <1>t, NewContinues, NewHash, SMTT(30)
    <3>3. CASE WriteLine(NewEvent(t).hash)
      BY <3>1, <3>2, <3>3, <2>1, <1>t, LineFollows, SMTT(30)
    <3>4. CASE WritePart
      BY <3>1, <3>2, <3>4, <2>1, <2>2, <1>t, PartFollows, SMTT(30)
    <3> QED
      BY <3>1, <3>2, <3>3, <3>4, <2>1, <2>2
  <2>3. ~durable' => file' = <<>>
    BY <1>2, <2>1, SMTT(30) DEF ChainInv, AppendLogged, fileVars
  <2> QED
    BY <2>1, <2>2, <2>3, <1>2, SMTT(30) DEF ChainInv
<1>3. ASSUME NEW t \in Threads, LogRaises(t) PROVE ChainInv'
  BY <1>3 DEF LogRaises, LogFails, processVars, ChainInv
<1>4. CASE Crash
  <2>1. events' = <<>> /\ up /\ ~up' /\ UNCHANGED <<durable, walFailures>>
    BY <1>4 DEF Crash
  <2>2. \/ UNCHANGED <<wal, file, open>>
        \/ \E t \in Threads :
              /\ durable
              /\ \/ WritePart /\ UNCHANGED wal
                 \/ WriteLine(NewEvent(t).hash) /\ wal' = Append(wal, NewEvent(t))
    BY <1>4 DEF Crash
  <2>3. ASSUME durable, walFailures = 0 PROVE IsChain(wal') /\ FileFollows'
    <3>1. events = wal /\ IsChain(wal) /\ FileFollows
      BY <2>1, <2>3 DEF ChainInv
    <3>2. CASE UNCHANGED <<wal, file, open>>
      BY <3>1, <3>2 DEF FileFollows, Whole, Readable
    <3>3. CASE WritePart /\ UNCHANGED wal
      BY <3>1, <3>3, <2>3, <1>t, PartFollows, SMTT(30)
    <3>4. ASSUME NEW t \in Threads, WriteLine(NewEvent(t).hash),
                 wal' = Append(wal, NewEvent(t))
          PROVE  IsChain(wal') /\ FileFollows'
      <4>1. IsChain(wal') /\ NewEvent(t).hash = Len(wal) + 1 /\ NewEvent(t) \in EventType
        BY <3>1, <3>4, <1>t, NewContinues, NewHash, SMTT(30)
      <4> QED
        BY <4>1, <3>1, <3>4, <1>t, LineFollows, SMTT(30)
    <3> QED
      BY <2>2, <3>2, <3>3, <3>4
  <2> QED
    BY <2>1, <2>2, <2>3 DEF ChainInv
<1>5. CASE Restart
  <2>1. /\ durable => file = <<>>
        /\ ~up /\ up' /\ UNCHANGED <<events, wal, file, open, durable, walFailures>>
    BY <1>5 DEF Restart, fileVars
  <2>2. ASSUME durable, walFailures = 0 PROVE events = wal
    <3>1. Whole /\ Len(file) = 0
      BY <2>1, <2>2, EmptySeq DEF Whole
    <3>2. Len(wal) = 0
      BY <3>1, <2>2, SMTT(30) DEF ChainInv, FileFollows
    <3> QED
      BY <3>2, <2>1, <2>2, <1>t, EmptySeq DEF ChainInv, RestartTypeOK
  <2> QED
    BY <2>1, <2>2 DEF ChainInv, FileFollows, Whole, Readable
<1>6. CASE \/ UNCHANGED restartVars \/ InMemory \/ Issue
           \/ Tick /\ UNCHANGED <<fileVars, processVars, receipts>>
  BY <1>6, <1>1, Zenon DEF restartVars, vars, Tick, InMemory, Issue, Call, AcquireSlot,
       AppendRefused, Observe, ReleaseSlot, Seal, fileVars, processVars
<1> QED
  BY <1>2, <1>3, <1>4, <1>5, <1>6 DEF RestartNext

\* Unless a write raised, the lines of the log that can be read are one chain from
\* genesis, whatever died and was started again: a process that finds a line refuses
\* to start (evidence.py:62-64), and none goes on behind a torn one.
THEOREM ReadableLogIsOneChain == RestartSpec => []LogIsOneChain
<1>1. RestartInv /\ ChainInv => LogIsOneChain
  <2> SUFFICES ASSUME RestartInv, ChainInv, walFailures = 0, NEW i \in Readable
               PROVE  /\ wal[file[i]].seq = i - 1
                      /\ wal[file[i]].prev = IF i = 1 THEN Genesis ELSE file[i - 1]
    BY DEF LogIsOneChain
  <2>1. Len(file) \in Nat /\ Len(wal) \in Nat /\ i \in 1..Len(file) /\ durable
    BY EmptySeq DEF RestartInv, RestartTypeOK, Readable, ChainInv
  <2>2. IsChain(wal) /\ FileFollows
    BY <2>1 DEF ChainInv
  <2>3. file[i] = i /\ i \in 1..Len(wal)
    BY <2>1, <2>2 DEF FileFollows
  <2>4. i # 1 => i - 1 \in Readable
    BY <2>1 DEF Readable
  <2> QED
    BY <2>1, <2>2, <2>3, <2>4, SMTT(30) DEF IsChain, FileFollows, Genesis
<1> QED
  BY <1>1, RestartInvariance, InitChainInv, NextChainInv, PTL DEF RestartSpec
=============================================================================
