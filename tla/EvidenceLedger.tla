--------------------------- MODULE EvidenceLedger ---------------------------
(***************************************************************************)
(* EvidenceLedger (app/evidence.py) with the EvidenceMirror and the        *)
(* TransparencyWitness that the supervisor attaches to it                  *)
(* (app/supervisor.py), at the grain of its synchronisation: threads take  *)
(* a commit slot, then the ledger lock, append to the write-ahead log and  *)
(* to memory, show the event to the mirror, and give lock and slot back.   *)
(*                                                                         *)
(* Hashes are collision-free: the hash of an event is the position it was  *)
(* written at in the log, a number no other written event has.             *)
(***************************************************************************)
EXTENDS Integers, Sequences, FiniteSets

CONSTANTS
    Threads,         \* callers of commit
    Free,            \* the ledger lock is not held
    MaxEvents,       \* max_events
    MaxPending,      \* max_pending_commits
    MaxClock,        \* bound on the clock
    MaxCommits,      \* bound on the calls of commit
    MaxWalFailures   \* bound on the log writes that raise

ASSUME LedgerAssumption ==
    /\ IsFiniteSet(Threads)
    /\ Free \notin Threads
    /\ MaxEvents \in Nat \ {0}
    /\ MaxPending \in Nat \ {0}
    /\ MaxClock \in Nat /\ MaxCommits \in Nat /\ MaxWalFailures \in Nat

VARIABLES
    clock,           \* time.monotonic_ns
    events,          \* _events
    wal,             \* the lines of the log file
    seen,            \* the events folded into the mirror's digest
    sealed,          \* _sealed
    owner,           \* holder of _lock
    slots,           \* free slots of _commit_slots
    root,            \* the witness's checkpoint: <<count, final hash>> or <<>>
    pc,              \* where each thread is in commit
    stamp,           \* its monotonic_ns argument; OwnClock for None
    acked,           \* hashes of the events whose commit returned
    commits,         \* calls of commit so far
    walFailures      \* log writes that raised

vars == <<clock, events, wal, seen, sealed, owner, slots, root, pc, stamp,
          acked, commits, walFailures>>

OwnClock == -1

Genesis == 0

Last(s) == s[Len(s)]

Init ==
    /\ clock = 0
    /\ events = <<>> /\ wal = <<>> /\ seen = <<>>
    /\ sealed = FALSE
    /\ owner = Free
    /\ slots = MaxPending
    /\ root = <<>>
    /\ pc = [t \in Threads |-> "idle"]
    /\ stamp = [t \in Threads |-> OwnClock]
    /\ acked = {}
    /\ commits = 0
    /\ walFailures = 0

Goto(t, label) == pc' = [pc EXCEPT ![t] = label]

-----------------------------------------------------------------------------
Tick ==
    /\ clock < MaxClock
    /\ clock' = clock + 1
    /\ UNCHANGED <<events, wal, seen, sealed, owner, slots, root, pc, stamp,
                   acked, commits, walFailures>>

\* The caller either reads the clock now and passes the reading, or passes
\* None and lets append read it under the lock.
Call(t) ==
    /\ pc[t] = "idle"
    /\ commits < MaxCommits
    /\ commits' = commits + 1
    /\ \E ns \in {clock, OwnClock} : stamp' = [stamp EXCEPT ![t] = ns]
    /\ Goto(t, "called")
    /\ UNCHANGED <<clock, events, wal, seen, sealed, owner, slots, root, acked,
                   walFailures>>

\* acquire(blocking=False)
AcquireSlot(t) ==
    /\ pc[t] = "called"
    /\ IF slots > 0
       THEN slots' = slots - 1 /\ Goto(t, "slot")
       ELSE UNCHANGED slots /\ Goto(t, "idle")
    /\ UNCHANGED <<clock, events, wal, seen, sealed, owner, root, stamp, acked,
                   commits, walFailures>>

-----------------------------------------------------------------------------
NewEvent(t) ==
    [seq |-> Len(events),
     prev |-> IF events = <<>> THEN Genesis ELSE Last(events).hash,
     ns |-> IF stamp[t] = OwnClock THEN clock ELSE stamp[t],
     hash |-> Len(wal) + 1]

Refuses == sealed \/ Len(events) >= MaxEvents

\* append under the lock: log, then memory.  The lock is kept for the mirror.
AppendEvent(t) ==
    /\ pc[t] = "slot" /\ owner = Free /\ ~Refuses
    /\ owner' = t
    /\ wal' = Append(wal, NewEvent(t))
    /\ events' = Append(events, NewEvent(t))
    /\ Goto(t, "appended")
    /\ UNCHANGED <<clock, seen, sealed, slots, root, stamp, acked, commits,
                   walFailures>>

\* append raises: the ledger is sealed or full.
AppendRefused(t) ==
    /\ pc[t] = "slot" /\ owner = Free /\ Refuses
    /\ Goto(t, "leaving")
    /\ UNCHANGED <<clock, events, wal, seen, sealed, owner, slots, root, stamp,
                   acked, commits, walFailures>>

\* Mutant of LogFails: memory is updated before the log.
LogFailsLate(t) ==
    /\ pc[t] = "slot" /\ owner = Free /\ ~Refuses
    /\ walFailures < MaxWalFailures
    /\ walFailures' = walFailures + 1
    /\ events' = Append(events, NewEvent(t))
    /\ Goto(t, "leaving")
    /\ UNCHANGED <<clock, wal, seen, sealed, owner, slots, root, stamp, acked,
                   commits>>

\* open, write or fsync raises; the line may or may not have reached the file.
LogFails(t) ==
    /\ pc[t] = "slot" /\ owner = Free /\ ~Refuses
    /\ walFailures < MaxWalFailures
    /\ walFailures' = walFailures + 1
    /\ wal' \in {wal, Append(wal, NewEvent(t))}
    /\ Goto(t, "leaving")
    /\ UNCHANGED <<clock, events, seen, sealed, owner, slots, root, stamp, acked,
                   commits>>

-----------------------------------------------------------------------------
\* Mutant of Accepts: the mirror does not notice a missing event.
AcceptsGaps(e) ==
    seen # <<>> => e.ns >= Last(seen).ns

\* Mutant of Accepts: the mirror does not look at the time.
AcceptsReversal(e) ==
    IF seen = <<>>
    THEN e.seq = 0
    ELSE e.seq = Last(seen).seq + 1 /\ e.prev = Last(seen).hash

\* EvidenceMirror.observe
Accepts(e) ==
    IF seen = <<>>
    THEN e.seq = 0
    ELSE /\ e.seq = Last(seen).seq + 1
         /\ e.prev = Last(seen).hash
         /\ e.ns >= Last(seen).ns

\* Mutant of Observe: a refusal of the mirror is swallowed.
ObserveSwallows(t) ==
    /\ pc[t] = "appended"
    /\ seen' = IF Accepts(Last(events)) THEN Append(seen, Last(events)) ELSE seen
    /\ acked' = acked \cup {Last(events).hash}
    /\ owner' = Free
    /\ Goto(t, "leaving")
    /\ UNCHANGED <<clock, events, wal, sealed, slots, root, stamp, commits,
                   walFailures>>

\* Mutant of Observe: a refusal of the mirror leaves the lock taken.
ObserveKeepsLock(t) ==
    /\ pc[t] = "appended"
    /\ IF Accepts(Last(events))
       THEN /\ seen' = Append(seen, Last(events))
            /\ acked' = acked \cup {Last(events).hash}
            /\ owner' = Free
       ELSE UNCHANGED <<seen, acked, owner>>
    /\ Goto(t, "leaving")
    /\ UNCHANGED <<clock, events, wal, sealed, slots, root, stamp, commits,
                   walFailures>>

\* The observer runs inside the critical section of commit; when it raises,
\* commit raises and the event stays appended.
Observe(t) ==
    /\ pc[t] = "appended"
    /\ IF Accepts(Last(events))
       THEN /\ seen' = Append(seen, Last(events))
            /\ acked' = acked \cup {Last(events).hash}
       ELSE UNCHANGED <<seen, acked>>
    /\ owner' = Free
    /\ Goto(t, "leaving")
    /\ UNCHANGED <<clock, events, wal, sealed, slots, root, stamp, commits,
                   walFailures>>

\* Mutant of ReleaseSlot: the slot of a finished commit is not given back.
ReleaseSlotForgotten(t) ==
    /\ pc[t] = "leaving"
    /\ Goto(t, "idle")
    /\ UNCHANGED <<clock, events, wal, seen, sealed, owner, slots, root, stamp,
                   acked, commits, walFailures>>

\* finally: _commit_slots.release()
ReleaseSlot(t) ==
    /\ pc[t] = "leaving"
    /\ slots' = slots + 1
    /\ Goto(t, "idle")
    /\ UNCHANGED <<clock, events, wal, seen, sealed, owner, root, stamp, acked,
                   commits, walFailures>>

-----------------------------------------------------------------------------
Seal ==
    /\ owner = Free
    /\ sealed' = TRUE
    /\ UNCHANGED <<clock, events, wal, seen, owner, slots, root, pc, stamp, acked,
                   commits, walFailures>>

\* EvidenceMirror.snapshot
MirrorRoot == <<Len(seen), IF seen = <<>> THEN Genesis ELSE Last(seen).hash>>

\* Mutant of Checkpoint: the root is taken before the ledger is sealed.
CheckpointUnsealed ==
    /\ root = <<>>
    /\ root' = MirrorRoot
    /\ UNCHANGED <<clock, events, wal, seen, sealed, owner, slots, pc, stamp, acked,
                   commits, walFailures>>

\* TransparencyWitness.checkpoint of the mirror's root, which receipt requests
\* after sealing: the first root is kept.
Checkpoint ==
    /\ sealed
    /\ root = <<>>
    /\ root' = MirrorRoot
    /\ UNCHANGED <<clock, events, wal, seen, sealed, owner, slots, pc, stamp, acked,
                   commits, walFailures>>

Next ==
    \/ Tick
    \/ \E t \in Threads :
          \/ Call(t) \/ AcquireSlot(t)
          \/ AppendEvent(t) \/ AppendRefused(t) \/ LogFails(t)
          \/ Observe(t) \/ ReleaseSlot(t)
    \/ Seal
    \/ Checkpoint

\* No thread stops inside commit; nobody has to call, seal or tick.
Fairness ==
    \A t \in Threads :
        /\ WF_vars(AcquireSlot(t))
        /\ WF_vars(AppendEvent(t) \/ AppendRefused(t) \/ LogFails(t))
        /\ WF_vars(Observe(t))
        /\ WF_vars(ReleaseSlot(t))

Spec == Init /\ [][Next]_vars

FairSpec == Spec /\ Fairness

-----------------------------------------------------------------------------
EventType == [seq : Nat, prev : Nat, ns : Nat, hash : Nat]

TypeOK ==
    /\ clock \in Nat
    /\ events \in Seq(EventType) /\ wal \in Seq(EventType) /\ seen \in Seq(EventType)
    /\ sealed \in BOOLEAN
    /\ owner \in Threads \cup {Free}
    /\ slots \in Nat
    /\ root \in {<<>>} \cup (Nat \X Nat)
    /\ pc \in [Threads -> {"idle", "called", "slot", "appended", "leaving"}]
    /\ stamp \in [Threads -> Nat \cup {OwnClock}]
    /\ acked \in SUBSET Nat
    /\ commits \in Nat
    /\ walFailures \in Nat

\* What EvidenceMirror has folded into its digest is a prefix of the ledger,
\* whatever commits raced, were refused for their time, or failed in the log.
MirrorIsPrefix ==
    /\ Len(seen) <= Len(events)
    /\ \A i \in 1..Len(seen) : seen[i] = events[i]

\* A commit that returned (so that a capability may be released on it) left its
\* event in the mirror, and so in what the witness will sign.
ReturnedIsMirrored ==
    \A h \in acked : \E i \in 1..Len(seen) : seen[i].hash = h

Holders == {t \in Threads : pc[t] \in {"slot", "appended", "leaving"}}

\* BoundedSemaphore: every slot is free or held by a thread inside commit, on
\* every way out of commit; so a run cannot lose its commit queue to failures.
SlotsConserved == slots + Cardinality(Holders) = MaxPending

\* Every event in memory was logged before it, in order, although a write that
\* raised may have left lines in the log that memory never had.
MemoryIsDurable ==
    /\ \A i \in 1..Len(events) :
          events[i].hash \in 1..Len(wal) /\ wal[events[i].hash] = events[i]
    /\ \A i, j \in 1..Len(events) : i < j => events[i].hash < events[j].hash

\* The root TransparencyWitness signed stays the mirror's root: nothing is
\* mirrored after the ledger was sealed for the receipt.
RootIsFinal == root # <<>> => root = MirrorRoot

\* Sealing waits for the commit in progress: afterwards neither the ledger nor
\* the mirror changes.
SealIsFinal == [][sealed => UNCHANGED <<events, seen, sealed>>]_vars

\* Every thread that calls commit comes out of it: no way out keeps the lock.
CommitReturns == \A t \in Threads : pc[t] = "called" ~> pc[t] = "idle"

\* The ledger without the event whose commit is still in progress.
Committed == IF owner = Free THEN events ELSE SubSeq(events, 1, Len(events) - 1)

Atomic == INSTANCE AtomicLedger WITH events <- Committed, mirrored <- Len(seen)

\* Slots, lock and log make commit the one atomic step its callers rely on.
ImplementsAtomicLedger == Atomic!Spec

\* The lock is held exactly between append and observe, never when sealed.
LockHeld ==
    /\ \A t \in Threads : pc[t] = "appended" <=> owner = t
    /\ owner # Free => ~sealed /\ Len(seen) < Len(events)

\* Memory is numbered from zero and each event names its predecessor.
Chained ==
    /\ Len(events) <= MaxEvents
    /\ \A i \in 1..Len(events) : events[i].seq = i - 1
    /\ \A i \in 2..Len(events) : events[i].prev = events[i - 1].hash

\* The inductive invariant behind the theorems of LedgerProofs: what
\* commit, seal and checkpoint keep true of lock, chain, log, mirror and root.
LedgerInv ==
    /\ TypeOK
    /\ LockHeld
    /\ Chained
    /\ MirrorIsPrefix
    /\ ReturnedIsMirrored
    /\ MemoryIsDurable
    /\ root # <<>> => sealed
    /\ RootIsFinal
    /\ SlotsConserved
=============================================================================
