--------------------------- MODULE LedgerRestart ----------------------------
(***************************************************************************)
(* EvidenceLedger across crashes of its process.  The log file and the     *)
(* witness outlive the process; everything else is lost.  A new process is *)
(* given the same manifest and the same wal_path (or none), and its ledger *)
(* refuses a file that is not empty.                                       *)
(*                                                                         *)
(* The file is a sequence of lines: the hash of the event on a line that   *)
(* iter_canonical_jsonl can read, Torn for any other.  A write reaches the *)
(* file in part when the process dies in it, or when the unbuffered write  *)
(* returns a short count, which append does not look at; the next write    *)
(* continues the unfinished line.                                          *)
(***************************************************************************)
EXTENDS EvidenceLedger

CONSTANTS
    MaxBoots,        \* bound on the processes started
    MaxShortWrites   \* bound on the short writes

ASSUME RestartAssumption == MaxBoots \in Nat \ {0} /\ MaxShortWrites \in Nat

VARIABLES
    durable,         \* a wal_path is given
    file,            \* the lines of the log file
    open,            \* its last line has no newline
    shortWrites,     \* short writes so far
    up,              \* a process is running
    boots,           \* processes started
    receipts         \* the roots in the receipts issued

fileVars    == <<file, open, shortWrites>>
processVars == <<durable, up, boots>>
restartVars == <<vars, fileVars, processVars, receipts>>

Torn == 0

RestartInit ==
    /\ Init
    /\ durable \in BOOLEAN
    /\ file = <<>> /\ open = FALSE /\ shortWrites = 0
    /\ up = TRUE /\ boots = 1
    /\ receipts = {}

-----------------------------------------------------------------------------
\* What a write adds to the file.

WriteLine(hash) ==
    /\ file' = IF open THEN file ELSE Append(file, hash)
    /\ open' = FALSE

WritePart ==
    /\ file' = IF open THEN file ELSE Append(file, Torn)
    /\ open' = TRUE

\* Mutant of AppendLogged: the line stays in a buffer.
AppendBuffered(t) == AppendEvent(t) /\ UNCHANGED <<fileVars, processVars, receipts>>

AppendLogged(t) ==
    /\ AppendEvent(t)
    /\ \/ durable /\ WriteLine(NewEvent(t).hash) /\ UNCHANGED shortWrites
       \/ /\ durable
          /\ shortWrites < MaxShortWrites
          /\ shortWrites' = shortWrites + 1
          /\ WritePart
       \/ ~durable /\ UNCHANGED fileVars
    /\ UNCHANGED <<processVars, receipts>>

\* One write system call that raises has written nothing; fsync raises with the
\* line written.
LogRaises(t) ==
    /\ durable
    /\ LogFails(t)
    /\ \/ wal' = wal /\ UNCHANGED fileVars
       \/ wal' # wal /\ WriteLine(NewEvent(t).hash) /\ UNCHANGED shortWrites
    /\ UNCHANGED <<processVars, receipts>>

\* The steps of commit and seal that leave the file alone.
InMemory ==
    /\ \/ \E t \in Threads :
             Call(t) \/ AcquireSlot(t) \/ AppendRefused(t) \/ Observe(t)
             \/ ReleaseSlot(t)
       \/ Seal
    /\ UNCHANGED <<fileVars, processVars, receipts>>

\* Mutant of Issue: the witness signs the latest root.
IssueLatest ==
    /\ sealed
    /\ root' = MirrorRoot
    /\ receipts' = receipts \cup {MirrorRoot}
    /\ UNCHANGED <<clock, events, wal, seen, sealed, owner, slots, pc, stamp, acked,
                   commits, walFailures, fileVars, processVars>>

\* The receipt of a sealed ledger.  The witness answers a root it has signed
\* with its first checkpoint and raises on another.
Issue ==
    /\ sealed
    /\ root \in {<<>>, MirrorRoot}
    /\ root' = MirrorRoot
    /\ receipts' = receipts \cup {MirrorRoot}
    /\ UNCHANGED <<clock, events, wal, seen, sealed, owner, slots, pc, stamp, acked,
                   commits, walFailures, fileVars, processVars>>

-----------------------------------------------------------------------------
\* The process dies between two steps, or in the write of an append: then a
\* part of the line, or all of it, is in the file.
Crash ==
    /\ up /\ up' = FALSE
    /\ \/ UNCHANGED <<wal, file, open>>
       \/ \E t \in Threads :
             /\ durable
             /\ pc[t] = "slot" /\ owner = Free /\ ~Refuses
             /\ \/ WritePart /\ UNCHANGED wal
                \/ WriteLine(NewEvent(t).hash) /\ wal' = Append(wal, NewEvent(t))
    /\ events' = <<>> /\ seen' = <<>> /\ sealed' = FALSE
    /\ owner' = Free /\ slots' = MaxPending
    /\ pc' = [t \in Threads |-> "idle"]
    /\ stamp' = [t \in Threads |-> OwnClock]
    /\ UNCHANGED <<clock, root, acked, commits, walFailures, shortWrites, durable,
                   boots, receipts>>

\* Mutant of Restart: the ledger appends to the file it finds.
RestartAppends ==
    /\ ~up /\ boots < MaxBoots
    /\ up' = TRUE /\ boots' = boots + 1
    /\ clock' \in {0, clock}
    /\ UNCHANGED <<events, wal, seen, sealed, owner, slots, root, pc, stamp, acked,
                   commits, walFailures, fileVars, durable, receipts>>

\* EvidenceLedger.__init__ in a new process: "WAL path must be new and empty".
\* The monotonic clock starts over if the host did.
Restart ==
    /\ ~up /\ boots < MaxBoots
    /\ durable => file = <<>>
    /\ up' = TRUE /\ boots' = boots + 1
    /\ clock' \in {0, clock}
    /\ UNCHANGED <<events, wal, seen, sealed, owner, slots, root, pc, stamp, acked,
                   commits, walFailures, fileVars, durable, receipts>>

RestartNext ==
    \/ Tick /\ UNCHANGED <<fileVars, processVars, receipts>>
    \/ up /\ (InMemory \/ Issue)
    \/ up /\ \E t \in Threads : AppendLogged(t) \/ LogRaises(t)
    \/ Crash
    \/ Restart

RestartSpec == RestartInit /\ [][RestartNext]_restartVars

-----------------------------------------------------------------------------
\* The lines that iter_canonical_jsonl yields before it raises.
Readable == {i \in 1..Len(file) : \A j \in 1..i : file[j] # Torn}

\* "durably committed": the event of every commit that returned can be read
\* back from the log.
DurablyCommitted ==
    durable => \A h \in acked : \E i \in Readable : file[i] = h

\* Unless a write was short, every commit that returned can be read back from
\* the log, wherever the process died and whatever was started after it.
ReturnedIsReadable == shortWrites = 0 => DurablyCommitted

\* Unless a write raised, the readable lines are one chain from genesis: no
\* process ever continues the log of another.
LogIsOneChain ==
    walFailures = 0 =>
        \A i \in Readable :
            /\ wal[file[i]].seq = i - 1
            /\ wal[file[i]].prev = IF i = 1 THEN Genesis ELSE file[i - 1]

\* "refusal to sign two roots for the same manifest": however often the run is
\* started again, with a log or without, all its receipts have the same root.
OneRootPerManifest == Cardinality(receipts) <= 1

\* With a log, a receipt covers every commit that returned in any process.
ReceiptCoversReturned ==
    [][receipts' # receipts /\ durable =>
          \A h \in acked : \E i \in 1..Len(seen) : seen[i].hash = h]_restartVars
=============================================================================
