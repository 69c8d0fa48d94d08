---------------------------- MODULE AtomicLedger ----------------------------
(***************************************************************************)
(* EvidenceLedger.commit with the supervisor's mirror, as its callers see  *)
(* it: one atomic step that appends an event and shows it to the mirror,   *)
(* or appends one that the mirror refuses.  EvidenceLedger, with its       *)
(* slots, lock and write-ahead log, implements this module; Containment    *)
(* commits through it.                                                     *)
(*                                                                         *)
(* The mirror has observed the first `mirrored' events: it refuses an      *)
(* event whose sequence number does not follow the last one it accepted,   *)
(* so once one event is refused every later one is (a sequence gap).       *)
(***************************************************************************)
EXTENDS Integers, Sequences

CONSTANT MaxEvents            \* criteria.max_total_events

VARIABLES events, mirrored, sealed

ledgerVars == <<events, mirrored, sealed>>

Init ==
    /\ events = <<>>
    /\ mirrored = 0
    /\ sealed = FALSE

\* append refuses: sealed, or the event budget is exhausted.
Refuses == sealed \/ Len(events) >= MaxEvents

\* EvidenceMirror.observe of the next event, stamped ns.
MirrorAccepts(ns) ==
    /\ mirrored = Len(events)
    /\ events # <<>> => ns >= events[Len(events)].ns

CommitMirrored(e) ==
    /\ ~Refuses
    /\ MirrorAccepts(e.ns)
    /\ events' = Append(events, e)
    /\ mirrored' = mirrored + 1
    /\ UNCHANGED sealed

\* commit raises although the event stays in the ledger.
CommitUnmirrored(e) ==
    /\ ~Refuses
    /\ ~MirrorAccepts(e.ns)
    /\ events' = Append(events, e)
    /\ UNCHANGED <<mirrored, sealed>>

Seal ==
    /\ sealed' = TRUE
    /\ UNCHANGED <<events, mirrored>>

Commit ==
    /\ Len(events') = Len(events) + 1
    /\ LET e == events'[Len(events')] IN CommitMirrored(e) \/ CommitUnmirrored(e)

Next == Commit \/ Seal

Spec == Init /\ [][Next]_ledgerVars
=============================================================================
