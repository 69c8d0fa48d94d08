--------------------------- MODULE WellFormedFile ---------------------------
(***************************************************************************)
(* What an evidence file is when nothing is wrong with it, said of the     *)
(* whole file at once: the reference for the auditor, which reads it event *)
(* by event, and for the runtime, which writes it.                         *)
(***************************************************************************)
EXTENDS Integers, Sequences, FiniteSets

\* The events of one kind about request r that stand before event j.
Earlier(file, j, kind, r) ==
    {i \in 1..(j - 1) : file[i].kind = kind /\ file[i].req = r}

\* The one DECISION on the request that event j is about authorizes it.
Authorizes(file, j) ==
    \E i \in Earlier(file, j, "DECISION", file[j].req) :
        file[i].verdict = "ALLOW" /\ file[i].auth = file[j].auth

\* Event j is not stamped after the expiry of that decision.
InTime(file, j) ==
    \A i \in Earlier(file, j, "DECISION", file[j].req) : ~(file[j].ns > file[i].expiry)

Barrier(file, j) ==
    \E i \in 1..(j - 1) :
        \/ file[i].kind \in {"VIOLATION", "OVERLOAD_SUMMARY"}
        \/ file[i].kind = "DECISION" /\ file[i].verdict = "KILL"

Confirmed(file, j) ==
    {i \in Earlier(file, j, "CANCELLATION", file[j].req) : file[i].confirmed}

\* Event j of the file may stand where it does, given the events before it and
\* the acknowledgement in the receipt.
Fits(file, receiptAck, j) ==
    LET e == file[j]
        before(kind) == Earlier(file, j, kind, e.req)
    IN  /\ e.kind = "REQUEST" => before("REQUEST") = {}
        /\ e.kind = "DECISION" => before("REQUEST") = {e.ref} /\ before("DECISION") = {}
        /\ e.kind = "DISPATCH" =>
              /\ ~Barrier(file, j) /\ Authorizes(file, j) /\ InTime(file, j)
              /\ \A i \in 1..(j - 1) :
                    file[i].kind = "DISPATCH" => file[i].auth # e.auth
        /\ e.kind = "RESULT" =>
              Authorizes(file, j) /\ before("DISPATCH") # {} /\ before("RESULT") = {}
        /\ e.kind = "CANCELLATION" =>
              /\ Authorizes(file, j) /\ before("DISPATCH") # {}
              /\ before("RESULT") = {} /\ Confirmed(file, j) = {}
        /\ e.kind = "KILL_ACKNOWLEDGED" =>
              /\ e.ack = receiptAck /\ e.ack.trigger < j
              /\ \A i \in 1..(j - 1) : file[i].kind # "KILL_ACKNOWLEDGED"

WellFormed(file, receiptAck) == \A j \in 1..Len(file) : Fits(file, receiptAck, j)

Of(file, kind) == {i \in 1..Len(file) : file[i].kind = kind}
Number(file, kind) == Cardinality(Of(file, kind))
Decisions(file, verdict) == {i \in Of(file, "DECISION") : file[i].verdict = verdict}

\* The dispatches with neither a result nor a confirmed cancellation.
Open(file) ==
    {i \in Of(file, "DISPATCH") :
        \A j \in Of(file, "RESULT") \cup Of(file, "CANCELLATION") :
            \/ file[j].req # file[i].req
            \/ file[j].kind = "CANCELLATION" /\ ~file[j].confirmed}
=============================================================================
