------------------------------- MODULE Adapter ------------------------------
(***************************************************************************)
(* The HTTP adapter (app/main.py): each worker is a call of the dispatch   *)
(* handler, a coroutine of one event loop.  It gives the loop back only    *)
(* where it waits for a chunk of its body; gateway and executor run to     *)
(* their end inside it.  The control plane runs beside the loop.           *)
(*                                                                         *)
(* A request has a content type, a declared length, a body that comes in   *)
(* chunks, and the document that the body spells.                          *)
(***************************************************************************)
EXTENDS Containment

CONSTANTS
    Documents,       \* what the bodies of requests may spell
    FromWire(_),     \* whether Action.from_wire accepts a document: CanonicalJson
    Lengths,         \* values of content-length; NoLength if missing or no number
    NoLength,
    Chunks           \* sizes of a chunk

ASSUME AdapterAssumption ==
    /\ Lengths \ {NoLength} \subseteq Int
    /\ Chunks \subseteq Nat \ {0}

VARIABLES
    loop,            \* the worker whose handler runs; Free while all wait
    declared,        \* content-length of each request being read; NoLength if none
    received,        \* bytes of its body so far
    document         \* what the body submitted to the gateway spells

adapterVars == <<loop, declared, received, document>>

NoDocument == [fields |-> FALSE]

AdapterInit ==
    /\ Init
    /\ loop = Free
    /\ declared = [w \in Workers |-> NoLength]
    /\ received = [w \in Workers |-> 0]
    /\ document = [w \in Workers |-> NoDocument]

-----------------------------------------------------------------------------
\* Mutant of Refuse: the handler answers without fail_closed.
RefuseOnly(w) ==
    /\ input' = [input EXCEPT ![w] = "misframed"]
    /\ Goto(w, "done")
    /\ UNCHANGED <<stateVars, clock, evidenceVars, containVars, receiptVars,
                   registryVars, localVars, decision, released, target, loop>>

\* fail_closed, before the handler answers 415, 413 or 400.
Refuse(w) ==
    /\ Arrive(w) /\ input'[w] = "misframed"
    /\ loop' = w
    /\ UNCHANGED target

Waiting(w) == pc[w] = "idle" /\ declared[w] # NoLength

\* Up to the first wait: content type, and the declared length.
Headers(w) ==
    /\ loop = Free /\ pc[w] = "idle" /\ declared[w] = NoLength
    /\ \E json \in BOOLEAN, length \in Lengths :
          \/ /\ json /\ length # NoLength /\ length \in 0..MaxPayload
             /\ declared' = [declared EXCEPT ![w] = length]
             /\ UNCHANGED <<containmentVars, loop>>
          \/ /\ ~(json /\ length # NoLength /\ length \in 0..MaxPayload)
             /\ Refuse(w)
             /\ UNCHANGED declared
    /\ UNCHANGED <<received, document>>

Chunk(w) ==
    /\ loop = Free /\ Waiting(w)
    /\ \E n \in Chunks :
          /\ received' = [received EXCEPT ![w] = @ + n]
          /\ \/ received[w] + n > MaxPayload /\ Refuse(w)
             \/ received[w] + n <= MaxPayload /\ UNCHANGED <<containmentVars, loop>>
    /\ UNCHANGED <<declared, document>>

\* What parser and policy make of a document.
Verdicts(d) == IF FromWire(d) THEN {"allow", "kill"} ELSE {"malformed"}

\* The body is complete: it is submitted if it has the length declared.
Body(w) ==
    /\ loop = Free /\ Waiting(w)
    /\ \/ received[w] # declared[w] /\ Refuse(w) /\ UNCHANGED document
       \/ /\ received[w] = declared[w]
          /\ \E d \in Documents :
                /\ document' = [document EXCEPT ![w] = d]
                /\ Arrive(w) /\ input'[w] \in Verdicts(d)
                /\ loop' = w
          /\ UNCHANGED target
    /\ UNCHANGED <<declared, received>>

\* The handler's locals, which go when it returns.
Leave(w) ==
    /\ declared' = [declared EXCEPT ![w] = NoLength]
    /\ received' = [received EXCEPT ![w] = 0]
    /\ document' = [document EXCEPT ![w] = NoDocument]

\* The client goes away: stream raises what the handler does not catch.
Disconnect(w) ==
    /\ loop = Free /\ Waiting(w)
    /\ Goto(w, "done")
    /\ Leave(w)
    /\ UNCHANGED <<stateVars, clock, evidenceVars, containVars, receiptVars,
                   registryVars, localVars, gatewayVars, target, loop>>

\* Mutant of Handle: handlers run in a pool of threads.
HandleInThread(w) ==
    /\ pc[w] # "idle"
    /\ Proceed(w) \/ Transport(w)
    /\ loop' = Free
    /\ Leave(w)

\* A step of submit_raw, dispatch or fail_closed.
Handle(w) ==
    /\ loop = w
    /\ Proceed(w) \/ Transport(w)
    /\ \/ pc'[w] = "done" /\ loop' = Free /\ Leave(w)
       \/ pc'[w] # "done" /\ UNCHANGED adapterVars

AdapterNext ==
    \/ \E w \in Workers : Headers(w) \/ Chunk(w) \/ Body(w) \/ Disconnect(w) \/ Handle(w)
    \/ \E t \in Threads \ Workers : Proceed(t) /\ UNCHANGED adapterVars
    \/ Finished /\ UNCHANGED adapterVars

AdapterSpec == AdapterInit /\ [][AdapterNext]_<<containmentVars, adapterVars>>

-----------------------------------------------------------------------------
\* A handler that has answered has its RESULT in the ledger, or the run is no
\* longer RUNNING: no request is refused or lost while the run goes on, unless
\* its client went away first.
AnsweredOrClosed ==
    \A w \in Workers :
        pc[w] = "done" /\ input[w] # "none" /\ phase = "RUNNING" =>
            \E i \in Kinds({"RESULT"}) : events[i].auth = w
=============================================================================
