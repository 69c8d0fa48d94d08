----------------------------- MODULE KillSwitch -----------------------------
(***************************************************************************)
(* What the run promises about side effects, with nothing about how:       *)
(* every capability admits at most one side effect, side effects are       *)
(* admitted only while the switch is open, and the switch, once closed,    *)
(* never opens again.  RunState (the lock-protected state) and Containment *)
(* (the gateway, executor and supervisor threads, read through their       *)
(* evidence ledger) both implement it.                                     *)
(***************************************************************************)

CONSTANT Auths             \* one-use capabilities

VARIABLES mode,            \* "RUNNING", "KILLING", "KILLED" or "COMPLETED"
          used             \* capabilities whose side effect was admitted

switchVars == <<mode, used>>

Init ==
    /\ mode = "RUNNING"
    /\ used = {}

\* Admitting a side effect may also close the switch: an effect whose
\* evidence could not be observed is the last one.
Use(a) ==
    /\ mode = "RUNNING"
    /\ a \notin used
    /\ used' = used \cup {a}
    /\ mode' \in {"RUNNING", "KILLING"}

Latch ==
    /\ mode = "RUNNING"
    /\ mode' = "KILLING"
    /\ UNCHANGED used

Kill ==
    /\ mode = "KILLING"
    /\ mode' = "KILLED"
    /\ UNCHANGED used

Complete ==
    /\ mode = "RUNNING"
    /\ mode' = "COMPLETED"
    /\ UNCHANGED used

Next ==
    \/ \E a \in Auths : Use(a)
    \/ Latch
    \/ Kill
    \/ Complete

Spec == Init /\ [][Next]_switchVars
=============================================================================
