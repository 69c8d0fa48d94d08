--------------------------- MODULE MCContainment ----------------------------
(***************************************************************************)
(* Containment for TLC: request ids, and the symmetry of the workers.      *)
(***************************************************************************)
EXTENDS ContainmentAudit, TLC

\* Every request has an id of its own.
DistinctRequests == [w \in Workers |-> w]

\* Every request carries the same id.
OneRequest == [w \in Workers |-> CHOOSE r \in Requests : TRUE]

WorkerSymmetry == Permutations(Workers)
=============================================================================
