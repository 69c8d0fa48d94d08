------------------------- MODULE ContainmentProofs --------------------------
(***************************************************************************)
(* What the composed runtime guarantees, proved for every number of threads *)
(* in every role and for every bound.                                      *)
(*                                                                         *)
(* The guarantee of module ContainmentInvariant preserves the invariant    *)
(* (first part); every step of the supervisor's methods (second part), of  *)
(* the gateway and of the executor (third part) keeps to the guarantee and *)
(* establishes the claim of its thread; the fourth part draws the          *)
(* conclusions.  The fifth shows what the adapter adds to them by handling *)
(* one request after the other.                                            *)
(***************************************************************************)
EXTENDS ContainmentInvariant, Adapter, TLAPS

(***************************************************************************)
(* What the guarantee preserves.                                           *)
(***************************************************************************)

\* Append extends the ledger and keeps what is in it (evidence.py:79-110).
LEMMA Appended ==
  ASSUME TypesOK, NEW e, events' = Append(events, e)
  PROVE  /\ Len(events) \in Nat /\ Len(events') = Len(events) + 1
         /\ events'[Len(events) + 1] = e
         /\ \A i \in 1..Len(events) : events'[i] = events[i]
         /\ events' \in Seq({events'[i] : i \in 1..Len(events')})
<1> DEFINE S == {events[i] : i \in 1..Len(events)}
<1>1. events \in Seq(S) /\ events \in Seq(S \cup {e}) /\ e \in S \cup {e}
  <2>1. events \in Seq(S)
    BY Zenon DEF TypesOK
  <2> QED
    BY <2>1, SMT
<1>2. events' \in Seq(S \cup {e})
  BY <1>1, SMT
<1>3. /\ Len(events) \in Nat /\ Len(events') = Len(events) + 1
      /\ events'[Len(events) + 1] = e
      /\ \A i \in 1..Len(events) : events'[i] = events[i]
  BY <1>1, SMT
<1>4. events' \in Seq({events'[i] : i \in 1..Len(events')})
  BY <1>2, <1>3, SMT
<1> QED
  BY <1>3, <1>4, Zenon

\* What the ledger and its mirror hold, they hold for good.
LEMMA LedgerStays ==
  ASSUME TypesOK, LedgerMoves
  PROVE  /\ Len(events) \in Nat /\ Len(events') \in Nat
         /\ Len(events) <= Len(events') /\ mirrored <= mirrored'
         /\ mirrored' \in 0..Len(events')
         /\ \A i \in 1..Len(events) : events'[i] = events[i]
         /\ events' \in Seq({events'[i] : i \in 1..Len(events')})
<1>1. CASE UNCHANGED <<events, mirrored>>
  <2>1. events \in Seq({events[i] : i \in 1..Len(events)}) /\ mirrored \in 0..Len(events)
    BY Zenon DEF TypesOK
  <2>2. Len(events) \in Nat
    BY <2>1, SMT
  <2> QED
    BY <1>1, <2>1, <2>2, SMT
<1>2. ASSUME NEW e, Adds(e), Permitted(e)
      PROVE  /\ Len(events) \in Nat /\ Len(events') \in Nat
             /\ Len(events) <= Len(events') /\ mirrored <= mirrored'
             /\ mirrored' \in 0..Len(events')
             /\ \A i \in 1..Len(events) : events'[i] = events[i]
             /\ events' \in Seq({events'[i] : i \in 1..Len(events')})
  <2>1. events' = Append(events, e)
    BY <1>2, Zenon DEF Adds
  <2>2. mirrored \in 0..Len(events)
    BY Zenon DEF TypesOK
  <2> QED
    BY <1>2, <2>1, <2>2, Appended, SMT DEF Adds
<1> QED
  BY <1>1, <1>2, Zenon DEF LedgerMoves

\* What the mirror has accepted stays where it is.
LEMMA MirroredStays ==
  ASSUME TypesOK, LedgerMoves, NEW i \in 1..mirrored
  PROVE  i \in 1..mirrored' /\ i \in 1..Len(events) /\ events'[i] = events[i]
<1>1. mirrored \in 0..Len(events)
  BY Zenon DEF TypesOK
<1>2. Len(events) \in Nat /\ mirrored <= mirrored' /\ mirrored' \in 0..Len(events')
  BY LedgerStays, Zenon
<1>3. \A k \in 1..Len(events) : events'[k] = events[k]
  BY LedgerStays, Zenon
<1> QED
  BY <1>1, <1>2, <1>3, SMT

\* Types are kept by every step that keeps to the guarantee.
LEMMA TypesKeep ==
  ASSUME ContainmentInv, NEW t \in Threads, Guarantee(t)
  PROVE  TypesOK'
<1>1. TypesOK
  BY Zenon DEF ContainmentInv, Shared
<1>2. phase' \in Phases
  BY <1>1, Zenon DEF TypesOK, Guarantee, PhaseMoves, Phases
<1>3. (events \in Seq({events[i] : i \in 1..Len(events)}) /\ mirrored \in 0..Len(events))'
  BY <1>1, LedgerStays, Zenon DEF Guarantee
<1>4. DOMAIN pc' = Threads
  BY Zenon DEF Guarantee, Jumps
<1>5. /\ after' \in [Threads -> {"done", "watch", "unregister"}]
      /\ resume' \in [Threads -> {"done", "fail_last"}]
  BY Zenon DEF Guarantee, LocalMoves
<1>6. DOMAIN trigger' = Threads /\ DOMAIN target' = Workers \cup Replayers
  BY Zenon DEF Guarantee, LocalMoves
<1>7. DOMAIN decision' = Workers /\ released' \subseteq Workers
  BY <1>1, Zenon DEF TypesOK, Guarantee, DecisionMoves, ReleaseMoves
<1> QED
  BY <1>2, <1>3, <1>4, <1>5, <1>6, <1>7, Zenon DEF TypesOK

-----------------------------------------------------------------------------
\* begin_authorized takes a lease, finish_authorized and abort_authorized drop one.
LEMMA LeasedGrows ==
  ASSUME LeaseInv, NEW a \in Auths, NEW r \in Nat, r > 0, active' = [active EXCEPT ![a] = r]
  PROVE  active' \in [Auths -> Nat] /\ Leased' = Leased \cup {a}
<1>1. active \in [Auths -> Nat]
  BY Zenon DEF LeaseInv
<1> QED
  BY <1>1, SMT DEF Leased

\* Releasing a lease (state.py:187-224).
LEMMA LeasedShrinks ==
  ASSUME LeaseInv, NEW a \in Auths, Release(a)
  PROVE  active' \in [Auths -> Nat] /\ Leased' = Leased \ {a}
<1>1. active \in [Auths -> Nat]
  BY Zenon DEF LeaseInv
<1> QED
  BY <1>1, SMT DEF Leased, Release

\* An authorization, or a logged request, is never lost.
LEMMA AuthorizedStays ==
  ASSUME TypesOK, LedgerMoves
  PROVE  /\ \A w, i : RequestAt(w, i) => RequestAt(w, i)'
         /\ \A w : Authorized(w) => Authorized(w)'
<1>1. ASSUME NEW w, NEW i, RequestAt(w, i)
      PROVE  RequestAt(w, i)'
  <2>1. i \in 1..mirrored
    BY <1>1, Zenon DEF RequestAt
  <2>2. i \in 1..mirrored' /\ events'[i] = events[i]
    BY <2>1, MirroredStays, Zenon
  <2> QED
    BY <1>1, <2>2, Zenon DEF RequestAt
<1>2. ASSUME NEW w, Authorized(w)
      PROVE  Authorized(w)'
  <2>1. PICK i \in 1..mirrored :
            /\ events[i].kind = "DECISION" /\ events[i].verdict = "ALLOW"
            /\ events[i].auth = w
            /\ events[i].ref < i /\ RequestAt(w, events[i].ref)
    BY <1>2, Zenon DEF Authorized
  <2>2. i \in 1..mirrored' /\ events'[i] = events[i]
    BY MirroredStays, Zenon
  <2> QED
    BY <1>1, <2>1, <2>2, Zenon DEF Authorized
<1> QED
  BY <1>1, <1>2, Zenon

-----------------------------------------------------------------------------
\* A commit, whether it returns or raises, adds at most its event.
LEMMA Commits ==
  ASSUME NEW e, CommitOk(e) \/ CommitRaises(e), Permitted(e)
  PROVE  LedgerMoves /\ sealed' = sealed
<1>1. (UNCHANGED <<events, mirrored>> \/ Adds(e)) /\ sealed' = sealed
  BY Zenon DEF CommitOk, CommitRaises, Ledger!CommitMirrored, Ledger!CommitUnmirrored,
         Ledger!Refuses, Ledger!MirrorAccepts, evidenceVars, Adds
<1> QED
  BY <1>1, Zenon DEF LedgerMoves

\* The guarantee preserves the claim of every other thread.
LEMMA OthersKeep ==
  ASSUME ContainmentInv, NEW t \in Threads, Guarantee(t), NEW u \in Threads \ {t}
  PROVE  Claim(u)'
<1>1. TypesOK /\ Claim(u) /\ LedgerMoves /\ PhaseMoves
  BY Zenon DEF ContainmentInv, Shared, Guarantee
<1>2. pc'[u] = pc[u] /\ trigger'[u] = trigger[u]
  BY Zenon DEF Guarantee, Jumps, LocalMoves
<1>3. target'[u] = target[u]
  BY Zenon DEF Guarantee, LocalMoves
<1>4. decision'[u] = decision[u] \/ u \notin Workers
  BY Zenon DEF ContainmentInv, Shared, TypesOK, Guarantee, DecisionMoves
<1>5. (pc[u] \in LatchedLabels => phase # "RUNNING")'
  BY <1>1, <1>2, Zenon DEF Claim, PhaseMoves
<1>6. (pc[u] = "mark" => isolation # NotIsolated)'
  BY <1>1, <1>2, Zenon DEF Claim, Guarantee, IsolationMoves, isolateVars
<1>7. /\ (pc[u] \in ReceiptLabels => receiptOwner = u /\ receipt = NoReceipt)'
      /\ (pc[u] = "freeze" => root # NoRoot)'
  <2>1. mirrored # NoRoot
    BY <1>1, SMT DEF TypesOK, NoRoot
  <2> QED
    BY <1>1, <1>2, <2>1, Zenon DEF Claim, Guarantee, ReceiptMoves, NoReceipt
<1>8. (pc[u] \in SubmitLabels => u \in Workers /\ target[u] = u)'
  BY <1>1, <1>2, <1>3, Zenon DEF Claim
<1>9. (pc[u] \in {"decide", "sign_decision", "decision_commit"} => RequestAt(u, trigger[u]))'
  <2> SUFFICES ASSUME pc[u] \in {"decide", "sign_decision", "decision_commit"}
               PROVE  RequestAt(u, trigger[u])'
    BY <1>2, Zenon
  <2>1. RequestAt(u, trigger[u])
    BY <1>1, Zenon DEF Claim
  <2> DEFINE i == trigger[u]
  <2>2. i' = i
    BY <1>2, Zenon
  <2> HIDE DEF i
  <2>3. RequestAt(u, i)
    BY <2>1, Zenon DEF i
  <2>4. i \in 1..mirrored' /\ events'[i] = events[i]
    BY <1>1, <2>3, MirroredStays, Zenon DEF RequestAt
  <2>5. RequestAt(u, i)'
    BY <2>2, <2>3, <2>4, Zenon DEF RequestAt
  <2> QED
    BY <2>5, Zenon DEF i
<1>10. (pc[u] = "record" /\ decision[u].verdict = "ALLOW" => Authorized(u))'
  BY <1>1, <1>2, <1>4, AuthorizedStays, Zenon DEF Claim, SubmitLabels
<1>11. (pc[u] \in DispatchLabels =>
          u \in Workers \cup Replayers /\ target[u] \in Workers /\ Authorized(target[u]))'
  <2> SUFFICES ASSUME pc[u] \in DispatchLabels
               PROVE  /\ u \in Workers \cup Replayers /\ target'[u] \in Workers
                      /\ Authorized(target[u])'
    BY <1>2, Zenon
  <2>1. u \in Workers \cup Replayers /\ target[u] \in Workers /\ Authorized(target[u])
    BY <1>1, Zenon DEF Claim
  <2>2. PICK w : w = target[u]
    BY Zenon
  <2>3. Authorized(w)'
    BY <1>1, <2>1, <2>2, AuthorizedStays, Zenon
  <2>4. target'[u] = w
    BY <1>3, <2>1, <2>2, Zenon
  <2>5. Authorized(target[u])'
    BY <2>3, <2>4, Zenon DEF Authorized, RequestAt
  <2> QED
    BY <2>1, <2>2, <2>4, <2>5, Zenon
<1> QED
  BY <1>5, <1>6, <1>7, <1>8, <1>9, <1>10, <1>11, Zenon DEF Claim

-----------------------------------------------------------------------------
\* The guarantee preserves the shared part.

\* A trigger is added to the ledger of a latched run, a DISPATCH to that of a
\* running one, which has no trigger yet.
LEMMA LatchKeeps ==
  ASSUME ContainmentInv, NEW t \in Threads, Guarantee(t)
  PROVE  LatchInv'
<1>1. TypesOK /\ LatchInv /\ LedgerMoves /\ PhaseMoves
  BY Zenon DEF ContainmentInv, Shared, Guarantee
<1>2. (\A w \in Workers : decision[w].verdict = "KILL" => phase # "RUNNING")'
  BY <1>1, Zenon DEF TypesOK, LatchInv, Guarantee, DecisionMoves, PhaseMoves
<1>3. phase # "RUNNING" => phase' # "RUNNING"
  BY <1>1, Zenon DEF PhaseMoves
<1>4. CASE UNCHANGED <<events, mirrored>>
  BY <1>1, <1>2, <1>3, <1>4, Zenon
  DEF LatchInv, NoDispatchAfterLatchedTrigger, Malformed, Kinds, Dispatches
<1>5. ASSUME NEW e, Adds(e), Permitted(e)
      PROVE  LatchInv'
  <2>1. /\ Len(events) \in Nat /\ Len(events') = Len(events) + 1
        /\ events'[Len(events) + 1] = e
        /\ \A i \in 1..Len(events) : events'[i] = events[i]
    BY <1>1, <1>5, Appended, Zenon DEF Adds
  <2>2. \A i \in 1..Len(events') : i \in 1..Len(events) \/ i = Len(events) + 1
    BY <2>1, SMT
  <2>3. (\A i \in 1..Len(events) : LatchedTrigger(events[i]) => phase # "RUNNING")'
    <3> SUFFICES ASSUME NEW i \in 1..Len(events'), LatchedTrigger(events'[i])
                 PROVE  phase' # "RUNNING"
      BY Zenon DEF LatchedTrigger, IsTrigger
    <3> QED
      BY <1>1, <1>3, <1>5, <2>1, <2>2, Zenon DEF LatchInv, Permitted
  <2>4. NoDispatchAfterLatchedTrigger'
    <3> SUFFICES ASSUME NEW i \in 1..Len(events'), NEW j \in 1..Len(events'),
                        LatchedTrigger(events'[i]), events'[j].kind = "DISPATCH"
                 PROVE  j < i
      BY Zenon DEF NoDispatchAfterLatchedTrigger, Malformed, Kinds, Dispatches,
             LatchedTrigger, IsTrigger
    <3>1. CASE i \in 1..Len(events) /\ j \in 1..Len(events)
      <4>1. LatchedTrigger(events[i]) /\ events[j].kind = "DISPATCH"
        BY <2>1, <3>1, Zenon
      <4> QED
        BY <1>1, <3>1, <4>1, Zenon
        DEF LatchInv, NoDispatchAfterLatchedTrigger, Malformed, Kinds, Dispatches,
            LatchedTrigger, IsTrigger
    <3>2. CASE j = Len(events) + 1
      <4>1. phase = "RUNNING"
        BY <1>5, <2>1, <3>2, Zenon DEF Permitted, MayDispatch
      <4>2. i \notin 1..Len(events)
        BY <1>1, <2>1, <4>1, Zenon DEF LatchInv
      <4>3. e.kind = "DISPATCH" /\ LatchedTrigger(e)
        BY <2>1, <2>2, <3>2, <4>2, Zenon
      <4> QED
        BY <4>3, Zenon DEF LatchedTrigger, IsTrigger
    <3>3. CASE i = Len(events) + 1 /\ j \in 1..Len(events)
      BY <2>1, <3>3, SMT
    <3> QED
      BY <2>2, <3>1, <3>2, <3>3, Zenon
  <2> QED
    BY <1>2, <2>3, <2>4, Zenon DEF LatchInv
<1> QED
  BY <1>1, <1>4, <1>5, Zenon DEF LedgerMoves

\* A DISPATCH is added for an authorized capability nobody had used.
LEMMA DispatchesKeep ==
  ASSUME ContainmentInv, NEW t \in Threads, Guarantee(t)
  PROVE  (/\ \A j \in Dispatches : events[j].auth \in consumed \cap Workers
          /\ DispatchIsAuthorized)'
<1>1. TypesOK /\ CapabilityInv /\ LedgerMoves /\ consumed \subseteq consumed'
  BY Zenon DEF ContainmentInv, Shared, Guarantee
<1>2. CASE UNCHANGED <<events, mirrored>>
  BY <1>1, <1>2, SMT DEF CapabilityInv, DispatchIsAuthorized, Kinds, Dispatches
<1>3. ASSUME NEW e, Adds(e), Permitted(e)
      PROVE  (/\ \A j \in Dispatches : events[j].auth \in consumed \cap Workers
              /\ DispatchIsAuthorized)'
  <2> DEFINE n == Len(events) + 1
             Backed(j) == \E i \in 1..(j - 1) :
                /\ i <= mirrored
                /\ events[i].kind = "DECISION" /\ events[i].verdict = "ALLOW"
                /\ events[i].auth = events[j].auth
                /\ events[i].ref \in 1..(i - 1)
                /\ events[events[i].ref].kind = "REQUEST"
                /\ events[events[i].ref].req = events[j].req
  <2>1. /\ Len(events) \in Nat /\ Len(events') = n
        /\ events'[n] = e
        /\ \A i \in 1..Len(events) : events'[i] = events[i]
    BY <1>1, <1>3, Appended, Zenon DEF Adds
  <2>2. mirrored \in 0..Len(events) /\ mirrored \in 0..mirrored' /\ mirrored' \in Nat
    BY <1>1, <1>3, <2>1, SMT DEF TypesOK, Adds
  <2>3. \A j \in Dispatches' : j \in Dispatches \/ (j = n /\ e.kind = "DISPATCH")
    BY <2>1, SMT DEF Dispatches, Kinds
  <2>4. \A j \in Dispatches : j \in 1..Len(events) /\ events'[j] = events[j]
    BY <2>1, Zenon DEF Dispatches, Kinds
  <2>5. \A j \in Dispatches' : events'[j].auth \in consumed' \cap Workers
    BY <1>1, <1>3, <2>1, <2>3, <2>4, Zenon DEF CapabilityInv, Permitted, MayDispatch
  <2>6. ASSUME NEW j \in Dispatches', NEW k \in Dispatches', events'[k].auth = events'[j].auth
        PROVE  k = j
    <3>1. \A i \in Dispatches : events[i].auth \in consumed
      BY <1>1, Zenon DEF CapabilityInv
    <3>2. e.kind = "DISPATCH" => e.auth \notin consumed
      BY <1>3, Zenon DEF Permitted, MayDispatch
    <3>3. \A i, h \in Dispatches : events[h].auth = events[i].auth => h = i
      BY <1>1, Zenon DEF CapabilityInv, DispatchIsAuthorized
    <3> QED
      BY <2>1, <2>3, <2>4, <2>6, <3>1, <3>2, <3>3, ZenonT(40)
  <2>7. ASSUME NEW j \in Dispatches'
        PROVE  Backed(j)'
    <3>1. CASE j \in Dispatches
      <4>1. j \in 1..Len(events) /\ events'[j] = events[j]
        BY <2>4, <3>1, Zenon
      <4>2. PICK i \in 1..(j - 1) :
                /\ i <= mirrored
                /\ events[i].kind = "DECISION" /\ events[i].verdict = "ALLOW"
                /\ events[i].auth = events[j].auth
                /\ events[i].ref \in 1..(i - 1)
                /\ events[events[i].ref].kind = "REQUEST"
                /\ events[events[i].ref].req = events[j].req
        BY <1>1, <3>1, Zenon DEF CapabilityInv, DispatchIsAuthorized
      <4>3. /\ i \in 1..Len(events) /\ events[i].ref \in 1..Len(events)
            /\ i <= mirrored'
        BY <2>1, <2>2, <4>1, <4>2, SMT
      <4>4. events'[i] = events[i] /\ events'[events[i].ref] = events[events[i].ref]
        BY <2>1, <4>3, Zenon
      <4> QED
        BY <4>1, <4>2, <4>3, <4>4, Zenon
    <3>2. CASE j = n /\ e.kind = "DISPATCH"
      <4>1. e.req = RequestOf[e.auth] /\ Authorized(e.auth)
        BY <1>3, <3>2, Zenon DEF Permitted, MayDispatch
      <4>2. PICK i \in 1..mirrored :
                /\ events[i].kind = "DECISION" /\ events[i].verdict = "ALLOW"
                /\ events[i].auth = e.auth
                /\ events[i].ref < i /\ RequestAt(e.auth, events[i].ref)
        BY <4>1, Zenon DEF Authorized
      <4>3. /\ i \in 1..Len(events) /\ i \in 1..(n - 1) /\ i <= mirrored'
            /\ events[i].ref \in 1..(i - 1) /\ events[i].ref \in 1..Len(events)
        BY <2>1, <2>2, <4>2, SMT DEF RequestAt
      <4>4. events'[i] = events[i] /\ events'[events[i].ref] = events[events[i].ref]
        BY <2>1, <4>3, Zenon
      <4>5. /\ events[events[i].ref].kind = "REQUEST"
            /\ events[events[i].ref].req = e.req
        BY <4>1, <4>2, Zenon DEF RequestAt
      <4> QED
        BY <2>1, <3>2, <4>2, <4>3, <4>4, <4>5, Zenon
    <3> QED
      BY <2>3, <3>1, <3>2, Zenon
  <2> QED
    BY <2>5, <2>6, <2>7, Zenon DEF DispatchIsAuthorized
<1> QED
  BY <1>1, <1>2, <1>3, Zenon DEF LedgerMoves

\* So are the bindings of dispatches to decisions (executor.py:103-155).
LEMMA CapabilityKeeps ==
  ASSUME ContainmentInv, NEW t \in Threads, Guarantee(t)
  PROVE  CapabilityInv'
<1>1. TypesOK /\ CapabilityInv /\ LedgerMoves
  BY Zenon DEF ContainmentInv, Shared, Guarantee
<1>2. (\A w \in Workers : decision[w].verdict # "NONE" => decision[w].id = w)'
  BY <1>1, Zenon DEF TypesOK, CapabilityInv, Guarantee, DecisionMoves
<1>3. (\A w \in released : Authorized(w))'
  BY <1>1, AuthorizedStays, Zenon DEF CapabilityInv, Guarantee, ReleaseMoves
<1> QED
  BY <1>2, <1>3, DispatchesKeep, Zenon DEF CapabilityInv

\* So is the whole shared part: isolation and receipt included.
LEMMA SharedKeeps ==
  ASSUME ContainmentInv, NEW t \in Threads, Guarantee(t)
  PROVE  Shared'
<1>1. IsolationInv'
  BY SMT DEF ContainmentInv, Shared, IsolationInv, Guarantee, PhaseMoves, IsolationMoves,
         isolateVars
<1>2. ReceiptInv'
  <2>1. TypesOK /\ ReceiptInv /\ ReceiptMoves(t) /\ LedgerMoves
    BY Zenon DEF ContainmentInv, Shared, Guarantee
  <2>2. mirrored # NoRoot
    BY <2>1, SMT DEF TypesOK, NoRoot
  <2>3. sealed => mirrored' = mirrored
    BY <2>1, Zenon DEF LedgerMoves, Adds
  <2>4. root # NoRoot => root' = root
    BY <2>1, Zenon DEF ReceiptMoves
  <2>5. (root # NoRoot => root = mirrored /\ sealed)'
    BY <2>1, <2>3, <2>4, Zenon DEF ReceiptInv, ReceiptMoves
  <2>6. (receipt # NoReceipt => root # NoRoot /\ receipt.count = root)'
    BY <2>1, <2>2, <2>4, Zenon DEF ReceiptInv, ReceiptMoves, NoReceipt
  <2> QED
    BY <2>5, <2>6, Zenon DEF ReceiptInv
<1> QED
  BY <1>1, <1>2, TypesKeep, LatchKeeps, CapabilityKeeps, Zenon DEF Shared

(***************************************************************************)
(* The supervisor.                                                         *)
(***************************************************************************)

\* Where a thread claims nothing.
PlainLabels ==
    {"done", "watch", "unregister", "contain", "signal", "isolate", "unsign",
     "emergency", "cut", "watch_latch", "report", "malformed_latch", "fail",
     "fail_latch", "fail_last"}

\* A thread at a label with no duty has none to show.
LEMMA PlainClaim ==
  ASSUME NEW t, pc'[t] \in PlainLabels
  PROVE  Claim(t)'
BY Zenon DEF PlainLabels, Claim, LatchedLabels, ReceiptLabels, SubmitLabels, DispatchLabels

\* What the shared steps do to what the guarantee speaks of.
LEMMA LatchMoves ==
  ASSUME LatchKill
  PROVE  PhaseMoves /\ phase' # "RUNNING" /\ consumed' = consumed
BY Zenon DEF LatchKill, Latch, PhaseMoves, effectVars

\* What a step leaves alone does not move: RunState's variables (state.py),
LEMMA StateStays ==
  ASSUME UNCHANGED stateVars
  PROVE  PhaseMoves /\ phase' = phase /\ consumed' = consumed
BY Zenon DEF stateVars, latchVars, effectVars, PhaseMoves

\* the ledger's,
LEMMA EvidenceStays ==
  ASSUME UNCHANGED evidenceVars
  PROVE  LedgerMoves /\ sealed' = sealed /\ events' = events /\ mirrored' = mirrored
BY Zenon DEF evidenceVars, LedgerMoves

\* the isolation calls',
LEMMA IsolationStays ==
  ASSUME UNCHANGED isolateVars
  PROVE  IsolationMoves /\ isolation' = isolation
BY Zenon DEF isolateVars, IsolationMoves

\* the receipt's,
LEMMA ReceiptStays ==
  ASSUME NEW t, UNCHANGED receiptVars, sealed' = sealed
  PROVE  /\ ReceiptMoves(t) /\ receiptOwner' = receiptOwner /\ receipt' = receipt
         /\ root' = root
BY Zenon DEF receiptVars, ReceiptMoves

\* the gateway's decisions and releases,
LEMMA GatewayStays ==
  ASSUME NEW t, UNCHANGED gatewayVars
  PROVE  DecisionMoves(t) /\ ReleaseMoves(t) /\ decision' = decision
BY Zenon DEF gatewayVars, DecisionMoves, ReleaseMoves

\* and the locals of the threads.
LEMMA LocalsStay ==
  ASSUME TypesOK, NEW t, UNCHANGED localVars, UNCHANGED target
  PROVE  LocalMoves(t) /\ trigger' = trigger
BY Zenon DEF TypesOK, localVars, returnVars, LocalMoves

\* A step that logs nothing and leaves containment and receipt alone.
LEMMA PrivateStep ==
  ASSUME NEW t, PhaseMoves, consumed' = consumed, UNCHANGED evidenceVars,
         UNCHANGED containVars, UNCHANGED receiptVars, UNCHANGED gatewayVars,
         Jumps(t), LocalMoves(t)
  PROVE  Guarantee(t)
BY EvidenceStays, IsolationStays, ReceiptStays, GatewayStays, Zenon DEF containVars, Guarantee

-----------------------------------------------------------------------------
\* contain keeps the guarantee (supervisor.py:197-269).
LEMMA ContainKeeps ==
  ASSUME ContainmentInv, NEW t \in Threads, ContainStep(t), UNCHANGED <<gatewayVars, target>>
  PROVE  Guarantee(t) /\ Claim(t)'
<1>1. /\ TypesOK /\ Claim(t) /\ after[t] \in {"done", "watch", "unregister"}
      /\ DecisionMoves(t) /\ ReleaseMoves(t)
  BY GatewayStays, Zenon DEF ContainmentInv, Shared, TypesOK
<1>2. CASE Contain(t)
  <2>1. LedgerMoves /\ ReceiptMoves(t)
    BY <1>2, EvidenceStays, ReceiptStays, Zenon DEF Contain
  <2>2. PhaseMoves /\ consumed' = consumed /\ IsolationMoves
    BY <1>2, LatchMoves, StateStays, IsolationStays, Zenon DEF Contain, containVars
  <2>3. LocalMoves(t) /\ Jumps(t) /\ pc'[t] \in PlainLabels
    BY <1>1, <1>2, LocalsStay, Zenon DEF Goto, Jumps, TypesOK, Contain, PlainLabels
  <2> QED
    BY <1>1, <2>1, <2>2, <2>3, PlainClaim, Zenon DEF Guarantee
<1>3. CASE SignalInflight(t)
  <2>1. LedgerMoves /\ ReceiptMoves(t)
    BY <1>3, EvidenceStays, ReceiptStays, Zenon DEF SignalInflight
  <2>2. PhaseMoves /\ consumed' = consumed /\ IsolationMoves
    BY <1>3, StateStays, IsolationStays, Zenon DEF SignalInflight
  <2>3. LocalMoves(t) /\ Jumps(t) /\ pc'[t] \in PlainLabels
    BY <1>1, <1>3, LocalsStay, Zenon DEF Goto, Jumps, TypesOK, SignalInflight, PlainLabels
  <2> QED
    BY <1>1, <2>1, <2>2, <2>3, PlainClaim, Zenon DEF Guarantee
<1>4. CASE Isolate(t)
  <2>1. LedgerMoves /\ ReceiptMoves(t)
    BY <1>4, EvidenceStays, ReceiptStays, Zenon DEF Isolate
  <2>2. PhaseMoves /\ consumed' = consumed
    BY <1>4, StateStays, Zenon DEF Isolate
  <2>3. IsolationMoves /\ isolation' # NotIsolated
    BY <1>4, SMT DEF Isolate, IsolateOnce, Reports, IsolationMoves, NotIsolated, isolateVars
  <2>4. LocalMoves(t) /\ Jumps(t) /\ pc'[t] = "mark"
    BY <1>1, <1>4, LocalsStay, Zenon DEF Goto, Jumps, TypesOK, Isolate
  <2> QED
    BY <1>1, <2>1, <2>2, <2>3, <2>4, Zenon
    DEF Guarantee, Claim, LatchedLabels, ReceiptLabels, SubmitLabels, DispatchLabels
<1>5. CASE MarkContained(t)
  <2>1. LedgerMoves /\ ReceiptMoves(t)
    BY <1>5, EvidenceStays, ReceiptStays, Zenon DEF MarkContained
  <2>2. PhaseMoves /\ consumed' = consumed /\ IsolationMoves
    BY <1>1, <1>5, StateStays, IsolationStays, Zenon
    DEF MarkContained, MarkKilled, PhaseMoves, Claim, effectVars, ContainmentInv, Shared,
       IsolationInv
  <2>3. LocalMoves(t) /\ Jumps(t) /\ (pc'[t] \in PlainLabels \/ (pc'[t] = "sign" /\ phase' = "KILLED"))
    BY <1>1, <1>5, LocalsStay, Zenon DEF Goto, Jumps, TypesOK, MarkContained, MarkKilled,
       LeaveContain, PlainLabels
  <2> QED
    BY <1>1, <2>1, <2>2, <2>3, PlainClaim, Zenon
    DEF Guarantee, Claim, LatchedLabels, ReceiptLabels, SubmitLabels, DispatchLabels
<1>6. CASE SignAck(t)
  <2>1. LedgerMoves /\ ReceiptMoves(t)
    BY <1>6, EvidenceStays, ReceiptStays, Zenon DEF SignAck
  <2>2. PhaseMoves /\ phase' = phase /\ consumed' = consumed /\ IsolationMoves
    BY <1>6, StateStays, IsolationStays, Zenon DEF SignAck
  <2>3. LocalMoves(t) /\ Jumps(t) /\ (pc'[t] \in PlainLabels \/ pc'[t] = "log")
    BY <1>1, <1>6, LocalsStay, Zenon DEF Goto, Jumps, TypesOK, SignAck, LeaveContain, PlainLabels
  <2>4. phase # "RUNNING"
    BY <1>1, <1>6, Zenon DEF SignAck, Claim, LatchedLabels
  <2> QED
    BY <1>1, <2>1, <2>2, <2>3, <2>4, PlainClaim, Zenon
    DEF Guarantee, Claim, LatchedLabels, ReceiptLabels, SubmitLabels, DispatchLabels
<1>7. CASE LogAck(t)
  <2> DEFINE e == [kind |-> "KILL_ACKNOWLEDGED", ack |-> ack, ns |-> ack.ns]
  <2>1. PhaseMoves /\ phase' = phase /\ consumed' = consumed /\ IsolationMoves
    BY <1>7, StateStays, IsolationStays, Zenon DEF LogAck
  <2>2. Permitted(e)
    BY <1>1, <1>7, <2>1, Zenon DEF LogAck, Claim, LatchedLabels, Permitted
  <2>3. CommitOk(e) \/ CommitRaises(e)
    BY <1>7, Zenon DEF LogAck
  <2>4. LedgerMoves /\ sealed' = sealed
    BY <2>2, <2>3, Commits, Zenon
  <2>5. ReceiptMoves(t)
    BY <1>7, <2>4, ReceiptStays, Zenon DEF LogAck
  <2>6. LocalMoves(t) /\ Jumps(t) /\ pc'[t] \in PlainLabels
    BY <1>1, <1>7, LocalsStay, Zenon DEF Goto, Jumps, TypesOK, LogAck, LeaveContain, PlainLabels
  <2> QED
    BY <1>1, <2>1, <2>4, <2>5, <2>6, PlainClaim, Zenon DEF Guarantee
<1>8. CASE UnsignAck(t)
  <2>1. LedgerMoves /\ ReceiptMoves(t)
    BY <1>8, EvidenceStays, ReceiptStays, Zenon DEF UnsignAck
  <2>2. PhaseMoves /\ consumed' = consumed /\ IsolationMoves
    BY <1>8, StateStays, IsolationStays, Zenon DEF UnsignAck
  <2>3. LocalMoves(t) /\ Jumps(t) /\ pc'[t] \in PlainLabels
    BY <1>1, <1>8, LocalsStay, Zenon DEF Goto, Jumps, TypesOK, UnsignAck, LeaveContain, PlainLabels
  <2> QED
    BY <1>1, <2>1, <2>2, <2>3, PlainClaim, Zenon DEF Guarantee
<1> QED
  BY <1>2, <1>3, <1>4, <1>5, <1>6, <1>7, <1>8, Zenon DEF ContainStep

\* emergency_isolate and the watchdog (supervisor.py:271-303).
LEMMA EmergencyKeeps ==
  ASSUME ContainmentInv, NEW t \in Threads, EmergencyStep(t),
         UNCHANGED <<gatewayVars, target>>
  PROVE  Guarantee(t) /\ Claim(t)'
<1>1. /\ TypesOK /\ IsolationInv /\ resume[t] \in {"done", "fail_last"}
      /\ DecisionMoves(t) /\ ReleaseMoves(t)
  BY GatewayStays, Zenon DEF ContainmentInv, Shared, TypesOK
<1>2. LedgerMoves /\ ReceiptMoves(t) /\ LocalMoves(t)
  BY <1>1, EvidenceStays, ReceiptStays, LocalsStay, Zenon DEF EmergencyStep, EmergencyLatch,
     EmergencyCut
<1>3. Jumps(t) /\ pc'[t] \in PlainLabels
  BY <1>1, Zenon DEF EmergencyStep, EmergencyLatch, EmergencyCut, Goto, Jumps, TypesOK, PlainLabels
<1>4. CASE EmergencyLatch(t)
  <2>1. PhaseMoves /\ consumed' = consumed /\ IsolationMoves
    BY <1>4, LatchMoves, IsolationStays, Zenon DEF EmergencyLatch
  <2> QED
    BY <1>1, <1>2, <1>3, <2>1, PlainClaim, Zenon DEF Guarantee
<1>5. CASE EmergencyCut(t)
  <2>1. IsolationMoves /\ isolation' # NotIsolated
    BY <1>5, SMT DEF EmergencyCut, IsolateOnce, Reports, IsolationMoves, NotIsolated, isolateVars
  <2>2. PhaseMoves /\ consumed' = consumed
    BY <1>5, <2>1, StateStays, Zenon DEF EmergencyCut, MarkKilled, PhaseMoves, effectVars
  <2> QED
    BY <1>1, <1>2, <1>3, <2>1, <2>2, PlainClaim, Zenon DEF Guarantee
<1> QED
  BY <1>4, <1>5, Zenon DEF EmergencyStep

\* The watchdog latches and leaves (supervisor.py:286-303).
LEMMA WatchKeeps ==
  ASSUME ContainmentInv, NEW t \in Threads, WatchStep(t), UNCHANGED <<gatewayVars, target>>
  PROVE  Guarantee(t) /\ Claim(t)'
<1>1. TypesOK /\ Claim(t)
  BY Zenon DEF ContainmentInv, Shared
<1>2. CASE Watch(t)
  <2>1. PhaseMoves /\ consumed' = consumed
    BY <1>2, StateStays, Zenon DEF Watch
  <2>2. LocalMoves(t)
    BY <1>1, <1>2, Zenon DEF Watch, TypesOK, returnVars, LocalMoves
  <2>3. Jumps(t) /\ pc'[t] \in PlainLabels
    BY <1>1, <1>2, Zenon DEF Watch, Goto, Jumps, TypesOK, PlainLabels
  <2> QED
    BY <1>2, <2>1, <2>2, <2>3, PrivateStep, PlainClaim, Zenon DEF Watch
<1>3. CASE WatchLatch(t)
  <2>1. PhaseMoves /\ phase' # "RUNNING" /\ consumed' = consumed
    BY <1>3, LatchMoves, Zenon DEF WatchLatch
  <2>2. LocalMoves(t)
    BY <1>1, <1>3, LocalsStay, Zenon DEF WatchLatch
  <2>3. Jumps(t) /\ pc'[t] = "watch_commit"
    BY <1>1, <1>3, Zenon DEF WatchLatch, Goto, Jumps, TypesOK
  <2>4. Claim(t)'
    BY <2>1, <2>3, Zenon DEF Claim, LatchedLabels, ReceiptLabels, SubmitLabels, DispatchLabels
  <2> QED
    BY <1>3, <2>1, <2>2, <2>3, <2>4, PrivateStep, Zenon DEF WatchLatch
<1>4. CASE WatchCommit(t)
  <2> DEFINE e == Violation("runtime", stamp[t])
  <2>1. /\ PhaseMoves /\ phase' = phase /\ consumed' = consumed
        /\ IsolationMoves /\ DecisionMoves(t) /\ ReleaseMoves(t)
    BY <1>4, StateStays, IsolationStays, GatewayStays, Zenon DEF WatchCommit, containVars
  <2>2. Permitted(e)
    BY <1>1, <1>4, <2>1, Zenon DEF WatchCommit, Claim, LatchedLabels, Permitted, Violation
  <2>3. CommitOk(e) \/ CommitRaises(e)
    BY <1>4, Zenon DEF WatchCommit
  <2>4. LedgerMoves /\ sealed' = sealed
    BY <2>2, <2>3, Commits, Zenon
  <2>5. ReceiptMoves(t)
    BY <1>4, <2>4, ReceiptStays, Zenon DEF WatchCommit
  <2>6. LocalMoves(t)
    BY <1>1, <1>4, Zenon DEF WatchCommit, LocalMoves, TypesOK
  <2>7. Jumps(t) /\ pc'[t] \in PlainLabels
    BY <1>1, <1>4, Zenon DEF WatchCommit, Goto, Jumps, TypesOK, PlainLabels
  <2> QED
    BY <2>1, <2>4, <2>5, <2>6, <2>7, PlainClaim, Zenon DEF Guarantee
<1> QED
  BY <1>2, <1>3, <1>4, Zenon DEF WatchStep

\* complete and receipt (supervisor.py:281-373).
LEMMA ReceiptKeeps ==
  ASSUME ContainmentInv, NEW t \in Threads, ReceiptStep(t), UNCHANGED <<gatewayVars, target>>
  PROVE  Guarantee(t) /\ Claim(t)'
<1> USE DEF ReceiptLabels
<1>1. /\ TypesOK /\ Claim(t) /\ ReceiptInv /\ DecisionMoves(t) /\ ReleaseMoves(t)
  BY GatewayStays, Zenon DEF ContainmentInv, Shared
<1>2. IsolationMoves /\ LocalMoves(t)
  BY <1>1, IsolationStays, LocalsStay, Zenon
  DEF ReceiptStep, Complete, OpenReceipt, DeriveStatus, SealEvidence, Freeze, containVars
<1>3. CASE Complete(t)
  <2>1. LedgerMoves /\ ReceiptMoves(t)
    BY <1>3, EvidenceStays, ReceiptStays, Zenon DEF Complete
  <2>2. PhaseMoves /\ consumed' = consumed
    BY <1>3, StateStays, Zenon DEF Complete, MarkCompleted, PhaseMoves, effectVars
  <2>3. Jumps(t) /\ pc'[t] \in PlainLabels
    BY <1>1, <1>3, Zenon DEF Complete, Goto, Jumps, TypesOK, PlainLabels
  <2> QED
    BY <1>1, <1>2, <2>1, <2>2, <2>3, PlainClaim, Zenon DEF Guarantee
<1>4. CASE OpenReceipt(t)
  <2>1. LedgerMoves /\ sealed' = sealed /\ PhaseMoves /\ consumed' = consumed
    BY <1>4, EvidenceStays, StateStays, Zenon DEF OpenReceipt
  <2>2. ReceiptMoves(t)
    BY <1>4, <2>1, ThreadAssumption, Zenon DEF OpenReceipt, ReceiptMoves
  <2>3. Jumps(t)
    BY <1>1, <1>4, Zenon DEF OpenReceipt, Goto, Jumps, TypesOK
  <2>4. \/ pc'[t] \in PlainLabels
        \/ pc'[t] = "status" /\ receiptOwner' = t /\ receipt' = NoReceipt
    BY <1>1, <1>4, Zenon DEF OpenReceipt, Goto, TypesOK, PlainLabels
  <2>5. Claim(t)'
    BY <2>4, PlainClaim, Zenon DEF Claim, LatchedLabels, SubmitLabels, DispatchLabels, NoReceipt
  <2> QED
    BY <1>1, <1>2, <2>1, <2>2, <2>3, <2>5, Zenon DEF Guarantee
<1>5. CASE DeriveStatus(t)
  <2>1. LedgerMoves /\ sealed' = sealed /\ PhaseMoves /\ consumed' = consumed
    BY <1>5, EvidenceStays, StateStays, Zenon DEF DeriveStatus
  <2>2. ReceiptMoves(t) /\ receiptOwner' = t /\ receipt' = NoReceipt
    BY <1>1, <1>5, <2>1, Zenon DEF DeriveStatus, ReceiptMoves, Claim
  <2>3. Jumps(t) /\ pc'[t] = "seal"
    BY <1>1, <1>5, Zenon DEF DeriveStatus, Goto, Jumps, TypesOK
  <2>4. Claim(t)'
    BY <2>2, <2>3, Zenon DEF Claim, LatchedLabels, SubmitLabels, DispatchLabels, NoReceipt
  <2> QED
    BY <1>1, <1>2, <2>1, <2>2, <2>3, <2>4, Zenon DEF Guarantee
<1>6. CASE SealEvidence(t)
  <2>1. LedgerMoves /\ sealed' = TRUE /\ PhaseMoves /\ consumed' = consumed
    BY <1>6, StateStays, Zenon DEF SealEvidence, Ledger!Seal, LedgerMoves
  <2>2. /\ ReceiptMoves(t) /\ receiptOwner' = t /\ receipt' = NoReceipt
        /\ root' # NoRoot
    <3>1. mirrored # NoRoot
      BY <1>1, SMT DEF TypesOK, NoRoot
    <3>2. mirrored' = mirrored
      BY <1>6, Zenon DEF SealEvidence, Ledger!Seal
    <3> QED
      BY <1>1, <1>6, <2>1, <3>1, <3>2, Zenon DEF SealEvidence, ReceiptMoves, Claim
  <2>3. Jumps(t) /\ pc'[t] = "freeze"
    BY <1>1, <1>6, Zenon DEF SealEvidence, Goto, Jumps, TypesOK
  <2>4. Claim(t)'
    BY <2>1, <2>2, <2>3, Zenon DEF Claim, LatchedLabels, SubmitLabels, DispatchLabels, NoReceipt
  <2> QED
    BY <1>1, <1>2, <2>1, <2>2, <2>3, <2>4, Zenon DEF Guarantee
<1>7. CASE Freeze(t)
  <2>1. LedgerMoves /\ sealed' = sealed /\ PhaseMoves /\ consumed' = consumed
    BY <1>7, EvidenceStays, StateStays, Zenon DEF Freeze
  <2>2. receiptOwner = t /\ receipt = NoReceipt /\ root # NoRoot
    BY <1>1, <1>7, Zenon DEF Freeze, Claim
  <2>3. root' = root /\ (receipt' = receipt \/ receipt'.count = root)
    BY <1>7, SMT DEF Freeze
  <2>4. ReceiptMoves(t)
    BY <1>7, <2>1, <2>2, <2>3, Zenon DEF Freeze, ReceiptMoves
  <2>5. Jumps(t) /\ pc'[t] \in PlainLabels
    BY <1>1, <1>7, Zenon DEF Freeze, Goto, Jumps, TypesOK, PlainLabels
  <2> QED
    BY <1>1, <1>2, <2>1, <2>4, <2>5, PlainClaim, Zenon DEF Guarantee
<1> QED
  BY <1>3, <1>4, <1>5, <1>6, <1>7, Zenon DEF ReceiptStep

-----------------------------------------------------------------------------
(***************************************************************************)
(* The gateway and the executor.                                           *)
(***************************************************************************)

\* _commit keeps the guarantee when its event is permitted (gateway.py:73-91).
LEMMA CommitKeeps ==
  ASSUME ContainmentInv, NEW t \in Threads, NEW e, NEW next,
         NEW otherwise \in {"done", "fail_last"},
         GatewayCommit(t, e, next, otherwise), Permitted(e), UNCHANGED stateVars,
         UNCHANGED containVars, UNCHANGED receiptVars, UNCHANGED after,
         UNCHANGED gatewayVars, UNCHANGED target
  PROVE  /\ Guarantee(t)
         /\ \/ pc'[t] = "emergency"
            \/ pc'[t] = next /\ trigger'[t] = Len(events') /\ CommitOk(e)
<1>1. TypesOK
  BY Zenon DEF ContainmentInv, Shared
<1>2. /\ PhaseMoves /\ consumed' = consumed
      /\ IsolationMoves /\ DecisionMoves(t) /\ ReleaseMoves(t)
  BY StateStays, IsolationStays, GatewayStays, Zenon DEF containVars
<1>3. LedgerMoves /\ sealed' = sealed
  BY Commits, Zenon DEF GatewayCommit
<1>4. ReceiptMoves(t)
  BY <1>3, ReceiptStays, Zenon
<1>5. LocalMoves(t)
  BY <1>1, Zenon DEF GatewayCommit, TypesOK, LocalMoves
<1>6. Jumps(t)
  BY <1>1, Zenon DEF GatewayCommit, Goto, TypesOK, Jumps
<1>7. \/ pc'[t] = "emergency"
      \/ pc'[t] = next /\ trigger'[t] = Len(events') /\ CommitOk(e)
  BY <1>1, Zenon DEF GatewayCommit, Goto, TypesOK
<1> QED
  BY <1>2, <1>3, <1>4, <1>5, <1>6, <1>7, Zenon DEF Guarantee

\* What commit has just returned for is the last thing the mirror accepted.
LEMMA JustMirrored ==
  ASSUME TypesOK, NEW e, CommitOk(e)
  PROVE  Len(events') \in 1..mirrored' /\ events'[Len(events')] = e
<1>1. events' = Append(events, e) /\ mirrored = Len(events) /\ mirrored' = mirrored + 1
  BY Zenon DEF CommitOk, Ledger!CommitMirrored, Ledger!MirrorAccepts
<1>2. Len(events) \in Nat /\ Len(events') = Len(events) + 1 /\ events'[Len(events) + 1] = e
  BY <1>1, Appended, Zenon
<1> QED
  BY <1>1, <1>2, SMT

\* fail_closed (gateway.py:232-255).
LEMMA FailClosedKeeps ==
  ASSUME ContainmentInv, NEW t \in Threads, UNCHANGED target
  PROVE  FailClosedStep(t) =>
           Guarantee(t) /\ Claim(t)'
<1>1. TypesOK /\ Claim(t) /\ after[t] \in {"done", "watch", "unregister"}
  BY Zenon DEF ContainmentInv, Shared, TypesOK
<1>2. ASSUME FailClosed(t) PROVE Guarantee(t) /\ Claim(t)'
  <2>1. PhaseMoves /\ consumed' = consumed
    BY <1>2, StateStays, Zenon DEF FailClosed
  <2>2. LocalMoves(t)
    BY <1>1, <1>2, Zenon DEF FailClosed, TypesOK, returnVars, LocalMoves
  <2>3. Jumps(t) /\ pc'[t] \in PlainLabels
    BY <1>1, <1>2, Zenon DEF FailClosed, Goto, Jumps, TypesOK, PlainLabels
  <2> QED
    BY <1>2, <2>1, <2>2, <2>3, PrivateStep, PlainClaim, Zenon DEF FailClosed
<1>3. ASSUME FailLatch(t) PROVE Guarantee(t) /\ Claim(t)'
  <2>1. PhaseMoves /\ phase' # "RUNNING" /\ consumed' = consumed
    BY <1>3, LatchMoves, Zenon DEF FailLatch
  <2>2. LocalMoves(t)
    BY <1>1, <1>3, LocalsStay, Zenon DEF FailLatch
  <2>3. Jumps(t) /\ pc'[t] = "fail_commit"
    BY <1>1, <1>3, Zenon DEF FailLatch, Goto, Jumps, TypesOK
  <2>4. Claim(t)'
    BY <2>1, <2>3, Zenon DEF Claim, LatchedLabels, ReceiptLabels, SubmitLabels, DispatchLabels
  <2> QED
    BY <1>3, <2>1, <2>2, <2>3, <2>4, PrivateStep, Zenon DEF FailLatch
<1>4. ASSUME FailCommit(t) PROVE Guarantee(t) /\ Claim(t)'
  <2>1. phase' = phase
    BY <1>4, StateStays, Zenon DEF FailCommit
  <2>2. Permitted(Violation("failure", stamp[t]))
    BY <1>1, <1>4, <2>1, Zenon DEF FailCommit, Claim, LatchedLabels, Permitted, Violation
  <2>3. Guarantee(t) /\ pc'[t] \in {"emergency", "contain"}
    BY <1>4, <2>2, CommitKeeps, Zenon DEF FailCommit
  <2> QED
    BY <2>3, PlainClaim, SMT DEF PlainLabels
<1>5. ASSUME FailLast(t) PROVE Guarantee(t) /\ Claim(t)'
  <2>1. PhaseMoves /\ consumed' = consumed
    BY <1>5, StateStays, Zenon DEF FailLast
  <2>2. LocalMoves(t)
    BY <1>1, <1>5, Zenon DEF FailLast, TypesOK, returnVars, LocalMoves
  <2>3. Jumps(t) /\ pc'[t] \in PlainLabels
    BY <1>1, <1>5, Zenon DEF FailLast, Goto, Jumps, TypesOK, PlainLabels
  <2> QED
    BY <1>5, <2>1, <2>2, <2>3, PrivateStep, PlainClaim, Zenon DEF FailLast
<1> QED
  BY <1>2, <1>3, <1>4, <1>5, Zenon DEF FailClosedStep

\* The adapter's checks and submit_raw up to the decision (main.py:56-103,
\* gateway.py:93-148).
LEMMA AdmitKeeps ==
  ASSUME ContainmentInv, NEW t \in Threads, UNCHANGED target
  PROVE  ((t \in Workers /\ Arrive(t)) \/ LateLatch(t) \/ LateCommit(t) \/ Admit(t)
             \/ OverloadCommit(t) \/ MalformedCommit(t) \/ MalformedLatch(t)) =>
           Guarantee(t) /\ Claim(t)'
<1> USE DEF LatchedLabels, ReceiptLabels, SubmitLabels, DispatchLabels
<1>1. TypesOK /\ Claim(t)
  BY Zenon DEF ContainmentInv, Shared
<1>2. ASSUME t \in Workers /\ Arrive(t) PROVE Guarantee(t) /\ Claim(t)'
  <2>1. PhaseMoves /\ consumed' = consumed
    BY <1>2, StateStays, Zenon DEF Arrive
  <2>2. LedgerMoves /\ IsolationMoves /\ ReceiptMoves(t)
    BY <1>2, EvidenceStays, IsolationStays, ReceiptStays, Zenon DEF Arrive, containVars
  <2>3. DecisionMoves(t) /\ ReleaseMoves(t)
    BY <1>2, Zenon DEF Arrive, DecisionMoves, ReleaseMoves
  <2>4. LocalMoves(t)
    BY <1>1, <1>2, Zenon DEF Arrive, TypesOK, returnVars, LocalMoves
  <2>5. Jumps(t) /\ pc'[t] \in {"fail_latch", "late_latch", "admit"}
    BY <1>1, <1>2, Zenon DEF Arrive, Goto, Jumps, TypesOK
  <2>6. Claim(t)'
    BY <1>1, <1>2, <2>5, Zenon DEF Claim, Arrive
  <2> QED
    BY <2>1, <2>2, <2>3, <2>4, <2>5, <2>6, Zenon DEF Guarantee
<1>3. ASSUME LateLatch(t) PROVE Guarantee(t) /\ Claim(t)'
  <2>1. PhaseMoves /\ phase' # "RUNNING" /\ consumed' = consumed
    BY <1>3, LatchMoves, Zenon DEF LateLatch
  <2>2. LocalMoves(t)
    BY <1>1, <1>3, LocalsStay, Zenon DEF LateLatch
  <2>3. Jumps(t) /\ pc'[t] = "late_commit"
    BY <1>1, <1>3, Zenon DEF LateLatch, Goto, Jumps, TypesOK
  <2>4. Claim(t)'
    BY <2>1, <2>3, Zenon DEF Claim
  <2> QED
    BY <1>3, <2>1, <2>2, <2>3, <2>4, PrivateStep, Zenon DEF LateLatch
<1>4. ASSUME LateCommit(t) PROVE Guarantee(t) /\ Claim(t)'
  <2>1. phase' = phase
    BY <1>4, StateStays, Zenon DEF LateCommit
  <2>2. Permitted(Violation("runtime", stamp[t]))
    BY <1>1, <1>4, <2>1, Zenon DEF LateCommit, Claim, Permitted, Violation
  <2>3. Guarantee(t) /\ pc'[t] \in {"emergency", "contain"}
    BY <1>4, <2>2, CommitKeeps, Zenon DEF LateCommit
  <2> QED
    BY <2>3, PlainClaim, SMT DEF PlainLabels
<1>5. ASSUME Admit(t) PROVE Guarantee(t) /\ Claim(t)'
  <2>1. PhaseMoves /\ consumed' = consumed
    BY <1>5, Zenon DEF Admit, AdmitDropped, AdmitOverload, AdmitOk, Latch, latchVars, effectVars,
                PhaseMoves
  <2>2. LocalMoves(t)
    BY <1>1, <1>5, LocalsStay, Zenon DEF Admit
  <2>3. /\ Jumps(t)
        /\ \/ pc'[t] = "overload_commit" /\ phase' # "RUNNING"
           \/ pc'[t] \in {"done", "malformed_commit", "request_commit"}
    BY <1>1, <1>5, Zenon DEF Admit, AdmitOverload, Latch, Goto, Jumps, TypesOK
  <2>4. Claim(t)'
    BY <1>1, <1>5, <2>3, Zenon DEF Claim, Admit
  <2> QED
    BY <1>5, <2>1, <2>2, <2>3, <2>4, PrivateStep, Zenon DEF Admit
<1>6. ASSUME OverloadCommit(t) PROVE Guarantee(t) /\ Claim(t)'
  <2>1. phase' = phase
    BY <1>6, StateStays, Zenon DEF OverloadCommit
  <2>2. Permitted([kind |-> "OVERLOAD_SUMMARY", ns |-> stamp[t]])
    BY <1>1, <1>6, <2>1, Zenon DEF OverloadCommit, Claim, Permitted
  <2>3. Guarantee(t) /\ pc'[t] \in {"emergency", "contain"}
    BY <1>6, <2>2, CommitKeeps, Zenon DEF OverloadCommit
  <2> QED
    BY <2>3, PlainClaim, SMT DEF PlainLabels
<1>7. ASSUME MalformedCommit(t) PROVE Guarantee(t) /\ Claim(t)'
  <2>1. Permitted(Violation("malformed", stamp[t]))
    BY Zenon DEF Permitted, LatchedTrigger, Violation
  <2>2. Guarantee(t) /\ pc'[t] \in {"emergency", "malformed_latch"}
    BY <1>7, <2>1, CommitKeeps, Zenon DEF MalformedCommit
  <2> QED
    BY <2>2, PlainClaim, SMT DEF PlainLabels
<1>8. ASSUME MalformedLatch(t) PROVE Guarantee(t) /\ Claim(t)'
  <2>1. PhaseMoves /\ consumed' = consumed
    BY <1>8, LatchMoves, Zenon DEF MalformedLatch
  <2>2. LocalMoves(t)
    BY <1>1, <1>8, LocalsStay, Zenon DEF MalformedLatch
  <2>3. Jumps(t) /\ pc'[t] \in PlainLabels
    BY <1>1, <1>8, Zenon DEF MalformedLatch, Goto, Jumps, TypesOK, PlainLabels
  <2> QED
    BY <1>8, <2>1, <2>2, <2>3, PrivateStep, PlainClaim, Zenon DEF MalformedLatch
<1> QED
  BY <1>2, <1>3, <1>4, <1>5, <1>6, <1>7, <1>8, Zenon

\* submit_raw from the logged request to the returned decision (gateway.py:150-230).
LEMMA DecideKeeps ==
  ASSUME ContainmentInv, NEW t \in Threads, UNCHANGED target
  PROVE  (RequestCommit(t) \/ Decide(t) \/ SignDecision(t) \/ DecisionCommit(t)
             \/ Record(t) \/ KillCommit(t)) =>
           Guarantee(t) /\ Claim(t)'
<1> USE DEF LatchedLabels, ReceiptLabels, SubmitLabels, DispatchLabels
<1>1. TypesOK /\ Claim(t) /\ LatchInv
  BY Zenon DEF ContainmentInv, Shared
<1>2. ASSUME RequestCommit(t) PROVE Guarantee(t) /\ Claim(t)'
  <2> DEFINE e == [kind |-> "REQUEST", req |-> RequestOf[t], ns |-> stamp[t]]
  <2>1. Permitted(e)
    BY Zenon DEF Permitted, LatchedTrigger, IsTrigger
  <2>2. /\ Guarantee(t)
        /\ \/ pc'[t] = "emergency"
           \/ pc'[t] = "decide" /\ trigger'[t] = Len(events') /\ CommitOk(e)
    BY <1>2, <2>1, CommitKeeps, Zenon DEF RequestCommit
  <2>3. ASSUME pc'[t] = "decide", trigger'[t] = Len(events'), CommitOk(e)
        PROVE  Claim(t)'
    <3>1. RequestAt(t, trigger[t])'
      BY <1>1, <2>3, JustMirrored, SMT DEF RequestAt
    <3> QED
      BY <1>1, <1>2, <2>3, <3>1, Zenon DEF RequestCommit, Claim
  <2> QED
    BY <2>2, <2>3, PlainClaim, SMT DEF PlainLabels
<1>3. ASSUME Decide(t) PROVE Guarantee(t) /\ Claim(t)'
  <2>1. PhaseMoves /\ consumed' = consumed
    BY <1>3, StateStays, Zenon DEF Decide
  <2>2. LocalMoves(t) /\ trigger' = trigger
    BY <1>1, <1>3, Zenon DEF Decide, TypesOK, returnVars, LocalMoves
  <2>3. Jumps(t) /\ pc'[t] = "sign_decision"
    BY <1>1, <1>3, Zenon DEF Decide, Goto, Jumps, TypesOK
  <2>4. events' = events /\ mirrored' = mirrored
    BY <1>3, EvidenceStays, Zenon DEF Decide
  <2>5. Claim(t)'
    BY <1>1, <1>3, <2>2, <2>3, <2>4, Zenon DEF Claim, Decide, RequestAt
  <2> QED
    BY <1>3, <2>1, <2>2, <2>3, <2>5, PrivateStep, Zenon DEF Decide
<1>4. ASSUME SignDecision(t) PROVE Guarantee(t) /\ Claim(t)'
  <2>1. t \in Workers /\ target[t] = t /\ RequestAt(t, trigger[t])
    BY <1>1, <1>4, Zenon DEF Claim, SignDecision
  <2>2. PhaseMoves /\ consumed' = consumed
    BY <1>4, LatchMoves, StateStays, Zenon DEF SignDecision
  <2>3. DecisionMoves(t)
    <3>1. CASE input[t] = "kill"
      <4> DEFINE d == [verdict |-> "KILL", epoch |-> epoch', expiry |-> 0, id |-> t]
      <4>1. decision' = [decision EXCEPT ![t] = d] /\ phase' # "RUNNING"
        BY <1>4, <3>1, LatchMoves, Zenon DEF SignDecision
      <4>2. d.id = t
        BY Zenon
      <4> QED
        BY <2>1, <4>1, <4>2, Zenon DEF DecisionMoves
    <3>2. CASE input[t] # "kill"
      <4> DEFINE d == [verdict |-> "ALLOW", epoch |-> epoch, expiry |-> stamp[t] + Ttl,
                       id |-> t]
      <4>1. decision' = [decision EXCEPT ![t] = d]
        BY <1>4, <3>2, Zenon DEF SignDecision
      <4>2. d.id = t /\ d.verdict # "KILL"
        BY Zenon
      <4> HIDE DEF d
      <4> QED
        BY <2>1, <4>1, <4>2, Zenon DEF DecisionMoves
    <3> QED
      BY <3>1, <3>2, Zenon
  <2>4. LedgerMoves /\ events' = events /\ mirrored' = mirrored
    BY <1>4, EvidenceStays, Zenon DEF SignDecision
  <2>5. IsolationMoves /\ ReceiptMoves(t) /\ ReleaseMoves(t)
    BY <1>4, EvidenceStays, IsolationStays, ReceiptStays, Zenon
    DEF SignDecision, containVars, ReleaseMoves
  <2>6. LocalMoves(t) /\ trigger' = trigger
    BY <1>1, <1>4, LocalsStay, Zenon DEF SignDecision
  <2>7. Jumps(t) /\ pc'[t] = "decision_commit"
    BY <1>1, <1>4, Zenon DEF SignDecision, Goto, Jumps, TypesOK
  <2>8. Claim(t)'
    BY <2>1, <2>4, <2>6, <2>7, Zenon DEF Claim, RequestAt
  <2> QED
    BY <2>2, <2>3, <2>4, <2>5, <2>6, <2>7, <2>8, Zenon DEF Guarantee
<1>5. ASSUME DecisionCommit(t) PROVE Guarantee(t) /\ Claim(t)'
  <2> DEFINE e == [kind |-> "DECISION", req |-> RequestOf[t], ref |-> trigger[t],
                   auth |-> t, verdict |-> decision[t].verdict,
                   expiry |-> decision[t].expiry, ns |-> stamp[t]]
  <2>1. t \in Workers /\ target[t] = t /\ RequestAt(t, trigger[t])
    BY <1>1, <1>5, Zenon DEF Claim, DecisionCommit
  <2>2. Permitted(e)
    <3>1. phase' = phase
      BY <1>5, StateStays, Zenon DEF DecisionCommit
    <3> QED
      BY <1>1, <2>1, <3>1, Zenon DEF LatchInv, Permitted, LatchedTrigger, IsTrigger
  <2>3. /\ Guarantee(t)
        /\ \/ pc'[t] = "emergency"
           \/ pc'[t] = "record" /\ CommitOk(e)
    BY <1>5, <2>2, CommitKeeps, Zenon DEF DecisionCommit
  <2>4. ASSUME pc'[t] = "record", CommitOk(e)
        PROVE  Claim(t)'
    <3>1. decision' = decision
      BY <1>5, GatewayStays, Zenon DEF DecisionCommit
    <3>2. ASSUME decision[t].verdict = "ALLOW"
          PROVE  Authorized(t)'
      <4> DEFINE n == Len(events')
                 r == trigger[t]
      <4>1. n \in 1..mirrored' /\ events'[n] = e
        BY <1>1, <2>4, JustMirrored, Zenon
      <4>2. r \in 1..mirrored /\ mirrored = Len(events) /\ n = Len(events) + 1
        BY <1>1, <2>1, <2>4, Appended, Zenon
        DEF RequestAt, CommitOk, Ledger!CommitMirrored, Ledger!MirrorAccepts
      <4>3. r \in 1..mirrored' /\ events'[r] = events[r]
        BY <1>1, <2>3, <4>2, MirroredStays, Zenon DEF Guarantee
      <4>4. Len(events) \in Nat
        BY <1>1, <2>4, Appended, Zenon DEF CommitOk, Ledger!CommitMirrored
      <4>5. r < n
        BY <4>2, <4>4, SMT
      <4>6. events'[r].kind = "REQUEST" /\ events'[r].req = RequestOf[t]
        BY <2>1, <4>3, Zenon DEF RequestAt
      <4>7. /\ events'[n].kind = "DECISION" /\ events'[n].verdict = "ALLOW"
            /\ events'[n].auth = t /\ events'[n].ref = r
        BY <3>2, <4>1, SMT
      <4> HIDE DEF n, r, e
      <4> QED
        BY <4>1, <4>3, <4>5, <4>6, <4>7, Zenon DEF Authorized, RequestAt
    <3> QED
      BY <2>1, <2>4, <3>1, <3>2, Zenon DEF Claim
  <2> HIDE DEF e
  <2> QED
    BY <2>3, <2>4, PlainClaim, SMT DEF PlainLabels
<1>6. ASSUME Record(t) PROVE Guarantee(t) /\ Claim(t)'
  <2>1. t \in Workers /\ target[t] = t
    BY <1>1, <1>6, Zenon DEF Claim, Record
  <2>2. PhaseMoves /\ phase' = phase /\ consumed' = consumed
    BY <1>6, Zenon DEF Record, RecordDecision, latchVars, effectVars, PhaseMoves
  <2>3. LedgerMoves /\ events' = events /\ mirrored' = mirrored
    BY <1>6, EvidenceStays, Zenon DEF Record
  <2>4. IsolationMoves /\ ReceiptMoves(t) /\ DecisionMoves(t)
    BY <1>6, EvidenceStays, IsolationStays, ReceiptStays, Zenon
    DEF Record, containVars, DecisionMoves
  <2>5. LocalMoves(t)
    BY <1>1, <1>6, LocalsStay, Zenon DEF Record
  <2>6. Jumps(t)
    BY <1>1, <1>6, Zenon DEF Record, Goto, Jumps, TypesOK
  <2>7. CASE decision[t].verdict = "ALLOW"
    <3>1. Authorized(t)
      BY <1>1, <1>6, <2>7, Zenon DEF Claim, Record
    <3>2. ReleaseMoves(t) /\ pc'[t] = "dispatch"
      BY <1>1, <1>6, <2>1, <2>7, <3>1, Zenon DEF Record, Goto, TypesOK, ReleaseMoves
    <3>3. Authorized(target[t])'
      BY <2>1, <2>3, <3>1, Zenon DEF Authorized, RequestAt
    <3>4. Claim(t)'
      BY <2>1, <3>2, <3>3, Zenon DEF Claim
    <3> QED
      BY <2>2, <2>3, <2>4, <2>5, <2>6, <3>2, <3>4, Zenon DEF Guarantee
  <2>8. CASE decision[t].verdict # "ALLOW"
    <3>1. ReleaseMoves(t) /\ pc'[t] = "kill_commit" /\ decision[t].verdict = "KILL"
      BY <1>1, <1>6, <2>8, Zenon DEF Record, Goto, TypesOK, ReleaseMoves
    <3>2. phase' # "RUNNING"
      BY <1>1, <2>1, <2>2, <3>1, Zenon DEF LatchInv
    <3>3. Claim(t)'
      BY <3>1, <3>2, Zenon DEF Claim
    <3> QED
      BY <2>2, <2>3, <2>4, <2>5, <2>6, <3>1, <3>3, Zenon DEF Guarantee
  <2> QED
    BY <2>7, <2>8, Zenon
<1>7. ASSUME KillCommit(t) PROVE Guarantee(t) /\ Claim(t)'
  <2>1. PICK ns \in 0..MaxClock : GatewayCommit(t, Violation("policy", ns), "contain", "done")
    BY <1>7, Zenon DEF KillCommit
  <2>2. phase' = phase
    BY <1>7, StateStays, Zenon DEF KillCommit
  <2>3. Permitted(Violation("policy", ns))
    BY <1>1, <1>7, <2>2, Zenon DEF KillCommit, Claim, Permitted, Violation
  <2>4. Guarantee(t) /\ pc'[t] \in {"emergency", "contain"}
    BY <1>7, <2>1, <2>3, CommitKeeps, Zenon DEF KillCommit
  <2> QED
    BY <2>4, PlainClaim, SMT DEF PlainLabels
<1> QED
  BY <1>2, <1>3, <1>4, <1>5, <1>6, <1>7, Zenon

-----------------------------------------------------------------------------
\* dispatch before its lease (executor.py:103-155): a replayer picks a capability
\* that was returned to somebody.
LEMMA PresentKeeps ==
  ASSUME ContainmentInv, NEW t \in Threads
  PROVE  ((t \in Replayers /\ Replay(t)) \/ Dispatch(t) \/ Register(t) \/ BeginRefused(t)) =>
           Guarantee(t) /\ Claim(t)'
<1> USE DEF LatchedLabels, ReceiptLabels, SubmitLabels, DispatchLabels
<1>1. TypesOK /\ Claim(t) /\ CapabilityInv
  BY Zenon DEF ContainmentInv, Shared
<1>2. ASSUME t \in Replayers /\ Replay(t) PROVE Guarantee(t) /\ Claim(t)'
  <2>1. PICK w \in released : target' = [target EXCEPT ![t] = w]
    BY <1>2, Zenon DEF Replay
  <2>2. PhaseMoves /\ consumed' = consumed /\ events' = events /\ mirrored' = mirrored
    BY <1>2, StateStays, EvidenceStays, Zenon DEF Replay
  <2>3. LocalMoves(t) /\ target'[t] = w
    BY <1>1, <1>2, <2>1, SMT DEF Replay, TypesOK, localVars, returnVars, LocalMoves
  <2>4. Jumps(t) /\ pc'[t] = "dispatch"
    BY <1>1, <1>2, Zenon DEF Replay, Goto, Jumps, TypesOK
  <2>5. w \in Workers /\ Authorized(w)
    BY <1>1, Zenon DEF TypesOK, CapabilityInv
  <2>6. Authorized(target[t])'
    BY <2>2, <2>3, <2>5, Zenon DEF Authorized, RequestAt
  <2>7. Claim(t)'
    BY <1>2, <2>3, <2>4, <2>5, <2>6, Zenon DEF Claim
  <2> QED
    BY <1>2, <2>2, <2>3, <2>4, <2>7, PrivateStep, Zenon DEF Replay
<1>3. ASSUME Dispatch(t) PROVE Guarantee(t) /\ Claim(t)'
  <2>1. PhaseMoves /\ consumed' = consumed /\ events' = events /\ mirrored' = mirrored
    BY <1>3, StateStays, EvidenceStays, Zenon DEF Dispatch
  <2>2. LocalMoves(t) /\ target' = target
    BY <1>1, <1>3, Zenon DEF Dispatch, TypesOK, returnVars, LocalMoves
  <2>3. Jumps(t) /\ pc'[t] = "register"
    BY <1>1, <1>3, Zenon DEF Dispatch, Goto, Jumps, TypesOK
  <2>4. Claim(t)'
    BY <1>1, <1>3, <2>1, <2>2, <2>3, Zenon DEF Dispatch, Claim, Authorized, RequestAt
  <2> QED
    BY <1>3, <2>1, <2>2, <2>3, <2>4, PrivateStep, Zenon DEF Dispatch
<1>4. ASSUME Register(t) PROVE Guarantee(t) /\ Claim(t)'
  <2>1. PhaseMoves /\ consumed' = consumed /\ events' = events /\ mirrored' = mirrored
    BY <1>4, StateStays, EvidenceStays, Zenon DEF Register
  <2>2. LocalMoves(t) /\ target' = target
    BY <1>1, <1>4, LocalsStay, Zenon DEF Register
  <2>3. Jumps(t) /\ pc'[t] \in {"done", "begin"}
    BY <1>1, <1>4, Zenon DEF Register, Goto, Jumps, TypesOK
  <2>4. Claim(t)'
    BY <1>1, <1>4, <2>1, <2>2, <2>3, Zenon DEF Register, Claim, Authorized, RequestAt
  <2> QED
    BY <1>4, <2>1, <2>2, <2>3, <2>4, PrivateStep, Zenon DEF Register
<1>5. ASSUME BeginRefused(t) PROVE Guarantee(t) /\ Claim(t)'
  <2>1. PhaseMoves /\ consumed' = consumed
    BY <1>5, StateStays, Zenon DEF BeginRefused, BeginOverBudget, Latch, effectVars, PhaseMoves
  <2>2. LocalMoves(t) /\ target' = target /\ events' = events /\ mirrored' = mirrored
    BY <1>1, <1>5, LocalsStay, EvidenceStays, Zenon DEF BeginRefused
  <2>3. Jumps(t) /\ pc'[t] = "check"
    BY <1>1, <1>5, Zenon DEF BeginRefused, Goto, Jumps, TypesOK
  <2>4. Claim(t)'
    BY <1>1, <1>5, <2>2, <2>3, Zenon DEF BeginRefused, Claim, Authorized, RequestAt
  <2> QED
    BY <1>5, <2>1, <2>2, <2>3, <2>4, PrivateStep, Zenon DEF BeginRefused
<1> QED
  BY <1>2, <1>3, <1>4, <1>5, Zenon

\* begin_authorized and its DISPATCH are one step under the lock of RunState
\* (executor.py:131-155, state.py:131-185).
LEMMA BeginKeeps ==
  ASSUME ContainmentInv, NEW t \in Threads, Begin(t)
  PROVE  Guarantee(t) /\ Claim(t)'
<1> USE DEF DispatchLabels
<1>1. TypesOK /\ Claim(t) /\ CapabilityInv
  BY Zenon DEF ContainmentInv, Shared
<1>2. PICK ns \in 0..MaxClock :
          LET d == decision[target[t]]
              e == [kind |-> "DISPATCH", req |-> RequestOf[target[t]],
                    auth |-> target[t], ns |-> ns]
          IN  \/ /\ BeginCommits(d, stamp[t], MaxResponse)
                 /\ CommitOk(e)
                 /\ Goto(t, "transport")
              \/ /\ BeginCommitFails(d, stamp[t], MaxResponse)
                 /\ CommitRaises(e)
                 /\ Goto(t, "check")
  BY Zenon DEF Begin
<1> DEFINE a == target[t]
           e == [kind |-> "DISPATCH", req |-> RequestOf[a], auth |-> a, ns |-> ns]
<1>3. t \in Workers \cup Replayers /\ a \in Workers /\ Authorized(a)
  BY <1>1, Zenon DEF Claim, Begin
<1>4. /\ Dispatchable(decision[a], stamp[t])
      /\ consumed' = consumed \cup {decision[a].id}
      /\ phase' \in {"RUNNING", "KILLING"}
  BY <1>2, Zenon DEF BeginCommits, BeginCommitFails, Dispatchable, Latch, latchVars
<1>5. phase = "RUNNING" /\ decision[a].id = a /\ a \notin consumed
  BY <1>1, <1>3, <1>4, Zenon DEF Dispatchable, CapabilityInv
<1>6. Permitted(e)
  <2>1. e.kind = "DISPATCH" /\ e.auth = a /\ e.req = RequestOf[a]
    BY Zenon
  <2>2. Authorized(e.auth)
    BY <1>3, <2>1, Zenon
  <2> QED
    BY <1>3, <1>4, <1>5, <2>1, <2>2, Zenon DEF Permitted, MayDispatch, LatchedTrigger, IsTrigger
<1>7. PhaseMoves /\ consumed \subseteq consumed'
  BY <1>4, <1>5, Zenon DEF PhaseMoves
<1>8. CommitOk(e) \/ CommitRaises(e)
  BY <1>2, Zenon
<1>9. LedgerMoves /\ sealed' = sealed
  BY <1>6, <1>8, Commits, Zenon
<1>10. IsolationMoves /\ ReceiptMoves(t) /\ DecisionMoves(t) /\ ReleaseMoves(t)
  BY <1>9, IsolationStays, ReceiptStays, GatewayStays, Zenon DEF Begin, containVars
<1>11. LocalMoves(t) /\ target' = target
  BY <1>1, LocalsStay, Zenon DEF Begin
<1>12. Jumps(t) /\ pc'[t] \in {"transport", "check"}
  BY <1>1, <1>2, Zenon DEF Goto, Jumps, TypesOK
<1>13. Claim(t)'
  <2>1. PICK w : w = target[t]
    BY Zenon
  <2>2. Authorized(w)'
    BY <1>1, <1>3, <1>9, <2>1, AuthorizedStays, Zenon
  <2>3. Authorized(target[t])'
    BY <1>11, <2>1, <2>2, Zenon DEF Authorized, RequestAt
  <2> QED
    BY <1>3, <1>11, <1>12, <2>3, Zenon
    DEF Claim, LatchedLabels, ReceiptLabels, SubmitLabels
<1> QED
  BY <1>7, <1>9, <1>10, <1>11, <1>12, <1>13, Zenon DEF Guarantee

\* The transport and what follows it (executor.py:153-196): a RESULT is no
\* trigger, and failures only latch.
LEMMA FinishKeeps ==
  ASSUME ContainmentInv, NEW t \in Threads, Finish(t)
  PROVE  Guarantee(t) /\ Claim(t)'
<1> USE DEF DispatchLabels
<1>1. TypesOK /\ Claim(t)
  BY Zenon DEF ContainmentInv, Shared
<1>2. PICK ns \in 0..MaxClock, bytes \in Responses :
          LET e == [kind |-> "RESULT", req |-> RequestOf[target[t]],
                    auth |-> target[t], ns |-> ns]
          IN  \/ /\ FinishCommits(target[t], bytes)
                 /\ CommitOk(e)
                 /\ Goto(t, "unregister")
              \/ /\ FinishFails(target[t])
                 /\ CommitRaises(e)
                 /\ Goto(t, "abort")
  BY Zenon DEF Finish
<1> DEFINE e == [kind |-> "RESULT", req |-> RequestOf[target[t]],
                 auth |-> target[t], ns |-> ns]
<1>3. PhaseMoves /\ consumed' = consumed
  BY <1>2, Zenon DEF FinishCommits, FinishFails, Latch, latchVars, effectVars, PhaseMoves
<1>4. LedgerMoves /\ sealed' = sealed
  <2>1. Permitted(e)
    BY Zenon DEF Permitted, LatchedTrigger, IsTrigger
  <2>2. CommitOk(e) \/ CommitRaises(e)
    BY <1>2, Zenon
  <2> QED
    BY <2>1, <2>2, Commits, Zenon
<1>5. IsolationMoves /\ ReceiptMoves(t) /\ DecisionMoves(t) /\ ReleaseMoves(t)
  BY <1>4, IsolationStays, ReceiptStays, GatewayStays, Zenon DEF Finish, containVars
<1>6. LocalMoves(t) /\ target' = target
  BY <1>1, LocalsStay, Zenon DEF Finish
<1>7. Jumps(t) /\ pc'[t] \in {"unregister", "abort"}
  BY <1>1, <1>2, Zenon DEF Goto, Jumps, TypesOK
<1>8. Claim(t)'
  <2>1. t \in Workers \cup Replayers /\ target[t] \in Workers /\ Authorized(target[t])
    BY <1>1, Zenon DEF Claim, Finish
  <2>2. PICK w : w = target[t]
    BY Zenon
  <2>3. Authorized(w)'
    BY <1>1, <1>4, <2>1, <2>2, AuthorizedStays, Zenon
  <2>4. Authorized(target[t])'
    BY <1>6, <2>2, <2>3, Zenon DEF Authorized, RequestAt
  <2> QED
    BY <1>6, <1>7, <2>1, <2>4, Zenon DEF Claim, LatchedLabels, ReceiptLabels, SubmitLabels
<1> QED
  BY <1>3, <1>4, <1>5, <1>6, <1>7, <1>8, Zenon DEF Guarantee

\* What dispatch does once the transport has answered (executor.py:155-196).
LEMMA AfterTransportKeeps ==
  ASSUME ContainmentInv, NEW t \in Threads
  PROVE  (Transport(t) \/ FinishStale(t) \/ AbortLease(t) \/ CheckCancelled(t) \/ Unregister(t)) =>
           Guarantee(t) /\ Claim(t)'
<1> USE DEF LatchedLabels, ReceiptLabels, SubmitLabels, DispatchLabels
<1>1. TypesOK /\ Claim(t)
  BY Zenon DEF ContainmentInv, Shared
<1>2. ASSUME Transport(t) \/ FinishStale(t) PROVE Guarantee(t) /\ Claim(t)'
  <2>1. PhaseMoves /\ consumed' = consumed /\ events' = events /\ mirrored' = mirrored
    BY <1>2, StateStays, EvidenceStays, Zenon
    DEF Transport, TransportRaises, TransportReturns, FinishStale
  <2>2. LocalMoves(t) /\ target' = target
    BY <1>1, <1>2, LocalsStay, Zenon DEF Transport, TransportRaises, TransportReturns, FinishStale
  <2>3. Jumps(t) /\ pc'[t] \in {"abort", "finish"} /\ pc[t] \in {"transport", "finish"}
    BY <1>1, <1>2, Zenon
    DEF Transport, TransportRaises, TransportReturns, FinishStale, Goto, Jumps, TypesOK
  <2>4. Claim(t)'
    BY <1>1, <2>1, <2>2, <2>3, Zenon DEF Claim, Authorized, RequestAt
  <2> QED
    BY <1>2, <2>1, <2>2, <2>3, <2>4, PrivateStep, Zenon
    DEF Transport, TransportRaises, TransportReturns, FinishStale
<1>3. ASSUME AbortLease(t) PROVE Guarantee(t) /\ Claim(t)'
  <2>1. PhaseMoves /\ consumed' = consumed
    BY <1>3, StateStays, Zenon DEF AbortLease, Abort, latchVars, effectVars, PhaseMoves
  <2>2. LocalMoves(t) /\ target' = target /\ events' = events /\ mirrored' = mirrored
    BY <1>1, <1>3, LocalsStay, EvidenceStays, Zenon DEF AbortLease
  <2>3. Jumps(t) /\ pc'[t] = "check"
    BY <1>1, <1>3, Zenon DEF AbortLease, Goto, Jumps, TypesOK
  <2>4. Claim(t)'
    BY <1>1, <1>3, <2>2, <2>3, Zenon DEF AbortLease, Claim, Authorized, RequestAt
  <2> QED
    BY <1>3, <2>1, <2>2, <2>3, <2>4, PrivateStep, Zenon DEF AbortLease
<1>4. ASSUME CheckCancelled(t) PROVE Guarantee(t) /\ Claim(t)'
  <2>1. PhaseMoves /\ consumed' = consumed
    BY <1>4, StateStays, Zenon DEF CheckCancelled
  <2>2. LocalMoves(t)
    BY <1>1, <1>4, Zenon DEF CheckCancelled, TypesOK, LocalMoves
  <2>3. Jumps(t) /\ pc'[t] \in PlainLabels
    BY <1>1, <1>4, Zenon DEF CheckCancelled, Goto, Jumps, TypesOK, PlainLabels
  <2> QED
    BY <1>4, <2>1, <2>2, <2>3, PrivateStep, PlainClaim, Zenon DEF CheckCancelled
<1>5. ASSUME Unregister(t) PROVE Guarantee(t) /\ Claim(t)'
  <2>1. PhaseMoves /\ consumed' = consumed
    BY <1>5, StateStays, Zenon DEF Unregister
  <2>2. LocalMoves(t)
    BY <1>1, <1>5, LocalsStay, Zenon DEF Unregister
  <2>3. Jumps(t) /\ pc'[t] \in PlainLabels
    BY <1>1, <1>5, Zenon DEF Unregister, Goto, Jumps, TypesOK, PlainLabels
  <2> QED
    BY <1>5, <2>1, <2>2, <2>3, PrivateStep, PlainClaim, Zenon DEF Unregister
<1> QED
  BY <1>2, <1>3, <1>4, <1>5, Zenon

-----------------------------------------------------------------------------
(***************************************************************************)
(* The composed runtime.                                                   *)
(***************************************************************************)

\* Every thread keeps the guarantee and establishes its claim, whatever it does.
LEMMA StepKeeps ==
  ASSUME ContainmentInv, NEW t \in Threads, Step(t)
  PROVE  Guarantee(t) /\ Claim(t)'
<1>1. CASE t \in Workers /\ Arrive(t) /\ UNCHANGED target
  BY <1>1, AdmitKeeps, Zenon
<1>2. CASE t \in Replayers /\ Replay(t)
  BY <1>2, PresentKeeps, Zenon
<1>3. CASE SupervisorStep(t) /\ UNCHANGED <<gatewayVars, target>>
  BY <1>3, ContainKeeps, EmergencyKeeps, WatchKeeps, ReceiptKeeps, Zenon DEF SupervisorStep
<1>4. CASE SubmitStep(t) /\ UNCHANGED target
  BY <1>4, AdmitKeeps, DecideKeeps, Zenon DEF SubmitStep
<1>5. CASE FailClosedStep(t) /\ UNCHANGED target
  BY <1>5, FailClosedKeeps, Zenon
<1>6. CASE DispatchStep(t) \/ Transport(t)
  BY <1>6, PresentKeeps, BeginKeeps, FinishKeeps, AfterTransportKeeps, Zenon DEF DispatchStep
<1> QED
  BY <1>1, <1>2, <1>3, <1>4, <1>5, <1>6, Zenon DEF Step, Proceed

\* Every step is some thread's.
LEMMA NextIsStep ==
  ASSUME [Next]_containmentVars
  PROVE  (\E t \in Threads : Step(t)) \/ UNCHANGED containmentVars
<1>1. Workers \subseteq Threads /\ Replayers \subseteq Threads
  BY GatewayAssumption, ExecutorAssumption, Zenon
<1> QED
  BY <1>1, Zenon DEF Next, Finished, Step

\* Every step is one thread's, within its guarantee, or changes nothing.
LEMMA EveryStep ==
  ASSUME ContainmentInv, [Next]_containmentVars
  PROVE  \/ \E t \in Threads : Guarantee(t) /\ Claim(t)'
         \/ UNCHANGED containmentVars
BY StepKeeps, NextIsStep, Zenon

\* A new run satisfies the invariant.
LEMMA InitContainmentInv == Init => ContainmentInv
<1> SUFFICES ASSUME Init
             PROVE  ContainmentInv
  BY Zenon
<1> USE DEF Init, InitSupervisor, InitState, InitGateway, InitExecutor, Ledger!Init
<1>1. TypesOK
  BY SMT DEF TypesOK, Phases
<1>2. LatchInv
  BY SMT DEF LatchInv, NoDispatchAfterLatchedTrigger, Malformed, Dispatches, Kinds, NoDecision
<1>3. CapabilityInv
  BY SMT DEF CapabilityInv, DispatchIsAuthorized, Dispatches, Kinds, NoDecision
<1>4. IsolationInv /\ ReceiptInv
  BY Zenon DEF IsolationInv, ReceiptInv
<1>5. ASSUME NEW t \in Threads
      PROVE  Claim(t)
  <2>1. /\ pc[t] \in {"idle", "replay", "watch", "complete", "report"}
        /\ pc[t] = "idle" => t \in Workers
    BY RolesAssumption, Zenon DEF FirstLabel
  <2> QED
    BY <2>1, Zenon DEF Claim, LatchedLabels, ReceiptLabels, SubmitLabels, DispatchLabels
<1> QED
  BY <1>1, <1>2, <1>3, <1>4, <1>5, Zenon DEF ContainmentInv, Shared

\* A stuttering step keeps it,
LEMMA StutterKeeps ==
  ASSUME ContainmentInv, UNCHANGED containmentVars
  PROVE  ContainmentInv'
<1> USE DEF containmentVars, supervisorVars, stateVars, latchVars, effectVars,
            evidenceVars, containVars, isolateVars, receiptVars, localVars, returnVars,
            gatewayVars
<1>1. TypesOK' /\ IsolationInv' /\ ReceiptInv'
  BY Zenon DEF ContainmentInv, Shared, TypesOK, IsolationInv, ReceiptInv
<1>2. LatchInv'
  BY SMTT(30) DEF ContainmentInv, Shared, LatchInv, NoDispatchAfterLatchedTrigger, Malformed,
         Dispatches, Kinds, LatchedTrigger, IsTrigger
<1>3. CapabilityInv'
  BY SMTT(30) DEF ContainmentInv, Shared, CapabilityInv, DispatchIsAuthorized, Dispatches, Kinds,
         Authorized, RequestAt
<1>4. \A t \in Threads : Claim(t)'
  BY SMT DEF ContainmentInv, Claim, Authorized, RequestAt
<1> QED
  BY <1>1, <1>2, <1>3, <1>4, Zenon DEF ContainmentInv, Shared

\* and so does every step of the system.
LEMMA NextContainmentInv == ContainmentInv /\ [Next]_containmentVars => ContainmentInv'
<1> SUFFICES ASSUME ContainmentInv, [Next]_containmentVars
             PROVE  ContainmentInv'
  BY Zenon
<1>1. ASSUME NEW t \in Threads, Guarantee(t), Claim(t)'
      PROVE  ContainmentInv'
  <2>1. Shared'
    BY <1>1, SharedKeeps, Zenon
  <2>2. \A u \in Threads : Claim(u)'
    BY <1>1, OthersKeep, Zenon
  <2> QED
    BY <2>1, <2>2, Zenon DEF ContainmentInv
<1> QED
  BY <1>1, EveryStep, StutterKeeps, Zenon

-----------------------------------------------------------------------------
\* The inductive invariant holds of every behaviour of the composed runtime.
THEOREM ContainmentInvariance == Spec => []ContainmentInv
<1> QED
  BY InitContainmentInv, NextContainmentInv, PTL DEF Spec

\* Nobody but a worker or a replayer comes to a label of theirs.
LEMMA RolesKeep ==
  ASSUME ContainmentInv, RoleInv, NEW t \in Threads, Step(t)
  PROVE  RoleInv'
<1>1. TypesOK /\ Guarantee(t)
  BY StepKeeps, Zenon DEF ContainmentInv, Shared
<1>2. \A u \in Threads \ {t} : pc'[u] = pc[u] /\ after'[u] = after[u]
  BY <1>1, Zenon DEF Guarantee, Jumps, LocalMoves
<1>3. ASSUME t \notin Workers \cup Replayers
      PROVE  /\ pc'[t] \in {"watch", "watch_latch", "watch_commit", "complete", "report",
                            "status", "seal", "freeze", "contain", "signal", "isolate", "mark",
                            "sign", "log", "unsign", "done"}
             /\ after'[t] \in {"done", "watch"}
  <2>1. /\ pc[t] \in {"watch", "watch_latch", "watch_commit", "complete", "report", "status",
                      "seal", "freeze", "contain", "signal", "isolate", "mark", "sign", "log",
                      "unsign", "done"}
        /\ after[t] \in {"done", "watch"}
    BY <1>3, Zenon DEF RoleInv
  <2>2. CASE WatchStep(t)
    BY <1>1, <2>1, <2>2, Zenon DEF WatchStep, Watch, WatchLatch, WatchCommit, Goto, TypesOK,
                            localVars, returnVars
  <2>3. CASE ReceiptStep(t)
    BY <1>1, <2>1, <2>3, Zenon DEF ReceiptStep, Complete, OpenReceipt, DeriveStatus, SealEvidence,
                            Freeze, Goto, TypesOK, localVars, returnVars
  <2>4. CASE ContainStep(t)
    BY <1>1, <2>1, <2>4, Zenon DEF ContainStep, Contain, SignalInflight, Isolate, MarkContained,
                            SignAck, LogAck, UnsignAck, LeaveContain, Goto, TypesOK,
                            localVars, returnVars
  <2>5. ~EmergencyStep(t)
    BY <2>1, Zenon DEF EmergencyStep, EmergencyLatch, EmergencyCut
  <2>6. ~SubmitStep(t)
    BY <2>1, Zenon DEF SubmitStep, LateLatch, LateCommit, Admit, OverloadCommit, MalformedCommit,
                MalformedLatch, RequestCommit, Decide, SignDecision, DecisionCommit, Record,
                KillCommit
  <2>7. ~FailClosedStep(t)
    BY <2>1, Zenon DEF FailClosedStep, FailClosed, FailLatch, FailCommit, FailLast
  <2>8. ~DispatchStep(t) /\ ~Transport(t)
    BY <2>1, Zenon DEF DispatchStep, Dispatch, Register, BeginRefused, Begin, FinishStale, Finish,
                AbortLease, CheckCancelled, Unregister, Transport, TransportRaises,
                TransportReturns
  <2> QED
    BY <1>3, <2>2, <2>3, <2>4, <2>5, <2>6, <2>7, <2>8, Zenon DEF Step, Proceed, SupervisorStep
<1> QED
  BY <1>2, <1>3, Zenon DEF RoleInv

LEMMA InitRoleInv == Init => RoleInv
<1> SUFFICES ASSUME Init, NEW t \in Threads \ (Workers \cup Replayers)
             PROVE  pc[t] \in {"watch", "complete", "report"} /\ after[t] = "done"
  BY Zenon DEF RoleInv
<1> QED
  BY RolesAssumption, Zenon DEF Init, InitSupervisor, FirstLabel

LEMMA StutterKeepsRoles ==
  ASSUME RoleInv, UNCHANGED containmentVars
  PROVE  RoleInv'
BY Zenon DEF RoleInv, containmentVars, supervisorVars, localVars, returnVars

\* Whoever is not a worker or a replayer stays with the supervisor
\* (supervisor.py:100-373).
THEOREM RolesInvariance == Spec => []RoleInv
<1>1. ContainmentInv /\ RoleInv /\ [Next]_containmentVars => RoleInv'
  BY RolesKeep, StutterKeepsRoles, NextIsStep, Zenon
<1> QED
  BY <1>1, InitRoleInv, ContainmentInvariance, PTL DEF Spec

\* No DISPATCH follows in the ledger a trigger whose kill fail_closed, a KILL
\* verdict, an overload or the deadline latched, however many threads race
\* (gateway.py:93-255, executor.py:103-196).
THEOREM NothingAfterLatchedTrigger == Spec => []NoDispatchAfterLatchedTrigger
<1>1. ContainmentInv => NoDispatchAfterLatchedTrigger
  BY Zenon DEF ContainmentInv, Shared, LatchInv
<1> QED
  BY <1>1, ContainmentInvariance, PTL

\* Every DISPATCH stands on a mirrored REQUEST and ALLOW decision of its own, and
\* no authorization has two, whoever presents it how often (executor.py:103-155).
THEOREM EveryDispatchAuthorized == Spec => []DispatchIsAuthorized
<1>1. ContainmentInv => DispatchIsAuthorized
  BY Zenon DEF ContainmentInv, Shared, CapabilityInv
<1> QED
  BY <1>1, ContainmentInvariance, PTL

\* The isolate callback runs at most once, and has run when the run is KILLED
\* (supervisor.py:209-279).
THEOREM WorkloadIsolatedOnce == Spec => []IsolatedOnce
<1>1. ContainmentInv => IsolatedOnce
  BY SMT DEF ContainmentInv, Shared, IsolationInv, IsolatedOnce
<1> QED
  BY <1>1, ContainmentInvariance, PTL

\* Once a receipt is frozen, neither it nor the evidence under it changes
\* (supervisor.py:305-373, evidence.py:79-110).
THEOREM ReceiptStaysFrozen == Spec => ReceiptIsFrozen
<1>1. ContainmentInv /\ [Next]_containmentVars =>
          [receipt # NoReceipt => UNCHANGED <<receipt, events, mirrored>>]_containmentVars
  <2> SUFFICES ASSUME ContainmentInv, [Next]_containmentVars, receipt # NoReceipt,
                      ~UNCHANGED containmentVars
               PROVE  UNCHANGED <<receipt, events, mirrored>>
    BY Zenon
  <2>1. PICK t \in Threads : Guarantee(t)
    BY EveryStep, Zenon
  <2>2. sealed
    BY Zenon DEF ContainmentInv, Shared, ReceiptInv
  <2> QED
    BY <2>1, <2>2, Zenon DEF Guarantee, ReceiptMoves, LedgerMoves, Adds
<1> QED
  BY <1>1, ContainmentInvariance, PTL DEF Spec, ReceiptIsFrozen

\* The root the witness signed (supervisor.py:99-152), and so the one in the receipt,
\* is the mirror's for good: the ledger is sealed before the root is taken
\* (supervisor.py:328-337).
THEOREM WitnessedRootIsTheMirrors == Spec => []WitnessedRootStands
<1>1. ContainmentInv => WitnessedRootStands
  BY Zenon DEF ContainmentInv, Shared, ReceiptInv, WitnessedRootStands
<1> QED
  BY <1>1, ContainmentInvariance, PTL

\* Read through its evidence, the composed runtime implements the abstract kill
\* switch: each capability has its effect at most once, only while the switch is
\* open, and the switch never opens again (state.py:107-240, executor.py:103-196).
THEOREM RuntimeIsKillSwitch == Spec => ImplementsKillSwitch
<1> DEFINE used == {events[i].auth : i \in Dispatches}
<1>1. Init => Switch!Init
  BY SMT DEF Init, InitSupervisor, InitState, Ledger!Init, Switch!Init, Dispatches, Kinds
<1>2. ContainmentInv /\ [Next]_containmentVars => [Switch!Next]_(Switch!switchVars)
  <2> SUFFICES ASSUME ContainmentInv, [Next]_containmentVars
               PROVE  Switch!Next \/ (phase' = phase /\ used' = used)
    BY Zenon DEF Switch!switchVars
  <2>1. CASE UNCHANGED containmentVars
    BY <2>1, Zenon
    DEF containmentVars, supervisorVars, stateVars, latchVars, evidenceVars, Dispatches, Kinds
  <2>2. ASSUME NEW t \in Threads, Guarantee(t)
        PROVE  Switch!Next \/ (phase' = phase /\ used' = used)
    <3>1. TypesOK /\ CapabilityInv /\ PhaseMoves
      BY <2>2, Zenon DEF ContainmentInv, Shared, Guarantee
    <3>2. CASE used' = used
      BY <3>1, <3>2, Zenon DEF PhaseMoves, Switch!Next, Switch!Latch, Switch!Kill, Switch!Complete
    <3>3. CASE UNCHANGED <<events, mirrored>>
      <4>1. used' = used
        BY <3>3, Zenon DEF Dispatches, Kinds
      <4> QED
        BY <3>2, <4>1, Zenon
    <3>4. ASSUME NEW e, Adds(e), Permitted(e)
          PROVE  Switch!Next \/ (phase' = phase /\ used' = used)
      <4>1. /\ Len(events) \in Nat /\ Len(events') = Len(events) + 1
            /\ events'[Len(events) + 1] = e
            /\ \A i \in 1..Len(events) : events'[i] = events[i]
        BY <3>1, <3>4, Appended, Zenon DEF Adds
      <4>2. CASE e.kind # "DISPATCH"
        <5>1. Dispatches' = Dispatches /\ \A i \in Dispatches : events'[i] = events[i]
          BY <4>1, <4>2, SMT DEF Dispatches, Kinds
        <5> QED
          BY <3>2, <5>1, Zenon
      <4>3. CASE e.kind = "DISPATCH"
        <5>1. /\ Dispatches' = Dispatches \cup {Len(events) + 1}
              /\ \A i \in Dispatches : events'[i] = events[i]
          BY <4>1, <4>3, SMT DEF Dispatches, Kinds
        <5>2. used' = used \cup {e.auth}
          BY <4>1, <5>1, Zenon
        <5>3. e.auth \notin used
          BY <3>1, <3>4, <4>3, Zenon DEF CapabilityInv, Permitted, MayDispatch
        <5>4. /\ phase = "RUNNING" /\ phase' \in {"RUNNING", "KILLING"}
              /\ e.auth \in Auths
          BY <3>4, <4>3, GatewayAssumption, Zenon DEF Permitted, MayDispatch
        <5>5. Switch!Use(e.auth)
          BY <5>2, <5>3, <5>4, Zenon DEF Switch!Use
        <5> QED
          BY <5>4, <5>5, Zenon DEF Switch!Next
      <4> QED
        BY <4>2, <4>3, Zenon
    <3> QED
      BY <2>2, <3>3, <3>4, Zenon DEF Guarantee, LedgerMoves
  <2> QED
    BY <2>1, <2>2, EveryStep, Zenon
<1> QED
  BY <1>1, <1>2, ContainmentInvariance, PTL DEF Spec, ImplementsKillSwitch, Switch!Spec

(***************************************************************************)
(* The adapter.                                                            *)
(***************************************************************************)

\* Where thread t comes to, and why it may claim there what it does: the run is
\* over, its capability is not registered, no request was submitted, or the request
\* is answered.
Advances(t) ==
    /\ pc'[t] \in DispatchLabels => t \in Workers
    /\ \/ phase' # "RUNNING" /\ pc'[t] \notin FreshLabels \cup NoRequestLabels
       \/ pc'[t] \in FreshLabels \ NoRequestLabels /\ (t \in Workers => t \notin registered')
       \/ pc'[t] \in {"begin", "transport", "finish", "abort", "check", "fail", "fail_latch",
                      "emergency", "malformed_latch", "watch", "watch_latch"}
       \/ /\ pc'[t] \in (NoRequestLabels \ FreshLabels) \cup {"unregister", "done"}
          /\ t \in Workers => input'[t] = "none"
       \/ pc'[t] \in {"unregister", "done"} /\ Answered(t)'

\* It may.
LEMMA AdvancesClaim ==
  ASSUME NEW t, Advances(t)
  PROVE  AnswerClaim(t)'
<1>1. Answered(t)' <=> \E i \in Kinds({"RESULT"})' : events'[i].auth = t
  BY Zenon DEF Answered
<1> QED
  BY <1>1, Zenon
  DEF Advances, AnswerClaim, ClosedLabels, LatchedLabels, FreshLabels, SubmitLabels,
      NoRequestLabels, ReceiptLabels

\* An answer in the ledger stays there (evidence.py:79-110).
LEMMA AnswerStays ==
  ASSUME TypesOK, LedgerMoves, NEW w, Answered(w)
  PROVE  Answered(w)'
<1>1. PICK i \in 1..Len(events) : events[i].kind = "RESULT" /\ events[i].auth = w
  BY Zenon DEF Answered, Kinds
<1>2. i \in 1..Len(events') /\ events'[i] = events[i]
  BY LedgerStays, SMT
<1> QED
  BY <1>1, <1>2, Zenon DEF Answered, Kinds

\* The supervisor's methods answer nobody and lose nobody's answer: they are called
\* by who has no request or when the run is over (supervisor.py:99-373).
LEMMA SupervisorAnswers ==
  ASSUME ContainmentInv, AnswerInv, NEW t \in Threads, SupervisorStep(t),
         UNCHANGED <<gatewayVars, target>>
  PROVE  AnswerMoves(t) /\ Advances(t)
<1>1. /\ TypesOK /\ Claim(t) /\ AnswerClaim(t)
      /\ after[t] \in {"done", "watch", "unregister"} /\ resume[t] \in {"done", "fail_last"}
  BY Zenon DEF ContainmentInv, Shared, TypesOK, AnswerInv
<1>2. phase # "RUNNING" => phase' # "RUNNING"
  BY StepKeeps, Zenon DEF Step, Proceed, Guarantee, PhaseMoves
<1>3. /\ target' = target /\ input' = input /\ DOMAIN input' = Workers
      /\ registered' = registered
  BY Zenon DEF AnswerInv, gatewayVars, SupervisorStep, ContainStep, Contain, SignalInflight,
         Isolate, MarkContained, SignAck, LogAck, UnsignAck, EmergencyStep, EmergencyLatch,
         EmergencyCut, WatchStep, Watch, WatchLatch, WatchCommit, ReceiptStep, Complete,
         OpenReceipt, DeriveStatus, SealEvidence, Freeze, registryVars
<1>4. CASE ContainStep(t)
  <2>1. pc[t] \in {"contain", "signal", "isolate", "mark", "sign", "log", "unsign"}
    BY <1>4, Zenon DEF ContainStep, Contain, SignalInflight, Isolate, MarkContained, SignAck,
                LogAck, UnsignAck
  <2>2. phase' # "RUNNING"
    BY <1>1, <1>2, <2>1, Zenon DEF AnswerClaim, ClosedLabels, LatchedLabels
  <2>3. pc'[t] \in {"signal", "isolate", "mark", "sign", "log", "unsign", "done", "watch",
                    "unregister"}
    BY <1>1, <1>4, Zenon DEF ContainStep, Contain, SignalInflight, Isolate, MarkContained, SignAck,
                LogAck, UnsignAck, LeaveContain, Goto, TypesOK
  <2> QED
    BY <1>3, <2>2, <2>3, Zenon
    DEF AnswerMoves, Advances, FreshLabels, SubmitLabels, NoRequestLabels, ReceiptLabels,
        DispatchLabels
<1>5. CASE EmergencyStep(t)
  <2>1. phase' # "RUNNING" /\ cancelled' = cancelled
    BY <1>1, <1>2, <1>5, LatchMoves, Zenon
    DEF EmergencyStep, EmergencyLatch, EmergencyCut, AnswerClaim, ClosedLabels, registryVars
  <2>2. pc'[t] \in {"cut", "done", "fail_last"}
    BY <1>1, <1>5, Zenon DEF EmergencyStep, EmergencyLatch, EmergencyCut, Goto, TypesOK
  <2> QED
    BY <1>3, <2>1, <2>2, Zenon
    DEF AnswerMoves, Advances, FreshLabels, SubmitLabels, NoRequestLabels, ReceiptLabels,
        DispatchLabels
<1>6. CASE WatchStep(t)
  <2>1. cancelled' = cancelled
    BY <1>6, Zenon DEF WatchStep, Watch, WatchLatch, WatchCommit, registryVars
  <2>2. \/ pc'[t] \in {"watch", "watch_latch"}
        \/ pc'[t] \in {"watch_commit", "contain"} /\ phase' # "RUNNING"
    <3>1. CASE Watch(t)
      BY <1>1, <3>1, Zenon DEF Watch, Goto, TypesOK
    <3>2. CASE WatchLatch(t)
      BY <1>1, <3>2, LatchMoves, Zenon DEF WatchLatch, Goto, TypesOK
    <3>3. CASE WatchCommit(t)
      BY <1>1, <1>2, <3>3, Zenon DEF WatchCommit, Goto, TypesOK, Claim, LatchedLabels
    <3> QED
      BY <1>6, <3>1, <3>2, <3>3, Zenon DEF WatchStep
  <2> QED
    BY <1>3, <2>1, <2>2, Zenon
    DEF AnswerMoves, Advances, FreshLabels, SubmitLabels, NoRequestLabels, ReceiptLabels,
        DispatchLabels
<1>7. CASE ReceiptStep(t)
  <2>1. cancelled' = cancelled /\ pc[t] \in NoRequestLabels
    BY <1>7, Zenon DEF ReceiptStep, Complete, OpenReceipt, DeriveStatus, SealEvidence, Freeze,
                registryVars, NoRequestLabels, ReceiptLabels
  <2>2. pc'[t] \in {"report", "status", "seal", "freeze", "done"}
    BY <1>1, <1>7, Zenon DEF ReceiptStep, Complete, OpenReceipt, DeriveStatus, SealEvidence,
                Freeze, Goto, TypesOK
  <2>3. t \in Workers => input'[t] = "none"
    BY <1>1, <1>3, <2>1, Zenon DEF AnswerClaim
  <2> QED
    BY <1>3, <2>1, <2>2, <2>3, Zenon
    DEF AnswerMoves, Advances, FreshLabels, SubmitLabels, NoRequestLabels, ReceiptLabels,
        DispatchLabels
<1> QED
  BY <1>4, <1>5, <1>6, <1>7, Zenon DEF SupervisorStep

\* Neither does the gateway: a request that submit_raw does not pass on has latched
\* the kill (gateway.py:93-255).
LEMMA GatewayAnswers ==
  ASSUME ContainmentInv, AnswerInv, NEW t \in Threads, UNCHANGED target,
         (t \in Workers /\ Arrive(t)) \/ SubmitStep(t) \/ FailClosedStep(t)
  PROVE  AnswerMoves(t) /\ Advances(t)
<1>1. /\ TypesOK /\ Claim(t) /\ AnswerClaim(t)
      /\ after[t] \in {"done", "watch", "unregister"} /\ DOMAIN input = Workers
  BY Zenon DEF ContainmentInv, Shared, TypesOK, AnswerInv
<1>2. phase # "RUNNING" => phase' # "RUNNING"
  BY StepKeeps, Zenon DEF Step, Proceed, Guarantee, PhaseMoves
<1>3. registered' = registered /\ cancelled' = cancelled
  BY Zenon DEF Arrive, SubmitStep, LateLatch, LateCommit, Admit, OverloadCommit, MalformedCommit,
         MalformedLatch, RequestCommit, Decide, SignDecision, DecisionCommit, Record, KillCommit,
         FailClosedStep, FailClosed, FailLatch, FailCommit, FailLast, registryVars
<1>4. CASE t \in Workers /\ Arrive(t)
  <2>1. DOMAIN input' = Workers /\ \A w \in Workers \ {t} : input'[w] = input[w]
    BY <1>1, <1>4, Zenon DEF Arrive
  <2>2. pc'[t] \in {"fail_latch", "late_latch", "admit"} /\ t \notin registered
    BY <1>1, <1>4, Zenon DEF Arrive, Goto, TypesOK, AnswerClaim, FreshLabels, SubmitLabels
  <2> QED
    BY <1>3, <2>1, <2>2, Zenon
    DEF AnswerMoves, Advances, FreshLabels, SubmitLabels, NoRequestLabels, ReceiptLabels,
        DispatchLabels
<1>5. CASE SubmitStep(t) \/ FailClosedStep(t)
  <2>1. input' = input
    BY <1>5, Zenon DEF SubmitStep, LateLatch, LateCommit, Admit, OverloadCommit, MalformedCommit,
                MalformedLatch, RequestCommit, Decide, SignDecision, DecisionCommit, Record,
                KillCommit, FailClosedStep, FailClosed, FailLatch, FailCommit, FailLast, gatewayVars
  <2>2. AnswerMoves(t)
    BY <1>1, <1>3, <2>1, Zenon DEF AnswerMoves
  <2>3. CASE pc[t] \in ClosedLabels
    <3>1. phase' # "RUNNING"
      BY <1>1, <1>2, <2>3, Zenon DEF AnswerClaim
    <3>2. pc'[t] \in {"contain", "emergency", "done", "watch", "unregister"}
      BY <1>1, <1>5, <2>3, Zenon
      DEF SubmitStep, LateLatch, LateCommit, Admit, OverloadCommit, MalformedCommit,
          MalformedLatch, RequestCommit, Decide, SignDecision, DecisionCommit, Record,
          KillCommit, FailClosedStep, FailClosed, FailLatch, FailCommit, FailLast,
          GatewayCommit, Goto, TypesOK, ClosedLabels, LatchedLabels
    <3> QED
      BY <2>2, <3>1, <3>2, Zenon
      DEF Advances, FreshLabels, SubmitLabels, NoRequestLabels, ReceiptLabels,
          DispatchLabels
  <2>4. CASE LateLatch(t) \/ MalformedLatch(t) \/ FailLatch(t)
    <3>1. phase' # "RUNNING" /\ pc'[t] \in {"late_commit", "contain", "fail_commit"}
      BY <1>1, <2>4, LatchMoves, Zenon DEF LateLatch, MalformedLatch, FailLatch, Goto, TypesOK
    <3> QED
      BY <2>2, <3>1, Zenon DEF Advances, FreshLabels, SubmitLabels, NoRequestLabels, ReceiptLabels,
                               DispatchLabels
  <2>5. CASE FailClosed(t)
    BY <1>1, <2>2, <2>5, Zenon DEF FailClosed, Goto, TypesOK, Advances, DispatchLabels
  <2>6. CASE Admit(t)
    <3>1. \/ pc'[t] \in {"done", "overload_commit"} /\ phase' # "RUNNING"
          \/ pc'[t] \in {"malformed_commit", "request_commit"}
      BY <1>1, <2>6, Zenon DEF Admit, AdmitDropped, AdmitOverload, Latch, latchVars, Goto, TypesOK
    <3>2. t \in Workers => t \notin registered
      BY <1>1, <2>6, Zenon DEF Admit, AnswerClaim, FreshLabels, SubmitLabels
    <3> QED
      BY <1>3, <2>2, <3>1, <3>2, Zenon
      DEF Advances, FreshLabels, SubmitLabels, NoRequestLabels, ReceiptLabels,
          DispatchLabels
  <2>7. CASE MalformedCommit(t) \/ RequestCommit(t) \/ Decide(t) \/ SignDecision(t)
             \/ DecisionCommit(t) \/ Record(t)
    <3>1. t \in Workers /\ t \notin registered
      BY <1>1, <2>7, Zenon DEF Claim, MalformedCommit, RequestCommit, Decide, SignDecision,
                        DecisionCommit, Record, AnswerClaim, FreshLabels, SubmitLabels
    <3>2. \/ pc'[t] \in {"malformed_latch", "emergency", "decide", "sign_decision",
                         "decision_commit", "record", "dispatch"}
          \/ pc'[t] = "kill_commit" /\ phase' # "RUNNING"
      <4>1. CASE Record(t)
        <5>1. t \in Workers
          BY <1>1, <4>1, Zenon DEF Record, Claim, SubmitLabels
        <5>2. decision[t].verdict = "KILL" => phase' # "RUNNING"
          BY <1>2, <5>1, Zenon DEF ContainmentInv, Shared, LatchInv
        <5> QED
          BY <1>1, <4>1, <5>2, Zenon DEF Record, Goto, TypesOK
      <4> QED
        BY <1>1, <2>7, <4>1, Zenon DEF MalformedCommit, RequestCommit, Decide, SignDecision,
                            DecisionCommit, GatewayCommit, Goto, TypesOK
    <3> QED
      BY <1>3, <2>2, <3>1, <3>2, Zenon
      DEF Advances, FreshLabels, SubmitLabels, NoRequestLabels, ReceiptLabels,
          DispatchLabels
  <2>8. CASE LateCommit(t) \/ OverloadCommit(t) \/ KillCommit(t) \/ FailCommit(t) \/ FailLast(t)
    BY <2>3, <2>8, Zenon
    DEF LateCommit, OverloadCommit, KillCommit, FailCommit, FailLast, ClosedLabels, LatchedLabels
  <2> QED
    BY <1>5, <2>4, <2>5, <2>6, <2>7, <2>8, Zenon DEF SubmitStep, FailClosedStep
<1> QED
  BY <1>4, <1>5, Zenon

\* Only the executor's dispatch answers.  Its capability is registered once, so
\* register does not raise, and cancelled only by a kill (executor.py:34-52, 103-196).
LEMMA ExecutorAnswers ==
  ASSUME ContainmentInv, AnswerInv, NEW t \in Threads, DispatchStep(t) \/ Transport(t)
  PROVE  AnswerMoves(t) /\ Advances(t)
<1> DEFINE Rest == {"begin", "transport", "finish", "abort", "check", "fail"}
<1>1. /\ TypesOK /\ Claim(t) /\ AnswerClaim(t) /\ DOMAIN input = Workers
      /\ (\A w \in Workers : target[w] = w) /\ (cancelled # {} => phase # "RUNNING")
  BY Zenon DEF ContainmentInv, Shared, AnswerInv
<1>2. LedgerMoves /\ (phase # "RUNNING" => phase' # "RUNNING")
  BY StepKeeps, Zenon DEF Step, Proceed, Guarantee, PhaseMoves
<1>3. target' = target /\ input' = input
  BY Zenon DEF DispatchStep, Dispatch, Register, BeginRefused, Begin, FinishStale, Finish,
         AbortLease, CheckCancelled, Unregister, Transport, TransportRaises, TransportReturns,
         gatewayVars
<1>4. CASE pc[t] \in DispatchLabels
  <2>1. t \in Workers /\ target[t] = t
    BY <1>1, <1>4, Zenon DEF AnswerClaim
  <2>2. CASE Dispatch(t)
    <3>1. /\ pc'[t] = "register" /\ t \notin registered
          /\ registered' = registered /\ cancelled' = cancelled
      BY <1>1, <2>1, <2>2, Zenon DEF Dispatch, Goto, TypesOK, AnswerClaim, FreshLabels, registryVars
    <3> QED
      BY <1>1, <1>3, <2>1, <3>1, Zenon
      DEF AnswerMoves, Advances, FreshLabels, SubmitLabels, NoRequestLabels, ReceiptLabels,
          DispatchLabels
  <2>3. CASE Register(t)
    <3>1. t \notin registered
      BY <1>1, <2>1, <2>3, Zenon DEF Register, AnswerClaim, FreshLabels
    <3>2. pc'[t] = "begin" /\ registered' = registered \cup {t} /\ cancelled' = cancelled \ {t}
      BY <1>1, <2>1, <2>3, <3>1, Zenon DEF Register, Goto, TypesOK
    <3> QED
      BY <1>1, <1>3, <2>1, <3>2, Zenon DEF AnswerMoves, Advances
  <2>4. CASE Finish(t)
    <3>1. registered' = registered /\ cancelled' = cancelled
      BY <2>4, Zenon DEF Finish, registryVars
    <3>2. CASE pc'[t] = "abort"
      BY <1>1, <1>3, <2>1, <3>1, <3>2, Zenon DEF AnswerMoves, Advances
    <3>3. CASE pc'[t] # "abort"
      <4>1. PICK ns : CommitOk([kind |-> "RESULT", req |-> RequestOf[t], auth |-> t, ns |-> ns])
        BY <1>1, <2>1, <2>4, <3>3, Zenon DEF Finish, Goto, TypesOK
      <4> DEFINE e == [kind |-> "RESULT", req |-> RequestOf[t], auth |-> t, ns |-> ns]
      <4>2. events' = Append(events, e) /\ e.kind = "RESULT" /\ e.auth = t
        BY <4>1, Zenon DEF CommitOk, Ledger!CommitMirrored
      <4> HIDE DEF e
      <4>3. Len(events) + 1 \in 1..Len(events') /\ events'[Len(events) + 1] = e
        BY <1>1, <4>2, Appended, SMT
      <4>4. Answered(t)'
        BY <4>2, <4>3, Zenon DEF Answered, Kinds
      <4>5. pc'[t] = "unregister"
        BY <1>1, <2>4, <3>3, Zenon DEF Finish, Goto, TypesOK
      <4> QED
        BY <1>1, <1>3, <2>1, <3>1, <4>4, <4>5, Zenon DEF AnswerMoves, Advances
    <3> QED
      BY <3>2, <3>3, Zenon
  <2>5. CASE CheckCancelled(t)
    <3>1. registered' = registered /\ cancelled' = cancelled
      BY <2>5, Zenon DEF CheckCancelled, registryVars
    <3>2. pc'[t] = "fail" \/ (pc'[t] = "unregister" /\ phase' # "RUNNING")
      BY <1>1, <1>2, <2>5, Zenon DEF CheckCancelled, Goto, TypesOK
    <3> QED
      BY <1>1, <1>3, <2>1, <3>1, <3>2, Zenon
      DEF AnswerMoves, Advances, FreshLabels, SubmitLabels, NoRequestLabels, ReceiptLabels,
          DispatchLabels
  <2>6. CASE BeginRefused(t) \/ Begin(t) \/ FinishStale(t) \/ AbortLease(t) \/ Transport(t)
    <3>1. registered' = registered /\ cancelled' = cancelled /\ pc'[t] \in Rest
      BY <1>1, <2>6, Zenon DEF BeginRefused, Begin, FinishStale, AbortLease, Transport,
                        TransportRaises, TransportReturns, registryVars, Goto, TypesOK
    <3> QED
      BY <1>1, <1>3, <2>1, <3>1, Zenon DEF AnswerMoves, Advances
  <2>7. ~Unregister(t)
    BY <1>4, Zenon DEF Unregister, DispatchLabels
  <2> QED
    BY <2>2, <2>3, <2>4, <2>5, <2>6, <2>7, Zenon DEF DispatchStep
<1>5. CASE Unregister(t)
  <2>1. /\ pc'[t] = "done" /\ registered' \subseteq registered /\ cancelled' \subseteq cancelled
        /\ pc[t] = "unregister"
    BY <1>1, <1>5, Zenon DEF Unregister, Goto, TypesOK
  <2>2. t \in Workers => input[t] = "none" \/ phase # "RUNNING" \/ Answered(t)
    BY <1>1, <2>1, Zenon DEF AnswerClaim
  <2>3. Answered(t) => Answered(t)'
    BY <1>1, <1>2, AnswerStays, Zenon
  <2> QED
    BY <1>1, <1>2, <1>3, <2>1, <2>2, <2>3, Zenon
    DEF AnswerMoves, Advances, FreshLabels, SubmitLabels, NoRequestLabels, ReceiptLabels,
        DispatchLabels
<1> QED
  BY <1>4, <1>5, Zenon
  DEF DispatchStep, Dispatch, Register, BeginRefused, Begin, FinishStale, Finish, AbortLease,
      CheckCancelled, Transport, TransportRaises, TransportReturns, DispatchLabels

\* Every step but that of a replayer keeps the claims about answers
\* (executor.py:103-196).
LEMMA AnswerKeeps ==
  ASSUME ContainmentInv, AnswerInv, NEW t \in Threads, OwnStep(t)
  PROVE  AnswerInv'
<1>1. TypesOK /\ LedgerMoves /\ PhaseMoves /\ Jumps(t)
  BY StepKeeps, Zenon DEF ContainmentInv, Shared, Guarantee, Step, OwnStep
<1>2. AnswerMoves(t) /\ Advances(t)
  BY SupervisorAnswers, GatewayAnswers, ExecutorAnswers, Zenon DEF OwnStep, Proceed
<1>3. AnswerClaim(t)'
  BY <1>2, AdvancesClaim, Zenon
<1>4. ASSUME NEW u \in Threads \ {t}
      PROVE  AnswerClaim(u)'
  <2>1. AnswerClaim(u) /\ pc'[u] = pc[u] /\ (phase # "RUNNING" => phase' # "RUNNING")
    BY <1>1, Zenon DEF AnswerInv, Jumps, PhaseMoves
  <2>2. Answered(u) => Answered(u)'
    BY <1>1, AnswerStays, Zenon
  <2> QED
    BY <1>2, <2>1, <2>2, Zenon DEF AnswerClaim, AnswerMoves
<1> QED
  BY <1>1, <1>2, <1>3, <1>4, Zenon DEF AnswerInv, AnswerMoves, PhaseMoves

\* A worker that leaves before its request is submitted disturbs nothing
\* (main.py:56-103).
LEMMA LeavingKeeps ==
  ASSUME ContainmentInv, NEW w \in Workers, Leaves(w)
  PROVE  /\ Guarantee(w) /\ ContainmentInv'
         /\ (AnswerInv => AnswerInv') /\ (MalformedInv => MalformedInv')
<1>1. w \in Threads /\ TypesOK
  BY GatewayAssumption, Zenon DEF ContainmentInv, Shared
<1>2. Jumps(w) /\ pc'[w] = "done"
  BY <1>1, Zenon DEF Leaves, Goto, Jumps, TypesOK
<1>3. Guarantee(w) /\ Claim(w)'
  <2>1. PhaseMoves /\ consumed' = consumed /\ LocalMoves(w)
    BY <1>1, StateStays, LocalsStay, Zenon DEF Leaves
  <2>2. Guarantee(w)
    BY <1>2, <2>1, PrivateStep, Zenon DEF Leaves
  <2>3. pc'[w] \in PlainLabels
    BY <1>2, Zenon DEF PlainLabels
  <2> QED
    BY <2>2, <2>3, PlainClaim, Zenon
<1>4. ContainmentInv'
  BY <1>1, <1>3, SharedKeeps, OthersKeep, Zenon DEF ContainmentInv
<1>5. /\ phase' = phase /\ events' = events /\ target' = target /\ input' = input
      /\ registered' = registered /\ cancelled' = cancelled
  BY Zenon DEF Leaves, stateVars, latchVars, evidenceVars, registryVars, gatewayVars
<1>6. ASSUME AnswerInv PROVE AnswerInv'
  <2>1. ASSUME NEW t \in Threads PROVE AnswerClaim(t)'
    <3>1. AnswerClaim(t) /\ (Answered(t) => Answered(t)')
      BY <1>1, <1>3, <1>6, AnswerStays, Zenon DEF AnswerInv, Guarantee
    <3>2. CASE t = w
      <4>1. input'[w] = "none"
        BY <1>5, <3>1, <3>2, Zenon DEF Leaves, AnswerClaim, NoRequestLabels
      <4> QED
        BY <1>2, <3>2, <4>1, AdvancesClaim, Zenon DEF Advances, DispatchLabels
    <3>3. CASE t # w
      <4>1. pc'[t] = pc[t]
        BY <1>2, <3>3, Zenon DEF Jumps
      <4> QED
        BY <1>5, <3>1, <4>1, Zenon DEF AnswerClaim
    <3> QED
      BY <3>2, <3>3, Zenon
  <2> QED
    BY <1>5, <1>6, <2>1, Zenon DEF AnswerInv
<1>7. ASSUME MalformedInv PROVE MalformedInv'
  <2>1. Malformed' = Malformed /\ NoDispatchAfterTrigger'
    BY <1>5, <1>7, SMT DEF MalformedInv, Malformed, NoDispatchAfterTrigger, Dispatches, Kinds,
                    IsTrigger
  <2>2. \A v \in Workers : pc[v] \in {"malformed_latch", "emergency"} => pc'[v] = pc[v]
    BY <1>2, GatewayAssumption, Zenon DEF Leaves, Jumps
  <2> QED
    BY <1>5, <1>7, <2>1, <2>2, Zenon DEF MalformedInv
<1> QED
  BY <1>3, <1>4, <1>6, <1>7, Zenon

\* A commit adds its event or nothing (evidence.py:79-110).
LEMMA CommitAdds ==
  ASSUME NEW e, CommitOk(e) \/ CommitRaises(e)
  PROVE  events' = events \/ events' = Append(events, e)
BY Zenon DEF CommitOk, CommitRaises, Ledger!CommitMirrored, Ledger!CommitUnmirrored, evidenceVars

\* Only begin_authorized logs a DISPATCH, and only submit_raw a request that is
\* malformed (gateway.py:93-255, executor.py:103-196).
LEMMA StepLogs ==
  ASSUME ContainmentInv, NEW t \in Threads, Step(t)
  PROVE  EntryMoves(t)
<1> DEFINE Plain(e) ==
               e.kind # "DISPATCH" /\ ~(e.kind = "VIOLATION" /\ e.reason = "malformed")
<1>1. TypesOK /\ Claim(t)
  BY Zenon DEF ContainmentInv, Shared
<1>2. ASSUME NEW e, CommitOk(e) \/ CommitRaises(e), Plain(e)
      PROVE  EntryMoves(t)
  BY <1>2, CommitAdds, Zenon DEF EntryMoves
<1>3. ASSUME NEW n, NEW reason \in {"runtime", "policy", "failure"}
      PROVE  Plain(Violation(reason, n))
  BY <1>3, Zenon DEF Violation
<1>4. CASE events' = events
  BY <1>4, Zenon DEF EntryMoves
<1>5. CASE LogAck(t)
  BY <1>2, <1>5, Zenon DEF LogAck
<1>6. CASE WatchCommit(t)
  BY <1>2, <1>3, <1>6, Zenon DEF WatchCommit
<1>7. CASE LateCommit(t) \/ FailCommit(t) \/ KillCommit(t)
  BY <1>2, <1>3, <1>7, Zenon DEF LateCommit, FailCommit, KillCommit, GatewayCommit
<1>8. CASE OverloadCommit(t) \/ RequestCommit(t) \/ DecisionCommit(t)
  BY <1>2, <1>8, Zenon DEF OverloadCommit, RequestCommit, DecisionCommit, GatewayCommit
<1>9. CASE MalformedCommit(t)
  <2>1. t \in Workers /\ pc'[t] \in {"malformed_latch", "emergency"}
    BY <1>1, <1>9, Zenon DEF MalformedCommit, GatewayCommit, Goto, TypesOK, Claim, SubmitLabels
  <2>2. PICK e : e = Violation("malformed", stamp[t])
    BY Zenon
  <2>3. events' = events \/ events' = Append(events, e)
    BY <1>9, <2>2, CommitAdds, Zenon DEF MalformedCommit, GatewayCommit
  <2>4. e.kind # "DISPATCH"
    BY <2>2, Zenon DEF Violation
  <2> QED
    BY <2>1, <2>3, <2>4, Zenon DEF EntryMoves
<1>10. CASE Begin(t)
  <2> DEFINE Entry(ns) == [kind |-> "DISPATCH", req |-> RequestOf[target[t]],
                           auth |-> target[t], ns |-> ns]
  <2>1. PICK ns : CommitOk(Entry(ns)) \/ CommitRaises(Entry(ns))
    BY <1>10, Zenon DEF Begin
  <2>2. Entry(ns).kind = "DISPATCH"
    BY Zenon
  <2> HIDE DEF Entry
  <2> QED
    BY <1>10, <2>1, <2>2, CommitAdds, Zenon DEF EntryMoves, Begin
<1>11. CASE Finish(t)
  <2> DEFINE Entry(ns) == [kind |-> "RESULT", req |-> RequestOf[target[t]],
                           auth |-> target[t], ns |-> ns]
  <2>1. PICK ns : CommitOk(Entry(ns)) \/ CommitRaises(Entry(ns))
    BY <1>11, Zenon DEF Finish
  <2>2. Entry(ns).kind = "RESULT"
    BY Zenon
  <2> HIDE DEF Entry
  <2> QED
    BY <1>2, <2>1, <2>2, Zenon
<1>12. CASE SupervisorStep(t)
  BY <1>4, <1>5, <1>6, <1>12, Zenon
  DEF SupervisorStep, ContainStep, Contain, SignalInflight, Isolate, MarkContained, SignAck,
      UnsignAck, EmergencyStep, EmergencyLatch, EmergencyCut, WatchStep, Watch, WatchLatch,
      ReceiptStep, Complete, OpenReceipt, DeriveStatus, SealEvidence, Freeze, Ledger!Seal,
      evidenceVars
<1>13. CASE Arrive(t) \/ SubmitStep(t) \/ FailClosedStep(t)
  BY <1>4, <1>7, <1>8, <1>9, <1>13, Zenon
  DEF Arrive, SubmitStep, LateLatch, Admit, MalformedLatch, Decide, SignDecision, Record,
      FailClosedStep, FailClosed, FailLatch, FailLast, evidenceVars
<1>14. CASE Replay(t) \/ DispatchStep(t) \/ Transport(t)
  BY <1>4, <1>10, <1>11, <1>14, Zenon
  DEF Replay, DispatchStep, Dispatch, Register, BeginRefused, FinishStale, AbortLease,
      CheckCancelled, Unregister, Transport, TransportRaises, TransportReturns, evidenceVars
<1> QED
  BY <1>12, <1>13, <1>14, Zenon DEF Step, Proceed

\* Where workers take turns, no dispatch gets in between a malformed request and
\* its kill (gateway.py:131-148, main.py:56-103).
LEMMA MalformedKeeps ==
  ASSUME ContainmentInv, AnswerInv, MalformedInv, NEW t \in Threads, Step(t),
         t \in Workers => \A w \in Workers \ {t} : pc[w] \notin {"malformed_latch", "emergency"}
  PROVE  MalformedInv'
<1> DEFINE Bad(e) == e.kind = "VIOLATION" /\ e.reason = "malformed"
           Latching(w) == pc[w] \in {"malformed_latch", "emergency"}
<1>1. TypesOK /\ LatchInv /\ AnswerClaim(t) /\ LedgerMoves /\ PhaseMoves /\ Jumps(t)
  BY StepKeeps, Zenon DEF ContainmentInv, Shared, AnswerInv, Guarantee
<1>2. phase # "RUNNING" => phase' # "RUNNING"
  BY <1>1, Zenon DEF PhaseMoves
<1>3. Latching(t) => phase' # "RUNNING"
  BY LatchMoves, Zenon
  DEF Step, Arrive, Replay, Proceed, SupervisorStep, ContainStep, Contain, SignalInflight, Isolate,
      MarkContained, SignAck, LogAck, UnsignAck, EmergencyStep, EmergencyLatch, EmergencyCut,
      WatchStep, Watch, WatchLatch, WatchCommit, ReceiptStep, Complete, OpenReceipt, DeriveStatus,
      SealEvidence, Freeze, SubmitStep, LateLatch, LateCommit, Admit, OverloadCommit,
      MalformedCommit, MalformedLatch, RequestCommit, Decide, SignDecision, DecisionCommit, Record,
      KillCommit, FailClosedStep, FailClosed, FailLatch, FailCommit, FailLast, DispatchStep,
      Dispatch, Register, BeginRefused, Begin, FinishStale, Finish, AbortLease, CheckCancelled,
      Unregister, Transport, TransportRaises, TransportReturns
<1>4. Malformed # {} =>
          phase' # "RUNNING" \/ \E w \in Workers : pc'[w] \in {"malformed_latch", "emergency"}
  <2>1. \A w \in Workers \ {t} : pc'[w] = pc[w]
    BY <1>1, GatewayAssumption, Zenon DEF Jumps
  <2> QED
    BY <1>2, <1>3, <2>1, Zenon DEF MalformedInv
<1>5. CASE events' = events
  <2>1. Malformed' = Malformed /\ NoDispatchAfterTrigger'
    BY <1>5, SMT DEF MalformedInv, Malformed, NoDispatchAfterTrigger, Dispatches, Kinds, IsTrigger
  <2> QED
    BY <1>4, <2>1, Zenon DEF MalformedInv
<1>6. ASSUME NEW e, events' = Append(events, e), e.kind = "DISPATCH" => pc[t] = "begin",
             Bad(e) => t \in Workers /\ pc'[t] \in {"malformed_latch", "emergency"}
      PROVE  MalformedInv'
  <2>1. /\ Len(events) \in Nat /\ Len(events') = Len(events) + 1
        /\ events'[Len(events) + 1] = e
        /\ \A i \in 1..Len(events) : events'[i] = events[i]
    BY <1>1, <1>6, Appended, Zenon
  <2>2. \A i \in 1..Len(events') : i \in 1..Len(events) \/ i = Len(events) + 1
    BY <2>1, SMT
  <2>3. Malformed' # {} => Malformed # {} \/ Bad(e)
    BY <2>1, <2>2, Zenon DEF Malformed, Kinds
  <2>4. e.kind = "DISPATCH" => phase = "RUNNING" /\ Malformed = {}
    <3> SUFFICES ASSUME e.kind = "DISPATCH" PROVE phase = "RUNNING" /\ Malformed = {}
      BY Zenon
    <3>1. PICK d : events' = Append(events, d) /\ Permitted(d)
      <4>1. events' # events
        BY <2>1, SMT
      <4> QED
        BY <1>1, <4>1, Zenon DEF LedgerMoves, Adds
    <3>2. d = e
      BY <1>1, <2>1, <3>1, Appended, Zenon
    <3>3. phase = "RUNNING"
      BY <3>1, <3>2, Zenon DEF Permitted, MayDispatch
    <3>4. t \in Workers /\ pc[t] = "begin"
      BY <1>1, <1>6, Zenon DEF AnswerClaim, DispatchLabels
    <3>5. \A w \in Workers : ~Latching(w)
      BY <3>4, Zenon
    <3> QED
      BY <3>3, <3>5, Zenon DEF MalformedInv
  <2>5. ASSUME NEW i \in 1..Len(events'), NEW j \in 1..Len(events'),
               IsTrigger(events'[i]), events'[j].kind = "DISPATCH"
        PROVE  j < i
    <3>1. CASE i \in 1..Len(events) /\ j \in 1..Len(events)
      BY <2>1, <2>5, <3>1, Zenon DEF MalformedInv, NoDispatchAfterTrigger, Dispatches, Kinds
    <3>2. CASE j = Len(events) + 1
      <4>1. e.kind = "DISPATCH"
        BY <2>1, <2>5, <3>2, Zenon
      <4>2. phase = "RUNNING" /\ Malformed = {} /\ ~IsTrigger(e)
        BY <2>4, <4>1, Zenon DEF IsTrigger
      <4>3. i \in 1..Len(events) /\ IsTrigger(events[i])
        BY <2>1, <2>2, <2>5, <4>2, Zenon
      <4> QED
        BY <1>1, <4>2, <4>3, Zenon DEF LatchInv, LatchedTrigger, Malformed, Kinds
    <3>3. CASE i = Len(events) + 1 /\ j \in 1..Len(events)
      BY <2>1, <3>3, SMT
    <3> QED
      BY <2>2, <3>1, <3>2, <3>3, Zenon
  <2>6. NoDispatchAfterTrigger'
    BY <2>5, Zenon DEF NoDispatchAfterTrigger, Dispatches, Kinds, IsTrigger
  <2> QED
    BY <1>4, <1>6, <2>3, <2>6, Zenon DEF MalformedInv
<1> QED
  BY <1>5, <1>6, StepLogs, Zenon DEF EntryMoves

-----------------------------------------------------------------------------
\* A worker that has left the label it started at and is not done has the event loop.
LoopInv ==
    \A w \in Workers :
        pc[w] \notin {"idle", "replay", "watch", "complete", "report", "done"} => loop = w

\* Between two steps of the event loop.
AdapterInv == ContainmentInv /\ AnswerInv /\ MalformedInv /\ LoopInv

\* Whose the event loop is when thread t takes a step, and after it.
Turns(t) ==
    \/ t \notin Workers /\ loop' = loop
    \/ t \in Workers /\ loop = Free /\ loop' = t
    \/ t \in Workers /\ loop = t /\ (loop' = t \/ (loop' = Free /\ pc'[t] = "done"))

\* Every step of the adapter is a step of one thread of the runtime, in its turn; or
\* a client goes away; or the runtime does not move (main.py:56-103).
LEMMA AdapterSteps ==
  ASSUME [AdapterNext]_<<containmentVars, adapterVars>>
  PROVE  \/ UNCHANGED <<containmentVars, loop>>
         \/ \E w \in Workers : Leaves(w) /\ loop' = loop
         \/ \E t \in Threads : OwnStep(t) /\ Turns(t)
<1>1. Workers \subseteq Threads
  BY GatewayAssumption, Zenon
<1>2. CASE UNCHANGED <<containmentVars, adapterVars>>
  BY <1>2, Zenon DEF adapterVars
<1>3. ASSUME NEW w \in Workers, Headers(w) \/ Chunk(w) \/ Body(w)
      PROVE  UNCHANGED <<containmentVars, loop>> \/ (OwnStep(w) /\ Turns(w))
  BY <1>3, Zenon DEF Headers, Chunk, Body, Refuse, OwnStep, Turns
<1>4. ASSUME NEW w \in Workers, Handle(w)
      PROVE  OwnStep(w) /\ Turns(w)
  BY <1>4, Zenon DEF Handle, OwnStep, Turns, adapterVars
<1>5. ASSUME NEW t \in Threads \ Workers, Proceed(t) /\ UNCHANGED adapterVars
      PROVE  OwnStep(t) /\ Turns(t)
  BY <1>5, Zenon DEF OwnStep, Turns, adapterVars
<1>6. ASSUME NEW w \in Workers, Disconnect(w)
      PROVE  Leaves(w) /\ loop' = loop
  BY <1>6, Zenon DEF Disconnect, Waiting, Leaves
<1>7. CASE Finished /\ UNCHANGED adapterVars
  BY <1>7, Zenon DEF Finished, adapterVars
<1> QED
  BY <1>1, <1>2, <1>3, <1>4, <1>5, <1>6, <1>7, Zenon DEF AdapterNext

\* A new adapter is between two steps.
LEMMA InitAdapterInv == AdapterInit => AdapterInv
<1> SUFFICES ASSUME AdapterInit PROVE AdapterInv
  BY Zenon
<1>1. /\ Init /\ ContainmentInv /\ phase = "RUNNING" /\ events = <<>> /\ cancelled = {}
      /\ registered = {} /\ input = [w \in Workers |-> "none"]
      /\ target = [t \in Workers \cup Replayers |-> t]
  BY InitContainmentInv, Zenon DEF AdapterInit, Init, InitSupervisor, InitState, InitGateway,
                              InitExecutor, Ledger!Init
<1>2. ASSUME NEW t \in Threads
      PROVE  pc[t] \in {"idle", "replay", "watch", "complete", "report"}
  BY <1>1, RolesAssumption, Zenon DEF Init, FirstLabel
<1>3. ASSUME NEW t \in Threads PROVE AnswerClaim(t)
  BY <1>1, <1>2, Zenon DEF AnswerClaim, ClosedLabels, LatchedLabels, DispatchLabels
<1>4. AnswerInv
  BY <1>1, <1>3, Zenon DEF AnswerInv
<1>5. MalformedInv
  BY <1>1, SMT DEF MalformedInv, Malformed, NoDispatchAfterTrigger, Dispatches, Kinds
<1>6. LoopInv
  BY <1>2, GatewayAssumption, Zenon DEF LoopInv
<1> QED
  BY <1>1, <1>4, <1>5, <1>6, Zenon DEF AdapterInv

\* Steps in turn keep the turns.
LEMMA LoopKeeps ==
  ASSUME AdapterInv, NEW t \in Threads, OwnStep(t), Turns(t)
  PROVE  /\ LoopInv'
         /\ t \in Workers =>
               \A w \in Workers \ {t} : pc[w] \notin {"malformed_latch", "emergency"}
<1>1. Free \notin Workers /\ Workers \subseteq Threads
  BY GatewayAssumption, ThreadAssumption, Zenon
<1>2. \A w \in Workers \ {t} : pc'[w] = pc[w]
  BY <1>1, StepKeeps, Zenon DEF AdapterInv, Guarantee, Jumps, Step, OwnStep
<1>3. t \in Workers =>
          \A w \in Workers \ {t} :
              pc[w] \in {"idle", "replay", "watch", "complete", "report", "done"}
  BY <1>1, Zenon DEF AdapterInv, LoopInv, Turns
<1>4. CASE t \in Workers
  BY <1>2, <1>3, <1>4, Zenon DEF LoopInv, Turns
<1>5. CASE t \notin Workers
  BY <1>2, <1>5, Zenon DEF AdapterInv, LoopInv, Turns
<1> QED
  BY <1>3, <1>4, <1>5, Zenon

\* The adapter keeps its invariant.
LEMMA NextAdapterInv ==
  ASSUME AdapterInv, [AdapterNext]_<<containmentVars, adapterVars>>
  PROVE  AdapterInv'
<1>1. CASE UNCHANGED <<containmentVars, loop>>
  <2>1. ContainmentInv'
    BY <1>1, StutterKeeps, Zenon DEF AdapterInv
  <2>2. /\ phase' = phase /\ events' = events /\ target' = target /\ input' = input
        /\ registered' = registered /\ cancelled' = cancelled /\ pc' = pc /\ loop' = loop
    BY <1>1, Zenon DEF containmentVars, supervisorVars, stateVars, latchVars, evidenceVars,
                registryVars, gatewayVars
  <2>3. AnswerInv'
    BY <2>2, SMT DEF AdapterInv, AnswerInv, AnswerClaim, Answered, Kinds
  <2>4. MalformedInv'
    BY <2>2, SMT DEF AdapterInv, MalformedInv, Malformed, NoDispatchAfterTrigger, Dispatches,
                Kinds, IsTrigger
  <2> QED
    BY <2>1, <2>2, <2>3, <2>4, Zenon DEF AdapterInv, LoopInv
<1>2. ASSUME NEW w \in Workers, Leaves(w), loop' = loop
      PROVE  AdapterInv'
  <2>1. ContainmentInv' /\ AnswerInv' /\ MalformedInv'
    BY <1>2, LeavingKeeps, Zenon DEF AdapterInv
  <2>2. \A v \in Workers : pc'[v] = pc[v] \/ pc'[v] = "done"
    BY <1>2, GatewayAssumption, Zenon
    DEF Leaves, Goto, AdapterInv, ContainmentInv, Shared, TypesOK
  <2> QED
    BY <1>2, <2>1, <2>2, Zenon DEF AdapterInv, LoopInv
<1>3. ASSUME NEW t \in Threads, OwnStep(t), Turns(t)
      PROVE  AdapterInv'
  <2>1. ContainmentInv'
    BY <1>3, StepKeeps, SharedKeeps, OthersKeep, Zenon DEF AdapterInv, ContainmentInv, Step, OwnStep
  <2>2. AnswerInv'
    BY <1>3, AnswerKeeps, Zenon DEF AdapterInv
  <2>3. MalformedInv' /\ LoopInv'
    BY <1>3, LoopKeeps, MalformedKeeps, Zenon DEF AdapterInv, Step, OwnStep
  <2> QED
    BY <2>1, <2>2, <2>3, Zenon DEF AdapterInv
<1> QED
  BY <1>1, <1>2, <1>3, AdapterSteps, Zenon

\* The adapter is always between two steps of its event loop (main.py:56-103).
THEOREM AdapterInvariance == AdapterSpec => []AdapterInv
<1>1. AdapterInv /\ [AdapterNext]_<<containmentVars, adapterVars>> => AdapterInv'
  BY NextAdapterInv, Zenon
<1> QED
  BY <1>1, InitAdapterInv, PTL DEF AdapterSpec

\* The same roles behind the adapter: a handler never takes the supervisor's part
\* (main.py:56-103).
THEOREM AdapterRoles == AdapterSpec => []RoleInv
<1>1. ASSUME AdapterInv, RoleInv, [AdapterNext]_<<containmentVars, adapterVars>>
      PROVE  RoleInv'
  <2>1. ContainmentInv
    BY <1>1, Zenon DEF AdapterInv
  <2>2. ASSUME NEW t \in Threads, OwnStep(t) PROVE RoleInv'
    BY <1>1, <2>1, <2>2, RolesKeep, Zenon DEF OwnStep, Step
  <2>3. ASSUME NEW w \in Workers, Leaves(w) PROVE RoleInv'
    <3>1. after' = after /\ \A t \in Threads \ Workers : pc'[t] = pc[t]
      BY <2>1, <2>3, Zenon DEF Leaves, Goto, localVars, returnVars, ContainmentInv, Shared, TypesOK
    <3> QED
      BY <1>1, <3>1, Zenon DEF RoleInv
  <2>4. CASE UNCHANGED <<containmentVars, loop>>
    BY <1>1, <2>4, StutterKeepsRoles, Zenon
  <2> QED
    BY <1>1, <2>2, <2>3, <2>4, AdapterSteps, Zenon
<1> QED
  BY <1>1, InitRoleInv, AdapterInvariance, PTL DEF AdapterSpec, AdapterInit

\* A handler that has answered has its RESULT in the ledger, or the run is no longer
\* RUNNING: no refusal, failed dispatch or cancellation leaves the run going
\* (main.py:56-103).
THEOREM RequestsAreAnsweredOrClose == AdapterSpec => []AnsweredOrClosed
<1>1. AdapterInv => AnsweredOrClosed
  BY GatewayAssumption, Zenon
  DEF AdapterInv, AnswerInv, AnswerClaim, Answered, AnsweredOrClosed
<1> QED
  BY <1>1, AdapterInvariance, PTL

\* Behind the adapter no DISPATCH follows any trigger, not even the violation that
\* submit_raw logs before it latches: its one event loop keeps the next handler out
\* (gateway.py:131-148).
THEOREM NothingAfterAnyTrigger == AdapterSpec => []NoDispatchAfterTrigger
<1>1. AdapterInv => NoDispatchAfterTrigger
  BY Zenon DEF AdapterInv, MalformedInv
<1> QED
  BY <1>1, AdapterInvariance, PTL

\* What holds of the runtime whoever calls it holds behind the adapter
\* (main.py:56-103).
THEOREM AdapterIsContained ==
  AdapterSpec => [](DispatchIsAuthorized /\ IsolatedOnce /\ WitnessedRootStands)
<1>1. AdapterInv => DispatchIsAuthorized /\ WitnessedRootStands
  BY Zenon DEF AdapterInv, ContainmentInv, Shared, CapabilityInv, ReceiptInv, WitnessedRootStands
<1>2. AdapterInv => IsolatedOnce
  BY SMT DEF AdapterInv, ContainmentInv, Shared, IsolationInv, IsolatedOnce
<1> QED
  BY <1>1, <1>2, AdapterInvariance, PTL

-----------------------------------------------------------------------------
\* A reading of the clock is current, and what was current stays so while nothing is
\* logged (supervisor.py:100-138).
LEMMA StaysCurrent ==
  ASSUME InSequence, events' = events, clock' \in {clock, clock + 1}
  PROVE  /\ Current(clock)' /\ clock' \in Nat
         /\ \A ns : Current(ns) =>
               /\ ns \in 0..clock'
               /\ events' # <<>> => ns >= events'[Len(events')].ns
<1> DEFINE last == events[Len(events)].ns
<1>1. clock \in Nat /\ (events # <<>> => last \in Nat /\ clock >= last)
  BY Zenon DEF InSequence, Current
<1>2. events'[Len(events')].ns = last /\ (events' # <<>> <=> events # <<>>)
  BY Zenon
<1>3. \A ns : Current(ns) <=> ns \in 0..clock /\ (events # <<>> => ns >= last)
  BY Zenon DEF Current
<1>4. Current(clock)' <=> clock' \in 0..clock' /\ (events # <<>> => clock' >= last)
  BY <1>2, Zenon DEF Current
<1> HIDE DEF last
<1> QED
  BY <1>1, <1>2, <1>3, <1>4, SMT

\* The mirror refuses no current event: with nothing spoilt, its commit returns
\* (evidence.py:79-110, supervisor.py:100-138).
LEMMA CurrentCommits ==
  ASSUME ControlInv, InSequence, ~Spoilt, ~Spoilt',
         NEW e, events # <<>> => e.ns >= events[Len(events)].ns
  PROVE  ~CommitRaises(e)
<1>1. ~sealed /\ ~(Len(events) >= MaxEvents) /\ faults = MaxFaults /\ faults' = MaxFaults
  BY Zenon DEF ControlInv, Spoilt
<1>2. Ledger!MirrorAccepts(e.ns)
  BY Zenon DEF InSequence, Ledger!MirrorAccepts
<1>3. faults' # faults - 1
  BY <1>1, ThreadAssumption, SMT
<1> QED
  BY <1>1, <1>2, <1>3, Zenon DEF CommitRaises, Ledger!Refuses, Ledger!CommitUnmirrored

\* What is committed is current, and the clock after it (evidence.py:79-110).
LEMMA CommittedInSequence ==
  ASSUME TypesOK, InSequence, NEW e, CommitOk(e), e.ns \in 0..clock',
         clock' \in {clock, clock + 1}
  PROVE  /\ mirrored' = Len(events') /\ clock' \in Nat /\ Current(clock)'
         /\ events' # <<>> => events'[Len(events')].ns \in Nat
<1>1. events' = Append(events, e) /\ mirrored' = mirrored + 1 /\ mirrored = Len(events)
  BY Zenon DEF CommitOk, Ledger!CommitMirrored, InSequence
<1>2. Len(events') = Len(events) + 1 /\ events'[Len(events) + 1] = e
  BY <1>1, Appended, SMT
<1>3. clock \in Nat
  BY Zenon DEF InSequence
<1>4. e.ns \in Nat /\ clock' \in Nat /\ clock' >= e.ns /\ clock' \in 0..clock'
  BY <1>3, SMT
<1>5. events'[Len(events')] = e /\ mirrored' = Len(events')
  BY <1>1, <1>2, Zenon
<1> QED
  BY <1>4, <1>5, Zenon DEF Current

\* So a worker in its turn keeps the sequence, when the others carry nothing
\* (main.py:56-103).
LEMMA TurnKeeps ==
  ASSUME TypesOK, InSequence, NEW w \in Workers, InTurn(w),
         \A v \in Workers \ {w} : pc'[v] \in {"idle", "replay", "done"}
  PROVE  InSequence'
<1>1. \A v \in Workers \ {w} : CurrentClaim(v)'
  BY Zenon DEF CurrentClaim, RaisedLabels, StampLabels
<1>2. ~emergency' /\ clock' \in {clock, clock + 1} /\ DOMAIN stamp' = Threads
  BY Zenon DEF InSequence, InTurn
<1>3. CASE UNCHANGED <<events, mirrored>> /\ CurrentClaim(w)'
  <2>1. Current(clock)' /\ clock' \in Nat
    BY <1>2, <1>3, StaysCurrent, Zenon
  <2>2. /\ mirrored' = Len(events')
        /\ events' # <<>> => events'[Len(events')].ns \in Nat
    BY <1>3, Zenon DEF InSequence
  <2> QED
    BY <1>1, <1>2, <1>3, <2>1, <2>2, Zenon DEF InSequence
<1>4. CASE /\ \E e : CommitOk(e) /\ e.ns \in 0..clock'
           /\ pc'[w] \notin CarryingLabels
  <2>1. CurrentClaim(w)'
    BY <1>4, Zenon DEF CurrentClaim, CarryingLabels
  <2>2. PICK e : CommitOk(e) /\ e.ns \in 0..clock'
    BY <1>4, Zenon
  <2> QED
    BY <1>1, <1>2, <2>1, <2>2, CommittedInSequence, Zenon DEF InSequence
<1> QED
  BY <1>3, <1>4, Zenon DEF InTurn

\* A step that logs nothing and ends where nothing is carried is in turn.
LEMMA PlainTurn ==
  ASSUME InSequence, NEW w \in Workers, clock' \in {clock, clock + 1},
         UNCHANGED <<events, mirrored, emergency>>, DOMAIN stamp' = Threads,
         pc'[w] \notin CarryingLabels
  PROVE  InTurn(w)
BY Zenon DEF InTurn, CurrentClaim, CarryingLabels

\* So is one that takes a reading, or carries one on.
LEMMA StampTurn ==
  ASSUME InSequence, NEW w \in Workers, clock' \in {clock, clock + 1},
         UNCHANGED <<events, mirrored, emergency>>, DOMAIN stamp' = Threads,
         pc'[w] \in StampLabels,
         stamp'[w] = clock' \/ (stamp'[w] = stamp[w] /\ pc[w] \in StampLabels)
  PROVE  InTurn(w)
<1>1. Current(stamp[w])'
  <2>1. CASE stamp'[w] = clock'
    BY <2>1, StaysCurrent, Zenon DEF Current
  <2>2. CASE stamp'[w] = stamp[w] /\ pc[w] \in StampLabels
    <3>1. Current(stamp[w])
      BY <2>2, Zenon DEF InSequence, CurrentClaim
    <3> QED
      BY <2>2, <3>1, StaysCurrent, Zenon DEF Current
  <2> QED
    BY <2>1, <2>2, Zenon
<1> QED
  BY <1>1, Zenon DEF InTurn, CurrentClaim, RaisedLabels, StampLabels

\* _commit of an event with the reading that was carried (gateway.py:73-91).
LEMMA StampCommitTurn ==
  ASSUME TypesOK, ControlInv, InSequence, ~Spoilt, ~Spoilt', NEW w \in Workers,
         pc[w] \in StampLabels, NEW e, e.ns = stamp[w], NEW next, NEW otherwise,
         next \notin CarryingLabels, GatewayCommit(w, e, next, otherwise),
         UNCHANGED <<clock, emergency, stamp>>
  PROVE  InTurn(w)
<1>1. Current(e.ns) /\ DOMAIN stamp = Threads /\ w \in DOMAIN pc
  BY GatewayAssumption, Zenon DEF InSequence, CurrentClaim, TypesOK
<1>2. CommitOk(e) /\ Goto(w, next)
  BY <1>1, CurrentCommits, Zenon DEF GatewayCommit, Current
<1>3. pc'[w] = next /\ e.ns \in 0..clock'
  BY <1>1, <1>2, Zenon DEF Goto, Current
<1> QED
  BY <1>1, <1>2, <1>3, Zenon DEF InTurn

\* A commit of an event that is stamped as it is logged.
LEMMA ReadCommitTurn ==
  ASSUME ControlInv, InSequence, ~Spoilt, ~Spoilt', NEW ns, ReadClock(ns),
         NEW e, e.ns = ns
  PROVE  /\ ~CommitRaises(e)
         /\ e.ns \in 0..clock' /\ clock' \in {clock, clock + 1}
<1>1. clock' = ns /\ clock' \in {clock, clock + 1}
  BY Zenon DEF ReadClock
<1>2. clock \in Nat /\ (events # <<>> => /\ events[Len(events)].ns \in Nat
                                         /\ clock >= events[Len(events)].ns)
  BY Zenon DEF InSequence, Current
<1>3. ns \in 0..clock' /\ (events # <<>> => ns >= events[Len(events)].ns)
  BY <1>1, <1>2, SMT
<1> QED
  BY <1>1, <1>3, CurrentCommits, Zenon

\* contain reads the clock before it signs, and logs what it signed; with nothing
\* spoilt it is not left by a raise, and emergency_isolate is not entered
\* (supervisor.py:139-279).
LEMMA ContainTurn ==
  ASSUME TypesOK, ControlInv, InSequence, ~Spoilt, ~Spoilt', NEW w \in Workers,
         ContainStep(w) \/ EmergencyStep(w)
  PROVE  InTurn(w)
<1>1. /\ w \in DOMAIN pc /\ CurrentClaim(w) /\ clock \in {clock, clock + 1}
      /\ after[w] \in {"done", "unregister"} /\ DOMAIN stamp = Threads
  BY GatewayAssumption, Zenon DEF TypesOK, InSequence, ControlInv
<1>2. after[w] \notin CarryingLabels
  BY <1>1, Zenon DEF CarryingLabels, RaisedLabels, StampLabels
<1>3. CASE Contain(w)
  <2>1. UNCHANGED <<events, mirrored, emergency, clock, stamp>>
    BY <1>3, Zenon DEF Contain, evidenceVars, containVars, localVars
  <2>2. pc'[w] = after[w] \/ (pc'[w] = "signal" /\ draft' = [NoDraft EXCEPT !.inflight = inflight])
    BY <1>1, <1>3, Zenon DEF Contain, Goto
  <2>3. CASE pc'[w] = after[w]
    BY <1>1, <1>2, <2>1, <2>3, PlainTurn, Zenon
  <2>4. CASE pc'[w] = "signal" /\ draft' = [NoDraft EXCEPT !.inflight = inflight]
    <3>1. "ns" \in DOMAIN draft'
      BY <2>4, SMT DEF NoDraft
    <3> QED
      BY <1>1, <2>1, <2>4, <3>1, Zenon DEF InTurn, CurrentClaim, RaisedLabels, StampLabels
  <2> QED
    BY <2>2, <2>3, <2>4, Zenon
<1>4. CASE SignalInflight(w)
  <2>1. /\ UNCHANGED <<events, mirrored, emergency, clock, stamp>>
        /\ pc[w] = "signal" /\ pc'[w] = "isolate" /\ DOMAIN draft' = DOMAIN draft
    BY <1>1, <1>4, Zenon DEF SignalInflight, Goto, evidenceVars, localVars
  <2>2. "ns" \in DOMAIN draft'
    BY <1>1, <2>1, Zenon DEF CurrentClaim
  <2> QED
    BY <1>1, <2>1, <2>2, Zenon DEF InTurn, CurrentClaim, RaisedLabels, StampLabels
<1>5. CASE Isolate(w)
  <2>1. PICK ns, back : ReadClock(ns) /\ draft' = [draft EXCEPT !.ns = ns, !.back = back]
    BY <1>5, Zenon DEF Isolate
  <2>2. /\ UNCHANGED <<events, mirrored, emergency, stamp>>
        /\ pc[w] = "isolate" /\ pc'[w] = "mark"
    BY <1>1, <1>5, Zenon DEF Isolate, Goto, evidenceVars, localVars
  <2>3. clock' = ns /\ clock' \in {clock, clock + 1} /\ "ns" \in DOMAIN draft
    BY <1>1, <2>1, <2>2, Zenon DEF ReadClock, CurrentClaim
  <2>4. draft'.ns = clock'
    BY <2>1, <2>3, SMT
  <2>5. Current(draft.ns)'
    BY <2>2, <2>3, <2>4, StaysCurrent, Zenon DEF Current
  <2> QED
    BY <1>1, <2>2, <2>3, <2>5, Zenon DEF InTurn, CurrentClaim, RaisedLabels, StampLabels
<1>6. CASE MarkContained(w)
  <2>1. UNCHANGED <<events, mirrored, emergency, clock, stamp>>
    BY <1>6, Zenon DEF MarkContained, evidenceVars, localVars
  <2>2. pc[w] = "mark" /\ (pc'[w] = after[w] \/ (pc'[w] = "sign" /\ draft' = draft))
    BY <1>1, <1>6, Zenon DEF MarkContained, LeaveContain, Goto
  <2>3. CASE pc'[w] = after[w]
    BY <1>1, <1>2, <2>1, <2>3, PlainTurn, Zenon
  <2>4. CASE pc'[w] = "sign" /\ draft' = draft
    <3>1. Current(draft.ns)
      BY <1>1, <2>2, Zenon DEF CurrentClaim
    <3>2. Current(draft.ns)'
      BY <1>1, <2>1, <2>4, <3>1, StaysCurrent, Zenon DEF Current
    <3> QED
      BY <1>1, <2>1, <2>4, <3>2, Zenon DEF InTurn, CurrentClaim, RaisedLabels, StampLabels
  <2> QED
    BY <2>2, <2>3, <2>4, Zenon
<1>7. CASE SignAck(w)
  <2>1. UNCHANGED <<events, mirrored, emergency, clock, stamp>>
    BY <1>7, Zenon DEF SignAck, evidenceVars, localVars
  <2>2. /\ pc[w] = "sign"
        /\ \/ pc'[w] = after[w]
           \/ /\ pc'[w] = "log"
              /\ ack' = [trigger |-> trigger[w], inflight |-> draft.inflight, ns |-> draft.ns]
    BY <1>1, <1>7, Zenon DEF SignAck, LeaveContain, Goto
  <2>3. CASE pc'[w] = after[w]
    BY <1>1, <1>2, <2>1, <2>3, PlainTurn, Zenon
  <2>4. CASE /\ pc'[w] = "log"
             /\ ack' = [trigger |-> trigger[w], inflight |-> draft.inflight, ns |-> draft.ns]
    <3>1. Current(draft.ns)
      BY <1>1, <2>2, Zenon DEF CurrentClaim
    <3>2. ack'.ns = draft.ns
      BY <2>4, Zenon
    <3>3. Current(ack.ns)'
      BY <1>1, <2>1, <3>1, <3>2, StaysCurrent, Zenon DEF Current
    <3> QED
      BY <1>1, <2>1, <2>4, <3>3, Zenon DEF InTurn, CurrentClaim, RaisedLabels, StampLabels
  <2> QED
    BY <2>2, <2>3, <2>4, Zenon
<1>8. CASE LogAck(w)
  <2> DEFINE e == [kind |-> "KILL_ACKNOWLEDGED", ack |-> ack, ns |-> ack.ns]
  <2>1. UNCHANGED <<emergency, clock, stamp>> /\ pc[w] = "log" /\ e.ns = ack.ns
    BY <1>8, Zenon DEF LogAck, localVars
  <2>2. Current(e.ns)
    BY <1>1, <2>1, Zenon DEF CurrentClaim
  <2>3. ~CommitRaises(e)
    BY <2>2, CurrentCommits, Zenon DEF Current
  <2>4. CommitOk(e) /\ pc'[w] = after[w]
    BY <1>1, <1>8, <2>3, Zenon DEF LogAck, LeaveContain, Goto
  <2>5. e.ns \in 0..clock'
    BY <2>1, <2>2, Zenon DEF Current
  <2> HIDE DEF e
  <2> QED
    BY <1>1, <1>2, <2>1, <2>4, <2>5, Zenon DEF InTurn
<1>9. ~UnsignAck(w) /\ ~EmergencyStep(w)
  BY <1>1, Zenon DEF UnsignAck, EmergencyStep, EmergencyLatch, EmergencyCut, CurrentClaim,
                RaisedLabels
<1> QED
  BY <1>3, <1>4, <1>5, <1>6, <1>7, <1>8, <1>9, Zenon DEF ContainStep

\* submit_raw and fail_closed log what they have read since their turn began
\* (gateway.py:93-270).
LEMMA GatewayTurn ==
  ASSUME TypesOK, ControlInv, InSequence, ~Spoilt, ~Spoilt', NEW w \in Workers,
         Arrive(w) \/ SubmitStep(w) \/ FailClosedStep(w)
  PROVE  InTurn(w)
<1>1. /\ w \in DOMAIN pc /\ w \in DOMAIN stamp /\ CurrentClaim(w) /\ DOMAIN stamp = Threads
      /\ clock \in {clock, clock + 1}
  BY GatewayAssumption, Zenon DEF TypesOK, InSequence
<1>2. CASE Arrive(w) \/ Decide(w) \/ FailClosed(w)
  <2>1. /\ clock' \in {clock, clock + 1} /\ UNCHANGED <<events, mirrored, emergency>>
        /\ DOMAIN stamp' = Threads /\ stamp'[w] = clock' /\ pc'[w] \in StampLabels
    BY <1>1, <1>2, Zenon DEF Arrive, Decide, FailClosed, ReadClock, Goto, StampLabels, evidenceVars,
                containVars
  <2> QED
    BY <2>1, StampTurn, Zenon
<1>3. CASE LateLatch(w) \/ FailLatch(w) \/ SignDecision(w)
  <2>1. /\ UNCHANGED <<events, mirrored, emergency, stamp, clock>>
        /\ pc[w] \in StampLabels /\ pc'[w] \in StampLabels
    BY <1>1, <1>3, Zenon DEF LateLatch, FailLatch, SignDecision, Goto, StampLabels, evidenceVars,
                containVars, localVars
  <2> QED
    BY <1>1, <2>1, StampTurn, Zenon
<1>4. CASE Admit(w)
  <2>1. /\ UNCHANGED <<events, mirrored, emergency, stamp, clock>>
        /\ pc[w] = "admit"
        /\ pc'[w] \in {"done", "overload_commit", "malformed_commit", "request_commit"}
    BY <1>1, <1>4, Zenon DEF Admit, Goto, evidenceVars, containVars, localVars
  <2>2. CASE pc'[w] = "done"
    <3>1. pc'[w] \notin CarryingLabels
      BY <2>2, Zenon DEF CarryingLabels, RaisedLabels, StampLabels
    <3> QED
      BY <1>1, <2>1, <3>1, PlainTurn, Zenon
  <2>3. CASE pc'[w] # "done"
    <3>1. pc[w] \in StampLabels /\ pc'[w] \in StampLabels
      BY <2>1, <2>3, Zenon DEF StampLabels
    <3> QED
      BY <1>1, <2>1, <3>1, StampTurn, Zenon
  <2> QED
    BY <2>2, <2>3, Zenon
<1>5. CASE MalformedLatch(w) \/ Record(w)
  <2>1. /\ UNCHANGED <<events, mirrored, emergency, stamp, clock>>
        /\ pc'[w] \notin CarryingLabels
    BY <1>1, <1>5, Zenon DEF MalformedLatch, Record, Goto, evidenceVars, containVars, localVars,
                CarryingLabels, RaisedLabels, StampLabels
  <2> QED
    BY <1>1, <2>1, PlainTurn, Zenon
<1>6. CASE \/ LateCommit(w) \/ OverloadCommit(w) \/ MalformedCommit(w) \/ RequestCommit(w)
           \/ DecisionCommit(w) \/ FailCommit(w)
  <2>1. pc[w] \in StampLabels /\ UNCHANGED <<clock, emergency, stamp>>
    BY <1>6, Zenon DEF LateCommit, OverloadCommit, MalformedCommit, RequestCommit, DecisionCommit,
                FailCommit, StampLabels, containVars
  <2>2. PICK e, next, otherwise :
           /\ e.ns = stamp[w] /\ GatewayCommit(w, e, next, otherwise)
           /\ next \in {"contain", "malformed_latch", "decide", "record"}
    <3>1. ASSUME NEW r PROVE Violation(r, stamp[w]).ns = stamp[w]
      BY SMT DEF Violation
    <3>2. CASE LateCommit(w) \/ MalformedCommit(w) \/ FailCommit(w)
      BY <3>1, <3>2, Zenon DEF LateCommit, MalformedCommit, FailCommit
    <3>3. CASE OverloadCommit(w)
      BY <3>3, Zenon DEF OverloadCommit
    <3>4. CASE RequestCommit(w)
      BY <3>4, Zenon DEF RequestCommit
    <3>5. CASE DecisionCommit(w)
      BY <3>5, Zenon DEF DecisionCommit
    <3> QED
      BY <1>6, <3>2, <3>3, <3>4, <3>5, Zenon
  <2>3. next \notin CarryingLabels
    BY <2>2, Zenon DEF CarryingLabels, RaisedLabels, StampLabels
  <2> QED
    BY <2>1, <2>2, <2>3, StampCommitTurn, Zenon
<1>7. CASE KillCommit(w)
  <2>1. PICK ns : ReadClock(ns) /\ GatewayCommit(w, Violation("policy", ns), "contain", "done")
    BY <1>7, Zenon DEF KillCommit
  <2>2. UNCHANGED <<emergency, stamp>>
    BY <1>7, Zenon DEF KillCommit, containVars
  <2>3. Violation("policy", ns).ns = ns
    BY SMT DEF Violation
  <2>4. /\ ~CommitRaises(Violation("policy", ns))
        /\ Violation("policy", ns).ns \in 0..clock' /\ clock' \in {clock, clock + 1}
    BY <2>1, <2>3, ReadCommitTurn, Zenon
  <2>5. CommitOk(Violation("policy", ns)) /\ pc'[w] = "contain"
    BY <1>1, <2>1, <2>4, Zenon DEF GatewayCommit, Goto
  <2>6. pc'[w] \notin CarryingLabels
    BY <2>5, Zenon DEF CarryingLabels, RaisedLabels, StampLabels
  <2> QED
    BY <1>1, <2>2, <2>4, <2>5, <2>6, Zenon DEF InTurn
<1>8. ~FailLast(w)
  BY <1>1, Zenon DEF FailLast, CurrentClaim, RaisedLabels
<1> QED
  BY <1>2, <1>3, <1>4, <1>5, <1>6, <1>7, <1>8, Zenon DEF SubmitStep, FailClosedStep

\* dispatch stamps what it logs inside the ledger (executor.py:103-196).
LEMMA ExecutorTurn ==
  ASSUME TypesOK, ControlInv, InSequence, ~Spoilt, ~Spoilt', NEW w \in Workers,
         DispatchStep(w) \/ Transport(w)
  PROVE  InTurn(w)
<1>1. /\ w \in DOMAIN pc /\ w \in DOMAIN stamp /\ DOMAIN stamp = Threads
      /\ clock \in {clock, clock + 1}
  BY GatewayAssumption, Zenon DEF TypesOK, InSequence
<1>2. CASE \/ Dispatch(w) \/ Register(w) \/ BeginRefused(w) \/ FinishStale(w) \/ AbortLease(w)
           \/ CheckCancelled(w) \/ Unregister(w) \/ Transport(w)
  <2>1. /\ clock' \in {clock, clock + 1} /\ UNCHANGED <<events, mirrored, emergency>>
        /\ DOMAIN stamp' = Threads
        /\ pc'[w] \in {"register", "begin", "check", "abort", "finish", "fail", "unregister",
                       "done"}
    BY <1>1, <1>2, Zenon
    DEF Dispatch, Register, BeginRefused, FinishStale, AbortLease, CheckCancelled, Unregister,
        Transport, TransportRaises, TransportReturns, ReadClock, Goto, evidenceVars, containVars,
        localVars
  <2>2. pc'[w] \notin CarryingLabels
    BY <2>1, Zenon DEF CarryingLabels, RaisedLabels, StampLabels
  <2> QED
    BY <2>1, <2>2, PlainTurn, Zenon
<1>3. CASE Begin(w) \/ Finish(w)
  <2>1. PICK ns, e :
           /\ ReadClock(ns) /\ e.ns = ns
           /\ CommitRaises(e) \/ (CommitOk(e) /\ pc'[w] \in {"transport", "unregister"})
    <3>1. CASE Begin(w)
      BY <1>1, <3>1, Zenon DEF Begin, Goto
    <3>2. CASE Finish(w)
      BY <1>1, <3>2, Zenon DEF Finish, Goto
    <3> QED
      BY <1>3, <3>1, <3>2, Zenon
  <2>2. UNCHANGED <<emergency, stamp>>
    BY <1>3, Zenon DEF Begin, Finish, containVars, localVars
  <2>3. ~CommitRaises(e) /\ e.ns \in 0..clock' /\ clock' \in {clock, clock + 1}
    BY <2>1, ReadCommitTurn, Zenon
  <2>4. CommitOk(e) /\ pc'[w] \notin CarryingLabels
    BY <2>1, <2>3, Zenon DEF CarryingLabels, RaisedLabels, StampLabels
  <2> QED
    BY <1>1, <2>2, <2>3, <2>4, Zenon DEF InTurn
<1> QED
  BY <1>2, <1>3, Zenon DEF DispatchStep

\* A handler neither completes the run nor asks for its receipt (main.py:56-103).
LEMMA WorkerStays ==
  ASSUME TypesOK, ControlInv, NEW w \in Workers, OwnStep(w)
  PROVE  /\ ~WatchStep(w) /\ ~ReceiptStep(w)
         /\ pc'[w] \notin ReceiptLabels \cup {"complete", "report", "watch", "watch_latch",
                                              "watch_commit"}
         /\ after'[w] # "watch" /\ sealed' = sealed
<1> DEFINE Own == ReceiptLabels \cup {"complete", "report", "watch", "watch_latch",
                                      "watch_commit"}
<1>1. /\ pc[w] \notin Own /\ after[w] \in {"done", "unregister"} /\ resume[w] \in {"done", "fail_last"}
      /\ w \in DOMAIN pc /\ w \in DOMAIN after
  BY GatewayAssumption, Zenon DEF TypesOK, ControlInv
<1>2. ~WatchStep(w) /\ ~ReceiptStep(w)
  BY <1>1, Zenon DEF WatchStep, Watch, WatchLatch, WatchCommit, ReceiptStep, Complete, OpenReceipt,
              DeriveStatus, SealEvidence, Freeze, ReceiptLabels
<1>3. ASSUME NEW e, CommitOk(e) \/ CommitRaises(e) PROVE sealed' = sealed
  BY <1>3, Zenon DEF CommitOk, CommitRaises, Ledger!CommitMirrored, Ledger!CommitUnmirrored,
              evidenceVars
<1>4. CASE ContainStep(w) \/ EmergencyStep(w)
  <2>1. /\ pc'[w] \in {after[w], resume[w], "signal", "isolate", "mark", "sign", "log", "unsign",
                       "cut"}
        /\ after' = after
    BY <1>1, <1>4, Zenon
    DEF ContainStep, Contain, SignalInflight, Isolate, MarkContained, SignAck, LogAck, UnsignAck,
        EmergencyStep, EmergencyLatch, EmergencyCut, LeaveContain, Goto, localVars, returnVars
  <2>2. sealed' = sealed
    BY <1>3, <1>4, Zenon
    DEF ContainStep, Contain, SignalInflight, Isolate, MarkContained, SignAck, LogAck, UnsignAck,
        EmergencyStep, EmergencyLatch, EmergencyCut, evidenceVars
  <2> QED
    BY <1>1, <1>2, <2>1, <2>2, Zenon DEF ReceiptLabels
<1>5. CASE Arrive(w) \/ SubmitStep(w) \/ FailClosedStep(w)
  <2>1. /\ pc'[w] \in {"fail_latch", "late_latch", "admit", "late_commit", "contain", "emergency",
                       "done", "overload_commit", "malformed_commit", "request_commit",
                       "malformed_latch", "decide", "sign_decision", "decision_commit", "record",
                       "dispatch", "kill_commit", "fail_commit", after[w]}
        /\ after' = after
    BY <1>1, <1>5, Zenon
    DEF Arrive, SubmitStep, LateLatch, LateCommit, Admit, OverloadCommit, MalformedCommit,
        MalformedLatch, RequestCommit, Decide, SignDecision, DecisionCommit, Record, KillCommit,
        FailClosedStep, FailClosed, FailLatch, FailCommit, FailLast, GatewayCommit, Goto,
        localVars, returnVars
  <2>2. sealed' = sealed
    BY <1>3, <1>5, Zenon
    DEF Arrive, SubmitStep, LateLatch, LateCommit, Admit, OverloadCommit, MalformedCommit,
        MalformedLatch, RequestCommit, Decide, SignDecision, DecisionCommit, Record, KillCommit,
        FailClosedStep, FailClosed, FailLatch, FailCommit, FailLast, GatewayCommit, evidenceVars
  <2> QED
    BY <1>1, <1>2, <2>1, <2>2, Zenon DEF ReceiptLabels
<1>6. CASE DispatchStep(w) \/ Transport(w)
  <2>1. /\ pc'[w] \in {"register", "begin", "check", "transport", "abort", "finish", "fail",
                       "unregister", "done"}
        /\ after'[w] \in {after[w], "unregister"}
    BY <1>1, <1>6, Zenon
    DEF DispatchStep, Dispatch, Register, BeginRefused, Begin, FinishStale, Finish, AbortLease,
        CheckCancelled, Unregister, Transport, TransportRaises, TransportReturns, Goto, localVars,
        returnVars
  <2>2. sealed' = sealed
    BY <1>3, <1>6, Zenon
    DEF DispatchStep, Dispatch, Register, BeginRefused, Begin, FinishStale, Finish, AbortLease,
        CheckCancelled, Unregister, Transport, TransportRaises, TransportReturns, evidenceVars
  <2> QED
    BY <1>1, <1>2, <2>1, <2>2, Zenon DEF ReceiptLabels
<1> QED
  BY <1>2, <1>4, <1>5, <1>6, Zenon DEF OwnStep, Proceed, SupervisorStep

\* Who is not a handler completes the run and reports it, logs nothing and carries
\* nothing (supervisor.py:281-373).
LEMMA ControlStays ==
  ASSUME TypesOK, NobodyPolls, ControlInv, NEW t \in Threads \ Workers, OwnStep(t)
  PROVE  /\ pc'[t] \in NoRequestLabels \cup {"replay", "done"}
         /\ pc'[t] \in ReceiptLabels \cup {"report"} => phase' = "COMPLETED"
         /\ after' = after /\ (sealed' => sealed \/ phase' = "COMPLETED")
         /\ UNCHANGED <<events, mirrored, emergency, draft, ack, stamp>>
         /\ clock' \in {clock, clock + 1}
<1>1. /\ pc[t] \in NoRequestLabels \cup {"replay", "done"} /\ t \in DOMAIN pc
      /\ pc[t] \in ReceiptLabels \cup {"report"} => phase = "COMPLETED"
      /\ t \notin Reporters /\ clock \in {clock, clock + 1}
  BY Zenon DEF TypesOK, ControlInv, NobodyPolls
<1>2. ~ContainStep(t) /\ ~EmergencyStep(t) /\ ~WatchStep(t)
  BY <1>1, Zenon DEF ContainStep, Contain, SignalInflight, Isolate, MarkContained, SignAck, LogAck,
              UnsignAck, EmergencyStep, EmergencyLatch, EmergencyCut, WatchStep, Watch, WatchLatch,
              WatchCommit, NoRequestLabels, ReceiptLabels
<1>3. ~SubmitStep(t) /\ ~FailClosedStep(t)
  BY <1>1, Zenon DEF SubmitStep, LateLatch, LateCommit, Admit, OverloadCommit, MalformedCommit,
              MalformedLatch, RequestCommit, Decide, SignDecision, DecisionCommit, Record,
              KillCommit, FailClosedStep, FailClosed, FailLatch, FailCommit, FailLast,
              NoRequestLabels, ReceiptLabels
<1>4. ~DispatchStep(t) /\ ~Transport(t)
  BY <1>1, Zenon DEF DispatchStep, Dispatch, Register, BeginRefused, Begin, FinishStale, Finish,
              AbortLease, CheckCancelled, Unregister, Transport, TransportRaises,
              TransportReturns, NoRequestLabels, ReceiptLabels
<1>5. ReceiptStep(t)
  BY <1>2, <1>3, <1>4, Zenon DEF OwnStep, Proceed, SupervisorStep
<1>6. /\ after' = after /\ UNCHANGED <<events, mirrored, emergency, draft, ack, stamp>>
      /\ clock' \in {clock, clock + 1}
  BY <1>1, <1>5, Zenon DEF ReceiptStep, Complete, OpenReceipt, DeriveStatus, SealEvidence, Freeze,
              ReadClock, Ledger!Seal, evidenceVars, containVars, localVars, returnVars
<1>7. CASE Complete(t)
  BY <1>1, <1>6, <1>7, Zenon DEF Complete, MarkCompleted, Goto, evidenceVars, NoRequestLabels,
              ReceiptLabels
<1>8. CASE OpenReceipt(t) \/ DeriveStatus(t) \/ SealEvidence(t) \/ Freeze(t)
  <2>1. phase = "COMPLETED" /\ phase' = phase
    BY <1>1, <1>8, Zenon DEF OpenReceipt, DeriveStatus, SealEvidence, Freeze, ReceiptLabels,
                stateVars, latchVars
  <2>2. pc'[t] \in {"status", "seal", "freeze", "done"}
    BY <1>1, <1>8, Zenon DEF OpenReceipt, DeriveStatus, SealEvidence, Freeze, Goto
  <2> QED
    BY <1>6, <2>1, <2>2, Zenon DEF NoRequestLabels, ReceiptLabels
<1> QED
  BY <1>5, <1>7, <1>8, Zenon DEF ReceiptStep

\* What was spoilt stays so (state.py, evidence.py:79-110).
LEMMA SpoiltStays ==
  ASSUME TypesOK, PhaseMoves, LedgerMoves, faults \in 0..MaxFaults, faults' \in {faults, faults - 1},
         Spoilt
  PROVE  Spoilt'
<1>1. phase = "COMPLETED" => phase' = "COMPLETED"
  BY Zenon DEF PhaseMoves
<1>2. Len(events) \in Nat /\ Len(events') \in Nat /\ Len(events) <= Len(events')
  BY LedgerStays, Zenon
<1>3. faults # MaxFaults => faults' # MaxFaults
  BY ThreadAssumption, SMT
<1>4. Len(events) >= MaxEvents => Len(events') >= MaxEvents
  BY <1>2, ThreadAssumption, SMT
<1> QED
  BY <1>1, <1>3, <1>4, Zenon DEF Spoilt

\* Only a commit that raises takes a fault (evidence.py:60-110).
LEMMA FaultsMove ==
  ASSUME faults \in 0..MaxFaults, NEW t, OwnStep(t)
  PROVE  faults' \in {faults, faults - 1} /\ faults' \in 0..MaxFaults
<1> SUFFICES faults' = faults \/ (faults > 0 /\ faults' = faults - 1)
  BY ThreadAssumption, SMT
<1>1. ASSUME NEW e, CommitOk(e) \/ CommitRaises(e)
      PROVE  faults' = faults \/ (faults > 0 /\ faults' = faults - 1)
  BY <1>1, Zenon DEF CommitOk, CommitRaises, evidenceVars
<1>2. CASE SupervisorStep(t)
  BY <1>1, <1>2, Zenon
  DEF SupervisorStep, ContainStep, Contain, SignalInflight, Isolate, MarkContained, SignAck,
      LogAck, UnsignAck, EmergencyStep, EmergencyLatch, EmergencyCut, WatchStep, Watch,
      WatchLatch, WatchCommit, ReceiptStep, Complete, OpenReceipt, DeriveStatus, SealEvidence,
      Freeze, evidenceVars
<1>3. CASE Arrive(t) \/ SubmitStep(t) \/ FailClosedStep(t)
  BY <1>1, <1>3, Zenon
  DEF Arrive, SubmitStep, LateLatch, LateCommit, Admit, OverloadCommit, MalformedCommit,
      MalformedLatch, RequestCommit, Decide, SignDecision, DecisionCommit, Record, KillCommit,
      FailClosedStep, FailClosed, FailLatch, FailCommit, FailLast, GatewayCommit, evidenceVars
<1>4. CASE DispatchStep(t) \/ Transport(t)
  BY <1>1, <1>4, Zenon
  DEF DispatchStep, Dispatch, Register, BeginRefused, Begin, FinishStale, Finish, AbortLease,
      CheckCancelled, Unregister, Transport, TransportRaises, TransportReturns, evidenceVars
<1> QED
  BY <1>2, <1>3, <1>4, Zenon DEF OwnStep, Proceed

\* So behind the adapter the order of the log is kept (main.py:56-103).
LEMMA TurnsKeepSequence ==
  ASSUME AdapterInv, NobodyPolls, ControlInv, Spoilt \/ InSequence,
         NEW t \in Threads, OwnStep(t), Turns(t)
  PROVE  ControlInv' /\ (Spoilt' \/ InSequence')
<1>1. /\ TypesOK /\ PhaseMoves /\ LedgerMoves
      /\ \A u \in Threads \ {t} : pc'[u] = pc[u] /\ after'[u] = after[u]
      /\ Workers \subseteq Threads
  BY StepKeeps, GatewayAssumption, Zenon
  DEF AdapterInv, ContainmentInv, Shared, OwnStep, Step, Guarantee, Jumps, LocalMoves
<1>2. faults' \in {faults, faults - 1} /\ faults' \in 0..MaxFaults
  BY FaultsMove, Zenon DEF ControlInv
<1>3. phase = "COMPLETED" => phase' = "COMPLETED"
  BY <1>1, Zenon DEF PhaseMoves
<1>4. Spoilt => Spoilt'
  BY <1>1, <1>2, SpoiltStays, Zenon DEF ControlInv
<1>5. CASE t \in Workers
  <2>1. /\ ~WatchStep(t) /\ ~ReceiptStep(t)
        /\ pc'[t] \notin ReceiptLabels \cup {"complete", "report", "watch", "watch_latch",
                                             "watch_commit"}
        /\ after'[t] # "watch" /\ sealed' = sealed
    BY <1>1, <1>5, WorkerStays, Zenon
  <2>2. ControlInv'
    BY <1>1, <1>2, <1>3, <1>5, <2>1, Zenon DEF ControlInv
  <2>3. ASSUME ~Spoilt, ~Spoilt', InSequence PROVE InSequence'
    <3>1. InTurn(t)
      BY <1>1, <1>5, <2>1, <2>3, ContainTurn, GatewayTurn, ExecutorTurn, Zenon
      DEF OwnStep, Proceed, SupervisorStep
    <3>2. \A v \in Workers \ {t} : pc[v] \in {"idle", "replay", "done"}
      <4>1. Free \notin Workers
        BY <1>1, ThreadAssumption, Zenon
      <4> QED
        BY <1>5, <4>1, Zenon DEF AdapterInv, LoopInv, Turns, ControlInv
    <3>3. \A v \in Workers \ {t} : pc'[v] \in {"idle", "replay", "done"}
      BY <1>1, <3>2, Zenon
    <3> QED
      BY <1>1, <1>5, <2>3, <3>1, <3>3, TurnKeeps, Zenon
  <2> QED
    BY <1>4, <2>2, <2>3, Zenon
<1>6. CASE t \notin Workers
  <2>1. /\ pc'[t] \in NoRequestLabels \cup {"replay", "done"}
        /\ pc'[t] \in ReceiptLabels \cup {"report"} => phase' = "COMPLETED"
        /\ after' = after /\ (sealed' => sealed \/ phase' = "COMPLETED")
        /\ UNCHANGED <<events, mirrored, emergency, draft, ack, stamp>>
        /\ clock' \in {clock, clock + 1}
    BY <1>1, <1>6, ControlStays, Zenon
  <2>2. ControlInv'
    BY <1>1, <1>2, <1>3, <1>6, <2>1, Zenon DEF ControlInv
  <2>3. ASSUME InSequence PROVE InSequence'
    <3>1. \A v \in Workers : pc'[v] = pc[v] /\ CurrentClaim(v)
      BY <1>1, <1>6, <2>3, Zenon DEF InSequence
    <3>2. /\ Current(clock)' /\ clock' \in Nat
          /\ \A ns : Current(ns) =>
                /\ ns \in 0..clock'
                /\ events' # <<>> => ns >= events'[Len(events')].ns
      BY <2>1, <2>3, StaysCurrent, Zenon
    <3>3. ASSUME NEW v \in Workers PROVE CurrentClaim(v)'
      BY <2>1, <3>1, <3>2, Zenon DEF CurrentClaim, Current
    <3> QED
      BY <2>1, <2>3, <3>2, <3>3, Zenon DEF InSequence
  <2> QED
    BY <1>4, <2>2, <2>3, Zenon
<1> QED
  BY <1>5, <1>6, Zenon

\* A client that goes away has logged and carried nothing (main.py:56-103).
LEMMA LeavingKeepsSequence ==
  ASSUME TypesOK, ControlInv, Spoilt \/ InSequence, NEW w \in Workers, Leaves(w)
  PROVE  ControlInv' /\ (Spoilt' \/ InSequence')
<1>1. /\ UNCHANGED <<phase, events, mirrored, sealed, faults, clock, emergency, draft, ack, stamp,
                     after>>
      /\ pc'[w] = "done" /\ \A u \in Threads \ {w} : pc'[u] = pc[u]
  BY GatewayAssumption, Zenon DEF TypesOK, Leaves, Goto, stateVars, latchVars, evidenceVars,
         containVars, localVars, returnVars
<1>2. ControlInv'
  <2>1. \A t \in Threads : pc'[t] = pc[t] \/ (t = w /\ pc'[t] = "done")
    BY <1>1, Zenon
  <2>2. "done" \notin ReceiptLabels \cup {"complete", "report", "watch", "watch_latch",
                                          "watch_commit"}
    BY Zenon DEF ReceiptLabels
  <2> QED
    BY <1>1, <2>1, <2>2, GatewayAssumption, Zenon DEF ControlInv
<1>3. Spoilt => Spoilt'
  BY <1>1, Zenon DEF Spoilt
<1>4. ASSUME InSequence PROVE InSequence'
  <2>1. CurrentClaim(w)'
    BY <1>1, Zenon DEF CurrentClaim, RaisedLabels, StampLabels
  <2>2. ASSUME NEW v \in Workers \ {w} PROVE CurrentClaim(v)'
    <3>1. CurrentClaim(v) /\ pc'[v] = pc[v]
      BY <1>1, <1>4, GatewayAssumption, Zenon DEF InSequence
    <3> QED
      BY <1>1, <3>1, Zenon DEF CurrentClaim, Current
  <2> QED
    BY <1>1, <1>4, <2>1, <2>2, Zenon DEF InSequence, Current
<1> QED
  BY <1>2, <1>3, <1>4, Zenon

\* A new run is in sequence (factory.py, main.py:49-57).
LEMMA InitSequence ==
  ASSUME Init, NobodyPolls
  PROVE  ControlInv /\ InSequence
<1> USE DEF Init, InitSupervisor, InitState, Ledger!Init
<1>1. /\ events = <<>> /\ mirrored = 0 /\ clock = 0 /\ faults = MaxFaults
      /\ ~emergency /\ ~sealed /\ DOMAIN stamp = Threads
  BY Zenon
<1>2. \A t \in Threads : after[t] = "done"
  BY Zenon
<1>3. /\ \A w \in Workers : pc[w] \in {"idle", "replay"}
      /\ \A t \in Threads \ Workers : pc[t] \in {"replay", "complete"}
  <2>1. \A t \in Threads : pc[t] = FirstLabel(t)
    BY Zenon
  <2>2. ASSUME NEW w \in Workers PROVE pc[w] \in {"idle", "replay"}
    <3>1. w \in Threads /\ w \notin Watchdogs /\ w \notin Completers /\ w \notin Reporters
      BY GatewayAssumption, Zenon DEF NobodyPolls
    <3> QED
      BY <2>1, <3>1, Zenon DEF FirstLabel
  <2>3. ASSUME NEW t \in Threads \ Workers PROVE pc[t] \in {"replay", "complete"}
    <3>1. /\ t \in Replayers \cup Completers
          /\ t \notin Workers /\ t \notin Watchdogs /\ t \notin Reporters
      BY RolesAssumption, Zenon DEF NobodyPolls
    <3> QED
      BY <2>1, <3>1, Zenon DEF FirstLabel
  <2> QED
    BY <2>2, <2>3, Zenon
<1>4. ControlInv
  <2>1. faults \in 0..MaxFaults
    BY <1>1, ThreadAssumption, SMT
  <2>2. \A t \in Threads : pc[t] \in {"idle", "replay", "complete"}
    BY <1>3, Zenon
  <2> QED
    BY <1>1, <1>2, <1>3, <2>1, <2>2, Zenon DEF ControlInv, NoRequestLabels, ReceiptLabels
<1>5. mirrored = Len(events) /\ clock \in Nat /\ clock \in 0..clock
  BY <1>1, SMT
<1>6. \A w \in Workers : CurrentClaim(w)
  BY <1>3, Zenon DEF CurrentClaim, RaisedLabels, StampLabels
<1> QED
  BY <1>1, <1>4, <1>5, <1>6, Zenon DEF InSequence, Current

\* Behind the adapter, where nobody polls the watchdog or the receipt, every event is
\* logged with a time the mirror accepts: the one event loop lets no other handler log
\* between a reading of the clock and its use (main.py:56-103, gateway.py:93-255).
THEOREM AdapterInSequence ==
  AdapterSpec => [](NobodyPolls => ControlInv /\ (Spoilt \/ InSequence))
<1> DEFINE Inv == NobodyPolls => ControlInv /\ (Spoilt \/ InSequence)
<1>1. AdapterInit => Inv
  BY InitSequence, Zenon DEF AdapterInit
<1>2. AdapterInv /\ Inv /\ [AdapterNext]_<<containmentVars, adapterVars>> => Inv'
  <2> SUFFICES ASSUME AdapterInv, NobodyPolls, ControlInv, Spoilt \/ InSequence,
                      [AdapterNext]_<<containmentVars, adapterVars>>
               PROVE  ControlInv' /\ (Spoilt' \/ InSequence')
    BY Zenon DEF NobodyPolls
  <2>1. TypesOK
    BY Zenon DEF AdapterInv, ContainmentInv, Shared
  <2>2. CASE UNCHANGED <<containmentVars, loop>>
    <3>1. UNCHANGED <<phase, events, mirrored, sealed, faults, clock, emergency, draft, ack, stamp,
                      after, pc>>
      BY <2>2, Zenon DEF containmentVars, supervisorVars, stateVars, latchVars, evidenceVars,
                  containVars, localVars, returnVars
    <3> QED
      BY <3>1, Zenon DEF ControlInv, Spoilt, InSequence, CurrentClaim, Current
  <2>3. ASSUME NEW w \in Workers, Leaves(w)
        PROVE  ControlInv' /\ (Spoilt' \/ InSequence')
    BY <2>1, <2>3, LeavingKeepsSequence, Zenon
  <2>4. ASSUME NEW t \in Threads, OwnStep(t), Turns(t)
        PROVE  ControlInv' /\ (Spoilt' \/ InSequence')
    BY <2>4, TurnsKeepSequence, Zenon
  <2> QED
    BY <2>2, <2>3, <2>4, AdapterSteps, Zenon
<1> QED
  BY <1>1, <1>2, AdapterInvariance, PTL DEF AdapterSpec
=============================================================================
