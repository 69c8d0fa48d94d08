# BCP-1 reference runtime: TLA+ models, model checking and proofs

This directory models the containment runtime of the repository (`app/`, `auditor/`): a gateway that
logs and decides each request, one-use signed capabilities, an executor, a supervisor that kills the
run and signs a receipt, and an offline auditor. `PROJECT.json` lists components, runs, the source
lines behind each definition, findings, hazards and theorems.

## 1. The system

| Part | State | Operations |
|---|---|---|
| `RunState` (`app/state.py`) | phase, kill epoch, consumed authorizations, leases, rate window, counters | `admit`, `latch_kill`, `record_decision`, `begin_authorized`, `finish_authorized`, `abort_authorized`, `mark_killed`, `mark_completed` |
| `EvidenceLedger` (`app/evidence.py`) | events, write-ahead log, sealed flag, lock, commit slots | `commit`, `append`, `seal` |
| `EvidenceMirror`, `TransparencyWitness` (`app/supervisor.py`) | last event folded in; the one root per run | `observe`, `snapshot`, `checkpoint` |
| `Supervisor` (`app/supervisor.py`) | acknowledgement, emergency flag, isolation result, frozen receipt, two locks | `contain`, `emergency_isolate`, `enforce_runtime_deadline`, `complete`, `receipt` |
| `Gateway` (`app/gateway.py`) | none of its own | `submit_raw`, `fail_closed` |
| HTTP adapter (`app/main.py`) | one event loop; the body read so far | the dispatch handler, `complete`, `receipt` |
| `Executor`, `InflightRegistry`, `CredentialBroker` (`app/executor.py`) | cancellation handles | `dispatch`, `register`, `unregister`, `signal_all`, `release` |
| `PolicyEngine` (`app/policy.py`) | uses per rule and per credential | `authorize` |
| Contracts (`app/models.py`, `app/action.py`) | none | canonical JSON, manifests, second-hop attestations, decisions, acknowledgements, receipts |
| Auditor (`auditor/verify.py`) | traces of one pass over the file | `_inspect_events`, `verify_bundle` |

A request is logged (REQUEST), decided and logged (DECISION) and its capability released. The
executor consumes the capability and logs DISPATCH under the lock of `RunState`, calls the transport,
and logs RESULT under that lock. A violation latches the kill, is logged, and `contain` signals the
transports in flight, isolates the workload, marks the run KILLED and logs the acknowledgement.
Any commit can raise; the gateway then isolates the run without an acknowledgement.

What makes this hard: threads meet in `RunState`, in the ledger, and between `contain` and `receipt`,
which hold different locks; clock readings are taken before the ledger lock is; every commit has a
failure path of its own; a transport may never answer; the process may die with its log half written.
The classes take locks and `tests/test_contract.py` drives them from several threads: that use is what
`Containment` assumes. The HTTP handlers are `async def` over synchronous code, so one adapter gives
control away only while it waits for a body: that use is what `Adapter` assumes.

## 2. Modules

| Module | Models |
|---|---|
| `KillSwitch` | abstract: one use per capability, only while RUNNING; the mode never moves back |
| `RunState`, `RunStateSpec` | each method is one action, since each holds the lock throughout; `RunStateSpec` lets threads call them in any order |
| `AtomicLedger` | abstract: commit as one step that is mirrored, or appended and refused by the mirror |
| `EvidenceLedger` | slots, lock, log, memory, mirror, seal and witness as separate steps; implements `AtomicLedger` |
| `LedgerRestart` | the same ledger over the lines of a log file, with crashes, short writes and new processes |
| `Supervisor`, `Gateway`, `Executor` | the methods as labelled steps of threads over `RunState` and `AtomicLedger`; each extends the one before |
| `Containment` | the composition and its properties |
| `ContainmentAudit`, `MCContainment` | the auditor applied to the evidence of `Containment`; values for TLC |
| `Auditor`, `AuditorSpec` | the auditor's checks as operators; reading arbitrary short files |
| `WellFormedFile` | what an evidence file is when nothing is wrong with it, said of the whole file at once |
| `Paths` | unambiguous paths and prefix matching, and what a prefix means by segments |
| `Manifest` | validation, signing and verification of manifests and of second-hop attestations |
| `Policy` | `authorize`: matching outside the lock, charging inside it |
| `Authorization`, `MCAuthorization` | from the signed manifest through decision, binding checks and broker to the transport; values for TLC |
| `CanonicalJson` | parsing, limits, key order and the canonical text of a value; `Action`'s body checks |
| `Adapter` | the handlers of one event loop around `Containment`, whatever parser they are given (`FromWire`) |
| `AdapterDocuments`, `MCAdapter` | the documents that reach the handlers, with the parser of `CanonicalJson`; values for TLC |
| `RunStateProofs`, `LedgerProofs`, `AuthorizationProofs`, `AuditorProofs` | the proofs about `RunStateSpec`, `EvidenceLedger` and `LedgerRestart`, `Authorization`, `AuditorSpec` |
| `ContainmentInvariant`, `ContainmentProofs`, `AcknowledgementProofs` | the invariants of `Containment` and `Adapter` (definitions only) and their proofs |
| `EvidenceInvariant`, `EvidenceProofs` | the proofs about the evidence that `Containment` and `Adapter` leave and what the auditor makes of it |

A step ends where another thread can observe or change something: at a lock of another object, or at
an attribute another method reads without the lock. In `Containment` the outcome of parser and policy is
the kind of the request (`Inputs`); `Adapter` derives malformed from the document that arrives, and
`Authorization` derives allow and kill from the manifest. A commit fails because the ledger is sealed or
full, because the mirror refuses the event's time or a sequence gap, or (at most `MaxFaults` times) for
want of a slot or disk. `ReadClock` returns the present time or lets it pass by one.

What is abstracted:
- Hashes are the value hashed with its domain, signatures the key with the message: collision-free and
  unforgeable. `Containment`, the ledger and the auditor leave valid ones out; `Manifest` and
  `Authorization` compare them.
- `Policy` takes method, address, pin and size of an action as one shape that a rule accepts or not.
- A JSON string is a sequence of code points. A text is its value in the order written and whether it is
  spelled as `canonical_json` spells it.
- Of the wall clock `contain` keeps whether it stepped back; the kill-latency limit is left out.
- `LedgerRestart` has one commit path for all kinds of event, and no `RunState`: what a process would do
  next is any sequence of commits, `seal` and receipts.

## 3. Runs that pass

| Run | Question |
|---|---|
| `run_state` | accounting, budget, counters, epoch and finality of `RunState`; refinement of `KillSwitch` |
| `ledger` | does the locking make `commit` atomic, and does every way out give slot and lock back |
| `restart` | processes die between any two steps and inside a write: can what `commit` returned be read back, is the log one chain, can one manifest get receipts with two roots, or one that misses a returned commit |
| `containment` | two requests of every kind: can a dispatch follow a latched trigger, can a kill isolate twice, publish an unlogged acknowledgement or one that does not validate, does the evidence of the killed run, once quiet, satisfy the auditor's event and counter checks |
| `receipt` | a second presentation, the watchdog, completion and receipts racing a request and its containment: every dispatch is authorized; the signed root and the receipt stand; the evidence of the completed or killed run satisfies the auditor |
| `kill_liveness` | a latched kill is carried through although transports may hang, a commit fails and the ledger is full |
| `auditor` | the one-pass auditor accepts exactly the files whose events fit (`Fits`), and counts them right |
| `authorization` | budgets under concurrent calls; prefixes end at segments; what is allowed is granted and attested; every decision validates; whatever the executor is shown, what reaches the transport was allowed |
| `event_loop` | handlers of one event loop: an answer means a result or a closed run, an accepted value has one text, limits are exact; `NoDispatchAfterTrigger` and `KillIsAcknowledged`, which threads violate (section 4), hold |

`QuietRunAudits` is about runs that `QuietRun` describes. It sets aside a failing commit, a clock that
steps back, repeated request ids, a violation the watchdog logs too late, a dispatch stamped after its
expiry or behind the violation of a malformed request; and of the auditor's checks the number of
unfinished dispatches. Section 4 has each of these. `AckUnlessEmergency` is
about a clock that does not step back, and `ReturnedIsReadable` about writes that are not short: section
4 again. `LogIsOneChain` sets aside logs in which a write raised, since the next event then takes the
same number. `kill_liveness` has no watchdog, whose stall is in section 4. `Fits` follows the code in
accepting a RESULT after a confirmed CANCELLATION (`EndsOnce`, section 4).

**Bounds.** Two workers give every race of two requests; a replayer, watchdog, completer or reporter is
added where the question needs one, in `receipt` all of them beside one worker. `MaxClock` 1 or 2 is
enough for a reading to be stale and for the deadline to pass. `MaxEvents = 12` exceeds what the threads
log; the event budget is reached in `ledger` (3), `receipt` (5) and `kill_liveness` (4). `MaxEgress = 1`
with two dispatches of one byte makes the second over budget. With `Cancelling` the isolation backend of
`containment` reports any number of the dispatches that wait for their transport; elsewhere it reports
none, as the reference one does. In `Containment` the overload comes from `oversize`: `MaxAdmitted` and
`MaxPerWindow` equal the number of workers. The other limits of `admit` are explored by `run_state`.
`restart` starts three processes, with two threads and three commits, so that a crash can follow a
receipt and a receipt a crash. Files of the auditor have at most six events over two requests.
`authorization` has a manifest in which every check of `authorize` can fail and one variant for each
check of `Manifest.sign`; TLC starts from those that can be signed. `event_loop` has one document for
each thing the parser refuses and for each limit and the step beyond it, scaled down to depth 3 and 5
nodes; its deadline passes within the run and one commit may fail.

**Fairness.** `FairSpec` of `Containment` is weak fairness of each thread's own steps: no thread stops
for ever inside Python code. Nothing is assumed of the transport, of arrivals or of replays. Polling
threads (watchdog, reporter) keep polling. `FairSpec` of `EvidenceLedger` is weak fairness of the steps
inside `commit`; `MaxCommits` bounds the contenders, so an unfair lock cannot starve a caller in the model.

**Deadlock.** `Containment` and `Adapter` are checked for deadlock: a state without a step has all
threads finished or polling. The other specifications stop at their bounds.

## 4. Runs that end in a violation

Each states what a document, test, comment or check of the repository says, and shows a behaviour of the
code that differs; `findings` in `PROJECT.json` quotes the line.

| Run | Behaviour |
|---|---|
| `malformed_race` | the violation of an unparseable request is logged before the latch; a dispatch comes in between |
| `failed_transport` | a raising transport loses its lease before the kill counts what is in flight |
| `watchdog_stall` | the watchdog latches, cannot log, and nobody isolates |

The following properties do not hold of the code either. They are not kept as runs; the models state
them, and TLC violates them with the constants given. Constants not named are those of
`FailedTransport.cfg`; `Threads` is the union of the thread sets.

| Property | Constants | Behaviour |
|---|---|---|
| `KillIsAcknowledged` | those of `MalformedRace.cfg` with `Inputs = {"allow", "misframed"}`, `MaxClock = 1` | the time of the trigger is read before a racing DISPATCH is stamped and logged (`gateway.py:233`); the mirror refuses the violation and no acknowledgement is published, as in `watchdog_stall`; `tests/test_contract.py:198` asserts the contrary for this race |
| `AckUnlessEmergency` | `MaxWallSteps = 1` | the wall clock steps back inside `contain` (`supervisor.py:219`, `230`): the acknowledgement does not validate, and the run is KILLED without one |
| `DurablyCommitted` | those of `LedgerRestart.cfg` | `append` ignores the count that the unbuffered write returns (`evidence.py:102`): after a short write the line cannot be read back although `commit` returned |
| `FrozenReceiptVerifies` | `Reporters = {r}`, `Inputs = {"misframed"}` | a receipt is frozen between publishing and logging the acknowledgement (`supervisor.py:257`); `verify.py:266` rejects it |
| `FrozenReceiptVerifies` | `Completers = {c}` | completion seals the ledger in the middle of a request (`supervisor.py:283`) |
| `KilledRunGetsReceipt`, under `FairSpec` | `Reporters = {r}`, `MaxFaults = 1` | a commit failure after the acknowledgement makes status and acknowledgement exclude each other (`supervisor.py:317`, `models.py:1360`) |
| `NoEventPerLateRequest` | those of `MalformedRace.cfg` with `Inputs = {"allow"}`, `Deadline = 0`, `MaxClock = 2` | requests after the deadline are logged one by one, also after the kill (`gateway.py:98`); STANDARD.md:146 wants counters only |
| `DispatchBeforeExpiry` | `Ttl = 0`, `MaxClock = 1` | DISPATCH is stamped after the expiry, which was checked with an older reading (`executor.py:132`, `main.py:92`) |
| `QuietRunAudits` without `DistinctIds` in `QuietRun` | those of `MalformedRace.cfg` with `RequestOf <- OneRequest`, `Inputs = {"allow", "oversize"}`, no symmetry | a repeated request id is admitted (`gateway.py:150`); `verify.py:77` rejects the file |
| `EndsOnce` | those of `AuditorSpec.cfg` | the auditor accepts RESULT after a confirmed CANCELLATION (`verify.py:148`) |

Besides, a dispatch whose commit failed stays counted (`state.py:173`), so that the counters of the
receipt and the evidence differ; `QuietRunAudits` without the conjunct `faults = MaxFaults` of `QuietRun`
shows it for `MaxFaults = 1`. The watchdog reads its clock before it latches and only raises when the
mirror refuses its violation (`supervisor.py:296`): a run that another thread has killed and acknowledged
in between keeps an event that no receipt covers. `QuietRunAudits` without `Overtaken = {}` shows it with
the constants of `ContainmentReceipt.cfg` and `MaxClock = 2`. A client that goes away while its body is
awaited ends the handler without `fail_closed` (`Disconnect` of `Adapter`); nothing was submitted then,
and `AnsweredOrClosed` leaves it out.

## 5. Proofs

`RunStateProofs` proves, for every finite set of authorizations, every positive limit and all inputs
(`CriteriaAssumption`, `InputAssumption`): `Spec => []IInv`, and from it `LeaseAccounting`,
`EgressWithinBudget`, `OneUse`, `CountersCoherent`, `LatchedOnce`, `KilledIsFinal` and the refinement of
`KillSwitch`.

None of these is inductive alone. The budget needs the hand-kept `reserved` to be the sum of the leases,
or a release could leave too little reserved. The sum is stated as a cardinality, one element per reserved
byte (`Held`), since a recursive sum would need induction; `active[a] <= MaxEgress` keeps each lease
inside the set that is counted. `dispatched <= allowed` follows from `dispatched = Cardinality(consumed)`,
`consumed \subseteq issued` and `allowed = Cardinality(issued)`. That nothing is credited after the kill
needs the lease table of a KILLED run to be empty.

`LedgerProofs` proves of `EvidenceLedger`, for any finite set of threads, any positive number of slots and
of events (`LedgerAssumption`): `Spec => []LedgerInv`, and from it `MirrorIsPrefix`, `ReturnedIsMirrored`,
`SlotsConserved`, `MemoryIsDurable`, `RootIsFinal`, `SealIsFinal` and the refinement of `AtomicLedger`.

The argument rests on two strengthenings. `LockHeld` ties each thread's place in `commit` to the lock, and
says that the lock is never held once the ledger is sealed, so nothing is still on its way when `seal`
returns. `Chained` numbers the events from zero and links them by hash, so that the mirror's check of
sequence number and predecessor accepts an event only when exactly that one is missing: the mirror stays a
prefix. `root # <<>> => sealed` makes a witnessed root final. In the refinement the abstract ledger is
`Committed`, which leaves out an event appended under a lock that is still held: `append` is a stutter and
the mirror's `observe` is the commit.

Of `LedgerRestart`, with any number of processes (`RestartAssumption`), it proves `RestartSpec =>
[]RestartInv`, and from it `OneRootPerManifest`, `ReturnedIsReadable` and `ReceiptCoversReturned`.
`RestartInv` cannot contain `LedgerInv`: memory is empty again after a crash while log, witness and
receipts are not. It keeps what survives. Receipts hold no root but the witness's, which gives the first
property. With a log, the file is not empty once a commit has returned, so `__init__` refuses every later
process and the memory of the first one still has all that returned, which gives the last. Without a short
write each line of the file but an unfinished last one is the hash of its event (`FileIsSound`), and so
readable. `LogIsOneChain` needs an invariant of its own, `ChainInv`: as long as no write raised, memory is
what was written, what was written is a chain, and line `i` of the file holds event `i` as far as the file
can be read. A torn line ends what is readable, and `__init__` lets no later process write to the file.

`AuthorizationProofs` proves, for every set of manifests the operator can sign, all actions, times and
callers and all decisions of other runs (`PolicyAssumption`, `AuthorizationAssumption`,
`FieldsAssumption`): `Spec => []AuthorizationInv`, and from it `BudgetsAreExact`, `PathsMatchBySegment`,
`AllowedIsGranted`, `DecisionsValidate`, `EffectsAreAllowed` and `OnlyTheSignedBodyVerifies`. `PolicyInv`
has what `Match` found still stand when `Charge` uses it, and each use counter equal to the number of
allowed callers it was charged for, so that a budget is never exceeded; counting over a finite set gains
one with each charge (`CountOneMore`). The signed decision of a caller is a function of its action, rule
and time (`DecisionBody`), and a digest fixes the action: what passes `BoundTo` was signed for this action
in this run (`BoundIsAllowed`). That the secret is the one of the charged grant needs credential ids to be
distinct (`OneGrantPerName`), which `sorted_unique` in the manifest gives.

`FieldsAssumption` states the fields' types and that an action's path passed `path_is_unambiguous`, which
`Action` enforces; for the prefixes the same follows from `Signable`. `PathsMatchBySegment` then holds for
paths of every length. `_path_matches` compares characters, while `UnderPrefix` speaks of segments, each
between two slashes. Around every character but a slash there is a segment (`SegmentAround`): its ends are
the nearest slashes, which the least-number principle finds (`Least`, an instance of well-founded
induction that needs no operator parameter). The last segment of the prefix ends where `rstrip` leaves it,
so that the path agrees up to there and goes on with a slash or not at all (`SegmentsByPosition`).
`AllowedIsGranted` adds that the first matching rule matches (`FirstMatches`) and that a second hop covers
the validity of the manifest (`HopsAttested`).

`ContainmentProofs` proves for the composed runtime, with any number of threads in every role and every
value of the bounds: `Spec => []ContainmentInv`, and from it `NoDispatchAfterLatchedTrigger`,
`DispatchIsAuthorized`, `IsolatedOnce`, `WitnessedRootStands`, `ReceiptIsFrozen` and the refinement of
`KillSwitch`. The argument is rely-guarantee, since `Containment` has some sixty steps and an invariant
per pair would be out of hand. `ContainmentInv` is a part about shared state (`Shared`) and a claim per
thread (`Claim(t)`: what holds at the label where `t` stands). `Guarantee(t)` says what any step of `t`
may do to shared state: the phase only moves forward, the ledger only grows and not once sealed, a trigger
other than that of a malformed request (see section 4) is added only with the kill latched, a DISPATCH
only while RUNNING for an authorized capability that is consumed with it. `ContainmentProofs` shows of
every step that it keeps to the guarantee and establishes its own thread's claim, and that the guarantee
preserves `Shared` and every other thread's claim. The claims that carry the
weight: whoever is about to log such a trigger has latched (`LatchedLabels`), and whoever holds a
capability has its ALLOW decision in the mirror (`Authorized`).

`AcknowledgementProofs` adds `Spec => []KillInv`, in the same style, and from it `AckIsLogged` and, while
the wall clock has not stepped back (`wallSteps = 0`, see section 4), `AckUnlessEmergency`. What `contain`
signs validates only if the dispatches cancelled are at most those signalled and those in flight, three
numbers taken one after the other from `RunState`, from the registry and from the isolation backend.
`KillInv` ties them together: `inflight` is the number of leases (`LeaseInv`); a dispatch that waits for
its transport is registered under an authorization nobody else holds and, until the run is KILLED, has a
lease (`HoldClaim`); the kill is latched when `contain` counts, so no dispatch can start to wait after the
count, and the number that waits stays below both counts (`AckClaim`). That exactly one acknowledgement is
logged, and is the one published, follows from the lock: whoever stands inside `contain` owns it, has
logged none, and withdraws what it published if the commit raises.

`AuditorProofs` proves, for files of any length over any requests and authorizations and for any
acknowledgement in the receipt, what `_inspect_events` makes of a file of readable events
(`FileInspected`): it accepts exactly the well-formed ones, and then each field it keeps is what the file
holds (`Kept`): the position and the decision of each request, the sets of dispatched, completed and
cancelled requests, the barrier, the acknowledgement, the numbers of events of each kind. For each kind of
event one lemma shows what `Inspect` does with it (`RequestTurn` and so on) and one that the fields reject
it exactly when it does not fit and remember it when it does (`RequestJudged` and so on). That a dispatch
may be judged by request or by authorization needs both to name the same decision (`Authorized`). The pass
is a recursive function over the positions of the file. That it is what its definition says needs its
value at `n` to depend on smaller positions only (`LoopRuns`), which the least-number principle gives
(`Least`), as it gives the induction over positions (`Induction`). Of `AuditorSpec`, where the file grows
by one event at a time, the same lemmas give `Spec => []AuditInv`, and from it `AcceptsWellFormed` and
`CountsTheFile`, with no assumption on the constants.

`EvidenceInvariant` and `EvidenceProofs` join the two: `Spec => []QuietRunAudits`, for any number of threads
in every role and every bound. `FileInspected` reduces it to three statements about the runtime alone:
the ledger of a quiet run is mirrored, it is well formed, and the counters of `RunState` are its numbers
of events. None of these is inductive, since a run is quiet only at the end. `EvidenceInv` says of every
state what the events the mirror has accepted (`Log`) have to do with the rest:
- `EventsOK`, `LoggedOnce`: each event names what its thread knew (a decision its request, a result its
  dispatch), and no request, decision, result or acknowledgement is logged twice;
- `CountersOK`: the counters are the numbers of events, but for a decision that is logged and not yet
  recorded, and for dispatches once a commit has failed (`Excused`);
- `LeasesLogged`, `RequestsDecided`: a lease is for a dispatch without a result; a logged request is
  decided, or its worker is about to decide it or to isolate the run;
- `TimesOK`: no reading is ahead of the clock, and the times of accepted events do not decrease;
- `MirrorInv`: the mirror is behind the ledger only in an emergency, or when a thread is on its way there,
  or through an overtaken watchdog;
- `OverInv` and a claim per thread (`LogClaim`): what is logged for the request of a thread at its label.

The proof is again rely-guarantee. `EvidenceMoves(t)` has what a step of `t` may do, one alternative per
kind of event it can log; the lemmas named `...Evidence` show it of every step, the lemmas named
`...Keep` that such steps preserve the invariant. It needs distinct request ids, so the theorem is
`Spec => [](DistinctIds => EvidenceInv)`, and it rests on `ContainmentInv` and `KillInv`: a dispatch is
never logged twice because its capability is consumed, and an acknowledgement because the lock of
`contain` is held. `RoleInv` adds that only requests are ever inside gateway and executor. `LogFits` then
derives that every event of a quiet run fits, `QuietCounts` that the counters are those of the file, and
`EvidenceInspected` hands both to `FileInspected`. Proving it showed that `QuietRunAudits` had been too
strong: with the bounds of its runs no watchdog could be overtaken, in general one can (section 4).

Behind the adapter `ContainmentProofs`, `AcknowledgementProofs` and `EvidenceProofs` show what one event
loop adds, for any number of clients and of threads beside the loop, any requests, lengths and chunks (`AdapterAssumption`) and any parser: `FromWire` is
a constant, so that `Adapter` does not reach the recursive definitions of `CanonicalJson`. Each step of
`Adapter` is a step of one thread of `Containment`, a client that leaves before it has submitted anything
(`Leaves`), or does not change the runtime (`AdapterSteps`); leaving keeps every invariant above, so all of
them hold behind the adapter, and with them `QuietRunAudits` (`AdapterRunsAudit`), `AckIsLogged` and
`AckUnlessEmergency` (`AdapterAcknowledges`). `AdapterSpec => []AdapterInv` adds:
- `LoopInv`: a worker inside gateway or executor has the event loop, so at most one is;
- `AnswerInv`: a worker that returns without a RESULT does so after the run has left RUNNING; this gives
  `AnsweredOrClosed`. Each place from which it may return has its claim, and `cancelled` is empty while the
  run is RUNNING, or a dispatch could end quietly;
- `MalformedInv`: while the violation of a malformed request is logged and the kill not latched, its worker
  stands before the latch. With `LoopInv` nobody dispatches meanwhile, which gives
  `NoDispatchAfterTrigger`; with threads somebody can (section 4).

`AdapterInSequence` is about time. A worker that carries a clock reading carries one the mirror will accept
(`CurrentClaim`), since no other handler logs between the reading and its use; so the mirror refuses nothing
and nobody is on the way out of a commit that raised (`InSequence`), until a commit fails for another reason
(`Spoilt`: a fault, the event budget, a ledger that completion has sealed). It assumes `NobodyPolls`: a
watchdog has a thread and a clock reading of its own, a receipt seals the ledger, and who completes the run
is no client. With it,
`AdapterKillsAreAcknowledged` shows `KillIsAcknowledged` as long as the wall clock has not stepped back and
the event budget is not used up; each of the three is needed (section 4 for the watchdog and the wall clock;
an exhausted budget makes every commit raise).

Only model-checked:
- the liveness properties: fairness and ENABLED are outside the prover's reach;
- `OneTextPerMeaning` and `LimitsAreExact`: canonical JSON is a recursive definition over values, and what
  it computes needs induction over them.

## 6. Not modelled

The validators of timestamps, identifiers, hosts, addresses and pins compare a text with its one spelling
in the libraries `datetime`, `idna` and `ipaddress`; they have no state and stay with the tests, as do
bearer authentication and the JSON responses of the adapter. Key generation and the demonstration
manifest of `factory.py` are values. An isolation callback that raises is not modelled: the reference one
cannot. Nothing in the code reads a log back to resume a run, so `LedgerRestart` has no recovery beyond
the refusal of a log that is not empty. Benchmarks, demos and packaging scripts only drive the parts above.

## 7. Plan

1. Join `Authorization` and `Containment`, so that the policy's answer and the budget's exhaustion race
   the kill.
2. Give the watchdog and the receipt requests of `Adapter` a schedule of their own, to see how much of
   `AdapterInSequence` holds beside them.
