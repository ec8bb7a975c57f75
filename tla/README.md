# Ito: a TLA+ model

This directory models the trading core of Ito and the programs around it,
model-checks them with TLC and proves their central invariants with TLAPS.
Definitions are translated from the sources; `PROJECT.json` maps each one to the
lines it stands for and lists the runs, the mutants each property must catch,
the hazards, the findings and the theorems.

## The system

| Part | Code | State and who changes it |
|---|---|---|
| Risk engine | `cpp/ito_risk/risk_engine.cpp` | limits, position, health, rate window; any thread, one mutex |
| Execution engine | `cpp/ito_execution/execution_engine.cpp` | gateway state, halt, circuit breaker, active orders; any thread, one mutex, calls the risk engine |
| Event journal | `cpp/ito_core/event.cpp` | append-only events; both engines, the simulator and its adapter, own mutex |
| Journal file | `cpp/ito_journal/journal_file.cpp`, `python/ops_tools/reconcile_uncertain_orders.py` | lines on disk, reopened after a crash, read by a tool |
| Leases | `cpp/ito_session/lease_fencer.cpp`, `interfaces/recovery/lease_store.py`, `python/operations/failover_drill.py` | owner, epoch or token, expiry; nodes with old clocks |
| Venue contracts | `interfaces/venue/order_gateway.py`, `scripts/operations/production_gate_simulations.py` | orders at a venue; clients that lose answers |
| Market data | `python/connectivity/itch_handler.py` | a stock's book rebuilt from packets |
| Reconciliation | `python/reconciliation/reconcile.py` | two lists of orders and what differs |
| Stores | `python/operations/durable_store.py`, `interfaces/recovery/checkpoint_store.py` | SQLite tables; several processes |
| Backup, inspection | `scripts/operations/backup_restore.py`, `inspect_evidence.py` | files, archive, manifest, restored copies |
| Custody | `interfaces/custody/key_store.py`, `python/operations/hsm_simulator.py` | versions of keys, audit log |
| Deployment | `scripts/deploy_ito.py` | nodes brought up and down by docker commands |
| Portfolio, backtests | `python/portfolio/portfolio.py`, `python/backtest/engine.py` | positions, locates, resting orders, fills |

An order goes through `submit`: the execution engine checks halt, gateway,
circuit and duplicates under its mutex, calls `RiskEngine::evaluate` (which takes
the risk engine's mutex and writes the decision to the journal), and then records
the order as sent and active. `acknowledge`, `cancel_replace`, `set_halted` and
`set_gateway_state` compete for the same mutex; `set_limits`, `set_health`,
`set_position` and `apply_fill` compete with `evaluate` for the risk engine's.
The other parts are programs and libraries of their own. They meet the core, and
each other, through files and clocks: the uncertain-order tool reads the journal
file, the failover drill is asked about a lease, the inspection reads what the
backup wrote.

## Modules

| Module | Models |
|---|---|
| `RiskEngine` | `risk_engine.cpp`: one action per member, `Verdict` for evaluate's checks in their order |
| `RiskClock` | the risk engine with a clock that does not go back, and the times of its approvals |
| `ExecutionEngine` | `execution_engine.cpp` composed with `RiskEngine` |
| `SessionReadiness` | `ExecutionEngine` and the session state last reported to it |
| `OrderEvidence` | `ExecutionEngine` and the journal both engines append to, alone or with other writers |
| `JournalFile` | the journal on disk, crashes inside a line, and the uncertain-order tool |
| `LeaseStore`, `LeaseFencer` | the Python and the C++ lease service and their callers |
| `FencedLease` | what both promise |
| `Failover` | the drill's answer beside `LeaseFencer` |
| `OrderGateway`, `VenueSession` | the simulated gateway, and the simulated session with its client |
| `ClientOrders` | what both promise of an order id |
| `ItchFeed` | packets, messages, captures and `ItchOrderBookTracker` |
| `Sums` | the sum of a list of numbers |
| `OrderBook` | what a reader of the tracker relies on |
| `Reconciliation` | `reconcile.py`: index, compare, ambiguity |
| `DurableStore` | event store, snapshots and checkpoints, statement by statement |
| `BackupRestore`, `EvidenceInspection` | backup and restore file by file; the inspection composed with them |
| `KeyCustody` | `InMemoryKeyStore` with its signer, and `SimulatedHsm` |
| `KeyVersions` | what both promise of a key's versions |
| `HsmSimulator` | metadata, audit log, export and import of `HSMSimulator` |
| `Deployment` | the actions of `deploy_ito.py` over an inventory |
| `Portfolio` | fills, locates, `validate_order`, `snapshot` with the factor model |
| `Microstructure`, `ReplayBacktest` | the two backtest engines |
| `TradeLedger` | what both promise of fills and position |
| `EngineProofs` | theorems about `ExecutionEngine` |
| `EvidenceProofs`, `JournalProofs` | theorems about `OrderEvidence`; the second one has the replay of the journal |
| `RecoveryProofs` | theorems about `DurableStore`, `BackupRestore` and `EvidenceInspection` |
| `OperationsProofs` | theorems about `KeyCustody`, `HsmSimulator`, `Deployment` and `JournalFile` |
| `ConnectivityProofs` | theorems about the lease services, `OrderGateway` and `VenueSession` |
| `TradingProofs` | theorems about `RiskEngine`, `RiskClock`, `ReplayBacktest` and `Reconciliation` |
| `PortfolioProofs` | theorems about `Portfolio` |
| `MC...` | instances for TLC |

`MCRecovery`, `MCTrading`, `MCConnectivity` and `MCRisk` each hold several
components, or several kinds of callers, that share no state. A variable chosen
at the start (`drill`, `desk`, `part`, `callers`) says which of them a behaviour
exercises; the number of states is the sum over the components, not the product.

**State.** A variable stands for a member or a table of the code; the comment at
its declaration names it. `active` is the map `active_` with `venueId = 0` for a
missing entry. History variables (`probes`, `lateSends`, `granted`, `session`,
`believed`, `answers` and the like) record what callers saw or what was sent. No
action of the code reads one.

**Atomicity.** A member that holds its mutex throughout and calls nothing with a
mutex of its own is one action. `submit` is `SubmitCall`, `SubmitEvaluate` and
`SubmitReject`/`SubmitSend`; `call` holds the submission between them and keeps
other members of the engine out, while the risk engine stays open to everyone.
`OrderEvidence` also splits `evaluate`'s approval: it reads `next_sequence` and
appends in a second call (`decision.pending`). In the stores one SQL statement, or
one `with connection` block, is one action. Backup, restore and inspection handle
one file at a time, the deployment one docker command. A caller of a lease
service reads its clock in one action and calls in a later one.

**Faults.** Processes stop between any two statements (`DurableStore`,
`BackupRestore`), in the middle of a line (`JournalFile`) or of a call
(`Deployment`). A row of a table is lost or fails its
checksum (`DurableStore`). Packets and
answers are lost, repeated, late or cut (`ItchFeed`, `VenueSession`), answers to
callers are lost (`OrderGateway`), docker commands fail before or after their
effect, nodes crash and come back without their lease or under their old name.

**Data.** Identifiers, prices, sizes and times are small integers; int64 is
`-MaxInt64-1 .. MaxInt64` for a parameter `MaxInt64`, and the circuit's
`now_ns - circuit_opened_at_ns_` is taken modulo `ClockModulus`, as the unsigned
subtraction does. `now_ns` is read by the caller before it gets the mutex, so it
is any member of `Times`, in any order, except in `RiskClock`. A journal event
keeps its type, its correlation and its payload: a venue order id, the code of a
refusal (`FirstCode` stands for 200) or a fixed text. Ids and codes are not told
apart in the journal, so `JournalReplaysToActive` is stated for ids below
`FirstCode`. The portfolio's floats are exact fractions, and its two rounded
figures are rounded. The content of a file is a version, a digest tells versions
apart. A record on disk is a piece with the place where it was cut. A signature
is the version that made it.

## Runs

| Run | Module | States | Question |
|---|---|---|---|
| `risk_engine` | `MCRisk` | 4,749 | Does the position stay in int64, gross cover net and a window stay within the rate (`RiskInv`)? Is every order that evaluate approves inside the limits one that apply_fill will take? With a shared monotone clock, how many approvals fit in any second? At most `2 * maxRate - 1`, because windows tumble. |
| `execution_engine` | `MCExecutionEngine` | 263,388 | Circuit and failure count agree; one trial order per half-open circuit; at most one order leaves after risk closes; what submit checked still holds when it sends; no order leaves before the cooldown since the latest failure is over; the trial order stays where an acknowledgement finds it. |
| `order_evidence` | `MCOrderEvidence` | 697,088 | With submit the only way in: each send follows its own approval, the journal replays to the active orders, a decision carries its own event id. Behaviours with other writers and direct callers of evaluate are in the same instance; none of the three holds of them, and `decision_id` shows one that fails. |
| `recovery` | `MCRecovery` | 399,874 | Do checkpoints and snapshots recover every event once; does verify_recovery answer rightly; are restored and inspected files those of one moment; do journal numbers survive restarts; does the audit log account for the keys; does a key's version never come back; does an interrupted deployment leave a prefix of the inventory done and the rest alone? |
| `trading` | `MCTrading` | 343,596 | Is profit the cash the fills made; are shorts located; does the approval of validate_order hold; are the snapshot's figures consistent; is depth taken best first, queue priority kept, a fill backed by an order that had arrived, and in a replay by the last quote of its own time; is the position the sum of the fills and within its limit? |
| `connectivity` | `MCConnectivity` | 949,379 | Is the tracker an order book, exact on an exact feed, and does an order whose add it processed keep the shares it really has; is there one owner at a time and a fencing epoch; does the reconciliation call exactly the paired lists unambiguous; do repeated requests get answers that agree; is a client never told more than the venue did? |

Six runs check what a document says of the code and find it violated; the
findings in `PROJECT.json` quote the lines.

| Run | What is said, and what the code does |
|---|---|
| `replace_unchecked` | ito_protocol_specification.md:112, approved replace: `cancel_replace` never asks the risk engine. |
| `session_readiness` | ito_protocol_specification.md:211, clearing a halt requires stable sessions: halt and clear make the gateway of a session that was reported disconnected Ready. |
| `duplicate_correlation` | README.md:86, duplicate correlations are rejected: not after the acknowledgement. |
| `decision_id` | README.md:79, journal-assigned identifiers: another writer takes the id an approval announces. |
| `uncertain_resolution` | order-uncertainty.md:13, resolved only after an authoritative response: the tool pairs orders by a field the journal file does not write, so one acknowledgement resolves all. |
| `failover_promotion` | multi_venue_connectivity.md:48, the replacement obtains a new lease epoch: the drill promotes exactly while the fencer refuses. |

**Refinement.** Five small specifications say what a component promises, and the
components are shown to implement them: `OrderBook` by `ItchFeed`
(`TracksABook`), `FencedLease` by both lease services (`LeaseStoreIsFenced`,
`FencerIsFenced`), `ClientOrders` by the gateway and the session
(`GatewayKeepsOrders`, `SessionKeepsOrders`), `KeyVersions` by both custodians
(`CustodiansKeepVersions`), `TradeLedger` by both backtests
(`BacktestsKeepLedger`).
`FencedLease` sees who calls and the clock that caller has read: only the owner extends
its lease, and only on a reading from before its end; the lease is taken, or cleared by
somebody else, only when it has really run out.

**Bounds.** In the core `Threshold = 2`, so the circuit opens at the second
failure, and up to three failures, so that it opens again from half open. Two
venue order ids and two valid correlations, so that a second order can meet the
first one in every phase; correlation 0 for the refusal. Times 1 and 3 with
`Cooldown = 2`, so that the cooldown is both over and not over, and the difference
wraps. The journal holds five events when submit is the only way in, what it
takes to approve, send and acknowledge an order and to approve and send it again,
and three with other writers: an approval, a foreign event before or after it, and
the send.
`Record` keeps one place for an approval on its way, so that the bound never stops
a submission inside the risk engine. The risk engine runs with snapshots that are
loose, tight, at the edge of int64 and disabled.

Elsewhere two of each actor (processes, callers, people, client orders), and three
nodes for the lease store and the deployment, so that there is one before and one
after the node where a call stops. Clocks run for at least two lengths of a lease. Four
appends over three openings and two torn lines let a torn line be followed by a
good one and a restart. Two edits fall before, between and after the reading of
two files. Four feed messages in packets of up to two are an add, two reductions
and a delete; two deliveries let a packet come late, twice or not at all. Four fills take a position up, through
zero and back. `MCRecovery` is symmetric in processes and events.

Deadlock is checked in `risk_engine`, `execution_engine` and `order_evidence`. The
other runs have components that end: a script returns, a stream is over, a bound
on calls is reached.

**Fairness.** None is assumed and no liveness is claimed. Nothing in the code waits
or retries by itself, and the one thing that would have to happen for a circuit to
leave its half-open state, the acknowledgement of the trial order, is up to a caller:
no code of the repository polls for it, and an order may stay unanswered. What the
engine itself owes is checked as safety instead: the trial order is kept under its
venue order id for as long as the circuit waits (`TrialIsOutstanding`).

## Proofs

All theorems hold for every value of the constants that satisfies the named
assumptions: any integer width, limits, sets of intents and times, threshold,
cooldown and clock modulus (`RiskAssumption`, `EngineAssumption`), any
length of the journal (`EvidenceAssumption`), any nodes, callers and positive
lengths of a lease (`LeaseAssumption`, `FenceAssumption`), any order ids and
requests (`GatewayAssumption`), any number of files, edits, nodes and damaged rows
(`BackupAssumption`, `DeployAssumption`, `StoreAssumption`), any orders, quotes,
signals and records with integer figures (`PortfolioAssumption`,
`ReplayAssumption`, `RecordsAssumption`), any keys, people, processes and events.
The assumptions give the constants their types and the ranges that the constructors
check.

Of the 40 properties of the passing runs 32 are theorems, and of
`BacktestsKeepLedger` the half about the replay is one.

**The engines** (`TradingProofs`, `EngineProofs`)

* `RiskInv` = `RiskTypeOK /\ NetWithinGross /\ WindowWithinRate` is inductive.
  The type of the position needs the checks of `apply_fill`; `WindowWithinRate`
  needs `set_limits` to clear the window. `ApprovedIsFillableAlways` follows from
  it: the lemma `ApprovalMeans` lists what an approval implies and `ApprovedFills`
  derives the checks of `apply_fill`.
* `RateBurst` speaks of approvals of two windows. `WindowInv` adds where the present
  window begins in `granted`, with the approval that opened it, and that the approvals
  `maxRate` or more before that one came at least a second earlier.
* `EngineInv` adds to `EngineTypeOK` and `CircuitMatchesFailures`:
  `CallAdmitted` (what submit checked holds as long as it owns the mutex),
  `ProbeCounted` (no order was sent before the flag was raised), `LateCounted`
  (an approved submission that has not been sent yet is the only one that can be
  late) and `VenueIdsIssued` (ids in use are below the next one). None of
  `AtMostOneProbe`, `AtMostOneLateSend` and `VenueIdsUnique` is inductive without
  them. There is one lemma per action. `SendIsAdmittedAlways` is an action
  property from `CallAdmitted`.
* `TrialInv`: between two calls a half-open circuit has its trial order out, and a
  submission that half-opened the circuit came after the cooldown. `EngineInv` alone does
  not tell a circuit that was just half-opened from one whose trial is gone.
* `RiskRefined` shows that every behaviour of the composition is a behaviour of
  `RiskSpec`, so that the theorems about the risk engine hold inside it.

**The journal** (`EvidenceProofs`, `JournalProofs`). Every step of the two engines,
other writers and direct callers has one of seven shapes (`HasShape`): it is silent,
notes an event, announces, refuses or confirms a decision, sends an order or
acknowledges one. `EveryStepHasShape` is proved once, action by action; after that
each invariant is a proof by shapes.

* `DecisionPlaced`: the id of an approval on its way is the place its entry will get.
* `ChainInv`: the order that waits to be sent has its approval as the last entry of
  its correlation. Without it a send could follow something else.
* `ReplayInv`: of the sends of a correlation all but the order the engine holds are
  acknowledged, and no id is acknowledged before it is handed out.

**What is kept on disk** (`RecoveryProofs`, `OperationsProofs`)

* `BackupInv`, `InspectionInv`: a version is never written twice, so that a digest
  that is not that of its file any more never will be again. Up to the files still
  to be compared, which may be stale, the digests are those of one moment. When the
  last one has been compared there is no exception left.
* `StoredInv`: a process that holds the events up to a sequence holds them after any
  append, and the label of a snapshot is not older than its payload. `rows` is
  numbered without gaps until a row is lost. `VerifyAnswersRightlyAlways` is an action
  property from it.
* `WrittenInv`: without torn lines every line is whole and carries its place as
  number, which is what the constructor's scan finds again.
* `DeployInv`: the nodes visited come before those still to be visited.
* `SimulatorInv`: the log accounts for the metadata of the simulator and of the
  exported state, which takes its place on import. `HsmInv`, `StoreInv`: no version but
  the newest is active. The refinements of `KeyVersions` follow.

**Leases and venues** (`ConnectivityProofs`)

* `LeaseInv` is `BeliefsAreBacked` (a node that thinks it owns the lease is the
  owner the store knows, for at least as long) with the types, `OwnLease` and
  `LeaseHasLastToken`. `OneOwnerAtATime` says nothing of the store and is not
  inductive; it follows because two backed beliefs are the same lease. The
  refinement of `FencedLease` has a lemma per action.
* `FenceInv` says that no caller's clock is ahead of the time. That is all the
  fencer's refinement needs: an acquisition that sees the lease run out by an old
  clock sees what is true by the present one.
* `GatewayInv` adds to `AnswersAgree` that an order that does not exist has no
  answer saying it does. `SessionInv` adds `WireIsTrue` to `BeliefIsNotAhead`: an
  answer still under way is true of its order, since orders only move forward.
* `FirstConnectionInv`, for `CaughtUpClientKnows`: answers are numbered by their
  places, the last one about an order tells the status it has, and the client is
  right about an order that no answer it has yet to take tells about.

**Trading** (`TradingProofs`, `PortfolioProofs`)

* `ReplayInv`: while quotes are loaded, and after a call that raised, the call has no
  fill yet, and the index has for every time the last quote given with it
  (`IndexIsLast`). `ReplayKeepsLedgerAlways` is the refinement of `TradeLedger`.
* `AllAccount`, for `ProfitIsCash`: over some common denominator, what a position realized
  is what it holds at its average less what its fills cost (`Balanced`). An increase needs
  a larger denominator, a reduction keeps the average, and a fill through zero closes the
  old side and starts at its price. `FractionIs` says that lowest terms keep the value.
* `Covered`: what is short of an instrument is at most what was registered and used.
* `ApprovalInv`: an approval stays one until something is filled, since every check
  but that of the locates looks at the positions only. `validate_order` exchanges the instrument's part in
  each sum, and the snapshot after the fill adds anew. `SumExchanges` says that this
  is the same; it rests on `Totals`, the list of partial sums that `SumOf` follows.
* `UnambiguousMeansPairedAlways` is a theorem about `compare` at every pair of lists:
  a list without repetitions is indexed by its ids, and a pairing exists exactly if
  the ids of both sides are the same. That the two lists are equally long is `Pigeonhole`.

Some theorems state properties no run repeats: the type theorems,
`VenueIdsUnique`, `BeliefsAreBacked`, `OwnerHasNewestToken`, `GatewayKeepsOrders`,
`SessionKeepsOrders`, `OnlyTheActiveSigns`, `ReplayKeepsLedger`, the parts of
`RiskInv` and those of `CustodiansKeepVersions`.

Model-checked only:

* `SnapshotIsSound`: its figures are sums over instruments and factors by
  `FoldFunction`, which adds in an order that is not determined.
* The microstructure backtest (`DepthIsTakenBestFirst`, `FillsBelongToOrders`,
  `QueueKeepsPriority` and its half of `BacktestsKeepLedger`): one event fills many
  resting orders and levels, so that every invariant has to be carried through two
  kinds of loops. No proofs of them are kept here.
* The feed (`ExactFeedGivesExactBook`, `AddedOrdersKeepTheirShares`, `TracksABook`): its
  invariants have to follow every message through packets, captures and ladders, which
  are loops within loops. No proofs of them are kept here either.

What a fold or a recursive function computes for every input needs an induction
whose statement is a parameter of the library's theorems, which the provers cannot
instantiate. `LeastNumber` takes its place where an argument needs a first or a last
element: it comes from the well-foundedness of `<`, which is a statement about a set.

## What the properties leave open

Behaviour met while modelling that no property covers, or that a property's
condition excludes. `PROJECT.json` has the details with the hazards.

* `set_limits` takes a snapshot of any version, also an older one, although
  README.md:85 has non-monotonic snapshots fail closed. The property would restate
  one assignment, so that there is no run for it.
* `set_halted(false)` records the clear only if the gateway is still `Halted`
  (execution_engine.cpp:37). After `set_gateway_state` during the halt, orders
  follow the `Halt` event in the journal with no clear between them, although
  multi_venue_connectivity.md:40 says that a transition is recorded.
* A half-open flag stays set when the trial order is acknowledged while the
  circuit is open; approvals reserve no position; the gross position only grows.
* After a line torn inside its number the journal file repeats a number.
* A snapshot written while others append may be labelled past its payload.
* A stopped restore leaves some files new and some old.
* A repeated packet puts its size on the ladder again. An order whose add was lost is
  missing from the book and nothing tells the reader, although
  ito_protocol_specification.md:157 has a gap invalidate the book. After a reconnection a
  client may have missed an answer for ever.
* `LeaseFencer::owns` compares names: a caller that crashed and came back is not
  told from its former self within an epoch.
* `docker_context` is not among the fields the deployment validates, so a call can
  stop at a node that lacks it.

## Not modelled

`PROJECT.json` lists every part with its reason.

* Native parts without callers in the order path or without a protocol: the limit
  snapshot guard (one comparison), the order state machine (a table nobody
  drives), the zero-allocation book and queue tracker (containers), the session
  manager (a map that forwards), the C++ reconciler (a function).
* Router and venue adapters: a floating-point choice and socket I/O. Of the
  exchange simulator only that it writes to the journal.
* RTL and its software mirrors: bit-level functions for an equivalence checker,
  and clocked modules that the repository never connects.
* Rust codec and guard, OCaml validators and breaker: checks without shared state.
* Functions from a file to a report (`replay.py`, linters, release checks, SBOM,
  readiness, health, metrics), benchmarks and generators.

In the modelled parts: the working order's type and timestamp, fees, slippage and
adverse selection, which nothing reads back; byte layouts; the cryptography, which
is external; failing memory allocation.
