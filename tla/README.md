# TLA+ specifications of the CYPHER65 war room

The war room is a Flask server (with SQLite as its only shared store) that
watches Bitcoin miners, sends them commands, rents hashrate and sells licences.
These modules specify the parts of it where threads, messages, crashes and money
meet: how a command travels from an HTTP request to a device and how the server
learns what became of it, and the services around that path. They are checked
with TLC and, in part, proved with TLAPS.

Contents: [system](#1-the-system) · [modules](#2-modules-and-code) ·
[runs](#3-what-the-runs-check) · [proofs](#4-what-is-proved) ·
[abstractions](#5-abstractions) · [findings](#6-where-code-and-documentation-disagree) ·
[not modelled](#7-not-modelled) · [plan](#8-plan)

## 1. The system

### 1.1 Parts, their state and their interactions

| part | code | state | operations |
|---|---|---|---|
| physical command dispatch | `routes/device_control.py` | none of its own; uses the next four | dry run, issue a confirmation, execute a command, roll a pool update back |
| operation ledger | `services/operation_ledger.py` | rows of `external_operations`: state, ack_state, reconciliation_state, evidence | claim by idempotency key, update, look up |
| confirmations | `services/command_confirmation.py` | rows of `command_confirmations`: hash, bound order, expiry, consumed | issue, consume once |
| rollback targets | `services/pool_intelligence/rollback.py` | rows of `pool_rollback_targets`: sealed previous pool, expiry, claimed by | seal, load, claim, purge |
| safety engine | `core/safety/safety_engine.py`, `services/safety_policy.py` | restart times in memory and in `restart_cooldowns`; the environment switches | validate a command, record a restart |
| reconciliation | `reconcile_device_command` in `routes/device_control.py` | the ledger row of the operation | compare telemetry with the expected state, write the verdict |
| device registry and adapters | `core/registry`, `core/adapters`, `api_refresh_device` in `app.py` | live device objects in memory, mirrored to SQLite | refresh, update, remove |
| agent command queue | `axe_fleet/registry.py`, `axe_fleet/routes.py` | rows of `axe_agent_commands` | enqueue, list, claim, terminalize, acknowledge |
| local agent | `agent/agent.py` | the commands, addresses and refusals it knows, in memory | scan, register, poll, push, pull commands, execute |
| fleet identity | `axe_fleet/registry.py`, `routes.py` | rows of `axe_devices` with tombstones, aliases of addresses | add, register, move, remove, restore, collect tombstones |
| fleet telemetry | `axe_fleet/registry.py`, `app.py` | samples with idempotency keys, the status of a row, the snapshot cache | push, poll, pause, publish |
| power outlets | `axe_fleet/routes.py`, `services/tuya_adapter.py` | tasks of power cycles in memory; the plugs themselves | cycle, on, off, toggle |
| Auto-Pilot | `core/alerts/automation_engine.py`, `services/auto_pilot.py`, `app.py` | armed and autonomous flags, last-fired times, action budget | evaluate rules, resolve conflicts, execute; replay |
| pool rollout | `services/pool_intelligence/rollout.py` | an immutable plan and phase | start, record a batch |
| webhook queue | `services/webhook_queue.py`, `webhook_delivery.py` | rows of `webhook_queue` | enqueue, deliver a batch with backoff |
| payments | `services/btcpay.py`, `payments.py`, `licensing.py` | processed invoices and orders, licences | claim, issue, complete, release |
| hashrate bids | `app.py`, `services/rental_performance.py` | ledger rows of kind `braiins_bid`, their audit | confirm, place, reconcile |
| rental alerts, rig lists | `services/rental_performance.py`, `user_polling.py` | slots of `rental_pl_alerts`; four settings that list rigs | evaluate, claim, tell, prune; ban, exclude, restore |
| operator's poll | `app.py` | the poll lock, the wallet, the last snapshot, the charts' history | poll, replace a hung poll, change the wallet |
| sessions and their polling | `services/session_manager.py`, `user_polling.py` | sessions with a TTL, a heap, a pool of threads | connect, poll, read, disconnect, expire |
| live stream | `services/sse.py` | a bounded queue per stream | open, broadcast, deliver, close |
| the rest | accounts, discovery, pool probes, estimators, backups, observability, UI | little shared state | see `components` in PROJECT.json |

An HTTP worker thread runs one handler. Handlers share state through SQLite
(each statement or `BEGIN IMMEDIATE` block is atomic, a handler as a whole is
not) and through objects in memory, some of them under a lock. Background threads
poll the wallet, the sessions, the fleet and the rentals, retry webhooks and run
power cycles. A process can die between any two statements, and takes what is in
memory with it. Agents, providers and plugs answer over the network: a request or
its reply can be lost or late, and each side can restart.

```
 client --POST command--> device_control --consume--> command_confirmation
   |                          |   \------claim/update--> operation_ledger <--\
   |                          |    \-----seal/claim----> rollback targets     |
   |                          +--> SafetyEngine                               |
   |                          +--> adapter --> miner <-- adapter <-- refresh  |
   +--GET operation--> reconcile_device_command --reads--> registry entry     |
                               \--------------------------update--------------/
 fleet UI --enqueue--> axe_agent_commands <--pull/ack-- agent --> miner (LAN)
    \--cycle/toggle--> task thread --> Tuya --> plug      |
                           axe_devices, samples <--register/push
                                   \--commit--> snapshot cache --> operator's poll
 provider --webhook--> payments --> licences                |
 bid form --> operation_ledger --POST--> Braiins            +--> live stream
 sessions --> worker pool --> alerts --> webhook queue      +--> Auto-Pilot --> adapter
 rental panel, rental sweep --> slots and lists --> alerts
```

### 1.2 What is hard, and what correctness means

*Dispatch.* Clients retry, with an `Idempotency-Key`, a request whose reply they
lost; requests with one key or one confirmation race; a worker dies between
claim, adapter call and verdict. Correct: one device contact per key, each
contact confirmed by a human for exactly this order, each on record before it
happens; a rollback happens once, an update only with a way back.

*Reconciliation.* An ACK is not the effect. The effect is concluded from
telemetry that other threads write while it is read. Correct: no verdict without
evidence that is later than the ACK, evidence that has been recorded stays, and
every acknowledged operation is settled in the end.

*Agent queue.* Delivery over a lossy link of commands that must not be repeated,
expire after five minutes, and are claimed by overlapping pulls. Correct: at most
one execution, none after the expiry, rows that tell the truth, no row left open.

*Money.* Providers repeat their webhooks and die between claim and licence; bids
time out after they were accepted. Correct: one licence and one conversion per
payment, one bid per order id, nothing bought that is taken for not bought.

*Fleet.* Addresses move between miners while reports are under way; operators
remove and restore devices; pushes are repeated and callbacks reordered. Correct:
a row, its samples and its alias are of one miner, the cache does not go back, a
miner on the network is followed and a removed one dropped.

*Outlets and Auto-Pilot.* What acts on hardware by itself: never two cycles on one
plug, no plug left dark without a reason on record, no two opposite commands in a
cycle, a budget, intervals, and a switch that stops all of it.

*Polls, sessions, streams and alerts.* Threads that look at the same thing at the
same time: one poll per session, the figures of one wallet at a time, snapshots
without gaps, a loss told once, decisions about rigs that last.

The full list, with the line where each hazard bites and the property that would
catch it, is `hazards` in PROJECT.json; a hazard without a property says why.

## 2. Modules and code

| module | stands for |
|---|---|
| `PhysicalEffects` | the promise of every command path: an approval is used once, one effect per key |
| `CommandDispatch` | `execute_device_command`, `execute_pool_rollback`, both confirmation endpoints and the four stores |
| `CommandReconciliation` | `reconcile_device_command` against the verdict of the handler, `api_refresh_device` and the miner |
| `AgentCommandQueue` | `axe_agent_commands`, `agent_pull_commands`, `agent_ack_command` and the agent's command loop |
| `LicensePromise` | the promise of payments: what is paid for is granted once |
| `PaymentFulfillment` | the webhooks of Lemon Squeezy (`handle_webhook`) and BTCPay (`handle_invoice_webhook`, `_atomic_fulfill`) |
| `WebhookQueue` | `_fire_webhook_async`, `dispatch_webhook_or_queue`, `process_due_webhooks`, the bounded resolver |
| `AutoPilot`, `AutoPilotReplay` | `evaluate_rules`, `execute_autonomous_actions`; `simulate_replay_window` beside the live pilot |
| `SessionPolling` | `SessionManager`, `PollWorkerPool`, `poll_now`, connect and disconnect |
| `FleetIdentity` | `add_device`, `agent_register_devices`, `agent_telemetry`, the identity transactions, tombstones |
| `FleetAgent` | the main loop of the agent against `FleetIdentity` |
| `FleetTelemetry` | `_persist_live_telemetry`, `update_device`, `poll_device` and `_cache_axe_telemetry` of one device |
| `PoolRollout` | `start_pool_rollout`, `record_pool_rollout_batch`, the checks of `PoolRolloutState` |
| `LiveStream` | `sse_stream`, `broadcast_snapshot` |
| `PowerCycle` | `miner_power_cycle`, `_execute_plug_command`, the adapter of Tuya |
| `OperatorPoll` | `poll_once`, `_do_poll`, `api_set_address`, `_reset_session_state` |
| `BraiinsBid` | `api_braiins_bid`, `create_braiins_bid`, `reconcile_braiins_bid`, the reconcile view |
| `RentalAlerts` | `evaluate_rental_pl_alerts` from the panel and from the sweep |
| `RigBlacklist` | the manual and automatic lists of rigs, the exclusion's stamps, the ledger of recommendations |
| `CommandDispatch_proofs`, `CommandReconciliation_proofs`, `AgentCommandQueue_proofs` | the theorems about the modules of their names |
| `Purchases_proofs` | the theorems about `PaymentFulfillment` and `BraiinsBid` |
| `Fleet_proofs` | the theorems about `FleetTelemetry` and `FleetIdentity` |
| `Automation_proofs` | the theorems about `PoolRollout`, `PowerCycle` and `AutoPilot` |
| `Alerts_proofs` | the theorems about `WebhookQueue`, `RentalAlerts` and `RigBlacklist` |
| `OperatorView_proofs` | the theorems about `LiveStream`, `OperatorPoll` and `SessionPolling` |
| `MC*` | instances, symmetry and bounds for TLC |

**PhysicalEffects.** `Accept` turns an approval into credit, `Waste` uses one up
for nothing, `Act` spends credit on one effect and never on a key that has had
its effect. Its state is three sets; both command modules implement it.

**CommandDispatch.** One action per access to shared state, in the order of the
code. `Arrive` is the parsed request; `LookupKey` the fast path by key;
`CheckSafety`, `CheckPolicy`, `LoadTarget` the gates (a pool rollback passes
them in another order, as in the code); `ConsumeConfirmation` burns the token
even on a mismatch; `ClaimOperation` is the `BEGIN IMMEDIATE` block of
`claim_operation`; `SealTarget` and `TakeTarget` the rollback store; `Dispatch`
the adapter call, after which the device may have acted whatever was returned;
`RecordRestart`, `RecordVerdict` what follows. `pc[r]` is the place in the
handler, `ledger`, `tokens`, `target`, `cooling`, `enabled` are the tables and
the kill switch. `Crash` kills a worker anywhere. The verdicts of checks that
depend on data (capabilities, telemetry limits, pool preflight) are arbitrary.

**CommandReconciliation.** One operation. The handler's `Send` and
`UpdateVerdict`, status polls (`ReadOperation`, `ReadTelemetry`, `ReadStatus`,
`UpdateFromPoll`), the refresh (`AskDevice`, `PublishTelemetry`,
`PublishStatus`, `ClearTelemetry`), and the miner (`Obey`, `GoDown`, `Boot`,
which are external code). `update_operation` is a SELECT and a later UPDATE, so
its callers carry the row they read. The registry entry is written field by
field and read field by field, so a poll can see half of a refresh. Time is in
the whole seconds that the code compares, uptime is the number of the boot it
counts from, and the history variable `shown` keeps what telemetry later than the
ACK has shown.

**AgentCommandQueue.** `List` is the SELECT of a pull, `Decide` one iteration of
its loop (`Terminalize` or `Claim`, judged by the listing but guarded by the row
as it is then), `Reply` or `Abort` its end; `SendPull`, `GiveUp`, `Take`,
`Refuse`, `Execute`, `Restart` the agent; `ReceiveAck`, `LoseAck` the way back.
A pull that an agent gave up may still be served, so one agent can cause two
overlapping pulls. `ran` counts executions.

**PaymentFulfillment.** A delivery of a webhook is a handler at one of its steps.
Orders are claimed, issued and completed (or released) in separate transactions,
invoices in the one transaction of `Fulfil`, after the plan was read from the
provider. A claim row from before that transaction existed may lie there without
a key. Everybody repeats: the buyer's `Settle` happens once, `Deliver` as often as
the provider has not been acknowledged. `LicensePromise` says that each payment is
granted at most one key, for the plan it was paid for.

**WebhookQueue.** An alert is delivered by a thread of its own and enqueued when
that fails. The loop lists a batch, posts row by row and commits at the end;
from its first write on, nobody else can write. The POST reaches the provider, or
not, or leaves a doubt; the resolver may be full of hung threads.

**AutoPilot.** A cycle reads the gates (`BeginRules`, `BeginRecs`), resolves
conflicts among the rules that apply and runs the survivors one by one
(`RunRule`): budget, execution through the callback, cooldown. Recommendations
follow in the same cycle. The operator arms, disarms and decides while it runs.
`AutoPilotReplay` feeds the same rules what the live cycles saw, and compares. What
loses a conflict cools down in a live cycle and not in the replay; `shelved` knows
these rules, and `parted` whether one of them matched while it was cooling down.

**SessionPolling.** A session has a place in the manager's table, in the pool's
table, its heap and its queue of ready work; threads take, poll, publish and
reschedule. `Touch` and `Expired` follow the TTL, in the manager's clock.

**FleetIdentity, FleetAgent, FleetTelemetry.** A row is unused, active or removed,
with a MAC that may be unknown and an address. Requests find their row in one
transaction and write in another. `FleetAgent` extends it with an agent that scans
a network in which miners change addresses. `FleetTelemetry` follows one row from
the commit to the cache, with the lock that orders the callbacks.

**PoolRollout, LiveStream, PowerCycle.** The pure state machine of a staged
rollout, in numbers of devices; streams and their queues; cycles as threads that
turn a plug off, wait and turn it on, beside users who switch it. Confirmations of
a target are a number: each call without one adds one (`Issue`), a call with one
takes it, also when it is another target's and refused (`Confirm`).

**OperatorPoll.** A poll reads the wallet (`Ask`), compares with the last answer
(`News`), stores history (`Persist`), raises alerts, publishes the screen; a
change of wallet saves, resets and clears. `Hang` replaces the lock of a poll that
takes too long. The release is of whatever lock the global then names. `Clear`
deletes table by table, and each DELETE may fail, which is only logged; `Restart`
loads the saved wallet, or falls back to the environment's (`Loadable`).

**BraiinsBid.** From the look-up of the order id to the audit; `PostBid` has five
outcomes, of which a timeout and a gateway error leave it open whether the bid
stands. The view reads the audit, lists the active bids and updates the rows.

**RentalAlerts, RigBlacklist.** Evaluators take the rentals one by one, look up
the slot, claim it and hand the alerts on at the end. Rig lists are loaded and
saved whole, key by key, in separate transactions, each of which may fail.

**The instances.** `MCServices`, `MCProgress`, `MCSettled` and `MCCommandFlow`
hold several components that share no state, and `MCCommandDispatch` two
instances of one. A variable `part`, chosen in the first state, says which of
them moves; the others keep their first state. So each behaviour is one of one
component alone, and the numbers of states add up instead of multiplying; nothing
is lost, since there is no interaction to lose. Properties of a part are stated
under `part = ...`, and fairness likewise. Components are extended (those that share
a module with others use names with a prefix of their own: `Rollout`, `Stream`,
`Outlet`, `Hook`, `Bid`, `Poll`, `Pilot`, `Rental`, `Telemetry`, `Identity`,
`Session`, `Rig`), through their proof modules, so that TLC evaluates the
assumptions the theorems make; only the replay and second instances of one module
are instantiated.

Every definition and its lines are in `map` of PROJECT.json. The definitions that
a comment calls a mutant are not part of the specification: each is a
plausible bug (a forgotten comparison, a dropped guard, an off-by-one) under
which one of the properties fails, kept to show that the property depends on the
code it is about.

## 3. What the runs check

### 3.1 The runs

Six runs must pass; together they fire every action and every disjunct of the
next-state relations. Six must find the violation of one property each, which is
what a line of the repository says of itself (section 6).

| run | question | properties |
|---|---|---|
| `dispatch_keys` | two requests with one key and two tokens race, crash and are retried; an update and two rollbacks race for the sealed target: is there one dispatch per key, confirmed, on record and truly reported, and one rollback per update? | `Inv`, `OneDispatchPerKey`, `DispatchIsAuthorised`, `DispatchIsOnRecord`, `RepliesAreTrue`, `RollbackHappensOnce`, `UpdateIsReversible`, `ImplementsPromise` |
| `dispatch_cooldown` | are two restarts of one device ever closer than the cooldown? *violated* | `RestartsAreSpaced` |
| `reconcile_races` | do verdicts rest on evidence while polls, the handler's verdict and a refresh overlap? | `EachTypeOK`, `VerdictsAreGrounded`, `AcksAreGiven` |
| `reconcile_kept` | is what the ledger learnt kept? *violated* | `EvidenceIsKept` |
| `reconcile_offline` | is the outage of a restarting device recorded? *violated* | `OfflineIsRecorded` |
| `flow_commands` | agents and server: one execution per command, none late, true rows; one identity per row; one order of telemetry | `Inv`, `DeliveredAtMostOnce`, `RowsAreTrue`, `ExpiredNeverRuns`, `TerminalIsFinal`, `ImplementsPromise`, `IdentitiesAreTrue`, `CacheIsTrue` |
| `settled_commands` | does every command reach a terminal state, and an acknowledged one a verdict? | `CommandsAreSettled` |
| `queue_undelivered` | is a command that was declared undelivered never run? *violated* | `UndeliveredNeverRan` |
| `services_safety` | every service on its own: races, retries, faults, restarts | `EachTypeOK`, `PaymentsAreHonoured`, `ImplementsPromise`, `AlertsAreAccountedFor`, `RolloutIsSafe`, `NoGapNoRepeat`, `OutletsAreSafe`, `PilotIsDisciplined`, `ReplayIsLive`, `SessionsAreSafe`, `OperatorSeesOneWallet`, `BidsAreAccountedFor`, `RigDecisionsAreKept`, `LossesAreTold` |
| `services_progress` | what must eventually happen, under the fairness of the threads | `ClaimsAreSettled`, `SettledIsFulfilled`, `QueueDrains`, `PollingFollowsUsers`, `MinersAreFollowed`, `ScreenFollowsWallet` |
| `poll_history` | is the history on file that of the present wallet? *violated* | `HistoryIsOfTheWallet` |
| `alerts_once` | is a loss told once per tenant? *violated* | `OneAlertPerRental` |

Related claims are conjunctions with named parts. `PaymentsAreHonoured`, for
example, is `OneLicencePerPayment`, `ClaimsAreBacked`, `AcknowledgedIsFulfilled`
and `CountedOnce`; `AlertsAreAccountedFor` is `GoneMeansDone`, `BoundedAttempts`
and `DuplicatesAreDoubts`. The comment above each property says what code
behaviour it is about.

### 3.2 Bounds

Bounds are small so that the interesting case happens and the rest does not grow.

| component | instance, and why it is enough |
|---|---|
| dispatch | two requests, one key, two tokens: the smallest race for a key. An update and two rollbacks: the smallest race for a target. A third request meets a ledger row and a token in the same states as the second |
| reconciliation | a restart with two pollers, `Timeout` 0; pause, identify and update with one poller, `Timeout` 1, a removal, and a second more: telemetry older than, of the same second as, and later than the ACK, from before and after a reboot |
| agent queue | one command, two agents, two concurrent pulls, TTL 3, requeue 1, five seconds: a command is delivered, requeued, delivered again and expires. For liveness a command and a probe, listed one at a time, so that one can starve the other |
| payments | an order and an invoice, two deliveries, two keys |
| webhooks | two alerts, three attempts, batches of one, one crash or failed transaction, one resolver |
| Auto-Pilot | two contradictory rules on one device and a recommendation, two actions per window of two. For the replay a third rule on a second device, intervals of two for both rules in conflict and four units of time: a loser cools down, matches again within and after its interval, and the budget is refused and comes back |
| sessions | one session, two threads of the pool, three versions of the world |
| identity | three rows, two MACs, two addresses, two requests in flight |
| telemetry | one row, two writers, one key used twice, three samples |
| rollout | up to five devices, canaries and batches up to three |
| streams | two streams of capacity two, four snapshots |
| outlets | three cycles, two of which share a miner and two a plug, and a toggle; one crash, one unused confirmation per target at a time, issued again after its use |
| operator's poll | the loop and a forced poll, two wallets, one change or restart, one hang (none for the liveness); the environment's wallet is not the saved one, so that a failed load changes it |
| bids | two requests with one order id, two terms, two confirmations, one crash, one look of the view; `BidsInOrder` starts the first purchase first, as they only differ in name |
| rig lists | `RigsTogether`: two rigs, one request, no fault, within an hour; `RigAlone`: one rig, two requests and a fault |
| rental alerts | one rental, panel and sweep under one name, five minutes, two faults |

Symmetry is used in `reconcile_races` (pollers) and `flow_commands` (the threads
of the server), never in a run with a liveness property. Deadlock is not checked
where every request, delivery or bounded clock comes to an end and the model
stops there.

### 3.3 Fairness

Only what the code schedules is fair; faults, users and devices never are.

- Dispatch: a worker that has begun goes on, unless it crashes.
- Reconciliation: time passes, and the client repeats its poll as the page does.
  Refreshes are not fair: nothing forces one.
- Queue: time, the agent's loop, its timeouts and replies are weakly fair.
  Listing and deciding are strongly fair: every pull may crash, not all of them.
- Payments: each step of a delivery is strongly fair per payment, as the provider
  repeats a webhook until it is acknowledged; it does not always die at one place.
- Webhooks: dispatch threads, the loop and the clock. Providers may fail for ever.
- Sessions: the threads of the pool, the connect call, the scheduler, and the end
  of a destruction that has begun.
- Agent: its main loop. Operator's poll: each thread, and the end of a change of
  wallet that has begun.

## 4. What is proved

The theorems hold for every value of the constants that satisfies the
assumptions of the module: any number of requests, keys, agents, deliveries,
pollers, alerts, streams, plugs, purchases, wallets, rentals, rules, writers, rows,
sessions and rigs. They are in eight `_proofs` modules, with the lemmas they rest
on; `theorems` in PROJECT.json lists the results.

| module | results | property of a run |
|---|---|---|
| `CommandDispatch_proofs` | `Invariance`, `TypeCorrectness` | `Inv` |
| | `DispatchOncePerKey`, `DispatchAuthorised`, `DispatchOnRecord` | `OneDispatchPerKey`, `DispatchIsAuthorised`, `DispatchIsOnRecord` |
| | `RepliesTrue`, `UpdateReversible`, `RollbackOnce` | `RepliesAreTrue`, `UpdateIsReversible`, `RollbackHappensOnce` |
| | `Refinement` of `PhysicalEffects` | `ImplementsPromise` |
| `CommandReconciliation_proofs` | `ReconcileInvariance`, `ReconcileTypes` | |
| | `AcksGiven`, `VerdictsGrounded`, `ConfirmedIsShown` | `AcksAreGiven`, `VerdictsAreGrounded` |
| `AgentCommandQueue_proofs` | `Invariance`, `TypeCorrectness` | `Inv` |
| | `AtMostOnce`, `RowsTellTheTruth`, `ExpiredIsRefused`, `TerminalRows` | `DeliveredAtMostOnce`, `RowsAreTrue`, `ExpiredNeverRuns`, `TerminalIsFinal` |
| | `Refinement` of `PhysicalEffects` | `ImplementsPromise` |
| `Purchases_proofs` | `PaymentInvariance`, `PaymentsHonoured` | `PaymentsAreHonoured` |
| | `PaymentRefinement` of `LicensePromise` | `ImplementsPromise` |
| | `BidInvariance`, `BidsAccounted` | `BidsAreAccountedFor` |
| `Fleet_proofs` | `TelemetryInvariance`, `CacheTrue` | `CacheIsTrue` |
| | `IdentityInvariance`, `IdentitiesTrue` | `IdentitiesAreTrue` |
| `Automation_proofs` | `ProgressHolds`, `RolloutTypes`, `RolloutSafety` | `RolloutIsSafe` |
| | `OutletInvariance`, `OutletTypes`, `OutletSafety` | `OutletsAreSafe` |
| | `PilotInvariance`, `PilotTypes`, `PilotDisciplined` | `PilotIsDisciplined` |
| `Alerts_proofs` | `HookInvariance`, `HookTypes`, `AlertsAccounted` | `AlertsAreAccountedFor` |
| | `RentalTypes`, `ClaimsAreTold`, `LossesToldOnce` | `LossesAreTold` |
| | `RigInvariance`, `RigTypes`, `RigDecisionsKept` | `RigDecisionsAreKept` |
| `OperatorView_proofs` | `StreamInvariance`, `StreamTypes`, `NoSnapshotIsLost` | `NoGapNoRepeat` |
| | `PollInvariance`, `OneWalletSeen` | `OperatorSeesOneWallet` |
| | `SessionInvariance`, `SessionTypes`, `SessionsSafe` | `SessionsAreSafe` |

### 4.1 The inductive invariants

None of the properties is inductive as it stands; each needs to say what the
steps in progress rely on.

- **CommandDispatch.** `Inv`: the place of a request says whether its row exists
  and whether it was sent (`RowFollowsControl`); a request at or past its claim
  holds a burned token, bound to its order, that no other holds (`ApprovalIsOwn`);
  the ledger holds a key once (`KeyIsUnique`). `RepliesAreFinal` adds that a row
  that was answered no longer changes. `RollbackInv` adds that a verdict ends its
  request, that an update is sealed before it is sent, that a rollback past its
  first check has an acknowledged source, and that one that is sent, now or
  before, has taken a target that cannot be taken twice (`TargetIsTakenOnce`).
  The refinement maps credit to the approvals taken and not yet used.
- **CommandReconciliation.** `Grounds` is about every *copy* of the row: the one a
  poll decides on, the one a writer will put back, and the row itself. Each is
  sound, however old: an ACK in it is the handler's, with the handler's time; its
  verdict has been shown; its evidence is of this command. A last write may lose
  what was known (that is finding `reconcile_kept`) but never invents anything.
  A poll reads telemetry before the status, so the two may not belong together;
  `EntryIsSound` and `IsBehind` say why that does no harm: the entry goes forward
  in time and in boots until it is cleared, what a poll holds is not ahead of it,
  and after a clearing the status is offline and was shown as such. `IsPublished`
  covers the moment between new telemetry and its status.
- **AgentCommandQueue.** `Inv`: what nobody has claimed is carried by nobody and
  has not run (`RowTracksDelivery`); a physical command is in one place, in one
  reply, with one agent or executed, once (`CarriedOnce`), however often it was
  listed; success is claimed only of commands that ran (`SuccessIsTrue`).
- **PaymentFulfillment.** `PaymentInv`: one delivery serves a payment between its
  claim and its end (`OneServer`), each step of a delivery relies on what the one
  before wrote (`DeliveryIsSound`), and a claim or an invoice row says whether its
  licence exists (`ClaimIsSound`, `InvoiceIsSound`). The refinement and the
  properties both follow.
- **WebhookQueue.** `HookInv` balances the accounts of an alert: POSTs made are
  the attempts its row counts, the outcomes the open batch holds and those that
  were rolled back (`RowCounts`, `BatchCounts`, `GoneCounts`); a POST that was
  accepted and not noted is a doubt or was undone.
- **PoolRollout.** `Progress` says for each phase which devices are done, released
  and failed, as positions in the plan: what is done is a prefix of it.
- **LiveStream.** `StreamInv`: what a stream has yielded, and then its queue
  (`Fed`), are the snapshots broadcast since it connected, without a gap, up to
  the last one as long as it is listed (`Started`).
- **PowerCycle.** `OutletInv`: besides the types and the three safety parts, the
  last request of a plug is a request for that plug (`LastIsOwn`).
- **BraiinsBid.** `BidInv`: one purchase has the row of an order from its claim to
  its end (`OneOwner`), a burned confirmation is one purchase's (`OneConsent`), and
  until its POST nothing was sent for that order or with that confirmation
  (`PurchaseIsSound`). A row that is "submitting" has a purchase that will write
  it or has died, and only orders that were placed are audited, so that the view
  never writes a row before its purchase has (`OrderIsSound`, `ViewIsSound`).
- **OperatorPoll.** `PollInv`: while no lock was replaced, whoever polls holds it,
  alone (`OnePoll`). While no change met a poll, nobody polls between a change and
  its reset (`NoPollInReset`), and so every answer in flight, the baseline and the
  alarm are of the wallet that is watched (`MemoryIsOfTheWallet`). What a poll
  writes later is then of one wallet too, and the rows of another are those that a
  failed DELETE or a restart with another wallet left (`kept`).
- **FleetTelemetry.** `TelemetryInv`: who has read the committed sample holds the
  publication lock (`LockIsHeld`), what is about to be published is no older than
  the cache (`SampleIsNewer`), and a status the cache does not show has a writer
  under way that will publish it (`StatusIsUnderWay`).
- **FleetIdentity.** `IdentityInv`: besides types, aliases and attributed samples,
  a miner that is banned has a removed row (`BannedIsRemoved`), so that a restore
  lifts both.
- **AutoPilot.** `PilotInv`: no cycle is ahead of the clock and no action later than its
  cycle (`PilotClock`); the rules a cycle has left may still fire and contradict
  neither each other nor one that has fired, and a cycle with work began while the
  pilot was armed (`TodoIsFit`); cooldowns and budget know of every action since
  the process started, to which the code's memory of them is limited
  (`CooldownsKnow`, `BudgetKnows`).
- **RentalAlerts.** `RentalInv`: an evaluation is of now or of the unit of time before,
  what is still to be judged was recent when it began, and a slot is of a rental
  that had ended before. `ToldInv` is about rentals that are not `excused` (by a
  fault at their claim, or the pruning of a slot whose rental has no known end): a
  loss was handed on once, or one evaluation is about to, and one whose slot is free
  has not been told, unless it is too old to be looked at again. That is why the pruning of slots does no harm.
- **RigBlacklist.** `RigInv`: at a rig that is not in doubt there is one operation
  at most, and each of its steps says what it has done so far to the two lists,
  the stamp and the ledger (`RigIsSound`); a judge carries no copy (`JudgesOnlyLook`),
  and no rental, stamp or judgement is of a later hour than now (`RecordIsPast`).
- **SessionPolling.** `SessionInv`: a registered session is at one place, the heap,
  the ready queue or a thread (`AtOnePlace`); its user, its connect call and its
  registration go together (`UserIsSound`). While its polls keep apart, what each
  fetch in flight has seen is no older than what was last dispatched, and alerts
  are of dispatched versions (`EventsInOrder`).

An action property or a refinement follows from the same invariant, one action
after the other.

### 4.2 Assumptions

Each module names its assumptions (`Assumptions`, `HookAssumptions`,
`RolloutAssumptions`, `StreamAssumptions`, `OutletAssumptions`, `BidAssumptions`,
`PollAssumptions`, `PilotAssumptions`, `RentalAssumptions`, `TelemetryAssumptions`,
`IdentityAssumptions`, `SessionAssumptions`, `RigAssumptions`, and the `ASSUME`s of
`CommandReconciliation`); TLC evaluates them for the instances it checks. They
say what the constants are: naturals, sets with a null value outside them, and of
the webhooks that the delays do not shrink (`WEBHOOK_RETRY_BACKOFF` is 30, 120,
600, 1800). Two theorems assume more. `VerdictsGrounded` holds of commands other
than a rollback of a pool: an overlapping poll can erase the hash that a rollback
is compared with, and the rollback is then reported failed although the device
has its old pool. `ConfirmedIsShown` has no such exception.
`LossesToldOnce` is of panels and a sweep that call the tenant the same; that the
default tenant has two names is finding `alerts_once`. `ClaimsAreTold` does not
need it.

### 4.3 What is only model-checked

Liveness under fairness is out of the prover's reach, so all of
`settled_commands` and `services_progress` rests on TLC. Of safety, TLC alone
checks two things. `ReplayIsLive` compares a recursive fold over recorded samples
with what happened live, which takes an induction over data. The `EachTypeOK` of
the MC modules speak of whichever component moves; for all but the replay and the
second instance of the reconciliation, what they state follows from the type
theorems and the invariance theorems of the components.

## 5. Abstractions

- One authenticated tenant, one serving process. The deployment in `render.yaml`
  starts one worker; more of them would have a registry, a poll lock, a plan cache
  and outlet tasks each, which these models do not show.
- A command, a device and its order are one value: the confirmation's bound order,
  the ledger's fingerprint and the dispatched order are compared as such.
- Data-dependent verdicts (telemetry limits, pool preflight, eligibility of rules,
  prices, readings) are arbitrary choices, so the safety properties hold whatever
  they are.
- A step that touches only what no other process reads is joined to its
  neighbour. SQLite statements and transactions are atomic; they fail only where
  a module has an action for it.
- Clocks are shared and bounded; where the code compares whole seconds so does the
  model. Audit rows, history rows that nothing reads back, logs and wording are
  left out, except where a property is about them.
- One registry refresh at a time. `VerdictsAreGrounded` is about timestamps: the
  stamp is the time of arrival, so telemetry requested before the ACK may arrive
  after it and count as later.
- History variables name exactly what the code gets wrong or cannot know, and the
  properties exempt no more: `doubts` and `undone` in `WebhookQueue` (POSTs whose
  outcome nobody knows, or was rolled back), `unread` in `PaymentFulfillment` (rows
  of invoices that could not be read), `lostAlerts` and `excused` in `RentalAlerts`
  (alerts that a fault took, or that may be told again), `doubted` in `BraiinsBid`
  (accepted orders answered with an error), `unsure` in `RigBlacklist` (rigs at which
  two operations or a fault have met), `mixed` in `OperatorPoll` (polls that met a change of wallet)
  and `kept` (rows that a failed DELETE or a failed load left under another wallet),
  `parted` in `AutoPilotReplay` (a rule matched in the cooldown of a lost conflict),
  `apart` in `SessionPolling` (whether the connect call met a poll), `quiet` in
  `FleetTelemetry` (a status that was changed without a publication).

## 6. Where code and documentation disagree

Each has a run that shows the shortest behaviour; the quoted lines are in
`findings` of PROJECT.json.

1. `dispatch_cooldown`: the cooldown is read when a request arrives and written
   after the adapter has answered, so two concurrent restarts both pass.
2. `reconcile_kept`: `update_operation` reads and writes in two transactions; a
   poll that overlaps the verdict or another poll writes back the old row.
3. `reconcile_offline`: the refresh that finds a device unreachable drops the
   timestamp that would prove the outage, and a restart seen this way is never
   confirmed.
4. `queue_undelivered`: a pull may declare a command undelivered that another pull
   delivered after it was listed.
5. `poll_history`: a poll under way writes the old wallet's history after a change
   of wallet has cleared it.
6. `alerts_once`: the panel and the sweep name the default tenant differently and
   each tells it about one loss.

Met while modelling, without a run of their own:

- The reconcile view says of an order it cannot find "surfaced as
  reconciled=false" (`src/app.py:7990`) and answers "unknown" (`8017`).
- A restore of a rig promises that it is excluded again only for news
  (`src/services/rental_performance.py:205`, `6319`), but a stamp of 0.0 counts as
  none (`6346`).
- A poll that outlived its lock releases whatever lock the global names then
  (`src/app.py:3285`, `3319`).
- A restore that fails at boot leaves the empty database to be backed up over the
  good copy (`src/app.py:4622`).
- "Cached at module level and refreshed on save" (`src/app.py:2321`) holds of saves
  through `services.settings` only.
- Deduplication of a streak (`src/docs/RENTAL_EVIDENCE.md:62`) ends when its slot
  is pruned.
- The replay promises "the same pipeline as a live cycle"
  (`src/core/alerts/automation_engine.py:464`; `src/routes/alerts_routes.py:545`,
  "applied exactly like a live cycle") and differs in two ways. A rule that loses a
  conflict cools down live (`automation_engine.py:631`, `not dry`) and not in the
  replay, which so fires it, or lets it cancel others, while the pilot would not:
  `ReplayIsLive` without `~parted` is violated on the instance of `services_safety`.
  And the cap of a window of 900 seconds (`automation_engine.py:62`) is in the replay
  a cap on all of its 24 hours (`alerts_routes.py:600`, `automation_engine.py:546`):
  what it counts is the live number only up to that cap, and `ReplayIsLive` says no
  more.
- "A wallet switch never mixes data" (`src/app.py:2807`) needs three DELETEs to
  succeed; one that fails is logged (`2828`) and its rows are shown under the new
  wallet. The same goes for a wallet that cannot be loaded at start (`2285`): the
  environment's is watched, over the history of the saved one.

## 7. Not modelled

`components` in PROJECT.json gives the reason for each. In short: analytics,
market, estimators and advisors compute over data and keep no shared state;
discovery, device and pool protocols are parsing and network I/O whose results
are arbitrary inputs of the models; alert thresholds, growth records and
observability append or count; accounts, tenants, tokens and settings are rows
that every model takes as given; backups and push notifications are transfers to
external services; start-up runs before anything else; the user interface and the
simulators are clients. Within modelled components, the parts left out (history,
audit, telemetry limits, other families of rental alerts) are named there too.

## 8. Plan

1. Models of what is left with state worth racing for: settings and their cache,
   the remote backup's identity, evidence of rentals, revocation of tokens.
2. A second process: registry, cooldown cache and poll lock per process, over one
   database.
3. Abstract specifications that the other services implement, as `PhysicalEffects`
   and `LicensePromise` are of commands and payments: a loss told once, a session
   polled while it is used.
