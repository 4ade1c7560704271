# A TLA+ verification of the Agentic Developer Platform

This directory specifies the parts of the platform where several processes share
state under a limit, or hand work to each other across crashes: who may hold a
stream slot, how much may be spent, and how an approved operation is paid for,
queued, executed exactly as planned and concluded truthfully. The modules translate
code of `src/modules/gateway/` and `src/modules/harness/`; `PROJECT.json` maps the
definitions to the lines they model.

```
cd tla
tlc -workers 2 -config MCStreamLeases.cfg MCStreamLeases     # a run
tlc -workers 2 -config MCExecutionLive.cfg MCExecution       # another configuration
tlapm ExecutionProofs.tla                                    # the proofs of a module
```

## 1. The system

The repository is a monorepo. The gateway (Python, FastAPI; Postgres, Redis and
DynamoDB; two replicas of four worker processes) fronts model providers and
runs delivery flows; the harness executes the jobs of those flows; the other
modules are agent content, applications, infrastructure and tooling.

An operation's way through the harness connects four of the parts below:

```
approval -> Admission -> Outbox -> dispatch() -> Execution leases -> provider
             | ledger     | gives up, cancels      | recovery
```

Admission books budget and commits operation, outbox row and approval consumption
in one transaction. The outbox delivers the operation to the gateway at least once.
An executor acquires the execution lease and runs the plan step by step. Recovery
takes over what a dead executor left, asks the provider what happened, and
concludes. Cancellation may arrive at any of these places.

### 1.1 Parts with shared, concurrent state

| Part | State | Operations | Interacts with | What is hard | What makes it correct |
|---|---|---|---|---|---|
| **Stream leases** `tasks/stream_leases.py`, `tasks/response.py` | three Redis sorted sets per stream (environment, principal, task), a local deadline per stream | acquire, renew, release; send a frame; the renewal guard; close | pods to Redis by scripts with a 2 s timeout | commands executed after the caller gave up, renewals overtaken by releases, lost pods, two clocks | a writer is always counted by Redis; limits hold; slots come back |
| **Hierarchy budgets** `budget/enforcement_service.py`, `budget/reservations.py`, `budget/settlement.py` | a ledger row per budget and period, a Redis hash of reservations per budget | check, reserve, settle, reconcile | proxy's admission and finalizer; the usage tracker settles too | the ledger lags; the checks of a burst see the same total; Redis may fail or lose the answer; reservations expire | caps hold up to the error of the estimates; all budgets or none |
| **Flow meter** `orchestration/flow_meter.py`, strict half of `reservations.py`, `budget/enforcement_settings.py`, `enforcement_routes.py` | one hash per flow (anchor, charges, `pending:`, `bounded:`, `unbounded:` markers), a durable claim, an on/off switch, accounting gaps, receipts | prepare, observe, extend, reserve, reconcile, retain, mark unknown, repair | node admission, model requests, the repair pass, an administrator | no ledger behind it: what is forgotten is spendable again; the switch moves under running requests | nothing the flow started is forgotten by a later admission; unreadable only for a while |
| **Project meter** `budget/project_budget.py` | a hash with a durable opening balance | prepare, reconcile, release a receipt | as the flow meter | initialization in Redis before the commit in Postgres | as the flow meter, plus agreement with the ledger |
| **Grace window** `budget/grace_window.py` | one Redis key, a fallback per process | register failure, clear | every failing or healthy ledger read | the key's own expiry; processes without a window | at most one window per outage |
| **Harness admission** `harness_jobs/admission.py`, superplane's `operation_budget_ledger.py` | an intent, a consumption, a session lock per approval; a reservation in another database | admit, compensate, reconcile interrupted admissions | writers, the sweep, the ledger | two databases without a common transaction; lost answers; lost sessions under a session lock | every hold is described; an admitted operation is funded; a settled admission stays settled |
| **Harness outbox** `harness_jobs/outbox.py`, `store.py`, `dispatch_recovery.py` | rows with claim, generation, attempts, abandonment; the operation's state and version | claim, deliver, acknowledge, fail, give up, sweep; cancel; reauthorize | workers, the gateway's `dispatch()`, executors, cancelling callers | claims that lapse under a slow worker; a worker that dies on the last attempt; conclusions racing with late marks | at least once; conclusions stand; budget goes back only if nothing was created; nothing is stranded |
| **Execution leases and recovery** `harness_jobs/leases.py`, `execution.py`, `execution_rpc.py`, `execution_plan.py`, `recovery.py` | per operation: holder, fence, expiry, attempts; per step: intent, outcome, reconciliation attempts | acquire, renew, release, close, take over; intent, call, observe, settle; reconcile, conclude | executors, two recovery sweeps, the provider, cancellation | a lapsed executor that keeps writing; a call whose effect arrives after its caller died; two sweeps | each step at most once and in order; what the ledger is told is true; an abandoned operation ends |
| **Environment leases, work claims** `orchestration/environment_leases.py`, `work_claims.py` | an owner and an expiry per environment or work item | acquire, extend, take over, release | orchestration tick, launch paths | two launch paths, late holders | one owner per environment and work item |
| **Orchestration tick** `orchestration/state.py`, `tick.py`, `tick_handler.py` | node states, attempts, plan revisions | evaluate readiness, dispatch, complete, supersede | all of the above | retried and concurrent ticks, revisions during a run | no node runs before its inputs; no lost completion |
| **Rate limits, account pool** `ratelimit/`, `pool/` | token buckets, health and cooldown in process memory | consume, refill; select, fail, recover | every request | refill arithmetic, backoff limits | never above the rate; an account recovers |

### 1.2 Parts without a protocol of their own

Authentication and administration, product and onboarding services, the model
proxy's transport, agent factory and context, domain applications, insights,
deployment and platform automation, contracts and libraries: request handlers over
one row, provisioning scripts, schemas. `PROJECT.json` lists each with the reason
it is not modelled. The hazards found while reading, with the line at which each
bites, are its `hazards`.

## 2. Plan

Order: what limits spending and capacity first, because a wrong decision there is
silent; then the protocol that acts on the outside world.

1. `StreamLeases` (done, proved): the lease protocol with its network.
2. `Amounts`, `LiveDenominator` (done, proved): the hierarchy caps.
3. `FlowMeter` (done, safety proved): a strict meter without a ledger behind it.
4. `Delivery`, `Outbox` (done, safety and refinement proved): the dispatch queue
   refines its promise.
5. `PlanRun`, `Execution` (done, safety and refinement proved): leases, provider
   calls and recovery refine the run of a plan.
6. `Admission` (done, safety proved): two databases and a session lock.
7. Provider retry: a generation per call in `Execution`, opened by a receipt. Then
   the allocation seal, which may refuse a step after enumeration.
8. `ProjectMeter`: the strict hash with a durable opening balance; `GraceWindow`:
   one window per outage and the expiry of its key.
9. `WorkClaims`, `EnvironmentLeases`, then the orchestration tick over them.
10. Token bucket and account pool.

Composition: `Outbox` holds a coarse executor (`Acquire`, `CreateResource`,
`ReleaseLease`, `Settle`), and `Execution` holds the coarse queue and canceller
(`GiveUp`, `RequestCancellation`, `SettleUnheld`). Each has the other's writes to the
tables they share, so the interleavings that matter to one are in its own module.

## 3. The modules

Time is a counter of what is *left* of each deadline, so states stay finite without
a clock; `Tick` is one unit. The harness modules need less: a claim or lease is live
or lapsed, and may lapse at any moment. Money is a number of units. Every Redis script is one
action, because Redis runs scripts one at a time, and so is every database
transaction; whatever happens between two calls
of one handler may interleave. Operators named `Mutant...` are deliberate faults in
the operator below them, used by no specification: each shows that a property fails
when the code is wrong in a plausible way.

### StreamLeases

State: `score`, `ttl` (the sorted sets and their EXPIRE), `stage`, `left`, `age` (the
pod), `wire`, `reply` (the network). `ExecuteAcquire`, `ExecuteRenew`,
`ExecuteRelease` are the scripts; `Acquire` ... `Close` are the awaits and
exceptions of `acquire_lease`, `renew`, `release` and `TaskStreamingResponse`;
`LoseCommand`, `Crash` and `Tick` are the environment. A command stays on the wire
after its caller timed out and may be executed in any order. One wire entry per
stream and script suffices: a stream sends ACQUIRE and RELEASE once, and a
renewal follows the reply of the one before it.

`Writing` is the guard of `_bounded_send`. The code's 2 s timeout is not a bound in
the model: a caller may give up at any moment, and a reply may be arbitrarily late,
which covers any timeout.

### LiveDenominator

State: the hash of each budget (`amount`, `left`, `ttl`), the request (`stage`,
`read`, `seen`, `age`), and the ledger (`posted`, `cost`). `CheckEntityBudget` reads
one budget's ledger row at a time, so that the reads of one check can straddle a
settlement; `Reserve` and `ReserveDegraded` are `_reserve_or_degrade`; `Finish` is
the provider; `SettleUsage`, `Reconcile` and `Lose` are what may follow, in any order.

Two times are constants: `MAX_CHECK` (first read to reservation) and `MAX_POST`
(reservation to debit). Nothing in the code relates them to the reservation's TTL,
and nothing in the model does: they bound the runs and are arbitrary in the proofs.
The history variable `late` collects the requests whose reservation ran out while it
was `Needed`: while the request was not settled, or while a check that had read the
ledger before its debit had not reserved yet. No action reads it.

A request let through in degraded mode is outside the promise of the caps (only the
settled ledger was consulted) and so is one whose usage is never reported. What a
response costs beyond its estimate is covered by no reservation. `SpendWithinCap`
states the rest as the code's documentation does, and fails (see the findings);
`OverrunOnlyByLate` is what the reservations do guarantee: without the late requests
every cap holds, so a cap is exceeded by no more than the exposure of late requests,
and not at all while there is none.

Left out: soft limits and warnings, run and chain scopes, tool estimates, the grace
window, period rollover (a different key).

### FlowMeter

State: the switch `enabled`, the claim `init`, the hash (`anchored`, `left`,
`amount`, `pending`, `due`, `bounded`, `unbounded`), the requests (`stage`, `off`,
`cost`), and what is durable in Postgres (`receipts`, `gaps`). `lost` is a history
variable.

| Code | Actions |
|---|---|
| `enforcement_routes.change` | `SetEnforcement` |
| `prepare_flow_meter` | `Claim`, `Initialize`, then the same renewal as `RepairExtend` |
| `prepare_enforcement_context` | `ReadEnforcement` |
| `_observe_without_enforcement` | `Observe` (the answer of the placeholder's write may be lost; the gap may not commit) |
| `ReservationStore.reserve` | `Extend`, `Reserve` |
| `reconcile_reservation` | `ReconcileKnown`; `ReconcileUnknown`, then `RetainFailedBound` or `MarkUnknown`, `MarkUnknownSet` |
| `reconcile_flow_meter` | `RepairExtend`, `RepairReceipt`, `RepairExpired` |

The abstraction of time: one unit is longer than two consecutive Redis calls of one
handler (claim and anchor; extend and reserve), so `Tick` waits for them. Real
lifetimes are days and the two calls take milliseconds.

The gap that the repair pass records is stored under the Redis key and the posture
is read under `flow:<org>:<flow>`: it is an audit row and no member of `gaps`. A
request whose posture was read before a gap was recorded may still be admitted;
`AdmissionCovered` therefore leaves out requests with a gap (`Accountable`), and the
refusal that a gap causes is the guard of `ReadEnforcement`.

Left out: the run and chain counters that a receipt repairs along with the flow's,
and `retained:` markers of tool calls.

### Admission

State: `intent` (`harness_admission_intent.stage`), `consumed` (the consumption row,
which stands for operation and outbox row too: they are committed with it),
`ledger` (the reservation's state), `owner` (the session that holds the approval's
advisory lock), and where each process stands (`pc`, `at`, `want`).

| Code | Actions |
|---|---|
| `admit_operation`, `_admit_approved_operation` | `Begin` |
| `_reserve`, `_advance_intent`, `_confirm`, `_commit_admission` | `Reserve`, `Advance`, `Confirm`, `Commit` |
| `reconcile_interrupted_admissions` | `Sweep`, then `Check` |
| `_compensate_orphaned_hold`, `_release_quietly`, `_resolve_intent` | `Settle`, `Resolve` |
| ledger `reserve`, `confirm`, `_settle` | `CanReserve`, `Room`, `CanConfirm`, `CanSettle` |

The ledger executes a call while its caller waits, and the answer may be lost
whether or not it took effect (`Unavailable`). Identities are derived from the
approval, so the approval names them. A retry of a consumed or settled approval
changes nothing and is not a step. The database session and the process are
separate: `LoseSession` frees the lock while the process still waits for the
ledger, which needs no session. This is why the funding property is stated as
`FundedWithoutSessionLoss`: the code holds a Postgres lock across a call to another
database, and a release decided under a lock that is already lost (the sweep's at
`admission.py:1517`, a failed writer's at 1997) can land after another writer
confirmed the same hold and committed. No property rules this out; it is listed
among the hazards. `HoldDescribed` and `SettledIsFinal` hold
with lost sessions, and are proved so.

Left out: envelopes of several sizes, the approval checks before `Begin`, settlement
receipts that close a confirmed hold later. The sweep takes the oldest 50 intents;
the model lets it visit every listed one, so intents that can never be resolved
(see the findings) do not crowd out others in the model as they might in a long list.

### Delivery and Outbox

`Delivery` is the promise: a queued operation reaches an executor before it counts
as delivered, giving up and concluding "unknown" are one fact, a conclusion is
final (apart from one reauthorization), and budget goes back only for an operation
that created nothing. `Outbox` has the row, its claims, what each worker holds in
memory, the cancelling caller and the ledger, and implements it through `D`.

| Code | Actions |
|---|---|
| `claim`, `drain_once` | `Claim`, `DeliverTo` (the hand-off may land with its answer lost) |
| `_mark_delivered`, `_mark_running` | `MarkDelivered`; `ReadForRunning`, `MarkRunning` |
| `_record_failure`, `_mark_undeliverable` | `RecordFailure`, `Exhaust`, `BeginUndeliverable`, `CommitUndeliverable` |
| `recover_abandoned` | `RecoverAbandoned`, `SettleStranded` |
| `cancel_before_dispatch`, `settle_unheld_cancellation` | `CancelBeforeDispatch`, `TellLedger`, `RecordReservation` |
| `recover_undispatched` | `RecoverUndispatched` |
| the executor, coarse | `Acquire`, `CreateResource`, `ReleaseLease`, `Settle` |

`claim_generation` is only compared with the current one and a worker holds one
envelope of a row at most, so the row's `speaker` (whom the current generation was
issued to) stands for the number. `op.version` is kept, as `transition` compares it.
`Legacy` are rows that an earlier build left abandoned without a conclusion, which
`recover_abandoned` exists for; they start as not handed over (`outbox.py:808` says
that this cannot be established; a legacy row that did reach an executor is not
modelled). A worker's database session lives as long as it.

### PlanRun and Execution

`PlanRun` is the promise: the steps reach the provider in order, each at most once,
the next only after the last was performed; a conclusion is final and true; after
`succeeded`, `failed` or `cancelled` nothing is sent. `Execution` implements it
through `P`: `sent` counts provider calls, `Performed` and `Refused` read the
provider.

| Code | Actions |
|---|---|
| `leases.acquire`, `release`, the clock | `Acquire`, `ReleaseLease`, `Lapse` |
| `execute_step`, `record_intent` | `RecordIntent`, `RepeatStep` |
| `_execute_provider` | `CheckCancellation`, `CallProvider`, `HookReturns`, `RecordAnswer` |
| `cancel_requested`, `_settle` | `PollCancellation`, `FinishStep` |
| `sweep_expired_leases`, `_recover_one` | `TakeOver`, `ReserveObservation`, `Observe`, `RecordObservation`, `ConcludeRecovery` |
| `sweep_unresolved_calls`, `_finalize_if_all_calls_settled` | `BeginOrphan`, `Observe`, `RecordOrphan` |
| `request_cancellation`, `settle_unheld_cancellation`, `_mark_undeliverable` | `RequestCancellation`, `SettleUnheld`, `GiveUp` |
| crashes and the outside | `Stop`, `SweeperCrash`, `Arrive`, `BecomeDue` |

A fence token is compared together with its holder, and a process forgets a grant
before it takes another; the holder's identity therefore stands for the pair
(holder, fence). `renew` extends a live lease and never brings back a lapsed one: in
a model where a live lease may lapse at any moment it changes nothing. The dispatch
advisory lock is no variable: who holds it follows from where executors and orphan
recoveries stand (`DispatchFree`). A request under way is performed or refused later,
with or without anyone listening (`Arrive`). The observer tells the truth, may always
fail, and establishes absence only of a request that is not under way.

Left out: the allocation seal that may refuse a step, the memory of provider
references, provider retries under a receipt, the audit trail, and a bootstrap
retry's longer runtime ceiling.

## 4. Runs

| Run | Question | Instance | States |
|---|---|---|---|
| `stream_leases` | does a writer always hold its lease, within the limits, and is every slot reclaimed? | 2 streams that compete for one slot of the environment and have scopes of their own; lease of 3 units; `FairSpec` | 27 thousand |
| `live_denominator` | is a cap exceeded by anything but late requests? | 3 requests, user cap 2, organisation cap 3; TTL 2, `MAX_CHECK` 1, `MAX_POST` 2: a reservation may run out under its call or under another's check, or not | 616 thousand |
| `live_denominator_long` | do the caps hold as documented? (violated) | TTL 2, `MAX_CHECK` 0, `MAX_POST` 3 | |
| `flow_meter` | is anything the flow started forgotten? | 3 requests, cap 3, quotes 2, 1, 1; TTL 2, SLACK 1, marker 1 | 3.1 million |
| `flow_meter_live` | does an unreadable meter recover? | 2 requests, cap 2, grace 1, `FairSpec` | |
| `flow_meter_settled` | does a settled charge stay settled? (violated) | as above | |

| `outbox` | does the queue keep its promise, whoever dies where? | 1 operation, 3 workers of which one sweeps, 2 attempts, 2 crashes; the row may be a legacy one and may be unpaid; `LiveSpec` | 419 thousand |
| `execution` | does the provider see the plan once and in order, and are outcomes true? | 1 operation, plan of 2 steps, 2 executors, 2 recovery passes, 2 attempts, 2 observations, 1 fault of a pass; with the finalizer hook | 621 thousand |
| `execution_live` | does an operation whose executor died end? | 1 executor, 1 recovery pass, 1 observation, no finalizer hook; `LiveSpec` | 27 thousand |
| `execution_scoped` | and with the finalizer hook? (violated) | as above, no faults of the pass | |
| `admission` | is budget described, decided, and never taken from an admitted operation? | 3 approvals, two of one request; room for 2 holds; 1 writer, 1 sweeper; one lost answer, one crash, one lost session; `LiveSpec` | 162 thousand |
| `admission_retained` | is every intent resolved? (violated) | 1 approval, one lost answer | |

Why the bounds are enough to be interesting. A lease of 3 units gives a renewal that
arrives while the lease is young, one that arrives at its end, and a member that
is over but not yet pruned; two streams that compete for one slot reach a limit in
one scope and not in another. (The safety properties of this module are also proved
for any number of streams, scopes and units.) In the budget runs the quotes fit in
pairs and not all together, one request may cost less than its estimate (or nothing)
and one more, and the TTL is long enough that some requests settle in time and short
enough that others are late, that fields stay unpruned after they expire, and that
they are dropped with their key. In `outbox` three
workers give a claim, a successor after it lapsed and a sweep of both; two attempts
give a last one that is not the first. In `execution` a plan of two steps has a
prefix that a second executor continues, two executors have one fenced out by the
other, and two passes have a sweep and an orphan recovery overtake one another; the
safety properties and the refinement are proved for any operations, steps, executors
and passes. In `admission` two approvals of one request are rivals for it, and the
third competes with them for the room. The symmetry sets of the safety runs permute
what the constants do not tell apart; liveness runs use none.

Deadlock is checked in the gateway's runs, where time always passes. It is not in the
harness' runs, where the system may really stop: an operation that is delivered and
concluded, or an approval that is spent, has nothing left to do.

### Fairness

* `StreamLeases`: time advances, and a command on the wire is eventually executed or
  lost. No pod owes anything: it may be gone, which is why expiry is the backstop.
* `FlowMeter`: `Initialize` and `Reserve` are the second of two consecutive calls of
  a running handler, which returns by its timeout (weak fairness). Time passes
  (strong fairness: a stream of admissions disables `Tick` again and again). The
  repair pass runs before every later admission of the flow, so as long as the flow
  asks for work it runs again; it renews the charges and then settles within one
  pass, so `RepairExtend` is weakly and `RepairExpired` strongly fair. A flow that
  never asks again needs no meter. No fairness is assumed of finalizers,
  receipts, or the administrator.
* `Outbox`: a live worker finishes the pass it is in (its calls have timeouts), the
  scheduler keeps calling `drain_once` and `recover_abandoned`, and claims lapse.
  Nothing is assumed of the executor, of the delivery's answer or of a cancelling
  caller. One worker sweeps: two overlapping sweeps may take each other's generation
  away again and again, a hazard listed without a property.
* `Execution`: every step of an executor is bounded in time by the service
  (`execution_rpc.handle`) and a pass by its deadlines; both sweeps are scheduled
  periodically; clocks advance; a request under way is performed or refused in the
  end; a finalizer that is asked again and again confirms in the end (strong
  fairness). An executor is never obliged to start or continue a plan, and may die
  at any point (`Stop` is free).
* `Admission`: every call is answered or given up; the sweep is run again and again
  and gets to every listed intent (strong fairness, because an approval in a writer's
  hands is skipped). An operator runs it, as the downgrade notes of `schema.py` ask.
  Writers need not retry.

## 5. Proofs

All proofs hold for any value of the constants that the module's named assumption
admits.

| Theorem | States |
|---|---|
| `StreamLeasesProofs!TypeCorrect`, `WriterAlwaysHoldsLease`, `LimitsHold`, `ScopesAlwaysAgree`, `NoRevival` | the five safety properties of `stream_leases` |
| `LiveDenominatorProofs!TypeCorrect`, `AllOrNothing`, `NoResurrection` | the type invariant and the two properties of the script |
| `LiveDenominatorProofs!OverrunIsLate` | `OverrunOnlyByLate`, whatever the times; its corollary `CapsStaySound` is `[](late = {} => SpendWithinCap)` |
| `FlowMeterProofs!TypeCorrect`, `NoSecondAllowance`, `AdmissionIsCovered` | the three safety properties of `flow_meter`: types, a lost meter is never initialized again, nothing the flow started is forgotten by an admission |
| `OutboxProofs!TypeCorrect`, `ReleaseIsClean`, `ClaimsAreUndisturbed`, `ConclusionsStand` | the type invariant, the safety invariant and the two action properties of `outbox` |
| `OutboxProofs!Refinement` | `Outbox` implements `Delivery` |
| `AdmissionProofs!TypeCorrect`, `HoldsAreDescribed`, `SettlementIsFinal`, `AdmissionStaysFunded` | the four safety properties of `admission` |
| `ExecutionProofs!TypeCorrect`, `LedgerIsToldTheTruth`, `RecoveryWaitsForDispatch`, `OutcomesAreFinal` | the type invariant and three safety properties of `execution` |
| `ExecutionProofs!CapacityRespected` | `WithinCapacity`, for any number of operations of a tenant; with one operation no run could break it |
| `ExecutionProofs!Refinement` | `Execution` implements `PlanRun` |

**StreamLeases.** `WritersWithinLimit` is not inductive: a writer must be tied to a
member of the sorted set, and the number of members to the limit. The invariant
`IInv` adds: where the pod can be while a command or a reply is under way
(`WireInv`: an ACQUIRE not executed yet has no reply, a RELEASE means that the
stream is closed); that a reply `ok` not read yet means that
the members of the stream have at least `LEASE - age` left (`ReplyInv`, the reason
why the deadline may be computed from the start of the request); that a key outlives
its members (`KeyInv`); that no scope counts more live members than its limit
(`LimitInv`). In `LimitsHold` the writers of a scope are then a subset of its live members.

**LiveDenominator.** The amount at risk of a budget is split into what the ledger
already shows a checking request and what live reservations cover. The invariant
says that every counted request that is not late has a live field in each of its
budgets for as long as that field is needed (`CoverInv`), and that a live field's
amount is at least its request's exposure (`AmountInv`). So the comparison of the
reservation script covers every request that is not late, whatever was read, settled
or adjusted in between; no bound on any time is assumed. `AmountsProofs` supplies the laws of sums. Sums are defined
as cardinalities of sets of `<<request, unit>>` pairs, so that the library's theorems
on finite sets give monotonicity, union and single-step change; a fold would need an
induction the provers cannot do.

**FlowMeter.** `AdmissionCovered` compares what the flow ever started with what one
script reads in one hash, so the invariant must say what stands behind each request
after any expiry, loss or switch. `Coverage` does: as long as the hash is initialized
(or about to be), a request that was let through and has no accounting gap has its
charge; if it ran unenforced, either its unbounded field keeps the meter closed, or it
is over and the charge is at least its cost; otherwise the charge is at least its
exposure. Two facts carry `Coverage` over the scripts that forget something.
`ExtendedLive`: between the two calls of an admission no charge is expired, unless the
hash was lost; so the pruning pass of the reservation script finds nothing to prune,
and at that moment the sum over the live charges is a sum over everything started.
`ClaimInv`: an anchor, present or lost, means that the initialization is over, and
nothing leads back; so after a loss `Coverage` promises nothing and the strict meter
admits nothing. `Beginnings` rules out receipts of running requests, which would
let a repair replace an estimate by a cost too early. The step from requests to money
is `TotalMonotone` of `AmountsProofs`.

**Outbox.** The invariant says what a worker's memory is worth when the row still
names it as its speaker (the number of the claim). `OneEnvelope` makes the speaker
stand for the generation; `ClaimFresh` and `SweepFresh` say that a claim that still
speaks is of a row nobody gave up, and a sweep that still speaks of a row nobody
claims; `LockOwned` ties the version a worker read under the row lock to the
existence of a conclusion, which is why its compare-and-set fails exactly when another
one came first; `AnswerDurable`, `RemovedBeforeRunning` and `PendingWhenSeen` say what
an answer, a removal and a version established. `SplitCommitUntouched` covers rows of
the build that abandoned and concluded in two commits. For the budget, `FencedFirst`
(the lease is closed and the operation concluded before the ledger is told) and
`ExecutedIsHanded` give `ReleaseClean`. As in `Execution`, most actions are first shown to be
moves that leave memory, row and operation at rest (`MemoryRests`, `RowRests`,
`OperationRests`), and only the few that are not are looked at one by one. For the
refinement the conclusions a step can make are enumerated once, and each action is a
`Delivery` step or a stutter.

**Admission.** `IInv` ties the stores together: whatever is held or under way has an
intent (`HoldHasIntent`, `BusyHasIntent`), a resolved intent is consumed or its hold
released (`ResolvedAccounted`), a process about to resolve has seen to that
(`ResolvingAccounted`), and an intent is not resolved under a process that still has
its session (`OwnerUnresolved`). It holds with lost sessions. Funding needs a second
invariant that does not (`FundInv`): while no session was lost, a busy process owns
its approval's lock, only the one that resolves is left after a consumption, and the
hold is confirmed from the confirmation to the commit.

**Execution.** The argument has two halves. A *move* says what one step may do to
one executor, recovery pass, lease, call, request or conclusion (`ExecutorMove`,
`SweeperMove`, `AnswerMove`, `LeaseMove`, `CallMove`, `ProviderMove`,
`VerdictMove`); every action that writes the variable is shown to make such moves
only (`...Writers` name those actions). The conjuncts of `IInv` are then preserved
by any moves, with no further look at the actions. The core of `IInv`:

* `LockHeldByHolder`: whoever is inside a step is the lease's holder, live or not;
  a takeover needs the dispatch lock, so the holder cannot change meanwhile.
* `DispatchedIsIntended`, `WatchedNotInHand`: what an executor has in hand is
  undecided and no recovery pass watches it. From this follows that recovery never
  asks about a call that may still be made, and that a call is decided once.
* `HookAnswersTrue`, `SweepAnswersTrue`, `OutcomesTrue`: answers in memory and
  outcomes on record agree with what the provider did.
* `OrderedCalls`, `SentPrefix`: a step has an intent only when the ones before it
  succeeded, so the steps sent are a prefix of the plan.
* `OpenWhileDispatching`: while a call may still go out, nothing but "unknown" was
  concluded.

For the refinement, `SentPrefix` and `OrderedCalls` give the shape of a run: every
step before the last one sent was performed (`SentShape`), so the cardinalities of
the refinement mapping are the lengths of intervals, a provider call is `Start`, an
arrival `Perform` or `Refuse`, and a conclusion `Conclude`.

Only model-checked: the five liveness properties, `CapacityReclaimed`,
`MeterRecovers`, `NothingStranded`, `DeadExecutorSettles` and `HoldsDecided`, since
liveness under fairness (and the `ENABLED` in it) is outside the prover's reach. Every
safety property of a passing run is a theorem. Each inductive invariant was also
checked with TLC on the instance of the component's run before it was proved.

## 6. Findings

* **Reservations shorter than calls** (`live_denominator_long`).
  `budget/reservations.py:36` says that adjusting in place "is the conservative
  direction: caps stay sound". That holds while a reservation outlives the call and
  its settlement. The default lifetime is 120 s, a streamed response may be read for
  600 s, and an expired field is deleted, not counted. In the counterexample a
  request's field lapses while it runs, another one takes the room, and both settle.
* **A settled charge becomes an estimate again** (`flow_meter_settled`).
  `budget/reservations.py:795` says "A trusted receipt that won the race must never
  become estimated again". `retain_failed_bound` keeps to it; `retain_maximum`,
  called just before by the same finalizer, does not look for the marker and raises
  the charge to the ceiling of the quote. It needs a usage write that committed
  although its answer was lost and a repair pass in between. The error is on the
  conservative side (too much is charged), but nothing corrects it: the repair pass
  only visits requests with a marker.

* **A cancelled plan is deferred for ever** (`execution_scoped`).
  `recovery.py:7` says "An operation whose executor died does not stay stuck
  forever." With a finalizer hook, `_recover_one` does not offer a confirmed prefix
  of the plan to the hook (`recovery.py:846`), and defers an operation that owes
  cleanup until the hook has confirmed it (`recovery.py:884`). An operation cancelled
  during the first step of a longer plan is both: a prefix, and owing cleanup. Nobody
  may continue it either. In the counterexample every pass takes the claim, defers,
  and lets it lapse. Without the hook (`execution_live`) the property holds.
* **A lost confirm is retained for good** (`admission_retained`). `admission.py:115`
  says of it "**Retain.** Retry confirm under the same key", and `schema.py:2091`
  tells the operator to run the sweep "until it reports nothing outstanding". But
  retaining is a settlement at the ledger: the retried confirm is refused, and so is
  every release the sweep attempts. The intent is never resolved and its budget
  stays held although nothing was admitted.

## 7. Assumptions and limits

* Redis' clock and a pod's monotonic clock advance at the same rate. Their offset
  does not matter to the leases. The budgets compute deadlines from the pods' wall
  clocks, which are taken to agree.
* Redis runs a script atomically and does not lose a single field: what it loses, it
  loses as a whole key (`LoseMeter`). Losing the hash of a hierarchy budget is not
  modelled: it forgets the reservations in flight, and the caps then rest on the
  settled ledger alone, as the code accepts for a Redis outage.
* A Postgres transaction is atomic; a receipt and its debit commit together
  (`settlement.py`).
* Amounts are natural numbers of a smallest unit; rounding of decimals is not
  modelled.
* A process' advisory lock goes with its database session. Only `Admission` lets a
  session end before its process; in `Outbox` and `Execution` both end together.
* The provider performs a request at most once and not without being asked.

### Not modelled

`PROJECT.json` names a reason for every component that is not modelled. Most of the
repository is request handlers over one row, provisioning, seeds (the largest files
are price tables in migrations) and content, where a state machine would say nothing
that the code does not. What has a protocol worth a module and has none yet is in
the plan: provider retry and the allocation seal of the harness, the project meter
and the grace window, work claims, environment leases and the orchestration tick.
