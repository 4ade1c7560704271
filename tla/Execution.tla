------------------------------ MODULE Execution ------------------------------
(***************************************************************************)
(* Execution of an admitted plan by the harness, modules/harness/jobs/     *)
(* harness_jobs: execution leases (leases.py), provider calls and their    *)
(* intents (execution.py), the step protocol (execution_rpc.py), the plan  *)
(* prefix (execution_plan.py) and crash recovery (recovery.py).            *)
(*                                                                         *)
(* A transaction is one step.  An executor holds the operation's dispatch  *)
(* advisory lock while it is inside a step; it may die between any two     *)
(* transactions and during the provider call, whose effect may then still  *)
(* arrive.  A lease is "live" until the clock passes expires_at or         *)
(* runtime_deadline, at any moment; renew() never brings a lapsed one back *)
(* and so changes nothing that is modelled.                                *)
(*                                                                         *)
(* Every write is conditional on (holder, fence_token).  A grant or a      *)
(* recovery claim is remembered by one process, which forgets it before it *)
(* takes another, so the row's holder stands for the pair.                 *)
(***************************************************************************)
EXTENDS Naturals, FiniteSets

CONSTANTS
    Operations,       \* admitted operations of one tenant
    STEPS,            \* steps of the admitted plan
    Executors,        \* processes that run steps for a grant
    Sweepers,         \* processes that run the two recovery sweeps
    Nobody,           \* no holder
    MAX_ATTEMPTS,     \* the grants an operation may use up
    MAX_CONCURRENT,   \* live leases of a tenant
    MAX_RECONCILE,    \* observations of one uncertain call
    SCOPED,           \* recovery runs with prepare_settlement, observe_claim
    MAX_FAULTS        \* bound on recovery passes that crash or outlast a claim

ASSUME ExecutionAssumption ==
    /\ STEPS \in Nat \ {0}
    /\ Executors \cap Sweepers = {}
    /\ Nobody \notin Executors \cup Sweepers \cup Operations
    /\ IsFiniteSet(Operations)
    /\ MAX_ATTEMPTS \in Nat \ {0}
    /\ MAX_CONCURRENT \in Nat \ {0}
    /\ MAX_RECONCILE \in Nat \ {0}
    /\ SCOPED \in BOOLEAN
    /\ MAX_FAULTS \in Nat

Steps == 1 .. STEPS

VARIABLES
    op,         \* harness_operations: state, cancel_requested_at, cleanup_required
    lease,      \* harness_operation_leases
    call,       \* harness_provider_call_intent, one key for every step
    provider,   \* what the provider did about a step
    sent,       \* provider calls made for an operation
    executor,   \* what each executor is doing
    sweeper,    \* what each recovery pass is doing
    faults

vars == <<op, lease, call, provider, sent, executor, sweeper, faults>>

(* Operators named Mutant... are deliberate faults, one per property; they  *)
(* are used by nothing and show that the property can fail.                 *)
TERMINAL_STATES == {"succeeded", "failed", "cancelled", "unknown"}
Concluded(o) == op[o].state \in TERMINAL_STATES
(* An executor or a recovery pass without work; an executor with a grant. *)
Idle == [pc |-> "idle", o |-> Nobody, s |-> 0, answer |-> "none"]
Resting == [pc |-> "idle", o |-> Nobody, s |-> 0, answer |-> "none",
            todo |-> {}, fence |-> Nobody]
Running(o) == [pc |-> "running", o |-> o, s |-> 0, answer |-> "none"]

NoCall == [stage |-> "none", outcome |-> "none", tries |-> 0, due |-> TRUE]
Intent == [stage |-> "intended", outcome |-> "none", tries |-> 0, due |-> TRUE]

(* disposition_for *)
Disposition(c) ==
    CASE c.stage = "intended" -> "retain"
      [] c.stage # "intended" ->
           CASE c.outcome = "succeeded" -> "settle"
             [] c.outcome \in {"failed", "absent"} -> "release"
             [] c.outcome \in {"unknown", "none"} -> "retain"

Recorded(plan) == {s \in Steps: plan[s].stage # "none"}
Uncertain(plan) == {s \in Steps: plan[s].stage = "intended"}
Released(plan) == \A s \in Recorded(plan): Disposition(plan[s]) = "release"
AllSucceeded(plan) == \A s \in Recorded(plan): plan[s].outcome = "succeeded"

(* confirmed_plan_progress: the calls made are a contiguous prefix of the   *)
(* plan and every one of them is confirmed.                                 *)
Progress(plan) ==
    LET made == Recorded(plan)
    IN  IF made = {} \/ ~ AllSucceeded(plan) \/ made # 1 .. Cardinality(made)
        THEN "unknown"
        ELSE IF made = Steps THEN "complete" ELSE "prefix"

MutantHoldsWhileOpen(p, o) == lease[o].holder # Nobody

(* lock_lease: the claim that p presents is current and live. *)
Holds(p, o) == lease[o].holder = p /\ lease[o].live

InStep(e, o) == executor[e].pc \notin {"idle", "running"} /\ executor[e].o = o
Orphaning(r, o) == sweeper[r].pc \in {"orphan asking", "orphan answered"}
                   /\ sweeper[r].o = o

(* The session lock harness-provider-dispatch:<operation>. *)
DispatchFree(o) ==
    /\ \A e \in Executors: ~ InStep(e, o)
    /\ \A r \in Sweepers: ~ Orphaning(r, o)

(* An UPDATE of the operation that is conditioned on its not being settled. *)
Settled(o, v) == IF Concluded(o) THEN op[o].state ELSE v
Closed(o) == [lease[o] EXCEPT !.closed = TRUE, !.holder = Nobody, !.live = FALSE]
Decided(o, state, cleanup) ==
    [op[o] EXCEPT !.state = state, !.cleanup = cleanup]
Unheld(o) == [lease[o] EXCEPT !.holder = Nobody, !.live = FALSE]

Answers == {"none", "succeeded", "failed", "absent", "unknown", "pending"}

OperationRows == [state: {"running"} \cup TERMINAL_STATES,
                  cancel: BOOLEAN, cleanup: BOOLEAN]
LeaseRows == [holder: Executors \cup Sweepers \cup {Nobody}, live: BOOLEAN,
              attempts: 0 .. MAX_ATTEMPTS, closed: BOOLEAN]
CallRows == [stage: {"none", "intended", "observed", "reconciled", "unresolved"},
             outcome: {"none", "succeeded", "failed", "absent", "unknown"},
             tries: 0 .. MAX_RECONCILE, due: BOOLEAN]
ExecutorStates ==
    [pc: {"idle", "running", "recorded", "calling", "waiting", "answered",
          "observed", "closing"},
     o: Operations \cup {Nobody}, s: Steps \cup {0}, answer: Answers]
SweeperStates ==
    [pc: {"idle", "claimed", "asking", "answered", "orphan asking",
          "orphan answered"},
     o: Operations \cup {Nobody}, s: Steps \cup {0}, answer: Answers,
     todo: SUBSET Steps, fence: Executors \cup Sweepers \cup {Nobody}]

(* Who is at work is at work on an operation, who is inside a step on a step. *)
Placed ==
    /\ \A e \in Executors:
         /\ executor[e].pc # "idle" => executor[e].o \in Operations
         /\ executor[e].pc \notin {"idle", "running"} => executor[e].s \in Steps
    /\ \A r \in Sweepers:
         /\ sweeper[r].pc # "idle" => sweeper[r].o \in Operations
         /\ sweeper[r].pc \notin {"idle", "claimed"} => sweeper[r].s \in Steps

TypeOK ==
    /\ op \in [Operations -> OperationRows]
    /\ lease \in [Operations -> LeaseRows]
    /\ call \in [Operations -> [Steps -> CallRows]]
    /\ provider \in [Operations ->
                       [Steps -> {"none", "inflight", "performed", "refused"}]]
    /\ sent \in [Operations -> Nat]
    /\ executor \in [Executors -> ExecutorStates]
    /\ sweeper \in [Sweepers -> SweeperStates]
    /\ faults \in 0 .. MAX_FAULTS
    /\ Placed

Init ==
    /\ op = [o \in Operations |->
               [state |-> "running", cancel |-> FALSE, cleanup |-> FALSE]]
    /\ lease = [o \in Operations |-> [holder |-> Nobody, live |-> FALSE,
                                      attempts |-> 0, closed |-> FALSE]]
    /\ call = [o \in Operations |-> [s \in Steps |-> NoCall]]
    /\ provider = [o \in Operations |-> [s \in Steps |-> "none"]]
    /\ sent = [o \in Operations |-> 0]
    /\ executor = [e \in Executors |-> Idle]
    /\ sweeper = [r \in Sweepers |-> Resting]
    /\ faults = 0

-----------------------------------------------------------------------------
(* The lease. *)

LiveElsewhere(o) == {x \in Operations \ {o}: lease[x].live}

(* _acquire: only an open, unheld lease with attempts left; provider        *)
(* history is taken over only as a confirmed prefix of the plan.            *)
MutantAcquireAgain(o) ==
    /\ ~ Concluded(o)
    /\ ~ op[o].cancel
    /\ ~ op[o].cleanup
    /\ Recorded(call[o]) = {} \/ Progress(call[o]) = "prefix"
    /\ ~ lease[o].closed
    /\ lease[o].holder = Nobody

Acquirable(o) ==
    /\ ~ Concluded(o)
    /\ ~ op[o].cancel
    /\ ~ op[o].cleanup
    /\ Recorded(call[o]) = {} \/ Progress(call[o]) = "prefix"
    /\ ~ lease[o].closed
    /\ lease[o].attempts < MAX_ATTEMPTS
    /\ lease[o].holder = Nobody

Granted(e, o) == [lease[o] EXCEPT !.holder = e, !.live = TRUE,
                                  !.attempts = @ + 1]

Acquire(e, o) ==
    /\ executor[e] = Idle
    /\ Acquirable(o)
    /\ Cardinality(LiveElsewhere(o)) < MAX_CONCURRENT
    /\ lease' = [lease EXCEPT ![o] = Granted(e, o)]
    /\ executor' = [executor EXCEPT ![e] = Running(o)]
    /\ UNCHANGED <<op, call, provider, sent, sweeper, faults>>

(* The clock passes expires_at or runtime_deadline.  A claim that ends      *)
(* under a recovery pass still at work counts against MAX_FAULTS.           *)
Lapse(o) ==
    /\ lease[o].live
    /\ lease' = [lease EXCEPT ![o].live = FALSE]
    /\ LET slow == lease[o].holder \in Sweepers
                   /\ sweeper[lease[o].holder].pc # "idle"
       IN  /\ slow => faults < MAX_FAULTS
           /\ faults' = IF slow THEN faults + 1 ELSE faults
    /\ UNCHANGED <<op, call, provider, sent, executor, sweeper>>

(* release: an attempt that asked nothing of a provider is handed back. *)
ReleaseLease(e) ==
    /\ executor[e].pc = "running"
    /\ LET o == executor[e].o
       IN  /\ Holds(e, o)
           /\ ~ op[o].cancel /\ ~ op[o].cleanup
           /\ Recorded(call[o]) = {}
           /\ lease' = [lease EXCEPT ![o] = Unheld(o)]
    /\ executor' = [executor EXCEPT ![e] = Idle]
    /\ UNCHANGED <<op, call, provider, sent, sweeper, faults>>

(* The process ends, or notices that it may no longer execute.  A dead      *)
(* session gives the dispatch lock back.                                    *)
Stop(e) ==
    /\ executor[e] # Idle
    /\ executor' = [executor EXCEPT ![e] = Idle]
    /\ UNCHANGED <<op, lease, call, provider, sent, sweeper, faults>>

-----------------------------------------------------------------------------
(* One step of the plan: execute_step, _execute_provider. *)

InPlan(e, pc) == executor[e].pc = pc
Leave(e) == executor' = [executor EXCEPT ![e] = Running(@.o)]

MutantStepRepeatable(o, s) ==
    /\ \A before \in 1 .. s - 1: call[o][before].outcome = "succeeded"
    /\ call[o][s].stage \in {"none", "intended"}

(* _execute_step and _record(fresh=True) *)
StepAllowed(o, s) ==
    /\ \A before \in 1 .. s - 1: call[o][before].outcome = "succeeded"
    /\ call[o][s].stage = "none"

(* The intent commits before the provider is contacted. *)
RecordIntent(e, s) ==
    /\ InPlan(e, "running")
    /\ LET o == executor[e].o
       IN  /\ DispatchFree(o)
           /\ Holds(e, o)
           /\ ~ Concluded(o) /\ ~ op[o].cancel
           /\ StepAllowed(o, s)
           /\ call' = [call EXCEPT ![o][s] = Intent]
           /\ executor' = [executor EXCEPT ![e] =
                             [pc |-> "recorded", o |-> o, s |-> s,
                              answer |-> "none"]]
    /\ UNCHANGED <<op, lease, provider, sent, sweeper, faults>>

(* A step that succeeded before is answered from its record, and the        *)
(* bookkeeping and the settlement behind it are repeated.                   *)
RepeatStep(e, s) ==
    /\ InPlan(e, "running")
    /\ LET o == executor[e].o
       IN  /\ DispatchFree(o)
           /\ Holds(e, o)
           /\ \A t \in 1 .. s: call[o][t].outcome = "succeeded"
           /\ executor' = [executor EXCEPT ![e] =
                             [pc |-> "closing", o |-> o, s |-> s,
                              answer |-> "succeeded"]]
    /\ UNCHANGED <<op, lease, call, provider, sent, sweeper, faults>>

(* _settle(CANCELLED) once the call counts as absent: refused, with cleanup *)
(* required, when an earlier step left something.                           *)
SettleCancelled(o, plan) ==
    IF Released(plan) /\ ~ op[o].cleanup
    THEN /\ op' = [op EXCEPT ![o].state = Settled(o, "cancelled")]
         /\ lease' = IF Concluded(o) THEN lease
                     ELSE [lease EXCEPT ![o] = Closed(o)]
    ELSE /\ op' = [op EXCEPT ![o].cleanup = @ \/ ~ Released(plan)]
         /\ UNCHANGED lease

(* _cancel_before_dispatch: the last transaction before the call. *)
CheckCancellation(e) ==
    /\ InPlan(e, "recorded")
    /\ LET o == executor[e].o
           absent == [call[o] EXCEPT ![executor[e].s] =
                        [@ EXCEPT !.stage = "observed", !.outcome = "absent"]]
       IN  IF ~ Holds(e, o)
           THEN Leave(e) /\ UNCHANGED <<op, lease, call>>
           ELSE IF op[o].cancel
           THEN /\ call' = [call EXCEPT ![o] = absent]
                /\ SettleCancelled(o, absent)
                /\ Leave(e)
           ELSE /\ executor' = [executor EXCEPT ![e].pc = "calling"]
                /\ UNCHANGED <<op, lease, call>>
    /\ UNCHANGED <<provider, sent, sweeper, faults>>

(* The hook contacts the provider ... *)
CallProvider(e) ==
    /\ InPlan(e, "calling")
    /\ LET o == executor[e].o
       IN  /\ provider' = [provider EXCEPT ![o][executor[e].s] = "inflight"]
           /\ sent' = [sent EXCEPT ![o] = @ + 1]
    /\ executor' = [executor EXCEPT ![e].pc = "waiting"]
    /\ UNCHANGED <<op, lease, call, sweeper, faults>>

(* ... which performs or refuses the request, with or without a listener ... *)
Arrive(o, s) ==
    /\ provider[o][s] = "inflight"
    /\ \E result \in {"performed", "refused"}:
         provider' = [provider EXCEPT ![o][s] = result]
    /\ UNCHANGED <<op, lease, call, sent, executor, sweeper, faults>>

(* ... and what the hook makes of its answer; a timeout or an exception is  *)
(* unknown.                                                                 *)
HookAnswers(state) ==
    CASE state = "performed" -> {"succeeded", "unknown"}
      [] state = "refused" -> {"failed", "absent", "unknown"}
      [] state \in {"none", "inflight"} -> {"unknown"}

HookReturns(e) ==
    /\ InPlan(e, "waiting")
    /\ \E a \in HookAnswers(provider[executor[e].o][executor[e].s]):
         executor' = [executor EXCEPT ![e] =
                        [@ EXCEPT !.pc = "answered", !.answer = a]]
    /\ UNCHANGED <<op, lease, call, provider, sent, sweeper, faults>>

(* observe: a fenced-out executor may not report. *)
MayObserve(e, o, s) == Holds(e, o) /\ call[o][s].stage = "intended"

(* An unknown answer leaves the intent to recovery; anything else is        *)
(* observed.  Cleanup is owed when a cancelled operation may have effects.  *)
RecordAnswer(e) ==
    /\ InPlan(e, "answered")
    /\ LET o == executor[e].o
           s == executor[e].s
           a == executor[e].answer
       IN  IF ~ MayObserve(e, o, s)
           THEN Leave(e) /\ UNCHANGED <<op, call>>
           ELSE /\ op' = [op EXCEPT ![o].cleanup =
                            @ \/ (op[o].cancel
                                  /\ a \in {"succeeded", "unknown"})]
                /\ IF a = "unknown"
                   THEN Leave(e) /\ UNCHANGED call
                   ELSE /\ call' = [call EXCEPT ![o][s] =
                             [@ EXCEPT !.stage = "observed", !.outcome = a]]
                        /\ executor' = [executor EXCEPT ![e].pc = "observed"]
    /\ UNCHANGED <<lease, provider, sent, sweeper, faults>>

(* cancel_requested(): the caller is told, nothing is settled. *)
PollCancellation(e) ==
    /\ InPlan(e, "observed")
    /\ LET o == executor[e].o
       IN  IF Holds(e, o) /\ ~ op[o].cancel
           THEN executor' = [executor EXCEPT ![e].pc = "closing"]
           ELSE Leave(e)
    /\ UNCHANGED <<op, lease, call, provider, sent, sweeper, faults>>

(* The verdict that the step's service may settle. *)
StepVerdict(o, answer) ==
    IF Recorded(call[o]) = Steps /\ AllSucceeded(call[o]) THEN "succeeded"
    ELSE IF answer = "absent" THEN "failed" ELSE "none"

(* after_step, which may fail, then the settlement of a complete plan or of *)
(* an established absence.                                                  *)
FinishStep(e) ==
    /\ InPlan(e, "closing")
    /\ LET o == executor[e].o
           v == StepVerdict(o, executor[e].answer)
           settles == /\ Holds(e, o)
                      /\ v # "none"
                      /\ ~ (op[o].cancel /\ v = "succeeded")
                      /\ ~ op[o].cleanup
                      /\ ~ Concluded(o)
       IN  \/ /\ settles
              /\ op' = [op EXCEPT ![o].state = v]
              /\ lease' = [lease EXCEPT ![o] = Closed(o)]
           \/ UNCHANGED <<op, lease>>
    /\ Leave(e)
    /\ UNCHANGED <<call, provider, sent, sweeper, faults>>

-----------------------------------------------------------------------------
(* Cancellation, and the other writers of the operation (module Outbox). *)

RequestCancellation(o) ==
    /\ ~ Concluded(o)
    /\ ~ op[o].cancel
    /\ op' = [op EXCEPT ![o].cancel = TRUE]
    /\ UNCHANGED <<lease, call, provider, sent, executor, sweeper, faults>>

(* The fence of settle_unheld_cancellation. *)
SettleUnheld(o) ==
    /\ op[o].cancel
    /\ lease[o].holder = Nobody
    /\ ~ Concluded(o) \/ ~ lease[o].closed
    /\ lease' = [lease EXCEPT ![o] = Closed(o)]
    /\ LET effects == Recorded(call[o]) # {}
       IN  op' = IF Concluded(o) THEN op
                 ELSE [op EXCEPT ![o] = Decided(o, IF effects THEN "unknown"
                                                   ELSE "cancelled", effects)]
    /\ UNCHANGED <<call, provider, sent, executor, sweeper, faults>>

(* The queue gives a delivery up while an executor may be at work. *)
GiveUp(o) ==
    /\ ~ Concluded(o)
    /\ op' = [op EXCEPT ![o].state = "unknown"]
    /\ UNCHANGED <<lease, call, provider, sent, executor, sweeper, faults>>

-----------------------------------------------------------------------------
(* Recovery of a lapsed lease: sweep_expired_leases, _recover_one. *)

MutantTakeOverDuringDispatch(o) == lease[o].holder # Nobody /\ ~ lease[o].live

(* fence_expired_lease: never while a provider hook is out. *)
Fenceable(o) ==
    /\ DispatchFree(o)
    /\ lease[o].holder # Nobody
    /\ ~ lease[o].live

(* The claim fences the dead holder out and uses up no attempt. *)
TakeOver(r, o) ==
    /\ sweeper[r] = Resting
    /\ Fenceable(o)
    /\ lease' = [lease EXCEPT ![o] = [@ EXCEPT !.holder = r, !.live = TRUE]]
    /\ sweeper' = [sweeper EXCEPT ![r] =
                     [pc |-> "claimed", o |-> o, s |-> 0, answer |-> "none",
                      todo |-> Uncertain(call[o]), fence |-> Nobody]]
    /\ UNCHANGED <<op, call, provider, sent, executor, faults>>

First(S) == CHOOSE s \in S: \A t \in S: s <= t

(* _reserve_reconciliation: the attempt is durable before the observation;  *)
(* "unknown" stands for an exhausted call, which is not asked about.        *)
MutantReserveFree(c) == [c EXCEPT !.due = FALSE]

Reserve(c) ==
    IF c.tries >= MAX_RECONCILE THEN c
    ELSE [c EXCEPT !.tries = @ + 1, !.due = FALSE]
Exhausted(c) == c.tries >= MAX_RECONCILE

ReserveObservation(r) ==
    /\ sweeper[r].pc = "claimed"
    /\ sweeper[r].todo # {}
    /\ LET o == sweeper[r].o
           s == First(sweeper[r].todo)
           rest == sweeper[r].todo \ {s}
       IN  IF ~ Holds(r, o)
           THEN sweeper' = [sweeper EXCEPT ![r] = Resting] /\ UNCHANGED call
           ELSE IF ~ call[o][s].due
           THEN sweeper' = [sweeper EXCEPT ![r].todo = rest] /\ UNCHANGED call
           ELSE /\ call' = [call EXCEPT ![o][s] = Reserve(@)]
                /\ sweeper' = [sweeper EXCEPT ![r] =
                     [@ EXCEPT !.todo = rest, !.s = s, !.answer = "unknown",
                               !.pc = IF Exhausted(call[o][s]) THEN "answered"
                                      ELSE "asking"]]
    /\ UNCHANGED <<op, lease, provider, sent, executor, faults>>

(* The observer establishes absence only of a request that is not under     *)
(* way; it may always fail or time out.                                     *)
ObserverAnswers(state) ==
    CASE state = "performed" -> {"succeeded", "unknown"}
      [] state \in {"none", "refused"} -> {"absent", "failed", "unknown"}
      [] state = "inflight" -> IF SCOPED THEN {"pending", "unknown"}
                               ELSE {"unknown"}

Observe(r) ==
    /\ sweeper[r].pc \in {"asking", "orphan asking"}
    /\ \E a \in ObserverAnswers(provider[sweeper[r].o][sweeper[r].s]):
         /\ a = "pending" => sweeper[r].pc = "asking"
         /\ sweeper' = [sweeper EXCEPT ![r] = [@ EXCEPT !.answer = a,
              !.pc = IF sweeper[r].pc = "asking" THEN "answered"
                     ELSE "orphan answered"]]
    /\ UNCHANGED <<op, lease, call, provider, sent, executor, faults>>

(* reconcile; a pending request gives its attempt back, an inconclusive     *)
(* answer leaves the call for a later pass while attempts remain.           *)
Reconciled(c, a) ==
    IF a = "pending" THEN [c EXCEPT !.tries = @ - 1]
    ELSE IF a = "unknown" /\ c.tries < MAX_RECONCILE THEN c
    ELSE [c EXCEPT !.outcome = a,
                   !.stage = IF a = "unknown" THEN "unresolved" ELSE "reconciled"]

RecordObservation(r) ==
    /\ sweeper[r].pc = "answered"
    /\ LET o == sweeper[r].o
       IN  IF ~ Holds(r, o)
           THEN sweeper' = [sweeper EXCEPT ![r] = Resting] /\ UNCHANGED call
           ELSE /\ call' = [call EXCEPT ![o][sweeper[r].s] =
                              Reconciled(@, sweeper[r].answer)]
                /\ sweeper' = [sweeper EXCEPT ![r].pc = "claimed"]
    /\ UNCHANGED <<op, lease, provider, sent, executor, faults>>

(* A confirmed prefix continues under another attempt (_release_prefix_claim); *)
(* so does an attempt that asked nothing of a provider.                     *)
Continues(o, plan) ==
    /\ ~ op[o].cleanup /\ ~ op[o].cancel
    /\ Recorded(plan) = {} \/ Progress(plan) = "prefix"
    /\ ~ lease[o].closed
    /\ lease[o].attempts < MAX_ATTEMPTS

MutantVerdictByCancelFlag(o, plan, cleaned) ==
    IF op[o].cancel THEN "cancelled"
    ELSE IF Released(plan) THEN "failed"
    ELSE IF Progress(plan) = "complete" THEN "succeeded"
    ELSE "unknown"

(* What recovery concludes from settled calls. *)
Verdict(o, plan, cleaned) ==
    IF op[o].cleanup /\ ~ cleaned THEN "unknown"
    ELSE IF op[o].cancel
    THEN IF Released(plan) THEN "cancelled" ELSE "unknown"
    ELSE IF Released(plan) THEN "failed"
    ELSE IF Progress(plan) = "complete" THEN "succeeded"
    ELSE "unknown"

(* prepare_settlement: the domain's finalizer confirms the clean-up, does   *)
(* not, or is refused; it is not asked about a plan that could continue.    *)
Preparations(plan) ==
    IF ~ SCOPED THEN {"no hook"}
    ELSE IF Recorded(plan) = {} \/ Progress(plan) = "prefix" THEN {"not asked"}
    ELSE {"cleaned", "not cleaned", "refused"}

(* The settling transaction of _recover_one.  A deferred operation keeps    *)
(* the recovery claim until it lapses.                                      *)
ConcludeRecovery(r, prepared) ==
    /\ sweeper[r].pc = "claimed"
    /\ sweeper[r].todo = {}
    /\ sweeper' = [sweeper EXCEPT ![r] = Resting]
    /\ LET o == sweeper[r].o
           plan == call[o]
           owed == op[o].cleanup \/ (op[o].cancel /\ ~ Released(plan))
           cleaned == prepared = "cleaned"
       IN  /\ prepared \in (IF Uncertain(plan) = {} THEN Preparations(plan)
                            ELSE {"not asked"})
           /\ IF ~ Holds(r, o) \/ prepared = "refused"
              THEN UNCHANGED <<op, lease>>
              ELSE IF Uncertain(plan) # {}
                      \/ (op[o].cleanup /\ SCOPED /\ ~ cleaned)
              THEN op' = [op EXCEPT ![o].cleanup = owed] /\ UNCHANGED lease
              ELSE IF Continues(o, plan)
              THEN lease' = [lease EXCEPT ![o] = Unheld(o)] /\ UNCHANGED op
              ELSE /\ op' = [op EXCEPT ![o] =
                          Decided(o, Settled(o, Verdict(o, plan, cleaned)),
                                  owed /\ ~ (op[o].cleanup /\ SCOPED))]
                   /\ lease' = [lease EXCEPT ![o] = Closed(o)]
    /\ UNCHANGED <<call, provider, sent, executor, faults>>

(* A recovery pass dies: its claim is left to lapse. *)
SweeperCrash(r) ==
    /\ sweeper[r] # Resting
    /\ faults < MAX_FAULTS
    /\ faults' = faults + 1
    /\ sweeper' = [sweeper EXCEPT ![r] = Resting]
    /\ UNCHANGED <<op, lease, call, provider, sent, executor>>

(* reconcile_after passes. *)
BecomeDue(o, s) ==
    /\ ~ call[o][s].due
    /\ call' = [call EXCEPT ![o][s].due = TRUE]
    /\ UNCHANGED <<op, lease, provider, sent, executor, sweeper, faults>>

-----------------------------------------------------------------------------
(* Recovery of uncertain calls without a live lease: sweep_unresolved_calls. *)

BeginOrphan(r, o, s) ==
    /\ sweeper[r] = Resting
    /\ call[o][s].stage = "intended"
    /\ call[o][s].due
    /\ ~ lease[o].live
    /\ DispatchFree(o)
    /\ call' = [call EXCEPT ![o][s] = Reserve(@)]
    /\ sweeper' = [sweeper EXCEPT ![r] =
         [pc |-> IF Exhausted(call[o][s]) THEN "orphan answered"
                 ELSE "orphan asking",
          o |-> o, s |-> s, answer |-> "unknown", todo |-> {},
          fence |-> lease[o].holder]]
    /\ UNCHANGED <<op, lease, provider, sent, executor, faults>>

(* _orphan_still_owned *)
OrphanOwned(r) ==
    LET o == sweeper[r].o
    IN  ~ lease[o].live /\ lease[o].holder = sweeper[r].fence

(* _finalize_if_all_calls_settled: no finalizer is asked here. *)
RecordOrphan(r) ==
    /\ sweeper[r].pc = "orphan answered"
    /\ sweeper' = [sweeper EXCEPT ![r] = Resting]
    /\ LET o == sweeper[r].o
           s == sweeper[r].s
           plan == [call[o] EXCEPT ![s] = Reconciled(@, sweeper[r].answer)]
       IN  IF ~ OrphanOwned(r) \/ call[o][s].stage # "intended"
           THEN UNCHANGED <<op, lease, call>>
           ELSE /\ call' = [call EXCEPT ![o] = plan]
                /\ IF Uncertain(plan) # {}
                   THEN UNCHANGED <<op, lease>>
                   ELSE IF Continues(o, plan)
                   THEN lease' = [lease EXCEPT ![o] = Unheld(o)] /\ UNCHANGED op
                   ELSE /\ op' = [op EXCEPT ![o] =
                             Decided(o, Settled(o, Verdict(o, plan, FALSE)),
                                     op[o].cleanup \/
                                     (op[o].cancel /\ ~ Released(plan)))]
                        /\ lease' = [lease EXCEPT ![o] = Closed(o)]
    /\ UNCHANGED <<provider, sent, executor, faults>>

-----------------------------------------------------------------------------
ExecutorStep(e) ==
    \/ CheckCancellation(e) \/ CallProvider(e) \/ HookReturns(e)
    \/ RecordAnswer(e) \/ PollCancellation(e) \/ FinishStep(e)

SweeperStep(r) ==
    \/ ReserveObservation(r) \/ Observe(r) \/ RecordObservation(r)
    \/ \E p \in {"no hook", "not asked", "cleaned", "not cleaned", "refused"}:
         ConcludeRecovery(r, p)
    \/ RecordOrphan(r)

ExecutorActs(e) ==
    \/ \E o \in Operations: Acquire(e, o)
    \/ \E s \in Steps: RecordIntent(e, s) \/ RepeatStep(e, s)
    \/ ExecutorStep(e) \/ ReleaseLease(e) \/ Stop(e)

SweeperActs(r) ==
    \/ \E o \in Operations:
         TakeOver(r, o) \/ \E s \in Steps: BeginOrphan(r, o, s)
    \/ SweeperStep(r) \/ SweeperCrash(r)

HappensTo(o) ==
    \/ Lapse(o) \/ RequestCancellation(o) \/ SettleUnheld(o) \/ GiveUp(o)
    \/ \E s \in Steps: Arrive(o, s) \/ BecomeDue(o, s)

Next ==
    \/ \E e \in Executors: ExecutorActs(e)
    \/ \E r \in Sweepers: SweeperActs(r)
    \/ \E o \in Operations: HappensTo(o)

Spec == Init /\ [][Next]_vars

(* The service bounds every step in time (execution_rpc.handle) and an      *)
(* executor is never trusted to finish; the sweeps run periodically and     *)
(* their observations have a deadline; clocks advance; a request under way  *)
(* is in the end performed or refused; an asked finalizer confirms the      *)
(* clean-up again and again until it succeeds.                              *)
Fairness ==
    /\ \A e \in Executors: WF_vars(ExecutorStep(e))
    /\ \A r \in Sweepers: WF_vars(SweeperStep(r))
    /\ \A r \in Sweepers, o \in Operations:
         /\ WF_vars(TakeOver(r, o))
         /\ SF_vars(ConcludeRecovery(r, "cleaned"))
    /\ \A o \in Operations:
         /\ WF_vars(Lapse(o))
         /\ \A s \in Steps: WF_vars(Arrive(o, s)) /\ WF_vars(BecomeDue(o, s))

LiveSpec == Spec /\ Fairness

-----------------------------------------------------------------------------
Performed(o) == {s \in Steps: provider[o][s] = "performed"}
Refused(o) == \E s \in Steps: provider[o][s] = "refused"
Conclusion(o) == IF Concluded(o) THEN op[o].state ELSE "open"

P == INSTANCE PlanRun WITH
    started <- sent,
    done <- [o \in Operations |-> Cardinality(Performed(o))],
    halted <- [o \in Operations |-> Refused(o)],
    verdict <- [o \in Operations |-> Conclusion(o)]

(* Whatever executors and sweepers die, lapse or overtake one another, the  *)
(* provider sees the steps of a plan in order and each at most once, the    *)
(* conclusion is final and true of what the provider did, and nothing is    *)
(* sent once it says succeeded, failed or cancelled (leases.py, execution.py *)
(* and recovery.py together).                                               *)
ImplementsPlanRun == P!Spec

(* What is owed to the ledger is true of the provider, for good: a call     *)
(* whose budget may be released never reached it or was refused, a call     *)
(* that is settled was performed (disposition_for).                         *)
DispositionsTrue ==
    \A o \in Operations, s \in Steps:
        /\ Disposition(call[o][s]) = "release" =>
              provider[o][s] \in {"none", "refused"}
        /\ Disposition(call[o][s]) = "settle" =>
              provider[o][s] = "performed"

(* Recovery never asks about a call while its executor may still make it:   *)
(* the dispatch lock outlives the lease (execute_provider,                  *)
(* fence_expired_lease).                                                    *)
NeverAskedInFlight ==
    \A r \in Sweepers, e \in Executors:
        (/\ sweeper[r].pc \in {"asking", "orphan asking"}
         /\ executor[e].pc \in {"recorded", "calling", "waiting"})
        => ~ (sweeper[r].o = executor[e].o /\ sweeper[r].s = executor[e].s)

(* A tenant's executors never hold more live leases than its cap, whatever  *)
(* lapses, is taken over or handed back meanwhile (_acquire).               *)
WithinCapacity ==
    Cardinality({o \in Operations:
                   lease[o].live /\ lease[o].holder \in Executors})
        <= MAX_CONCURRENT

(* A call's outcome is decided once: a late executor, a second sweep or an  *)
(* orphan recovery that started earlier never rewrites it (observe,         *)
(* reconcile).                                                              *)
OutcomeDecidedOnce ==
    [][\A o \in Operations, s \in Steps:
         call[o][s].stage \notin {"none", "intended"} =>
            /\ call'[o][s].stage = call[o][s].stage
            /\ call'[o][s].outcome = call[o][s].outcome]_vars

(* "An operation whose executor died does not stay stuck forever": once its *)
(* lease has lapsed it is settled or open to another executor in the end    *)
(* (recovery.py, module docstring).                                         *)
DeadExecutorSettles ==
    \A o \in Operations:
        (lease[o].holder # Nobody /\ ~ lease[o].live) ~>
            (Concluded(o) \/ Acquirable(o))

=============================================================================
