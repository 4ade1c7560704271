------------------------------- MODULE Outbox -------------------------------
(***************************************************************************)
(* The dispatch queue of the harness, modules/harness/jobs/harness_jobs:   *)
(* DispatchOutbox (outbox.py), the version-checked transition of store.py, *)
(* cancellation before dispatch (admission.py, recovery.py), the one       *)
(* reauthorization of an undispatched operation (dispatch_recovery.py) and *)
(* the gateway's dispatch() that the outbox delivers to.                   *)
(*                                                                         *)
(* Every operation has one outbox row.  Workers run drain_once and         *)
(* recover_abandoned against the same table; a statement or a transaction  *)
(* is one step, and between two of them another worker may run, a claim    *)
(* may lapse or the worker may die.  A claim's lease is "held" until the   *)
(* clock passes claimed_until, at any moment, then "lapsed".               *)
(*                                                                         *)
(* claim_generation is only ever compared with the current one, and a      *)
(* worker holds at most one envelope of a row, so the row's field speaker  *)
(* - whom its current generation was issued to - stands for the number.    *)
(***************************************************************************)
EXTENDS Naturals, FiniteSets

CONSTANTS
    Operations,      \* admitted operations, each with one outbox row
    Workers,         \* processes that drain the queue
    Sweepers,        \* the workers that also run recover_abandoned
    MAX_ATTEMPTS,    \* DispatchOutbox(max_attempts=...)
    Nobody,          \* no claim of the row is current
    Legacy,          \* rows an earlier build may have left abandoned, not concluded
    Unpaid,          \* rows that may lack an approval consumption
    MAX_CRASHES      \* bound on the crashes of workers and cancellers

ASSUME OutboxAssumption ==
    /\ MAX_ATTEMPTS \in Nat \ {0}
    /\ Sweepers \subseteq Workers
    /\ Nobody \notin Workers
    /\ Legacy \subseteq Operations
    /\ Unpaid \subseteq Operations
    /\ MAX_CRASHES \in Nat

VARIABLES
    row,       \* harness_dispatch_outbox
    op,        \* harness_operations: state, version, cancel_requested_at
    paid,      \* harness_approval_consumption.reservation_state
    ledger,    \* the reservation as the domain's ledger holds it
    handed,    \* the durable mapping that dispatch() allocates
    lease,     \* the execution lease: none, held, free (released) or closed
    effects,   \* a provider call intent exists
    worker,    \* what each worker holds in memory
    canceller, \* where settle_unheld_cancellation stands, by operation
    receipt,   \* harness_dispatch_reauthorizations has a row
    crashes

vars == <<row, op, paid, ledger, handed, lease, effects, worker, canceller,
          receipt, crashes>>

(* Operators named Mutant... are deliberate faults, one per property; they  *)
(* are used by nothing and show that the property can fail.                 *)
TERMINAL_STATES == {"succeeded", "failed", "cancelled", "unknown"}
OperationStates == {"pending", "running"} \cup TERMINAL_STATES
(* DELIVERABLE_RESERVATION_STATES *)
Deliverable(o) == paid[o] = "confirmed"
Concluded(o) == op[o].state \in TERMINAL_STATES

(* A DispatchEnvelope. *)
Envelope(o, r) == [o |-> o, attempts |-> r.attempts]

Idle == [pc |-> "idle", batch |-> {}, seen |-> 0]
(* The worker turns to the rest of its batch. *)
NextEnvelope(wk, pc) ==
    IF wk.batch = {} THEN Idle
    ELSE [pc |-> pc, batch |-> wk.batch, seen |-> 0]
Drained(wk) == NextEnvelope(wk, "draining")
Swept(wk) == NextEnvelope(wk, "sweeping")

(* A worker in _mark_undeliverable's transaction holds the row lock. *)
RowLocked(o) ==
    \E w \in Workers: worker[w].pc \in {"concluding", "concluding sweep"}
                      /\ worker[w].cur.o = o

MutantOwnsById(w, e) ==
    /\ row[e.o].queued
    /\ ~ row[e.o].delivered

(* _owned_update: WHERE claim_generation = $2 AND delivered_at IS NULL *)
Owns(w, e) ==
    /\ row[e.o].queued
    /\ row[e.o].speaker = w
    /\ ~ row[e.o].delivered

Envelopes == [o: Operations, attempts: 0 .. MAX_ATTEMPTS]

WorkerStates ==
    [pc: {"idle", "draining", "sweeping"}, batch: SUBSET Envelopes, seen: Nat]
    \cup
    [pc: {"ok", "failed", "delivered", "marking", "concluding",
          "concluding sweep"},
     batch: SUBSET Envelopes, seen: Nat, cur: Envelopes]

TypeOK ==
    /\ row \in [Operations ->
                  [queued: BOOLEAN, delivered: BOOLEAN, abandoned: BOOLEAN,
                   claim: {"none", "held", "lapsed"},
                   attempts: 0 .. MAX_ATTEMPTS,
                   speaker: Workers \cup {Nobody}]]
    /\ op \in [Operations ->
                 [state: OperationStates, version: Nat, cancel: BOOLEAN]]
    /\ paid \in [Operations -> {"none", "confirmed", "retained", "released"}]
    /\ ledger \in [Operations -> {"confirmed", "retained", "released"}]
    /\ handed \in [Operations -> BOOLEAN]
    /\ lease \in [Operations -> {"none", "held", "free", "closed"}]
    /\ effects \in [Operations -> BOOLEAN]
    /\ worker \in [Workers -> WorkerStates]
    /\ canceller \in [Operations -> {"idle", "release", "retain",
                                     "released", "retained"}]
    /\ receipt \in [Operations -> BOOLEAN]
    /\ crashes \in 0 .. MAX_CRASHES

Init ==
    /\ \E left \in SUBSET Legacy:
         row = [o \in Operations |->
                  [queued |-> TRUE, delivered |-> FALSE,
                   abandoned |-> o \in left, claim |-> "none",
                   attempts |-> IF o \in left THEN MAX_ATTEMPTS ELSE 0,
                   speaker |-> Nobody]]
    /\ op = [o \in Operations |->
               [state |-> "pending", version |-> 0, cancel |-> FALSE]]
    /\ \E bare \in SUBSET Unpaid:
         paid = [o \in Operations |->
                   IF o \in bare THEN "none" ELSE "confirmed"]
    /\ ledger = [o \in Operations |-> "confirmed"]
    /\ handed = [o \in Operations |-> FALSE]
    /\ lease = [o \in Operations |-> "none"]
    /\ effects = [o \in Operations |-> FALSE]
    /\ worker = [w \in Workers |-> Idle]
    /\ canceller = [o \in Operations |-> "idle"]
    /\ receipt = [o \in Operations |-> FALSE]
    /\ crashes = 0

-----------------------------------------------------------------------------
(* Claiming and delivering: drain_once. *)

MutantClaimForever(o) ==
    /\ row[o].queued
    /\ ~ row[o].delivered
    /\ ~ row[o].abandoned
    /\ row[o].claim # "held"
    /\ Deliverable(o)

Claimable(o) ==
    /\ row[o].queued
    /\ ~ row[o].delivered
    /\ ~ row[o].abandoned
    /\ row[o].claim # "held"
    /\ row[o].attempts < MAX_ATTEMPTS
    /\ Deliverable(o)

(* claim(): one statement over the unlocked rows, up to limit of them. *)
Claim(w) ==
    /\ worker[w].pc = "idle"
    /\ \E batch \in SUBSET {o \in Operations: Claimable(o) /\ ~ RowLocked(o)}:
        /\ batch # {}
        /\ row' = [o \in Operations |->
                     IF o \in batch
                     THEN [row[o] EXCEPT !.claim = "held",
                                         !.attempts = @ + 1,
                                         !.speaker = w]
                     ELSE row[o]]
        /\ worker' = [worker EXCEPT ![w] =
                        [pc |-> "draining", seen |-> 0,
                         batch |-> {Envelope(o, row'[o]): o \in batch}]]
    /\ UNCHANGED <<op, paid, ledger, handed, lease, effects, canceller,
                   receipt, crashes>>

(* The clock passes claimed_until. *)
Lapse(o) ==
    /\ row[o].claim = "held"
    /\ row' = [row EXCEPT ![o].claim = "lapsed"]
    /\ UNCHANGED <<op, paid, ledger, handed, lease, effects, worker, canceller,
                   receipt, crashes>>

(* What dispatch() requires under the operation lock before it allocates    *)
(* the durable mapping of an execution.                                     *)
Dispatchable(o) ==
    /\ op[o].state \in {"pending", "running"}
    /\ ~ op[o].cancel
    /\ Deliverable(o)
    /\ ledger[o] = "confirmed"

(* executor.deliver(envelope): refused, durable, or durable with the        *)
(* publication or its answer lost, which the loop reads as a failure.       *)
DeliverTo(w, e, landed, answer) ==
    /\ worker[w].pc = "draining"
    /\ e \in worker[w].batch
    /\ landed => Dispatchable(e.o)
    /\ answer = "ok" => landed
    /\ handed' = [handed EXCEPT ![e.o] = @ \/ landed]
    /\ worker' = [worker EXCEPT ![w] =
                    [pc |-> answer, cur |-> e, seen |-> 0,
                     batch |-> @.batch \ {e}]]
    /\ UNCHANGED <<row, op, paid, ledger, lease, effects, canceller, receipt,
                   crashes>>

(* _mark_delivered: the delete-last point. *)
MarkDelivered(w) ==
    /\ worker[w].pc = "ok"
    /\ LET e == worker[w].cur
       IN  /\ ~ RowLocked(e.o)
           /\ IF Owns(w, e)
              THEN /\ row' = [row EXCEPT ![e.o].delivered = TRUE,
                                         ![e.o].claim = "none"]
                   /\ worker' = [worker EXCEPT ![w].pc = "delivered"]
              ELSE /\ worker' = [worker EXCEPT ![w] = Drained(@)]
                   /\ UNCHANGED row
    /\ UNCHANGED <<op, paid, ledger, handed, lease, effects, canceller,
                   receipt, crashes>>

(* _mark_running reads the operation ... *)
ReadForRunning(w) ==
    /\ worker[w].pc = "delivered"
    /\ LET o == worker[w].cur.o
       IN  worker' = [worker EXCEPT ![w] =
                        IF op[o].state = "pending"
                        THEN [@ EXCEPT !.pc = "marking",
                                       !.seen = op[o].version]
                        ELSE Drained(@)]
    /\ UNCHANGED <<row, op, paid, ledger, handed, lease, effects, canceller,
                   receipt, crashes>>

MutantLastWriteWins(o, seen, state) ==
    [op EXCEPT ![o].state = state, ![o].version = @ + 1]

(* store.transition: nothing is written when the version moved. *)
Transition(o, seen, state) ==
    IF op[o].version = seen
    THEN [op EXCEPT ![o].state = state, ![o].version = @ + 1]
    ELSE op

(* ... and moves it to running if its version did not move. *)
MarkRunning(w) ==
    /\ worker[w].pc = "marking"
    /\ op' = Transition(worker[w].cur.o, worker[w].seen, "running")
    /\ worker' = [worker EXCEPT ![w] = Drained(@)]
    /\ UNCHANGED <<row, paid, ledger, handed, lease, effects, canceller,
                   receipt, crashes>>

(* _record_failure: attempts remain, the row goes back to the queue. *)
RecordFailure(w) ==
    /\ worker[w].pc = "failed"
    /\ LET e == worker[w].cur
       IN  /\ e.attempts < MAX_ATTEMPTS
           /\ ~ RowLocked(e.o)
           /\ row' = IF Owns(w, e) THEN [row EXCEPT ![e.o].claim = "none"]
                     ELSE row
    /\ worker' = [worker EXCEPT ![w] = Drained(@)]
    /\ UNCHANGED <<op, paid, ledger, handed, lease, effects, canceller,
                   receipt, crashes>>

MutantAbandonFirst(e, again, w, next) ==
    /\ ~ RowLocked(e.o)
    /\ IF Owns(w, e)
       THEN /\ row' = [row EXCEPT ![e.o].abandoned = TRUE,
                                  ![e.o].claim = "none"]
            /\ worker' = [worker EXCEPT ![w] =
                            [pc |-> again, cur |-> e, batch |-> @.batch \ {e},
                             seen |-> op[e.o].version]]
       ELSE /\ worker' = [worker EXCEPT ![w] = next]
            /\ UNCHANGED row
    /\ UNCHANGED <<op, paid, ledger, handed, lease, effects, canceller,
                   receipt, crashes>>

(* _mark_undeliverable up to its read of the operation: a superseded claim  *)
(* stops here, a concluded operation keeps its conclusion.  The abandonment *)
(* is not visible before the commit; until then the row is locked.          *)
BeginUndeliverable(e, again, w, next) ==
    /\ ~ RowLocked(e.o)
    /\ IF Owns(w, e) /\ ~ Concluded(e.o)
       THEN /\ worker' = [worker EXCEPT ![w] =
                            [pc |-> again, cur |-> e, batch |-> @.batch \ {e},
                             seen |-> op[e.o].version]]
            /\ UNCHANGED row
       ELSE /\ row' = IF Owns(w, e)
                      THEN [row EXCEPT ![e.o].abandoned = TRUE,
                                       ![e.o].claim = "none"]
                      ELSE row
            /\ worker' = [worker EXCEPT ![w] = next]
    /\ UNCHANGED <<op, paid, ledger, handed, lease, effects, canceller,
                   receipt, crashes>>

(* The last attempt failed: the outcome becomes unknown. *)
Exhaust(w) ==
    /\ worker[w].pc = "failed"
    /\ worker[w].cur.attempts >= MAX_ATTEMPTS
    /\ BeginUndeliverable(worker[w].cur, "concluding", w, Drained(worker[w]))

(* The rest of _mark_undeliverable and its commit: both writes or neither;  *)
(* a ConcurrentUpdate leaves the operation to whoever moved it.             *)
CommitUndeliverable(w) ==
    /\ worker[w].pc \in {"concluding", "concluding sweep"}
    /\ LET e == worker[w].cur
       IN  /\ row' = [row EXCEPT ![e.o].abandoned = TRUE, ![e.o].claim = "none"]
           /\ op' = Transition(e.o, worker[w].seen, "unknown")
    /\ worker' = [worker EXCEPT ![w] =
                    IF @.pc = "concluding" THEN Drained(@) ELSE Swept(@)]
    /\ UNCHANGED <<paid, ledger, handed, lease, effects, canceller, receipt,
                   crashes>>

(* A worker is cancelled or dies: a claim is left to lapse, a transaction   *)
(* rolls back.                                                              *)
Crash(w) ==
    /\ worker[w].pc # "idle"
    /\ crashes < MAX_CRASHES
    /\ crashes' = crashes + 1
    /\ worker' = [worker EXCEPT ![w] = Idle]
    /\ UNCHANGED <<row, op, paid, ledger, handed, lease, effects, canceller,
                   receipt>>

-----------------------------------------------------------------------------
(* Crash recovery: recover_abandoned. *)

MutantStrandedFinalClaimOnly(o) ==
    /\ row[o].queued
    /\ ~ row[o].delivered
    /\ ~ row[o].abandoned
    /\ row[o].attempts >= MAX_ATTEMPTS
    /\ row[o].claim = "lapsed"

(* (a) an expired final claim, (b) an abandoned row never concluded. *)
Stranded(o) ==
    /\ row[o].queued
    /\ ~ row[o].delivered
    /\ \/ /\ ~ row[o].abandoned
          /\ row[o].attempts >= MAX_ATTEMPTS
          /\ row[o].claim = "lapsed"
       \/ row[o].abandoned /\ ~ Concluded(o)

(* The sweep takes the next generation of the rows it finds ... *)
RecoverAbandoned(w) ==
    /\ w \in Sweepers
    /\ worker[w].pc = "idle"
    /\ \E batch \in SUBSET {o \in Operations: Stranded(o) /\ ~ RowLocked(o)}:
        /\ batch # {}
        /\ row' = [o \in Operations |->
                     IF o \in batch THEN [row[o] EXCEPT !.speaker = w]
                     ELSE row[o]]
        /\ worker' = [worker EXCEPT ![w] =
                        [pc |-> "sweeping", seen |-> 0,
                         batch |-> {Envelope(o, row'[o]): o \in batch}]]
    /\ UNCHANGED <<op, paid, ledger, handed, lease, effects, canceller,
                   receipt, crashes>>

(* ... and settles each of them. *)
SettleStranded(w, e) ==
    /\ worker[w].pc = "sweeping"
    /\ e \in worker[w].batch
    /\ BeginUndeliverable(e, "concluding sweep", w,
                          Swept([worker[w] EXCEPT !.batch = @ \ {e}]))

-----------------------------------------------------------------------------
(* The executor, as far as the queue is concerned (module Execution has the *)
(* leases and the provider calls).                                          *)

Acquire(o) ==
    /\ handed[o]
    /\ lease[o] \in {"none", "free"}
    /\ ~ Concluded(o)
    /\ ~ op[o].cancel
    /\ ~ effects[o]
    /\ Deliverable(o)
    /\ lease' = [lease EXCEPT ![o] = "held"]
    /\ UNCHANGED <<row, op, paid, ledger, handed, effects, worker, canceller,
                   receipt, crashes>>

CreateResource(o) ==
    /\ lease[o] = "held"
    /\ ~ Concluded(o)
    /\ ~ op[o].cancel
    /\ effects' = [effects EXCEPT ![o] = TRUE]
    /\ UNCHANGED <<row, op, paid, ledger, handed, lease, worker, canceller,
                   receipt, crashes>>

ReleaseLease(o) ==
    /\ lease[o] = "held"
    /\ ~ effects[o]
    /\ ~ op[o].cancel
    /\ lease' = [lease EXCEPT ![o] = "free"]
    /\ UNCHANGED <<row, op, paid, ledger, handed, effects, worker, canceller,
                   receipt, crashes>>

(* The executor or its recovery settles: a conclusion already there stands. *)
Settle(o) ==
    /\ lease[o] = "held"
    /\ \E v \in TERMINAL_STATES:
        op' = IF Concluded(o) THEN op
              ELSE [op EXCEPT ![o].state = v, ![o].version = @ + 1]
    /\ lease' = [lease EXCEPT ![o] = "closed"]
    /\ UNCHANGED <<row, paid, ledger, handed, effects, worker, canceller,
                   receipt, crashes>>

-----------------------------------------------------------------------------
(* Cancellation of an operation nobody executes. *)

RequestCancellation(o) ==
    /\ ~ Concluded(o)
    /\ ~ op[o].cancel
    /\ op' = [op EXCEPT ![o].cancel = TRUE]
    /\ UNCHANGED <<row, paid, ledger, handed, lease, effects, worker,
                   canceller, receipt, crashes>>

(* DispatchEvidence.DEFINITELY_PENDING: no claim ever took this row. *)
DefinitelyPending(o) ==
    /\ row[o].attempts = 0
    /\ row[o].claim = "none"
    /\ ~ row[o].delivered
    /\ ~ row[o].abandoned

(* The guard of settle_unheld_cancellation and of its fence. *)
Unheld(o) ==
    /\ op[o].cancel
    /\ paid[o] # "none"
    /\ lease[o] # "held"

MutantUndelivered(o) == ~ row[o].delivered

(* The reservation is released, and not retained: nothing was ever asked of *)
(* a provider and no worker ever held the row.                              *)
Releasable(o) ==
    /\ ~ effects[o]
    /\ ~ row[o].queued \/ DefinitelyPending(o)

(* The transaction of cancel_before_dispatch: classify the row under its    *)
(* lock, fence (close the lease, conclude the operation), withdraw a row    *)
(* no worker ever took.  The ledger is told after the commit.               *)
CancelBeforeDispatch(o) ==
    /\ Unheld(o)
    /\ canceller[o] = "idle"
    /\ paid[o] = "confirmed"
    /\ ~ RowLocked(o)
    /\ LET fenced == ~ effects[o]
       IN  /\ op' = IF Concluded(o) THEN op
                    ELSE [op EXCEPT ![o].version = @ + 1, ![o].state =
                            IF fenced THEN "cancelled" ELSE "unknown"]
           /\ row' = IF fenced /\ DefinitelyPending(o)
                     THEN [row EXCEPT ![o].queued = FALSE] ELSE row
           /\ canceller' = [canceller EXCEPT ![o] =
                              IF Releasable(o) THEN "release" ELSE "retain"]
    /\ lease' = [lease EXCEPT ![o] = "closed"]
    /\ UNCHANGED <<paid, ledger, handed, effects, worker, receipt, crashes>>

(* ledger.release or ledger.retain, both idempotent. *)
TellLedger(o) ==
    /\ canceller[o] \in {"release", "retain"}
    /\ LET state == IF canceller[o] = "release" THEN "released" ELSE "retained"
       IN  /\ ledger' = [ledger EXCEPT ![o] = state]
           /\ canceller' = [canceller EXCEPT ![o] = state]
    /\ UNCHANGED <<row, op, paid, handed, lease, effects, worker, receipt,
                   crashes>>

(* _record_reservation_state, after the ledger answered. *)
RecordReservation(o) ==
    /\ canceller[o] \in {"released", "retained"}
    /\ paid' = [paid EXCEPT ![o] = canceller[o]]
    /\ canceller' = [canceller EXCEPT ![o] = "idle"]
    /\ UNCHANGED <<row, op, ledger, handed, lease, effects, worker, receipt,
                   crashes>>

CancellerCrash(o) ==
    /\ canceller[o] # "idle"
    /\ crashes < MAX_CRASHES
    /\ crashes' = crashes + 1
    /\ canceller' = [canceller EXCEPT ![o] = "idle"]
    /\ UNCHANGED <<row, op, paid, ledger, handed, lease, effects, worker,
                   receipt>>

-----------------------------------------------------------------------------
(* recover_undispatched: one fresh cycle for an operation that provably     *)
(* never reached an executor; the receipt makes a second one impossible.    *)

UndispatchedEligible(o) ==
    /\ ~ receipt[o]
    /\ op[o].state = "unknown"
    /\ ~ op[o].cancel
    /\ row[o].queued /\ ~ row[o].delivered /\ row[o].abandoned
    /\ row[o].claim = "none"
    /\ Deliverable(o)
    /\ lease[o] = "none" /\ ~ effects[o]    \* EFFECT_TABLES are empty
    /\ ~ handed[o]                          \* prove_absence

RecoverUndispatched(o) ==
    /\ UndispatchedEligible(o)
    /\ ~ RowLocked(o)
    /\ receipt' = [receipt EXCEPT ![o] = TRUE]
    /\ op' = [op EXCEPT ![o].state = "pending", ![o].version = @ + 1]
    /\ row' = [row EXCEPT ![o] =
                 [@ EXCEPT !.attempts = 0, !.speaker = Nobody,
                           !.abandoned = FALSE]]
    /\ UNCHANGED <<paid, ledger, handed, lease, effects, worker, canceller,
                   crashes>>

-----------------------------------------------------------------------------
WorkerStep(w) ==
    \/ \E e \in worker[w].batch:
         \/ \E landed \in BOOLEAN, answer \in {"ok", "failed"}:
              DeliverTo(w, e, landed, answer)
         \/ SettleStranded(w, e)
    \/ MarkDelivered(w) \/ ReadForRunning(w) \/ MarkRunning(w)
    \/ RecordFailure(w) \/ Exhaust(w) \/ CommitUndeliverable(w)

CancellerStep(o) ==
    CancelBeforeDispatch(o) \/ TellLedger(o) \/ RecordReservation(o)

Next ==
    \/ \E w \in Workers: Claim(w) \/ WorkerStep(w) \/ RecoverAbandoned(w)
                         \/ Crash(w)
    \/ \E o \in Operations:
         \/ Lapse(o)
         \/ Acquire(o) \/ CreateResource(o) \/ ReleaseLease(o) \/ Settle(o)
         \/ RequestCancellation(o) \/ CancellerStep(o) \/ CancellerCrash(o)
         \/ RecoverUndispatched(o)

Spec == Init /\ [][Next]_vars

(* A live worker finishes the pass it is in, the scheduler keeps calling    *)
(* drain and recover_abandoned, and time passes.  Nothing is assumed of the *)
(* executor, of deliver()'s answer or of the cancelling caller.             *)
Fairness ==
    /\ \A w \in Workers: WF_vars(WorkerStep(w))
    /\ WF_vars(\E w \in Workers: Claim(w))
    /\ WF_vars(\E w \in Workers: RecoverAbandoned(w))
    /\ \A o \in Operations: WF_vars(Lapse(o))

LiveSpec == Spec /\ Fairness

-----------------------------------------------------------------------------
(* The abstract view: a split commit of the earlier build still counts as   *)
(* pending until the sweep has concluded it.                                *)
Status(o) ==
    CASE ~ row[o].queued -> "withdrawn"
      [] row[o].queued /\ row[o].delivered -> "delivered"
      [] row[o].queued /\ ~ row[o].delivered ->
           IF row[o].abandoned /\ Concluded(o) THEN "givenup" ELSE "pending"

D == INSTANCE Delivery WITH
    status <- [o \in Operations |-> Status(o)],
    verdict <- [o \in Operations |->
                  IF Concluded(o) THEN op[o].state ELSE "open"],
    handed <- handed,
    budget <- ledger,
    effects <- effects,
    reopened <- receipt

(* The queue with its claims, crashes and races implements Delivery: what   *)
(* outbox.py and cancel_before_dispatch promise as single facts happens in  *)
(* single steps, whatever workers and cancellers interleave.                *)
ImplementsDelivery == D!Spec

(* A claim that has not lapsed is only ended by the worker that holds it: a *)
(* late report of a predecessor, a sweep or a reauthorization does not free *)
(* a row that another worker is delivering (_owned_update).                 *)
ClaimUndisturbed ==
    [][\A o \in Operations:
         (row[o].claim = "held" /\ row'[o].claim = "none") =>
            \E w \in Workers: /\ worker'[w] # worker[w]
                              /\ worker[w].pc \notin {"idle", "draining", "sweeping"}
                              /\ worker[w].cur.o = o
                              /\ row[o].speaker = w]_vars

(* What an operation concluded stands: no late running mark, exhaustion,    *)
(* sweep or cancellation rewrites it; only the one reauthorization of an    *)
(* operation no executor received reopens it.                               *)
ConclusionStands ==
    [][\A o \in Operations:
         (Concluded(o) /\ op'[o].state # op[o].state) =>
            /\ op[o].state = "unknown" /\ op'[o].state = "pending"
            /\ ~ handed[o] /\ ~ receipt[o] /\ receipt'[o]]_vars

(* Budget is given back only while nothing was created, and nothing is      *)
(* created afterwards, although claims, hand-offs and leases race with the  *)
(* cancellation (cancel_before_dispatch: fence, then release).              *)
ReleasedMeansNothingCreated ==
    \A o \in Operations: ledger[o] = "released" => ~ effects[o]

(* A paid operation never stays queued with nobody looking for it: whatever *)
(* workers die where, it is in the end delivered, withdrawn or concluded,   *)
(* the split commits of an earlier build included (recover_abandoned).      *)
NothingStranded ==
    \A o \in Operations:
        paid[o] # "none" ~>
            (~ row[o].queued \/ row[o].delivered \/ Concluded(o))

=============================================================================
