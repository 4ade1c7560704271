---------------------------- MODULE OutboxProofs ----------------------------
(***************************************************************************)
(* Theorems about Outbox, for any operations, workers, sweepers and limits: *)
(* types, who may end a claim, what a conclusion and a released budget      *)
(* mean, and that the queue implements Delivery.                            *)
(*                                                                          *)
(* The inductive invariant says what a worker's memory is worth: what it    *)
(* may conclude from the envelope it holds when the row still names it as   *)
(* speaker, from the version it read, from the answer it got.               *)
(***************************************************************************)
EXTENDS Outbox, TLAPS

(* What a worker has in hand: envelopes of a claim it may still deliver or  *)
(* report on, envelopes of a sweep it may still settle, the row it locks.   *)
DrainPass == {"draining", "ok", "failed", "delivered", "marking", "concluding"}
SweepPass == {"sweeping", "concluding sweep"}
AtEnvelope == {"ok", "failed", "delivered", "marking", "concluding",
               "concluding sweep"}
Drains(w, o) ==
    \/ worker[w].pc \in DrainPass /\ \E e \in worker[w].batch: e.o = o
    \/ worker[w].pc \in {"ok", "failed"} /\ worker[w].cur.o = o
Sweeps(w, o) ==
    worker[w].pc \in SweepPass /\ \E e \in worker[w].batch: e.o = o
Locks(w, o) ==
    worker[w].pc \in {"concluding", "concluding sweep"} /\ worker[w].cur.o = o

(* A worker holds at most one envelope of a row: the row's speaker stands   *)
(* for the number of the claim.                                             *)
OneEnvelope ==
    \A w \in Workers:
        /\ worker[w].pc = "idle" => worker[w].batch = {}
        /\ \A e, f \in worker[w].batch: e.o = f.o => e = f
        /\ worker[w].pc \in AtEnvelope =>
              \A e \in worker[w].batch: e.o # worker[w].cur.o

(* A current claim is of a row that nobody gave up; a current sweep is of a *)
(* row that nobody claims.                                                  *)
ClaimFresh ==
    \A w \in Workers, o \in Operations:
        Drains(w, o) /\ row[o].speaker = w => ~ row[o].abandoned
SweepFresh ==
    \A w \in Workers, o \in Operations:
        Sweeps(w, o) /\ row[o].speaker = w => row[o].claim # "held"
AbandonedUnclaimed ==
    \A o \in Operations: row[o].abandoned => row[o].claim = "none"

(* The row lock: its holder is the row's speaker, and the version it read   *)
(* is current exactly while the operation has no conclusion.                *)
LockOwned ==
    \A w \in Workers, o \in Operations: Locks(w, o) =>
        /\ row[o].queued /\ ~ row[o].delivered /\ row[o].speaker = w
        /\ worker[w].seen <= op[o].version
        /\ Concluded(o) <=> op[o].version # worker[w].seen

(* What an answer, a removal and a version read have established.           *)
AnswerDurable ==
    \A w \in Workers: worker[w].pc = "ok" => handed[worker[w].cur.o]
RemovedBeforeRunning ==
    \A w \in Workers: worker[w].pc \in {"delivered", "marking"} =>
        row[worker[w].cur.o].delivered
PendingWhenSeen ==
    \A w \in Workers: worker[w].pc = "marking" =>
        /\ worker[w].seen <= op[worker[w].cur.o].version
        /\ worker[w].seen = op[worker[w].cur.o].version =>
              op[worker[w].cur.o].state = "pending"

(* An abandoned row without a conclusion is an earlier build's: no worker   *)
(* of this one ever had it.                                                 *)
SplitCommitUntouched ==
    \A o \in Operations: row[o].abandoned /\ ~ Concluded(o) =>
        ~ handed[o] /\ \A w \in Workers: ~ Drains(w, o)

(* Who executes was handed the operation; a cancellation fences before the  *)
(* ledger is told; released means nothing was created.                      *)
ExecutedIsHanded ==
    \A o \in Operations: lease[o] \in {"held", "free"} => handed[o]
FencedFirst ==
    \A o \in Operations: canceller[o] # "idle" \/ ledger[o] # "confirmed" =>
        lease[o] = "closed" /\ op[o].cancel /\ Concluded(o)
ReleaseClean ==
    \A o \in Operations:
        canceller[o] \in {"release", "released"} \/ ledger[o] = "released" =>
            ~ effects[o]

QueueInv ==
    /\ OneEnvelope /\ ClaimFresh /\ SweepFresh /\ AbandonedUnclaimed
    /\ LockOwned
    /\ AnswerDurable /\ RemovedBeforeRunning /\ PendingWhenSeen
    /\ SplitCommitUntouched
BudgetInv == ExecutedIsHanded /\ FencedFirst /\ ReleaseClean
IInv == TypeOK /\ QueueInv /\ BudgetInv

(* A step that only takes work away from the workers: what may become of a  *)
(* worker's memory, of a row and of an operation.                           *)
MemoryRests(w) ==
    /\ worker'[w] \in WorkerStates
    /\ worker'[w].batch \subseteq worker[w].batch
    /\ \/ worker'[w].pc = "idle" /\ worker'[w].batch = {}
       \/ worker'[w].pc = "draining" /\ worker[w].pc \in DrainPass
       \/ worker'[w].pc = "sweeping" /\ worker[w].pc \in SweepPass
RowRests(o) ==
    /\ row'[o].speaker = row[o].speaker
    /\ row'[o].delivered = row[o].delivered
    /\ \/ row'[o].claim = row[o].claim
       \/ row'[o].claim = "none"
       \/ row[o].claim = "held" /\ row'[o].claim = "lapsed"
    /\ row'[o].queued = row[o].queued \/ ~ RowLocked(o)
    /\ \/ row'[o].abandoned = row[o].abandoned
       \/ /\ row'[o].abandoned /\ row'[o].claim = "none" /\ Concluded(o)'
          /\ \A w \in Workers: row[o].speaker = w => ~ Drains(w, o)'
OperationRests(o) ==
    \/ op'[o].state = op[o].state /\ op'[o].version = op[o].version
    \/ /\ op'[o].version = op[o].version + 1
       /\ Concluded(o)' \/ (~ Concluded(o) /\ row[o].delivered)

-----------------------------------------------------------------------------
(* The memory of a worker.                                                  *)

(* What the type of a worker's memory says, field by field.                 *)
LEMMA MemoryFields ==
  ASSUME NEW wk \in WorkerStates
  PROVE  /\ wk.pc \in DrainPass \cup SweepPass \cup {"idle"}
         /\ wk.batch \in SUBSET Envelopes /\ wk.seen \in Nat
         /\ wk.pc \in AtEnvelope =>
               /\ wk.cur \in Envelopes
               /\ wk \in [pc: AtEnvelope, batch: SUBSET Envelopes, seen: Nat,
                          cur: Envelopes]
BY DEF WorkerStates, DrainPass, SweepPass, AtEnvelope

LEMMA EnvelopeFields ==
  ASSUME NEW e \in Envelopes
  PROVE  e.o \in Operations /\ e.attempts \in 0 .. MAX_ATTEMPTS
BY DEF Envelopes

(* Whoever turns to the rest of its batch keeps it, and is idle if it is    *)
(* empty.                                                                   *)
LEMMA TurnsToBatch ==
  ASSUME NEW wk, wk.batch \in SUBSET Envelopes
  PROVE  /\ Drained(wk) \in WorkerStates /\ Swept(wk) \in WorkerStates
         /\ Drained(wk).batch = wk.batch /\ Swept(wk).batch = wk.batch
         /\ Drained(wk).pc \in {"idle", "draining"}
         /\ Swept(wk).pc \in {"idle", "sweeping"}
         /\ Drained(wk).pc = "idle" => wk.batch = {}
         /\ Swept(wk).pc = "idle" => wk.batch = {}
<1>1. CASE wk.batch = {}
  BY <1>1 DEF Drained, Swept, NextEnvelope, Idle, WorkerStates
<1>2. CASE wk.batch # {}
  <2>1. /\ Drained(wk) = [pc |-> "draining", batch |-> wk.batch, seen |-> 0]
        /\ Swept(wk) = [pc |-> "sweeping", batch |-> wk.batch, seen |-> 0]
    BY <1>2 DEF Drained, Swept, NextEnvelope
  <2> HIDE DEF Drained, Swept
  <2>2. /\ Drained(wk) \in [pc: {"idle", "draining", "sweeping"},
                            batch: SUBSET Envelopes, seen: Nat]
        /\ Swept(wk) \in [pc: {"idle", "draining", "sweeping"},
                          batch: SUBSET Envelopes, seen: Nat]
    BY <2>1
  <2>3. /\ Drained(wk).batch = wk.batch /\ Swept(wk).batch = wk.batch
        /\ Drained(wk).pc = "draining" /\ Swept(wk).pc = "sweeping"
    BY <2>1
  <2> QED BY <2>2, <2>3 DEF WorkerStates
<1> QED BY <1>1, <1>2

LEMMA IdleMemory ==
  /\ Idle \in WorkerStates /\ Idle.pc = "idle" /\ Idle.batch = {}
BY DEF Idle, WorkerStates

-----------------------------------------------------------------------------
(* The rows of the queue and of the operations.                             *)
Rows == [queued: BOOLEAN, delivered: BOOLEAN, abandoned: BOOLEAN,
         claim: {"none", "held", "lapsed"}, attempts: 0 .. MAX_ATTEMPTS,
         speaker: Workers \cup {Nobody}]
OperationRows == [state: OperationStates, version: Nat, cancel: BOOLEAN]

LEMMA RowEdits ==
  ASSUME NEW r \in Rows
  PROVE  /\ [r EXCEPT !.claim = "lapsed"] \in Rows
         /\ [r EXCEPT !.claim = "none"] \in Rows
         /\ [r EXCEPT !.queued = FALSE] \in Rows
         /\ [r EXCEPT !.delivered = TRUE, !.claim = "none"] \in Rows
         /\ [r EXCEPT !.abandoned = TRUE, !.claim = "none"] \in Rows
         /\ \A w \in Workers: [r EXCEPT !.speaker = w] \in Rows
         /\ r.attempts < MAX_ATTEMPTS => \A w \in Workers:
               [r EXCEPT !.claim = "held", !.attempts = @ + 1, !.speaker = w]
               \in Rows
         /\ [r EXCEPT !.attempts = 0, !.speaker = Nobody, !.abandoned = FALSE]
               \in Rows
<1>1. /\ r.attempts \in Nat /\ r.attempts <= MAX_ATTEMPTS
      /\ MAX_ATTEMPTS \in Nat
  BY OutboxAssumption DEF Rows
<1>2. ASSUME r.attempts < MAX_ATTEMPTS, NEW w \in Workers
      PROVE  [r EXCEPT !.claim = "held", !.attempts = @ + 1, !.speaker = w]
               \in Rows
  <2>1. r.attempts + 1 \in 0 .. MAX_ATTEMPTS
    BY <1>1, <1>2
  <2> QED BY <2>1 DEF Rows
<1>3. [r EXCEPT !.attempts = 0, !.speaker = Nobody, !.abandoned = FALSE]
               \in Rows
  <2>1. 0 \in 0 .. MAX_ATTEMPTS
    BY <1>1
  <2> QED BY <2>1 DEF Rows
<1>4. /\ [r EXCEPT !.claim = "lapsed"] \in Rows
      /\ [r EXCEPT !.claim = "none"] \in Rows
      /\ [r EXCEPT !.queued = FALSE] \in Rows
      /\ \A w \in Workers: [r EXCEPT !.speaker = w] \in Rows
  BY DEF Rows
<1>5. /\ [r EXCEPT !.delivered = TRUE, !.claim = "none"] \in Rows
      /\ [r EXCEPT !.abandoned = TRUE, !.claim = "none"] \in Rows
  BY DEF Rows
<1> QED BY <1>2, <1>3, <1>4, <1>5

LEMMA OperationEdits ==
  ASSUME NEW r \in OperationRows, NEW state \in OperationStates
  PROVE  /\ [r EXCEPT !.state = state, !.version = @ + 1] \in OperationRows
         /\ [r EXCEPT !.version = @ + 1, !.state = state] \in OperationRows
         /\ [r EXCEPT !.cancel = TRUE] \in OperationRows
<1>1. /\ r.version \in Nat /\ r.version + 1 \in Nat
      /\ r.cancel \in BOOLEAN /\ r.state \in OperationStates
  BY DEF OperationRows
<1>2. [r EXCEPT !.state = state, !.version = @ + 1] \in OperationRows
  BY <1>1 DEF OperationRows
<1>3. [r EXCEPT !.version = @ + 1, !.state = state] \in OperationRows
  BY <1>1 DEF OperationRows
<1>4. [r EXCEPT !.cancel = TRUE] \in OperationRows
  BY <1>1 DEF OperationRows
<1> QED BY <1>2, <1>3, <1>4

LEMMA TypeFields ==
  ASSUME TypeOK
  PROVE  row \in [Operations -> Rows] /\ op \in [Operations -> OperationRows]
BY DEF TypeOK, Rows, OperationRows

-----------------------------------------------------------------------------
(* Steps that only take work away from the workers.                         *)

(* A worker at rest has nothing in hand that it did not have before.        *)
LEMMA RestTakesNothing ==
  ASSUME TypeOK, NEW w \in Workers,
         worker'[w] = worker[w] \/ MemoryRests(w), NEW o \in Operations
  PROVE  /\ Drains(w, o)' => Drains(w, o)
         /\ Sweeps(w, o)' => Sweeps(w, o)
         /\ Locks(w, o)' => Locks(w, o) /\ worker'[w] = worker[w]
         /\ worker'[w].pc \in AtEnvelope => worker'[w] = worker[w]
BY DEF MemoryRests, Drains, Sweeps, Locks, DrainPass, SweepPass, AtEnvelope

LEMMA QueueRests ==
  ASSUME TypeOK, TypeOK', QueueInv, UNCHANGED handed,
         \A w \in Workers: worker'[w] = worker[w] \/ MemoryRests(w),
         \A o \in Operations: RowRests(o) /\ OperationRests(o)
  PROVE  QueueInv'
<1> USE DEF QueueInv
<1>1. \A w \in Workers, o \in Operations:
         /\ Drains(w, o)' => Drains(w, o)
         /\ Sweeps(w, o)' => Sweeps(w, o)
         /\ Locks(w, o)' => Locks(w, o) /\ worker'[w] = worker[w]
  BY RestTakesNothing
<1>2. \A w \in Workers: worker'[w].pc \in AtEnvelope =>
         /\ worker'[w] = worker[w] /\ worker[w].pc \in AtEnvelope
         /\ worker[w].cur.o \in Operations
  <2> TAKE w \in Workers
  <2> HAVE worker'[w].pc \in AtEnvelope
  <2>1. worker'[w] = worker[w]
    BY DEF MemoryRests, AtEnvelope
  <2> QED BY <2>1, MemoryFields, EnvelopeFields DEF TypeOK
<1>3. \A o \in Operations: /\ op[o].version \in Nat /\ op'[o].version \in Nat
                           /\ op[o].state \in OperationStates
                           /\ row[o].claim \in {"none", "held", "lapsed"}
  BY DEF TypeOK
<1>4. OneEnvelope'
  BY <1>2 DEF OneEnvelope, MemoryRests, AtEnvelope
<1>5. ClaimFresh'
  BY <1>1 DEF ClaimFresh, RowRests
<1>6. SweepFresh'
  BY <1>1 DEF SweepFresh, RowRests
<1>7. AbandonedUnclaimed'
  BY DEF AbandonedUnclaimed, RowRests
<1>8. LockOwned'
  <2> SUFFICES ASSUME NEW w \in Workers, NEW o \in Operations, Locks(w, o)'
               PROVE  /\ row'[o].queued /\ ~ row'[o].delivered
                      /\ row'[o].speaker = w
                      /\ worker'[w].seen <= op'[o].version
                      /\ Concluded(o)' <=> op'[o].version # worker'[w].seen
    BY DEF LockOwned
  <2>1. /\ Locks(w, o) /\ worker'[w] = worker[w]
        /\ row[o].queued /\ ~ row[o].delivered /\ row[o].speaker = w
        /\ worker[w].seen <= op[o].version /\ worker[w].seen \in Nat
        /\ Concluded(o) <=> op[o].version # worker[w].seen
    BY <1>1, MemoryFields DEF LockOwned, TypeOK
  <2>2. RowLocked(o)
    BY <2>1 DEF Locks, RowLocked
  <2> QED BY <1>3, <2>1, <2>2 DEF RowRests, OperationRests, Concluded
<1>9. AnswerDurable'
  BY <1>2 DEF AnswerDurable, AtEnvelope
<1>10. RemovedBeforeRunning'
  BY <1>2 DEF RemovedBeforeRunning, AtEnvelope, RowRests
<1>11. PendingWhenSeen'
  <2> SUFFICES ASSUME NEW w \in Workers, worker'[w].pc = "marking"
               PROVE  /\ worker'[w].seen <= op'[worker'[w].cur.o].version
                      /\ worker'[w].seen = op'[worker'[w].cur.o].version =>
                            op'[worker'[w].cur.o].state = "pending"
    BY DEF PendingWhenSeen
  <2>1. worker'[w] = worker[w] /\ worker[w].cur.o \in Operations
            /\ worker[w].seen \in Nat
    BY <1>2, MemoryFields DEF AtEnvelope, TypeOK
  <2> QED BY <1>3, <2>1 DEF PendingWhenSeen, OperationRests
<1>12. SplitCommitUntouched'
  BY <1>1, <1>3 DEF SplitCommitUntouched, RowRests, OperationRests, Concluded
<1> QED BY <1>4, <1>5, <1>6, <1>7, <1>8, <1>9, <1>10, <1>11, <1>12

LEMMA BudgetRests ==
  ASSUME BudgetInv, UNCHANGED <<lease, ledger, effects, canceller>>,
         \A o \in Operations:
            /\ handed[o] => handed'[o]
            /\ op[o].cancel => op'[o].cancel
            /\ Concluded(o) /\ lease[o] = "closed" => Concluded(o)'
  PROVE  BudgetInv'
BY DEF BudgetInv, ExecutedIsHanded, FencedFirst, ReleaseClean

(* Nothing of the queue moves.                                              *)
LEMMA QueueStands ==
  ASSUME TypeOK, TypeOK', QueueInv, UNCHANGED <<row, op, handed, worker>>
  PROVE  QueueInv'
BY QueueRests DEF RowRests, OperationRests

-----------------------------------------------------------------------------
(* The executor and the cancelling caller.                                  *)

LEMMA LapseKeeps == ASSUME IInv, NEW o \in Operations, Lapse(o) PROVE IInv'
<1> USE DEF IInv
<1>1. TypeOK'
  <2>1. row' = [row EXCEPT ![o] = [@ EXCEPT !.claim = "lapsed"]]
    BY DEF Lapse
  <2>2. row' \in [Operations -> Rows]
    BY <2>1, TypeFields, RowEdits
  <2> QED BY <2>2 DEF TypeOK, Rows, Lapse
<1>2. \A p \in Operations: RowRests(p) /\ OperationRests(p)
  BY DEF TypeOK, Lapse, RowRests, OperationRests
<1>3. QueueInv'
  BY <1>1, <1>2, QueueRests DEF Lapse
<1>4. BudgetInv'
  BY BudgetRests DEF Lapse, Concluded
<1> QED BY <1>1, <1>3, <1>4

LEMMA AcquireKeeps == ASSUME IInv, NEW o \in Operations, Acquire(o) PROVE IInv'
<1> USE DEF IInv
<1>1. TypeOK'
  BY DEF TypeOK, Acquire
<1>2. QueueInv'
  BY <1>1, QueueStands DEF Acquire
<1>3. BudgetInv'
  BY DEF TypeOK, Acquire, BudgetInv, ExecutedIsHanded, FencedFirst,
     ReleaseClean, Concluded
<1> QED BY <1>1, <1>2, <1>3

LEMMA CreateResourceKeeps ==
  ASSUME IInv, NEW o \in Operations, CreateResource(o) PROVE IInv'
<1> USE DEF IInv
<1>1. TypeOK'
  BY DEF TypeOK, CreateResource
<1>2. QueueInv'
  BY <1>1, QueueStands DEF CreateResource
<1>3. BudgetInv'
  BY DEF TypeOK, CreateResource, BudgetInv, ExecutedIsHanded, FencedFirst,
     ReleaseClean, Concluded
<1> QED BY <1>1, <1>2, <1>3

LEMMA ReleaseLeaseKeeps ==
  ASSUME IInv, NEW o \in Operations, ReleaseLease(o) PROVE IInv'
<1> USE DEF IInv
<1>1. TypeOK'
  BY DEF TypeOK, ReleaseLease
<1>2. QueueInv'
  BY <1>1, QueueStands DEF ReleaseLease
<1>3. BudgetInv'
  BY DEF TypeOK, ReleaseLease, BudgetInv, ExecutedIsHanded, FencedFirst,
     ReleaseClean, Concluded
<1> QED BY <1>1, <1>2, <1>3

(* What Settle does to an operation.                                        *)
LEMMA SettleMoves ==
  ASSUME TypeOK, NEW o \in Operations, Settle(o)
  PROVE  /\ op' \in [Operations -> OperationRows]
         /\ \A p \in Operations:
              /\ op'[p].cancel = op[p].cancel
              /\ \/ op'[p] = op[p]
                 \/ /\ p = o /\ ~ Concluded(p) /\ Concluded(p)'
                    /\ op'[p].version = op[p].version + 1
         /\ Concluded(o)'
<1>1. PICK v \in TERMINAL_STATES:
         op' = IF Concluded(o) THEN op
               ELSE [op EXCEPT ![o].state = v, ![o].version = @ + 1]
  BY DEF Settle
<1>2. op' \in [Operations -> OperationRows]
  BY <1>1, TypeFields, OperationEdits DEF OperationStates
<1> QED BY <1>1, <1>2, TypeFields DEF OperationRows, Concluded

LEMMA SettleKeeps == ASSUME IInv, NEW o \in Operations, Settle(o) PROVE IInv'
<1> USE DEF IInv
<1>1. TypeOK'
  BY SettleMoves DEF TypeOK, OperationRows, Settle
<1>2. \A p \in Operations: RowRests(p) /\ OperationRests(p)
  BY SettleMoves DEF Settle, RowRests, OperationRests
<1>3. QueueInv'
  BY <1>1, <1>2, QueueRests DEF Settle
<1>4. BudgetInv'
  <2>1. \A p \in Operations: /\ Concluded(p) => Concluded(p)'
                             /\ op'[p].cancel = op[p].cancel
    BY SettleMoves DEF Concluded
  <2> QED BY <2>1 DEF TypeOK, Settle, BudgetInv,
          ExecutedIsHanded, FencedFirst, ReleaseClean
<1> QED BY <1>1, <1>3, <1>4

LEMMA RequestCancellationKeeps ==
  ASSUME IInv, NEW o \in Operations, RequestCancellation(o) PROVE IInv'
<1> USE DEF IInv
<1>1. TypeOK'
  BY DEF TypeOK, RequestCancellation
<1>2. \A p \in Operations: /\ op'[p].state = op[p].state
                          /\ op'[p].version = op[p].version
                          /\ op[p].cancel => op'[p].cancel
  BY DEF TypeOK, RequestCancellation
<1>3. QueueInv'
  BY <1>1, <1>2, QueueRests DEF RequestCancellation, RowRests, OperationRests
<1>4. BudgetInv'
  BY <1>2, BudgetRests DEF RequestCancellation, Concluded
<1> QED BY <1>1, <1>3, <1>4

LEMMA CancelMoves ==
  ASSUME TypeOK, NEW o \in Operations, CancelBeforeDispatch(o)
  PROVE  /\ op' \in [Operations -> OperationRows]
         /\ \A p \in Operations:
              /\ op'[p].cancel = op[p].cancel
              /\ \/ op'[p] = op[p]
                 \/ /\ p = o /\ ~ Concluded(p) /\ Concluded(p)'
                    /\ op'[p].version = op[p].version + 1
         /\ Concluded(o)' /\ op[o].cancel
         /\ row' \in [Operations -> Rows]
         /\ \A p \in Operations:
              \/ row'[p] = row[p]
              \/ /\ p = o /\ ~ RowLocked(o) /\ DefinitelyPending(o)
                 /\ row'[p] = [row[p] EXCEPT !.queued = FALSE]
<1>1. op' = IF Concluded(o) THEN op
            ELSE [op EXCEPT ![o].version = @ + 1, ![o].state =
                    IF ~ effects[o] THEN "cancelled" ELSE "unknown"]
  BY DEF CancelBeforeDispatch
<1>2. row' = IF ~ effects[o] /\ DefinitelyPending(o)
             THEN [row EXCEPT ![o].queued = FALSE] ELSE row
  BY DEF CancelBeforeDispatch
<1>3. ~ RowLocked(o) /\ op[o].cancel
  BY DEF CancelBeforeDispatch, Unheld
<1>4. \A p \in Operations:
              \/ row'[p] = row[p]
              \/ /\ p = o /\ ~ RowLocked(o) /\ DefinitelyPending(o)
                 /\ row'[p] = [row[p] EXCEPT !.queued = FALSE]
  BY <1>2, <1>3 DEF TypeOK
<1>5. op' \in [Operations -> OperationRows]
  <2>1. CASE Concluded(o)
    BY <1>1, <2>1, TypeFields
  <2>2. CASE ~ Concluded(o)
    <3>1. PICK state \in OperationStates:
             state = IF ~ effects[o] THEN "cancelled" ELSE "unknown"
      BY DEF OperationStates, TERMINAL_STATES
    <3>2. op' = [op EXCEPT ![o].version = @ + 1, ![o].state = state]
      BY <1>1, <2>2, <3>1
    <3>3. [op[o] EXCEPT !.version = @ + 1, !.state = state] \in OperationRows
      BY TypeFields, OperationEdits
    <3> QED BY <3>2, <3>3, TypeFields
  <2> QED BY <2>1, <2>2
<1>7. row' \in [Operations -> Rows]
  <2>1. [row[o] EXCEPT !.queued = FALSE] \in Rows
    BY TypeFields, RowEdits
  <2>2. row' = row \/ row' = [row EXCEPT ![o] = [@ EXCEPT !.queued = FALSE]]
    BY <1>2
  <2> QED BY <2>1, <2>2, TypeFields
<1>6. /\ \A p \in Operations:
              /\ op'[p].cancel = op[p].cancel
              /\ \/ op'[p] = op[p]
                 \/ /\ p = o /\ ~ Concluded(p) /\ Concluded(p)'
                    /\ op'[p].version = op[p].version + 1
      /\ Concluded(o)'
  BY <1>1 DEF TypeOK, Concluded, TERMINAL_STATES
<1> QED BY <1>3, <1>4, <1>5, <1>6, <1>7

LEMMA CancelBeforeDispatchKeeps ==
  ASSUME IInv, NEW o \in Operations, CancelBeforeDispatch(o) PROVE IInv'
<1> USE DEF IInv
<1>1. TypeOK'
  BY CancelMoves DEF TypeOK, Rows, OperationRows, CancelBeforeDispatch
<1>2. \A p \in Operations: RowRests(p) /\ OperationRests(p)
  <2> SUFFICES ASSUME NEW p \in Operations
               PROVE  RowRests(p) /\ OperationRests(p)
    OBVIOUS
  <2>1. CASE row'[p] = row[p]
    BY <2>1, CancelMoves DEF RowRests, OperationRests
  <2>2. CASE /\ p = o /\ ~ RowLocked(o)
             /\ row'[p] = [row[p] EXCEPT !.queued = FALSE]
    <3>1. row[p] \in Rows
      BY TypeFields
    <3>2. /\ row'[p].speaker = row[p].speaker
          /\ row'[p].delivered = row[p].delivered
          /\ row'[p].claim = row[p].claim
          /\ row'[p].abandoned = row[p].abandoned
      BY <2>2, <3>1 DEF Rows
    <3> QED BY <2>2, <3>2, CancelMoves DEF RowRests, OperationRests
  <2> QED BY <2>1, <2>2, CancelMoves
<1>3. QueueInv'
  BY <1>1, <1>2, QueueRests DEF CancelBeforeDispatch
<1>4. BudgetInv'
  <2>1. \A p \in Operations: Concluded(p) => Concluded(p)'
    BY CancelMoves DEF Concluded
  <2>2. /\ lease' = [lease EXCEPT ![o] = "closed"]
        /\ canceller' = [canceller EXCEPT ![o] =
                           IF Releasable(o) THEN "release" ELSE "retain"]
        /\ UNCHANGED <<ledger, handed, effects>>
    BY DEF CancelBeforeDispatch
  <2>3. ExecutedIsHanded'
    BY <2>2 DEF TypeOK, BudgetInv, ExecutedIsHanded
  <2>4. FencedFirst'
    BY <2>1, <2>2, CancelMoves DEF TypeOK, BudgetInv, FencedFirst
  <2>5. ReleaseClean'
    BY <2>2 DEF TypeOK, BudgetInv, ReleaseClean, Releasable
  <2> QED BY <2>3, <2>4, <2>5 DEF BudgetInv
<1> QED BY <1>1, <1>3, <1>4

(* The ledger is told, the answer is recorded, or the caller dies.          *)
LEMMA CancellerMovesOn ==
  ASSUME IInv, NEW o \in Operations,
         TellLedger(o) \/ RecordReservation(o) \/ CancellerCrash(o)
  PROVE  IInv'
<1> USE DEF IInv
<1>1. TypeOK'
  <2>1. CASE TellLedger(o)
    BY <2>1 DEF TypeOK, TellLedger
  <2>2. CASE RecordReservation(o)
    <3>1. canceller[o] \in {"none", "confirmed", "retained", "released"}
      BY <2>2 DEF RecordReservation
    <3> QED BY <2>2, <3>1 DEF TypeOK, RecordReservation
  <2>3. CASE CancellerCrash(o)
    BY <2>3, OutboxAssumption DEF TypeOK, CancellerCrash
  <2> QED BY <2>1, <2>2, <2>3
<1>2. QueueInv'
  BY <1>1, QueueStands DEF TellLedger, RecordReservation, CancellerCrash
<1>3. BudgetInv'
  <2> USE DEF TypeOK, BudgetInv, ExecutedIsHanded, FencedFirst, ReleaseClean,
          Concluded
  <2>1. CASE TellLedger(o)
    BY <2>1 DEF TellLedger
  <2>2. CASE RecordReservation(o)
    BY <2>2 DEF RecordReservation
  <2>3. CASE CancellerCrash(o)
    BY <2>3 DEF CancellerCrash
  <2> QED BY <2>1, <2>2, <2>3
<1> QED BY <1>1, <1>2, <1>3

-----------------------------------------------------------------------------
(* The workers.                                                             *)

WorkerTyped == worker \in [Workers -> WorkerStates]

LEMMA MemoryUpdate ==
  ASSUME WorkerTyped, NEW w \in Workers, NEW r \in WorkerStates,
         worker' = [worker EXCEPT ![w] = r]
  PROVE  /\ WorkerTyped'
         /\ worker'[w] = r
         /\ \A v \in Workers \ {w}: worker'[v] = worker[v]
BY DEF WorkerTyped

(* Rows taken in one statement: what each row becomes, and the envelopes.   *)
LEMMA BatchTaken ==
  ASSUME NEW batch \in SUBSET Operations, row' \in [Operations -> Rows]
  PROVE  /\ {Envelope(o, row'[o]): o \in batch} \in SUBSET Envelopes
         /\ \A o \in Operations:
              (\E e \in {Envelope(p, row'[p]): p \in batch}: e.o = o)
                 <=> o \in batch
         /\ \A e, f \in {Envelope(p, row'[p]): p \in batch}:
              e.o = f.o => e = f
<1>1. \A o \in Operations: Envelope(o, row'[o]) \in Envelopes
                           /\ Envelope(o, row'[o]).o = o
  BY DEF Envelope, Envelopes, Rows
<1> QED BY <1>1

LEMMA ClaimKeeps == ASSUME IInv, NEW w \in Workers, Claim(w) PROVE IInv'
<1> USE DEF IInv
<1>1. PICK batch \in SUBSET {o \in Operations: Claimable(o) /\ ~ RowLocked(o)}:
        /\ row' = [o \in Operations |->
                     IF o \in batch
                     THEN [row[o] EXCEPT !.claim = "held",
                                         !.attempts = @ + 1,
                                         !.speaker = w]
                     ELSE row[o]]
        /\ worker' = [worker EXCEPT ![w] =
                        [pc |-> "draining", seen |-> 0,
                         batch |-> {Envelope(o, row'[o]): o \in batch}]]
  BY DEF Claim
<1> DEFINE taken == {Envelope(o, row'[o]): o \in batch}
           memory == [pc |-> "draining", seen |-> 0, batch |-> taken]
<1>2. /\ \A o \in Operations: row[o] \in Rows
      /\ \A o \in batch: o \in Operations /\ Claimable(o) /\ ~ RowLocked(o)
                         /\ row[o].attempts < MAX_ATTEMPTS
      /\ worker[w].pc = "idle" /\ WorkerTyped
  BY TypeFields DEF Claimable, Claim, TypeOK, WorkerTyped
<1>3. row' \in [Operations -> Rows]
  BY <1>1, <1>2, RowEdits
<1>4. /\ taken \in SUBSET Envelopes
      /\ \A o \in Operations: (\E e \in taken: e.o = o) <=> o \in batch
      /\ \A e, f \in taken: e.o = f.o => e = f
  BY <1>3, BatchTaken
<1> HIDE DEF taken
<1>5. memory \in WorkerStates
  BY <1>4 DEF WorkerStates
<1>6. /\ WorkerTyped' /\ worker'[w] = memory
      /\ \A v \in Workers \ {w}: worker'[v] = worker[v]
  BY <1>1, <1>2, <1>5, MemoryUpdate DEF taken
<1>7. /\ worker'[w].pc = "draining" /\ worker'[w].batch = taken
      /\ UNCHANGED <<op, paid, ledger, handed, lease, effects, canceller,
                     receipt, crashes>>
  <2>1. worker'[w].pc = "draining" /\ worker'[w].batch = taken
    BY <1>6
  <2> QED BY <2>1 DEF Claim
<1>8. \A o \in Operations:
        /\ row'[o].queued = row[o].queued
        /\ row'[o].delivered = row[o].delivered
        /\ row'[o].abandoned = row[o].abandoned
        /\ o \in batch => /\ row'[o].claim = "held" /\ row'[o].speaker = w
                          /\ ~ row[o].abandoned /\ ~ RowLocked(o)
        /\ o \notin batch => row'[o] = row[o]
  BY <1>1, <1>2 DEF Rows, Claimable
<1> HIDE DEF memory
<1>9. \A v \in Workers, o \in Operations:
        /\ Drains(v, o)' <=> IF v = w THEN o \in batch ELSE Drains(v, o)
        /\ Sweeps(v, o)' <=> v # w /\ Sweeps(v, o)
        /\ Locks(v, o)' <=> v # w /\ Locks(v, o)
  BY <1>4, <1>6, <1>7 DEF Drains, Sweeps, Locks, DrainPass, SweepPass
<1>10. TypeOK'
  BY <1>3, <1>6, <1>7 DEF TypeOK, WorkerTyped, Rows
<1>11. QueueInv'
  <2> USE DEF QueueInv
  <2>1. OneEnvelope'
    <3> SUFFICES ASSUME NEW v \in Workers
                 PROVE  /\ worker'[v].pc = "idle" => worker'[v].batch = {}
                        /\ \A e, f \in worker'[v].batch: e.o = f.o => e = f
                        /\ worker'[v].pc \in AtEnvelope =>
                             \A e \in worker'[v].batch: e.o # worker'[v].cur.o
      BY DEF OneEnvelope
    <3>1. CASE v = w
      BY <3>1, <1>4, <1>7 DEF AtEnvelope
    <3>2. CASE v # w
      BY <3>2, <1>6 DEF OneEnvelope
    <3> QED BY <3>1, <3>2
  <2>2. ClaimFresh' /\ SweepFresh' /\ AbandonedUnclaimed'
    BY <1>8, <1>9 DEF ClaimFresh, SweepFresh, AbandonedUnclaimed
  <2>3. LockOwned'
    <3> SUFFICES ASSUME NEW v \in Workers, NEW o \in Operations, Locks(v, o)'
                 PROVE  /\ row'[o].queued /\ ~ row'[o].delivered
                        /\ row'[o].speaker = v
                        /\ worker'[v].seen <= op'[o].version
                        /\ Concluded(o)' <=> op'[o].version # worker'[v].seen
      BY DEF LockOwned
    <3>1. Locks(v, o) /\ RowLocked(o) /\ worker'[v] = worker[v]
      BY <1>6, <1>9 DEF Locks, RowLocked
    <3> QED BY <3>1, <1>7, <1>8 DEF LockOwned, Concluded
  <2>4. AnswerDurable' /\ RemovedBeforeRunning' /\ PendingWhenSeen'
    <3> SUFFICES ASSUME NEW v \in Workers \ {w}
                 PROVE  /\ worker[v].pc = "ok" => handed[worker[v].cur.o]
                        /\ worker[v].pc \in {"delivered", "marking"} =>
                              row'[worker[v].cur.o].delivered
      BY <1>6, <1>7 DEF AnswerDurable, RemovedBeforeRunning, PendingWhenSeen
    <3>1. worker[v].pc \in AtEnvelope => worker[v].cur.o \in Operations
      BY <1>2, MemoryFields, EnvelopeFields DEF WorkerTyped
    <3> QED BY <3>1, <1>8 DEF AnswerDurable, RemovedBeforeRunning, AtEnvelope
  <2>5. SplitCommitUntouched'
    BY <1>7, <1>8, <1>9 DEF SplitCommitUntouched, Concluded
  <2> QED BY <2>1, <2>2, <2>3, <2>4, <2>5
<1>12. BudgetInv'
  BY <1>7, BudgetRests DEF Concluded
<1> QED BY <1>10, <1>11, <1>12

LEMMA RecoverAbandonedKeeps ==
  ASSUME IInv, NEW w \in Workers, RecoverAbandoned(w) PROVE IInv'
<1> USE DEF IInv
<1>1. PICK batch \in SUBSET {o \in Operations: Stranded(o) /\ ~ RowLocked(o)}:
        /\ row' = [o \in Operations |->
                     IF o \in batch THEN [row[o] EXCEPT !.speaker = w]
                     ELSE row[o]]
        /\ worker' = [worker EXCEPT ![w] =
                        [pc |-> "sweeping", seen |-> 0,
                         batch |-> {Envelope(o, row'[o]): o \in batch}]]
  BY DEF RecoverAbandoned
<1> DEFINE taken == {Envelope(o, row'[o]): o \in batch}
           memory == [pc |-> "sweeping", seen |-> 0, batch |-> taken]
<1>2. /\ \A o \in Operations: row[o] \in Rows
      /\ \A o \in batch: o \in Operations /\ Stranded(o) /\ ~ RowLocked(o)
      /\ worker[w].pc = "idle" /\ WorkerTyped
  BY TypeFields DEF RecoverAbandoned, TypeOK, WorkerTyped
<1>3. row' \in [Operations -> Rows]
  BY <1>1, <1>2, RowEdits
<1>4. /\ taken \in SUBSET Envelopes
      /\ \A o \in Operations: (\E e \in taken: e.o = o) <=> o \in batch
      /\ \A e, f \in taken: e.o = f.o => e = f
  BY <1>3, BatchTaken
<1> HIDE DEF taken
<1>5. memory \in WorkerStates
  BY <1>4 DEF WorkerStates
<1>6. /\ WorkerTyped' /\ worker'[w] = memory
      /\ \A v \in Workers \ {w}: worker'[v] = worker[v]
  BY <1>1, <1>2, <1>5, MemoryUpdate DEF taken
<1>7. /\ worker'[w].pc = "sweeping" /\ worker'[w].batch = taken
      /\ UNCHANGED <<op, paid, ledger, handed, lease, effects, canceller,
                     receipt, crashes>>
  <2>1. worker'[w].pc = "sweeping" /\ worker'[w].batch = taken
    BY <1>6
  <2> QED BY <2>1 DEF RecoverAbandoned
<1>8. \A o \in Operations:
        /\ row'[o].queued = row[o].queued
        /\ row'[o].delivered = row[o].delivered
        /\ row'[o].abandoned = row[o].abandoned
        /\ row'[o].claim = row[o].claim
        /\ o \in batch => /\ row'[o].speaker = w /\ ~ RowLocked(o)
                          /\ row[o].claim # "held"
        /\ o \notin batch => row'[o] = row[o]
  BY <1>1, <1>2 DEF Rows, Stranded, QueueInv, AbandonedUnclaimed
<1> HIDE DEF memory
<1>9. \A v \in Workers, o \in Operations:
        /\ Drains(v, o)' <=> v # w /\ Drains(v, o)
        /\ Sweeps(v, o)' <=> IF v = w THEN o \in batch ELSE Sweeps(v, o)
        /\ Locks(v, o)' <=> v # w /\ Locks(v, o)
  BY <1>4, <1>6, <1>7 DEF Drains, Sweeps, Locks, DrainPass, SweepPass
<1>10. TypeOK'
  BY <1>3, <1>6, <1>7 DEF TypeOK, WorkerTyped, Rows
<1>11. QueueInv'
  <2> USE DEF QueueInv
  <2>1. OneEnvelope'
    <3> SUFFICES ASSUME NEW v \in Workers
                 PROVE  /\ worker'[v].pc = "idle" => worker'[v].batch = {}
                        /\ \A e, f \in worker'[v].batch: e.o = f.o => e = f
                        /\ worker'[v].pc \in AtEnvelope =>
                             \A e \in worker'[v].batch: e.o # worker'[v].cur.o
      BY DEF OneEnvelope
    <3>1. CASE v = w
      BY <3>1, <1>4, <1>7 DEF AtEnvelope
    <3>2. CASE v # w
      BY <3>2, <1>6 DEF OneEnvelope
    <3> QED BY <3>1, <3>2
  <2>2. ClaimFresh' /\ SweepFresh' /\ AbandonedUnclaimed'
    BY <1>8, <1>9 DEF ClaimFresh, SweepFresh, AbandonedUnclaimed
  <2>3. LockOwned'
    <3> SUFFICES ASSUME NEW v \in Workers, NEW o \in Operations, Locks(v, o)'
                 PROVE  /\ row'[o].queued /\ ~ row'[o].delivered
                        /\ row'[o].speaker = v
                        /\ worker'[v].seen <= op'[o].version
                        /\ Concluded(o)' <=> op'[o].version # worker'[v].seen
      BY DEF LockOwned
    <3>1. Locks(v, o) /\ RowLocked(o) /\ worker'[v] = worker[v]
      BY <1>6, <1>9 DEF Locks, RowLocked
    <3> QED BY <3>1, <1>7, <1>8 DEF LockOwned, Concluded
  <2>4. AnswerDurable' /\ RemovedBeforeRunning' /\ PendingWhenSeen'
    <3> SUFFICES ASSUME NEW v \in Workers \ {w}
                 PROVE  /\ worker[v].pc = "ok" => handed[worker[v].cur.o]
                        /\ worker[v].pc \in {"delivered", "marking"} =>
                              row'[worker[v].cur.o].delivered
      BY <1>6, <1>7 DEF AnswerDurable, RemovedBeforeRunning, PendingWhenSeen
    <3>1. worker[v].pc \in AtEnvelope => worker[v].cur.o \in Operations
      BY <1>2, MemoryFields, EnvelopeFields DEF WorkerTyped
    <3> QED BY <3>1, <1>8 DEF AnswerDurable, RemovedBeforeRunning, AtEnvelope
  <2>5. SplitCommitUntouched'
    BY <1>7, <1>8, <1>9 DEF SplitCommitUntouched, Concluded
  <2> QED BY <2>1, <2>2, <2>3, <2>4, <2>5
<1>12. BudgetInv'
  BY <1>7, BudgetRests DEF Concluded
<1> QED BY <1>10, <1>11, <1>12

LEMMA DeliverToKeeps ==
  ASSUME IInv, NEW w \in Workers, NEW e \in worker[w].batch,
         NEW landed \in BOOLEAN, NEW answer \in {"ok", "failed"},
         DeliverTo(w, e, landed, answer)
  PROVE  IInv'
<1> USE DEF IInv
<1> DEFINE memory == [pc |-> answer, cur |-> e, seen |-> 0,
                      batch |-> worker[w].batch \ {e}]
<1>1. /\ worker[w].pc = "draining" /\ e \in Envelopes /\ e.o \in Operations
      /\ worker[w].batch \in SUBSET Envelopes /\ WorkerTyped
  BY MemoryFields, EnvelopeFields DEF DeliverTo, TypeOK, WorkerTyped
<1>2. memory \in WorkerStates
  BY <1>1 DEF WorkerStates
<1>3. /\ WorkerTyped' /\ worker'[w] = memory
      /\ \A v \in Workers \ {w}: worker'[v] = worker[v]
  BY <1>1, <1>2, MemoryUpdate DEF DeliverTo
<1>4. /\ worker'[w].pc = answer /\ worker'[w].cur = e
      /\ worker'[w].batch = worker[w].batch \ {e}
  BY <1>3
<1> HIDE DEF memory
<1>5. /\ UNCHANGED <<row, op, paid, ledger, lease, effects, canceller, receipt,
                     crashes>>
      /\ answer = "ok" => handed'[e.o]
      /\ \A o \in Operations: /\ handed[o] => handed'[o]
                              /\ o # e.o => handed'[o] = handed[o]
      /\ handed' \in [Operations -> BOOLEAN]
  BY <1>1 DEF DeliverTo, TypeOK
<1>6. \A v \in Workers, o \in Operations:
        /\ Drains(v, o)' => Drains(v, o)
        /\ Sweeps(v, o)' => Sweeps(v, o)
        /\ Locks(v, o)' => v # w /\ Locks(v, o)
  BY <1>1, <1>3, <1>4 DEF Drains, Sweeps, Locks, DrainPass, SweepPass
<1>7. TypeOK'
  BY <1>3, <1>5 DEF TypeOK, WorkerTyped
<1>8. QueueInv'
  <2> USE DEF QueueInv
  <2>1. OneEnvelope'
    <3> SUFFICES ASSUME NEW v \in Workers
                 PROVE  /\ worker'[v].pc = "idle" => worker'[v].batch = {}
                        /\ \A f, g \in worker'[v].batch: f.o = g.o => f = g
                        /\ worker'[v].pc \in AtEnvelope =>
                             \A f \in worker'[v].batch: f.o # worker'[v].cur.o
      BY DEF OneEnvelope
    <3>1. CASE v = w
      BY <3>1, <1>4 DEF OneEnvelope
    <3>2. CASE v # w
      BY <3>2, <1>3 DEF OneEnvelope
    <3> QED BY <3>1, <3>2
  <2>2. ClaimFresh' /\ SweepFresh' /\ AbandonedUnclaimed'
    BY <1>5, <1>6 DEF ClaimFresh, SweepFresh, AbandonedUnclaimed
  <2>3. LockOwned'
    BY <1>3, <1>5, <1>6 DEF LockOwned, Concluded
  <2>4. AnswerDurable' /\ RemovedBeforeRunning' /\ PendingWhenSeen'
    <3> SUFFICES ASSUME NEW v \in Workers
                 PROVE  /\ worker'[v].pc = "ok" => handed'[worker'[v].cur.o]
                        /\ worker'[v].pc \in {"delivered", "marking"} =>
                              v # w /\ worker'[v] = worker[v]
      BY <1>5 DEF AnswerDurable, RemovedBeforeRunning, PendingWhenSeen
    <3>1. worker[v].pc \in AtEnvelope => worker[v].cur.o \in Operations
      BY <1>1, MemoryFields, EnvelopeFields DEF WorkerTyped
    <3>2. CASE v = w
      BY <3>2, <1>4, <1>5
    <3>3. CASE v # w
      BY <3>1, <3>3, <1>3, <1>5 DEF AnswerDurable, AtEnvelope
    <3> QED BY <3>2, <3>3
  <2>5. SplitCommitUntouched'
    <3>1. Drains(w, e.o)
      BY <1>1 DEF Drains, DrainPass
    <3> QED BY <3>1, <1>5, <1>6 DEF SplitCommitUntouched, Concluded
  <2> QED BY <2>1, <2>2, <2>3, <2>4, <2>5
<1>9. BudgetInv'
  BY <1>5, BudgetRests DEF Concluded
<1> QED BY <1>7, <1>8, <1>9

(* Turning to the rest of the batch, or to nothing, is rest.                *)
LEMMA TurningRests ==
  ASSUME WorkerTyped, NEW w \in Workers, NEW r,
         worker' = [worker EXCEPT ![w] = r],
         \/ r = Drained(worker[w]) /\ worker[w].pc \in DrainPass
         \/ r = Swept(worker[w]) /\ worker[w].pc \in SweepPass
         \/ /\ worker[w].pc = "sweeping"
            /\ \E e: r = Swept([worker[w] EXCEPT !.batch = @ \ {e}])
         \/ r = Idle
  PROVE  /\ WorkerTyped' /\ MemoryRests(w)
         /\ \A v \in Workers: worker'[v] = worker[v] \/ MemoryRests(v)
<1>1. worker'[w] = r /\ \A v \in Workers \ {w}: worker'[v] = worker[v]
  BY DEF WorkerTyped
<1>2. worker[w] \in WorkerStates /\ worker[w].batch \in SUBSET Envelopes
  BY MemoryFields DEF WorkerTyped
<1>3. /\ r \in WorkerStates /\ r.batch \subseteq worker[w].batch
      /\ \/ r.pc = "idle" /\ r.batch = {}
         \/ r.pc = "draining" /\ worker[w].pc \in DrainPass
         \/ r.pc = "sweeping" /\ worker[w].pc \in SweepPass
  <2>1. CASE r = Drained(worker[w]) /\ worker[w].pc \in DrainPass
    BY <1>2, <2>1, TurnsToBatch
  <2>2. CASE r = Swept(worker[w]) /\ worker[w].pc \in SweepPass
    BY <1>2, <2>2, TurnsToBatch
  <2>3. ASSUME NEW e, r = Swept([worker[w] EXCEPT !.batch = @ \ {e}]),
               worker[w].pc = "sweeping"
        PROVE  /\ r \in WorkerStates /\ r.batch \subseteq worker[w].batch
               /\ \/ r.pc = "idle" /\ r.batch = {}
                  \/ r.pc = "sweeping" /\ worker[w].pc \in SweepPass
    <3>1. [worker[w] EXCEPT !.batch = @ \ {e}].batch = worker[w].batch \ {e}
      BY <1>2, <2>3 DEF WorkerStates
    <3> QED BY <1>2, <2>3, <3>1, TurnsToBatch DEF SweepPass
  <2>4. CASE r = Idle
    BY <2>4, IdleMemory
  <2> QED BY <2>1, <2>2, <2>3, <2>4
<1>4. MemoryRests(w)
  BY <1>1, <1>3 DEF MemoryRests
<1>5. WorkerTyped'
  BY <1>1, <1>3, MemoryUpdate
<1> QED BY <1>1, <1>4, <1>5

LEMMA MarkDeliveredKeeps ==
  ASSUME IInv, NEW w \in Workers, MarkDelivered(w) PROVE IInv'
<1> USE DEF IInv
<1> DEFINE e == worker[w].cur
           o == e.o
<1>1. /\ worker[w].pc = "ok" /\ worker[w] \in WorkerStates /\ WorkerTyped
      /\ e \in Envelopes /\ o \in Operations
      /\ worker[w] \in [pc: AtEnvelope, batch: SUBSET Envelopes, seen: Nat,
                        cur: Envelopes]
      /\ row \in [Operations -> Rows]
      /\ ~ RowLocked(o)
      /\ UNCHANGED <<op, paid, ledger, handed, lease, effects, canceller,
                     receipt, crashes>>
  <2>1. worker[w].pc = "ok" /\ worker[w] \in WorkerStates /\ WorkerTyped
    BY DEF MarkDelivered, TypeOK, WorkerTyped
  <2>2. worker[w].pc \in AtEnvelope
    BY <2>1 DEF AtEnvelope
  <2> QED BY <2>1, <2>2, MemoryFields, EnvelopeFields, TypeFields
          DEF MarkDelivered
<1>2. BudgetInv'
  BY <1>1, BudgetRests DEF Concluded
<1>3. CASE ~ Owns(w, e)
  <2>1. row' = row /\ worker' = [worker EXCEPT ![w] = Drained(worker[w])]
    BY <1>3 DEF MarkDelivered
  <2>2. WorkerTyped' /\ \A v \in Workers: worker'[v] = worker[v] \/ MemoryRests(v)
    BY <1>1, <2>1, TurningRests DEF DrainPass
  <2>3. TypeOK'
    BY <1>1, <2>1, <2>2 DEF TypeOK, WorkerTyped
  <2>4. QueueInv'
    BY <1>1, <2>1, <2>2, <2>3, QueueRests DEF RowRests, OperationRests
  <2> QED BY <1>2, <2>3, <2>4
<1>4. CASE Owns(w, e)
  <2> DEFINE memory == [worker[w] EXCEPT !.pc = "delivered"]
  <2>1. /\ row' = [row EXCEPT ![o] =
                     [@ EXCEPT !.delivered = TRUE, !.claim = "none"]]
        /\ worker' = [worker EXCEPT ![w] = memory]
    BY <1>4 DEF MarkDelivered
  <2>2. /\ memory \in WorkerStates /\ memory.pc = "delivered"
        /\ memory.cur = e /\ memory.batch = worker[w].batch
    BY <1>1 DEF WorkerStates, AtEnvelope
  <2> HIDE DEF memory
  <2>3. /\ WorkerTyped' /\ worker'[w] = memory
        /\ \A v \in Workers \ {w}: worker'[v] = worker[v]
    BY <1>1, <2>1, <2>2, MemoryUpdate
  <2>4. /\ row' \in [Operations -> Rows]
        /\ \A p \in Operations:
             /\ p # o => row'[p] = row[p]
             /\ row[p].delivered => row'[p].delivered
             /\ row'[p].abandoned = row[p].abandoned
             /\ row'[p].speaker = row[p].speaker
             /\ row'[p].claim # row[p].claim => row'[p].claim = "none"
        /\ row'[o].delivered
    <3>1. /\ row' \in [Operations -> Rows]
          /\ \A p \in Operations: p # o => row'[p] = row[p]
          /\ row'[o] = [row[o] EXCEPT !.delivered = TRUE, !.claim = "none"]
      BY <1>1, <2>1, RowEdits
    <3>2. /\ row'[o].delivered /\ row'[o].abandoned = row[o].abandoned
          /\ row'[o].speaker = row[o].speaker /\ row'[o].claim = "none"
      BY <1>1, <3>1 DEF Rows
    <3> HIDE DEF o
    <3> QED BY <3>1, <3>2
  <2>5. TypeOK'
    BY <1>1, <2>3, <2>4 DEF TypeOK, WorkerTyped, Rows
  <2>6. \A v \in Workers, p \in Operations:
          /\ Drains(v, p)' => Drains(v, p)
          /\ Sweeps(v, p)' => Sweeps(v, p)
          /\ Locks(v, p)' => /\ v # w /\ Locks(v, p) /\ p # o
                             /\ worker'[v] = worker[v]
    BY <1>1, <2>2, <2>3 DEF Drains, Sweeps, Locks, DrainPass, SweepPass,
       RowLocked
  <2>7. QueueInv'
    <3> USE DEF QueueInv
    <3>1. OneEnvelope'
      <4> SUFFICES ASSUME NEW v \in Workers
                   PROVE  /\ worker'[v].pc = "idle" => worker'[v].batch = {}
                          /\ \A f, g \in worker'[v].batch: f.o = g.o => f = g
                          /\ worker'[v].pc \in AtEnvelope =>
                               \A f \in worker'[v].batch: f.o # worker'[v].cur.o
        BY DEF OneEnvelope
      <4>1. CASE v = w
        <5>1. /\ worker'[v].pc = "delivered" /\ worker'[v].cur = e
              /\ worker'[v].batch = worker[w].batch /\ worker[w].pc \in AtEnvelope
          BY <4>1, <1>1, <2>2, <2>3 DEF AtEnvelope
        <5> QED BY <5>1 DEF OneEnvelope
      <4>2. CASE v # w
        BY <4>2, <2>3 DEF OneEnvelope
      <4> QED BY <4>1, <4>2
    <3>2. ClaimFresh' /\ SweepFresh' /\ AbandonedUnclaimed'
      BY <2>4, <2>6 DEF ClaimFresh, SweepFresh, AbandonedUnclaimed
    <3>3. LockOwned'
      BY <1>1, <2>4, <2>6 DEF LockOwned, Concluded
    <3>4. AnswerDurable' /\ RemovedBeforeRunning' /\ PendingWhenSeen'
      <4> SUFFICES ASSUME NEW v \in Workers
                   PROVE  /\ worker'[v].pc = "ok" => handed[worker'[v].cur.o]
                          /\ worker'[v].pc \in {"delivered", "marking"} =>
                                row'[worker'[v].cur.o].delivered
                          /\ worker'[v].pc = "marking" =>
                                worker'[v] = worker[v]
        BY <1>1 DEF AnswerDurable, RemovedBeforeRunning, PendingWhenSeen
      <4>1. worker[v].pc \in AtEnvelope => worker[v].cur.o \in Operations
        BY <1>1, MemoryFields, EnvelopeFields DEF WorkerTyped
      <4>2. CASE v = w
        BY <4>2, <2>2, <2>3, <2>4
      <4>3. CASE v # w
        BY <4>1, <4>3, <2>3, <2>4
           DEF AnswerDurable, RemovedBeforeRunning, AtEnvelope
      <4> QED BY <4>2, <4>3
    <3>5. SplitCommitUntouched'
      BY <1>1, <2>4, <2>6 DEF SplitCommitUntouched, Concluded
    <3> QED BY <3>1, <3>2, <3>3, <3>4, <3>5
  <2> QED BY <1>2, <2>5, <2>7
<1> QED BY <1>3, <1>4

(* A version is not behind itself.                                          *)
LEMMA NotBehindItself == \A version \in Nat: version <= version
OBVIOUS

(* Only w moves, to a point where it has read the operation of the envelope *)
(* it is at.                                                                *)
LEMMA ReadKeeps ==
  ASSUME IInv, NEW w \in Workers, NEW r \in WorkerStates,
         WorkerTyped', worker'[w] = r,
         \A v \in Workers \ {w}: worker'[v] = worker[v],
         UNCHANGED <<row, op, paid, ledger, handed, lease, effects, canceller,
                     receipt, crashes>>,
         r.batch \subseteq worker[w].batch,
         r.pc \in {"marking", "concluding", "concluding sweep"},
         \A f \in r.batch: f.o # r.cur.o,
         r.pc \in {"marking", "concluding"} => worker[w].pc \in DrainPass,
         r.pc = "concluding sweep" => worker[w].pc \in SweepPass,
         r.seen = op[r.cur.o].version,
         r.pc = "marking" =>
            row[r.cur.o].delivered /\ op[r.cur.o].state = "pending",
         r.pc # "marking" =>
            /\ row[r.cur.o].queued /\ ~ row[r.cur.o].delivered
            /\ row[r.cur.o].speaker = w /\ ~ Concluded(r.cur.o)
  PROVE  IInv'
<1>1. /\ TypeOK /\ QueueInv /\ BudgetInv
      /\ row' = row /\ op' = op /\ handed' = handed
      /\ \A o \in Operations: Concluded(o)' <=> Concluded(o)
  BY DEF IInv, Concluded
<1>2. /\ r.pc \in AtEnvelope /\ r.cur.o \in Operations /\ r.seen \in Nat
      /\ op[r.cur.o].version \in Nat
  <2>1. r.pc \in AtEnvelope
    BY DEF AtEnvelope
  <2>2. r.cur.o \in Operations /\ r.seen \in Nat
    BY <2>1, MemoryFields, EnvelopeFields
  <2>3. op[r.cur.o].version \in Nat
    BY <2>2
  <2> QED BY <2>1, <2>2, <2>3
<1>3. worker'[w] = r /\ \A v \in Workers \ {w}: worker'[v] = worker[v]
  OBVIOUS
<1>4. \A v \in Workers, o \in Operations:
        /\ Drains(v, o)' => Drains(v, o)
        /\ Sweeps(v, o)' => Sweeps(v, o)
        /\ v # w /\ Locks(v, o)' => Locks(v, o)
  BY <1>3 DEF Drains, Sweeps, Locks, DrainPass, SweepPass
<1>5. TypeOK'
  BY <1>1, <1>3 DEF TypeOK, WorkerTyped
<1>6. OneEnvelope'
  <2>1. \A v \in Workers \ {w}:
           /\ worker'[v].pc = "idle" => worker'[v].batch = {}
           /\ \A f, g \in worker'[v].batch: f.o = g.o => f = g
           /\ worker'[v].pc \in AtEnvelope =>
                \A f \in worker'[v].batch: f.o # worker'[v].cur.o
    <3> TAKE v \in Workers \ {w}
    <3>1. worker'[v] = worker[v]
      BY <1>3
    <3>2. /\ worker[v].pc = "idle" => worker[v].batch = {}
          /\ \A f, g \in worker[v].batch: f.o = g.o => f = g
          /\ worker[v].pc \in AtEnvelope =>
               \A f \in worker[v].batch: f.o # worker[v].cur.o
      BY <1>1 DEF QueueInv, OneEnvelope
    <3> QED BY <3>1, <3>2
  <2>2. /\ worker'[w].pc # "idle"
        /\ \A f, g \in worker'[w].batch: f.o = g.o => f = g
        /\ \A f \in worker'[w].batch: f.o # worker'[w].cur.o
    BY <1>1, <1>3 DEF QueueInv, OneEnvelope
  <2> QED BY <2>1, <2>2 DEF OneEnvelope
<1>7. ClaimFresh' /\ SweepFresh' /\ AbandonedUnclaimed'
  BY <1>1, <1>4 DEF QueueInv, ClaimFresh, SweepFresh, AbandonedUnclaimed
<1>8. LockOwned'
  <2>1. ASSUME NEW v \in Workers, NEW o \in Operations, Locks(v, o)'
        PROVE  /\ row'[o].queued /\ ~ row'[o].delivered
               /\ row'[o].speaker = v
               /\ worker'[v].seen <= op'[o].version
               /\ Concluded(o)' <=> op'[o].version # worker'[v].seen
    <3>1. CASE v = w
      <4>1. worker'[v] = r /\ r.pc # "marking" /\ r.cur.o = o
        BY <3>1, <2>1, <1>3 DEF Locks
      <4>2. op[o].version = r.seen /\ r.seen \in Nat /\ op' = op
        BY <4>1, <1>1, <1>2
      <4>3. ~ Concluded(o)' /\ row' = row
        BY <4>1, <1>1 DEF Concluded
      <4>4. row[o].queued /\ ~ row[o].delivered /\ row[o].speaker = v
        BY <3>1, <4>1
      <4>5. /\ worker'[v].seen = r.seen /\ op'[o].version = r.seen
            /\ r.seen <= r.seen
        BY <4>1, <4>2, NotBehindItself
      <4> QED BY <4>3, <4>4, <4>5
    <3>2. CASE v # w
      <4>1. worker'[v] = worker[v] /\ Locks(v, o)
        BY <3>2, <2>1, <1>3, <1>4
      <4>2. /\ row[o].queued /\ ~ row[o].delivered /\ row[o].speaker = v
            /\ worker[v].seen <= op[o].version
            /\ Concluded(o) <=> op[o].version # worker[v].seen
        BY <4>1, <1>1 DEF QueueInv, LockOwned
      <4> QED BY <4>1, <4>2, <1>1 DEF Concluded
    <3> QED BY <3>1, <3>2
  <2> QED BY <2>1 DEF LockOwned
<1>9. AnswerDurable'
  <2> SUFFICES ASSUME NEW v \in Workers, worker'[v].pc = "ok"
               PROVE  handed[worker'[v].cur.o]
    BY <1>1 DEF AnswerDurable
  <2>1. worker'[v] = worker[v]
    BY <1>3
  <2> QED BY <2>1, <1>1 DEF QueueInv, AnswerDurable
<1>10. RemovedBeforeRunning' /\ PendingWhenSeen'
  <2> SUFFICES ASSUME NEW v \in Workers
               PROVE  /\ worker'[v].pc \in {"delivered", "marking"} =>
                            row[worker'[v].cur.o].delivered
                      /\ worker'[v].pc = "marking" =>
                            /\ worker'[v].seen <= op[worker'[v].cur.o].version
                            /\ worker'[v].seen = op[worker'[v].cur.o].version
                                  => op[worker'[v].cur.o].state = "pending"
    BY <1>1 DEF RemovedBeforeRunning, PendingWhenSeen
  <2>1. CASE v = w
    <3>1. /\ worker'[v] = r /\ worker'[v].cur.o = r.cur.o
          /\ worker'[v].seen = op[r.cur.o].version
      BY <2>1, <1>3
    <3>2. op[r.cur.o].version <= op[r.cur.o].version
      BY <1>2, NotBehindItself
    <3>3. row[r.cur.o].delivered \/ worker'[v].pc \notin {"delivered", "marking"}
      BY <3>1
    <3>4. op[r.cur.o].state = "pending" \/ worker'[v].pc # "marking"
      BY <3>1
    <3> QED BY <3>1, <3>2, <3>3, <3>4
  <2>2. CASE v # w
    <3>1. worker'[v] = worker[v]
      BY <2>2, <1>3
    <3> QED BY <3>1, <1>1 DEF QueueInv, RemovedBeforeRunning, PendingWhenSeen
  <2> QED BY <2>1, <2>2
<1>11. SplitCommitUntouched'
  BY <1>1, <1>4 DEF QueueInv, SplitCommitUntouched
<1>12. QueueInv'
  BY <1>6, <1>7, <1>8, <1>9, <1>10, <1>11 DEF QueueInv
<1>13. BudgetInv'
  BY <1>1, BudgetRests
<1> QED BY <1>5, <1>12, <1>13 DEF IInv

(* What is known of a worker that is at an envelope.                        *)
LEMMA AtItsEnvelope ==
  ASSUME IInv, NEW w \in Workers, worker[w].pc \in AtEnvelope
  PROVE  /\ WorkerTyped /\ worker[w] \in WorkerStates
         /\ worker[w].cur \in Envelopes /\ worker[w].cur.o \in Operations
         /\ worker[w].cur.attempts \in Nat
         /\ worker[w].batch \in SUBSET Envelopes
         /\ worker[w] \in [pc: AtEnvelope, batch: SUBSET Envelopes, seen: Nat,
                           cur: Envelopes]
         /\ \A f \in worker[w].batch: f.o # worker[w].cur.o
         /\ row \in [Operations -> Rows] /\ op \in [Operations -> OperationRows]
BY MemoryFields, EnvelopeFields, TypeFields, OutboxAssumption
   DEF IInv, TypeOK, WorkerTyped, QueueInv, OneEnvelope

(* A worker rests and nothing else moves.                                   *)
LEMMA RestKeeps ==
  ASSUME IInv, UNCHANGED <<row, op, paid, ledger, handed, lease, effects,
                           canceller, receipt>>, crashes' \in 0 .. MAX_CRASHES,
         WorkerTyped',
         \A v \in Workers: worker'[v] = worker[v] \/ MemoryRests(v)
  PROVE  IInv'
<1> USE DEF IInv
<1>1. TypeOK'
  BY DEF TypeOK, WorkerTyped
<1>2. QueueInv'
  BY <1>1, QueueRests DEF RowRests, OperationRests
<1>3. BudgetInv'
  BY BudgetRests DEF Concluded
<1> QED BY <1>1, <1>2, <1>3

LEMMA ReadForRunningKeeps ==
  ASSUME IInv, NEW w \in Workers, ReadForRunning(w) PROVE IInv'
<1> DEFINE o == worker[w].cur.o
           memory == [worker[w] EXCEPT !.pc = "marking",
                                       !.seen = op[o].version]
<1>1. worker[w].pc = "delivered" /\ worker[w].pc \in AtEnvelope
  BY DEF ReadForRunning, AtEnvelope
<1>2. /\ UNCHANGED <<row, op, paid, ledger, handed, lease, effects, canceller,
                     receipt, crashes>>
      /\ worker' = [worker EXCEPT ![w] = IF op[o].state = "pending"
                                         THEN memory ELSE Drained(worker[w])]
  BY DEF ReadForRunning
<1>3. CASE op[o].state = "pending"
  <2>1. op[o].version \in Nat
    BY <1>1, AtItsEnvelope DEF OperationRows
  <2>2. /\ memory \in WorkerStates /\ memory.pc = "marking"
        /\ memory.cur = worker[w].cur /\ memory.batch = worker[w].batch
        /\ memory.seen = op[o].version
    BY <1>1, <2>1, AtItsEnvelope DEF WorkerStates, AtEnvelope
  <2>3. row[o].delivered
    BY <1>1 DEF IInv, QueueInv, RemovedBeforeRunning
  <2>4. worker' = [worker EXCEPT ![w] = memory]
    BY <1>2, <1>3
  <2> HIDE DEF memory
  <2>5. /\ WorkerTyped' /\ worker'[w] = memory
        /\ \A v \in Workers \ {w}: worker'[v] = worker[v]
    BY <1>1, <2>2, <2>4, AtItsEnvelope, MemoryUpdate
  <2>6. /\ \A f \in memory.batch: f.o # memory.cur.o
        /\ worker[w].pc \in DrainPass
    BY <1>1, <2>2, AtItsEnvelope DEF DrainPass
  <2> QED BY <1>2, <1>3, <2>2, <2>3, <2>5, <2>6, ReadKeeps
<1>4. CASE op[o].state # "pending"
  <2>1. worker' = [worker EXCEPT ![w] = Drained(worker[w])]
    BY <1>2, <1>4
  <2>2. WorkerTyped' /\ \A v \in Workers: worker'[v] = worker[v] \/ MemoryRests(v)
    BY <1>1, <2>1, AtItsEnvelope, TurningRests DEF DrainPass
  <2>3. crashes' \in 0 .. MAX_CRASHES
    BY <1>2 DEF IInv, TypeOK
  <2> QED BY <1>2, <2>2, <2>3, RestKeeps
<1> QED BY <1>3, <1>4

(* The version check of store.transition, for a worker whose reading was    *)
(* "pending".                                                               *)
LEMMA MarkRunningKeeps ==
  ASSUME IInv, NEW w \in Workers, MarkRunning(w) PROVE IInv'
<1> DEFINE o == worker[w].cur.o
<1>1. worker[w].pc = "marking" /\ worker[w].pc \in AtEnvelope
  BY DEF MarkRunning, AtEnvelope
<1>2. /\ UNCHANGED <<row, paid, ledger, handed, lease, effects, canceller,
                     receipt, crashes>>
      /\ worker' = [worker EXCEPT ![w] = Drained(worker[w])]
      /\ op' = Transition(o, worker[w].seen, "running")
  BY DEF MarkRunning
<1>3. WorkerTyped' /\ \A v \in Workers: worker'[v] = worker[v] \/ MemoryRests(v)
  BY <1>1, <1>2, AtItsEnvelope, TurningRests DEF DrainPass
<1>4. /\ op' \in [Operations -> OperationRows]
      /\ \A p \in Operations: /\ op'[p].cancel = op[p].cancel
                              /\ op'[p].state # "running" =>
                                   op'[p].state = op[p].state
                              /\ OperationRests(p)
                              /\ Concluded(p)' <=> Concluded(p)
  <2>1. CASE op[o].version = worker[w].seen
    <3>1. op[o].state = "pending" /\ row[o].delivered
      BY <1>1, <2>1 DEF IInv, QueueInv, PendingWhenSeen, RemovedBeforeRunning
    <3> DEFINE moved == [op[o] EXCEPT !.state = "running", !.version = @ + 1]
    <3>2. op' = [op EXCEPT ![o] = moved]
      BY <1>2, <2>1 DEF Transition
    <3>3. /\ o \in Operations /\ op[o] \in OperationRows
          /\ "running" \in OperationStates
      BY <1>1, AtItsEnvelope DEF OperationStates
    <3>4. /\ moved \in OperationRows /\ moved.state = "running"
          /\ moved.cancel = op[o].cancel
          /\ moved.version = op[o].version + 1
      BY <3>3, OperationEdits DEF OperationRows
    <3> HIDE DEF moved
    <3>5. /\ op' \in [Operations -> OperationRows] /\ op'[o] = moved
          /\ \A p \in Operations: p # o => op'[p] = op[p]
      BY <1>1, <3>2, <3>3, <3>4, AtItsEnvelope
    <3> QED BY <3>1, <3>3, <3>4, <3>5 DEF OperationRests, Concluded, TERMINAL_STATES
  <2>2. CASE op[o].version # worker[w].seen
    <3>1. op' = op
      BY <1>2, <2>2 DEF Transition
    <3> QED BY <1>1, <3>1, AtItsEnvelope DEF OperationRests, Concluded
  <2> QED BY <2>1, <2>2
<1>5. TypeOK'
  BY <1>2, <1>3, <1>4 DEF IInv, TypeOK, WorkerTyped, OperationRows
<1>6. QueueInv'
  BY <1>2, <1>3, <1>4, <1>5, QueueRests DEF IInv, RowRests
<1>7. BudgetInv'
  BY <1>2, <1>4, BudgetRests DEF IInv
<1> QED BY <1>5, <1>6, <1>7 DEF IInv

LEMMA RecordFailureKeeps ==
  ASSUME IInv, NEW w \in Workers, RecordFailure(w) PROVE IInv'
<1> DEFINE o == worker[w].cur.o
<1>1. worker[w].pc = "failed" /\ worker[w].pc \in AtEnvelope
  BY DEF RecordFailure, AtEnvelope
<1>2. /\ UNCHANGED <<op, paid, ledger, handed, lease, effects, canceller,
                     receipt, crashes>>
      /\ worker' = [worker EXCEPT ![w] = Drained(worker[w])]
      /\ row' = row \/ row' = [row EXCEPT ![o] = [@ EXCEPT !.claim = "none"]]
  BY DEF RecordFailure
<1>3. WorkerTyped' /\ \A v \in Workers: worker'[v] = worker[v] \/ MemoryRests(v)
  BY <1>1, <1>2, AtItsEnvelope, TurningRests DEF DrainPass
<1>4. row' \in [Operations -> Rows]
  <2>1. row[o] \in Rows /\ [row[o] EXCEPT !.claim = "none"] \in Rows
    BY <1>1, AtItsEnvelope, RowEdits
  <2> QED BY <1>1, <1>2, <2>1, AtItsEnvelope
<1>5. \A p \in Operations: RowRests(p) /\ OperationRests(p)
  <2> SUFFICES ASSUME NEW p \in Operations PROVE RowRests(p)
    BY <1>2 DEF OperationRests
  <2>1. row[p] \in Rows /\ o \in Operations
    BY <1>1, AtItsEnvelope
  <2>2. row'[p] = row[p] \/ row'[p] = [row[p] EXCEPT !.claim = "none"]
    BY <1>1, <1>2, AtItsEnvelope
  <2> QED BY <2>1, <2>2 DEF RowRests, Rows
<1>6. TypeOK'
  BY <1>2, <1>3, <1>4 DEF IInv, TypeOK, WorkerTyped, Rows
<1>7. QueueInv'
  BY <1>2, <1>3, <1>5, <1>6, QueueRests DEF IInv
<1>8. BudgetInv'
  BY <1>2, BudgetRests DEF IInv, Concluded
<1> QED BY <1>6, <1>7, <1>8 DEF IInv

LEMMA CrashKeeps == ASSUME IInv, NEW w \in Workers, Crash(w) PROVE IInv'
<1>1. WorkerTyped' /\ \A v \in Workers: worker'[v] = worker[v] \/ MemoryRests(v)
  BY TurningRests DEF IInv, TypeOK, WorkerTyped, Crash
<1>2. crashes' \in 0 .. MAX_CRASHES
  BY OutboxAssumption DEF IInv, TypeOK, Crash
<1> QED BY <1>1, <1>2, RestKeeps DEF Crash

(* What _mark_undeliverable has in hand when it starts.                     *)
Begins(w, e, again, next) ==
    \/ /\ again = "concluding" /\ worker[w].pc = "failed"
       /\ e = worker[w].cur /\ next = Drained(worker[w])
    \/ /\ again = "concluding sweep" /\ worker[w].pc = "sweeping"
       /\ e \in worker[w].batch
       /\ next = Swept([worker[w] EXCEPT !.batch = @ \ {e}])

LEMMA BeginsWith ==
  ASSUME IInv, NEW w \in Workers, NEW e, NEW again, NEW next,
         Begins(w, e, again, next)
  PROVE  /\ WorkerTyped /\ e \in Envelopes /\ e.o \in Operations
         /\ worker[w].batch \in SUBSET Envelopes
         /\ \A f \in worker[w].batch \ {e}: f.o # e.o
         /\ again = "concluding" => worker[w].pc \in DrainPass
         /\ again = "concluding sweep" => worker[w].pc \in SweepPass
         /\ again \in {"concluding", "concluding sweep"}
         /\ row \in [Operations -> Rows] /\ op \in [Operations -> OperationRows]
         /\ next \in WorkerStates
         /\ next.pc = "draining" \/ next.pc \in {"idle", "sweeping"}
         /\ next.pc = "draining" => \A f \in next.batch: f.o # e.o
<1>1. CASE /\ again = "concluding" /\ worker[w].pc = "failed"
           /\ e = worker[w].cur /\ next = Drained(worker[w])
  <2>1. worker[w].pc \in AtEnvelope
    BY <1>1 DEF AtEnvelope
  <2>2. \A f \in worker[w].batch: f.o # e.o /\ f # e
    BY <1>1, <2>1, AtItsEnvelope
  <2>3. /\ WorkerTyped /\ e \in Envelopes /\ e.o \in Operations
        /\ worker[w].batch \in SUBSET Envelopes
        /\ row \in [Operations -> Rows] /\ op \in [Operations -> OperationRows]
    BY <1>1, <2>1, AtItsEnvelope
  <2>4. /\ next \in WorkerStates /\ next.pc \in {"idle", "draining"}
        /\ next.batch = worker[w].batch
    BY <1>1, <2>3, TurnsToBatch
  <2>5. worker[w].batch = worker[w].batch \ {e}
    BY <2>2
  <2>6. worker[w].pc \in DrainPass
    BY <1>1 DEF DrainPass
  <2> QED BY <1>1, <2>2, <2>3, <2>4, <2>5, <2>6
<1>2. CASE /\ again = "concluding sweep" /\ worker[w].pc = "sweeping"
           /\ e \in worker[w].batch
           /\ next = Swept([worker[w] EXCEPT !.batch = @ \ {e}])
  <2>1. /\ WorkerTyped /\ worker[w].batch \in SUBSET Envelopes
        /\ row \in [Operations -> Rows] /\ op \in [Operations -> OperationRows]
        /\ worker[w] \in WorkerStates
    BY MemoryFields, TypeFields DEF IInv, TypeOK, WorkerTyped
  <2>2. e \in Envelopes /\ e.o \in Operations
    BY <1>2, <2>1, EnvelopeFields
  <2>3. \A f \in worker[w].batch \ {e}: f.o # e.o
    BY <1>2 DEF IInv, QueueInv, OneEnvelope
  <2>4. [worker[w] EXCEPT !.batch = @ \ {e}].batch = worker[w].batch \ {e}
    BY <2>1 DEF WorkerStates
  <2>5. /\ next \in WorkerStates /\ next.pc \in {"idle", "sweeping"}
        /\ next.batch = worker[w].batch \ {e}
    <3>1. [worker[w] EXCEPT !.batch = @ \ {e}].batch \in SUBSET Envelopes
      BY <2>1, <2>4
    <3> QED BY <1>2, <2>4, <3>1, TurnsToBatch
  <2>6. worker[w].pc \in SweepPass
    BY <1>2 DEF SweepPass
  <2> QED BY <1>2, <2>1, <2>2, <2>3, <2>5, <2>6
<1> QED BY <1>1, <1>2 DEF Begins

(* Giving up the row of a concluded operation is rest.                      *)
LEMMA GivingUpRests ==
  ASSUME TypeOK, NEW o \in Operations, NEW w \in Workers, row[o].speaker = w,
         row' = [row EXCEPT ![o] = [@ EXCEPT !.abandoned = TRUE,
                                             !.claim = "none"]],
         Concluded(o)', ~ Drains(w, o)'
  PROVE  /\ row' \in [Operations -> Rows]
         /\ \A p \in Operations: RowRests(p)
<1> DEFINE given == [row[o] EXCEPT !.abandoned = TRUE, !.claim = "none"]
<1>1. /\ row \in [Operations -> Rows] /\ row[o] \in Rows
      /\ row' = [row EXCEPT ![o] = given]
  BY TypeFields
<1>2. /\ given \in Rows /\ given.abandoned /\ given.claim = "none"
      /\ given.speaker = row[o].speaker /\ given.delivered = row[o].delivered
      /\ given.queued = row[o].queued
  BY <1>1, RowEdits DEF Rows
<1> HIDE DEF given
<1>3. /\ row' \in [Operations -> Rows] /\ row'[o] = given
      /\ \A p \in Operations: p # o => row'[p] = row[p]
  BY <1>1, <1>2
<1>4. RowRests(o)
  BY <1>2, <1>3 DEF RowRests
<1>5. \A p \in Operations: p # o => RowRests(p)
  BY <1>3 DEF RowRests
<1> QED BY <1>3, <1>4, <1>5

LEMMA BeginKeeps ==
  ASSUME IInv, NEW w \in Workers, NEW e, NEW again, NEW next,
         Begins(w, e, again, next), BeginUndeliverable(e, again, w, next)
  PROVE  IInv'
<1>1. UNCHANGED <<op, paid, ledger, handed, lease, effects, canceller,
                  receipt, crashes>>
  BY DEF BeginUndeliverable
<1>2. CASE Owns(w, e) /\ ~ Concluded(e.o)
  <2> DEFINE memory == [pc |-> again, cur |-> e, batch |-> worker[w].batch \ {e},
                        seen |-> op[e.o].version]
  <2>1. row' = row /\ worker' = [worker EXCEPT ![w] = memory]
    BY <1>2 DEF BeginUndeliverable
  <2>2. op[e.o].version \in Nat
    BY BeginsWith DEF OperationRows
  <2>3. /\ memory \in WorkerStates /\ memory.pc = again /\ memory.cur = e
        /\ memory.batch = worker[w].batch \ {e}
        /\ memory.seen = op[e.o].version
    BY <2>2, BeginsWith DEF WorkerStates
  <2> HIDE DEF memory
  <2>4. /\ WorkerTyped' /\ worker'[w] = memory
        /\ \A v \in Workers \ {w}: worker'[v] = worker[v]
    BY <2>1, <2>3, BeginsWith, MemoryUpdate
  <2>5. /\ memory.pc \in {"concluding", "concluding sweep"}
        /\ \A f \in memory.batch: f.o # memory.cur.o
        /\ memory.batch \subseteq worker[w].batch
        /\ memory.pc = "concluding" => worker[w].pc \in DrainPass
        /\ memory.pc = "concluding sweep" => worker[w].pc \in SweepPass
    <3>1. /\ again \in {"concluding", "concluding sweep"}
          /\ again = "concluding" => worker[w].pc \in DrainPass
          /\ again = "concluding sweep" => worker[w].pc \in SweepPass
          /\ \A f \in worker[w].batch \ {e}: f.o # e.o
      BY BeginsWith
    <3> QED BY <2>3, <3>1
  <2>6. /\ row[memory.cur.o].queued /\ ~ row[memory.cur.o].delivered
        /\ row[memory.cur.o].speaker = w /\ ~ Concluded(memory.cur.o)
        /\ memory.seen = op[memory.cur.o].version
    BY <1>2, <2>3 DEF Owns
  <2> QED BY <1>1, <2>1, <2>3, <2>4, <2>5, <2>6, ReadKeeps
<1>3. ASSUME ~ (Owns(w, e) /\ ~ Concluded(e.o))
      PROVE  IInv'
  <2>1. worker' = [worker EXCEPT ![w] = next]
    BY <1>3 DEF BeginUndeliverable
  <2>2. /\ WorkerTyped'
        /\ \A v \in Workers: worker'[v] = worker[v] \/ MemoryRests(v)
    <3>1. \/ next = Drained(worker[w]) /\ worker[w].pc \in DrainPass
          \/ /\ worker[w].pc = "sweeping"
             /\ \E f: next = Swept([worker[w] EXCEPT !.batch = @ \ {f}])
      BY DEF Begins, DrainPass
    <3>2. WorkerTyped
      BY BeginsWith
    <3> QED BY <2>1, <3>1, <3>2, TurningRests
  <2>3. crashes' \in 0 .. MAX_CRASHES
    BY <1>1 DEF IInv, TypeOK
  <2>4. CASE ~ Owns(w, e)
    <3>1. row' = row
      BY <1>3, <2>4 DEF BeginUndeliverable
    <3> QED BY <1>1, <2>2, <2>3, <3>1, RestKeeps
  <2>5. CASE Owns(w, e) /\ Concluded(e.o)
    <3>1. row' = [row EXCEPT ![e.o] = [@ EXCEPT !.abandoned = TRUE,
                                                !.claim = "none"]]
      BY <2>5 DEF BeginUndeliverable
    <3>2. worker'[w] = next
      BY <2>1, BeginsWith DEF WorkerTyped
    <3>3. ~ Drains(w, e.o)'
      <4>1. worker'[w].pc = "draining" => \A f \in worker'[w].batch: f.o # e.o
        BY <3>2, BeginsWith
      <4>2. worker'[w].pc = "draining" \/ worker'[w].pc \in {"idle", "sweeping"}
        BY <3>2, BeginsWith
      <4> QED BY <4>1, <4>2 DEF Drains, DrainPass
    <3>4. row[e.o].speaker = w /\ e.o \in Operations /\ Concluded(e.o)'
      BY <1>1, <2>5, BeginsWith DEF Owns, Concluded
    <3>5. TypeOK
      BY DEF IInv
    <3>6. row' \in [Operations -> Rows] /\ \A p \in Operations: RowRests(p)
      BY <3>1, <3>3, <3>4, <3>5, GivingUpRests
    <3>7. TypeOK'
      BY <1>1, <2>2, <3>6 DEF IInv, TypeOK, WorkerTyped, Rows
    <3>8. QueueInv'
      BY <1>1, <2>2, <3>6, <3>7, QueueRests DEF IInv, OperationRests
    <3>9. BudgetInv'
      BY <1>1, BudgetRests DEF IInv, Concluded
    <3> QED BY <3>7, <3>8, <3>9 DEF IInv
  <2> QED BY <1>3, <2>4, <2>5
<1> QED BY <1>2, <1>3

LEMMA ExhaustKeeps == ASSUME IInv, NEW w \in Workers, Exhaust(w) PROVE IInv'
BY BeginKeeps DEF Exhaust, Begins

LEMMA SettleStrandedKeeps ==
  ASSUME IInv, NEW w \in Workers, NEW e \in worker[w].batch,
         SettleStranded(w, e)
  PROVE  IInv'
BY BeginKeeps DEF SettleStranded, Begins

(* What the holder of the row lock does to its row and its operation.       *)
LEMMA CommitMoves ==
  ASSUME IInv, NEW w \in Workers, CommitUndeliverable(w),
         NEW o \in {worker[w].cur.o}
  PROVE  /\ o \in Operations /\ WorkerTyped
         /\ row[o].queued /\ ~ row[o].delivered /\ row[o].speaker = w
         /\ op' \in [Operations -> OperationRows]
         /\ \A p \in Operations: op'[p].cancel = op[p].cancel
         /\ \A p \in Operations \ {o}: op'[p] = op[p]
         /\ \/ Concluded(o) /\ op' = op
            \/ /\ ~ Concluded(o) /\ op'[o].state = "unknown"
               /\ op'[o].version = op[o].version + 1
         /\ Concluded(o)'
         /\ row' = [row EXCEPT ![o] = [@ EXCEPT !.abandoned = TRUE,
                                                !.claim = "none"]]
<1>1. /\ worker[w].pc \in {"concluding", "concluding sweep"}
      /\ worker[w].pc \in AtEnvelope
  BY DEF CommitUndeliverable, AtEnvelope
<1>2. /\ o \in Operations /\ op \in [Operations -> OperationRows]
      /\ op[o] \in OperationRows /\ WorkerTyped
  BY <1>1, AtItsEnvelope
<1>3. Locks(w, o)
  BY <1>1 DEF Locks
<1>4. /\ row[o].queued /\ ~ row[o].delivered /\ row[o].speaker = w
      /\ Concluded(o) <=> op[o].version # worker[w].seen
  BY <1>2, <1>3 DEF IInv, QueueInv, LockOwned
<1>5. /\ row' = [row EXCEPT ![o] = [@ EXCEPT !.abandoned = TRUE,
                                             !.claim = "none"]]
      /\ op' = Transition(o, worker[w].seen, "unknown")
  BY DEF CommitUndeliverable
<1>6. CASE Concluded(o)
  <2>1. op' = op
    BY <1>4, <1>5, <1>6 DEF Transition
  <2>2. Concluded(o)'
    BY <1>6, <2>1 DEF Concluded
  <2> QED BY <1>2, <1>4, <1>5, <1>6, <2>1, <2>2
<1>7. CASE ~ Concluded(o)
  <2> DEFINE moved == [op[o] EXCEPT !.state = "unknown", !.version = @ + 1]
  <2>1. op' = [op EXCEPT ![o] = moved]
    BY <1>4, <1>5, <1>7 DEF Transition
  <2>2. "unknown" \in OperationStates
    BY DEF OperationStates, TERMINAL_STATES
  <2>3. /\ moved \in OperationRows /\ moved.state = "unknown"
        /\ moved.version = op[o].version + 1 /\ moved.cancel = op[o].cancel
    BY <1>2, <2>2, OperationEdits DEF OperationRows
  <2> HIDE DEF moved
  <2>4. /\ op' \in [Operations -> OperationRows] /\ op'[o] = moved
        /\ \A p \in Operations: p # o => op'[p] = op[p]
    BY <1>2, <2>1, <2>3
  <2>5. Concluded(o)'
    BY <2>3, <2>4 DEF Concluded, TERMINAL_STATES
  <2>6. \A p \in Operations: op'[p].cancel = op[p].cancel
    BY <2>3, <2>4
  <2> QED BY <1>2, <1>4, <1>5, <1>7, <2>3, <2>4, <2>5, <2>6
<1> QED BY <1>6, <1>7

LEMMA CommitUndeliverableKeeps ==
  ASSUME IInv, NEW w \in Workers, CommitUndeliverable(w) PROVE IInv'
<1> PICK o \in {worker[w].cur.o}: TRUE
  OBVIOUS
<1>1. /\ worker[w].pc \in {"concluding", "concluding sweep"}
      /\ worker[w].pc \in AtEnvelope /\ TypeOK
      /\ UNCHANGED <<paid, ledger, handed, lease, effects, canceller, receipt,
                     crashes>>
  BY DEF CommitUndeliverable, AtEnvelope, IInv
<1>2. PICK r: /\ worker' = [worker EXCEPT ![w] = r]
              /\ \/ worker[w].pc = "concluding" /\ r = Drained(worker[w])
                 \/ worker[w].pc = "concluding sweep" /\ r = Swept(worker[w])
  BY <1>1 DEF CommitUndeliverable
<1>3. /\ WorkerTyped'
      /\ \A v \in Workers: worker'[v] = worker[v] \/ MemoryRests(v)
  BY <1>1, <1>2, AtItsEnvelope, TurningRests DEF DrainPass, SweepPass
<1>4. ~ Drains(w, o)'
  <2>1. worker'[w] = r /\ worker[w].batch \in SUBSET Envelopes
    BY <1>1, <1>2, AtItsEnvelope DEF WorkerTyped
  <2>2. r.batch = worker[w].batch /\ r.pc \in {"idle", "draining", "sweeping"}
    BY <1>2, <2>1, TurnsToBatch
  <2>3. \A f \in worker[w].batch: f.o # o
    BY <1>1, AtItsEnvelope
  <2> QED BY <2>1, <2>2, <2>3 DEF Drains, DrainPass
<1>5. row' \in [Operations -> Rows] /\ \A p \in Operations: RowRests(p)
  <2>1. /\ o \in Operations /\ row[o].speaker = w /\ Concluded(o)'
        /\ row' = [row EXCEPT ![o] = [@ EXCEPT !.abandoned = TRUE,
                                               !.claim = "none"]]
    BY CommitMoves
  <2> QED BY <1>1, <1>4, <2>1, GivingUpRests
<1>6. /\ op' \in [Operations -> OperationRows]
      /\ \A p \in Operations: /\ OperationRests(p)
                              /\ op'[p].cancel = op[p].cancel
                              /\ Concluded(p) => Concluded(p)'
  <2>0. /\ o \in Operations /\ WorkerTyped
        /\ row[o].queued /\ ~ row[o].delivered /\ row[o].speaker = w
        /\ op' \in [Operations -> OperationRows]
        /\ \A p \in Operations: op'[p].cancel = op[p].cancel
        /\ \A p \in Operations \ {o}: op'[p] = op[p]
        /\ \/ Concluded(o) /\ op' = op
           \/ /\ ~ Concluded(o) /\ op'[o].state = "unknown"
              /\ op'[o].version = op[o].version + 1
        /\ Concluded(o)'
        /\ row' = [row EXCEPT ![o] = [@ EXCEPT !.abandoned = TRUE,
                                               !.claim = "none"]]
    BY CommitMoves
  <2>1. Concluded(o)' /\ (op' = op \/ op'[o].version = op[o].version + 1)
    BY CommitMoves
  <2>2. /\ \A p \in Operations: op'[p].cancel = op[p].cancel
        /\ \A p \in Operations \ {o}: op'[p] = op[p]
    BY <2>0
  <2>3. op' \in [Operations -> OperationRows]
    BY CommitMoves
  <2>4. OperationRests(o)
    BY <2>1 DEF OperationRests
  <2>5. \A p \in Operations: p # o => /\ OperationRests(p)
                                      /\ Concluded(p) => Concluded(p)'
    BY <2>2 DEF OperationRests, Concluded
  <2> QED BY <2>1, <2>2, <2>3, <2>4, <2>5
<1>7. TypeOK'
  BY <1>1, <1>3, <1>5, <1>6 DEF TypeOK, WorkerTyped, Rows, OperationRows
<1>8. QueueInv'
  BY <1>1, <1>3, <1>5, <1>6, <1>7, QueueRests DEF IInv
<1>9. BudgetInv'
  BY <1>1, <1>6, BudgetRests DEF IInv
<1> QED BY <1>7, <1>8, <1>9 DEF IInv

-----------------------------------------------------------------------------
(* The one reauthorization of an operation no executor received.            *)

LEMMA ReopenMoves ==
  ASSUME IInv, NEW o \in Operations, RecoverUndispatched(o)
  PROVE  /\ row' \in [Operations -> Rows] /\ op' \in [Operations -> OperationRows]
         /\ \A p \in Operations:
               p = o \/ (row'[p] = row[p] /\ op'[p] = op[p])
         /\ row'[o].queued = row[o].queued
         /\ row'[o].delivered = row[o].delivered
         /\ row'[o].claim = row[o].claim /\ row'[o].claim = "none"
         /\ ~ row'[o].abandoned /\ row'[o].speaker = Nobody
         /\ op'[o].state = "pending" /\ op'[o].cancel = op[o].cancel
         /\ op'[o].version = op[o].version + 1
<1> DEFINE fresh == [row[o] EXCEPT !.attempts = 0, !.speaker = Nobody,
                                   !.abandoned = FALSE]
           moved == [op[o] EXCEPT !.state = "pending", !.version = @ + 1]
<1>1. /\ row \in [Operations -> Rows] /\ row[o] \in Rows
      /\ op \in [Operations -> OperationRows] /\ op[o] \in OperationRows
      /\ "pending" \in OperationStates
  BY TypeFields DEF IInv, OperationStates
<1>2. row' = [row EXCEPT ![o] = fresh] /\ op' = [op EXCEPT ![o] = moved]
  BY DEF RecoverUndispatched
<1>3. /\ fresh \in Rows /\ fresh.queued = row[o].queued
      /\ fresh.delivered = row[o].delivered /\ fresh.claim = row[o].claim
      /\ ~ fresh.abandoned /\ fresh.speaker = Nobody
  BY <1>1, RowEdits DEF Rows
<1>4. /\ moved \in OperationRows /\ moved.state = "pending"
      /\ moved.version = op[o].version + 1 /\ moved.cancel = op[o].cancel
  BY <1>1, OperationEdits DEF OperationRows
<1> HIDE DEF fresh, moved
<1>5. /\ row' \in [Operations -> Rows] /\ op' \in [Operations -> OperationRows]
      /\ row'[o] = fresh /\ op'[o] = moved
      /\ \A p \in Operations:
            p = o \/ (row'[p] = row[p] /\ op'[p] = op[p])
  BY <1>1, <1>2, <1>3, <1>4
<1>6. row[o].claim = "none"
  BY DEF RecoverUndispatched, UndispatchedEligible
<1> QED BY <1>3, <1>4, <1>5, <1>6

LEMMA RecoverUndispatchedKeeps ==
  ASSUME IInv, NEW o \in Operations, RecoverUndispatched(o) PROVE IInv'
<1>1. /\ TypeOK /\ QueueInv /\ BudgetInv
      /\ UNCHANGED <<paid, ledger, handed, lease, effects, worker, canceller,
                     crashes>>
      /\ \A w \in Workers: ~ Locks(w, o)
      /\ receipt' \in [Operations -> BOOLEAN]
      /\ lease[o] = "none"
  BY DEF IInv, TypeOK, RecoverUndispatched, UndispatchedEligible, RowLocked, Locks
<1>2. \A w \in Workers, p \in Operations:
         /\ Drains(w, p)' <=> Drains(w, p)
         /\ Sweeps(w, p)' <=> Sweeps(w, p)
         /\ Locks(w, p)' => p # o /\ Locks(w, p)
  BY <1>1 DEF Drains, Sweeps, Locks
<1>3. TypeOK'
  BY <1>1, ReopenMoves DEF TypeOK, Rows, OperationRows
<1>4. OneEnvelope' /\ AnswerDurable'
  BY <1>1 DEF QueueInv, OneEnvelope, AnswerDurable
<1>5. ClaimFresh' /\ SweepFresh' /\ AbandonedUnclaimed'
  <2> SUFFICES ASSUME NEW p \in Operations
               PROVE  /\ \A w \in Workers: Drains(w, p)' /\ row'[p].speaker = w
                            => ~ row'[p].abandoned
                      /\ \A w \in Workers: Sweeps(w, p)' /\ row'[p].speaker = w
                            => row'[p].claim # "held"
                      /\ row'[p].abandoned => row'[p].claim = "none"
    BY DEF ClaimFresh, SweepFresh, AbandonedUnclaimed
  <2>1. CASE p = o
    BY <2>1, ReopenMoves
  <2>2. CASE p # o
    <3>1. row'[p] = row[p]
      BY <2>2, ReopenMoves
    <3> QED BY <3>1, <1>1, <1>2 DEF QueueInv, ClaimFresh, SweepFresh,
            AbandonedUnclaimed
  <2> QED BY <2>1, <2>2
<1>6. LockOwned'
  <2>1. ASSUME NEW w \in Workers, NEW p \in Operations, Locks(w, p)'
        PROVE  /\ row'[p].queued /\ ~ row'[p].delivered
               /\ row'[p].speaker = w
               /\ worker'[w].seen <= op'[p].version
               /\ Concluded(p)' <=> op'[p].version # worker'[w].seen
    <3>1. Locks(w, p) /\ row'[p] = row[p] /\ op'[p] = op[p]
      BY <2>1, <1>2, ReopenMoves
    <3> QED BY <3>1, <1>1 DEF QueueInv, LockOwned, Concluded
  <2> QED BY <2>1 DEF LockOwned
<1>7. RemovedBeforeRunning' /\ PendingWhenSeen'
  <2> SUFFICES ASSUME NEW w \in Workers, NEW p \in {worker[w].cur.o},
                      worker[w].pc \in {"delivered", "marking"}
               PROVE  /\ row'[p].delivered
                      /\ worker[w].pc = "marking" =>
                            /\ worker[w].seen <= op'[p].version
                            /\ worker[w].seen = op'[p].version =>
                                  op'[p].state = "pending"
    BY <1>1 DEF RemovedBeforeRunning, PendingWhenSeen
  <2>1. /\ p \in Operations /\ worker[w].seen \in Nat /\ op[p].version \in Nat
    <3>1. worker[w].pc \in AtEnvelope
      BY DEF AtEnvelope
    <3> QED BY <3>1, AtItsEnvelope, MemoryFields DEF OperationRows
  <2>2. /\ row[p].delivered
        /\ worker[w].pc = "marking" =>
              /\ worker[w].seen <= op[p].version
              /\ worker[w].seen = op[p].version => op[p].state = "pending"
    BY <1>1 DEF QueueInv, RemovedBeforeRunning, PendingWhenSeen
  <2>3. CASE p = o
    BY <2>1, <2>2, <2>3, ReopenMoves
  <2>4. CASE p # o
    <3>1. row'[p] = row[p] /\ op'[p] = op[p]
      BY <2>1, <2>4, ReopenMoves
    <3> QED BY <2>2, <3>1
  <2> QED BY <2>3, <2>4
<1>8. SplitCommitUntouched'
  <2> SUFFICES ASSUME NEW p \in Operations,
                      row'[p].abandoned, ~ Concluded(p)'
               PROVE  ~ handed[p] /\ \A w \in Workers: ~ Drains(w, p)
    BY <1>1, <1>2 DEF SplitCommitUntouched
  <2>1. row'[p] = row[p] /\ op'[p] = op[p]
    BY ReopenMoves
  <2> QED BY <2>1, <1>1 DEF QueueInv, SplitCommitUntouched, Concluded
<1>9. QueueInv'
  BY <1>4, <1>5, <1>6, <1>7, <1>8 DEF QueueInv
<1>10. BudgetInv'
  <2>1. \A p \in Operations: p # o => /\ op'[p].cancel = op[p].cancel
                                      /\ Concluded(p) => Concluded(p)'
    BY ReopenMoves DEF Concluded
  <2> QED BY <1>1, <2>1 DEF BudgetInv, ExecutedIsHanded, FencedFirst,
          ReleaseClean
<1> QED BY <1>3, <1>9, <1>10 DEF IInv

-----------------------------------------------------------------------------
(* The inductive invariant.                                                 *)

LEMMA InitIInv == ASSUME Init PROVE IInv
<1>1. /\ \A w \in Workers: worker[w] = Idle
      /\ worker \in [Workers -> WorkerStates]
  <2>1. worker = [w \in Workers |-> Idle]
    BY DEF Init
  <2> QED BY <2>1, IdleMemory
<1>2. \A w \in Workers: /\ worker[w].pc = "idle" /\ worker[w].batch = {}
                        /\ \A o \in Operations:
                             ~ Drains(w, o) /\ ~ Sweeps(w, o) /\ ~ Locks(w, o)
  BY <1>1, IdleMemory DEF Drains, Sweeps, Locks, DrainPass, SweepPass
<1>3. \A o \in Operations: /\ row[o].claim = "none"
                           /\ op[o].state = "pending"
                           /\ ~ handed[o] /\ lease[o] = "none" /\ ~ effects[o]
                           /\ canceller[o] = "idle" /\ ledger[o] = "confirmed"
  BY DEF Init
<1>4. TypeOK
  <2>1. 0 \in 0 .. MAX_ATTEMPTS /\ MAX_ATTEMPTS \in 0 .. MAX_ATTEMPTS
        /\ 0 \in 0 .. MAX_CRASHES
    BY OutboxAssumption
  <2>2. row \in [Operations -> Rows]
    BY <2>1 DEF Init, Rows
  <2>3. op \in [Operations -> OperationRows]
    BY DEF Init, OperationRows, OperationStates
  <2>4. paid \in [Operations -> {"none", "confirmed", "retained", "released"}]
    BY DEF Init
  <2> QED BY <1>1, <2>1, <2>2, <2>3, <2>4 DEF Init, TypeOK, Rows, OperationRows
<1>5. QueueInv
  <2>1. OneEnvelope
    BY <1>2 DEF OneEnvelope, AtEnvelope
  <2>2. ClaimFresh /\ SweepFresh /\ AbandonedUnclaimed /\ LockOwned
    BY <1>2, <1>3 DEF ClaimFresh, SweepFresh, AbandonedUnclaimed, LockOwned
  <2>3. AnswerDurable /\ RemovedBeforeRunning /\ PendingWhenSeen
    BY <1>2 DEF AnswerDurable, RemovedBeforeRunning, PendingWhenSeen
  <2>4. SplitCommitUntouched
    BY <1>2, <1>3 DEF SplitCommitUntouched
  <2> QED BY <2>1, <2>2, <2>3, <2>4 DEF QueueInv
<1>6. BudgetInv
  BY <1>3 DEF BudgetInv, ExecutedIsHanded, FencedFirst, ReleaseClean
<1> QED BY <1>4, <1>5, <1>6 DEF IInv

LEMMA StandsKeeps == ASSUME IInv, UNCHANGED vars PROVE IInv'
<1>1. /\ TypeOK /\ QueueInv /\ BudgetInv
      /\ UNCHANGED <<row, op, handed, worker, lease, ledger, effects, canceller>>
  BY DEF IInv, vars
<1>2. TypeOK'
  BY DEF IInv, TypeOK, vars
<1>3. QueueInv'
  BY <1>1, <1>2, QueueStands
<1>4. BudgetInv'
  BY <1>1, BudgetRests DEF Concluded
<1> QED BY <1>2, <1>3, <1>4 DEF IInv

LEMMA StepIInv == ASSUME IInv, [Next]_vars PROVE IInv'
<1>1. ASSUME NEW w \in Workers, Claim(w) \/ RecoverAbandoned(w) \/ Crash(w)
      PROVE  IInv'
  BY <1>1, ClaimKeeps, RecoverAbandonedKeeps, CrashKeeps
<1>2. ASSUME NEW w \in Workers, WorkerStep(w) PROVE IInv'
  <2>1. ASSUME NEW e \in worker[w].batch, NEW landed \in BOOLEAN,
               NEW answer \in {"ok", "failed"}, DeliverTo(w, e, landed, answer)
        PROVE  IInv'
    BY <2>1, DeliverToKeeps
  <2>2. ASSUME NEW e \in worker[w].batch, SettleStranded(w, e) PROVE IInv'
    BY <2>2, SettleStrandedKeeps
  <2>3. CASE MarkDelivered(w)
    BY <2>3, MarkDeliveredKeeps
  <2>4. CASE ReadForRunning(w)
    BY <2>4, ReadForRunningKeeps
  <2>5. CASE MarkRunning(w)
    BY <2>5, MarkRunningKeeps
  <2>6. CASE RecordFailure(w)
    BY <2>6, RecordFailureKeeps
  <2>7. CASE Exhaust(w)
    BY <2>7, ExhaustKeeps
  <2>8. CASE CommitUndeliverable(w)
    BY <2>8, CommitUndeliverableKeeps
  <2> QED BY <1>2, <2>1, <2>2, <2>3, <2>4, <2>5, <2>6, <2>7, <2>8
          DEF WorkerStep
<1>3. ASSUME NEW o \in Operations,
             \/ Lapse(o) \/ Acquire(o) \/ CreateResource(o)
             \/ ReleaseLease(o) \/ Settle(o)
      PROVE  IInv'
  BY <1>3, LapseKeeps, AcquireKeeps, CreateResourceKeeps, ReleaseLeaseKeeps,
     SettleKeeps
<1>4. ASSUME NEW o \in Operations,
             \/ RequestCancellation(o) \/ CancellerStep(o)
             \/ CancellerCrash(o) \/ RecoverUndispatched(o)
      PROVE  IInv'
  BY <1>4, RequestCancellationKeeps, CancelBeforeDispatchKeeps,
     CancellerMovesOn, RecoverUndispatchedKeeps DEF CancellerStep
<1>5. CASE UNCHANGED vars
  BY <1>5, StandsKeeps
<1> QED BY <1>1, <1>2, <1>3, <1>4, <1>5 DEF Next

(* The inductive invariant: the worth of a worker's memory after any        *)
(* interleaving of claims, answers, lapses, sweeps, cancellations, crashes. *)
THEOREM InvariantIInv == Spec => []IInv
<1>1. Init => IInv
  BY InitIInv
<1>2. IInv /\ [Next]_vars => IInv'
  BY StepIInv
<1> QED BY <1>1, <1>2, PTL DEF Spec

-----------------------------------------------------------------------------
(* Every reachable state is well typed: in particular no row is claimed     *)
(* beyond max_attempts (claim()), whoever claims, sweeps or reopens it.     *)
THEOREM TypeCorrect == Spec => []TypeOK
<1>1. IInv => TypeOK
  BY DEF IInv
<1> QED BY <1>1, InvariantIInv, PTL

(* Budget goes back only while nothing was created, and nothing is created  *)
(* afterwards (cancel_before_dispatch: the fence before the release).       *)
THEOREM ReleaseIsClean == Spec => []ReleasedMeansNothingCreated
<1>1. IInv => ReleasedMeansNothingCreated
  BY DEF IInv, BudgetInv, ReleaseClean, ReleasedMeansNothingCreated
<1> QED BY <1>1, InvariantIInv, PTL

-----------------------------------------------------------------------------
(* Who may end a claim, and who may undo a conclusion.                      *)

LEMMA ClaimEnds ==
  ASSUME IInv, Next, NEW o \in Operations,
         row[o].claim = "held", row'[o].claim = "none"
  PROVE  \E w \in Workers:
            /\ worker'[w] # worker[w]
            /\ worker[w].pc \notin {"idle", "draining", "sweeping"}
            /\ worker[w].cur.o = o
            /\ row[o].speaker = w
<1> DEFINE Ends(w) == /\ worker'[w] # worker[w]
                      /\ worker[w].pc \notin {"idle", "draining", "sweeping"}
                      /\ worker[w].cur.o = o
                      /\ row[o].speaker = w
<1>1. /\ row \in [Operations -> Rows] /\ worker \in [Workers -> WorkerStates]
      /\ TypeOK /\ row' # row
  BY TypeFields DEF IInv, TypeOK
<1>2. ASSUME NEW w \in Workers, worker[w].pc \in AtEnvelope,
             worker'[w] = Drained(worker[w]) \/ worker'[w] = Swept(worker[w])
      PROVE  worker'[w] # worker[w]
  <2>1. worker'[w].pc \in {"idle", "draining", "sweeping"}
    BY <1>2, AtItsEnvelope, TurnsToBatch
  <2> QED BY <1>2, <2>1 DEF AtEnvelope
<1>3. ASSUME NEW w \in Workers, Claim(w) PROVE FALSE
  <2>1. PICK batch \in SUBSET Operations:
          row' = [p \in Operations |->
                    IF p \in batch
                    THEN [row[p] EXCEPT !.claim = "held", !.attempts = @ + 1,
                                        !.speaker = w]
                    ELSE row[p]]
    BY <1>3 DEF Claim
  <2>2. row'[o] = row[o] \/ row'[o].claim = "held"
    BY <1>1, <2>1 DEF Rows
  <2> QED BY <2>2
<1>4. ASSUME NEW w \in Workers, RecoverAbandoned(w) PROVE FALSE
  <2>1. PICK batch \in SUBSET Operations:
          row' = [p \in Operations |->
                    IF p \in batch THEN [row[p] EXCEPT !.speaker = w]
                    ELSE row[p]]
    BY <1>4 DEF RecoverAbandoned
  <2>2. row'[o].claim = row[o].claim
    BY <1>1, <2>1 DEF Rows
  <2> QED BY <2>2
<1>5. ASSUME NEW w \in Workers, MarkDelivered(w) PROVE Ends(w)
  <2>1. /\ worker[w].pc = "ok" /\ worker[w].pc \in AtEnvelope
        /\ Owns(w, worker[w].cur)
        /\ row' = [row EXCEPT ![worker[w].cur.o] =
                     [@ EXCEPT !.delivered = TRUE, !.claim = "none"]]
        /\ worker' = [worker EXCEPT ![w].pc = "delivered"]
    BY <1>1, <1>5 DEF MarkDelivered, AtEnvelope
  <2>2. worker[w].cur.o = o
    BY <1>1, <2>1
  <2>3. worker'[w].pc = "delivered"
    BY <1>1, <2>1, AtItsEnvelope
  <2> QED BY <2>1, <2>2, <2>3 DEF Owns
<1>6. ASSUME NEW w \in Workers, RecordFailure(w) PROVE Ends(w)
  <2>1. /\ worker[w].pc = "failed" /\ worker[w].pc \in AtEnvelope
        /\ Owns(w, worker[w].cur)
        /\ row' = [row EXCEPT ![worker[w].cur.o] = [@ EXCEPT !.claim = "none"]]
        /\ worker' = [worker EXCEPT ![w] = Drained(worker[w])]
    BY <1>1, <1>6 DEF RecordFailure, AtEnvelope
  <2>2. worker[w].cur.o = o /\ worker'[w] = Drained(worker[w])
    BY <1>1, <2>1
  <2>3. worker'[w] # worker[w]
    BY <1>2, <2>1, <2>2
  <2> QED BY <2>1, <2>2, <2>3 DEF Owns
<1>7. ASSUME NEW w \in Workers, NEW e, NEW again, NEW next,
             BeginUndeliverable(e, again, w, next)
      PROVE  /\ Owns(w, e) /\ e.o = o
             /\ worker' = [worker EXCEPT ![w] = next]
  <2>1. /\ Owns(w, e)
        /\ row' = [row EXCEPT ![e.o] = [@ EXCEPT !.abandoned = TRUE,
                                                 !.claim = "none"]]
        /\ worker' = [worker EXCEPT ![w] = next]
    BY <1>1, <1>7 DEF BeginUndeliverable
  <2>2. e.o = o
    BY <1>1, <2>1
  <2> QED BY <2>1, <2>2
<1>8. ASSUME NEW w \in Workers, Exhaust(w) PROVE Ends(w)
  <2>1. /\ worker[w].pc = "failed" /\ worker[w].pc \in AtEnvelope
        /\ Owns(w, worker[w].cur) /\ worker[w].cur.o = o
        /\ worker' = [worker EXCEPT ![w] = Drained(worker[w])]
    BY <1>7, <1>8 DEF Exhaust, AtEnvelope
  <2>2. worker'[w] = Drained(worker[w])
    BY <1>1, <2>1
  <2>3. worker'[w] # worker[w]
    BY <1>2, <2>1, <2>2
  <2> QED BY <2>1, <2>2, <2>3 DEF Owns
<1>9. ASSUME NEW w \in Workers, NEW e \in worker[w].batch, SettleStranded(w, e)
      PROVE  FALSE
  <2>1. worker[w].pc = "sweeping" /\ Owns(w, e) /\ e.o = o
    BY <1>7, <1>9 DEF SettleStranded
  <2>2. Sweeps(w, o) /\ row[o].speaker = w
    BY <1>9, <2>1 DEF Sweeps, SweepPass, Owns
  <2> QED BY <2>2 DEF IInv, QueueInv, SweepFresh
<1>10. ASSUME NEW w \in Workers, CommitUndeliverable(w) PROVE Ends(w)
  <2>1. PICK p \in {worker[w].cur.o}: TRUE
    OBVIOUS
  <2>2. /\ p \in Operations /\ row[p].speaker = w
        /\ row' = [row EXCEPT ![p] = [@ EXCEPT !.abandoned = TRUE,
                                               !.claim = "none"]]
    BY <1>10, CommitMoves
  <2>3. p = o
    BY <1>1, <2>2
  <2>4. /\ worker[w].pc \in {"concluding", "concluding sweep"}
        /\ worker[w].pc \in AtEnvelope
        /\ worker'[w] = Drained(worker[w]) \/ worker'[w] = Swept(worker[w])
    BY <1>1, <1>10 DEF CommitUndeliverable, AtEnvelope
  <2>5. worker'[w] # worker[w]
    BY <1>2, <2>4
  <2> QED BY <2>2, <2>3, <2>4, <2>5
<1>11. ASSUME NEW p \in Operations, Lapse(p) PROVE FALSE
  <2>1. row' = [row EXCEPT ![p] = [@ EXCEPT !.claim = "lapsed"]]
    BY <1>11 DEF Lapse
  <2>2. row'[o] = row[o] \/ row'[o].claim = "lapsed"
    BY <1>1, <2>1 DEF Rows
  <2> QED BY <2>2
<1>12. ASSUME NEW p \in Operations, CancelBeforeDispatch(p) PROVE FALSE
  <2>1. row'[o] = row[o] \/ row'[o] = [row[o] EXCEPT !.queued = FALSE]
    BY <1>1, <1>12, CancelMoves
  <2>2. row'[o].claim = row[o].claim
    BY <1>1, <2>1 DEF Rows
  <2> QED BY <2>2
<1>13. ASSUME NEW p \in Operations, RecoverUndispatched(p) PROVE FALSE
  <2>1. row'[o].claim = row[o].claim
    BY <1>13, ReopenMoves
  <2> QED BY <2>1
<1> HIDE DEF Ends
<1>14. \E w \in Workers: Ends(w)
  <2>1. ASSUME NEW w \in Workers, WorkerStep(w) PROVE Ends(w)
    BY <2>1, <1>1, <1>5, <1>6, <1>8, <1>9, <1>10
       DEF WorkerStep, DeliverTo, ReadForRunning, MarkRunning
  <2>2. ASSUME NEW p \in Operations, CancellerStep(p) PROVE FALSE
    BY <2>2, <1>1, <1>12 DEF CancellerStep, TellLedger, RecordReservation
  <2>3. ASSUME NEW p \in Operations,
               \/ Acquire(p) \/ CreateResource(p) \/ ReleaseLease(p)
               \/ Settle(p) \/ RequestCancellation(p) \/ CancellerCrash(p)
        PROVE  FALSE
    BY <2>3, <1>1 DEF Acquire, CreateResource, ReleaseLease, Settle,
       RequestCancellation, CancellerCrash
  <2>4. ASSUME NEW w \in Workers, Crash(w) PROVE FALSE
    BY <2>4, <1>1 DEF Crash
  <2> QED BY <1>3, <1>4, <1>11, <1>13, <2>1, <2>2, <2>3, <2>4 DEF Next
<1> QED BY <1>14 DEF Ends

(* A claim that has not lapsed ends by the hand of the worker that holds it *)
(* (_owned_update), whatever its predecessors, the sweeps, cancellations    *)
(* and reauthorizations do.                                                 *)
THEOREM ClaimsAreUndisturbed == Spec => ClaimUndisturbed
<1>1. IInv /\ [Next]_vars =>
        [\A o \in Operations:
           (row[o].claim = "held" /\ row'[o].claim = "none") =>
              \E w \in Workers:
                 /\ worker'[w] # worker[w]
                 /\ worker[w].pc \notin {"idle", "draining", "sweeping"}
                 /\ worker[w].cur.o = o
                 /\ row[o].speaker = w]_vars
  BY ClaimEnds
<1> QED BY <1>1, InvariantIInv, PTL DEF Spec, ClaimUndisturbed

LEMMA ConclusionMoves ==
  ASSUME IInv, Next, NEW o \in Operations, Concluded(o),
         op'[o].state # op[o].state
  PROVE  RecoverUndispatched(o)
<1>1. TypeOK
  BY DEF IInv
<1>2. ASSUME NEW w \in Workers, MarkRunning(w) PROVE FALSE
  <2>1. PICK p \in {worker[w].cur.o}: TRUE
    OBVIOUS
  <2>2. /\ worker[w].pc = "marking" /\ worker[w].pc \in AtEnvelope
        /\ op' = Transition(p, worker[w].seen, "running")
    BY <1>2 DEF MarkRunning, AtEnvelope
  <2>3. p \in Operations /\ op \in [Operations -> OperationRows]
    BY <2>2, AtItsEnvelope
  <2>4. op[p].version = worker[w].seen
    BY <2>2 DEF Transition
  <2>5. op[p].state = "pending"
    BY <2>2, <2>4 DEF IInv, QueueInv, PendingWhenSeen
  <2>6. p # o
    BY <2>5 DEF Concluded, TERMINAL_STATES
  <2> QED BY <2>2, <2>3, <2>6 DEF Transition
<1>3. ASSUME NEW w \in Workers, CommitUndeliverable(w) PROVE FALSE
  <2>1. PICK p \in {worker[w].cur.o}: TRUE
    OBVIOUS
  <2>2. \A q \in Operations \ {p}: op'[q] = op[q]
    BY <1>3, CommitMoves
  <2>3. Concluded(p) => op' = op
    BY <1>3, CommitMoves
  <2> QED BY <2>2, <2>3
<1>4. ASSUME NEW p \in Operations, Settle(p) PROVE FALSE
  BY <1>1, <1>4, SettleMoves
<1>5. ASSUME NEW p \in Operations, CancelBeforeDispatch(p) PROVE FALSE
  BY <1>1, <1>5, CancelMoves
<1>6. ASSUME NEW p \in Operations, RequestCancellation(p) PROVE FALSE
  BY <1>1, <1>6 DEF RequestCancellation, TypeOK
<1>7. ASSUME NEW p \in Operations, RecoverUndispatched(p), p # o PROVE FALSE
  BY <1>7, ReopenMoves
<1>8. ASSUME NEW w \in Workers,
             Claim(w) \/ WorkerStep(w) \/ RecoverAbandoned(w) \/ Crash(w)
      PROVE  FALSE
  BY <1>2, <1>3, <1>8 DEF Claim, RecoverAbandoned, Crash, WorkerStep, DeliverTo,
     SettleStranded, BeginUndeliverable, MarkDelivered, ReadForRunning,
     RecordFailure, Exhaust
<1>9. ASSUME NEW p \in Operations,
             \/ Lapse(p) \/ Acquire(p) \/ CreateResource(p) \/ ReleaseLease(p)
             \/ Settle(p) \/ RequestCancellation(p) \/ CancellerStep(p)
             \/ CancellerCrash(p)
      PROVE  FALSE
  BY <1>4, <1>5, <1>6, <1>9 DEF Lapse, Acquire, CreateResource, ReleaseLease,
     CancellerStep, TellLedger, RecordReservation, CancellerCrash
<1> QED BY <1>7, <1>8, <1>9 DEF Next

(* A conclusion stands against late running marks, exhaustion, sweeps and   *)
(* cancellation (store.transition's version check, the reads under the row  *)
(* lock); only the one reauthorization undoes an "unknown" that no executor *)
(* ever received (recover_undispatched).                                    *)
THEOREM ConclusionsStand == Spec => ConclusionStands
<1>1. ASSUME IInv, [Next]_vars, NEW o \in Operations,
             Concluded(o), op'[o].state # op[o].state
      PROVE  /\ op[o].state = "unknown" /\ op'[o].state = "pending"
             /\ ~ handed[o] /\ ~ receipt[o] /\ receipt'[o]
  <2>1. Next
    BY <1>1 DEF vars
  <2>2. RecoverUndispatched(o)
    BY <1>1, <2>1, ConclusionMoves
  <2>3. op'[o].state = "pending"
    BY <1>1, <2>2, ReopenMoves
  <2> QED BY <1>1, <2>2, <2>3
          DEF IInv, TypeOK, RecoverUndispatched, UndispatchedEligible
<1>2. IInv /\ [Next]_vars =>
        [\A o \in Operations:
           (Concluded(o) /\ op'[o].state # op[o].state) =>
              /\ op[o].state = "unknown" /\ op'[o].state = "pending"
              /\ ~ handed[o] /\ ~ receipt[o] /\ receipt'[o]]_vars
  BY <1>1
<1> QED BY <1>2, InvariantIInv, PTL DEF Spec, ConclusionStands

-----------------------------------------------------------------------------
(* The queue implements Delivery.  What each step is to the abstract view.  *)
Verdict(o) == IF Concluded(o) THEN op[o].state ELSE "open"
statuses == [o \in Operations |-> Status(o)]
verdicts == [o \in Operations |-> Verdict(o)]

LEMMA StatusOf ==
  ASSUME NEW o \in Operations
  PROVE  Status(o) = IF ~ row[o].queued THEN "withdrawn"
                     ELSE IF row[o].delivered THEN "delivered"
                     ELSE IF row[o].abandoned /\ Concluded(o) THEN "givenup"
                     ELSE "pending"
BY DEF Status

LEMMA VerdictOf ==
  ASSUME NEW o \in Operations
  PROVE  /\ Concluded(o) => /\ Verdict(o) = op[o].state
                            /\ Verdict(o) \in TERMINAL_STATES
                            /\ Verdict(o) # "open"
         /\ ~ Concluded(o) => Verdict(o) = "open"
BY DEF Verdict, Concluded, TERMINAL_STATES

LEMMA ViewOf ==
  ASSUME NEW o \in Operations
  PROVE  statuses[o] = Status(o) /\ verdicts[o] = Verdict(o)
BY DEF statuses, verdicts

(* One operation's view moves, or none.                                     *)
LEMMA StatusMoves ==
  ASSUME NEW o \in Operations, NEW s, Status(o)' = s,
         \A p \in Operations \ {o}: Status(p)' = Status(p)
  PROVE  statuses' = [statuses EXCEPT ![o] = s]
BY DEF statuses
LEMMA VerdictMoves ==
  ASSUME NEW o \in Operations, NEW v, Verdict(o)' = v,
         \A p \in Operations \ {o}: Verdict(p)' = Verdict(p)
  PROVE  verdicts' = [verdicts EXCEPT ![o] = v]
BY DEF verdicts
LEMMA ViewStands ==
  /\ (\A p \in Operations: Status(p)' = Status(p)) => statuses' = statuses
  /\ (\A p \in Operations: Verdict(p)' = Verdict(p)) => verdicts' = verdicts
BY DEF statuses, verdicts

(* What the view of an operation depends on.                                *)
LEMMA SameRow ==
  ASSUME NEW o \in Operations,
         row'[o].queued = row[o].queued, row'[o].delivered = row[o].delivered,
         row'[o].abandoned = row[o].abandoned, Concluded(o)' <=> Concluded(o)
  PROVE  Status(o)' = Status(o)
BY DEF Status
LEMMA SameState ==
  ASSUME NEW o \in Operations,
         op'[o].state = op[o].state \/ (~ Concluded(o) /\ ~ Concluded(o)')
  PROVE  Verdict(o)' = Verdict(o) /\ (Concluded(o)' <=> Concluded(o))
BY DEF Verdict, Concluded

LEMMA Stutters ==
  ASSUME UNCHANGED <<handed, ledger, effects, receipt>>,
         \A o \in Operations: Status(o)' = Status(o) /\ Verdict(o)' = Verdict(o)
  PROVE  UNCHANGED D!vars
<1>1. statuses' = statuses /\ verdicts' = verdicts
  BY ViewStands
<1> QED BY <1>1 DEF D!vars, statuses, verdicts, Verdict

(* The actions of Delivery in terms of the view.                            *)
LEMMA ViewActions ==
  ASSUME NEW o \in Operations
  PROVE  /\ /\ Verdict(o) = "open" /\ handed' = [handed EXCEPT ![o] = TRUE]
            /\ UNCHANGED <<statuses, verdicts, ledger, effects, receipt>>
            => D!HandOff(o)
         /\ /\ Status(o) = "pending" /\ handed[o]
            /\ statuses' = [statuses EXCEPT ![o] = "delivered"]
            /\ UNCHANGED <<verdicts, handed, ledger, effects, receipt>>
            => D!Deliver(o)
         /\ /\ handed[o] /\ Verdict(o) = "open" /\ ledger[o] = "confirmed"
            /\ effects' = [effects EXCEPT ![o] = TRUE]
            /\ UNCHANGED <<statuses, verdicts, handed, ledger, receipt>>
            => D!Create(o)
         /\ \A v \in TERMINAL_STATES:
            /\ handed[o] /\ Verdict(o) = "open"
            /\ verdicts' = [verdicts EXCEPT ![o] = v]
            /\ UNCHANGED <<statuses, handed, ledger, effects, receipt>>
            => D!Conclude(o)
         /\ /\ Verdict(o) # "open" /\ ~ effects[o]
            /\ ledger' = [ledger EXCEPT ![o] = "released"]
            /\ UNCHANGED <<statuses, verdicts, handed, effects, receipt>>
            => D!Release(o)
         /\ /\ Verdict(o) # "open"
            /\ ledger' = [ledger EXCEPT ![o] = "retained"]
            /\ UNCHANGED <<statuses, verdicts, handed, effects, receipt>>
            => D!Retain(o)
         /\ /\ Status(o) = "pending"
            /\ statuses' = [statuses EXCEPT ![o] = "givenup"]
            /\ verdicts' = [verdicts EXCEPT ![o] =
                              IF @ = "open" THEN "unknown" ELSE @]
            /\ UNCHANGED <<handed, ledger, effects, receipt>>
            => D!GiveUp(o)
         /\ /\ Verdict(o) = "open"
            /\ verdicts' = [verdicts EXCEPT ![o] =
                              IF effects[o] THEN "unknown" ELSE "cancelled"]
            /\ \/ UNCHANGED statuses
               \/ /\ Status(o) = "pending"
                  /\ \E s \in {"withdrawn", "givenup"}:
                       statuses' = [statuses EXCEPT ![o] = s]
            /\ UNCHANGED <<handed, ledger, effects, receipt>>
            => D!Cancel(o)
         /\ /\ Verdict(o) # "open" /\ Status(o) = "pending"
            /\ statuses' = [statuses EXCEPT ![o] = "withdrawn"]
            /\ UNCHANGED <<verdicts, handed, ledger, effects, receipt>>
            => D!Withdraw(o)
         /\ /\ Status(o) = "givenup" /\ Verdict(o) = "unknown"
            /\ ~ handed[o] /\ ~ receipt[o]
            /\ statuses' = [statuses EXCEPT ![o] = "pending"]
            /\ verdicts' = [verdicts EXCEPT ![o] = "open"]
            /\ receipt' = [receipt EXCEPT ![o] = TRUE]
            /\ UNCHANGED <<handed, ledger, effects>>
            => D!Reopen(o)
<1>1. /\ Verdict(o) = "open" /\ handed' = [handed EXCEPT ![o] = TRUE]
      /\ UNCHANGED <<statuses, verdicts, ledger, effects, receipt>>
      => D!HandOff(o)
  BY DEF D!HandOff, statuses, verdicts, Verdict
<1>2. /\ Status(o) = "pending" /\ handed[o]
      /\ statuses' = [statuses EXCEPT ![o] = "delivered"]
      /\ UNCHANGED <<verdicts, handed, ledger, effects, receipt>>
      => D!Deliver(o)
  BY DEF D!Deliver, statuses, verdicts, Verdict
<1>3. /\ handed[o] /\ Verdict(o) = "open" /\ ledger[o] = "confirmed"
      /\ effects' = [effects EXCEPT ![o] = TRUE]
      /\ UNCHANGED <<statuses, verdicts, handed, ledger, receipt>>
      => D!Create(o)
  BY DEF D!Create, statuses, verdicts, Verdict
<1>4. \A v \in TERMINAL_STATES:
      /\ handed[o] /\ Verdict(o) = "open"
      /\ verdicts' = [verdicts EXCEPT ![o] = v]
      /\ UNCHANGED <<statuses, handed, ledger, effects, receipt>>
      => D!Conclude(o)
  BY DEF D!Conclude, D!Conclusions, TERMINAL_STATES, statuses, verdicts,
     Verdict
<1>5. /\ Verdict(o) # "open" /\ ~ effects[o]
      /\ ledger' = [ledger EXCEPT ![o] = "released"]
      /\ UNCHANGED <<statuses, verdicts, handed, effects, receipt>>
      => D!Release(o)
  BY DEF D!Release, statuses, verdicts, Verdict
<1>6. /\ Verdict(o) # "open"
      /\ ledger' = [ledger EXCEPT ![o] = "retained"]
      /\ UNCHANGED <<statuses, verdicts, handed, effects, receipt>>
      => D!Retain(o)
  BY DEF D!Retain, statuses, verdicts, Verdict
<1>7. /\ Status(o) = "pending"
      /\ statuses' = [statuses EXCEPT ![o] = "givenup"]
      /\ verdicts' = [verdicts EXCEPT ![o] =
                        IF @ = "open" THEN "unknown" ELSE @]
      /\ UNCHANGED <<handed, ledger, effects, receipt>>
      => D!GiveUp(o)
  BY DEF D!GiveUp, statuses, verdicts, Verdict
<1>8. /\ Verdict(o) = "open"
      /\ verdicts' = [verdicts EXCEPT ![o] =
                        IF effects[o] THEN "unknown" ELSE "cancelled"]
      /\ \/ UNCHANGED statuses
         \/ /\ Status(o) = "pending"
            /\ \E s \in {"withdrawn", "givenup"}:
                 statuses' = [statuses EXCEPT ![o] = s]
      /\ UNCHANGED <<handed, ledger, effects, receipt>>
      => D!Cancel(o)
  BY DEF D!Cancel, statuses, verdicts, Verdict
<1>9. /\ Verdict(o) # "open" /\ Status(o) = "pending"
      /\ statuses' = [statuses EXCEPT ![o] = "withdrawn"]
      /\ UNCHANGED <<verdicts, handed, ledger, effects, receipt>>
      => D!Withdraw(o)
  BY DEF D!Withdraw, statuses, verdicts, Verdict
<1>10. /\ Status(o) = "givenup" /\ Verdict(o) = "unknown"
       /\ ~ handed[o] /\ ~ receipt[o]
       /\ statuses' = [statuses EXCEPT ![o] = "pending"]
       /\ verdicts' = [verdicts EXCEPT ![o] = "open"]
       /\ receipt' = [receipt EXCEPT ![o] = TRUE]
       /\ UNCHANGED <<handed, ledger, effects>>
       => D!Reopen(o)
  BY DEF D!Reopen, statuses, verdicts, Verdict
<1> QED BY <1>1, <1>2, <1>3, <1>4, <1>5, <1>6, <1>7, <1>8, <1>9, <1>10

(* Giving up the row of an operation that is then concluded.                *)
LEMMA GivingUpMaps ==
  ASSUME TypeOK, NEW o \in Operations,
         row[o].queued, ~ row[o].delivered,
         row' = [row EXCEPT ![o] = [@ EXCEPT !.abandoned = TRUE,
                                             !.claim = "none"]],
         \A p \in Operations \ {o}: op'[p] = op[p],
         \/ Concluded(o) /\ op'[o] = op[o]
         \/ ~ Concluded(o) /\ op'[o].state = "unknown",
         UNCHANGED <<handed, ledger, effects, receipt>>
  PROVE  D!Next \/ UNCHANGED D!vars
<1>1. row \in [Operations -> Rows] /\ row[o] \in Rows
  BY TypeFields
<1>2. /\ \A p \in Operations \ {o}: row'[p] = row[p]
      /\ row'[o] = [row[o] EXCEPT !.abandoned = TRUE, !.claim = "none"]
  BY <1>1
<1>3. row'[o].queued /\ ~ row'[o].delivered /\ row'[o].abandoned
  BY <1>1, <1>2 DEF Rows
<1>4. Concluded(o)'
  BY DEF Concluded, TERMINAL_STATES
<1>5. Status(o)' = "givenup"
  BY <1>3, <1>4 DEF Status
<1>6. \A p \in Operations \ {o}: Status(p)' = Status(p) /\ Verdict(p)' = Verdict(p)
  <2> TAKE p \in Operations \ {o}
  <2>1. Verdict(p)' = Verdict(p) /\ (Concluded(p)' <=> Concluded(p))
    BY SameState
  <2> QED BY <1>2, <2>1, SameRow
<1>7. Verdict(o)' = IF Verdict(o) = "open" THEN "unknown" ELSE Verdict(o)
  <2>1. CASE Concluded(o) /\ op'[o] = op[o]
    <3>1. Verdict(o)' = Verdict(o)
      BY <2>1, SameState
    <3> QED BY <2>1, <3>1, VerdictOf
  <2>2. CASE ~ Concluded(o) /\ op'[o].state = "unknown"
    <3>1. Verdict(o)' = "unknown"
      BY <1>4, <2>2 DEF Verdict
    <3> QED BY <2>2, <3>1, VerdictOf
  <2> QED BY <2>1, <2>2
<1>8. CASE Status(o) = "pending"
  <2>1. statuses' = [statuses EXCEPT ![o] = "givenup"]
    BY <1>5, <1>6, StatusMoves
  <2>2. verdicts' = [verdicts EXCEPT ![o] =
                       IF Verdict(o) = "open" THEN "unknown" ELSE Verdict(o)]
    BY <1>6, <1>7, VerdictMoves
  <2>3. verdicts' = [verdicts EXCEPT ![o] =
                       IF @ = "open" THEN "unknown" ELSE @]
    BY <2>2, ViewOf
  <2>4. D!GiveUp(o)
    BY <1>8, <2>1, <2>3, ViewActions
  <2> QED BY <2>4 DEF D!Next
<1>9. CASE Status(o) # "pending"
  <2>1. Status(o) = "givenup" /\ Concluded(o)
    BY <1>9, StatusOf
  <2>2. Status(o)' = Status(o) /\ Verdict(o)' = Verdict(o)
    BY <1>5, <1>7, <2>1, VerdictOf
  <2> QED BY <1>6, <2>2, Stutters
<1> QED BY <1>8, <1>9

LEMMA CommitUndeliverableMaps ==
  ASSUME IInv, NEW w \in Workers, CommitUndeliverable(w)
  PROVE  D!Next \/ UNCHANGED D!vars
<1> PICK o \in {worker[w].cur.o}: TRUE
  OBVIOUS
<1>1. /\ o \in Operations /\ row[o].queued /\ ~ row[o].delivered
      /\ row' = [row EXCEPT ![o] = [@ EXCEPT !.abandoned = TRUE,
                                             !.claim = "none"]]
      /\ \A p \in Operations \ {o}: op'[p] = op[p]
      /\ \/ Concluded(o) /\ op' = op
         \/ ~ Concluded(o) /\ op'[o].state = "unknown"
  BY CommitMoves
<1>2. UNCHANGED <<handed, ledger, effects, receipt>> /\ TypeOK
  BY DEF CommitUndeliverable, IInv
<1> QED BY <1>1, <1>2, GivingUpMaps

LEMMA BeginMaps ==
  ASSUME IInv, NEW w \in Workers, NEW e, NEW again, NEW next,
         Begins(w, e, again, next), BeginUndeliverable(e, again, w, next)
  PROVE  D!Next \/ UNCHANGED D!vars
<1>1. /\ UNCHANGED <<op, handed, ledger, effects, receipt>> /\ TypeOK
      /\ e.o \in Operations
  BY BeginsWith DEF BeginUndeliverable, IInv
<1>2. CASE row' = row
  <2>1. \A p \in Operations: Status(p)' = Status(p) /\ Verdict(p)' = Verdict(p)
    BY <1>1, <1>2, SameState, SameRow
  <2> QED BY <1>1, <2>1, Stutters
<1>3. CASE row' # row
  <2>1. /\ Owns(w, e) /\ Concluded(e.o)
        /\ row' = [row EXCEPT ![e.o] = [@ EXCEPT !.abandoned = TRUE,
                                                 !.claim = "none"]]
    BY <1>3 DEF BeginUndeliverable
  <2>2. row[e.o].queued /\ ~ row[e.o].delivered
    BY <2>1 DEF Owns
  <2> QED BY <1>1, <2>1, <2>2, GivingUpMaps
<1> QED BY <1>2, <1>3

(* _mark_delivered is Deliver: the owner's row is not given up, and what it *)
(* answers for is durable.                                                  *)
LEMMA MarkDeliveredMaps ==
  ASSUME IInv, NEW w \in Workers, MarkDelivered(w)
  PROVE  D!Next \/ UNCHANGED D!vars
<1> PICK o \in {worker[w].cur.o}: TRUE
  OBVIOUS
<1>1. /\ worker[w].pc = "ok" /\ worker[w].pc \in AtEnvelope
      /\ UNCHANGED <<op, handed, ledger, effects, receipt>>
  BY DEF MarkDelivered, AtEnvelope
<1>2. /\ o \in Operations /\ row \in [Operations -> Rows] /\ row[o] \in Rows
      /\ handed[o]
  BY <1>1, AtItsEnvelope DEF IInv, QueueInv, AnswerDurable
<1>3. \A p \in Operations: Verdict(p)' = Verdict(p)
                           /\ (Concluded(p)' <=> Concluded(p))
  BY <1>1, SameState
<1>4. CASE ~ Owns(w, worker[w].cur)
  <2>1. row' = row
    BY <1>4 DEF MarkDelivered
  <2>2. \A p \in Operations: Status(p)' = Status(p)
    BY <1>3, <2>1, SameRow
  <2> QED BY <1>1, <1>3, <2>2, Stutters
<1>5. CASE Owns(w, worker[w].cur)
  <2>1. row' = [row EXCEPT ![o] = [@ EXCEPT !.delivered = TRUE, !.claim = "none"]]
    BY <1>5 DEF MarkDelivered
  <2>2. /\ \A p \in Operations \ {o}: row'[p] = row[p]
        /\ row'[o] = [row[o] EXCEPT !.delivered = TRUE, !.claim = "none"]
    BY <1>2, <2>1
  <2>3. /\ row[o].queued /\ ~ row[o].delivered /\ row[o].speaker = w
        /\ row'[o].queued /\ row'[o].delivered
    BY <1>2, <1>5, <2>2 DEF Owns, Rows
  <2>4. Drains(w, o)
    BY <1>1 DEF Drains
  <2>5. ~ row[o].abandoned
    BY <1>2, <2>3, <2>4 DEF IInv, QueueInv, ClaimFresh
  <2>6. Status(o) = "pending"
    BY <1>2, <2>3, <2>5, StatusOf
  <2>7. Status(o)' = "delivered"
    BY <2>3 DEF Status
  <2>8. \A p \in Operations \ {o}: Status(p)' = Status(p)
    BY <1>3, <2>2, SameRow
  <2>9. statuses' = [statuses EXCEPT ![o] = "delivered"]
    BY <1>2, <2>7, <2>8, StatusMoves
  <2>10. verdicts' = verdicts
    BY <1>3, ViewStands
  <2>11. D!Deliver(o)
    BY <1>1, <1>2, <2>6, <2>9, <2>10, ViewActions
  <2> QED BY <1>2, <2>11 DEF D!Next
<1> QED BY <1>4, <1>5

(* deliver(): an open operation reaches an executor, or nothing happens.    *)
LEMMA DeliverToMaps ==
  ASSUME IInv, NEW w \in Workers, NEW e \in worker[w].batch,
         NEW landed \in BOOLEAN, NEW answer \in {"ok", "failed"},
         DeliverTo(w, e, landed, answer)
  PROVE  D!Next \/ UNCHANGED D!vars
<1>1. /\ UNCHANGED <<row, op, ledger, effects, receipt>>
      /\ e.o \in Operations /\ handed \in [Operations -> BOOLEAN]
  BY MemoryFields, EnvelopeFields DEF DeliverTo, IInv, TypeOK
<1>2. \A p \in Operations: Status(p)' = Status(p) /\ Verdict(p)' = Verdict(p)
  BY <1>1, SameState, SameRow
<1>3. statuses' = statuses /\ verdicts' = verdicts
  BY <1>2, ViewStands
<1>4. CASE landed
  <2>1. /\ Dispatchable(e.o)
        /\ handed' = [handed EXCEPT ![e.o] = TRUE]
    BY <1>1, <1>4 DEF DeliverTo
  <2>2. ~ Concluded(e.o)
    BY <2>1 DEF Dispatchable, Concluded, TERMINAL_STATES
  <2>3. Verdict(e.o) = "open"
    BY <1>1, <2>2, VerdictOf
  <2>4. D!HandOff(e.o)
    BY <1>1, <1>3, <2>1, <2>3, ViewActions
  <2> QED BY <1>1, <2>4 DEF D!Next
<1>5. CASE ~ landed
  <2>1. handed' = handed
    BY <1>1, <1>5 DEF DeliverTo
  <2> QED BY <1>1, <1>2, <2>1, Stutters
<1> QED BY <1>4, <1>5

(* The running mark does not touch a conclusion.                            *)
LEMMA MarkRunningMaps ==
  ASSUME IInv, NEW w \in Workers, MarkRunning(w)
  PROVE  UNCHANGED D!vars
<1> PICK o \in {worker[w].cur.o}: TRUE
  OBVIOUS
<1>1. /\ worker[w].pc = "marking" /\ worker[w].pc \in AtEnvelope
      /\ op' = Transition(o, worker[w].seen, "running")
      /\ UNCHANGED <<row, handed, ledger, effects, receipt>>
  BY DEF MarkRunning, AtEnvelope
<1>2. /\ o \in Operations /\ op \in [Operations -> OperationRows]
      /\ op[o] \in OperationRows
  BY <1>1, AtItsEnvelope
<1>3. \A p \in Operations: \/ op'[p].state = op[p].state
                           \/ ~ Concluded(p) /\ ~ Concluded(p)'
  <2>1. CASE op[o].version = worker[w].seen
    <3> DEFINE moved == [op[o] EXCEPT !.state = "running", !.version = @ + 1]
    <3>1. op' = [op EXCEPT ![o] = moved]
      BY <1>1, <2>1 DEF Transition
    <3>2. moved.state = "running"
      BY <1>2 DEF OperationRows
    <3> HIDE DEF moved
    <3>3. /\ \A p \in Operations \ {o}: op'[p] = op[p]
          /\ op[o].state = "pending" /\ op'[o].state = "running"
      <4>1. op'[o] = moved /\ \A p \in Operations \ {o}: op'[p] = op[p]
        BY <1>2, <3>1
      <4>2. op[o].state = "pending"
        BY <1>1, <2>1 DEF IInv, QueueInv, PendingWhenSeen
      <4> QED BY <3>2, <4>1, <4>2
    <3>4. ~ Concluded(o) /\ ~ Concluded(o)'
      BY <3>3 DEF Concluded, TERMINAL_STATES
    <3> QED BY <3>3, <3>4
  <2>2. CASE op[o].version # worker[w].seen
    BY <1>1, <2>2 DEF Transition
  <2> QED BY <2>1, <2>2
<1>4. \A p \in Operations: Status(p)' = Status(p) /\ Verdict(p)' = Verdict(p)
  BY <1>1, <1>3, SameState, SameRow
<1> QED BY <1>1, <1>4, Stutters

(* The executor creates only for an operation it was handed, open and       *)
(* funded: who holds the lease was handed it, and the fence closes the      *)
(* lease before the ledger is told.                                         *)
LEMMA CreateResourceMaps ==
  ASSUME IInv, NEW o \in Operations, CreateResource(o) PROVE D!Next
<1>1. /\ lease[o] = "held" /\ ~ Concluded(o)
      /\ effects' = [effects EXCEPT ![o] = TRUE]
      /\ UNCHANGED <<row, op, handed, ledger, receipt>>
  BY DEF CreateResource
<1>2. handed[o] /\ ledger[o] = "confirmed"
  BY <1>1 DEF IInv, BudgetInv, ExecutedIsHanded, FencedFirst
<1>3. \A p \in Operations: Status(p)' = Status(p) /\ Verdict(p)' = Verdict(p)
  BY <1>1, SameState, SameRow
<1>4. statuses' = statuses /\ verdicts' = verdicts
  BY <1>3, ViewStands
<1>5. D!Create(o)
  BY <1>1, <1>2, <1>4, VerdictOf, ViewActions
<1> QED BY <1>5 DEF D!Next

(* Settlement concludes an operation that was handed over; its row is not a *)
(* split commit, so the conclusion does not show in the queue.              *)
LEMMA SettleMaps ==
  ASSUME IInv, NEW o \in Operations, Settle(o)
  PROVE  D!Next \/ UNCHANGED D!vars
<1>1. /\ lease[o] = "held" /\ UNCHANGED <<row, handed, ledger, effects, receipt>>
      /\ TypeOK
  BY DEF Settle, IInv
<1>2. PICK v \in TERMINAL_STATES:
         op' = IF Concluded(o) THEN op
               ELSE [op EXCEPT ![o].state = v, ![o].version = @ + 1]
  BY DEF Settle
<1>3. CASE Concluded(o)
  <2>1. op' = op
    BY <1>2, <1>3
  <2>2. \A p \in Operations: Status(p)' = Status(p) /\ Verdict(p)' = Verdict(p)
    BY <1>1, <2>1, SameState, SameRow
  <2> QED BY <1>1, <2>2, Stutters
<1>4. CASE ~ Concluded(o)
  <2> DEFINE moved == [op[o] EXCEPT !.state = v, !.version = @ + 1]
  <2>1. op' = [op EXCEPT ![o] = moved]
    BY <1>2, <1>4
  <2>2. op \in [Operations -> OperationRows] /\ op[o] \in OperationRows
    BY <1>1, TypeFields
  <2>3. moved.state = v
    BY <2>2 DEF OperationRows
  <2> HIDE DEF moved
  <2>4. op'[o].state = v /\ \A p \in Operations \ {o}: op'[p] = op[p]
    BY <2>1, <2>2, <2>3
  <2>5. Concluded(o)' /\ Verdict(o)' = v
    BY <2>4 DEF Concluded, Verdict
  <2>6. handed[o] /\ ~ row[o].abandoned
    BY <1>1, <1>4 DEF IInv, QueueInv, BudgetInv, ExecutedIsHanded,
       SplitCommitUntouched
  <2>7. Status(o)' = Status(o)
    BY <1>1, <2>6 DEF Status
  <2>8. \A p \in Operations \ {o}: Status(p)' = Status(p) /\ Verdict(p)' = Verdict(p)
    BY <1>1, <2>4, SameState, SameRow
  <2>9. verdicts' = [verdicts EXCEPT ![o] = v]
    BY <2>5, <2>8, VerdictMoves
  <2>10. statuses' = statuses
    BY <2>7, <2>8, ViewStands
  <2>11. D!Conclude(o)
    BY <1>1, <1>4, <2>6, <2>9, <2>10, VerdictOf, ViewActions
  <2> QED BY <2>11 DEF D!Next
<1> QED BY <1>3, <1>4

(* What cancel_before_dispatch is to the queue entry and the conclusion.    *)
LEMMA CancelBeforeDispatchMaps ==
  ASSUME IInv, NEW o \in Operations, CancelBeforeDispatch(o)
  PROVE  D!Next \/ UNCHANGED D!vars
<1>1. /\ UNCHANGED <<handed, ledger, effects, receipt>> /\ TypeOK
      /\ row \in [Operations -> Rows] /\ op \in [Operations -> OperationRows]
      /\ row[o] \in Rows /\ op[o] \in OperationRows
  BY TypeFields DEF CancelBeforeDispatch, IInv
<1>2. /\ \A p \in Operations \ {o}: op'[p] = op[p]
      /\ Concluded(o) => op' = op
      /\ ~ Concluded(o) =>
            op'[o].state = IF effects[o] THEN "unknown" ELSE "cancelled"
  <2> DEFINE s == IF ~ effects[o] THEN "cancelled" ELSE "unknown"
             moved == [op[o] EXCEPT !.version = @ + 1, !.state = s]
  <2>1. op' = IF Concluded(o) THEN op ELSE [op EXCEPT ![o] = moved]
    BY DEF CancelBeforeDispatch
  <2>2. moved.state = s
    BY <1>1 DEF OperationRows
  <2>3. s = IF effects[o] THEN "unknown" ELSE "cancelled"
    OBVIOUS
  <2> HIDE DEF moved, s
  <2> QED BY <1>1, <2>1, <2>2, <2>3
<1>3. /\ \A p \in Operations \ {o}: row'[p] = row[p]
      /\ \/ row'[o] = row[o]
         \/ /\ DefinitelyPending(o)
            /\ row'[o] = [row[o] EXCEPT !.queued = FALSE]
  BY <1>1, CancelMoves
<1>4. \A p \in Operations \ {o}: Status(p)' = Status(p) /\ Verdict(p)' = Verdict(p)
  BY <1>2, <1>3, SameState, SameRow
<1>5. Concluded(o)'
  BY <1>1, CancelMoves
<1>6. /\ Concluded(o) => Verdict(o)' = Verdict(o)
      /\ ~ Concluded(o) =>
            Verdict(o)' = IF effects[o] THEN "unknown" ELSE "cancelled"
  BY <1>2, <1>5, SameState DEF Verdict
<1>7. \/ Status(o)' = Status(o)
      \/ Status(o) = "pending" /\ Status(o)' = "withdrawn"
      \/ /\ Status(o) = "pending" /\ Status(o)' = "givenup"
         /\ ~ Concluded(o)
  <2>1. CASE row'[o] = row[o]
    <3>1. CASE Concluded(o)
      BY <1>5, <2>1, <3>1, SameRow
    <3>2. CASE ~ Concluded(o)
      BY <1>5, <2>1, <3>2 DEF Status
    <3> QED BY <3>1, <3>2
  <2>2. CASE /\ DefinitelyPending(o)
             /\ row'[o] = [row[o] EXCEPT !.queued = FALSE]
    <3>1. ~ row'[o].queued
      BY <1>1, <2>2 DEF Rows
    <3>2. Status(o)' = "withdrawn"
      BY <3>1 DEF Status
    <3>3. Status(o) = "withdrawn" \/ Status(o) = "pending"
      BY <2>2, StatusOf DEF DefinitelyPending
    <3> QED BY <3>2, <3>3
  <2> QED BY <1>3, <2>1, <2>2
<1>8. CASE ~ Concluded(o)
  <2>1. verdicts' = [verdicts EXCEPT ![o] =
                       IF effects[o] THEN "unknown" ELSE "cancelled"]
    BY <1>4, <1>6, <1>8, VerdictMoves
  <2>2. \/ UNCHANGED statuses
        \/ /\ Status(o) = "pending"
           /\ \E s \in {"withdrawn", "givenup"}:
                statuses' = [statuses EXCEPT ![o] = s]
    BY <1>4, <1>7, StatusMoves, ViewStands
  <2>3. D!Cancel(o)
    BY <1>1, <1>8, <2>1, <2>2, VerdictOf, ViewActions
  <2> QED BY <2>3 DEF D!Next
<1>9. CASE Concluded(o) /\ Status(o)' = Status(o)
  <2>1. \A p \in Operations: Status(p)' = Status(p) /\ Verdict(p)' = Verdict(p)
    BY <1>4, <1>6, <1>9
  <2> QED BY <1>1, <2>1, Stutters
<1>10. CASE Concluded(o) /\ Status(o) = "pending" /\ Status(o)' = "withdrawn"
  <2>1. statuses' = [statuses EXCEPT ![o] = "withdrawn"]
    BY <1>4, <1>10, StatusMoves
  <2>2. verdicts' = verdicts
    BY <1>4, <1>6, <1>10, ViewStands
  <2>3. D!Withdraw(o)
    BY <1>1, <1>10, <2>1, <2>2, VerdictOf, ViewActions
  <2> QED BY <2>3 DEF D!Next
<1> QED BY <1>7, <1>8, <1>9, <1>10

(* The ledger hears of a conclusion, and "release" only of clean ones.      *)
LEMMA TellLedgerMaps ==
  ASSUME IInv, NEW o \in Operations, TellLedger(o) PROVE D!Next
<1>1. /\ canceller[o] \in {"release", "retain"}
      /\ ledger' = [ledger EXCEPT ![o] = IF canceller[o] = "release"
                                         THEN "released" ELSE "retained"]
      /\ UNCHANGED <<row, op, handed, effects, receipt>>
  BY DEF TellLedger
<1>2. /\ Concluded(o)
      /\ canceller[o] = "release" => ~ effects[o]
  BY <1>1 DEF IInv, BudgetInv, FencedFirst, ReleaseClean
<1>3. \A p \in Operations: Status(p)' = Status(p) /\ Verdict(p)' = Verdict(p)
  BY <1>1, SameState, SameRow
<1>4. statuses' = statuses /\ verdicts' = verdicts /\ Verdict(o) # "open"
  BY <1>2, <1>3, ViewStands, VerdictOf
<1>5. CASE canceller[o] = "release"
  <2>1. ledger' = [ledger EXCEPT ![o] = "released"] /\ ~ effects[o]
    BY <1>1, <1>2, <1>5
  <2>2. D!Release(o)
    BY <1>1, <1>4, <2>1, ViewActions
  <2> QED BY <2>2 DEF D!Next
<1>6. CASE canceller[o] = "retain"
  <2>1. ledger' = [ledger EXCEPT ![o] = "retained"]
    BY <1>1, <1>6
  <2>2. D!Retain(o)
    BY <1>1, <1>4, <2>1, ViewActions
  <2> QED BY <2>2 DEF D!Next
<1> QED BY <1>1, <1>5, <1>6

LEMMA RecoverUndispatchedMaps ==
  ASSUME IInv, NEW o \in Operations, RecoverUndispatched(o) PROVE D!Next
<1>1. /\ ~ receipt[o] /\ op[o].state = "unknown" /\ ~ handed[o]
      /\ row[o].queued /\ ~ row[o].delivered /\ row[o].abandoned
      /\ receipt' = [receipt EXCEPT ![o] = TRUE]
      /\ UNCHANGED <<handed, ledger, effects>>
  BY DEF RecoverUndispatched, UndispatchedEligible
<1>2. Concluded(o)
  BY <1>1 DEF Concluded, TERMINAL_STATES
<1>3. Status(o) = "givenup" /\ Verdict(o) = "unknown"
  BY <1>1, <1>2, StatusOf, VerdictOf
<1>4. op'[o].state = "pending" /\ ~ row'[o].abandoned
      /\ row'[o].queued /\ ~ row'[o].delivered
  BY <1>1, ReopenMoves
<1>5. ~ Concluded(o)'
  BY <1>4 DEF Concluded, TERMINAL_STATES
<1>6. Status(o)' = "pending" /\ Verdict(o)' = "open"
  BY <1>4, <1>5 DEF Status, Verdict
<1>7. \A p \in Operations \ {o}: row'[p] = row[p] /\ op'[p] = op[p]
  BY ReopenMoves
<1>8. \A p \in Operations \ {o}: Status(p)' = Status(p) /\ Verdict(p)' = Verdict(p)
  BY <1>7, SameState, SameRow
<1>9. /\ statuses' = [statuses EXCEPT ![o] = "pending"]
      /\ verdicts' = [verdicts EXCEPT ![o] = "open"]
  BY <1>6, <1>8, StatusMoves, VerdictMoves
<1>10. D!Reopen(o)
  BY <1>1, <1>3, <1>9, ViewActions
<1> QED BY <1>10 DEF D!Next

(* What neither a row's flags nor an operation's state shows.               *)
LEMMA UnseenMaps ==
  ASSUME IInv,
         UNCHANGED <<handed, ledger, effects, receipt>>,
         \A o \in Operations: /\ row'[o].queued = row[o].queued
                              /\ row'[o].delivered = row[o].delivered
                              /\ row'[o].abandoned = row[o].abandoned
                              /\ op'[o].state = op[o].state
  PROVE  UNCHANGED D!vars
<1>1. \A o \in Operations: Status(o)' = Status(o) /\ Verdict(o)' = Verdict(o)
  BY SameState, SameRow
<1> QED BY <1>1, Stutters

LEMMA WorkersUnseen ==
  ASSUME IInv, NEW w \in Workers,
         Claim(w) \/ RecoverAbandoned(w) \/ Crash(w) \/ ReadForRunning(w)
         \/ RecordFailure(w)
  PROVE  UNCHANGED D!vars
<1>1. row \in [Operations -> Rows] /\ \A o \in Operations: row[o] \in Rows
  BY TypeFields DEF IInv
<1>2. UNCHANGED <<op, handed, ledger, effects, receipt>>
  BY DEF Claim, RecoverAbandoned, Crash, ReadForRunning, RecordFailure
<1>3. \A o \in Operations: /\ row'[o].queued = row[o].queued
                           /\ row'[o].delivered = row[o].delivered
                           /\ row'[o].abandoned = row[o].abandoned
  <2>1. CASE Claim(w)
    <3>1. PICK batch \in SUBSET Operations:
            row' = [p \in Operations |->
                      IF p \in batch
                      THEN [row[p] EXCEPT !.claim = "held", !.attempts = @ + 1,
                                          !.speaker = w]
                      ELSE row[p]]
      BY <2>1 DEF Claim
    <3> QED BY <1>1, <3>1 DEF Rows
  <2>2. CASE RecoverAbandoned(w)
    <3>1. PICK batch \in SUBSET Operations:
            row' = [p \in Operations |->
                      IF p \in batch THEN [row[p] EXCEPT !.speaker = w]
                      ELSE row[p]]
      BY <2>2 DEF RecoverAbandoned
    <3> QED BY <1>1, <3>1 DEF Rows
  <2>3. CASE Crash(w) \/ ReadForRunning(w)
    BY <2>3 DEF Crash, ReadForRunning
  <2>4. CASE RecordFailure(w)
    <3>1. \/ row' = row
          \/ row' = [row EXCEPT ![worker[w].cur.o] = [@ EXCEPT !.claim = "none"]]
      BY <2>4 DEF RecordFailure
    <3>2. ASSUME NEW o \in Operations
          PROVE  row'[o] = row[o] \/ row'[o] = [row[o] EXCEPT !.claim = "none"]
      BY <1>1, <3>1
    <3> QED BY <1>1, <3>2 DEF Rows
  <2> QED BY <2>1, <2>2, <2>3, <2>4
<1> QED BY <1>2, <1>3, UnseenMaps

LEMMA OthersUnseen ==
  ASSUME IInv, NEW o \in Operations,
         \/ Lapse(o) \/ Acquire(o) \/ ReleaseLease(o) \/ RequestCancellation(o)
         \/ RecordReservation(o) \/ CancellerCrash(o)
  PROVE  UNCHANGED D!vars
<1>1. /\ row \in [Operations -> Rows] /\ \A p \in Operations: row[p] \in Rows
      /\ op \in [Operations -> OperationRows]
      /\ \A p \in Operations: op[p] \in OperationRows
  BY TypeFields DEF IInv
<1>2. UNCHANGED <<handed, ledger, effects, receipt>>
  BY DEF Lapse, Acquire, ReleaseLease, RequestCancellation, RecordReservation,
     CancellerCrash
<1>3. row' = row \/ row' = [row EXCEPT ![o] = [@ EXCEPT !.claim = "lapsed"]]
  BY DEF Lapse, Acquire, ReleaseLease, RequestCancellation, RecordReservation,
     CancellerCrash
<1>4. op' = op \/ op' = [op EXCEPT ![o] = [@ EXCEPT !.cancel = TRUE]]
  BY DEF Lapse, Acquire, ReleaseLease, RequestCancellation, RecordReservation,
     CancellerCrash
<1>5. ASSUME NEW p \in Operations
      PROVE  /\ row'[p] = row[p] \/ row'[p] = [row[p] EXCEPT !.claim = "lapsed"]
             /\ op'[p] = op[p] \/ op'[p] = [op[p] EXCEPT !.cancel = TRUE]
  BY <1>1, <1>3, <1>4
<1>6. \A p \in Operations: /\ row'[p].queued = row[p].queued
                           /\ row'[p].delivered = row[p].delivered
                           /\ row'[p].abandoned = row[p].abandoned
                           /\ op'[p].state = op[p].state
  BY <1>1, <1>5 DEF Rows, OperationRows
<1> QED BY <1>2, <1>6, UnseenMaps

LEMMA StepMaps ==
  ASSUME IInv, [Next]_vars PROVE D!Next \/ UNCHANGED D!vars
<1>1. ASSUME NEW w \in Workers, Claim(w) \/ RecoverAbandoned(w) \/ Crash(w)
      PROVE  UNCHANGED D!vars
  BY <1>1, WorkersUnseen
<1>2. ASSUME NEW w \in Workers, WorkerStep(w)
      PROVE  D!Next \/ UNCHANGED D!vars
  <2>1. ASSUME NEW e \in worker[w].batch, NEW landed \in BOOLEAN,
               NEW answer \in {"ok", "failed"}, DeliverTo(w, e, landed, answer)
        PROVE  D!Next \/ UNCHANGED D!vars
    BY <2>1, DeliverToMaps
  <2>2. ASSUME NEW e \in worker[w].batch, SettleStranded(w, e)
        PROVE  D!Next \/ UNCHANGED D!vars
    BY <2>2, BeginMaps DEF SettleStranded, Begins
  <2>3. CASE MarkDelivered(w)
    BY <2>3, MarkDeliveredMaps
  <2>4. CASE ReadForRunning(w) \/ RecordFailure(w)
    BY <2>4, WorkersUnseen
  <2>5. CASE MarkRunning(w)
    BY <2>5, MarkRunningMaps
  <2>6. CASE Exhaust(w)
    BY <2>6, BeginMaps DEF Exhaust, Begins
  <2>7. CASE CommitUndeliverable(w)
    BY <2>7, CommitUndeliverableMaps
  <2> QED BY <1>2, <2>1, <2>2, <2>3, <2>4, <2>5, <2>6, <2>7 DEF WorkerStep
<1>3. ASSUME NEW o \in Operations,
             \/ Lapse(o) \/ Acquire(o) \/ ReleaseLease(o)
             \/ RequestCancellation(o) \/ CancellerCrash(o)
      PROVE  UNCHANGED D!vars
  BY <1>3, OthersUnseen
<1>4. ASSUME NEW o \in Operations,
             \/ CreateResource(o) \/ Settle(o) \/ RecoverUndispatched(o)
      PROVE  D!Next \/ UNCHANGED D!vars
  BY <1>4, CreateResourceMaps, SettleMaps, RecoverUndispatchedMaps
<1>5. ASSUME NEW o \in Operations, CancellerStep(o)
      PROVE  D!Next \/ UNCHANGED D!vars
  BY <1>5, CancelBeforeDispatchMaps, TellLedgerMaps, OthersUnseen
     DEF CancellerStep
<1>6. CASE UNCHANGED vars
  BY <1>6, UnseenMaps DEF vars
<1> QED BY <1>1, <1>2, <1>3, <1>4, <1>5, <1>6 DEF Next

(* The queue with its claims, crashes and races implements Delivery: what   *)
(* outbox.py and cancel_before_dispatch promise as single facts happens in  *)
(* single steps, for any number of workers, operations and attempts.        *)
THEOREM Refinement == Spec => ImplementsDelivery
<1>1. Init => D!Init
  <2> SUFFICES ASSUME Init PROVE D!Init
    OBVIOUS
  <2>1. \A o \in Operations: /\ row[o].queued /\ ~ row[o].delivered
                             /\ op[o].state = "pending"
    BY DEF Init
  <2>2. \A o \in Operations: ~ Concluded(o)
    BY <2>1 DEF Concluded, TERMINAL_STATES
  <2>3. \A o \in Operations: Status(o) = "pending" /\ Verdict(o) = "open"
    BY <2>1, <2>2, StatusOf, VerdictOf
  <2>4. /\ statuses = [o \in Operations |-> "pending"]
        /\ verdicts = [o \in Operations |-> "open"]
    BY <2>3 DEF statuses, verdicts
  <2> QED BY <2>4 DEF Init, D!Init, statuses, verdicts, Verdict
<1>2. IInv /\ [Next]_vars => [D!Next]_(D!vars)
  BY StepMaps
<1> QED BY <1>1, <1>2, InvariantIInv, PTL DEF Spec, D!Spec, ImplementsDelivery

=============================================================================
