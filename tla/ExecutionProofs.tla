--------------------------- MODULE ExecutionProofs ---------------------------
(***************************************************************************)
(* Theorems about Execution, for any operations, plans, executors, sweepers *)
(* and limits: types, the lease cap, what is owed to the ledger, the        *)
(* dispatch lock, the finality of outcomes, and that Execution implements   *)
(* PlanRun.                                                                 *)
(*                                                                          *)
(* The argument has two halves.  A "move" says what one step may do to one  *)
(* executor, one sweeper, one lease, one call, one conclusion; each action  *)
(* is shown to make only such moves.  The invariants are then shown to      *)
(* survive any moves, with no further look at the actions.                  *)
(***************************************************************************)
EXTENDS Execution, TLAPS, FiniteSetTheorems, WellFoundedInduction

(* The conjuncts of TypeOK.                                                 *)
ExecutorTyped == executor \in [Executors -> ExecutorStates]
LeaseTyped == lease \in [Operations -> LeaseRows]
CallTyped == call \in [Operations -> [Steps -> CallRows]]
SweeperTyped == sweeper \in [Sweepers -> SweeperStates]
OperationTyped == op \in [Operations -> OperationRows]
SentTyped == sent \in [Operations -> Nat]
ProviderTyped ==
    provider \in [Operations ->
                     [Steps -> {"none", "inflight", "performed", "refused"}]]
FaultsTyped == faults \in 0 .. MAX_FAULTS

(* Where an executor or a recovery pass is.  A pass watches the step it is  *)
(* at and the steps it still has to see to.                                 *)
Unsent == {"recorded", "calling"}
InHand == {"recorded", "calling", "waiting"}
Dispatching == InHand \cup {"answered"}
Claiming == {"claimed", "asking", "answered"}
Orphans == {"orphan asking", "orphan answered"}
AtStep(r) == sweeper[r].pc \notin {"idle", "claimed"}
Watched(r, s) == s \in sweeper[r].todo \/ (AtStep(r) /\ s = sweeper[r].s)
Awaiting(r) ==
    \/ sweeper[r].pc = "asking"
    \/ sweeper[r].pc = "answered" /\ sweeper[r].answer = "pending"
Truth(answer, state) ==
    /\ answer = "succeeded" => state = "performed"
    /\ answer \in {"failed", "absent"} => state \in {"none", "refused"}

(* The dispatch lock: whoever is inside a step holds the lease, and an      *)
(* orphan recovery is alone on its operation.                               *)
LockHeldByHolder ==
    \A e \in Executors, o \in Operations: InStep(e, o) => lease[o].holder = e
OrphanLockExclusive ==
    \A r \in Sweepers, o \in Operations: Orphaning(r, o) =>
        /\ \A e \in Executors: ~ InStep(e, o)
        /\ \A q \in Sweepers: Orphaning(q, o) => q = r

(* What is being dispatched, and what the holder of a recovery claim        *)
(* watches, is still undecided; an answer that gives an attempt back had    *)
(* one reserved; no watched call is in an executor's hands.                 *)
DispatchedIsIntended ==
    \A e \in Executors: executor[e].pc \in Dispatching =>
        call[executor[e].o][executor[e].s].stage = "intended"
ClaimedIsIntended ==
    \A r \in Sweepers, s \in Steps:
        (/\ sweeper[r].pc \in Claiming
         /\ Holds(r, sweeper[r].o)
         /\ Watched(r, s)) => call[sweeper[r].o][s].stage = "intended"
AskedOnce ==
    \A r \in Sweepers: AtStep(r) => sweeper[r].s \notin sweeper[r].todo
AttemptReserved ==
    \A r \in Sweepers:
        /\ Awaiting(r) /\ Holds(r, sweeper[r].o) =>
              call[sweeper[r].o][sweeper[r].s].tries > 0
        /\ sweeper[r].pc = "orphan answered" => sweeper[r].answer # "pending"
        /\ sweeper[r].pc \in {"answered", "orphan answered"} =>
              sweeper[r].answer # "none"
WatchedNotInHand ==
    \A r \in Sweepers, s \in Steps:
        sweeper[r].pc # "idle" /\ Watched(r, s) =>
          /\ call[sweeper[r].o][s].stage # "none"
          /\ \A e \in Executors:
               executor[e].pc \in InHand /\ executor[e].o = sweeper[r].o
               => executor[e].s # s

(* Outcomes and answers are true of the provider.                           *)
OpenUndecided ==
    \A o \in Operations, s \in Steps:
        /\ call[o][s].stage \in {"none", "intended"} =>
              call[o][s].outcome = "none"
        /\ call[o][s].stage = "none" => provider[o][s] = "none"
OutcomesTrue ==
    \A o \in Operations, s \in Steps: Truth(call[o][s].outcome, provider[o][s])
HookAnswersTrue ==
    \A e \in Executors:
        /\ executor[e].pc \in {"recorded", "calling"} =>
              provider[executor[e].o][executor[e].s] = "none"
        /\ executor[e].pc = "answered" =>
              /\ Truth(executor[e].answer,
                     provider[executor[e].o][executor[e].s])
              /\ executor[e].answer \in
                    {"succeeded", "failed", "absent", "unknown"}
SweepAnswersTrue ==
    \A r \in Sweepers:
        sweeper[r].pc \in {"answered", "orphan answered"} =>
            Truth(sweeper[r].answer, provider[sweeper[r].o][sweeper[r].s])
AnswerRecorded ==
    \A e \in Executors: executor[e].pc \in {"observed", "closing"} =>
        /\ call[executor[e].o][executor[e].s].stage \notin {"none", "intended"}
        /\ call[executor[e].o][executor[e].s].outcome = executor[e].answer

(* The plan is sent in order, step by step, and only while nothing but      *)
(* "unknown" was concluded.                                                 *)
OrderedCalls ==
    \A o \in Operations, s \in Steps, t \in Steps:
        t < s /\ call[o][s].stage # "none" => call[o][t].outcome = "succeeded"
SentPrefix ==
    \A o \in Operations:
        /\ sent[o] \in 0 .. STEPS
        /\ \A s \in Steps: provider[o][s] # "none" <=> s <= sent[o]
OpenWhileDispatching ==
    \A e \in Executors: executor[e].pc \in Unsent =>
        op[executor[e].o].state \notin {"succeeded", "failed", "cancelled"}

IInv ==
    /\ ExecutorTyped /\ LeaseTyped /\ CallTyped /\ SweeperTyped
    /\ ProviderTyped /\ SentTyped /\ OperationTyped /\ FaultsTyped
    /\ Placed
    /\ LockHeldByHolder /\ OrphanLockExclusive
    /\ DispatchedIsIntended /\ ClaimedIsIntended
    /\ AskedOnce /\ AttemptReserved /\ WatchedNotInHand
    /\ OpenUndecided /\ OutcomesTrue /\ HookAnswersTrue /\ SweepAnswersTrue
    /\ AnswerRecorded /\ OrderedCalls /\ SentPrefix /\ OpenWhileDispatching
    /\ WithinCapacity

(* Moves: an executor keeps still, rests, goes on inside its step, or       *)
(* starts one with the dispatch lock and the lease in hand.                 *)
ExecutorMove(x) ==
    \/ executor'[x] = executor[x]
    \/ executor'[x].pc = "idle"
    \/ executor'[x].pc = "running" /\ executor'[x].o \in Operations
    \/ /\ executor[x].pc \notin {"idle", "running"}
       /\ executor'[x].o = executor[x].o
       /\ executor'[x].s = executor[x].s
       /\ executor'[x].pc \in Unsent => executor[x].pc \in Unsent
       /\ executor'[x].pc \in InHand => executor[x].pc \in InHand
       /\ executor'[x].pc \in Dispatching => executor[x].pc \in Dispatching
    \/ /\ executor'[x].o \in Operations
       /\ executor'[x].s \in Steps
       /\ DispatchFree(executor'[x].o)
       /\ Holds(x, executor'[x].o)
       /\ \A y \in Executors \ {x}: executor'[y] = executor[y]
       /\ UNCHANGED <<lease, sweeper>>
       /\ executor'[x].pc \in Dispatching =>
            /\ call[executor'[x].o][executor'[x].s].stage = "none"
            /\ call'[executor'[x].o][executor'[x].s].stage = "intended"
            /\ op'[executor'[x].o].state \notin TERMINAL_STATES

(* An executor past its provider call carries the recorded outcome.         *)
RecordMove(x) ==
    \/ executor'[x] = executor[x]
    \/ executor'[x].pc \in {"observed", "closing"} =>
          \/ /\ executor[x].pc \in {"observed", "closing"}
             /\ executor'[x].o = executor[x].o
             /\ executor'[x].s = executor[x].s
             /\ executor'[x].answer = executor[x].answer
          \/ /\ call'[executor'[x].o][executor'[x].s].stage \notin
                    {"none", "intended"}
             /\ call'[executor'[x].o][executor'[x].s].outcome =
                    executor'[x].answer

(* A recovery pass keeps still, rests, goes on with fewer calls to see to,  *)
(* or starts with the dispatch lock.                                        *)
SweeperMove(r) ==
    \/ sweeper'[r] = sweeper[r]
    \/ sweeper'[r].pc = "idle"
    \/ /\ sweeper[r].pc \in Claiming <=> sweeper'[r].pc \in Claiming
       /\ sweeper[r].pc \in Orphans <=> sweeper'[r].pc \in Orphans
       /\ sweeper[r].pc # "idle"
       /\ sweeper'[r].o = sweeper[r].o
       /\ \A s \in Steps: Watched(r, s)' => Watched(r, s)
       /\ AtStep(r)' => /\ sweeper'[r].s \in Steps
                        /\ sweeper'[r].s \notin sweeper'[r].todo
    \/ /\ sweeper'[r].o \in Operations
       /\ DispatchFree(sweeper'[r].o)
       /\ \A q \in Sweepers \ {r}: sweeper'[q] = sweeper[q]
       /\ \A s \in Steps: Watched(r, s)' =>
            call[sweeper'[r].o][s].stage = "intended"
       /\ \A s \in Steps:
            call'[sweeper'[r].o][s].stage = call[sweeper'[r].o][s].stage
       /\ AtStep(r)' => /\ sweeper'[r].s \in Steps
                        /\ sweeper'[r].s \notin sweeper'[r].todo
       /\ executor' = executor

(* What a pass learns is true, and costs an attempt.                        *)
AnswerMove(r) ==
    \/ sweeper'[r] = sweeper[r]
    \/ /\ Awaiting(r)' =>
             \/ /\ Awaiting(r)
                /\ sweeper'[r].o = sweeper[r].o
                /\ sweeper'[r].s = sweeper[r].s
             \/ call'[sweeper'[r].o][sweeper'[r].s].tries > 0
       /\ sweeper'[r].pc = "orphan answered" => sweeper'[r].answer # "pending"
       /\ sweeper'[r].pc \in {"answered", "orphan answered"} =>
             /\ sweeper'[r].answer # "none"
             /\ Truth(sweeper'[r].answer,
                    provider'[sweeper'[r].o][sweeper'[r].s])

(* A lease stays with its holder or changes hands outside every step.       *)
LeaseMove(o) ==
    \/ lease'[o].holder = lease[o].holder /\ (lease'[o].live => lease[o].live)
    \/ /\ \A x \in Executors: ~ InStep(x, o)'
       /\ lease'[o].holder \in Executors =>
             /\ Cardinality(LiveElsewhere(o)) < MAX_CONCURRENT
             /\ \A p \in Operations \ {o}: lease'[p] = lease[p]
       /\ \A r \in Sweepers: lease'[o].holder = r =>
             /\ sweeper'[r].o = o
             /\ \A s \in Steps: Watched(r, s)' => call[o][s].stage = "intended"
             /\ sweeper'[r].pc = "claimed"
             /\ call' = call

(* A call is untouched, intended in its turn, or decided once and truly.    *)
CallMove(o, s) ==
    \/ /\ call'[o][s].stage = call[o][s].stage
       /\ call'[o][s].outcome = call[o][s].outcome
       /\ \/ (call[o][s].tries > 0 => call'[o][s].tries > 0)
          \/ \E q \in Sweepers: /\ Holds(q, o) /\ sweeper'[q].pc = "claimed"
    \/ /\ call[o][s].stage = "none"
       /\ call'[o][s].stage = "intended"
       /\ call'[o][s].outcome = "none"
       /\ \A t \in 1 .. s - 1: call[o][t].outcome = "succeeded"
    \/ /\ \A x \in Executors:
             executor'[x].pc \in Dispatching /\ executor'[x].o = o
             => executor'[x].s # s
       /\ \A r \in Sweepers:
             ~ (sweeper'[r].pc \in Claiming /\ sweeper'[r].o = o
                /\ Holds(r, o)' /\ Watched(r, s)')
       /\ call[o][s].stage = "intended"
       /\ call'[o][s].stage \notin {"none", "intended"}
       /\ Truth(call'[o][s].outcome, provider[o][s])
       /\ provider' = provider

(* A request goes out once, while nobody watches it, and is then answered.  *)
ProviderMove(o, s) ==
    \/ provider'[o][s] = provider[o][s]
    \/ /\ provider[o][s] = "none" /\ provider'[o][s] = "inflight"
       /\ call[o][s].stage = "intended"
       /\ \A r \in Sweepers: sweeper[r].pc # "idle" /\ Watched(r, s) =>
              sweeper[r].o # o
       /\ UNCHANGED <<call, sweeper>>
    \/ /\ provider[o][s] = "inflight"
       /\ provider'[o][s] \in {"performed", "refused"}
       /\ UNCHANGED <<call, sweeper>>

(* A conclusion is reached once, truly, and by nobody who holds the lease   *)
(* afterwards unless it is "unknown".                                       *)
VerdictMove(o) ==
    \/ op'[o].state = op[o].state
    \/ /\ op[o].state = "running"
       /\ UNCHANGED <<provider, sent>>
       /\ \A p \in Operations \ {o}: op'[p].state = op[p].state
       /\ \/ op'[o].state = "unknown"
          \/ /\ lease'[o].holder = Nobody
             /\ \/ /\ op'[o].state = "succeeded"
                   /\ \A s \in Steps: provider[o][s] = "performed"
                \/ /\ op'[o].state = "failed"
                   /\ \A s \in Steps: provider[o][s] # "inflight"
                \/ /\ op'[o].state = "cancelled"
                   /\ \A s \in Steps: provider[o][s] \in {"none", "refused"}

ExecutorMoves == \A x \in Executors: ExecutorMove(x)
RecordMoves == \A x \in Executors: RecordMove(x)
SweeperMoves == \A x \in Sweepers: SweeperMove(x)
AnswerMoves == \A x \in Sweepers: AnswerMove(x)
LeaseMoves == \A x \in Operations: LeaseMove(x)
CallMoves == \A x \in Operations, y \in Steps: CallMove(x, y)
RequestMoves == \A x \in Operations, y \in Steps: ProviderMove(x, y)
VerdictMoves == \A x \in Operations: VerdictMove(x)

-----------------------------------------------------------------------------
(* Helpers: records, leases, calls and verdicts.                            *)

(* A set of numbers that is not empty has a least one.                      *)
LEMMA LeastOfNat ==
  ASSUME NEW S \in SUBSET Nat, S # {}
  PROVE  \E n \in S : \A m \in S : n <= m
<1>1. IsWellFoundedOn(OpToRel(<, Nat), Nat)
  BY NatLessThanWellFounded
<1>2. PICK n \in S : \A m \in S : ~ (<<m, n>> \in OpToRel(<, Nat))
  BY <1>1, WFMin
<1>3. ASSUME NEW m \in S PROVE n <= m
  <2>1. m \in Nat /\ n \in Nat
    OBVIOUS
  <2>2. ~ (m < n)
    BY <1>2, <2>1 DEF OpToRel
  <2> QED BY <2>1, <2>2
<1> QED BY <1>3

(* First picks a member.                                                    *)
LEMMA FirstIn ==
  ASSUME NEW S \in SUBSET Steps, S # {}
  PROVE  First(S) \in S
<1>1. S \in SUBSET Nat
   BY ExecutionAssumption DEF Steps
<1>4. PICK n \in S : \A m \in S : n <= m
   BY <1>1, LeastOfNat
<1> QED BY <1>4 DEF First

(* What an assignment to one call changes.                                  *)
LEMMA CallUpdate ==
  ASSUME CallTyped, NEW o \in Operations, NEW s \in Steps, NEW c,
         call' = [call EXCEPT ![o][s] = c]
  PROVE  /\ call'[o][s] = c
         /\ \A p \in Operations, t \in Steps: <<p, t>> # <<o, s>> =>
                call'[p][t] = call[p][t]
         /\ c \in CallRows => CallTyped'
BY DEF CallTyped

(* A closed or unheld lease has no holder.                                  *)
LEMMA LeaseGiven ==
  ASSUME LeaseTyped, NEW o \in Operations,
         \/ lease' = [lease EXCEPT ![o] = Closed(o)]
         \/ lease' = [lease EXCEPT ![o] = Unheld(o)]
  PROVE  /\ lease'[o].holder = Nobody /\ ~ lease'[o].live
         /\ \A p \in Operations \ {o} : lease'[p] = lease[p]
         /\ LeaseTyped'
<1>1. lease[o] \in LeaseRows
   BY DEF LeaseTyped
<1>2. CASE lease' = [lease EXCEPT ![o] = Closed(o)]
   <2>1. Closed(o) \in LeaseRows /\ Closed(o).holder = Nobody
             /\ ~ Closed(o).live
     BY <1>1 DEF Closed, LeaseRows
   <2> QED BY <1>2, <2>1 DEF LeaseTyped
<1>3. CASE lease' = [lease EXCEPT ![o] = Unheld(o)]
   <2>1. Unheld(o) \in LeaseRows /\ Unheld(o).holder = Nobody
             /\ ~ Unheld(o).live
     BY <1>1 DEF Unheld, LeaseRows
   <2> QED BY <1>3, <2>1 DEF LeaseTyped
<1> QED BY <1>2, <1>3

(* A reservation keeps stage and outcome and leaves an attempt to give      *)
(* back.                                                                    *)
LEMMA ReserveType ==
  ASSUME NEW c \in CallRows
  PROVE  Reserve(c).stage = c.stage /\ Reserve(c).outcome = c.outcome
             /\ Reserve(c).tries > 0 /\ Reserve(c) \in CallRows
<1>1. CASE c.tries >= MAX_RECONCILE
     BY <1>1, ExecutionAssumption DEF Reserve, CallRows
<1>2. CASE ~ (c.tries >= MAX_RECONCILE)
  <2>1. Reserve(c) = [stage |-> c.stage, outcome |-> c.outcome,
            tries |-> c.tries + 1, due |-> FALSE]
     BY <1>2 DEF CallRows, Reserve
  <2>2. c.tries + 1 \in 0 .. MAX_RECONCILE /\ c.tries + 1 > 0
     BY <1>2, ExecutionAssumption DEF CallRows
  <2>3. QED
     BY <2>1, <2>2 DEF CallRows
<1> QED BY <1>1, <1>2

(* A reconciled row is a row.                                               *)
LEMMA ReconciledType ==
  ASSUME NEW c \in CallRows, NEW a \in Answers \ {"none"},
         a = "pending" => c.tries > 0
  PROVE  Reconciled(c, a) \in CallRows
<1>1. CASE a = "pending"
  <2>1. c.tries - 1 \in 0 .. MAX_RECONCILE
    BY <1>1, ExecutionAssumption DEF CallRows
  <2> QED BY <1>1, <2>1 DEF Reconciled, CallRows
<1>2. CASE a # "pending"
  BY <1>2 DEF Reconciled, CallRows, Answers
<1> QED BY <1>1, <1>2

(* A verdict is a state.                                                    *)
LEMMA VerdictType ==
  ASSUME NEW o \in Operations, NEW plan, NEW cleaned, OperationTyped
  PROVE  Settled(o,
             Verdict(o, plan, cleaned)) \in {"running"} \cup TERMINAL_STATES
BY DEF Settled, Verdict, TERMINAL_STATES, OperationTyped, OperationRows

(* A decided row is a row.                                                  *)
LEMMA DecidedType ==
  ASSUME OperationTyped, NEW o \in Operations,
         NEW state \in {"running"} \cup TERMINAL_STATES,
         NEW cleanup \in BOOLEAN
  PROVE  Decided(o, state, cleanup) \in OperationRows
<1>1. op[o] \in OperationRows
  BY DEF OperationTyped
<1> QED BY <1>1 DEF OperationRows, Decided

(* A released plan never reached the provider, or was refused.              *)
LEMMA ReleasedPlan ==
  ASSUME NEW plan \in [Steps -> CallRows], NEW made, Released(plan),
         \A s \in Steps: Truth(plan[s].outcome, made[s])
             /\ (plan[s].stage = "none" => made[s] = "none")
  PROVE  \A s \in Steps: made[s] \in {"none", "refused"}
<1> SUFFICES ASSUME NEW s \in Steps PROVE made[s] \in {"none", "refused"}
  OBVIOUS
<1>1. CASE plan[s].stage = "none"
  BY <1>1
<1>2. CASE plan[s].stage # "none"
  <2>1. Disposition(plan[s]) = "release"
    BY <1>2 DEF Released, Recorded
  <2>2. plan[s].outcome \in {"failed", "absent"}
    BY <2>1 DEF Disposition, CallRows
  <2> QED BY <2>2 DEF Truth
<1> QED BY <1>1, <1>2

(* A complete plan was performed.                                           *)
LEMMA CompletePlan ==
  ASSUME NEW plan \in [Steps -> CallRows], NEW made, Recorded(plan) = Steps,
         AllSucceeded(plan), \A s \in Steps: Truth(plan[s].outcome, made[s])
  PROVE  \A s \in Steps: made[s] = "performed"
BY DEF AllSucceeded, Truth

(* A verdict that is written is the first one, and true.                    *)
LEMMA SettledVerdict ==
  ASSUME NEW o \in Operations, NEW plan \in [Steps -> CallRows], NEW cleaned,
         NEW made, op[o].state \in {"running"} \cup TERMINAL_STATES,
         op[o].state # Settled(o, Verdict(o, plan, cleaned)),
         \A s \in Steps: Truth(plan[s].outcome, made[s])
             /\ (plan[s].stage = "none" => made[s] = "none")
  PROVE  /\ op[o].state = "running"
         /\ \/ Settled(o, Verdict(o, plan, cleaned)) = "unknown"
            \/ /\ Settled(o, Verdict(o, plan, cleaned)) = "succeeded"
               /\ \A s \in Steps: made[s] = "performed"
            \/ /\ Settled(o, Verdict(o, plan, cleaned)) \in {"failed",
                      "cancelled"}
               /\ \A s \in Steps: made[s] \in {"none", "refused"}
<1>1. op[o].state = "running"
          /\ Settled(o, Verdict(o, plan, cleaned)) = Verdict(o, plan, cleaned)
  BY DEF Settled, Concluded
<1>2. Released(plan) => \A s \in Steps: made[s] \in {"none", "refused"}
  BY ReleasedPlan
<1>3. Progress(plan) = "complete" => \A s \in Steps: made[s] = "performed"
  <2>1. Progress(plan) = "complete" =>
            Recorded(plan) = Steps /\ AllSucceeded(plan)
    BY DEF Progress
  <2> QED BY <2>1, CompletePlan
<1> QED BY <1>1, <1>2, <1>3 DEF Verdict

(* Settling with Verdict is a proper conclusion.                            *)
LEMMA VerdictDecided ==
  ASSUME OperationTyped, NEW o \in Operations,
         NEW plan \in [Steps -> CallRows], NEW cleaned, NEW owed,
         \A s \in Steps: Truth(plan[s].outcome, provider[o][s])
             /\ (plan[s].stage = "none" => provider[o][s] = "none"),
         op' = [op EXCEPT ![o] = Decided(o, Settled(o, Verdict(o, plan,
             cleaned)), owed)],
         lease'[o].holder = Nobody, UNCHANGED <<provider, sent>>
  PROVE  VerdictMoves
<1> DEFINE v == Settled(o, Verdict(o, plan, cleaned))
<1>1. op'[o].state = v /\ \A p \in Operations \ {o} : op'[p] = op[p]
  <2>1. Decided(o, v, owed).state = v
    BY DEF Decided, OperationTyped, OperationRows
  <2> HIDE DEF v
  <2> QED BY <2>1 DEF OperationTyped, v
<1>2. op[o].state \in {"running"} \cup TERMINAL_STATES
  BY DEF OperationTyped, OperationRows
<1>3. op[o].state # v => /\ op[o].state = "running"
         /\ \/ v = "unknown"
            \/ v = "succeeded" /\ \A s \in Steps: provider[o][s] = "performed"
            \/ v \in {"failed", "cancelled"}
                   /\ \A s \in Steps: provider[o][s] \in {"none", "refused"}
  BY <1>2, SettledVerdict
<1> HIDE DEF v
<1> QED BY <1>1, <1>3 DEF VerdictMoves, VerdictMove


-----------------------------------------------------------------------------
(* Which actions write a variable.                                          *)

Preparing == {"no hook", "not asked", "cleaned", "not cleaned", "refused"}

ExecutorSteps ==
    \/ UNCHANGED executor
    \/ \E e \in Executors, o \in Operations: Acquire(e, o)
    \/ \E e \in Executors, s \in Steps: RecordIntent(e, s)
    \/ \E e \in Executors, s \in Steps: RepeatStep(e, s)
    \/ \E e \in Executors: CheckCancellation(e)
    \/ \E e \in Executors: CallProvider(e)
    \/ \E e \in Executors: HookReturns(e)
    \/ \E e \in Executors: RecordAnswer(e)
    \/ \E e \in Executors: PollCancellation(e)
    \/ \E e \in Executors: FinishStep(e)
    \/ \E e \in Executors: ReleaseLease(e)
    \/ \E e \in Executors: Stop(e)

SweeperSteps ==
    \/ UNCHANGED sweeper
    \/ \E r \in Sweepers, o \in Operations: TakeOver(r, o)
    \/ \E r \in Sweepers, o \in Operations, s \in Steps: BeginOrphan(r, o, s)
    \/ \E r \in Sweepers: ReserveObservation(r)
    \/ \E r \in Sweepers: Observe(r)
    \/ \E r \in Sweepers: RecordObservation(r)
    \/ \E r \in Sweepers, p \in Preparing: ConcludeRecovery(r, p)
    \/ \E r \in Sweepers: RecordOrphan(r)
    \/ \E r \in Sweepers: SweeperCrash(r)

LeaseSteps ==
    \/ UNCHANGED lease
    \/ \E e \in Executors, o \in Operations: Acquire(e, o)
    \/ \E o \in Operations: Lapse(o)
    \/ \E e \in Executors: ReleaseLease(e)
    \/ \E e \in Executors: CheckCancellation(e)
    \/ \E e \in Executors: FinishStep(e)
    \/ \E o \in Operations: SettleUnheld(o)
    \/ \E r \in Sweepers, o \in Operations: TakeOver(r, o)
    \/ \E r \in Sweepers, p \in Preparing: ConcludeRecovery(r, p)
    \/ \E r \in Sweepers: RecordOrphan(r)

CallSteps ==
    \/ UNCHANGED call
    \/ \E e \in Executors, s \in Steps: RecordIntent(e, s)
    \/ \E e \in Executors: CheckCancellation(e)
    \/ \E e \in Executors: RecordAnswer(e)
    \/ \E r \in Sweepers, o \in Operations, s \in Steps: BeginOrphan(r, o, s)
    \/ \E r \in Sweepers: ReserveObservation(r)
    \/ \E r \in Sweepers: RecordObservation(r)
    \/ \E r \in Sweepers: RecordOrphan(r)
    \/ \E o \in Operations, s \in Steps: BecomeDue(o, s)

ProviderSteps ==
    \/ UNCHANGED provider
    \/ \E e \in Executors: CallProvider(e)
    \/ \E o \in Operations, s \in Steps: Arrive(o, s)

SentSteps ==
    \/ UNCHANGED sent
    \/ \E e \in Executors: CallProvider(e)

OpSteps ==
    \/ UNCHANGED op
    \/ \E e \in Executors: CheckCancellation(e)
    \/ \E e \in Executors: RecordAnswer(e)
    \/ \E e \in Executors: FinishStep(e)
    \/ \E o \in Operations: RequestCancellation(o)
    \/ \E o \in Operations: SettleUnheld(o)
    \/ \E o \in Operations: GiveUp(o)
    \/ \E r \in Sweepers, p \in Preparing: ConcludeRecovery(r, p)
    \/ \E r \in Sweepers: RecordOrphan(r)

FaultsSteps ==
    \/ UNCHANGED faults
    \/ \E o \in Operations: Lapse(o)
    \/ \E r \in Sweepers: SweeperCrash(r)

(* The writers of executor.                                                 *)
LEMMA ExecutorWriters == ASSUME [Next]_vars PROVE ExecutorSteps
<1>1. ASSUME NEW e \in Executors, ExecutorActs(e) PROVE ExecutorSteps
      BY <1>1 DEF ExecutorSteps, ExecutorActs, ExecutorStep
<1>2. ASSUME NEW r \in Sweepers, SweeperActs(r) PROVE ExecutorSteps
      BY <1>2 DEF ExecutorSteps, Preparing, SweeperActs, SweeperStep,
         TakeOver, BeginOrphan, ReserveObservation, Observe,
         RecordObservation, ConcludeRecovery, RecordOrphan, SweeperCrash
<1>3. ASSUME NEW o \in Operations, HappensTo(o) PROVE ExecutorSteps
      BY <1>3 DEF ExecutorSteps, HappensTo, Lapse, RequestCancellation,
         SettleUnheld, GiveUp, Arrive, BecomeDue
<1>4. CASE UNCHANGED vars
      BY <1>4 DEF vars, ExecutorSteps
<1> QED BY <1>1, <1>2, <1>3, <1>4 DEF Next

(* The writers of sweeper.                                                  *)
LEMMA SweeperWriters == ASSUME [Next]_vars PROVE SweeperSteps
<1>1. ASSUME NEW e \in Executors, ExecutorActs(e) PROVE SweeperSteps
      BY <1>1 DEF SweeperSteps, ExecutorActs, ExecutorStep, Acquire,
         RecordIntent, RepeatStep, CheckCancellation, CallProvider,
         HookReturns, RecordAnswer, PollCancellation, FinishStep,
         ReleaseLease, Stop
<1>2. ASSUME NEW r \in Sweepers, SweeperActs(r) PROVE SweeperSteps
      BY <1>2 DEF SweeperSteps, Preparing, SweeperActs, SweeperStep
<1>3. ASSUME NEW o \in Operations, HappensTo(o) PROVE SweeperSteps
      BY <1>3 DEF SweeperSteps, HappensTo, Lapse, RequestCancellation,
         SettleUnheld, GiveUp, Arrive, BecomeDue
<1>4. CASE UNCHANGED vars
      BY <1>4 DEF vars, SweeperSteps
<1> QED BY <1>1, <1>2, <1>3, <1>4 DEF Next

(* The writers of lease.                                                    *)
LEMMA LeaseWriters == ASSUME [Next]_vars PROVE LeaseSteps
<1>1. ASSUME NEW e \in Executors, ExecutorActs(e) PROVE LeaseSteps
      BY <1>1 DEF LeaseSteps, ExecutorActs, ExecutorStep, RecordIntent,
         RepeatStep, CallProvider, HookReturns, RecordAnswer,
         PollCancellation, Stop
<1>2. ASSUME NEW r \in Sweepers, SweeperActs(r) PROVE LeaseSteps
      BY <1>2 DEF LeaseSteps, Preparing, SweeperActs, SweeperStep,
         BeginOrphan, ReserveObservation, Observe, RecordObservation,
         SweeperCrash
<1>3. ASSUME NEW o \in Operations, HappensTo(o) PROVE LeaseSteps
      BY <1>3 DEF LeaseSteps, HappensTo, RequestCancellation, GiveUp, Arrive,
         BecomeDue
<1>4. CASE UNCHANGED vars
      BY <1>4 DEF vars, LeaseSteps
<1> QED BY <1>1, <1>2, <1>3, <1>4 DEF Next

(* The writers of call.                                                     *)
LEMMA CallWriters == ASSUME [Next]_vars PROVE CallSteps
<1>1. ASSUME NEW e \in Executors, ExecutorActs(e) PROVE CallSteps
      BY <1>1 DEF CallSteps, ExecutorActs, ExecutorStep, Acquire, RepeatStep,
         CallProvider, HookReturns, PollCancellation, FinishStep,
         ReleaseLease, Stop
<1>2. ASSUME NEW r \in Sweepers, SweeperActs(r) PROVE CallSteps
      BY <1>2 DEF CallSteps, Preparing, SweeperActs, SweeperStep, TakeOver,
         Observe, ConcludeRecovery, SweeperCrash
<1>3. ASSUME NEW o \in Operations, HappensTo(o) PROVE CallSteps
      BY <1>3 DEF CallSteps, HappensTo, Lapse, RequestCancellation,
         SettleUnheld, GiveUp, Arrive
<1>4. CASE UNCHANGED vars
      BY <1>4 DEF vars, CallSteps
<1> QED BY <1>1, <1>2, <1>3, <1>4 DEF Next

(* The writers of provider.                                                 *)
LEMMA ProviderWriters == ASSUME [Next]_vars PROVE ProviderSteps
<1>1. ASSUME NEW e \in Executors, ExecutorActs(e) PROVE ProviderSteps
      BY <1>1 DEF ProviderSteps, ExecutorActs, ExecutorStep, Acquire,
         RecordIntent, RepeatStep, CheckCancellation, HookReturns,
         RecordAnswer, PollCancellation, FinishStep, ReleaseLease, Stop
<1>2. ASSUME NEW r \in Sweepers, SweeperActs(r) PROVE ProviderSteps
      BY <1>2 DEF ProviderSteps, Preparing, SweeperActs, SweeperStep,
         TakeOver, BeginOrphan, ReserveObservation, Observe,
         RecordObservation, ConcludeRecovery, RecordOrphan, SweeperCrash
<1>3. ASSUME NEW o \in Operations, HappensTo(o) PROVE ProviderSteps
      BY <1>3 DEF ProviderSteps, HappensTo, Lapse, RequestCancellation,
         SettleUnheld, GiveUp, BecomeDue
<1>4. CASE UNCHANGED vars
      BY <1>4 DEF vars, ProviderSteps
<1> QED BY <1>1, <1>2, <1>3, <1>4 DEF Next

(* The writers of sent.                                                     *)
LEMMA SentWriters == ASSUME [Next]_vars PROVE SentSteps
<1>1. ASSUME NEW e \in Executors, ExecutorActs(e) PROVE SentSteps
      BY <1>1 DEF SentSteps, ExecutorActs, ExecutorStep, Acquire,
         RecordIntent, RepeatStep, CheckCancellation, HookReturns,
         RecordAnswer, PollCancellation, FinishStep, ReleaseLease, Stop
<1>2. ASSUME NEW r \in Sweepers, SweeperActs(r) PROVE SentSteps
      BY <1>2 DEF SentSteps, Preparing, SweeperActs, SweeperStep, TakeOver,
         BeginOrphan, ReserveObservation, Observe, RecordObservation,
         ConcludeRecovery, RecordOrphan, SweeperCrash
<1>3. ASSUME NEW o \in Operations, HappensTo(o) PROVE SentSteps
      BY <1>3 DEF SentSteps, HappensTo, Lapse, RequestCancellation,
         SettleUnheld, GiveUp, Arrive, BecomeDue
<1>4. CASE UNCHANGED vars
      BY <1>4 DEF vars, SentSteps
<1> QED BY <1>1, <1>2, <1>3, <1>4 DEF Next

(* The writers of op.                                                       *)
LEMMA OpWriters == ASSUME [Next]_vars PROVE OpSteps
<1>1. ASSUME NEW e \in Executors, ExecutorActs(e) PROVE OpSteps
      BY <1>1 DEF OpSteps, ExecutorActs, ExecutorStep, Acquire, RecordIntent,
         RepeatStep, CallProvider, HookReturns, PollCancellation,
         ReleaseLease, Stop
<1>2. ASSUME NEW r \in Sweepers, SweeperActs(r) PROVE OpSteps
      BY <1>2 DEF OpSteps, Preparing, SweeperActs, SweeperStep, TakeOver,
         BeginOrphan, ReserveObservation, Observe, RecordObservation,
         SweeperCrash
<1>3. ASSUME NEW o \in Operations, HappensTo(o) PROVE OpSteps
      BY <1>3 DEF OpSteps, HappensTo, Lapse, Arrive, BecomeDue
<1>4. CASE UNCHANGED vars
      BY <1>4 DEF vars, OpSteps
<1> QED BY <1>1, <1>2, <1>3, <1>4 DEF Next

(* The writers of faults.                                                   *)
LEMMA FaultsWriters == ASSUME [Next]_vars PROVE FaultsSteps
<1>1. ASSUME NEW e \in Executors, ExecutorActs(e) PROVE FaultsSteps
      BY <1>1 DEF FaultsSteps, ExecutorActs, ExecutorStep, Acquire,
         RecordIntent, RepeatStep, CheckCancellation, CallProvider,
         HookReturns, RecordAnswer, PollCancellation, FinishStep,
         ReleaseLease, Stop
<1>2. ASSUME NEW r \in Sweepers, SweeperActs(r) PROVE FaultsSteps
      BY <1>2 DEF FaultsSteps, Preparing, SweeperActs, SweeperStep, TakeOver,
         BeginOrphan, ReserveObservation, Observe, RecordObservation,
         ConcludeRecovery, RecordOrphan
<1>3. ASSUME NEW o \in Operations, HappensTo(o) PROVE FaultsSteps
      BY <1>3 DEF FaultsSteps, HappensTo, RequestCancellation, SettleUnheld,
         GiveUp, Arrive, BecomeDue
<1>4. CASE UNCHANGED vars
      BY <1>4 DEF vars, FaultsSteps
<1> QED BY <1>1, <1>2, <1>3, <1>4 DEF Next


-----------------------------------------------------------------------------
(* Types.                                                                   *)

(* The type of executor is kept.                                            *)
LEMMA ExecutorTypedStep ==
  ASSUME ExecutorTyped, ProviderTyped, Placed, [Next]_vars
  PROVE  ExecutorTyped'
<1>1. ASSUME NEW e \in Executors, NEW o \in Operations, Acquire(e, o)
      PROVE  ExecutorTyped'
      BY <1>1 DEF ExecutorTyped, ExecutorStates, Acquire, Running, Idle
<1>2. ASSUME NEW e \in Executors, NEW s \in Steps, RecordIntent(e, s)
      PROVE  ExecutorTyped'
      BY <1>2 DEF ExecutorTyped, ExecutorStates, Answers, RecordIntent
<1>3. ASSUME NEW e \in Executors, NEW s \in Steps, RepeatStep(e, s)
      PROVE  ExecutorTyped'
      BY <1>3 DEF ExecutorTyped, ExecutorStates, Answers, RepeatStep
<1>4. ASSUME NEW e \in Executors, CheckCancellation(e) PROVE ExecutorTyped'
      BY <1>4 DEF ExecutorTyped, ExecutorStates, Answers, CheckCancellation,
         Leave, Running
<1>5. ASSUME NEW e \in Executors, CallProvider(e) PROVE ExecutorTyped'
      BY <1>5 DEF ExecutorTyped, ExecutorStates, CallProvider
<1>6. ASSUME NEW e \in Executors, HookReturns(e) PROVE ExecutorTyped'
  <2> USE <1>6
  <2>1. PICK a \in HookAnswers(provider[executor[e].o][executor[e].s]):
               executor' = [executor EXCEPT ![e] =
                              [@ EXCEPT !.pc = "answered", !.answer = a]]
     BY DEF HookReturns
  <2>2. provider[executor[e].o][executor[e].s] \in
           {"none", "inflight", "performed", "refused"}
     BY DEF ProviderTyped, Placed, HookReturns, InPlan
  <2>3. a \in Answers
     BY <2>1, <2>2 DEF HookAnswers, Answers
  <2> QED BY <2>1, <2>3 DEF ExecutorTyped, ExecutorStates
<1>7. ASSUME NEW e \in Executors, RecordAnswer(e) PROVE ExecutorTyped'
      BY <1>7 DEF ExecutorTyped, ExecutorStates, Answers, RecordAnswer, Leave,
         Running
<1>8. ASSUME NEW e \in Executors, PollCancellation(e) PROVE ExecutorTyped'
      BY <1>8 DEF ExecutorTyped, ExecutorStates, Answers, PollCancellation,
         Leave, Running
<1>9. ASSUME NEW e \in Executors, FinishStep(e) PROVE ExecutorTyped'
      BY <1>9 DEF ExecutorTyped, ExecutorStates, Answers, FinishStep, Leave,
         Running
<1>10. ASSUME NEW e \in Executors, ReleaseLease(e) PROVE ExecutorTyped'
      BY <1>10 DEF ExecutorTyped, ExecutorStates, Answers, ReleaseLease, Idle
<1>11. ASSUME NEW e \in Executors, Stop(e) PROVE ExecutorTyped'
      BY <1>11 DEF ExecutorTyped, ExecutorStates, Answers, Stop, Idle
<1>12. CASE UNCHANGED executor
      BY <1>12 DEF ExecutorTyped
<1> QED
      BY <1>1, <1>2, <1>3, <1>4, <1>5, <1>6, <1>7, <1>8, <1>9, <1>10, <1>11,
         <1>12, ExecutorWriters
         DEF ExecutorSteps

(* The type of sweeper is kept.                                             *)
LEMMA SweeperTypedStep ==
  ASSUME LeaseTyped, SweeperTyped, ProviderTyped, Placed, [Next]_vars
  PROVE  SweeperTyped'
<1>1. ASSUME NEW r \in Sweepers, NEW o \in Operations, TakeOver(r, o)
      PROVE  SweeperTyped'
      BY <1>1 DEF SweeperTyped, SweeperStates, Answers, TakeOver, Uncertain
<1>2. ASSUME NEW r \in Sweepers, NEW o \in Operations, NEW s \in Steps,
             BeginOrphan(r, o, s)
      PROVE  SweeperTyped'
  <2> USE <1>2
  <2>1. lease[o].holder \in Executors \cup Sweepers \cup {Nobody}
     BY DEF LeaseTyped, LeaseRows
  <2> QED BY <2>1 DEF BeginOrphan, SweeperTyped, SweeperStates, Answers
<1>3. ASSUME NEW r \in Sweepers, ReserveObservation(r) PROVE SweeperTyped'
  <2> USE <1>3
  <2> DEFINE s == First(sweeper[r].todo)
             todo == sweeper[r].todo \ {s}
  <2>2. sweeper[r].pc = "claimed" /\ sweeper[r] \in SweeperStates
     BY DEF ReserveObservation, SweeperTyped
  <2>3. s \in Steps /\ todo \in SUBSET Steps
     <3>1. sweeper[r].todo \in SUBSET Steps /\ sweeper[r].todo # {}
       BY DEF ReserveObservation, SweeperTyped, SweeperStates
     <3> QED BY <3>1, FirstIn
  <2>4. CASE sweeper' = [sweeper EXCEPT ![r] = Resting]
     BY <2>4 DEF SweeperTyped, SweeperStates, Resting, Answers
  <2> HIDE DEF s, todo
  <2>5. CASE sweeper' = [sweeper EXCEPT ![r].todo = todo]
     BY <2>2, <2>3, <2>5 DEF SweeperTyped, SweeperStates
  <2>6. ASSUME NEW pc \in {"answered", "asking"},
               sweeper' = [sweeper EXCEPT ![r] = [@ EXCEPT !.todo = todo,
                   !.s = s, !.answer = "unknown", !.pc = pc]]
        PROVE  SweeperTyped'
    <3> DEFINE next == [sweeper[r] EXCEPT !.todo = todo, !.s = s,
            !.answer = "unknown", !.pc = pc]
    <3>1. next \in SweeperStates
      BY <2>2, <2>3 DEF SweeperStates, Answers
    <3>2. sweeper' = [sweeper EXCEPT ![r] = next]
      BY <2>6
    <3> HIDE DEF next
    <3> QED BY <3>1, <3>2 DEF SweeperTyped
  <2> QED BY <2>4, <2>5, <2>6 DEF ReserveObservation, s, todo
<1>4. ASSUME NEW r \in Sweepers, Observe(r) PROVE SweeperTyped'
  <2> USE <1>4
  <2>1. PICK a \in ObserverAnswers(provider[sweeper[r].o][sweeper[r].s]):
               sweeper' = [sweeper EXCEPT ![r] = [@ EXCEPT !.answer = a,
                 !.pc = IF sweeper[r].pc = "asking" THEN "answered"
                     ELSE "orphan answered"]]
     BY DEF Observe
  <2>2. a \in Answers
     <3>1. provider[sweeper[r].o][sweeper[r].s] \in {"none", "inflight",
               "performed", "refused"}
        BY DEF ProviderTyped, Placed, Observe
     <3> QED BY <2>1, <3>1 DEF ObserverAnswers, Answers
  <2> DEFINE next == [sweeper[r] EXCEPT !.answer = a,
          !.pc = IF sweeper[r].pc = "asking" THEN "answered"
          ELSE "orphan answered"]
  <2>3. sweeper[r] \in SweeperStates
     BY DEF SweeperTyped
  <2>4. next \in SweeperStates
     BY <2>2, <2>3 DEF SweeperStates
  <2>5. sweeper' = [sweeper EXCEPT ![r] = next]
     BY <2>1
  <2> HIDE DEF next
  <2> QED BY <2>4, <2>5 DEF SweeperTyped
<1>5. ASSUME NEW r \in Sweepers, RecordObservation(r) PROVE SweeperTyped'
  <2> USE <1>5
  <2>4. CASE sweeper' = [sweeper EXCEPT ![r] = Resting]
     BY <2>4 DEF SweeperTyped, SweeperStates, Resting, Answers
  <2>5. CASE sweeper' = [sweeper EXCEPT ![r].pc = "claimed"]
     BY <2>5 DEF SweeperTyped, SweeperStates
  <2> QED BY <2>4, <2>5 DEF RecordObservation
<1>6. ASSUME NEW r \in Sweepers, NEW p, ConcludeRecovery(r, p)
      PROVE  SweeperTyped'
      BY <1>6 DEF SweeperTyped, SweeperStates, Answers, ConcludeRecovery,
         Resting
<1>7. ASSUME NEW r \in Sweepers, RecordOrphan(r) PROVE SweeperTyped'
      BY <1>7 DEF SweeperTyped, SweeperStates, Answers, RecordOrphan, Resting
<1>8. ASSUME NEW r \in Sweepers, SweeperCrash(r) PROVE SweeperTyped'
      BY <1>8 DEF SweeperTyped, SweeperStates, Answers, SweeperCrash, Resting
<1>9. CASE UNCHANGED sweeper
      BY <1>9 DEF SweeperTyped
<1> QED
      BY <1>1, <1>2, <1>3, <1>4, <1>5, <1>6, <1>7, <1>8, <1>9, SweeperWriters
         DEF SweeperSteps

(* The type of lease is kept.                                               *)
LEMMA LeaseTypedStep ==
  ASSUME LeaseTyped, Placed, [Next]_vars
  PROVE  LeaseTyped'
<1>1. ASSUME NEW e \in Executors, NEW o \in Operations, Acquire(e, o)
      PROVE  LeaseTyped'
  <2> USE <1>1
  <2>1. lease[o] \in LeaseRows
    BY DEF LeaseTyped
  <2>2. lease[o].attempts + 1 \in 0 .. MAX_ATTEMPTS
    BY <2>1, ExecutionAssumption DEF Acquire, Acquirable, LeaseRows
  <2>3. Granted(e, o) \in LeaseRows
    BY <2>1, <2>2 DEF Granted, LeaseRows
  <2> QED BY <2>3 DEF Acquire, LeaseTyped
<1>2. ASSUME NEW o \in Operations, Lapse(o) PROVE LeaseTyped'
      BY <1>2 DEF LeaseTyped, LeaseRows, Lapse
<1>3. ASSUME NEW e \in Executors, ReleaseLease(e) PROVE LeaseTyped'
      BY <1>3 DEF LeaseTyped, LeaseRows, ReleaseLease, Unheld
<1>4. ASSUME NEW e \in Executors, CheckCancellation(e) PROVE LeaseTyped'
  <2> USE <1>4
  <2>0. executor[e].o \in Operations
    BY DEF CheckCancellation, FinishStep, InPlan, Placed
  <2>1. UNCHANGED lease
            \/ lease' = [lease EXCEPT ![executor[e].o] = Closed(executor[e].o)]
    BY DEF CheckCancellation, FinishStep, SettleCancelled
  <2> QED BY <2>0, <2>1, LeaseGiven DEF LeaseTyped
<1>5. ASSUME NEW e \in Executors, FinishStep(e) PROVE LeaseTyped'
  <2> USE <1>5
  <2>0. executor[e].o \in Operations
    BY DEF CheckCancellation, FinishStep, InPlan, Placed
  <2>1. UNCHANGED lease
            \/ lease' = [lease EXCEPT ![executor[e].o] = Closed(executor[e].o)]
    BY DEF CheckCancellation, FinishStep, SettleCancelled
  <2> QED BY <2>0, <2>1, LeaseGiven DEF LeaseTyped
<1>6. ASSUME NEW o \in Operations, SettleUnheld(o) PROVE LeaseTyped'
      BY <1>6 DEF LeaseTyped, LeaseRows, SettleUnheld, Closed
<1>7. ASSUME NEW r \in Sweepers, NEW o \in Operations, TakeOver(r, o)
      PROVE  LeaseTyped'
      BY <1>7 DEF LeaseTyped, LeaseRows, TakeOver
<1>8. ASSUME NEW r \in Sweepers, NEW p, ConcludeRecovery(r, p) PROVE LeaseTyped'
  <2> USE <1>8
  <2> DEFINE o == sweeper[r].o
  <2>0. o \in Operations
    BY DEF ConcludeRecovery, RecordOrphan, Placed
  <2>1. UNCHANGED lease \/ lease' = [lease EXCEPT ![o] = Closed(o)]
            \/ lease' = [lease EXCEPT ![o] = Unheld(o)]
    BY DEF ConcludeRecovery, RecordOrphan
  <2> QED BY <2>0, <2>1, LeaseGiven DEF LeaseTyped
<1>9. ASSUME NEW r \in Sweepers, RecordOrphan(r) PROVE LeaseTyped'
  <2> USE <1>9
  <2> DEFINE o == sweeper[r].o
  <2>0. o \in Operations
    BY DEF ConcludeRecovery, RecordOrphan, Placed
  <2>1. UNCHANGED lease \/ lease' = [lease EXCEPT ![o] = Closed(o)]
            \/ lease' = [lease EXCEPT ![o] = Unheld(o)]
    BY DEF ConcludeRecovery, RecordOrphan
  <2> QED BY <2>0, <2>1, LeaseGiven DEF LeaseTyped
<1>10. CASE UNCHANGED lease
      BY <1>10 DEF LeaseTyped
<1> QED
      BY <1>1, <1>2, <1>3, <1>4, <1>5, <1>6, <1>7, <1>8, <1>9, <1>10,
         LeaseWriters
         DEF LeaseSteps

(* The type of call is kept.                                                *)
LEMMA CallTypedStep ==
  ASSUME ExecutorTyped, CallTyped, SweeperTyped, ProviderTyped, Placed,
         AttemptReserved, HookAnswersTrue, [Next]_vars
  PROVE  CallTyped'
<1>1. ASSUME NEW e \in Executors, NEW s \in Steps, RecordIntent(e, s)
      PROVE  CallTyped'
  <2> USE <1>1
  <2>1. executor[e].o \in Operations
            /\ call' = [call EXCEPT ![executor[e].o][s] = Intent]
    BY DEF RecordIntent, InPlan, Placed
  <2>2. Intent \in CallRows
    BY ExecutionAssumption DEF Intent, CallRows
  <2> QED BY <2>1, <2>2, CallUpdate
<1>2. ASSUME NEW e \in Executors, CheckCancellation(e) PROVE CallTyped'
  <2> USE <1>2
  <2>0. PICK o \in Operations, s \in Steps: o = executor[e].o
            /\ s = executor[e].s
    BY DEF CheckCancellation, InPlan, Placed
  <2>1. call[o] \in [Steps -> CallRows]
    BY DEF CallTyped
  <2>2. [call[o][s] EXCEPT !.stage = "observed",
            !.outcome = "absent"] \in CallRows
    BY <2>1 DEF CallRows
  <2>3. [call[o] EXCEPT ![s] = [@ EXCEPT !.stage = "observed",
            !.outcome = "absent"]] \in [Steps -> CallRows]
    BY <2>1, <2>2
  <2> QED BY <2>0, <2>3 DEF CheckCancellation, CallTyped
<1>3. ASSUME NEW e \in Executors, RecordAnswer(e) PROVE CallTyped'
  <2> USE <1>3
  <2>0. PICK o \in Operations, s \in Steps: o = executor[e].o
            /\ s = executor[e].s
    BY DEF RecordAnswer, InPlan, Placed
  <2>1. call[o][s] \in CallRows
    BY DEF CallTyped
  <2>2. executor[e].answer # "unknown" =>
            [call[o][s] EXCEPT !.stage = "observed",
            !.outcome = executor[e].answer] \in CallRows
    BY <2>1 DEF CallRows, HookAnswersTrue, RecordAnswer, InPlan
  <2>3. CASE UNCHANGED call
    BY <2>3 DEF CallTyped
  <2>4. CASE executor[e].answer # "unknown"
            /\ call'
            = [call EXCEPT ![o][s] = [call[o][s] EXCEPT !.stage = "observed",
            !.outcome = executor[e].answer]]
    BY <2>2, <2>4, CallUpdate
  <2> QED BY <2>0, <2>3, <2>4 DEF RecordAnswer, CallTyped
<1>4. ASSUME NEW r \in Sweepers, NEW o \in Operations, NEW s \in Steps,
             BeginOrphan(r, o, s)
      PROVE  CallTyped'
  <2> USE <1>4
  <2>1. call' = [call EXCEPT ![o][s] = Reserve(call[o][s])]
            /\ call[o][s] \in CallRows
     BY DEF BeginOrphan, CallTyped
  <2> QED BY <2>1, CallUpdate, ReserveType
<1>5. ASSUME NEW r \in Sweepers, ReserveObservation(r) PROVE CallTyped'
  <2> USE <1>5
  <2>0. PICK o \in Operations, s \in Steps: o = sweeper[r].o
            /\ s = First(sweeper[r].todo)
     <3>1. sweeper[r].todo \in SUBSET Steps /\ sweeper[r].todo # {}
       BY DEF ReserveObservation, SweeperTyped, SweeperStates
     <3> QED BY <3>1, FirstIn DEF ReserveObservation, Placed
  <2>1. CASE call' = [call EXCEPT ![o][s] = Reserve(call[o][s])]
    <3>1. call[o][s] \in CallRows
      BY DEF CallTyped
    <3> QED BY <2>1, <3>1, CallUpdate, ReserveType
  <2>2. CASE UNCHANGED call
     BY <2>2 DEF CallTyped
  <2>3. call' = [call EXCEPT ![o][s] = Reserve(call[o][s])] \/ UNCHANGED call
    BY <2>0 DEF ReserveObservation, CallTyped
  <2> QED BY <2>1, <2>2, <2>3
<1>6. ASSUME NEW r \in Sweepers, RecordObservation(r) PROVE CallTyped'
  <2> USE <1>6
  <2>0. PICK o \in Operations, s \in Steps: o = sweeper[r].o /\ s = sweeper[r].s
     BY DEF RecordObservation, Placed
  <2>2. CASE UNCHANGED call
     BY <2>2 DEF CallTyped
  <2>3. CASE /\ Holds(r, o)
             /\ call' = [call EXCEPT ![o][s] = Reconciled(call[o][s],
                    sweeper[r].answer)]
     <3>1. call[o][s] \in CallRows
       BY DEF CallTyped
     <3>2. sweeper[r].answer \in Answers \ {"none"}
       BY DEF SweeperTyped, SweeperStates, AttemptReserved, RecordObservation
     <3>3. sweeper[r].answer = "pending" => call[o][s].tries > 0
       BY <2>0, <2>3 DEF AttemptReserved, RecordObservation, Awaiting
     <3> QED BY <2>3, <3>1, <3>2, <3>3, CallUpdate, ReconciledType
  <2> QED BY <2>0, <2>2, <2>3 DEF RecordObservation, CallTyped
<1>7. ASSUME NEW r \in Sweepers, RecordOrphan(r) PROVE CallTyped'
  <2> USE <1>7
  <2>0. PICK o \in Operations, s \in Steps: o = sweeper[r].o /\ s = sweeper[r].s
     BY DEF RecordOrphan, Placed
  <2>2. CASE UNCHANGED call
     BY <2>2 DEF CallTyped
  <2>3. CASE call'
            = [call EXCEPT ![o] = [call[o] EXCEPT ![s] = Reconciled(@,
            sweeper[r].answer)]]
     <3>1. call[o] \in [Steps -> CallRows]
       BY DEF CallTyped
     <3>2. sweeper[r].answer \in Answers \ {"none", "pending"}
       BY DEF SweeperTyped, SweeperStates, AttemptReserved, RecordOrphan
     <3>3. Reconciled(call[o][s], sweeper[r].answer) \in CallRows
       BY <3>1, <3>2, ReconciledType
     <3> QED BY <2>3, <3>1, <3>3 DEF CallTyped
  <2> QED BY <2>0, <2>2, <2>3 DEF RecordOrphan
<1>8. ASSUME NEW o \in Operations, NEW s \in Steps, BecomeDue(o, s)
      PROVE  CallTyped'
  <2> USE <1>8
  <2>1. call[o][s] \in CallRows
            /\ call' = [call EXCEPT ![o][s] = [call[o][s] EXCEPT !.due = TRUE]]
     BY DEF BecomeDue, CallTyped
  <2>2. [call[o][s] EXCEPT !.due = TRUE] \in CallRows
     BY <2>1 DEF CallRows
  <2> QED BY <2>1, <2>2, CallUpdate
<1>9. CASE UNCHANGED call
      BY <1>9 DEF CallTyped
<1> QED
      BY <1>1, <1>2, <1>3, <1>4, <1>5, <1>6, <1>7, <1>8, <1>9, CallWriters
         DEF CallSteps

(* The type of op is kept.                                                  *)
LEMMA OperationTypedStep ==
  ASSUME OperationTyped, Placed, [Next]_vars
  PROVE  OperationTyped'
<1>1. ASSUME NEW e \in Executors, CheckCancellation(e) PROVE OperationTyped'
      BY <1>1 DEF OperationTyped, OperationRows, TERMINAL_STATES,
         CheckCancellation, SettleCancelled, Settled
<1>2. ASSUME NEW e \in Executors, RecordAnswer(e) PROVE OperationTyped'
      BY <1>2 DEF OperationTyped, OperationRows, RecordAnswer
<1>3. ASSUME NEW e \in Executors, FinishStep(e) PROVE OperationTyped'
      BY <1>3 DEF OperationTyped, OperationRows, TERMINAL_STATES, FinishStep,
         StepVerdict
<1>4. ASSUME NEW o \in Operations, RequestCancellation(o) PROVE OperationTyped'
      BY <1>4 DEF OperationTyped, OperationRows, RequestCancellation
<1>5. ASSUME NEW o \in Operations, SettleUnheld(o) PROVE OperationTyped'
      BY <1>5 DEF OperationTyped, OperationRows, TERMINAL_STATES,
         SettleUnheld, Decided
<1>6. ASSUME NEW o \in Operations, GiveUp(o) PROVE OperationTyped'
      BY <1>6 DEF OperationTyped, OperationRows, TERMINAL_STATES, GiveUp
<1>7. ASSUME NEW r \in Sweepers, NEW p, ConcludeRecovery(r, p)
      PROVE  OperationTyped'
  <2> USE <1>7
  <2>0. PICK o \in Operations: o = sweeper[r].o
     BY DEF ConcludeRecovery, Placed
  <2> DEFINE w == op[o].cleanup \/ (op[o].cancel /\ ~ Released(call[o]))
             c == w /\ ~ (op[o].cleanup /\ SCOPED)
             v == Settled(o, Verdict(o, call[o], p = "cleaned"))
  <2>1. w \in BOOLEAN /\ c \in BOOLEAN
      OBVIOUS
  <2>2. v \in {"running"} \cup TERMINAL_STATES
      BY VerdictType
  <2>3. op[o] \in OperationRows
    BY DEF OperationTyped
  <2>4. Decided(o, v, c) \in OperationRows
    BY <2>1, <2>2, DecidedType
  <2>5. \/ UNCHANGED op
        \/ op' = [op EXCEPT ![o].cleanup = w]
        \/ op' = [op EXCEPT ![o] = Decided(o, v, c)]
      BY <2>0 DEF ConcludeRecovery, v, w, c
  <2> HIDE DEF v, w, c
  <2> QED BY <2>1, <2>3, <2>4, <2>5 DEF OperationTyped, OperationRows
<1>8. ASSUME NEW r \in Sweepers, RecordOrphan(r) PROVE OperationTyped'
  <2> USE <1>8
  <2>0. PICK o \in Operations, s \in Steps: o = sweeper[r].o /\ s = sweeper[r].s
     BY DEF RecordOrphan, Placed
  <2> DEFINE plan == [call[o] EXCEPT ![s] = Reconciled(@, sweeper[r].answer)]
             w == op[o].cleanup \/ (op[o].cancel /\ ~ Released(plan))
             v == Settled(o, Verdict(o, plan, FALSE))
  <2>1. w \in BOOLEAN
    OBVIOUS
  <2>2. v \in {"running"} \cup TERMINAL_STATES
      BY VerdictType
  <2>3. Decided(o, v, w) \in OperationRows
    BY <2>1, <2>2, DecidedType
  <2>4. UNCHANGED op \/ op' = [op EXCEPT ![o] = Decided(o, v, w)]
      BY <2>0 DEF RecordOrphan, v, w
  <2> HIDE DEF v, w
  <2> QED BY <2>3, <2>4 DEF OperationTyped
<1>9. CASE UNCHANGED op
      BY <1>9 DEF OperationTyped
<1> QED
      BY <1>1, <1>2, <1>3, <1>4, <1>5, <1>6, <1>7, <1>8, <1>9, OpWriters
         DEF OpSteps

(* The type of provider is kept.                                            *)
LEMMA ProviderTypedStep ==
  ASSUME ProviderTyped, [Next]_vars
  PROVE  ProviderTyped'
<1>1. ASSUME NEW e \in Executors, CallProvider(e) PROVE ProviderTyped'
      BY <1>1 DEF ProviderTyped, CallProvider
<1>2. ASSUME NEW o \in Operations, NEW s \in Steps, Arrive(o, s)
      PROVE  ProviderTyped'
      BY <1>2 DEF ProviderTyped, Arrive
<1>3. CASE UNCHANGED provider
      BY <1>3 DEF ProviderTyped
<1> QED
      BY <1>1, <1>2, <1>3, ProviderWriters DEF ProviderSteps

(* The type of sent is kept.                                                *)
LEMMA SentTypedStep ==
  ASSUME SentTyped, Placed, [Next]_vars
  PROVE  SentTyped'
<1>1. ASSUME NEW e \in Executors, CallProvider(e) PROVE SentTyped'
      BY <1>1 DEF SentTyped, Placed, CallProvider, InPlan
<1>2. CASE UNCHANGED sent
      BY <1>2 DEF SentTyped
<1> QED
      BY <1>1, <1>2, SentWriters DEF SentSteps

(* The type of faults is kept.                                              *)
LEMMA FaultsTypedStep ==
  ASSUME FaultsTyped, [Next]_vars
  PROVE  FaultsTyped'
<1>1. ASSUME NEW o \in Operations, Lapse(o) PROVE FaultsTyped'
      BY <1>1, ExecutionAssumption DEF FaultsTyped, Lapse
<1>2. ASSUME NEW r \in Sweepers, SweeperCrash(r) PROVE FaultsTyped'
      BY <1>2, ExecutionAssumption DEF FaultsTyped, SweeperCrash
<1>3. CASE UNCHANGED faults
      BY <1>3 DEF FaultsTyped
<1> QED
      BY <1>1, <1>2, <1>3, FaultsWriters DEF FaultsSteps


-----------------------------------------------------------------------------
(* Every action makes only moves.                                           *)

(* Executors move as ExecutorMove says.                                     *)
LEMMA ExecutorsMove ==
  ASSUME ExecutorTyped, CallTyped, Placed, [Next]_vars
  PROVE  ExecutorMoves
<1>1. ASSUME NEW e \in Executors, NEW o \in Operations, Acquire(e, o)
      PROVE  ExecutorMoves
      BY <1>1 DEF ExecutorTyped, ExecutorMoves, ExecutorMove, Acquire, Running
<1>2. ASSUME NEW e \in Executors, NEW s \in Steps, RecordIntent(e, s)
      PROVE  ExecutorMoves
  <2> USE <1>2
  <2> DEFINE o == executor[e].o
  <2>1. o \in Operations /\ DispatchFree(o) /\ Holds(e, o)
            /\ UNCHANGED <<lease, sweeper>>
     BY DEF RecordIntent, InPlan, Placed
  <2>2. /\ executor'[e].pc = "recorded" /\ executor'[e].o = o
               /\ executor'[e].s = s
        /\ \A x \in Executors \ {e}: executor'[x] = executor[x]
     BY DEF RecordIntent, InPlan, ExecutorTyped
  <2>3. call[o][s].stage = "none" /\ call'[o][s].stage = "intended"
     BY <2>1 DEF RecordIntent, StepAllowed, CallTyped, Intent
  <2>5. op'[o].state \notin TERMINAL_STATES
     BY DEF RecordIntent, Concluded
  <2>4. ExecutorMove(e)
     <3> HIDE DEF o
     <3> QED BY <2>1, <2>2, <2>3, <2>5 DEF ExecutorMove
  <2> QED BY <2>2, <2>4 DEF ExecutorMoves, ExecutorMove
<1>3. ASSUME NEW e \in Executors, NEW s \in Steps, RepeatStep(e, s)
      PROVE  ExecutorMoves
  <2> USE <1>3
  <2> DEFINE o == executor[e].o
  <2>1. o \in Operations /\ DispatchFree(o) /\ Holds(e, o)
            /\ UNCHANGED <<lease, sweeper>>
     BY DEF RepeatStep, InPlan, Placed
  <2>2. /\ executor'[e].pc = "closing" /\ executor'[e].o = o
               /\ executor'[e].s = s
        /\ \A x \in Executors \ {e}: executor'[x] = executor[x]
     BY DEF RepeatStep, InPlan, ExecutorTyped
  <2>4. ExecutorMove(e)
     <3> HIDE DEF o
     <3> QED BY <2>1, <2>2 DEF ExecutorMove, Dispatching, InHand
  <2> QED BY <2>2, <2>4 DEF ExecutorMoves, ExecutorMove
<1>4. ASSUME NEW e \in Executors, CheckCancellation(e) PROVE ExecutorMoves
  <2> USE <1>4
  <2>1. \A x \in Executors \ {e}: executor'[x] = executor[x]
     BY DEF CheckCancellation, Leave, ExecutorTyped
  <2>2. CASE Leave(e)
     <3>1. executor[e].o \in Operations
       BY DEF RecordAnswer, PollCancellation, CheckCancellation, InPlan,
          Placed
     <3> QED BY <2>2, <3>1 DEF ExecutorMoves, ExecutorMove, Leave,
                ExecutorTyped, Running
  <2>3. CASE executor' = [executor EXCEPT ![e].pc = "calling"]
     BY <2>1, <2>3 DEF ExecutorMoves, ExecutorMove, CheckCancellation, InPlan,
        ExecutorTyped, ExecutorStates, Unsent, InHand, Dispatching
  <2> QED BY <2>2, <2>3 DEF CheckCancellation
<1>5. ASSUME NEW e \in Executors, CallProvider(e) PROVE ExecutorMoves
      BY <1>5 DEF ExecutorTyped, ExecutorStates, ExecutorMoves, ExecutorMove,
         Unsent, InHand, Dispatching, CallProvider, InPlan
<1>6. ASSUME NEW e \in Executors, HookReturns(e) PROVE ExecutorMoves
  <2> USE <1>6
  <2>1. PICK a : executor' = [executor EXCEPT ![e] =
                                [@ EXCEPT !.pc = "answered", !.answer = a]]
     BY DEF HookReturns
  <2>2. executor[e].pc = "waiting"
     BY DEF HookReturns, InPlan
  <2> QED BY <2>1, <2>2 DEF ExecutorMoves, ExecutorMove, ExecutorTyped,
             ExecutorStates, Unsent, InHand, Dispatching
<1>7. ASSUME NEW e \in Executors, RecordAnswer(e) PROVE ExecutorMoves
  <2> USE <1>7
  <2>2. CASE Leave(e)
     <3>1. executor[e].o \in Operations
       BY DEF RecordAnswer, PollCancellation, CheckCancellation, InPlan,
          Placed
     <3> QED BY <2>2, <3>1 DEF ExecutorMoves, ExecutorMove, Leave,
                ExecutorTyped, Running
  <2>3. CASE executor' = [executor EXCEPT ![e].pc = "observed"]
     BY <2>3 DEF ExecutorMoves, ExecutorMove, RecordAnswer, InPlan,
        ExecutorTyped, ExecutorStates, Unsent, InHand, Dispatching
  <2> QED BY <2>2, <2>3 DEF RecordAnswer
<1>8. ASSUME NEW e \in Executors, PollCancellation(e) PROVE ExecutorMoves
  <2> USE <1>8
  <2>2. CASE Leave(e)
     <3>1. executor[e].o \in Operations
       BY DEF RecordAnswer, PollCancellation, CheckCancellation, InPlan,
          Placed
     <3> QED BY <2>2, <3>1 DEF ExecutorMoves, ExecutorMove, Leave,
                ExecutorTyped, Running
  <2>3. CASE executor' = [executor EXCEPT ![e].pc = "closing"]
     BY <2>3 DEF ExecutorMoves, ExecutorMove, PollCancellation, InPlan,
        ExecutorTyped, ExecutorStates, Unsent, InHand, Dispatching
  <2> QED BY <2>2, <2>3 DEF PollCancellation
<1>9. ASSUME NEW e \in Executors, FinishStep(e) PROVE ExecutorMoves
      BY <1>9 DEF ExecutorTyped, Placed, ExecutorMoves, ExecutorMove,
         FinishStep, InPlan, Leave, Running
<1>10. ASSUME NEW e \in Executors, ReleaseLease(e) PROVE ExecutorMoves
      BY <1>10 DEF ExecutorTyped, ExecutorMoves, ExecutorMove, ReleaseLease,
         Idle
<1>11. ASSUME NEW e \in Executors, Stop(e) PROVE ExecutorMoves
      BY <1>11 DEF ExecutorTyped, ExecutorMoves, ExecutorMove, Stop, Idle
<1>12. CASE UNCHANGED executor
      BY <1>12 DEF ExecutorMoves, ExecutorMove
<1> QED
      BY <1>1, <1>2, <1>3, <1>4, <1>5, <1>6, <1>7, <1>8, <1>9, <1>10, <1>11,
         <1>12, ExecutorWriters
         DEF ExecutorSteps

(* Executors carry what was recorded.                                       *)
LEMMA RecordsMove ==
  ASSUME ExecutorTyped, CallTyped, Placed, OpenUndecided, [Next]_vars
  PROVE  RecordMoves
<1>1. ASSUME NEW e \in Executors, NEW o \in Operations, Acquire(e, o)
      PROVE  RecordMoves
      BY <1>1 DEF RecordMoves, RecordMove, Acquire, Running
<1>2. ASSUME NEW e \in Executors, NEW s \in Steps, RecordIntent(e, s)
      PROVE  RecordMoves
      BY <1>2 DEF RecordMoves, RecordMove, RecordIntent
<1>3. ASSUME NEW e \in Executors, NEW s \in Steps, RepeatStep(e, s)
      PROVE  RecordMoves
  <2> USE <1>3
  <2>0. PICK o \in Operations: o = executor[e].o
     BY DEF RepeatStep, InPlan, Placed
  <2>1. call[o][s].outcome = "succeeded"
     <3>1. s \in 1 .. s
       BY ExecutionAssumption DEF Steps
     <3> QED BY <2>0, <3>1 DEF RepeatStep
  <2>2. call[o][s].stage \notin {"none", "intended"}
     BY <2>1 DEF OpenUndecided
  <2>3. /\ executor'[e].o = o /\ executor'[e].s = s
               /\ executor'[e].answer = "succeeded"
        /\ \A x \in Executors \ {e} : executor'[x] = executor[x] /\ call' = call
      BY <2>0 DEF RepeatStep, ExecutorTyped
  <2> QED BY <2>1, <2>2, <2>3 DEF RecordMoves, RecordMove, RepeatStep
<1>4. ASSUME NEW e \in Executors, CheckCancellation(e) PROVE RecordMoves
      BY <1>4 DEF ExecutorTyped, ExecutorStates, RecordMoves, RecordMove,
         CheckCancellation, Leave, Running
<1>5. ASSUME NEW e \in Executors, CallProvider(e) PROVE RecordMoves
      BY <1>5 DEF RecordMoves, RecordMove, CallProvider
<1>6. ASSUME NEW e \in Executors, HookReturns(e) PROVE RecordMoves
      BY <1>6 DEF RecordMoves, RecordMove, HookReturns
<1>7. ASSUME NEW e \in Executors, RecordAnswer(e) PROVE RecordMoves
  <2> USE <1>7
  <2>0. PICK o \in Operations, s \in Steps: o = executor[e].o
            /\ s = executor[e].s
     BY DEF RecordAnswer, InPlan, Placed
  <2>1. CASE Leave(e)
    BY <2>1 DEF RecordMoves, RecordMove, Leave, Running, ExecutorTyped
  <2>2. CASE /\ executor' = [executor EXCEPT ![e].pc = "observed"]
             /\ call' = [call EXCEPT ![o][s] = [@ EXCEPT !.stage = "observed",
                    !.outcome = executor[e].answer]]
    <3>1. call'[o][s].stage = "observed"
              /\ call'[o][s].outcome = executor[e].answer
      BY <2>2 DEF CallTyped, CallRows
    <3>2. /\ executor'[e].o = o /\ executor'[e].s = s
                 /\ executor'[e].answer = executor[e].answer
          /\ \A x \in Executors \ {e} : executor'[x] = executor[x]
      BY <2>0, <2>2 DEF ExecutorTyped, ExecutorStates
    <3> QED BY <3>1, <3>2 DEF RecordMoves, RecordMove
  <2> QED BY <2>0, <2>1, <2>2 DEF RecordAnswer
<1>8. ASSUME NEW e \in Executors, PollCancellation(e) PROVE RecordMoves
      BY <1>8 DEF ExecutorTyped, ExecutorStates, RecordMoves, RecordMove,
         PollCancellation, InPlan, Leave, Running
<1>9. ASSUME NEW e \in Executors, FinishStep(e) PROVE RecordMoves
      BY <1>9 DEF RecordMoves, RecordMove, FinishStep, Leave, Running
<1>10. ASSUME NEW e \in Executors, ReleaseLease(e) PROVE RecordMoves
      BY <1>10 DEF RecordMoves, RecordMove, ReleaseLease, Idle
<1>11. ASSUME NEW e \in Executors, Stop(e) PROVE RecordMoves
      BY <1>11 DEF RecordMoves, RecordMove, Stop, Idle
<1>12. CASE UNCHANGED executor
      BY <1>12 DEF RecordMoves, RecordMove
<1> QED
      BY <1>1, <1>2, <1>3, <1>4, <1>5, <1>6, <1>7, <1>8, <1>9, <1>10, <1>11,
         <1>12, ExecutorWriters
         DEF ExecutorSteps

(* Recovery passes move as SweeperMove says.                                *)
LEMMA SweepersMove ==
  ASSUME CallTyped, SweeperTyped, Placed, AskedOnce, [Next]_vars
  PROVE  SweeperMoves
<1>1. ASSUME NEW r \in Sweepers, NEW o \in Operations, TakeOver(r, o)
      PROVE  SweeperMoves
      BY <1>1, ExecutionAssumption DEF SweeperTyped, SweeperMoves,
         SweeperMove, AtStep, Watched, TakeOver, Fenceable, Uncertain
<1>2. ASSUME NEW r \in Sweepers, NEW o \in Operations, NEW s \in Steps,
             BeginOrphan(r, o, s)
      PROVE  SweeperMoves
  <2> USE <1>2
  <2>1. /\ \A q \in Sweepers \ {r}: sweeper'[q] = sweeper[q]
        /\ sweeper'[r].o = o /\ sweeper'[r].s = s /\ sweeper'[r].todo = {}
        /\ DispatchFree(o) /\ call[o][s].stage = "intended"
               /\ executor' = executor
     BY DEF BeginOrphan, SweeperTyped
  <2>2. \A t \in Steps: call'[o][t].stage = call[o][t].stage
     <3>1. call' = [call EXCEPT ![o][s] = Reserve(call[o][s])]
               /\ call[o][s] \in CallRows
       BY DEF BeginOrphan, CallTyped
     <3> QED BY <3>1, CallUpdate, ReserveType
  <2>3. SweeperMove(r)
     BY <2>1, <2>2 DEF SweeperMove, Watched
  <2> QED BY <2>1, <2>3 DEF SweeperMoves, SweeperMove
<1>3. ASSUME NEW r \in Sweepers, ReserveObservation(r) PROVE SweeperMoves
  <2> USE <1>3
  <2>1. \A q \in Sweepers \ {r}: sweeper'[q] = sweeper[q]
     BY DEF ReserveObservation, SweeperTyped
  <2> DEFINE s == First(sweeper[r].todo)
             todo == sweeper[r].todo \ {s}
  <2>2. sweeper[r].pc = "claimed" /\ sweeper[r] \in SweeperStates
     BY DEF ReserveObservation, SweeperTyped
  <2>4. CASE sweeper' = [sweeper EXCEPT ![r] = Resting]
     BY <2>1, <2>4 DEF SweeperMoves, SweeperMove, Resting, SweeperTyped
  <2>5. CASE sweeper' = [sweeper EXCEPT ![r].todo = todo]
     BY <2>1, <2>2, <2>5 DEF SweeperMoves, SweeperMove, Claiming, Orphans,
        SweeperTyped, SweeperStates, Watched, AtStep
  <2>6. CASE sweeper' = [sweeper EXCEPT ![r] =
                       [@ EXCEPT !.todo = todo, !.s = s, !.answer = "unknown",
                                 !.pc = IF Exhausted(call[sweeper[r].o][s])
                                     THEN "answered"
                                        ELSE "asking"]]
     <3>0. s \in sweeper[r].todo /\ s \in Steps
        <4>1. sweeper[r].todo \in SUBSET Steps /\ sweeper[r].todo # {}
           BY <2>2 DEF SweeperStates, ReserveObservation
        <4> QED BY <4>1, FirstIn
     <3> HIDE DEF s
     <3>1. /\ sweeper'[r].todo = todo /\ sweeper'[r].s = s
                  /\ sweeper'[r].pc \in {"answered", "asking"}
           /\ sweeper'[r].o = sweeper[r].o
       BY <2>1, <2>2, <2>6 DEF SweeperTyped, SweeperStates
     <3> QED
       BY <2>1, <2>2, <3>0, <3>1 DEF SweeperMoves, SweeperMove, Claiming,
          Orphans, Watched, AtStep
  <2> QED BY <2>4, <2>5, <2>6 DEF ReserveObservation
<1>4. ASSUME NEW r \in Sweepers, Observe(r) PROVE SweeperMoves
  <2> USE <1>4
  <2>1. PICK a : sweeper' = [sweeper EXCEPT ![r] = [@ EXCEPT !.answer = a,
                 !.pc = IF sweeper[r].pc = "asking" THEN "answered"
                     ELSE "orphan answered"]]
     BY DEF Observe
  <2>2. /\ sweeper[r].pc \in {"asking", "orphan asking"}
        /\ \A q \in Sweepers \ {r}: sweeper'[q] = sweeper[q]
        /\ sweeper'[r].o = sweeper[r].o /\ sweeper'[r].s = sweeper[r].s
               /\ sweeper'[r].todo = sweeper[r].todo
        /\ sweeper'[r].pc = IF sweeper[r].pc = "asking" THEN "answered"
               ELSE "orphan answered"
     BY <2>1 DEF Observe, SweeperTyped, SweeperStates
  <2> QED BY <2>2 DEF SweeperMoves, SweeperMove, Claiming, Orphans, Watched,
             AtStep, AskedOnce, Placed
<1>5. ASSUME NEW r \in Sweepers, RecordObservation(r) PROVE SweeperMoves
  <2> USE <1>5
  <2>4. CASE sweeper' = [sweeper EXCEPT ![r] = Resting]
     BY <2>4 DEF SweeperMoves, SweeperMove, Resting, SweeperTyped
  <2>5. CASE sweeper' = [sweeper EXCEPT ![r].pc = "claimed"]
     BY <2>5 DEF RecordObservation, SweeperMoves, SweeperMove, Claiming,
        Orphans, SweeperTyped, SweeperStates, Watched, AtStep
  <2> QED BY <2>4, <2>5 DEF RecordObservation
<1>6. ASSUME NEW r \in Sweepers, NEW p, ConcludeRecovery(r, p)
      PROVE  SweeperMoves
      BY <1>6 DEF SweeperTyped, SweeperMoves, SweeperMove, ConcludeRecovery,
         Resting
<1>7. ASSUME NEW r \in Sweepers, RecordOrphan(r) PROVE SweeperMoves
      BY <1>7 DEF SweeperTyped, SweeperMoves, SweeperMove, RecordOrphan,
         Resting
<1>8. ASSUME NEW r \in Sweepers, SweeperCrash(r) PROVE SweeperMoves
      BY <1>8 DEF SweeperTyped, SweeperMoves, SweeperMove, SweeperCrash,
         Resting
<1>9. CASE UNCHANGED sweeper
      BY <1>9 DEF SweeperMoves, SweeperMove
<1> QED
      BY <1>1, <1>2, <1>3, <1>4, <1>5, <1>6, <1>7, <1>8, <1>9, SweeperWriters
         DEF SweeperSteps

(* What passes learn is true.                                               *)
LEMMA AnswersMove ==
  ASSUME CallTyped, SweeperTyped, ProviderTyped, Placed, [Next]_vars
  PROVE  AnswerMoves
<1>1. ASSUME NEW r \in Sweepers, NEW o \in Operations, TakeOver(r, o)
      PROVE  AnswerMoves
      BY <1>1 DEF SweeperTyped, AnswerMoves, AnswerMove, Awaiting, TakeOver
<1>2. ASSUME NEW r \in Sweepers, NEW o \in Operations, NEW s \in Steps,
             BeginOrphan(r, o, s)
      PROVE  AnswerMoves
      BY <1>2 DEF SweeperTyped, AnswerMoves, AnswerMove, Awaiting, Truth,
         BeginOrphan
<1>3. ASSUME NEW r \in Sweepers, ReserveObservation(r) PROVE AnswerMoves
  <2> USE <1>3
  <2>1. \A q \in Sweepers \ {r}: sweeper'[q] = sweeper[q]
     BY DEF ReserveObservation, SweeperTyped
  <2> DEFINE s == First(sweeper[r].todo)
             todo == sweeper[r].todo \ {s}
  <2>2. sweeper[r].pc = "claimed" /\ sweeper[r] \in SweeperStates
     BY DEF ReserveObservation, SweeperTyped
  <2>4. CASE sweeper' = [sweeper EXCEPT ![r] = Resting]
     BY <2>1, <2>4 DEF AnswerMoves, AnswerMove, Awaiting, Resting,
        SweeperTyped
  <2>5. CASE sweeper' = [sweeper EXCEPT ![r].todo = todo]
     BY <2>1, <2>2, <2>5 DEF AnswerMoves, AnswerMove, Awaiting, SweeperTyped,
        SweeperStates
  <2>6. CASE /\ call' = [call EXCEPT ![sweeper[r].o][s] = Reserve(@)]
             /\ sweeper' = [sweeper EXCEPT ![r] =
                       [@ EXCEPT !.todo = todo, !.s = s, !.answer = "unknown",
                                 !.pc = IF Exhausted(call[sweeper[r].o][s])
                                     THEN "answered"
                                        ELSE "asking"]]
     <3>0. s \in Steps /\ sweeper[r].o \in Operations
        <4>1. sweeper[r].todo \in SUBSET Steps /\ sweeper[r].todo # {}
           BY <2>2 DEF SweeperStates, ReserveObservation
        <4> QED BY <2>2, <4>1, FirstIn DEF Placed
     <3> HIDE DEF s
     <3>1. /\ sweeper'[r].s = s /\ sweeper'[r].pc \in {"answered", "asking"}
           /\ sweeper'[r].o = sweeper[r].o /\ sweeper'[r].answer = "unknown"
       BY <2>1, <2>2, <2>6 DEF SweeperTyped, SweeperStates
     <3>2. call[sweeper[r].o][s] \in CallRows
       BY <3>0 DEF CallTyped
     <3>3. call'[sweeper[r].o][s].tries > 0
       BY <2>6, <3>0, <3>2, CallUpdate, ReserveType DEF CallTyped
     <3>4. AnswerMove(r)
       BY <3>1, <3>3 DEF AnswerMove, Truth
     <3> QED
       BY <2>1, <3>4 DEF AnswerMoves, AnswerMove
  <2> QED BY <2>4, <2>5, <2>6 DEF ReserveObservation
<1>4. ASSUME NEW r \in Sweepers, Observe(r) PROVE AnswerMoves
  <2> USE <1>4
  <2>1. PICK a \in ObserverAnswers(provider[sweeper[r].o][sweeper[r].s]):
               /\ a = "pending" => sweeper[r].pc = "asking"
               /\ sweeper' = [sweeper EXCEPT ![r] = [@ EXCEPT !.answer = a,
                 !.pc = IF sweeper[r].pc = "asking" THEN "answered"
                     ELSE "orphan answered"]]
     BY DEF Observe
  <2>2. /\ sweeper[r].pc \in {"asking", "orphan asking"}
        /\ \A q \in Sweepers \ {r}: sweeper'[q] = sweeper[q]
        /\ sweeper'[r].o = sweeper[r].o /\ sweeper'[r].s = sweeper[r].s
        /\ sweeper'[r].pc = (IF sweeper[r].pc = "asking" THEN "answered"
               ELSE "orphan answered")
        /\ sweeper'[r].answer = a
     BY <2>1 DEF Observe, SweeperTyped, SweeperStates
  <2>3. a # "none" /\ Truth(a, provider'[sweeper[r].o][sweeper[r].s])
     <3>1. provider[sweeper[r].o][sweeper[r].s] \in {"none", "inflight",
               "performed", "refused"}
        BY <2>2 DEF ProviderTyped, Placed
     <3>2. provider' = provider
        BY DEF Observe
     <3> QED BY <2>1, <3>1, <3>2 DEF ObserverAnswers, Truth
  <2>4. AnswerMove(r)
     <3>1. CASE sweeper[r].pc = "asking"
       BY <3>1, <2>2, <2>3 DEF AnswerMove, Awaiting
     <3>2. CASE sweeper[r].pc = "orphan asking"
       <4>1. a # "pending"
         BY <3>2, <2>1
       <4> QED BY <4>1, <3>2, <2>2, <2>3 DEF AnswerMove, Awaiting
     <3> QED BY <2>2, <3>1, <3>2
  <2> QED BY <2>2, <2>4 DEF AnswerMoves, AnswerMove
<1>5. ASSUME NEW r \in Sweepers, RecordObservation(r) PROVE AnswerMoves
  <2> USE <1>5
  <2>4. CASE sweeper' = [sweeper EXCEPT ![r] = Resting]
     BY <2>4 DEF AnswerMoves, AnswerMove, Awaiting, Resting, SweeperTyped
  <2>5. CASE sweeper' = [sweeper EXCEPT ![r].pc = "claimed"]
     BY <2>5 DEF RecordObservation, AnswerMoves, AnswerMove, Awaiting,
        SweeperTyped, SweeperStates
  <2> QED BY <2>4, <2>5 DEF RecordObservation
<1>6. ASSUME NEW r \in Sweepers, NEW p, ConcludeRecovery(r, p) PROVE AnswerMoves
      BY <1>6 DEF SweeperTyped, AnswerMoves, AnswerMove, Awaiting,
         ConcludeRecovery, Resting
<1>7. ASSUME NEW r \in Sweepers, RecordOrphan(r) PROVE AnswerMoves
      BY <1>7 DEF SweeperTyped, AnswerMoves, AnswerMove, Awaiting,
         RecordOrphan, Resting
<1>8. ASSUME NEW r \in Sweepers, SweeperCrash(r) PROVE AnswerMoves
      BY <1>8 DEF SweeperTyped, AnswerMoves, AnswerMove, Awaiting,
         SweeperCrash, Resting
<1>9. CASE UNCHANGED sweeper
      BY <1>9 DEF AnswerMoves, AnswerMove
<1> QED
      BY <1>1, <1>2, <1>3, <1>4, <1>5, <1>6, <1>7, <1>8, <1>9, SweeperWriters
         DEF SweeperSteps

(* Leases move as LeaseMove says.                                           *)
LEMMA LeasesMove ==
  ASSUME ExecutorTyped, LeaseTyped, SweeperTyped, Placed, LockHeldByHolder,
         OrphanLockExclusive, [Next]_vars
  PROVE  LeaseMoves
<1>1. ASSUME NEW e \in Executors, NEW o \in Operations, Acquire(e, o)
      PROVE  LeaseMoves
  <2> USE <1>1
  <2>1. /\ \A p \in Operations \ {o} : lease'[p] = lease[p]
        /\ lease'[o].holder = e
     BY DEF Acquire, Granted, LeaseTyped, LeaseRows
  <2>2. \A x \in Executors: ~ InStep(x, o)
     BY ExecutionAssumption DEF Acquire, Acquirable, LockHeldByHolder
  <2>3. executor'[e].pc = "running"
            /\ \A x \in Executors \ {e} : executor'[x] = executor[x]
     BY DEF Acquire, Running, ExecutorTyped
  <2>4. LeaseMove(o)
     BY <2>1, <2>2, <2>3, ExecutionAssumption DEF LeaseMove, Acquire, InStep
  <2> QED BY <2>1, <2>4 DEF LeaseMoves, LeaseMove
<1>2. ASSUME NEW o \in Operations, Lapse(o) PROVE LeaseMoves
      BY <1>2 DEF LeaseMoves, LeaseMove, Lapse
<1>3. ASSUME NEW e \in Executors, ReleaseLease(e) PROVE LeaseMoves
      BY <1>3, ExecutionAssumption DEF LockHeldByHolder, InStep, LeaseMoves,
         LeaseMove, Holds, ReleaseLease, Idle, Unheld
<1>4. ASSUME NEW e \in Executors, CheckCancellation(e) PROVE LeaseMoves
  <2> USE <1>4
  <2>0. PICK o \in Operations : o = executor[e].o
     BY DEF CheckCancellation, InPlan, Placed
  <2>1. InStep(e, o)
     BY <2>0 DEF CheckCancellation, InPlan, Placed, InStep
  <2>2. CASE UNCHANGED lease
     BY <2>2 DEF LeaseMoves, LeaseMove
  <2>3. CASE Leave(e) /\ lease' = [lease EXCEPT ![o] = Closed(o)]
     <3>1. executor'[e].pc = "running"
               /\ \A x \in Executors \ {e} : executor'[x] = executor[x]
       BY <2>3 DEF Leave, Running, ExecutorTyped
     <3>2. \A x \in Executors: ~ InStep(x, o)'
       BY <2>1, <3>1 DEF InStep, LockHeldByHolder
     <3>3. LeaseMove(o)
       BY <3>2, <2>1, <2>3, LeaseGiven, ExecutionAssumption DEF LeaseMove
     <3> QED BY <2>1, <2>3, <3>3, LeaseGiven DEF LeaseMoves, LeaseMove
  <2> QED BY <2>0, <2>2, <2>3 DEF CheckCancellation, SettleCancelled
<1>5. ASSUME NEW e \in Executors, FinishStep(e) PROVE LeaseMoves
  <2> USE <1>5
  <2>0. PICK o \in Operations : o = executor[e].o
     BY DEF FinishStep, InPlan, Placed
  <2>1. InStep(e, o)
     BY <2>0 DEF FinishStep, InPlan, Placed, InStep
  <2>2. CASE UNCHANGED lease
     BY <2>2 DEF LeaseMoves, LeaseMove
  <2>3. CASE Leave(e) /\ lease' = [lease EXCEPT ![o] = Closed(o)]
     <3>1. executor'[e].pc = "running"
               /\ \A x \in Executors \ {e} : executor'[x] = executor[x]
       BY <2>3 DEF Leave, Running, ExecutorTyped
     <3>2. \A x \in Executors: ~ InStep(x, o)'
       BY <2>1, <3>1 DEF InStep, LockHeldByHolder
     <3>3. LeaseMove(o)
       BY <3>2, <2>1, <2>3, LeaseGiven, ExecutionAssumption DEF LeaseMove
     <3> QED BY <2>1, <2>3, <3>3, LeaseGiven DEF LeaseMoves, LeaseMove
  <2> QED BY <2>0, <2>2, <2>3 DEF FinishStep
<1>6. ASSUME NEW o \in Operations, SettleUnheld(o) PROVE LeaseMoves
      BY <1>6 DEF LeaseMoves, LeaseMove, SettleUnheld, Closed
<1>7. ASSUME NEW r \in Sweepers, NEW o \in Operations, TakeOver(r, o)
      PROVE  LeaseMoves
  <2> USE <1>7
  <2>1. /\ \A p \in Operations \ {o} : lease'[p] = lease[p]
        /\ lease'[o].holder = r
        /\ sweeper'[r].pc = "claimed" /\ sweeper'[r].todo = Uncertain(call[o])
               /\ sweeper'[r].o = o
     BY DEF TakeOver, LeaseTyped, LeaseRows, SweeperTyped
  <2>2. LeaseMove(o)
     BY <2>1, ExecutionAssumption DEF LeaseMove, TakeOver, Fenceable,
        DispatchFree, InStep, Watched, AtStep, Uncertain
  <2> QED BY <2>1, <2>2 DEF LeaseMoves, LeaseMove
<1>8. ASSUME NEW r \in Sweepers, NEW p, ConcludeRecovery(r, p) PROVE LeaseMoves
  <2> USE <1>8
  <2>0. PICK o \in Operations : o = sweeper[r].o
     BY DEF ConcludeRecovery, Placed
  <2>2. CASE UNCHANGED lease
     BY <2>2 DEF LeaseMoves, LeaseMove
  <2>3. CASE /\ Holds(r, o)
             /\ lease' = [lease EXCEPT ![o] = Closed(o)]
                    \/ lease' = [lease EXCEPT ![o] = Unheld(o)]
     <3>2. \A x \in Executors: ~ InStep(x, o)'
       BY <2>3, ExecutionAssumption DEF InStep, LockHeldByHolder, Holds,
          ConcludeRecovery
     <3>3. LeaseMove(o)
       BY <3>2, <2>3, LeaseGiven, ExecutionAssumption DEF LeaseMove
     <3> QED BY <2>3, <3>3, LeaseGiven DEF LeaseMoves, LeaseMove
  <2> QED BY <2>0, <2>2, <2>3 DEF ConcludeRecovery
<1>9. ASSUME NEW r \in Sweepers, RecordOrphan(r) PROVE LeaseMoves
  <2> USE <1>9
  <2>0. PICK o \in Operations : o = sweeper[r].o
     BY DEF RecordOrphan, Placed
  <2>1. Orphaning(r, o)
     BY <2>0 DEF RecordOrphan, Placed, Orphaning
  <2>2. CASE UNCHANGED lease
     BY <2>2 DEF LeaseMoves, LeaseMove
  <2>3. CASE lease' = [lease EXCEPT ![o] = Closed(o)]
            \/ lease' = [lease EXCEPT ![o] = Unheld(o)]
     <3>2. \A x \in Executors: ~ InStep(x, o)'
       BY <2>1 DEF InStep, OrphanLockExclusive, RecordOrphan
     <3>3. LeaseMove(o)
       BY <3>2, <2>1, <2>3, LeaseGiven, ExecutionAssumption DEF LeaseMove
     <3> QED BY <2>1, <2>3, <3>3, LeaseGiven DEF LeaseMoves, LeaseMove
  <2> QED BY <2>0, <2>2, <2>3 DEF RecordOrphan
<1>10. CASE UNCHANGED lease
      BY <1>10 DEF LeaseMoves, LeaseMove
<1> QED
      BY <1>1, <1>2, <1>3, <1>4, <1>5, <1>6, <1>7, <1>8, <1>9, <1>10,
         LeaseWriters
         DEF LeaseSteps

(* Calls move as CallMove says.                                             *)
LEMMA CallsMove ==
  ASSUME ExecutorTyped, LeaseTyped, CallTyped, SweeperTyped, Placed,
         LockHeldByHolder, OrphanLockExclusive, DispatchedIsIntended,
         ClaimedIsIntended, AskedOnce, AttemptReserved, HookAnswersTrue,
         SweepAnswersTrue, [Next]_vars
  PROVE  CallMoves
<1>1. ASSUME NEW e \in Executors, NEW s \in Steps, RecordIntent(e, s)
      PROVE  CallMoves
      BY <1>1 DEF CallMoves, CallMove, RecordIntent, StepAllowed, Intent
<1>2. ASSUME NEW e \in Executors, CheckCancellation(e) PROVE CallMoves
  <2> USE <1>2
  <2>0. PICK o \in Operations, s \in Steps: o = executor[e].o
            /\ s = executor[e].s
     BY DEF CheckCancellation, InPlan, Placed
  <2>1. InStep(e, o) /\ call[o][s].stage = "intended"
     BY <2>0 DEF CheckCancellation, InPlan, Placed, InStep,
        DispatchedIsIntended, Dispatching, InHand
  <2>2. CASE UNCHANGED call
     BY <2>2 DEF CallMoves, CallMove
  <2>3. CASE Leave(e)
            /\ call'
            = [call EXCEPT ![o]
            = [call[o] EXCEPT ![s] = [@ EXCEPT !.stage = "observed",
            !.outcome = "absent"]]]
     <3>1. /\ \A p \in Operations, t \in Steps: <<p, t>> # <<o, s>> =>
                  call'[p][t] = call[p][t]
           /\ call'[o][s].stage = "observed" /\ call'[o][s].outcome = "absent"
       BY <2>3 DEF CallTyped, CallRows
     <3>6. provider[o][s] = "none" /\ provider' = provider
       BY <2>0 DEF HookAnswersTrue, CheckCancellation, InPlan
     <3>2. executor'[e].pc = "running"
               /\ \A x \in Executors \ {e} : executor'[x] = executor[x]
       BY <2>3 DEF Leave, Running, ExecutorTyped
     <3>3. \A x \in Executors: ~ InStep(x, o)'
       BY <2>1, <3>2 DEF InStep, LockHeldByHolder
     <3>4. \A r \in Sweepers: ~ Holds(r, o)'
       <4>1. lease[o].holder = e
          BY <2>1 DEF LockHeldByHolder
       <4>2. lease'[o].holder \in {e, Nobody}
          BY <2>0, <4>1, LeaseGiven DEF CheckCancellation, SettleCancelled
       <4> QED BY <4>2, ExecutionAssumption DEF Holds
     <3>5. CallMove(o, s)
       BY <2>1, <3>1, <3>3, <3>4, <3>6 DEF CallMove, InStep, Dispatching,
          InHand, Truth
     <3> QED BY <3>1, <3>5 DEF CallMoves, CallMove
  <2> QED BY <2>0, <2>2, <2>3 DEF CheckCancellation
<1>3. ASSUME NEW e \in Executors, RecordAnswer(e) PROVE CallMoves
  <2> USE <1>3
  <2>0. PICK o \in Operations, s \in Steps: o = executor[e].o
            /\ s = executor[e].s
     BY DEF RecordAnswer, InPlan, Placed
  <2>1. InStep(e, o)
     BY <2>0 DEF RecordAnswer, InPlan, Placed, InStep
  <2>2. CASE UNCHANGED call
     BY <2>2 DEF CallMoves, CallMove
  <2>3. CASE /\ call[o][s].stage = "intended"
            /\ executor' = [executor EXCEPT ![e].pc = "observed"]
             /\ call' = [call EXCEPT ![o][s] = [@ EXCEPT !.stage = "observed",
                    !.outcome = executor[e].answer]]
     <3>1. /\ \A p \in Operations, t \in Steps: <<p, t>> # <<o, s>> =>
                  call'[p][t] = call[p][t]
           /\ call'[o][s].stage = "observed"
                  /\ call'[o][s].outcome = executor[e].answer
       BY <2>3 DEF CallTyped, CallRows
     <3>6. Truth(executor[e].answer, provider[o][s]) /\ provider' = provider
       BY <2>0 DEF HookAnswersTrue, RecordAnswer, InPlan
     <3>2. executor'[e].pc = "observed"
               /\ \A x \in Executors \ {e} : executor'[x] = executor[x]
       BY <2>3 DEF ExecutorTyped, ExecutorStates
     <3>3. \A x \in Executors \ {e}: ~ InStep(x, o)'
       BY <2>1, <3>2 DEF InStep, LockHeldByHolder
     <3>4. \A r \in Sweepers: ~ Holds(r, o)'
       <4>1. lease'[o].holder = e
          BY <2>1 DEF LockHeldByHolder, RecordAnswer
       <4> QED BY <4>1, ExecutionAssumption DEF Holds
     <3>5. CallMove(o, s)
       BY <2>3, <3>1, <3>2, <3>3, <3>4, <3>6 DEF CallMove, InStep,
          Dispatching, InHand
     <3> QED BY <3>1, <3>5 DEF CallMoves, CallMove
  <2> QED BY <2>0, <2>2, <2>3 DEF RecordAnswer, MayObserve
<1>4. ASSUME NEW r \in Sweepers, NEW o \in Operations, NEW s \in Steps,
             BeginOrphan(r, o, s)
      PROVE  CallMoves
  <2> USE <1>4
  <2>1. call' = [call EXCEPT ![o][s] = Reserve(call[o][s])]
            /\ call[o][s] \in CallRows
     BY DEF BeginOrphan, CallTyped
  <2> QED BY <2>1, CallUpdate, ReserveType DEF CallMoves, CallMove
<1>5. ASSUME NEW r \in Sweepers, ReserveObservation(r) PROVE CallMoves
  <2> USE <1>5
  <2>0. PICK o \in Operations, s \in Steps: o = sweeper[r].o
            /\ s = First(sweeper[r].todo)
     <3>1. sweeper[r].todo \in SUBSET Steps /\ sweeper[r].todo # {}
       BY DEF ReserveObservation, SweeperTyped, SweeperStates
     <3> QED BY <3>1, FirstIn DEF ReserveObservation, Placed
  <2>1. CASE call' = [call EXCEPT ![o][s] = Reserve(call[o][s])]
    <3>1. call[o][s] \in CallRows
      BY DEF CallTyped
    <3> QED BY <2>1, <3>1, CallUpdate, ReserveType DEF CallMoves, CallMove
  <2>2. CASE UNCHANGED call
     BY <2>2 DEF CallMoves, CallMove
  <2>3. call' = [call EXCEPT ![o][s] = Reserve(call[o][s])] \/ UNCHANGED call
    BY <2>0 DEF ReserveObservation, CallTyped
  <2> QED BY <2>1, <2>2, <2>3
<1>6. ASSUME NEW r \in Sweepers, RecordObservation(r) PROVE CallMoves
  <2> USE <1>6
  <2>0. PICK o \in Operations, s \in Steps: o = sweeper[r].o /\ s = sweeper[r].s
     BY DEF RecordObservation, Placed
  <2>2. CASE UNCHANGED call
     BY <2>2 DEF CallMoves, CallMove
  <2>3. CASE /\ Holds(r, o)
             /\ call' = [call EXCEPT ![o][s] = Reconciled(call[o][s],
                    sweeper[r].answer)]
             /\ sweeper' = [sweeper EXCEPT ![r].pc = "claimed"]
     <3>0. call[o][s] \in CallRows
       BY DEF CallTyped
     <3>1. /\ \A p \in Operations, t \in Steps: <<p, t>> # <<o, s>> =>
                  call'[p][t] = call[p][t]
           /\ call'[o][s] = Reconciled(call[o][s], sweeper[r].answer)
       BY <2>3 DEF CallTyped
     <3>6. Truth(sweeper[r].answer, provider[o][s]) /\ provider' = provider
       BY <2>0 DEF SweepAnswersTrue, RecordObservation
     <3>7. sweeper'[r].pc = "claimed"
       BY <2>3 DEF SweeperTyped, SweeperStates
     <3>8. \/ /\ call'[o][s].stage = call[o][s].stage
              /\ call'[o][s].outcome = call[o][s].outcome
           \/ /\ call'[o][s].stage \in {"unresolved", "reconciled"}
              /\ call'[o][s].outcome = sweeper[r].answer
       BY <3>0, <3>1 DEF CallRows, Reconciled
     <3>2. \A x \in Executors: ~ InStep(x, o)'
       BY <2>3, ExecutionAssumption DEF InStep, LockHeldByHolder, Holds,
          RecordObservation
     <3>3. call[o][s].stage = "intended"
       BY <2>0, <2>3 DEF ClaimedIsIntended, RecordObservation, Claiming,
          Watched, AtStep
     <3>4. \A q \in Sweepers: ~ (Holds(q, o)' /\ Watched(q, s)')
       <4>1. \A q \in Sweepers: Holds(q, o)' => q = r
         BY <2>3 DEF Holds, RecordObservation
       <4>2. sweeper'[r].pc = "claimed" /\ sweeper'[r].todo = sweeper[r].todo
         BY <2>3 DEF SweeperTyped, SweeperStates
       <4>3. s \notin sweeper[r].todo
         BY <2>0 DEF AskedOnce, AtStep, RecordObservation
       <4> QED BY <4>1, <4>2, <4>3 DEF Watched, AtStep
     <3>5. CallMove(o, s)
       BY <2>3, <3>2, <3>3, <3>4, <3>6, <3>7, <3>8 DEF CallMove, InStep,
          Dispatching, InHand
     <3> QED BY <3>1, <3>5 DEF CallMoves, CallMove
  <2> QED BY <2>0, <2>2, <2>3 DEF RecordObservation, CallTyped
<1>7. ASSUME NEW r \in Sweepers, RecordOrphan(r) PROVE CallMoves
  <2> USE <1>7
  <2>0. PICK o \in Operations, s \in Steps: o = sweeper[r].o /\ s = sweeper[r].s
     BY DEF RecordOrphan, Placed
  <2>2. CASE UNCHANGED call
     BY <2>2 DEF CallMoves, CallMove
  <2>3. CASE /\ OrphanOwned(r) /\ call[o][s].stage = "intended"
             /\ call' = [call EXCEPT ![o]
                    = [call[o] EXCEPT ![s] = Reconciled(@, sweeper[r].answer)]]
     <3>1. /\ \A p \in Operations, t \in Steps: <<p, t>> # <<o, s>> =>
                  call'[p][t] = call[p][t]
           /\ call'[o][s] = Reconciled(call[o][s], sweeper[r].answer)
       BY <2>3 DEF CallTyped
     <3>0. call[o][s] \in CallRows
       BY DEF CallTyped
     <3>6. Truth(sweeper[r].answer, provider[o][s]) /\ provider' = provider
       BY <2>0 DEF SweepAnswersTrue, RecordOrphan
     <3>7. sweeper[r].answer # "pending"
       BY DEF AttemptReserved, RecordOrphan
     <3>8. \/ call'[o][s] = call[o][s]
           \/ /\ call'[o][s].stage \in {"unresolved", "reconciled"}
              /\ call'[o][s].outcome = sweeper[r].answer
       BY <3>0, <3>1, <3>7 DEF CallRows, Reconciled
     <3>2. \A x \in Executors: ~ InStep(x, o)'
       BY <2>0 DEF InStep, OrphanLockExclusive, RecordOrphan, Orphaning
     <3>4. \A q \in Sweepers: ~ Holds(q, o)'
       <4>1. ~ lease[o].live
         BY <2>0, <2>3 DEF OrphanOwned
       <4>2. UNCHANGED lease \/ lease' = [lease EXCEPT ![o] = Closed(o)]
                 \/ lease' = [lease EXCEPT ![o] = Unheld(o)]
         BY <2>0 DEF RecordOrphan
       <4> QED BY <4>1, <4>2, LeaseGiven DEF Holds
     <3>5. CallMove(o, s)
       BY <2>3, <3>8, <3>2, <3>4, <3>6 DEF CallMove, InStep, Dispatching,
          InHand
     <3> QED BY <3>1, <3>5 DEF CallMoves, CallMove
  <2> QED BY <2>0, <2>2, <2>3 DEF RecordOrphan
<1>8. ASSUME NEW o \in Operations, NEW s \in Steps, BecomeDue(o, s)
      PROVE  CallMoves
      BY <1>8 DEF CallMoves, CallMove, BecomeDue
<1>9. CASE UNCHANGED call
      BY <1>9 DEF CallMoves, CallMove
<1> QED
      BY <1>1, <1>2, <1>3, <1>4, <1>5, <1>6, <1>7, <1>8, <1>9, CallWriters
         DEF CallSteps

(* Requests move as ProviderMove says.                                      *)
LEMMA ProviderMoves ==
  ASSUME ExecutorTyped, ProviderTyped, Placed, DispatchedIsIntended,
         WatchedNotInHand, HookAnswersTrue, [Next]_vars
  PROVE  RequestMoves
<1>1. ASSUME NEW e \in Executors, CallProvider(e) PROVE RequestMoves
  <2> USE <1>1
  <2>0. PICK o \in Operations, s \in Steps: o = executor[e].o
            /\ s = executor[e].s
    BY DEF CallProvider, InPlan, Placed
  <2>1. /\ \A p \in Operations, t \in Steps: <<p, t>> # <<o, s>> =>
               provider'[p][t] = provider[p][t]
        /\ provider'[o][s] = "inflight"
        /\ UNCHANGED <<call, sweeper>>
    BY <2>0 DEF CallProvider, ProviderTyped
  <2>2. provider[o][s] = "none" /\ call[o][s].stage = "intended"
    BY <2>0 DEF CallProvider, InPlan, HookAnswersTrue, DispatchedIsIntended,
       Dispatching, InHand
  <2>3. ASSUME NEW r \in Sweepers, sweeper[r].pc # "idle", Watched(r, s)
        PROVE  sweeper[r].o # o
    BY <2>0, <2>3 DEF WatchedNotInHand, CallProvider, InPlan, InHand
  <2>4. ProviderMove(o, s)
    BY <2>1, <2>2, <2>3 DEF ProviderMove
  <2> QED BY <2>1, <2>4 DEF RequestMoves, ProviderMove
<1>2. ASSUME NEW o \in Operations, NEW s \in Steps, Arrive(o, s)
      PROVE  RequestMoves
  <2> USE <1>2
  <2>1. /\ \A p \in Operations, t \in Steps: <<p, t>> # <<o, s>> =>
               provider'[p][t] = provider[p][t]
        /\ provider'[o][s] \in {"performed", "refused"}
        /\ provider[o][s] = "inflight"
        /\ UNCHANGED <<call, sweeper>>
    BY DEF Arrive, ProviderTyped
  <2>4. ProviderMove(o, s)
    BY <2>1 DEF ProviderMove
  <2> QED BY <2>1, <2>4 DEF RequestMoves, ProviderMove
<1>3. CASE UNCHANGED provider
      BY <1>3 DEF RequestMoves, ProviderMove
<1> QED
      BY <1>1, <1>2, <1>3, ProviderWriters DEF ProviderSteps


-----------------------------------------------------------------------------
(* The invariants survive any moves.                                        *)

(* Placed is kept.                                                          *)
LEMMA PlacedStep ==
  ASSUME ExecutorMoves, SweeperMoves, Placed
  PROVE  Placed'
BY ExecutionAssumption DEF AtStep, SweeperMoves, SweeperMove, Placed,
   ExecutorMoves, ExecutorMove, Claiming, Orphans

(* LockHeldByHolder is kept.                                                *)
LEMMA LockHeldByHolderStep ==
  ASSUME LockHeldByHolder, ExecutorMoves, LeaseMoves, Placed
  PROVE  LockHeldByHolder'
BY ExecutionAssumption DEF LockHeldByHolder, InStep, Placed, Holds,
   ExecutorMoves, LeaseMoves, ExecutorMove, LeaseMove

(* OrphanLockExclusive is kept.                                             *)
LEMMA OrphanLockExclusiveStep ==
  ASSUME OrphanLockExclusive, ExecutorMoves, SweeperMoves, Placed, Placed'
  PROVE  OrphanLockExclusive'
<1> USE DEF OrphanLockExclusive, InStep, Orphaning, Placed, Orphans
<1>1. ASSUME NEW r \in Sweepers, NEW o \in Operations, Orphaning(r, o)'
      PROVE  \A e \in Executors: ~ InStep(e, o)'
   <2>1. SUFFICES ASSUME NEW e \in Executors, InStep(e, o)' PROVE FALSE
         OBVIOUS
   <2>2. ExecutorMove(e) /\ SweeperMove(r)
         BY DEF ExecutorMoves, SweeperMoves
   <2>3. CASE Orphaning(r, o)
         BY <1>1, <2>1, <2>2, <2>3 DEF ExecutorMove, DispatchFree
   <2>4. CASE ~ Orphaning(r, o)
     <3>1. DispatchFree(o) /\ executor' = executor
         BY <1>1, <2>1, <2>2, <2>4 DEF SweeperMove
     <3> QED BY <2>1, <3>1 DEF DispatchFree
   <2> QED BY <2>3, <2>4
<1>2. ASSUME NEW r \in Sweepers, NEW o \in Operations, Orphaning(r, o)',
             NEW q \in Sweepers, Orphaning(q, o)'
      PROVE  q = r
   <2>2. SweeperMove(q) /\ SweeperMove(r)
         BY DEF SweeperMoves
   <2>3. ASSUME NEW z \in Sweepers, SweeperMove(z), Orphaning(z, o)',
                    ~ Orphaning(z, o)
         PROVE DispatchFree(o)
                   /\ \A x \in Sweepers \ {z} : sweeper'[x] = sweeper[x]
         BY <2>3 DEF SweeperMove
   <2>4. CASE Orphaning(r, o) /\ Orphaning(q, o)
         BY <2>4
   <2>5. CASE ~ Orphaning(r, o)
         BY <1>2, <2>5, <2>2, <2>3 DEF DispatchFree
   <2>6. CASE ~ Orphaning(q, o)
         BY <1>2, <2>6, <2>2, <2>3 DEF DispatchFree
   <2> QED BY <2>4, <2>5, <2>6
<1> QED BY <1>1, <1>2

(* DispatchedIsIntended is kept.                                            *)
LEMMA DispatchedIsIntendedStep ==
  ASSUME DispatchedIsIntended, ExecutorMoves, CallMoves, Placed, Placed'
  PROVE  DispatchedIsIntended'
BY ExecutionAssumption DEF DispatchedIsIntended, Dispatching, InHand, Placed,
   ExecutorMoves, CallMoves, ExecutorMove, CallMove

(* ClaimedIsIntended is kept.                                               *)
LEMMA ClaimedIsIntendedStep ==
  ASSUME ClaimedIsIntended, SweeperMoves, CallMoves, LeaseMoves, Placed,
         Placed'
  PROVE  ClaimedIsIntended'
<1> SUFFICES ASSUME NEW r \in Sweepers, NEW s \in Steps,
                    (sweeper[r].pc \in Claiming /\ Holds(r, sweeper[r].o)
                        /\ Watched(r, s))'
             PROVE  call'[sweeper'[r].o][s].stage = "intended"
    BY DEF ClaimedIsIntended
<1>0. PICK o \in Operations : o = sweeper'[r].o
    BY DEF Placed, Claiming
<1>1. SweeperMove(r) /\ LeaseMove(o) /\ CallMove(o, s)
    BY DEF SweeperMoves, LeaseMoves, CallMoves
<1>2. CASE call[o][s].stage = "intended"
    BY <1>0, <1>1, <1>2 DEF CallMove, Holds
<1>3. CASE call[o][s].stage # "intended"
  <2>1. lease[o].holder = r /\ lease[o].live
      BY <1>0, <1>1, <1>3 DEF LeaseMove, Holds
  <2> QED
      BY <1>0, <1>1, <1>3, <2>1 DEF SweeperMove, ClaimedIsIntended, Holds,
         Watched, AtStep, Claiming
<1> QED BY <1>2, <1>3

(* AskedOnce is kept.                                                       *)
LEMMA AskedOnceStep ==
  ASSUME AskedOnce, SweeperMoves
  PROVE  AskedOnce'
BY ExecutionAssumption DEF AskedOnce, AtStep, SweeperMoves, SweeperMove

(* AttemptReserved is kept.                                                 *)
LEMMA AttemptReservedStep ==
  ASSUME AttemptReserved, ClaimedIsIntended, SweeperMoves, CallMoves,
         LeaseMoves, AnswerMoves, Placed, Placed'
  PROVE  AttemptReserved'
<1>1. ASSUME NEW r \in Sweepers, Awaiting(r)', Holds(r, sweeper[r].o)'
      PROVE  call'[sweeper'[r].o][sweeper'[r].s].tries > 0
  <2>0. PICK o \in Operations, s \in Steps: o = sweeper'[r].o
            /\ s = sweeper'[r].s
    BY <1>1 DEF Placed, Awaiting
  <2>1. LeaseMove(o) /\ CallMove(o, s) /\ AnswerMove(r)
    BY DEF LeaseMoves, CallMoves, AnswerMoves
  <2>2. CASE Awaiting(r) /\ sweeper[r].o = o /\ sweeper[r].s = s
    <3>1. Holds(r, o)
      BY <1>1, <2>0, <2>1 DEF LeaseMove, Holds, Awaiting
    <3>2. call[o][s].stage = "intended" /\ call[o][s].tries > 0
      BY <2>2, <3>1 DEF ClaimedIsIntended, AttemptReserved, Awaiting,
         Claiming, Watched, AtStep
    <3>3. \A q \in Sweepers: Holds(q, o) => q = r
      BY <3>1 DEF Holds
    <3>4. call'[o][s].tries > 0
      BY <1>1, <2>0, <2>1, <3>2, <3>3 DEF CallMove, Awaiting, Claiming,
         Watched, AtStep, Holds
    <3> QED BY <2>0, <3>4
  <2> QED BY <1>1, <2>0, <2>1, <2>2 DEF AnswerMove, Awaiting
<1>2. ASSUME NEW r \in Sweepers
      PROVE  /\ sweeper'[r].pc = "orphan answered" =>
                    sweeper'[r].answer # "pending"
             /\ sweeper'[r].pc \in {"answered", "orphan answered"} =>
                    sweeper'[r].answer # "none"
  BY DEF AnswerMoves, AnswerMove, AttemptReserved
<1> QED BY <1>1, <1>2 DEF AttemptReserved

(* WatchedNotInHand is kept.                                                *)
LEMMA WatchedNotInHandStep ==
  ASSUME WatchedNotInHand, ExecutorMoves, SweeperMoves, CallMoves, Placed,
         Placed'
  PROVE  WatchedNotInHand'
<1> SUFFICES ASSUME NEW r \in Sweepers, NEW s \in Steps,
                        sweeper'[r].pc # "idle", Watched(r, s)'
             PROVE  /\ call'[sweeper'[r].o][s].stage # "none"
                    /\ \A e \in Executors:
                          executor'[e].pc \in InHand
                              /\ executor'[e].o = sweeper'[r].o
                          => executor'[e].s # s
    BY DEF WatchedNotInHand
<1>0. PICK o \in Operations : o = sweeper'[r].o
    BY DEF Placed
<1>1. SweeperMove(r) /\ CallMove(o, s)
    BY DEF SweeperMoves, CallMoves
<1>2. CASE /\ sweeper[r].pc # "idle" /\ Watched(r, s) /\ sweeper[r].o = o
   <2>1. call'[o][s].stage # "none" /\ call[o][s].stage # "none"
      BY <1>0, <1>1, <1>2 DEF CallMove, WatchedNotInHand
   <2>2. ASSUME NEW e \in Executors, executor'[e].pc \in InHand,
                    executor'[e].o = o, executor'[e].s = s
         PROVE FALSE
      <3>1. ExecutorMove(e)
          BY DEF ExecutorMoves
      <3> QED BY <1>0, <1>2, <2>1, <2>2, <3>1 DEF ExecutorMove,
                 WatchedNotInHand, InHand, Dispatching
   <2> QED BY <1>0, <2>1, <2>2
<1>3. CASE /\ DispatchFree(o)
       /\ call[o][s].stage = "intended"
       /\ call'[o][s].stage = call[o][s].stage
       /\ executor' = executor
   BY <1>0, <1>3 DEF DispatchFree, InStep, InHand
<1> QED BY <1>0, <1>1, <1>2, <1>3 DEF SweeperMove, Watched, AtStep

(* OpenUndecided is kept.                                                   *)
LEMMA OpenUndecidedStep ==
  ASSUME OpenUndecided, CallMoves, RequestMoves
  PROVE  OpenUndecided'
BY DEF OpenUndecided, CallMoves, RequestMoves, CallMove, ProviderMove

(* OutcomesTrue is kept.                                                    *)
LEMMA OutcomesTrueStep ==
  ASSUME OutcomesTrue, OpenUndecided, CallMoves, RequestMoves
  PROVE  OutcomesTrue'
<1> SUFFICES ASSUME NEW o \in Operations, NEW s \in Steps
             PROVE  Truth(call'[o][s].outcome, provider'[o][s])
  BY DEF OutcomesTrue, Truth
<1>1. CallMove(o, s) /\ ProviderMove(o, s)
  BY DEF CallMoves, RequestMoves
<1> QED BY <1>1 DEF CallMove, ProviderMove, OutcomesTrue, OpenUndecided, Truth

(* SweepAnswersTrue is kept.                                                *)
LEMMA SweepAnswersTrueStep ==
  ASSUME SweepAnswersTrue, ProviderTyped, RequestMoves, AnswerMoves, Placed
  PROVE  SweepAnswersTrue'
<1> SUFFICES ASSUME NEW r \in Sweepers,
                        sweeper'[r].pc \in {"answered", "orphan answered"}
             PROVE  Truth(sweeper'[r].answer,
                        provider'[sweeper'[r].o][sweeper'[r].s])
  BY DEF SweepAnswersTrue, Truth
<1>1. CASE sweeper'[r] = sweeper[r]
  <2>0. PICK o \in Operations, s \in Steps: o = sweeper[r].o /\ s = sweeper[r].s
    BY <1>1 DEF Placed
  <2>1. ProviderMove(o, s) /\ Watched(r, s)
    BY <1>1, <2>0 DEF RequestMoves, Watched, AtStep
  <2>2. Truth(sweeper[r].answer, provider[o][s])
    BY <1>1, <2>0 DEF SweepAnswersTrue
  <2>3. Truth(sweeper[r].answer, provider'[o][s])
    BY <1>1, <2>0, <2>1, <2>2 DEF ProviderMove, Truth
  <2> QED BY <1>1, <2>0, <2>3
<1>2. CASE sweeper'[r] # sweeper[r]
  BY <1>2 DEF AnswerMoves, AnswerMove
<1> QED BY <1>1, <1>2

(* AnswerRecorded is kept.                                                  *)
LEMMA AnswerRecordedStep ==
  ASSUME AnswerRecorded, OpenUndecided, RecordMoves, CallMoves, Placed, Placed'
  PROVE  AnswerRecorded'
<1> SUFFICES ASSUME NEW e \in Executors,
                        executor'[e].pc \in {"observed", "closing"}
             PROVE  /\ call'[executor'[e].o][executor'[e].s].stage \notin
                          {"none", "intended"}
                    /\ call'[executor'[e].o][executor'[e].s].outcome
                           = executor'[e].answer
  BY DEF AnswerRecorded
<1>0. PICK o \in Operations, s \in Steps: o = executor'[e].o
          /\ s = executor'[e].s
  BY DEF Placed
<1>1. CallMove(o, s) /\ RecordMove(e)
  BY DEF CallMoves, RecordMoves
<1>2. CASE /\ executor[e].pc \in {"observed", "closing"} /\ executor[e].o = o
          /\ executor[e].s = s
           /\ executor'[e].answer = executor[e].answer
  BY <1>0, <1>1, <1>2 DEF AnswerRecorded, CallMove
<1> QED BY <1>0, <1>1, <1>2 DEF RecordMove

(* OrderedCalls is kept.                                                    *)
LEMMA OrderedCallsStep ==
  ASSUME OrderedCalls, OpenUndecided, CallMoves
  PROVE  OrderedCalls'
<1> SUFFICES ASSUME NEW o \in Operations, NEW s \in Steps, NEW t \in Steps,
                        t < s, call'[o][s].stage # "none"
             PROVE  call'[o][t].outcome = "succeeded"
  BY DEF OrderedCalls
<1>1. CallMove(o, s) /\ CallMove(o, t)
  BY DEF CallMoves
<1>2. call[o][t].outcome = "succeeded"
  <2>1. t \in 1 .. s - 1
    BY ExecutionAssumption DEF Steps
  <2> QED BY <1>1, <2>1 DEF CallMove, OrderedCalls
<1>3. call[o][t].stage \notin {"none", "intended"}
  BY <1>2 DEF OpenUndecided
<1> QED BY <1>1, <1>2, <1>3 DEF CallMove

(* OpenWhileDispatching is kept.                                            *)
LEMMA OpenWhileDispatchingStep ==
  ASSUME OpenWhileDispatching, ExecutorMoves, VerdictMoves, LockHeldByHolder',
         Placed, Placed'
  PROVE  OpenWhileDispatching'
<1> SUFFICES ASSUME NEW e \in Executors, executor'[e].pc \in Unsent
             PROVE  op'[executor'[e].o].state \notin {"succeeded", "failed",
                        "cancelled"}
  BY DEF OpenWhileDispatching
<1>0. PICK o \in Operations : o = executor'[e].o
  BY DEF Placed, Unsent
<1>1. InStep(e, o)'
  BY <1>0 DEF InStep, Unsent
<1>2. lease'[o].holder # Nobody
  BY <1>1, ExecutionAssumption DEF LockHeldByHolder
<1>3. ExecutorMove(e) /\ VerdictMove(o)
  BY DEF ExecutorMoves, VerdictMoves
<1>4. CASE executor[e].o = o /\ executor[e].pc \in Unsent
  BY <1>0, <1>2, <1>3, <1>4 DEF OpenWhileDispatching, VerdictMove
<1>5. CASE op'[o].state \notin TERMINAL_STATES
  BY <1>0, <1>5 DEF TERMINAL_STATES
<1> QED BY <1>0, <1>3, <1>4, <1>5 DEF ExecutorMove, Unsent, Dispatching,
           InHand

(* WithinCapacity is kept.                                                  *)
LEMMA WithinCapacityStep ==
  ASSUME LeaseMoves, LeaseTyped, LeaseTyped', WithinCapacity
  PROVE  WithinCapacity'
<1> DEFINE Mine == {o \in Operations: lease[o].live
        /\ lease[o].holder \in Executors}
<1>1. CASE \A o \in Operations: lease'[o].live /\ lease'[o].holder \in Executors
                                => lease[o].live
                                    /\ lease[o].holder \in Executors
  <2>1. Mine' \subseteq Mine /\ IsFiniteSet(Mine)
    BY <1>1, ExecutionAssumption, FS_Subset
  <2> QED BY <2>1, FS_Subset, FS_CardinalityType, ExecutionAssumption DEF
             WithinCapacity
<1>2. ASSUME NEW o \in Operations, lease'[o].live,
                 lease'[o].holder \in Executors,
             ~ (lease[o].live /\ lease[o].holder \in Executors)
      PROVE  WithinCapacity'
  <2>1. /\ Cardinality(LiveElsewhere(o)) < MAX_CONCURRENT
        /\ \A p \in Operations \ {o}: lease'[p] = lease[p]
    BY <1>2 DEF LeaseMoves, LeaseMove
  <2>2. IsFiniteSet(LiveElsewhere(o)) /\ o \notin LiveElsewhere(o)
    BY ExecutionAssumption, FS_Subset DEF LiveElsewhere
  <2>3. /\ IsFiniteSet(LiveElsewhere(o) \cup {o})
        /\ Cardinality(LiveElsewhere(o) \cup {o})
               = Cardinality(LiveElsewhere(o)) + 1
    BY <2>2, FS_AddElement
  <2>4. Mine' \subseteq LiveElsewhere(o) \cup {o}
    BY <2>1 DEF LiveElsewhere
  <2>5. Cardinality(Mine') <= Cardinality(LiveElsewhere(o) \cup {o})
    BY <2>3, <2>4, FS_Subset
  <2>6. Cardinality(LiveElsewhere(o)) + 1 <= MAX_CONCURRENT
    BY <2>1, <2>2, FS_CardinalityType, ExecutionAssumption
  <2> QED BY <2>3, <2>4, <2>5, <2>6, FS_Subset, FS_CardinalityType,
             ExecutionAssumption DEF WithinCapacity
<1> QED BY <1>1, <1>2

(* What a hook answers is true.                                             *)
LEMMA HookAnswersTrueStep ==
  ASSUME ExecutorTyped, ProviderTyped, Placed, LockHeldByHolder, OpenUndecided,
         HookAnswersTrue, [Next]_vars
  PROVE  HookAnswersTrue'
<1>1. ASSUME NEW e \in Executors, NEW o \in Operations, Acquire(e, o)
      PROVE  HookAnswersTrue'
      BY <1>1 DEF HookAnswersTrue, Acquire, Running
<1>2. ASSUME NEW e \in Executors, NEW s \in Steps, RecordIntent(e, s)
      PROVE  HookAnswersTrue'
      BY <1>2 DEF HookAnswersTrue, Placed, OpenUndecided, RecordIntent,
         InPlan, StepAllowed
<1>3. ASSUME NEW e \in Executors, NEW s \in Steps, RepeatStep(e, s)
      PROVE  HookAnswersTrue'
      BY <1>3 DEF HookAnswersTrue, RepeatStep
<1>4. ASSUME NEW e \in Executors, CheckCancellation(e) PROVE HookAnswersTrue'
      BY <1>4 DEF HookAnswersTrue, ExecutorTyped, ExecutorStates,
         CheckCancellation, InPlan, Leave, Running
<1>5. ASSUME NEW e \in Executors, CallProvider(e) PROVE HookAnswersTrue'
      BY <1>5 DEF HookAnswersTrue, ExecutorTyped, Placed, LockHeldByHolder,
         InStep, CallProvider, InPlan
<1>6. ASSUME NEW e \in Executors, HookReturns(e) PROVE HookAnswersTrue'
      BY <1>6 DEF HookAnswersTrue, Truth, ProviderTyped, Placed, HookReturns,
         HookAnswers, InPlan
<1>7. ASSUME NEW e \in Executors, RecordAnswer(e) PROVE HookAnswersTrue'
      BY <1>7 DEF HookAnswersTrue, ExecutorTyped, ExecutorStates,
         RecordAnswer, Leave, Running
<1>8. ASSUME NEW e \in Executors, PollCancellation(e) PROVE HookAnswersTrue'
      BY <1>8 DEF HookAnswersTrue, ExecutorTyped, ExecutorStates,
         PollCancellation, Leave, Running
<1>9. ASSUME NEW e \in Executors, FinishStep(e) PROVE HookAnswersTrue'
      BY <1>9 DEF HookAnswersTrue, FinishStep, Leave, Running
<1>10. ASSUME NEW e \in Executors, ReleaseLease(e) PROVE HookAnswersTrue'
      BY <1>10 DEF HookAnswersTrue, ReleaseLease, Idle
<1>11. ASSUME NEW e \in Executors, Stop(e) PROVE HookAnswersTrue'
      BY <1>11 DEF HookAnswersTrue, Stop, Idle
<1>12. ASSUME NEW o \in Operations, NEW s \in Steps, Arrive(o, s)
       PROVE  HookAnswersTrue'
      BY <1>12 DEF HookAnswersTrue, Truth, Arrive
<1>13. CASE UNCHANGED <<executor, provider>>
      BY <1>13 DEF HookAnswersTrue
<1> QED
      BY <1>1, <1>2, <1>3, <1>4, <1>5, <1>6, <1>7, <1>8, <1>9, <1>10, <1>11,
         <1>12, <1>13, ExecutorWriters, ProviderWriters
         DEF ExecutorSteps, ProviderSteps

(* A request that goes out is the next step of the plan.                    *)
LEMMA StartSent ==
  ASSUME SentPrefix, OrderedCalls, OutcomesTrue, HookAnswersTrue,
         DispatchedIsIntended, ProviderTyped, SentTyped, Placed,
         NEW e \in Executors, CallProvider(e)
  PROVE  SentPrefix' /\ sent[executor[e].o] + 1 = executor[e].s
<1>0. PICK o \in Operations, s \in Steps : o = executor[e].o
          /\ s = executor[e].s
  BY DEF CallProvider, InPlan, Placed
<1>1. provider[o][s] = "none" /\ call[o][s].stage = "intended"
  BY <1>0 DEF CallProvider, InPlan, HookAnswersTrue, DispatchedIsIntended,
     Dispatching, InHand
<1>2. \A t \in Steps : t < s => provider[o][t] = "performed"
  BY <1>1 DEF OrderedCalls, OutcomesTrue, Truth
<1>3. sent[o] + 1 = s
  <2>1. sent[o] \in 0 .. STEPS /\ s > sent[o]
    BY <1>1, ExecutionAssumption DEF SentPrefix, Steps
  <2>2. CASE s = 1
    BY <2>1, <2>2, ExecutionAssumption DEF Steps
  <2>3. CASE s # 1
    <3>1. s - 1 \in Steps /\ s - 1 < s
      BY <2>3, ExecutionAssumption DEF Steps
    <3>2. s - 1 <= sent[o]
      BY <1>2, <3>1 DEF SentPrefix
    <3> QED BY <2>1, <3>2, ExecutionAssumption DEF Steps
  <2> QED BY <2>2, <2>3
<1>4. /\ provider' = [provider EXCEPT ![o][s] = "inflight"]
      /\ sent' = [sent EXCEPT ![o] = @ + 1]
  BY <1>0 DEF CallProvider
<1>5. \A p \in Operations \ {o} : sent'[p] = sent[p]
          /\ provider'[p] = provider[p]
  BY <1>4 DEF ProviderTyped, SentTyped
<1>6. /\ sent'[o] = s
      /\ \A t \in Steps :
             provider'[o][t] = IF t = s THEN "inflight" ELSE provider[o][t]
  BY <1>3, <1>4 DEF ProviderTyped, SentTyped
<1>7. s \in 0 .. STEPS /\ \A t \in Steps : provider'[o][t] # "none" <=> t <= s
  BY <1>3, <1>6, ExecutionAssumption DEF SentPrefix, Steps
<1>8. SentPrefix'
  BY <1>5, <1>6, <1>7 DEF SentPrefix
<1> QED BY <1>0, <1>3, <1>8

(* What was sent is a prefix of the plan.                                   *)
LEMMA SentPrefixStep ==
  ASSUME ProviderTyped, SentTyped, Placed, DispatchedIsIntended, OutcomesTrue,
         HookAnswersTrue, OrderedCalls, SentPrefix, [Next]_vars
  PROVE  SentPrefix'
<1>1. ASSUME NEW e \in Executors, CallProvider(e) PROVE SentPrefix'
      BY <1>1, StartSent
<1>2. ASSUME NEW o \in Operations, NEW s \in Steps, Arrive(o, s)
      PROVE  SentPrefix'
  <2> USE <1>2
  <2>1. \A p \in Operations, t \in Steps : provider'[p][t] # "none" <=>
            provider[p][t] # "none"
    BY DEF Arrive, ProviderTyped
  <2> QED BY <2>1 DEF SentPrefix, Arrive
<1>3. CASE UNCHANGED <<provider, sent>>
      BY <1>3 DEF SentPrefix
<1> QED
      BY <1>1, <1>2, <1>3, ProviderWriters, SentWriters
         DEF ProviderSteps, SentSteps

(* Conclusions move as VerdictMove says.                                    *)
LEMMA VerdictsMove ==
  ASSUME LeaseTyped, CallTyped, OperationTyped, Placed, OpenUndecided,
         OutcomesTrue, OrderedCalls, AnswerRecorded, CallTyped',
         OpenUndecided', OutcomesTrue', [Next]_vars
  PROVE  VerdictMoves
<1>1. ASSUME NEW e \in Executors, CheckCancellation(e) PROVE VerdictMoves
  <2> USE <1>1
  <2>1. PICK o \in Operations, s \in Steps: o = executor[e].o
            /\ s = executor[e].s
    BY DEF CheckCancellation, InPlan, Placed
  <2> DEFINE plan == [call[o] EXCEPT ![s] = [@ EXCEPT !.stage = "observed",
          !.outcome = "absent"]]
  <2>2. CASE UNCHANGED op
    BY <2>2 DEF VerdictMoves, VerdictMove
  <2>5. ASSUME NEW owed, op' = [op EXCEPT ![o].cleanup = owed]
        PROVE  VerdictMoves
    <3>1. \A x \in Operations : op'[x].state = op[x].state
      BY <2>5 DEF OperationTyped, OperationRows
    <3> QED BY <3>1 DEF VerdictMoves, VerdictMove
  <2>6. CASE Concluded(o)
            /\ op' = [op EXCEPT ![o].state = Settled(o, "cancelled")]
    <3>1. \A x \in Operations : op'[x].state = op[x].state
      BY <2>6 DEF OperationTyped, OperationRows, Settled
    <3> QED BY <3>1 DEF VerdictMoves, VerdictMove
  <2>3. CASE /\ call' = [call EXCEPT ![o] = plan]
             /\ Released(plan)
             /\ op' = [op EXCEPT ![o].state = Settled(o, "cancelled")]
             /\ lease' = [lease EXCEPT ![o] = Closed(o)]
    <3>1. lease'[o].holder = Nobody /\ UNCHANGED <<provider, sent>>
      BY <2>3, LeaseGiven DEF CheckCancellation
    <3>2. plan = call'[o] /\ plan \in [Steps -> CallRows]
      <4> HIDE DEF plan
      <4> QED BY <2>3 DEF CallTyped
    <3> HIDE DEF plan
    <3>3. \A t \in Steps: Truth(plan[t].outcome, provider[o][t])
              /\ (plan[t].stage = "none" => provider[o][t] = "none")
      BY <3>1, <3>2 DEF OutcomesTrue, OpenUndecided
    <3>4. \A t \in Steps : provider[o][t] \in {"none", "refused"}
      <4> DEFINE made == provider[o]
      <4>1. \A t \in Steps: Truth(plan[t].outcome, made[t])
                /\ (plan[t].stage = "none" => made[t] = "none")
        BY <3>3
      <4>2. Released(plan)
        BY <2>3
      <4> HIDE DEF made
      <4>3. \A t \in Steps : made[t] \in {"none", "refused"}
        BY <3>2, <4>1, <4>2, ReleasedPlan
      <4> QED BY <4>3 DEF made
    <3>5. /\ op'[o].state = op[o].state
                 \/ (op[o].state = "running" /\ op'[o].state = "cancelled")
          /\ \A p \in Operations \ {o} : op'[p] = op[p]
      BY <2>3 DEF OperationTyped, OperationRows, Settled, Concluded
    <3>6. VerdictMove(o)
      BY <3>1, <3>4, <3>5 DEF VerdictMove
    <3> QED BY <3>5, <3>6 DEF VerdictMoves, VerdictMove
  <2>7. \/ UNCHANGED op
        \/ SettleCancelled(o, plan) /\ call' = [call EXCEPT ![o] = plan]
    BY <2>1 DEF CheckCancellation
  <2>8. SettleCancelled(o, plan) =>
          \/ op' = [op EXCEPT ![o].cleanup = @ \/ ~ Released(plan)]
          \/ Concluded(o)
                 /\ op' = [op EXCEPT ![o].state = Settled(o, "cancelled")]
          \/ /\ Released(plan)
             /\ op' = [op EXCEPT ![o].state = Settled(o, "cancelled")]
             /\ lease' = [lease EXCEPT ![o] = Closed(o)]
    BY DEF SettleCancelled
  <2> HIDE DEF plan
  <2> QED BY <2>2, <2>3, <2>5, <2>6, <2>7, <2>8
<1>2. ASSUME NEW e \in Executors, RecordAnswer(e) PROVE VerdictMoves
      BY <1>2 DEF OperationTyped, OperationRows, VerdictMoves, VerdictMove,
         RecordAnswer
<1>3. ASSUME NEW e \in Executors, FinishStep(e) PROVE VerdictMoves
  <2> USE <1>3
  <2>1. PICK o \in Operations, s \in Steps: o = executor[e].o
            /\ s = executor[e].s
    BY DEF FinishStep, InPlan, Placed
  <2> DEFINE v == StepVerdict(o, executor[e].answer)
  <2>2. CASE UNCHANGED <<op, lease>>
    BY <2>2 DEF VerdictMoves, VerdictMove
  <2>3. CASE /\ v # "none" /\ ~ Concluded(o)
             /\ op' = [op EXCEPT ![o].state = v]
             /\ lease' = [lease EXCEPT ![o] = Closed(o)]
    <3>1. /\ op[o].state = "running" /\ op'[o].state = v
          /\ \A p \in Operations \ {o} : op'[p] = op[p]
      BY <2>3 DEF OperationTyped, OperationRows, Concluded
    <3>2. lease'[o].holder = Nobody /\ UNCHANGED <<provider, sent>>
      BY <2>3, LeaseGiven DEF FinishStep
    <3>3. v = "succeeded" => \A t \in Steps : provider[o][t] = "performed"
      BY CompletePlan DEF StepVerdict, OutcomesTrue, CallTyped
    <3>4. v = "failed" => \A t \in Steps : provider[o][t] # "inflight"
      <4> SUFFICES ASSUME v = "failed", NEW t \in Steps
                   PROVE  provider[o][t] # "inflight"
        OBVIOUS
      <4>1. executor[e].answer = "absent"
        BY DEF StepVerdict
      <4>2. call[o][s].outcome = "absent" /\ provider[o][s] # "inflight"
        BY <2>1, <4>1 DEF FinishStep, InPlan, AnswerRecorded, OutcomesTrue,
           Truth
      <4>3. CASE t < s
        <5>1. call[o][t].outcome = "succeeded"
          BY <2>1, <4>3 DEF FinishStep, InPlan, AnswerRecorded, OrderedCalls
        <5> QED BY <5>1 DEF OutcomesTrue, Truth
      <4>4. CASE s < t
        <5>1. call[o][t].stage = "none"
          BY <4>2, <4>4 DEF OrderedCalls
        <5> QED BY <5>1 DEF OpenUndecided
      <4> QED BY <4>2, <4>3, <4>4, ExecutionAssumption DEF Steps
    <3>5. v \in {"succeeded", "failed"}
      BY <2>3 DEF StepVerdict
    <3> HIDE DEF v
    <3>6. VerdictMove(o)
      BY <3>1, <3>2, <3>3, <3>4, <3>5 DEF VerdictMove
    <3> QED BY <3>1, <3>6 DEF VerdictMoves, VerdictMove
  <2> QED BY <2>1, <2>2, <2>3 DEF FinishStep
<1>4. ASSUME NEW o \in Operations, RequestCancellation(o) PROVE VerdictMoves
      BY <1>4 DEF VerdictMoves, VerdictMove, RequestCancellation
<1>5. ASSUME NEW o \in Operations, SettleUnheld(o) PROVE VerdictMoves
  <2> USE <1>5
  <2>1. /\ lease'[o].holder = Nobody
        /\ UNCHANGED <<provider, sent>>
    BY LeaseGiven DEF SettleUnheld
  <2>2. CASE Concluded(o)
    BY <2>2 DEF SettleUnheld, VerdictMoves, VerdictMove
  <2>3. CASE ~ Concluded(o)
    <3>1. op[o].state = "running" /\ \A p \in Operations \ {o} : op'[p] = op[p]
      BY <2>3 DEF SettleUnheld, OperationTyped, OperationRows, Concluded
    <3>2. op'[o].state = IF Recorded(call[o]) # {} THEN "unknown"
              ELSE "cancelled"
      BY <2>3 DEF SettleUnheld, OperationTyped, OperationRows, Decided
    <3>3. Recorded(call[o]) = {} => \A s \in Steps : provider[o][s] = "none"
      BY DEF Recorded, OpenUndecided
    <3>4. VerdictMove(o)
      BY <2>1, <3>1, <3>2, <3>3 DEF VerdictMove
    <3> QED BY <3>1, <3>4 DEF VerdictMoves, VerdictMove
  <2> QED BY <2>2, <2>3
<1>6. ASSUME NEW o \in Operations, GiveUp(o) PROVE VerdictMoves
  <2> USE <1>6
  <2>1. op[o].state = "running" /\ op'[o].state = "unknown"
            /\ \A p \in Operations \ {o} : op'[p] = op[p]
    BY DEF GiveUp, OperationTyped, OperationRows, Concluded
  <2> QED BY <2>1 DEF VerdictMoves, VerdictMove, GiveUp
<1>7. ASSUME NEW r \in Sweepers, NEW p, ConcludeRecovery(r, p)
      PROVE  VerdictMoves
  <2> USE <1>7
  <2>1. PICK o \in Operations: o = sweeper[r].o
    BY DEF ConcludeRecovery, Placed
  <2>2. CASE UNCHANGED op
    BY <2>2 DEF VerdictMoves, VerdictMove
  <2>3. ASSUME NEW owed, op' = [op EXCEPT ![o].cleanup = owed]
        PROVE  VerdictMoves
    <3>1. \A x \in Operations : op'[x].state = op[x].state
      BY <2>3 DEF OperationTyped, OperationRows
    <3> QED BY <3>1 DEF VerdictMoves, VerdictMove
  <2>4. ASSUME NEW owed,
             op' = [op EXCEPT ![o] = Decided(o,
                 Settled(o, Verdict(o, call[o], p = "cleaned")), owed)],
             lease' = [lease EXCEPT ![o] = Closed(o)] PROVE VerdictMoves
    <3>1. lease'[o].holder = Nobody /\ UNCHANGED <<provider, sent>>
      BY <2>4, LeaseGiven DEF ConcludeRecovery
    <3>2. call[o] \in [Steps -> CallRows]
      BY DEF CallTyped
    <3>3. \A s \in Steps: Truth(call[o][s].outcome, provider[o][s])
              /\ (call[o][s].stage = "none" => provider[o][s] = "none")
      BY DEF OutcomesTrue, OpenUndecided
    <3> QED BY <3>1, <3>2, <3>3, <2>4, VerdictDecided
  <2> QED BY <2>1, <2>2, <2>3, <2>4 DEF ConcludeRecovery
<1>8. ASSUME NEW r \in Sweepers, RecordOrphan(r) PROVE VerdictMoves
  <2> USE <1>8
  <2>1. PICK o \in Operations, s \in Steps: o = sweeper[r].o /\ s = sweeper[r].s
    BY DEF RecordOrphan, Placed
  <2> DEFINE plan == [call[o] EXCEPT ![s] = Reconciled(@, sweeper[r].answer)]
  <2>2. CASE UNCHANGED op
    BY <2>2 DEF VerdictMoves, VerdictMove
  <2>3. ASSUME NEW owed, call' = [call EXCEPT ![o] = plan],
             op' = [op EXCEPT ![o] = Decided(o,
                 Settled(o, Verdict(o, plan, FALSE)), owed)],
             lease' = [lease EXCEPT ![o] = Closed(o)] PROVE VerdictMoves
    <3>1. lease'[o].holder = Nobody /\ UNCHANGED <<provider, sent>>
      BY <2>3, LeaseGiven DEF RecordOrphan
    <3>2. plan = call'[o] /\ plan \in [Steps -> CallRows]
      <4> HIDE DEF plan
      <4> QED BY <2>3 DEF CallTyped
    <3> HIDE DEF plan
    <3>3. \A t \in Steps: Truth(plan[t].outcome, provider[o][t])
              /\ (plan[t].stage = "none" => provider[o][t] = "none")
      BY <3>1, <3>2 DEF OutcomesTrue, OpenUndecided
    <3> QED BY <3>1, <3>2, <3>3, <2>3, VerdictDecided
  <2>4. \/ UNCHANGED op
        \/ /\ call' = [call EXCEPT ![o] = plan]
           /\ op' = [op EXCEPT ![o] = Decided(o,
                  Settled(o, Verdict(o, plan, FALSE)),
                                op[o].cleanup
                                    \/ (op[o].cancel /\ ~ Released(plan)))]
           /\ lease' = [lease EXCEPT ![o] = Closed(o)]
    BY <2>1 DEF RecordOrphan
  <2> QED BY <2>2, <2>3, <2>4
<1>9. CASE UNCHANGED op
      BY <1>9 DEF VerdictMoves, VerdictMove
<1> QED
      BY <1>1, <1>2, <1>3, <1>4, <1>5, <1>6, <1>7, <1>8, <1>9, OpWriters
         DEF OpSteps


-----------------------------------------------------------------------------
(* The refinement.  The steps sent are performed, but for the last one.     *)

Shaped(o) ==
   /\ sent[o] \in 0 .. STEPS
   /\ sent[o] = 0 => Cardinality(Performed(o)) = 0 /\ ~ Refused(o)
   /\ sent[o] # 0 =>
        /\ provider[o][sent[o]] = "performed" =>
              Cardinality(Performed(o)) = sent[o]
        /\ provider[o][sent[o]] # "performed" =>
              Cardinality(Performed(o)) = sent[o] - 1
        /\ Refused(o) <=> provider[o][sent[o]] = "refused"

(* Every step before the last one sent was performed, none after it was     *)
(* sent.                                                                    *)
LEMMA SentShape ==
  ASSUME SentPrefix, OrderedCalls, OutcomesTrue, OpenUndecided, ProviderTyped,
         SentTyped, NEW o \in Operations
  PROVE  /\ \A t \in Steps : t < sent[o] => provider[o][t] = "performed"
   /\ \A t \in Steps : t > sent[o] => provider[o][t] = "none"
<1>1. \A t \in Steps : t < sent[o] => provider[o][t] = "performed"
  <2> SUFFICES ASSUME NEW t \in Steps, t < sent[o]
               PROVE  provider[o][t] = "performed"
    OBVIOUS
  <2>1. sent[o] \in Steps /\ provider[o][sent[o]] # "none"
    BY ExecutionAssumption DEF SentPrefix, Steps
  <2>2. call[o][sent[o]].stage # "none"
    BY <2>1 DEF OpenUndecided
  <2>3. call[o][t].outcome = "succeeded"
    BY <2>1, <2>2 DEF OrderedCalls
  <2> QED BY <2>3 DEF OutcomesTrue, Truth
<1>2. \A t \in Steps : t > sent[o] => provider[o][t] = "none"
  BY ExecutionAssumption DEF SentPrefix, Steps
<1> QED BY <1>1, <1>2

(* How the counts of PlanRun follow from the last step sent.                *)
LEMMA SentIsShaped ==
  ASSUME SentPrefix, OrderedCalls, OutcomesTrue, OpenUndecided, ProviderTyped,
         SentTyped, NEW o \in Operations
  PROVE  Shaped(o)
<1>1. sent[o] \in 0 .. STEPS /\ STEPS \in Nat
  BY ExecutionAssumption DEF SentPrefix
<1>2. /\ \A t \in Steps : t < sent[o] => provider[o][t] = "performed"
      /\ \A t \in Steps : t > sent[o] => provider[o][t] = "none"
  BY SentShape
<1>3. \A n \in 0 .. STEPS : Cardinality(1 .. n) = n
  BY <1>1, FS_Interval
<1>4. CASE sent[o] = 0
  <2>1. Performed(o) = 1 .. 0 /\ ~ Refused(o)
    BY <1>1, <1>2, <1>4 DEF Performed, Refused, Steps
  <2> QED BY <1>1, <1>3, <1>4, <2>1 DEF Shaped
<1>5. CASE sent[o] # 0
  <2>1. sent[o] \in Steps
    BY <1>1, <1>5 DEF Steps
  <2>2. provider[o][sent[o]] = "performed" => Performed(o) = 1 .. sent[o]
    BY <1>1, <1>2, <2>1 DEF Performed, Steps
  <2>3. provider[o][sent[o]] # "performed" => Performed(o) = 1 .. (sent[o] - 1)
    BY <1>1, <1>2, <2>1 DEF Performed, Steps
  <2>4. Refused(o) <=> provider[o][sent[o]] = "refused"
    BY <1>1, <1>2, <2>1 DEF Refused, Steps
  <2>5. sent[o] - 1 \in 0 .. STEPS
    BY <1>1, <1>5
  <2> QED BY <1>1, <1>3, <1>5, <2>2, <2>3, <2>4, <2>5 DEF Shaped
<1> QED BY <1>4, <1>5

(* A provider call is PlanRun's Start.                                      *)
LEMMA CallStarts ==
  ASSUME SentPrefix, OrderedCalls, OutcomesTrue, OpenUndecided,
         HookAnswersTrue, DispatchedIsIntended, OpenWhileDispatching,
         ProviderTyped, SentTyped, Placed, NEW e \in Executors, CallProvider(e)
  PROVE  P!Next
<1>0. PICK o \in Operations, s \in Steps : o = executor[e].o
          /\ s = executor[e].s
  BY DEF CallProvider, InPlan, Placed
<1>1. /\ sent[o] + 1 = s
      /\ \A t \in Steps : t < sent[o] => provider[o][t] = "performed"
      /\ Shaped(o)
  BY <1>0, StartSent, SentShape, SentIsShaped
<1>2. provider[o][s] = "none" /\ call[o][s].stage = "intended"
  BY <1>0 DEF CallProvider, InPlan, HookAnswersTrue, DispatchedIsIntended,
     Dispatching, InHand
<1>3. Cardinality(Performed(o)) = sent[o]
  <2>1. sent[o] # 0 => provider[o][sent[o]] = "performed"
    <3>1. sent[o] # 0 => sent[o] \in Steps /\ sent[o] < s
      BY <1>1, ExecutionAssumption DEF Steps, Shaped
    <3> QED BY <1>2, <3>1 DEF OrderedCalls, OutcomesTrue, Truth
  <2> QED BY <1>1, <2>1 DEF Shaped
<1>4. /\ sent' = [sent EXCEPT ![o] = @ + 1]
      /\ \A p \in Operations, t \in Steps : provider'[p][t] = IF p = o
             /\ t = s THEN "inflight" ELSE provider[p][t]
      /\ op' = op
  BY <1>0 DEF CallProvider, ProviderTyped
<1>5. \A p \in Operations : /\ Performed(p)' = Performed(p)
                            /\ Refused(p)' = Refused(p)
                            /\ Conclusion(p)' = Conclusion(p)
  BY <1>2, <1>4 DEF Performed, Refused, Conclusion, Concluded
<1>6. Conclusion(o) \in {"open", "unknown"}
  <2>1. op[o].state \notin {"succeeded", "failed", "cancelled"}
    BY <1>0 DEF CallProvider, InPlan, OpenWhileDispatching, Unsent
  <2> QED BY <2>1 DEF Conclusion, Concluded, TERMINAL_STATES
<1>7. sent[o] < STEPS
  BY <1>1, ExecutionAssumption DEF Shaped, Steps
<1>8. P!Start(o)
  BY <1>3, <1>4, <1>5, <1>6, <1>7 DEF P!Start
<1> QED BY <1>8 DEF P!Next

(* The provider's decision is PlanRun's Perform or Refuse.                  *)
LEMMA ArrivalPerforms ==
  ASSUME SentPrefix, OrderedCalls, OutcomesTrue, OpenUndecided, ProviderTyped,
         SentTyped,
         (SentPrefix /\ OrderedCalls /\ OutcomesTrue /\ OpenUndecided
             /\ ProviderTyped /\ SentTyped)',
         NEW o \in Operations, NEW s \in Steps, Arrive(o, s)
  PROVE  P!Next
<1>1. /\ provider[o][s] = "inflight"
      /\ \A t \in Steps : t < sent[o] => provider[o][t] = "performed"
      /\ \A t \in Steps : t > sent[o] => provider[o][t] = "none"
      /\ Shaped(o) /\ sent' = sent /\ op' = op
  BY SentShape, SentIsShaped DEF Arrive
<1>2. Shaped(o)'
  BY SentIsShaped, PTL
<1>3. sent[o] = s /\ s # 0
  BY <1>1, ExecutionAssumption DEF Shaped, Steps
<1>4. PICK result \in {"performed", "refused"} :
          provider' = [provider EXCEPT ![o][s] = result]
  BY DEF Arrive
<1>5. /\ provider'[o][s] = result
      /\ \A p \in Operations \ {o} : provider'[p] = provider[p]
  BY <1>4 DEF ProviderTyped
<1>6. /\ Cardinality(Performed(o)) = sent[o] - 1 /\ ~ Refused(o)
      /\ Cardinality(Performed(o))' = IF result = "performed" THEN sent[o]
             ELSE sent[o] - 1
      /\ Refused(o)' <=> result = "refused"
  BY <1>1, <1>2, <1>3, <1>5 DEF Shaped
<1>7. /\ \A p \in Operations \ {o} : Performed(p)' = Performed(p)
             /\ Refused(p)' = Refused(p)
      /\ \A p \in Operations : Conclusion(p)' = Conclusion(p)
  BY <1>1, <1>5 DEF Performed, Refused, Conclusion, Concluded
<1>8. sent[o] \in Nat
  BY DEF SentTyped
<1>11. sent[o] > Cardinality(Performed(o)) /\ ~ Refused(o)
  BY <1>6, <1>8
<1> DEFINE done == [p \in Operations |-> Cardinality(Performed(p))]
           halted == [p \in Operations |-> Refused(p)]
           verdict == [p \in Operations |-> Conclusion(p)]
<1>12. sent' = sent /\ verdict' = verdict
  BY <1>1, <1>7
<1>13. Refused(o) \in BOOLEAN /\ Refused(o)' \in BOOLEAN
  BY DEF Refused
<1>9. CASE result = "performed"
  <2>1. Refused(o)' = Refused(o)
    BY <1>6, <1>9, <1>13
  <2>2. halted' = halted
    BY <1>7, <2>1
  <2>3. done' = [done EXCEPT ![o] = @ + 1]
    <3>1. Cardinality(Performed(o))' = Cardinality(Performed(o)) + 1
      BY <1>6, <1>8, <1>9
    <3> QED BY <1>7, <3>1
  <2>4. P!Perform(o)
    BY <1>11, <1>12, <2>2, <2>3 DEF P!Perform, P!InFlight
  <2> QED BY <2>4 DEF P!Next
<1>10. CASE result = "refused"
  <2>1. Cardinality(Performed(o))' = Cardinality(Performed(o))
            /\ Refused(o)' = TRUE
    BY <1>6, <1>10, <1>13
  <2>2. done' = done
    BY <1>7, <2>1
  <2>3. halted' = [halted EXCEPT ![o] = TRUE]
    BY <1>7, <2>1
  <2>4. P!Refuse(o)
    BY <1>11, <1>12, <2>2, <2>3 DEF P!Refuse, P!InFlight
  <2> QED BY <2>4 DEF P!Next
<1> QED BY <1>9, <1>10

(* Everything else is PlanRun's Conclude or invisible.                      *)
LEMMA VerdictConcludes ==
  ASSUME SentPrefix, OrderedCalls, OutcomesTrue, OpenUndecided, ProviderTyped,
         SentTyped, VerdictMoves, UNCHANGED <<provider, sent>>
  PROVE  [P!Next]_(P!vars)
<1>1. \A p \in Operations : Performed(p)' = Performed(p)
          /\ Refused(p)' = Refused(p)
  BY DEF Performed, Refused
<1>2. CASE \A p \in Operations : op'[p].state = op[p].state
  <2>1. \A p \in Operations : Conclusion(p)' = Conclusion(p)
    BY <1>2 DEF Conclusion, Concluded
  <2> QED BY <1>1, <2>1 DEF P!vars
<1>3. ASSUME NEW o \in Operations, op'[o].state # op[o].state
      PROVE  P!Next
  <2>1. VerdictMove(o) /\ Shaped(o)
    BY SentIsShaped DEF VerdictMoves
  <2>2. Conclusion(o) = "open"
            /\ \A p \in Operations \ {o} : Conclusion(p)' = Conclusion(p)
    BY <1>3, <2>1 DEF VerdictMove, Conclusion, Concluded, TERMINAL_STATES
  <2>3. Conclusion(o)' = op'[o].state
    BY <1>3, <2>1 DEF VerdictMove, Conclusion, Concluded, TERMINAL_STATES
  <2>4. sent[o] # 0 =>
            sent[o] \in Steps
            /\ provider[o][sent[o]] \in {"inflight", "performed", "refused"}
    <3> SUFFICES ASSUME sent[o] # 0
                 PROVE  /\ sent[o] \in Steps
                        /\ provider[o][sent[o]] \in
                             {"inflight", "performed", "refused"}
      OBVIOUS
    <3>1. sent[o] \in Steps
      BY <2>1, ExecutionAssumption DEF Shaped, Steps
    <3>2. provider[o][sent[o]] # "none"
      BY <3>1, ExecutionAssumption DEF SentPrefix, Steps
    <3> QED BY <3>1, <3>2 DEF ProviderTyped
  <2>5. Cardinality(Performed(o)) \in Nat
    BY <2>1, ExecutionAssumption DEF Shaped
  <2>6. (\A s \in Steps : provider[o][s] # "inflight") =>
          ~ (sent[o] > Cardinality(Performed(o)) /\ ~ Refused(o))
    BY <2>1, <2>4, <2>5 DEF Shaped
  <2>7. (\A s \in Steps : provider[o][s] \in {"none", "refused"}) =>
            Cardinality(Performed(o)) = 0
    <3> SUFFICES ASSUME \A s \in Steps : provider[o][s] \in {"none", "refused"}
                 PROVE  Cardinality(Performed(o)) = 0
      OBVIOUS
    <3>1. Performed(o) = {}
      BY DEF Performed
    <3> QED BY <3>1, FS_EmptySet
  <2>8. (\A s \in Steps : provider[o][s] = "performed") =>
            Cardinality(Performed(o)) = STEPS
    <3> SUFFICES ASSUME \A s \in Steps : provider[o][s] = "performed"
                 PROVE  Cardinality(Performed(o)) = STEPS
      OBVIOUS
    <3>1. Performed(o) = 1 .. STEPS
      BY DEF Performed, Steps
    <3> QED BY <3>1, FS_Interval, ExecutionAssumption
  <2>9. P!Conclude(o)
    BY <1>1, <1>3, <2>1, <2>2, <2>3, <2>6, <2>7, <2>8 DEF VerdictMove,
       P!Conclude, P!InFlight
  <2> QED BY <2>9 DEF P!Next
<1> QED BY <1>2, <1>3


-----------------------------------------------------------------------------
(* The initial states.                                                      *)
LEMMA InitIInv == Init => IInv
<1> SUFFICES ASSUME Init PROVE IInv
  OBVIOUS
<1>1. /\ ExecutorTyped /\ LeaseTyped /\ CallTyped /\ SweeperTyped
             /\ ProviderTyped /\ SentTyped /\ OperationTyped /\ FaultsTyped
      /\ Placed
  BY ExecutionAssumption DEF Init, ExecutorTyped, LeaseTyped, CallTyped,
     SweeperTyped, ProviderTyped, SentTyped, OperationTyped, FaultsTyped,
     Placed, Idle, Resting, NoCall, ExecutorStates, SweeperStates, LeaseRows,
     CallRows, OperationRows, Answers
<1>2. /\ LockHeldByHolder /\ OrphanLockExclusive /\ DispatchedIsIntended
      /\ HookAnswersTrue /\ AnswerRecorded /\ OpenWhileDispatching
  BY DEF Init, Idle, Resting, LockHeldByHolder, OrphanLockExclusive,
     DispatchedIsIntended, HookAnswersTrue, AnswerRecorded,
     OpenWhileDispatching, InStep, Orphaning, Dispatching, InHand, Unsent
<1>3. /\ ClaimedIsIntended /\ AskedOnce /\ AttemptReserved /\ WatchedNotInHand
      /\ SweepAnswersTrue
  BY DEF Init, Resting, ClaimedIsIntended, AskedOnce, AttemptReserved,
     WatchedNotInHand, SweepAnswersTrue, Claiming, AtStep, Awaiting
<1>4. /\ OpenUndecided /\ OutcomesTrue /\ OrderedCalls
  BY DEF Init, NoCall, OpenUndecided, OutcomesTrue, OrderedCalls, Truth
<1>5. SentPrefix
  BY ExecutionAssumption DEF Init, SentPrefix, Steps
<1>6. WithinCapacity
  <2>1. {o \in Operations: lease[o].live /\ lease[o].holder \in Executors} = {}
    BY DEF Init
  <2> QED BY <2>1, FS_EmptySet, ExecutionAssumption DEF WithinCapacity
<1> QED BY <1>1, <1>2, <1>3, <1>4, <1>5, <1>6 DEF IInv

(* Every step keeps the invariant: types and moves first, then what         *)
(* survives them.                                                           *)
LEMMA StepIInv == ASSUME IInv, [Next]_vars PROVE IInv'
<1> USE DEF IInv
<1>1. ExecutorMoves /\ RecordMoves /\ SweeperMoves /\ AnswerMoves /\ LeaseMoves
          /\ CallMoves /\ RequestMoves
  BY ExecutorsMove, RecordsMove, SweepersMove, AnswersMove, LeasesMove,
     CallsMove, ProviderMoves
<1>2. (/\ ExecutorTyped /\ LeaseTyped /\ CallTyped /\ SweeperTyped
          /\ ProviderTyped /\ SentTyped /\ OperationTyped /\ FaultsTyped)'
  BY ExecutorTypedStep, SweeperTypedStep, LeaseTypedStep, CallTypedStep,
     OperationTypedStep, ProviderTypedStep, SentTypedStep, FaultsTypedStep
<1>3. Placed'
  BY <1>1, PlacedStep
<1>4. LockHeldByHolder'
  BY <1>1, <1>2, <1>3, LockHeldByHolderStep
<1>5. OrphanLockExclusive'
  BY <1>1, <1>2, <1>3, OrphanLockExclusiveStep
<1>6. DispatchedIsIntended'
  BY <1>1, <1>2, <1>3, DispatchedIsIntendedStep
<1>7. ClaimedIsIntended'
  BY <1>1, <1>2, <1>3, ClaimedIsIntendedStep
<1>8. AskedOnce'
  BY <1>1, <1>2, <1>3, AskedOnceStep
<1>9. AttemptReserved'
  BY <1>1, <1>2, <1>3, AttemptReservedStep
<1>10. WatchedNotInHand'
  BY <1>1, <1>2, <1>3, WatchedNotInHandStep
<1>11. OpenUndecided'
  BY <1>1, <1>2, <1>3, OpenUndecidedStep
<1>12. OutcomesTrue'
  BY <1>1, <1>2, <1>3, OutcomesTrueStep
<1>13. SweepAnswersTrue'
  BY <1>1, <1>2, <1>3, SweepAnswersTrueStep
<1>14. AnswerRecorded'
  BY <1>1, <1>2, <1>3, AnswerRecordedStep
<1>15. OrderedCalls'
  BY <1>1, <1>2, <1>3, OrderedCallsStep
<1>16. WithinCapacity'
  BY <1>1, <1>2, <1>3, WithinCapacityStep
<1>17. HookAnswersTrue' /\ SentPrefix'
  BY HookAnswersTrueStep, SentPrefixStep
<1>18. VerdictMoves
  BY <1>2, <1>11, <1>12, VerdictsMove
<1>19. OpenWhileDispatching'
  BY <1>1, <1>3, <1>4, <1>18, OpenWhileDispatchingStep
<1> QED
  BY <1>2, <1>3, <1>4, <1>5, <1>6, <1>7, <1>8, <1>9, <1>10, <1>11, <1>12,
     <1>13, <1>14, <1>15, <1>16, <1>17, <1>19

(* The invariant holds in every reachable state.                            *)
LEMMA InvariantIInv == Spec => []IInv
BY InitIInv, StepIInv, PTL DEF Spec

(* Every variable has its type, and whoever is at work is at work on an     *)
(* operation, whoever is inside a step on a step.                           *)
THEOREM TypeCorrect == Spec => []TypeOK
<1>1. IInv => TypeOK
  BY DEF IInv, TypeOK, ExecutorTyped, LeaseTyped, CallTyped, SweeperTyped,
     ProviderTyped, SentTyped, OperationTyped, FaultsTyped
<1> QED BY <1>1, InvariantIInv, PTL

(* A tenant's executors never hold more live leases than its cap, though    *)
(* the count is taken in the transaction of each grant only (_acquire).     *)
THEOREM CapacityRespected == Spec => []WithinCapacity
<1>1. IInv => WithinCapacity
  BY DEF IInv
<1> QED BY <1>1, InvariantIInv, PTL

(* What is released never reached the provider or was refused, what is      *)
(* settled was performed, whoever recorded it and whoever died meanwhile    *)
(* (disposition_for).                                                       *)
THEOREM LedgerIsToldTheTruth == Spec => []DispositionsTrue
<1>1. IInv => DispositionsTrue
  <2> SUFFICES ASSUME IInv, NEW o \in Operations, NEW s \in Steps
               PROVE  /\ Disposition(call[o][s]) = "release" =>
                            provider[o][s] \in {"none", "refused"}
                      /\ Disposition(call[o][s]) = "settle" =>
                            provider[o][s] = "performed"
    BY DEF DispositionsTrue
  <2>1. Truth(call[o][s].outcome, provider[o][s]) /\ call[o][s] \in CallRows
    BY DEF IInv, OutcomesTrue, CallTyped
  <2> QED BY <2>1 DEF Truth, Disposition, CallRows
<1> QED BY <1>1, InvariantIInv, PTL

(* No recovery pass ever asks about a call that its executor may still      *)
(* make, though leases lapse under running executors (execute_provider,     *)
(* fence_expired_lease).                                                    *)
THEOREM RecoveryWaitsForDispatch == Spec => []NeverAskedInFlight
<1>1. IInv => NeverAskedInFlight
  <2> SUFFICES ASSUME IInv, NEW r \in Sweepers, NEW e \in Executors,
                      sweeper[r].pc \in {"asking", "orphan asking"},
                      executor[e].pc \in InHand,
                      sweeper[r].o = executor[e].o, sweeper[r].s = executor[e].s
               PROVE  FALSE
    BY DEF NeverAskedInFlight, InHand
  <2>1. sweeper[r].s \in Steps /\ Watched(r, sweeper[r].s)
    BY DEF IInv, Placed, Watched, AtStep
  <2> QED BY <2>1 DEF IInv, WatchedNotInHand
<1> QED BY <1>1, InvariantIInv, PTL

(* A call's outcome is decided once: neither a late executor nor a rival    *)
(* sweep rewrites it (observe, reconcile).                                  *)
THEOREM OutcomesAreFinal == Spec => OutcomeDecidedOnce
<1>1. ASSUME IInv, [Next]_vars, NEW o \in Operations, NEW s \in Steps,
             call[o][s].stage \notin {"none", "intended"}
      PROVE  /\ call'[o][s].stage = call[o][s].stage
             /\ call'[o][s].outcome = call[o][s].outcome
  <2>1. CallMoves
    BY <1>1, CallsMove DEF IInv
  <2> QED BY <1>1, <2>1 DEF CallMoves, CallMove
<1>2. IInv /\ [Next]_vars =>
        [\A o \in Operations, s \in Steps:
           call[o][s].stage \notin {"none", "intended"} =>
              /\ call'[o][s].stage = call[o][s].stage
              /\ call'[o][s].outcome = call[o][s].outcome]_vars
  BY <1>1
<1> QED BY <1>2, InvariantIInv, PTL DEF Spec, OutcomeDecidedOnce

(* Leases, fences, intents and recovery together implement the promise of   *)
(* PlanRun: the provider sees the plan in order and each step at most once, *)
(* and the conclusion is final and true.                                    *)
THEOREM Refinement == Spec => ImplementsPlanRun
<1>1. Init => P!Init
  <2> SUFFICES ASSUME Init PROVE P!Init
    OBVIOUS
  <2>1. \A o \in Operations: /\ Performed(o) = {}
                            /\ Refused(o) = FALSE
                            /\ Conclusion(o) = "open"
    BY DEF Init, Performed, Refused, Conclusion, Concluded, TERMINAL_STATES
  <2>2. \A o \in Operations: Cardinality(Performed(o)) = 0
    BY <2>1, FS_EmptySet
  <2> QED BY <2>1, <2>2 DEF Init, P!Init
<1>2. ASSUME IInv, IInv', [Next]_vars PROVE [P!Next]_(P!vars)
  <2> USE <1>2 DEF IInv
  <2>1. CASE UNCHANGED <<provider, sent>>
    BY <2>1, VerdictsMove, VerdictConcludes
  <2>2. ASSUME NEW e \in Executors, CallProvider(e) PROVE P!Next
    BY <2>2, CallStarts
  <2>3. ASSUME NEW o \in Operations, NEW s \in Steps, Arrive(o, s) PROVE P!Next
    BY <2>3, ArrivalPerforms
  <2> QED BY <2>1, <2>2, <2>3, ProviderWriters, SentWriters
          DEF ProviderSteps, SentSteps
<1> QED BY <1>1, <1>2, InvariantIInv, PTL DEF Spec, P!Spec, ImplementsPlanRun

=============================================================================
